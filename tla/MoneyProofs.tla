------------------------------ MODULE MoneyProofs ------------------------------
(***************************************************************************)
(* What a checkout charges and what it takes from a campaign.              *)
(*   Pricing: for every cart, offer, card and tier the money of a receipt  *)
(*   adds up, nothing exceeds what the customer brought, the points are    *)
(*   capped, and pricing the cart again for another tier leaves the total  *)
(*   as stored.                                                            *)
(*   PublicBudget: weekly_spent stays within its limits and invents no     *)
(*   spending, for any number of campaigns, checkouts and weeks; while all *)
(*   checkouts pick automatically within one week, so do the discounts.    *)
(***************************************************************************)
EXTENDS Pricing, PublicBudget, TLAPS

-----------------------------------------------------------------------------
\* Rounding.

LEMMA DivRange ==
    ASSUME NEW a \in Nat, NEW b \in Nat \ {0}
    PROVE  a \div b \in Nat /\ b * (a \div b) <= a /\ a < b * (a \div b) + b
  OBVIOUS

LEMMA RoundedRange ==
    ASSUME NEW n \in Nat, NEW d \in Nat \ {0}
    PROVE  Rounded(n, d) \in Nat /\ 2 * (d * Rounded(n, d)) <= 2 * n + d
  <1> DEFINE a == 2 * n + d
             b == 2 * d
  <1>1. a \in Nat /\ b \in Nat \ {0}
    OBVIOUS
  <1>2. /\ Rounded(n, d) \in Nat
        /\ (2 * d) * Rounded(n, d) <= 2 * n + d
    <2>1. Rounded(n, d) = a \div b
      BY DEF Rounded
    <2> HIDE DEF a, b
    <2>2. a \div b \in Nat /\ b * (a \div b) <= a
      BY <1>1, DivRange
    <2> USE DEF a, b
    <2> QED
      BY <2>1, <2>2
  <1>3. \A r \in Nat : (2 * d) * r = 2 * (d * r)
    OBVIOUS
  <1> QED
    BY <1>2, <1>3

\* The nearest share of an sum leaves room for the other share in the other
\* part: rounding never pushes money over the edge of a part.
LEMMA ShareFits ==
    ASSUME NEW all \in Nat, NEW part \in Nat, NEW sum \in Nat,
           0 < part, part < all, sum <= all,
           NEW n \in Share(all, part, sum)
    PROVE  /\ n \in Nat /\ n <= part /\ n <= sum
           /\ sum - n <= all - part
  <1>1. (sum * part) \div all \in Nat
    BY DivRange
  <1>2. n \in Nat
    BY <1>1 DEF Share
  <1> DEFINE x == n * all
             y == sum * part
  <1>3. x \in Nat /\ y \in Nat /\ 2 * x - 2 * y <= all /\ 2 * y - 2 * x <= all
    <2>1. x \in Nat /\ y \in Nat
      BY <1>2
    <2>2. 2 * Abs(x - y) <= all
      BY DEF Share
    <2> HIDE DEF x, y
    <2> QED
      BY <2>1, <2>2 DEF Abs
  <1>4. n <= part
    <2>1. y <= all * part
      OBVIOUS
    <2>2. part + 1 <= n => (part + 1) * all <= x
      BY <1>2
    <2>3. (part + 1) * all = all * part + all
      OBVIOUS
    <2> HIDE DEF x, y
    <2>4. all * part \in Nat
      OBVIOUS
    <2> QED
      BY <1>2, <1>3, <2>1, <2>2, <2>3, <2>4
  <1>5. n <= sum
    <2>1. y <= sum * all
      OBVIOUS
    <2>2. sum + 1 <= n => (sum + 1) * all <= x
      BY <1>2
    <2>3. (sum + 1) * all = sum * all + all
      OBVIOUS
    <2>4. sum * all \in Nat
      OBVIOUS
    <2> HIDE DEF x, y
    <2> QED
      BY <1>2, <1>3, <2>1, <2>2, <2>3, <2>4
  <1>6. sum - n <= all - part
    <2> DEFINE m == sum - n
               room == all - part
               z == sum * room
    <2>1. m \in Nat /\ room \in Nat /\ z \in Nat
      BY <1>2, <1>5
    <2>2. m * all = sum * all - x /\ z = sum * all - y
      BY <1>2
    <2>3. z <= all * room
      BY <2>1
    <2>4. room + 1 <= m => (room + 1) * all <= m * all
      BY <2>1
    <2>5. (room + 1) * all = all * room + all
      BY <2>1
    <2>6. sum * all \in Nat /\ all * room \in Nat /\ m * all \in Int
      BY <2>1
    <2> HIDE DEF x, y, z, m, room
    <2>7. m <= room
      BY <1>3, <2>1, <2>2, <2>3, <2>4, <2>5, <2>6
    <2> QED
      BY <2>7 DEF m, room
  <1> QED
    BY <1>2, <1>4, <1>5, <1>6

\* Splitting an applied sum over two parts takes exactly that sum.
LEMMA SplitExact ==
    ASSUME NEW all \in Nat, NEW eligible \in Nat, NEW sum \in Nat,
           sum <= all, NEW s \in Split(all, eligible, sum)
    PROVE  /\ s \in [part : Nat, rest : Nat]
           /\ Left(s) = all - sum
  <1> DEFINE part == Min(eligible, all)
             shares == IF part <= 0 THEN {0}
                       ELSE IF part >= all THEN {sum}
                       ELSE Share(all, part, sum)
             onPart(n) == Min(Min(n, part), sum)
             onRest(n) == Min(sum - onPart(n), all - part)
             remains(n) == [part |-> Max(part - onPart(n), 0),
                            rest |-> Max(all - part - onRest(n), 0)]
  <1>1. part \in Nat /\ part <= all
    BY DEF Min
  <1>2. CASE all <= 0 \/ sum <= 0
    <2>1. s = [part |-> part, rest |-> all - part]
      BY <1>2 DEF Split
    <2> HIDE DEF part
    <2> QED
      BY <1>1, <1>2, <2>1 DEF Left
  <1>3. CASE ~(all <= 0 \/ sum <= 0)
    <2>1. PICK n \in shares : s = remains(n)
      BY <1>3 DEF Split
    <2>2. /\ n \in Nat /\ Min(Min(n, part), sum) = n
          /\ n <= part /\ n <= sum /\ sum - n <= all - part
      <3> HIDE DEF part
      <3>1. CASE part <= 0
        BY <1>1, <3>1 DEF Min
      <3>2. CASE ~(part <= 0) /\ part >= all
        BY <1>1, <3>2 DEF Min
      <3>3. CASE ~(part <= 0) /\ ~(part >= all)
        BY <1>1, <3>3, ShareFits DEF Min
      <3> QED
        BY <3>1, <3>2, <3>3
    <2>3. onPart(n) = n /\ onRest(n) = sum - n
      BY <1>1, <2>2 DEF Min
    <2> HIDE DEF part
    <2>4. s = [part |-> part - n, rest |-> all - part - (sum - n)]
      BY <1>1, <2>1, <2>2, <2>3 DEF Max
    <2> QED
      BY <1>1, <2>2, <2>4 DEF Left
  <1> QED
    BY <1>2, <1>3

-----------------------------------------------------------------------------
\* What a quote takes off and what it earns.

LEMMA OrderFields ==
    ASSUME NEW o \in Orders
    PROVE  /\ o.gross \in Nat /\ o.eligible \in Nat /\ o.balance \in Nat /\ o.requested \in Nat
           /\ o.offer \in Offers /\ o.offer.value \in Nat
           /\ o.offer.kind = "discount" => o.offer.value <= 10000
  <1>1. /\ o.gross \in Grosses /\ o.eligible \in Eligibles /\ o.offer \in Offers
        /\ o.balance \in Balances /\ o.requested \in Requested
    BY DEF Orders
  <1>2. /\ Grosses \subseteq Nat /\ Eligibles \subseteq Nat
        /\ Balances \subseteq Nat /\ Requested \subseteq Nat
    BY PricingAssumption, Zenon
  <1>3. \A f \in Offers : f \in [kind : OfferKinds, value : Nat, scope : Scopes]
    BY PricingAssumption, Zenon
  <1>4. \A f \in Offers : f.kind = "discount" => f.value <= 10000
    BY PricingAssumption, Zenon
  <1>5. o.gross \in Nat /\ o.eligible \in Nat /\ o.balance \in Nat /\ o.requested \in Nat
    BY <1>1, <1>2
  <1>6. o.offer \in [kind : OfferKinds, value : Nat, scope : Scopes]
    BY <1>1, <1>3
  <1>7. o.offer.value \in Nat
    BY <1>6
  <1>8. o.offer.kind = "discount" => o.offer.value <= 10000
    BY <1>1, <1>4
  <1> QED
    BY <1>1, <1>5, <1>7, <1>8

LEMMA TierFields ==
    ASSUME NEW t \in Tiers
    PROVE  t.rate \in Int /\ t.multiplier \in Nat
  <1>1. t.rate \in RawRates /\ t.multiplier \in TierMultipliers
    BY DEF Tiers
  <1>2. RawRates \subseteq Int /\ TierMultipliers \subseteq Nat \ {0}
    BY PricingAssumption, Zenon
  <1> QED
    BY <1>1, <1>2

LEMMA DiscountRange ==
    ASSUME NEW o \in Orders
    PROVE  Discount(o) \in Nat /\ Discount(o) <= o.eligible
  <1>1. /\ o.eligible \in Nat /\ o.offer.value \in Nat /\ o.offer \in Offers
        /\ o.eligible * o.offer.value \in Nat
    BY OrderFields
  <1>2. CASE o.offer.kind = "discount"
    <2>1. o.offer.value <= 10000
      BY <1>2, OrderFields
    <2>2. o.eligible * o.offer.value <= o.eligible * 10000
      BY <1>1, <2>1
    <2> DEFINE r == Rounded(o.eligible * o.offer.value, 10000)
    <2>3. r \in Nat /\ 2 * (10000 * r) <= 2 * (o.eligible * o.offer.value) + 10000
      BY <1>1, RoundedRange
    <2>4. Discount(o) = r
      BY <1>2 DEF Discount
    <2> HIDE DEF r
    <2> QED
      BY <1>1, <2>2, <2>3, <2>4
  <1>3. CASE o.offer.kind # "discount"
    BY <1>1, <1>3 DEF Discount
  <1> QED
    BY <1>2, <1>3

LEMMA ClampedRange ==
    ASSUME NEW requested \in Nat, NEW payable \in Nat
    PROVE  /\ Clamped(requested, payable) \in Nat
           /\ Clamped(requested, payable) <= requested
           /\ 100 * Clamped(requested, payable) <= payable
  <1>1. payable \div 100 \in Nat /\ 100 * (payable \div 100) <= payable
    BY DivRange
  <1> QED
    BY <1>1 DEF Clamped, Min, Max

LEMMA EffectiveRateRange ==
    ASSUME NEW raw \in Int
    PROVE  EffectiveRate(raw) = 1
  <1>1. CASE raw <= 0
    BY <1>1 DEF EffectiveRate
  <1>2. CASE 0 < raw /\ raw < 100
    BY <1>2 DEF EffectiveRate, Min
  <1>3. CASE 100 <= raw
    <2>1. Rounded(raw, 10) \in Nat /\ 20 * Rounded(raw, 10) > 20
      BY <1>3 DEF Rounded
    <2> QED
      BY <1>3, <2>1 DEF EffectiveRate, Min
  <1> QED
    BY <1>1, <1>2, <1>3

LEMMA TierPointsNat ==
    ASSUME NEW sum \in Nat, NEW t \in Tiers
    PROVE  TierPoints(sum, t) \in Nat
  <1>1. t.rate \in Int /\ t.multiplier \in Nat
    BY TierFields
  <1>2. sum * EffectiveRate(t.rate) \in Nat
    BY <1>1, EffectiveRateRange
  <1>3. Rounded(sum * EffectiveRate(t.rate), 10000) \in Nat
    BY <1>2, RoundedRange
  <1>4. Rounded(sum * EffectiveRate(t.rate), 10000) * t.multiplier \in Nat
    BY <1>1, <1>3
  <1> DEFINE n == Rounded(sum * EffectiveRate(t.rate), 10000) * t.multiplier
  <1>5. TierPoints(sum, t) = Rounded(n, 100)
    BY DEF TierPoints
  <1> HIDE DEF n
  <1>6. n \in Nat
    BY <1>4 DEF n
  <1> QED
    BY <1>5, <1>6, RoundedRange

LEMMA EarnedRange ==
    ASSUME NEW o \in Orders, NEW parts \in [part : Nat, rest : Nat], NEW t \in Tiers
    PROVE  /\ Earned(o, parts, t) \in Nat
           /\ 2000 * Earned(o, parts, t) <= 2 * Left(parts) + 1000
           /\ Left(parts) = 0 => Earned(o, parts, t) = 0
  <1>1. o.offer.value \in Nat /\ parts.part \in Nat /\ parts.rest \in Nat /\ Left(parts) \in Nat
    BY OrderFields DEF Left
  <1>2. ASSUME NEW k \in Nat PROVE Rounded(k * o.offer.value, 100) \in Nat
    <2> DEFINE n == k * o.offer.value
    <2>1. n \in Nat
      BY <1>1
    <2> HIDE DEF n
    <2>2. Rounded(n, 100) \in Nat
      BY <2>1, RoundedRange
    <2> QED
      BY <2>2 DEF n
  <1>3. /\ TierPoints(Left(parts), t) \in Nat /\ TierPoints(parts.part, t) \in Nat
        /\ TierPoints(parts.rest, t) \in Nat
    BY <1>1, TierPointsNat
  <1>4. PICK k \in Nat : Earned(o, parts, t) = Capped(k, Left(parts))
    <2>1. /\ TierPoints(Left(parts), t) \in Nat
          /\ Rounded(TierPoints(Left(parts), t) * o.offer.value, 100) \in Nat
          /\ TierPoints(parts.rest, t)
                + Rounded(TierPoints(parts.part, t) * o.offer.value, 100) \in Nat
      BY <1>2, <1>3
    <2> QED
      BY <2>1 DEF Earned
  <1>5. Rounded(Left(parts), 1000) \in Nat /\ 2 * (1000 * Rounded(Left(parts), 1000)) <= 2 * Left(parts) + 1000
    BY <1>1, RoundedRange
  <1>6. /\ Capped(k, Left(parts)) \in Nat
        /\ 2000 * Capped(k, Left(parts)) <= 2 * Left(parts) + 1000
        /\ Left(parts) = 0 => Capped(k, Left(parts)) = 0
    BY <1>1, <1>5 DEF Capped, Min, Max
  <1> QED
    BY <1>4, <1>6

\* apply_offer_to_totals: what is common to all quotes for an order.
LEMMA PricedExact ==
    ASSUME NEW o \in Orders, NEW t \in Tiers, o.eligible <= o.gross,
           NEW q \in Priced(o, t)
    PROVE  /\ q \in Quotes
           /\ q.discount = Discount(o) /\ q.gift = Gift(o)
           /\ q.points = Clamped(o.requested, AfterDiscount(o) - Gift(o))
           /\ q.net = AfterDiscount(o) - Gift(o) - 100 * q.points
           /\ o.gross = q.discount + q.gift + 100 * q.points + q.net
           /\ q.discount <= o.eligible /\ q.gift <= o.balance /\ q.points <= o.requested
           /\ 2000 * q.earned <= 2 * q.net + 1000
           /\ q.net = 0 => q.earned = 0
  <1>1. /\ o.gross \in Nat /\ o.eligible \in Nat /\ o.balance \in Nat /\ o.requested \in Nat
        /\ Discount(o) \in Nat /\ Discount(o) <= o.eligible
    BY OrderFields, DiscountRange
  <1>2. AfterDiscount(o) = o.gross - Discount(o) /\ AfterDiscount(o) \in Nat
    BY <1>1 DEF AfterDiscount, Max
  <1>3. Gift(o) \in Nat /\ Gift(o) <= AfterDiscount(o) /\ Gift(o) <= o.balance
    BY <1>1, <1>2 DEF Gift, Min
  <1>4. EligibleAfterDiscount(o) \in Nat
    BY <1>1, <1>2 DEF EligibleAfterDiscount, Max
  <1>5. PICK afterGift \in Split(AfterDiscount(o), EligibleAfterDiscount(o), Gift(o)) :
           LET points == Clamped(o.requested, Left(afterGift))
           IN  \E parts \in Split(Left(afterGift), afterGift.part, 100 * points) :
                 q = [discount |-> Discount(o), gift |-> Gift(o), points |-> points,
                      net |-> Left(parts), earned |-> Earned(o, parts, t)]
    BY DEF Priced
  <1> DEFINE payable == Left(afterGift)
             points == Clamped(o.requested, payable)
  <1>6. PICK parts \in Split(payable, afterGift.part, 100 * points) :
           q = [discount |-> Discount(o), gift |-> Gift(o), points |-> points,
                net |-> Left(parts), earned |-> Earned(o, parts, t)]
    BY <1>5
  <1>7. /\ afterGift.part \in Nat /\ payable \in Nat
        /\ payable = AfterDiscount(o) - Gift(o)
    BY <1>2, <1>3, <1>4, SplitExact
  <1> HIDE DEF payable
  <1>8. points \in Nat /\ points <= o.requested /\ 100 * points <= payable
    BY <1>1, <1>7, ClampedRange
  <1> HIDE DEF points
  <1>9. /\ parts \in [part : Nat, rest : Nat]
        /\ Left(parts) = payable - 100 * points
    BY <1>6, <1>7, <1>8, SplitExact
  <1>10. /\ Earned(o, parts, t) \in Nat
         /\ 2000 * Earned(o, parts, t) <= 2 * Left(parts) + 1000
         /\ Left(parts) = 0 => Earned(o, parts, t) = 0
    BY <1>9, EarnedRange
  <1>11. /\ q.discount = Discount(o) /\ q.gift = Gift(o) /\ q.points = points
         /\ q.net = payable - 100 * points /\ q.net = Left(parts)
         /\ q.earned = Earned(o, parts, t)
    BY <1>6, <1>9
  <1>12. payable - 100 * points \in Nat
    BY <1>7, <1>8
  <1>13. q \in Quotes
    BY <1>1, <1>3, <1>6, <1>8, <1>9, <1>10, <1>12 DEF Quotes
  <1>14. points = Clamped(o.requested, AfterDiscount(o) - Gift(o))
    BY <1>7 DEF points
  <1> QED
    BY <1>1, <1>2, <1>3, <1>7, <1>8, <1>10, <1>11, <1>12, <1>13, <1>14

-----------------------------------------------------------------------------
\* The inductive invariant: every quote is one for the order, and the stored
\* total is its net, which no tier has a part in.
QuoteInv ==
    priced => /\ quote.discount = Discount(order) /\ quote.gift = Gift(order)
              /\ quote.points = Clamped(order.requested, AfterDiscount(order) - Gift(order))
              /\ quote.net = AfterDiscount(order) - Gift(order) - 100 * quote.points
              /\ total = quote.net

PricingIInv ==
    /\ PricingTypeOK
    /\ order.eligible <= order.gross
    /\ MoneyAddsUp /\ TakenWithinLimits /\ EarnedIsCapped
    /\ QuoteInv

LEMMA PricingInitInv == PricingInit => PricingIInv
  <1> SUFFICES ASSUME PricingInit PROVE PricingIInv
    OBVIOUS
  <1>1. order \in Orders /\ order.eligible <= order.gross /\ order.gross \in Nat
    BY OrderFields DEF PricingInit
  <1>2. NoQuote \in Quotes
    BY DEF NoQuote, Quotes
  <1>3. \A a \in {quote.discount, quote.gift, 100 * quote.points, quote.net, total} : a = 0
    BY DEF PricingInit, NoQuote
  <1>4. PricingTypeOK
    BY <1>1, <1>2, <1>3 DEF PricingInit, PricingTypeOK
  <1> QED
    BY <1>1, <1>4 DEF PricingIInv, PricingInit, MoneyAddsUp, TakenWithinLimits, EarnedIsCapped,
       QuoteInv, priced

\* A pricing of the order, the first or the second, establishes the invariant.
LEMMA PricingInv ==
    ASSUME PricingIInv, quote' \in Priced(order, tier'), tier' \in Tiers, order' = order,
           stage' \in {"stored", "final"},
           total' = quote'.net
    PROVE  PricingIInv'
  <1>1. order \in Orders /\ order.eligible <= order.gross /\ order.gross \in Nat
    BY OrderFields DEF PricingIInv, PricingTypeOK
  <1> DEFINE q == quote'
  <1>2. /\ q \in Quotes
        /\ q.discount = Discount(order) /\ q.gift = Gift(order)
        /\ q.points = Clamped(order.requested, AfterDiscount(order) - Gift(order))
        /\ q.net = AfterDiscount(order) - Gift(order) - 100 * q.points
        /\ order.gross = q.discount + q.gift + 100 * q.points + q.net
        /\ q.discount <= order.eligible /\ q.gift <= order.balance
        /\ q.points <= order.requested
        /\ 2000 * q.earned <= 2 * q.net + 1000
        /\ q.net = 0 => q.earned = 0
    BY <1>1, PricedExact
  <1>3. /\ q.discount \in Nat /\ q.gift \in Nat /\ q.points \in Nat /\ q.net \in Nat
        /\ q.earned \in Nat
    BY <1>2 DEF Quotes
  <1>4. \A a \in {q.discount, q.gift, 100 * q.points, q.net, total'} : a <= order.gross
    BY <1>1, <1>2, <1>3
  <1>5. PricingTypeOK'
    BY <1>1, <1>2, <1>4 DEF PricingTypeOK
  <1>6. MoneyAddsUp' /\ TakenWithinLimits' /\ EarnedIsCapped'
    BY <1>2 DEF MoneyAddsUp, TakenWithinLimits, EarnedIsCapped
  <1>7. QuoteInv'
    BY <1>2 DEF QuoteInv, Discount, Gift, AfterDiscount
  <1> QED
    BY <1>1, <1>5, <1>6, <1>7 DEF PricingIInv

LEMMA PricingNextInv == PricingIInv /\ [PricingNext]_pricingVars => PricingIInv'
  <1> SUFFICES ASSUME PricingIInv, [PricingNext]_pricingVars PROVE PricingIInv'
    OBVIOUS
  <1>1. CASE Price
    <2>1. /\ quote' \in Priced(order, tier) /\ total' = quote'.net
          /\ stage' = "stored" /\ order' = order /\ tier' = tier
      BY <1>1 DEF Price
    <2>2. tier' \in Tiers
      BY <2>1 DEF PricingIInv, PricingTypeOK
    <2> QED
      BY <2>1, <2>2, PricingInv
  <1>2. CASE Refuse
    <2>1. stage' = "refused" /\ UNCHANGED <<order, tier, quote, total>>
      BY <1>2 DEF Refuse
    <2> QED
      BY <2>1 DEF PricingIInv, PricingTypeOK, MoneyAddsUp, TakenWithinLimits, EarnedIsCapped,
         QuoteInv, priced, Discount, Gift, AfterDiscount
  <1>3. CASE Recalculate
    <2>1. /\ stage = "stored" /\ stage' = "final" /\ tier' \in Tiers
          /\ order' = order /\ total' = total
          /\ quote' = quote \/ quote' \in Priced(order, tier')
      BY <1>3 DEF Recalculate, Again
    <2>2. CASE quote' = quote
      BY <2>1, <2>2 DEF PricingIInv, PricingTypeOK, MoneyAddsUp, TakenWithinLimits, EarnedIsCapped,
         QuoteInv, priced, Discount, Gift, AfterDiscount
    <2>3. CASE quote' \in Priced(order, tier')
      <3>1. /\ quote'.points = Clamped(order.requested, AfterDiscount(order) - Gift(order))
            /\ quote'.net = AfterDiscount(order) - Gift(order) - 100 * quote'.points
        BY <2>1, <2>3, PricedExact DEF PricingIInv, PricingTypeOK
      <3>2. total' = quote'.net
        BY <2>1, <3>1 DEF PricingIInv, QuoteInv, priced
      <3> QED
        BY <2>1, <2>3, <3>2, PricingInv
    <2> QED
      BY <2>1, <2>2, <2>3
  <1>4. CASE UNCHANGED pricingVars
    BY <1>4 DEF PricingIInv, PricingTypeOK, MoneyAddsUp, TakenWithinLimits, EarnedIsCapped,
       QuoteInv, priced, pricingVars, Discount, Gift, AfterDiscount
  <1> QED
    BY <1>1, <1>2, <1>3, <1>4 DEF PricingNext

THEOREM PricingInvariance == PricingSpec => []PricingIInv
  BY PricingInitInv, PricingNextInv, PTL DEF PricingSpec

-----------------------------------------------------------------------------
\* Every variable keeps its type, and no sum of a receipt exceeds the cart.
THEOREM PricingTypeCorrect == PricingSpec => []PricingTypeOK
  <1>1. PricingIInv => PricingTypeOK
    BY DEF PricingIInv
  <1> QED
    BY <1>1, PricingInvariance, PTL

\* The receipt adds up to the last hundredth, for every cart, offer and card and
\* whichever way halves are rounded.
THEOREM ReceiptAddsUp == PricingSpec => []MoneyAddsUp
  <1>1. PricingIInv => MoneyAddsUp
    BY DEF PricingIInv
  <1> QED
    BY <1>1, PricingInvariance, PTL

\* Discount, card and points stay within what the customer brought, and a purchase
\* earns at most a tenth of what is paid, whatever the multipliers.
THEOREM NothingExtra == PricingSpec => []ReceiptWithinLimits
  <1>1. PricingIInv => ReceiptWithinLimits
    BY DEF PricingIInv, ReceiptWithinLimits
  <1> QED
    BY <1>1, PricingInvariance, PTL

\* The total written before the tier is recalculated is the one of the final
\* receipt: a second pricing changes the points earned and nothing else.
THEOREM TotalIsFinal == PricingSpec => []StoredTotalIsFinal
  <1>1. PricingIInv => StoredTotalIsFinal
    BY DEF PricingIInv, QuoteInv, priced, StoredTotalIsFinal
  <1> QED
    BY <1>1, PricingInvariance, PTL

\* Whatever rate is stored for a tier, the rate in effect is one per cent: the
\* rates that the tiers carry have no effect on what a purchase earns.
THEOREM RateIsOnePercent == \A raw \in Int : EffectiveRate(raw) = 1
  BY EffectiveRateRange

-----------------------------------------------------------------------------
\* The budgets of public campaigns.

\* What a checkout remembers of a campaign was true of it once.
CopyInv ==
    \A r \in Requests, c \in Campaigns : Limited(c) =>
        /\ copy[r][c].spent <= granted[c][copy[r][c].week]
        /\ \E l \in limits[c] : copy[r][c].spent <= l

\* Rows and copies show limits that the campaign has had.
LimitInv ==
    \A c \in Campaigns :
        /\ row[c].limit \in limits[c]
        /\ \A r \in Requests : copy[r][c].limit \in limits[c]

\* A checkout that chooses has reset the campaign in its memory; one that is
\* about to spend has checked the limit against that memory.
ChoiceInv ==
    \A r \in Requests :
        /\ pc[r] \in {"reset", "choose", "spend"} /\ kind[r] = "by_id"
              /\ copy[r][pick[r]].limit > 0
              => pc[r] = "reset" \/ copy[r][pick[r]].week = today[r]
        /\ pc[r] = "reset" => kind[r] = "by_id"
        /\ pc[r] \in {"choose", "spend"} /\ kind[r] = "auto" =>
              \A c \in Campaigns : copy[r][c].limit > 0 => copy[r][c].week = today[r]
        /\ pc[r] \in {"choose", "spend"} => kind[r] \in {"auto", "by_id"}
        /\ pc[r] = "spend" => Fits(copy[r][pick[r]], amount[r])

IInv ==
    /\ TypeOK /\ RowWithinLimit /\ NoPhantomSpending
    /\ CopyInv /\ LimitInv /\ ChoiceInv

\* Nothing is from a later week than this one.
TimeInv ==
    /\ \A c \in Campaigns : row[c].week <= now
    /\ \A r \in Requests : today[r] <= now
    /\ \A r \in Requests, c \in Campaigns : copy[r][c].week <= now

\* With automatic picking alone and one week, a checkout that chooses holds all
\* rows and remembers them as they are, and the rows count all discounts given.
AutoInv ==
    /\ \A c \in Campaigns : granted[c][0] = row[c].spent
    /\ \A r \in Requests : pc[r] \in {"choose", "spend"} =>
          \A c \in Campaigns : holder[c] = r /\ copy[r][c] = row[c]

USE BudgetAssumption

LEMMA RowFields ==
    ASSUME NEW g \in Row
    PROVE  g.week \in Weeks /\ g.spent \in Nat /\ g.limit \in Nat
  BY DEF Row

LEMMA FreshRow ==
    ASSUME NEW g \in Row, NEW w \in Weeks
    PROVE  /\ Fresh(g, w) \in Row /\ Fresh(g, w).week = w /\ Fresh(g, w).spent = 0
           /\ Fresh(g, w).limit = g.limit
  BY DEF Fresh, Row

LEMMA InitInv == Init => IInv
  <1> SUFFICES ASSUME Init PROVE IInv
    OBVIOUS
  <1>1. 0 \in Weeks /\ \A l \in Nat : [week |-> 0, spent |-> 0, limit |-> l] \in Row
    BY DEF Weeks, Row
  <1>2. TypeOK
    BY <1>1 DEF Init, TypeOK, Labels
  <1>s. /\ \A c \in Campaigns : /\ row[c].week = 0 /\ row[c].spent = 0
                               /\ row[c].limit = FirstLimit[c] /\ FirstLimit[c] \in Nat
                               /\ limits[c] = {FirstLimit[c]}
        /\ copy = [r \in Requests |-> row]
    BY DEF Init
  <1>3. RowWithinLimit /\ NoPhantomSpending /\ CopyInv /\ LimitInv
    BY <1>1, <1>2, <1>s
    DEF Init, TypeOK, RowWithinLimit, NoPhantomSpending, CopyInv, LimitInv
  <1>4. ChoiceInv
    BY DEF Init, ChoiceInv
  <1> QED
    BY <1>2, <1>3, <1>4 DEF IInv

-----------------------------------------------------------------------------
\* One lemma per action.

LEMMA BeginInv ==
    ASSUME IInv, NEW r \in Requests, Begin(r)
    PROVE  IInv'
  <1> USE DEF IInv
  <1>1. /\ pc' = [pc EXCEPT ![r] = "read"] /\ pc[r] = "start"
        /\ today' = [today EXCEPT ![r] = now]
        /\ UNCHANGED <<row, limits, granted, holder, now, kind, copy, pick, amount>>
    BY DEF Begin, Goto
  <1>2. TypeOK'
    BY <1>1 DEF TypeOK, Labels
  <1>3. RowWithinLimit' /\ NoPhantomSpending' /\ CopyInv' /\ LimitInv'
    BY <1>1 DEF RowWithinLimit, NoPhantomSpending, CopyInv, LimitInv, Limited
  <1>4. ChoiceInv'
    BY <1>1 DEF ChoiceInv, TypeOK, Fits
  <1> QED
    BY <1>2, <1>3, <1>4

\* Reading rows, reset or not, into the memory of a checkout.
LEMMA CopyTaken ==
    ASSUME IInv, NEW r \in Requests, NEW new \in [Campaigns -> Row],
           \A c \in Campaigns : new[c] = row[c] \/ new[c].spent = 0,
           \A c \in Campaigns : new[c].limit = row[c].limit,
           copy' = [copy EXCEPT ![r] = new],
           UNCHANGED <<row, limits, granted>>
    PROVE  copy' \in [Requests -> [Campaigns -> Row]] /\ CopyInv' /\ LimitInv'
  <1>1. copy' \in [Requests -> [Campaigns -> Row]]
    BY DEF IInv, TypeOK
  <1>2. ASSUME NEW q \in Requests, NEW c \in Campaigns, Limited(c)
        PROVE  /\ copy'[q][c].spent <= granted[c][copy'[q][c].week]
               /\ \E l \in limits[c] : copy'[q][c].spent <= l
    <2>1. CASE q # r
      <3>1. copy'[q] = copy[q]
        BY <2>1 DEF IInv, TypeOK
      <3> QED
        BY <1>2, <3>1 DEF IInv, CopyInv
    <2>2. CASE q = r /\ new[c] = row[c]
      <3>1. copy'[q][c] = row[c]
        BY <2>2 DEF IInv, TypeOK
      <3> QED
        BY <1>2, <3>1 DEF IInv, RowWithinLimit, NoPhantomSpending
    <2>3. CASE q = r /\ new[c].spent = 0
      <3>1. copy'[q][c] = new[c] /\ new[c].week \in Weeks
        BY <2>3, RowFields DEF IInv, TypeOK
      <3>2. granted[c][new[c].week] \in Nat /\ row[c].limit \in limits[c] /\ row[c].limit \in Nat
        BY <3>1, RowFields DEF IInv, TypeOK, LimitInv
      <3> QED
        BY <1>2, <2>3, <3>1, <3>2
    <2> QED
      BY <2>1, <2>2, <2>3
  <1>3. CopyInv'
    BY <1>2 DEF CopyInv, Limited
  <1>4. ASSUME NEW q \in Requests, NEW c \in Campaigns PROVE copy'[q][c].limit \in limits[c]
    <2>1. CASE q = r
      BY <2>1 DEF IInv, TypeOK, LimitInv
    <2>2. CASE q # r
      BY <2>2 DEF IInv, TypeOK, LimitInv
    <2> QED
      BY <2>1, <2>2
  <1>5. LimitInv'
    BY <1>4 DEF LimitInv, IInv
  <1> QED
    BY <1>1, <1>3, <1>5

LEMMA ReadAllInv ==
    ASSUME IInv, NEW r \in Requests, ReadAll(r)
    PROVE  IInv'
  <1> USE DEF IInv
  <1> DEFINE new == [c \in Campaigns |->
                       IF Stale(row[c], today[r]) THEN Fresh(row[c], today[r]) ELSE row[c]]
  <1>1. /\ pc' = [pc EXCEPT ![r] = "choose"] /\ kind[r] = "auto"
        /\ holder' = [c \in Campaigns |-> r]
        /\ copy' = [copy EXCEPT ![r] = new]
        /\ UNCHANGED <<row, limits, granted, now, kind, today, pick, amount>>
    BY DEF ReadAll, AllLocked, Goto
  <1>2. today[r] \in Weeks /\ row \in [Campaigns -> Row]
    BY DEF TypeOK
  <1>3. /\ new \in [Campaigns -> Row]
        /\ \A c \in Campaigns : new[c] = row[c] \/ new[c].spent = 0
        /\ \A c \in Campaigns : new[c].limit = row[c].limit
        /\ \A c \in Campaigns : new[c].limit > 0 => new[c].week = today[r]
    BY <1>2, FreshRow DEF Stale
  <1> HIDE DEF new
  <1>4. copy' \in [Requests -> [Campaigns -> Row]] /\ CopyInv' /\ LimitInv'
    BY <1>1, <1>3, CopyTaken
  <1>5. TypeOK'
    BY <1>1, <1>4 DEF TypeOK, Labels
  <1>6. RowWithinLimit' /\ NoPhantomSpending'
    BY <1>1 DEF RowWithinLimit, NoPhantomSpending, Limited
  <1>7. ChoiceInv'
    BY <1>1, <1>3 DEF ChoiceInv, TypeOK, Fits
  <1> QED
    BY <1>4, <1>5, <1>6, <1>7

LEMMA ReadOneInv ==
    ASSUME IInv, NEW r \in Requests, ReadOne(r)
    PROVE  IInv'
  <1> USE DEF IInv
  <1> DEFINE stale == Stale(row[pick[r]], today[r])
  <1>1. /\ pc[r] = "read" /\ kind[r] = "by_id"
        /\ pc' = [pc EXCEPT ![r] = IF stale THEN "reset" ELSE "choose"]
        /\ copy' = [copy EXCEPT ![r] = row]
        /\ UNCHANGED <<row, limits, granted, holder, now, kind, today, pick, amount>>
    BY DEF ReadOne, Goto
  <1>2. copy' \in [Requests -> [Campaigns -> Row]] /\ CopyInv' /\ LimitInv'
    BY <1>1, CopyTaken DEF TypeOK
  <1>3. TypeOK'
    BY <1>1, <1>2 DEF TypeOK, Labels
  <1>4. RowWithinLimit' /\ NoPhantomSpending'
    BY <1>1 DEF RowWithinLimit, NoPhantomSpending, Limited
  <1>5. ~stale /\ row[pick[r]].limit > 0 => row[pick[r]].week = today[r]
    BY DEF Stale
  <1> HIDE DEF stale
  <1>6. ChoiceInv'
    BY <1>1, <1>5 DEF ChoiceInv, TypeOK, Fits
  <1> QED
    BY <1>2, <1>3, <1>4, <1>6

LEMMA ResetInv ==
    ASSUME IInv, NEW r \in Requests, Reset(r)
    PROVE  IInv'
  <1> USE DEF IInv
  <1> DEFINE new == [copy[r] EXCEPT ![pick[r]] = Fresh(copy[r][pick[r]], today[r])]
  <1>1. /\ pc[r] = "reset" /\ pc' = [pc EXCEPT ![r] = "choose"]
        /\ holder' = [holder EXCEPT ![pick[r]] = r]
        /\ copy' = [copy EXCEPT ![r] = new]
        /\ UNCHANGED <<row, limits, granted, now, kind, today, pick, amount>>
    BY DEF Reset, Goto
  <1>2. /\ kind[r] = "by_id" /\ pick[r] \in Campaigns /\ today[r] \in Weeks
        /\ copy[r] \in [Campaigns -> Row]
    BY <1>1 DEF ChoiceInv, TypeOK
  <1>3. /\ new \in [Campaigns -> Row] /\ new[pick[r]].week = today[r]
        /\ new[pick[r]].spent = 0 /\ new[pick[r]].limit = copy[r][pick[r]].limit
        /\ \A c \in Campaigns : c # pick[r] => new[c] = copy[r][c]
    BY <1>2, FreshRow
  <1> HIDE DEF new
  <1>4. copy' \in [Requests -> [Campaigns -> Row]]
    BY <1>1, <1>3 DEF TypeOK
  <1>5. ASSUME NEW q \in Requests, NEW c \in Campaigns, Limited(c)
        PROVE  /\ copy'[q][c].spent <= granted[c][copy'[q][c].week]
               /\ \E l \in limits[c] : copy'[q][c].spent <= l
    <2>1. CASE q = r /\ c = pick[r]
      <3>1. copy'[q][c] = new[c] /\ new[c].spent = 0 /\ new[c].week = today[r]
        BY <1>1, <1>3, <2>1 DEF TypeOK
      <3>2. granted[c][today[r]] \in Nat /\ row[c].limit \in limits[c] /\ row[c].limit \in Nat
        BY <1>2, RowFields DEF TypeOK, LimitInv
      <3> QED
        BY <1>5, <3>1, <3>2
    <2>2. CASE ~(q = r /\ c = pick[r])
      <3>1. copy'[q][c] = copy[q][c]
        BY <1>1, <1>3, <2>2 DEF TypeOK
      <3> QED
        BY <1>5, <3>1 DEF CopyInv
    <2> QED
      BY <2>1, <2>2
  <1>6. CopyInv' /\ LimitInv'
    <2>1. CopyInv'
      BY <1>1, <1>5 DEF CopyInv, Limited
    <2>2. \A q \in Requests, c \in Campaigns : copy'[q][c].limit = copy[q][c].limit
      BY <1>1, <1>3 DEF TypeOK
    <2> QED
      BY <1>1, <2>1, <2>2 DEF LimitInv
  <1>7. TypeOK'
    BY <1>1, <1>4 DEF TypeOK, Labels
  <1>8. RowWithinLimit' /\ NoPhantomSpending'
    BY <1>1 DEF RowWithinLimit, NoPhantomSpending, Limited
  <1>9. ChoiceInv'
    BY <1>1, <1>2, <1>3 DEF ChoiceInv, TypeOK, Fits
  <1> QED
    BY <1>6, <1>7, <1>8, <1>9

LEMMA ChooseInv ==
    ASSUME IInv, NEW r \in Requests, Choose(r)
    PROVE  IInv'
  <1> USE DEF IInv
  <1>1. PICK c \in Campaigns, d \in Discounts :
           /\ kind[r] = "by_id" => c = pick[r]
           /\ Fits(copy[r][c], d)
           /\ pick' = [pick EXCEPT ![r] = c]
           /\ amount' = [amount EXCEPT ![r] = d]
    BY DEF Choose
  <1>2. /\ pc[r] = "choose" /\ pc' = [pc EXCEPT ![r] = "spend"]
        /\ UNCHANGED <<row, limits, granted, holder, now, kind, today, copy>>
    BY DEF Choose, Goto
  <1>3. d \in Nat
    OBVIOUS
  <1>4. TypeOK'
    BY <1>1, <1>2, <1>3 DEF TypeOK, Labels
  <1>5. RowWithinLimit' /\ NoPhantomSpending' /\ CopyInv' /\ LimitInv'
    BY <1>2 DEF RowWithinLimit, NoPhantomSpending, CopyInv, LimitInv, Limited
  <1>6. ChoiceInv'
    <2> SUFFICES ASSUME NEW q \in Requests
        PROVE  /\ pc'[q] \in {"reset", "choose", "spend"} /\ kind[q] = "by_id"
                     /\ copy[q][pick'[q]].limit > 0
                  => pc'[q] = "reset" \/ copy[q][pick'[q]].week = today[q]
               /\ pc'[q] = "reset" => kind[q] = "by_id"
               /\ pc'[q] \in {"choose", "spend"} /\ kind[q] = "auto" =>
                     \A x \in Campaigns : copy[q][x].limit > 0 => copy[q][x].week = today[q]
               /\ pc'[q] \in {"choose", "spend"} => kind[q] \in {"auto", "by_id"}
               /\ pc'[q] = "spend" => Fits(copy[q][pick'[q]], amount'[q])
      BY <1>2 DEF ChoiceInv, Fits
    <2>1. CASE q = r
      <3>1. pick'[q] = c /\ amount'[q] = d /\ pc'[q] = "spend" /\ pc[q] = "choose"
        BY <1>1, <1>2, <2>1 DEF TypeOK
      <3> QED
        BY <1>1, <2>1, <3>1 DEF ChoiceInv
    <2>2. CASE q # r
      <3>1. pick'[q] = pick[q] /\ amount'[q] = amount[q] /\ pc'[q] = pc[q]
        BY <1>1, <1>2, <2>2 DEF TypeOK
      <3> QED
        BY <3>1 DEF ChoiceInv
    <2> QED
      BY <2>1, <2>2
  <1> QED
    BY <1>4, <1>5, <1>6

\* The end of a request: it holds nothing any more.
LEMMA EndOfRequest ==
    ASSUME IInv, NEW r \in Requests, holder' = Released(r),
           pc' = [pc EXCEPT ![r] = "done"],
           row' \in [Campaigns -> Row], granted' \in [Campaigns -> [Weeks -> Nat]],
           limits' \in [Campaigns -> SUBSET Nat],
           UNCHANGED <<now, kind, today, copy, pick, amount>>
    PROVE  TypeOK' /\ ChoiceInv'
  <1>1. /\ holder' \in [Campaigns -> Requests \cup {NoRequest}]
        /\ \A c \in Campaigns : holder'[c] # r
        /\ \A c \in Campaigns, q \in Requests : holder'[c] = q => holder[c] = q
    BY DEF IInv, TypeOK, Released
  <1>2. TypeOK'
    BY <1>1 DEF IInv, TypeOK, Labels
  <1>3. ChoiceInv'
    BY DEF IInv, ChoiceInv, TypeOK, Fits
  <1> QED
    BY <1>2, <1>3

LEMMA NothingFitsInv ==
    ASSUME IInv, NEW r \in Requests, NothingFits(r)
    PROVE  IInv'
  <1> USE DEF IInv
  <1>1. /\ row' = copy[r] /\ holder' = Released(r) /\ pc' = [pc EXCEPT ![r] = "done"]
        /\ UNCHANGED <<limits, granted, now, kind, today, copy, pick, amount>>
    BY DEF NothingFits, Goto
  <1>2. row' \in [Campaigns -> Row]
    BY <1>1 DEF TypeOK
  <1>3. TypeOK' /\ ChoiceInv'
    BY <1>1, <1>2, EndOfRequest DEF TypeOK
  <1>4. RowWithinLimit' /\ NoPhantomSpending' /\ CopyInv' /\ LimitInv'
    BY <1>1 DEF RowWithinLimit, NoPhantomSpending, CopyInv, LimitInv, Limited
  <1> QED
    BY <1>3, <1>4

\* A patch adds a limit, and moves the row to a week of its own at most empty.
LEMMA PatchInv ==
    ASSUME IInv, NEW r \in Requests, Patch(r)
    PROVE  IInv'
  <1> USE DEF IInv
  <1>1. PICK c \in Campaigns, limit \in Limits, reset \in BOOLEAN :
         /\ row' = [row EXCEPT ![c] =
              [week |-> IF reset THEN now ELSE row[c].week,
               spent |-> IF reset THEN 0 ELSE row[c].spent, limit |-> limit]]
         /\ limits' = [limits EXCEPT ![c] = limits[c] \cup {limit}]
    BY DEF Patch
  <1>2. /\ pc[r] = "start" /\ pc' = [pc EXCEPT ![r] = "done"]
        /\ UNCHANGED <<granted, holder, now, kind, today, copy, pick, amount>>
    BY DEF Patch, Goto
  <1> DEFINE g == [week |-> IF reset THEN now ELSE row[c].week,
                   spent |-> IF reset THEN 0 ELSE row[c].spent, limit |-> limit]
  <1>3. /\ g \in Row /\ g.limit = limit /\ now \in Weeks
        /\ g.spent = 0 \/ (g.spent = row[c].spent /\ g.week = row[c].week)
    BY RowFields DEF TypeOK, Row
  <1> HIDE DEF g
  <1>4. /\ row' \in [Campaigns -> Row] /\ row'[c] = g
        /\ \A x \in Campaigns \ {c} : row'[x] = row[x]
        /\ limits' \in [Campaigns -> SUBSET Nat] /\ limits'[c] = limits[c] \cup {limit}
        /\ \A x \in Campaigns : limits[x] \subseteq limits'[x]
        /\ \A x \in Campaigns \ {c} : limits'[x] = limits[x]
    BY <1>1, <1>3 DEF TypeOK, g
  <1>5. TypeOK'
    BY <1>2, <1>4 DEF TypeOK, Labels
  <1>6. ASSUME NEW x \in Campaigns, Limited(x)'
        PROVE  /\ \E l \in limits'[x] : row'[x].spent <= l
               /\ row'[x].spent <= granted[x][row'[x].week]
    <2>1. Limited(x)
      BY <1>4, <1>6 DEF Limited
    <2>2. /\ \E l \in limits'[x] : row[x].spent <= l
          /\ row[x].spent <= granted[x][row[x].week]
      BY <1>4, <2>1 DEF RowWithinLimit, NoPhantomSpending
    <2>3. CASE row'[x].spent = row[x].spent /\ row'[x].week = row[x].week
      BY <2>2, <2>3
    <2>4. CASE row'[x].spent = 0
      <3>1. row'[x].week \in Weeks /\ row[x].spent \in Nat
        BY <1>4, RowFields DEF TypeOK
      <3>2. granted[x][row'[x].week] \in Nat
        BY <3>1 DEF TypeOK
      <3>3. \A l \in limits'[x] : l \in Nat
        BY <1>4
      <3> QED
        BY <2>2, <2>4, <3>1, <3>2, <3>3
    <2> QED
      BY <1>3, <1>4, <2>3, <2>4
  <1>7. RowWithinLimit' /\ NoPhantomSpending'
    BY <1>2, <1>6 DEF RowWithinLimit, NoPhantomSpending
  <1>8. CopyInv'
    BY <1>2, <1>4 DEF CopyInv, Limited
  <1>9. LimitInv'
    BY <1>2, <1>3, <1>4 DEF LimitInv
  <1>10. ChoiceInv'
    BY <1>2 DEF ChoiceInv, TypeOK, Fits
  <1> QED
    BY <1>5, <1>7, <1>8, <1>9, <1>10

LEMMA AbortInv ==
    ASSUME IInv, NEW r \in Requests, Abort(r)
    PROVE  IInv'
  <1> USE DEF IInv
  <1>1. /\ holder' = Released(r) /\ pc' = [pc EXCEPT ![r] = "done"]
        /\ UNCHANGED <<row, limits, granted, now, kind, today, copy, pick, amount>>
    BY DEF Abort, Goto
  <1>2. TypeOK' /\ ChoiceInv'
    BY <1>1, EndOfRequest DEF TypeOK
  <1>3. RowWithinLimit' /\ NoPhantomSpending' /\ CopyInv' /\ LimitInv'
    BY <1>1 DEF RowWithinLimit, NoPhantomSpending, CopyInv, LimitInv, Limited
  <1> QED
    BY <1>2, <1>3

\* What a spending checkout does to the row it picked and to the receipts.
LEMMA SpendEffect ==
    ASSUME IInv, NEW r \in Requests, Spend(r)
    PROVE  LET c == pick[r]
               before == copy[r][c]
           IN  /\ c \in Campaigns /\ before \in Row /\ amount[r] \in Nat
               /\ row' \in [Campaigns -> Row]
               /\ row'[c].week = before.week
               /\ row'[c].spent = before.spent + amount[r]
               /\ row'[c].limit \in {row[c].limit, before.limit}
               /\ \A x \in Campaigns \ {c} : row'[x] = row[x] \/ row'[x] = copy[r][x]
               /\ granted' \in [Campaigns -> [Weeks -> Nat]]
               /\ granted'[c][today[r]] = granted[c][today[r]] + amount[r]
               /\ \A x \in Campaigns, w \in Weeks :
                     /\ granted'[x][w] >= granted[x][w]
                     /\ x # c => granted'[x][w] = granted[x][w]
               /\ before.limit > 0 => /\ before.week = today[r]
                                      /\ before.spent + amount[r] <= before.limit
  <1> USE DEF IInv
  <1> DEFINE c == pick[r]
             before == copy[r][c]
             old == IF kind[r] = "auto" THEN copy[r] ELSE row
  <1>1. /\ pc[r] = "spend" /\ c \in Campaigns /\ before \in Row /\ amount[r] \in Nat
        /\ old \in [Campaigns -> Row] /\ today[r] \in Weeks
        /\ kind[r] \in Kinds
    BY DEF Spend, TypeOK
  <1>2. /\ row' = [old EXCEPT ![c] = Spent(r)]
        /\ granted' = [granted EXCEPT ![c][today[r]] = @ + amount[r]]
    BY DEF Spend
  <1>3. /\ Spent(r) \in Row /\ Spent(r).week = before.week
        /\ Spent(r).spent = before.spent + amount[r] /\ Spent(r).limit = row[c].limit
    <2>1. row[c] \in Row
      BY <1>1 DEF TypeOK
    <2>2. before.week \in Weeks /\ before.spent + amount[r] \in Nat
      BY <1>1, RowFields
    <2>3. Spent(r) = [row[c] EXCEPT !.week = before.week, !.spent = before.spent + amount[r]]
      BY DEF Spent
    <2> HIDE DEF before, c
    <2> QED
      BY <2>1, <2>2, <2>3 DEF Row
  <1>4. \A x \in Campaigns : old[x] = row[x] \/ old[x] = copy[r][x]
    OBVIOUS
  <1> HIDE DEF old
  <1>5. /\ row' \in [Campaigns -> Row] /\ row'[c] = Spent(r)
        /\ \A x \in Campaigns \ {c} : row'[x] = old[x]
    BY <1>1, <1>2, <1>3
  <1>6. granted \in [Campaigns -> [Weeks -> Nat]]
    BY DEF TypeOK
  <1>7. granted' \in [Campaigns -> [Weeks -> Nat]]
    BY <1>1, <1>2, <1>6
  <1>8. granted'[c][today[r]] = granted[c][today[r]] + amount[r]
    BY <1>1, <1>2, <1>6
  <1>9. ASSUME NEW x \in Campaigns, NEW w \in Weeks
        PROVE  /\ granted'[x][w] >= granted[x][w]
               /\ x # c => granted'[x][w] = granted[x][w]
    <2>0. granted[x][w] \in Nat
      BY <1>6
    <2>1. CASE x = c /\ w = today[r]
      BY <1>1, <1>8, <2>0, <2>1
    <2>2. CASE ~(x = c /\ w = today[r])
      <3>1. granted'[x][w] = granted[x][w]
        BY <1>1, <1>2, <1>6, <2>2
      <3> QED
        BY <2>0, <3>1
    <2> QED
      BY <2>1, <2>2
  <1>10. ASSUME before.limit > 0
         PROVE  before.week = today[r] /\ before.spent + amount[r] <= before.limit
    <2>1. before.week = today[r]
      BY <1>1, <1>10 DEF ChoiceInv
    <2>2. Fits(before, amount[r]) /\ before.limit \in Nat /\ before.spent \in Nat
      BY <1>1, RowFields DEF ChoiceInv
    <2> QED
      BY <1>1, <1>10, <2>1, <2>2 DEF Fits
  <1> QED
    BY <1>1, <1>3, <1>4, <1>5, <1>7, <1>8, <1>9, <1>10

LEMMA SpendInv ==
    ASSUME IInv, NEW r \in Requests, Spend(r)
    PROVE  IInv'
  <1> USE DEF IInv
  <1> DEFINE c == pick[r]
             before == copy[r][c]
  <1>1. /\ holder' = Released(r) /\ pc' = [pc EXCEPT ![r] = "done"]
        /\ UNCHANGED <<limits, now, kind, today, copy, pick, amount>>
    BY DEF Spend, Goto
  <1>2. /\ c \in Campaigns /\ before \in Row /\ amount[r] \in Nat
        /\ row' \in [Campaigns -> Row]
        /\ row'[c].week = before.week
        /\ row'[c].spent = before.spent + amount[r]
        /\ row'[c].limit \in {row[c].limit, before.limit}
        /\ \A x \in Campaigns \ {c} : row'[x] = row[x] \/ row'[x] = copy[r][x]
        /\ granted' \in [Campaigns -> [Weeks -> Nat]]
        /\ granted'[c][today[r]] = granted[c][today[r]] + amount[r]
        /\ \A x \in Campaigns, w \in Weeks :
              /\ granted'[x][w] >= granted[x][w]
              /\ x # c => granted'[x][w] = granted[x][w]
        /\ before.limit > 0 => /\ before.week = today[r]
                               /\ before.spent + amount[r] <= before.limit
    BY SpendEffect
  <1> HIDE DEF c, before
  <1>3. TypeOK' /\ ChoiceInv'
    BY <1>1, <1>2, EndOfRequest DEF TypeOK
  <1>4. ASSUME NEW q \in Requests, NEW x \in Campaigns, Limited(x)
        PROVE  /\ copy[q][x].spent <= granted'[x][copy[q][x].week]
               /\ \E l \in limits[x] : copy[q][x].spent <= l
    <2>1. /\ copy[q][x].week \in Weeks /\ copy[q][x].spent \in Nat
          /\ copy[q][x].spent <= granted[x][copy[q][x].week]
          /\ \E l \in limits[x] : copy[q][x].spent <= l
      BY <1>4, RowFields DEF TypeOK, CopyInv
    <2>2. /\ granted[x][copy[q][x].week] \in Nat
          /\ granted'[x][copy[q][x].week] \in Nat
          /\ granted'[x][copy[q][x].week] >= granted[x][copy[q][x].week]
      BY <1>2, <2>1 DEF TypeOK
    <2> QED
      BY <2>1, <2>2
  <1>5. CopyInv' /\ LimitInv'
    <2>1. CopyInv'
      BY <1>1, <1>4 DEF CopyInv, Limited
    <2>2. \A x \in Campaigns : row'[x].limit \in limits[x]
      <3>1. row'[c].limit \in limits[c]
        BY <1>2 DEF LimitInv, before, c
      <3>2. \A x \in Campaigns \ {c} : row'[x].limit \in limits[x]
        BY <1>2 DEF LimitInv
      <3> QED
        BY <3>1, <3>2
    <2> QED
      BY <1>1, <2>1, <2>2 DEF LimitInv
  <1>6. ASSUME NEW x \in Campaigns, Limited(x)
        PROVE  /\ \E l \in limits[x] : row'[x].spent <= l
               /\ row'[x].spent <= granted'[x][row'[x].week]
    <2>1. CASE x = c
      <3>0. before.limit \in limits[x] /\ before.limit \in Nat /\ before.limit > 0
        <4>1. before.limit \in limits[x] /\ before.limit \in Nat
          BY <1>2, <2>1, RowFields DEF LimitInv, before, c
        <4> QED
          BY <1>6, <4>1 DEF Limited
      <3>1. before.spent <= granted[x][today[r]]
        BY <1>2, <1>6, <2>1, <3>0 DEF CopyInv, before, c
      <3>2. granted[x][today[r]] \in Nat /\ before.spent \in Nat
        BY <1>2, RowFields DEF TypeOK
      <3> QED
        BY <1>2, <1>6, <2>1, <3>0, <3>1, <3>2
    <2>2. CASE x # c /\ row'[x] = copy[r][x]
      BY <1>4, <1>6, <2>2
    <2>3. CASE x # c /\ row'[x] = row[x]
      <3>1. /\ \E l \in limits[x] : row[x].spent <= l
            /\ row[x].spent <= granted[x][row[x].week]
        BY <1>6 DEF RowWithinLimit, NoPhantomSpending, Limited
      <3>2. row[x].week \in Weeks
        BY RowFields DEF TypeOK
      <3> QED
        BY <1>2, <2>3, <3>1, <3>2
    <2> QED
      BY <1>2, <2>1, <2>2, <2>3
  <1>7. RowWithinLimit' /\ NoPhantomSpending'
    BY <1>1, <1>6 DEF RowWithinLimit, NoPhantomSpending, Limited
  <1> QED
    BY <1>3, <1>5, <1>7

LEMMA NextInv == IInv /\ [Next]_vars => IInv'
  <1> SUFFICES ASSUME IInv, [Next]_vars PROVE IInv'
    OBVIOUS
  <1>1. ASSUME NEW r \in Requests,
               \/ Begin(r) \/ ReadAll(r) \/ ReadOne(r) \/ Reset(r) \/ Choose(r)
               \/ NothingFits(r) \/ Spend(r) \/ Abort(r) \/ Patch(r)
        PROVE  IInv'
    BY <1>1, BeginInv, ReadAllInv, ReadOneInv, ResetInv, ChooseInv,
       NothingFitsInv, SpendInv, AbortInv, PatchInv
  <1>2. CASE NextWeek
    <2>1. /\ now' \in Weeks
          /\ UNCHANGED <<row, limits, granted, holder, kind, pc, today, copy, pick, amount>>
      BY <1>2 DEF NextWeek, IInv, TypeOK, Weeks
    <2> QED
      BY <2>1 DEF IInv, TypeOK, RowWithinLimit, NoPhantomSpending, CopyInv, LimitInv, Limited,
         ChoiceInv, Fits
  <1>3. CASE UNCHANGED vars
    BY <1>3 DEF IInv, TypeOK, RowWithinLimit, NoPhantomSpending, CopyInv, LimitInv, Limited,
       ChoiceInv, Fits, vars
  <1> QED
    BY <1>1, <1>2, <1>3 DEF Next

THEOREM Invariance == Spec => []IInv
  BY InitInv, NextInv, PTL DEF Spec

-----------------------------------------------------------------------------
\* The variables keep their types, and row locks end with their transactions.
THEOREM TypeCorrect == Spec => []TypeOK
  <1>1. IInv => TypeOK
    BY DEF IInv
  <1> QED
    BY <1>1, Invariance, PTL

\* weekly_spent never passes weekly_limit and counts no discount that was not
\* granted in its week, whichever way checkouts find their offers and however they
\* straddle a change of week.
THEOREM RowSafety == Spec => []RowIsRight
  <1>1. IInv => RowIsRight
    BY DEF IInv, RowIsRight
  <1> QED
    BY <1>1, Invariance, PTL

-----------------------------------------------------------------------------
\* Automatic picking within one week.

LEMMA AutoNext ==
    ASSUME IInv, TimeInv, AllAuto, now = 0, AutoInv, [Next]_vars, now' = 0
    PROVE  AutoInv'
  <1> USE DEF IInv
  <1>1. /\ \A r \in Requests : kind[r] = "auto" /\ today[r] = 0
        /\ \A c \in Campaigns : row[c] \in Row /\ row[c].week = 0
    <2>1. \A w \in Weeks : w <= 0 => w = 0
      BY DEF Weeks
    <2>2. \A r \in Requests : kind[r] = "auto" /\ today[r] = 0
      BY <2>1 DEF TimeInv, TypeOK, AllAuto
    <2>3. \A c \in Campaigns : row[c] \in Row /\ row[c].week = 0
      BY <2>1, RowFields DEF TimeInv, TypeOK
    <2> QED
      BY <2>2, <2>3
  <1>2. ASSUME NEW r \in Requests, Begin(r) PROVE AutoInv'
    BY <1>2 DEF Begin, Goto, AutoInv, TypeOK
  <1>3. ASSUME NEW r \in Requests, ReadAll(r) PROVE AutoInv'
    <2>1. /\ pc' = [pc EXCEPT ![r] = "choose"]
          /\ \A c \in Campaigns : holder[c] \in {NoRequest, r} /\ holder'[c] = r
          /\ UNCHANGED <<row, granted>>
      BY <1>3 DEF ReadAll, AllLocked, FreeFor, Goto
    <2>2. copy' = [copy EXCEPT ![r] = [c \in Campaigns |-> row[c]]]
      BY <1>1, <1>3 DEF ReadAll, Stale
    <2>3. ASSUME NEW q \in Requests, pc'[q] \in {"choose", "spend"}, NEW c \in Campaigns
          PROVE  holder'[c] = q /\ copy'[q][c] = row[c]
      <3>1. CASE q = r
        BY <2>1, <2>2, <3>1 DEF TypeOK
      <3>2. CASE q # r
        <4>1. pc[q] \in {"choose", "spend"}
          BY <2>1, <2>3, <3>2 DEF TypeOK
        <4>2. holder[c] = q
          BY <4>1, <2>3 DEF AutoInv
        <4> QED
          BY <2>1, <3>2, <4>2
      <3> QED
        BY <3>1, <3>2
    <2> QED
      BY <2>1, <2>3 DEF AutoInv
  <1>4. ASSUME NEW r \in Requests, ReadOne(r) \/ Reset(r) PROVE AutoInv'
    BY <1>1, <1>4 DEF ReadOne, Reset, ChoiceInv
  <1>5. ASSUME NEW r \in Requests, Choose(r) PROVE AutoInv'
    BY <1>5 DEF Choose, Goto, AutoInv, TypeOK
  <1>6. ASSUME NEW r \in Requests, NEW c \in Campaigns, NEW q \in Requests,
               pc[r] \in {"choose", "spend"}, q # r
        PROVE  pc[q] \notin {"choose", "spend"}
    BY <1>6 DEF AutoInv
  <1>7. ASSUME NEW r \in Requests, NothingFits(r) PROVE AutoInv'
    <2>1. /\ pc[r] = "choose" /\ row' = copy[r] /\ pc' = [pc EXCEPT ![r] = "done"]
          /\ UNCHANGED <<granted, copy>>
      BY <1>7 DEF NothingFits, Goto
    <2>2. \A c \in Campaigns : row'[c] = row[c]
      BY <2>1 DEF AutoInv
    <2>3. ASSUME NEW q \in Requests, NEW c \in Campaigns
          PROVE  pc'[q] \notin {"choose", "spend"}
      BY <1>6, <2>1 DEF TypeOK
    <2> QED
      BY <2>1, <2>2, <2>3 DEF AutoInv
  <1>8. ASSUME NEW r \in Requests, Spend(r) PROVE AutoInv'
    <2>1. pc[r] = "spend" /\ pc' = [pc EXCEPT ![r] = "done"] /\ UNCHANGED copy
      BY <1>8 DEF Spend, Goto
    <2>2. \A c \in Campaigns : copy[r][c] = row[c]
      BY <2>1 DEF AutoInv
    <2>3. ASSUME NEW q \in Requests, NEW c \in Campaigns
          PROVE  pc'[q] \notin {"choose", "spend"}
      BY <1>6, <2>1 DEF TypeOK
    <2>4. ASSUME NEW c \in Campaigns PROVE granted'[c][0] = row'[c].spent
      <3>0. granted[c][0] = row[c].spent /\ 0 \in Weeks
        BY <2>4 DEF AutoInv, Weeks
      <3>1. CASE c = pick[r]
        BY <1>1, <1>8, <2>2, <3>0, <3>1, SpendEffect
      <3>2. CASE c # pick[r]
        BY <1>8, <2>2, <3>0, <3>2, SpendEffect
      <3> QED
        BY <3>1, <3>2
    <2> QED
      BY <2>3, <2>4 DEF AutoInv
  <1>9. ASSUME NEW r \in Requests, Abort(r) PROVE AutoInv'
    <2>1. /\ pc' = [pc EXCEPT ![r] = "done"] /\ holder' = Released(r)
          /\ UNCHANGED <<row, granted, copy>>
      BY <1>9 DEF Abort, Goto
    <2>2. \A c \in Campaigns, q \in Requests \ {r} : holder[c] = q => holder'[c] = q
      BY <2>1 DEF Released
    <2> QED
      BY <2>1, <2>2 DEF AutoInv, TypeOK
  <1>10. CASE NextWeek
    BY <1>10 DEF NextWeek, TypeOK, Weeks
  <1>11. CASE UNCHANGED vars
    BY <1>11 DEF vars, AutoInv
  <1>12. ASSUME NEW r \in Requests, Patch(r) PROVE AutoInv'
    BY <1>1, <1>12 DEF Patch
  <1> QED
    BY <1>2, <1>3, <1>4, <1>5, <1>7, <1>8, <1>9, <1>10, <1>11, <1>12 DEF Next

\* A step takes its dates from the clock, from a row or from a copy.
LEMMA TimeNext ==
    ASSUME IInv, TimeInv, [Next]_vars
    PROVE  TimeInv' /\ now <= now' /\ UNCHANGED kind
  <1> USE DEF IInv
  <1>1. now \in Nat /\ today \in [Requests -> Weeks]
        /\ row \in [Campaigns -> Row] /\ copy \in [Requests -> [Campaigns -> Row]]
    BY DEF TypeOK, Weeks
  <1>2. ASSUME NEW r \in Requests, Begin(r) PROVE TimeInv' /\ now' = now /\ kind' = kind
    BY <1>1, <1>2 DEF Begin, TimeInv
  <1>3. ASSUME NEW r \in Requests, NEW new \in [Campaigns -> Row],
               \A c \in Campaigns : new[c].week <= now,
               copy' = [copy EXCEPT ![r] = new], UNCHANGED <<row, today, now>>
        PROVE  TimeInv'
    <2>1. \A q \in Requests, c \in Campaigns : copy'[q][c].week <= now
      BY <1>1, <1>3 DEF TimeInv
    <2> QED
      BY <1>3, <2>1 DEF TimeInv
  <1>4. ASSUME NEW r \in Requests, ReadAll(r) PROVE TimeInv' /\ now' = now /\ kind' = kind
    <2> DEFINE new == [c \in Campaigns |->
                         IF Stale(row[c], today[r]) THEN Fresh(row[c], today[r]) ELSE row[c]]
    <2>1. copy' = [copy EXCEPT ![r] = new] /\ UNCHANGED <<row, today, now, kind>>
      BY <1>4 DEF ReadAll
    <2>2. new \in [Campaigns -> Row] /\ \A c \in Campaigns : new[c].week <= now
      BY <1>1, FreshRow DEF TimeInv
    <2> HIDE DEF new
    <2> QED
      BY <1>3, <2>1, <2>2
  <1>5. ASSUME NEW r \in Requests, ReadOne(r) PROVE TimeInv' /\ now' = now /\ kind' = kind
    <2>1. copy' = [copy EXCEPT ![r] = row] /\ UNCHANGED <<row, today, now, kind>>
      BY <1>5 DEF ReadOne
    <2> QED
      BY <1>1, <1>3, <2>1 DEF TimeInv
  <1>6. ASSUME NEW r \in Requests, Reset(r) PROVE TimeInv' /\ now' = now /\ kind' = kind
    <2> DEFINE new == [copy[r] EXCEPT ![pick[r]] = Fresh(copy[r][pick[r]], today[r])]
    <2>1. copy' = [copy EXCEPT ![r] = new] /\ UNCHANGED <<row, today, now, kind>>
      BY <1>6 DEF Reset
    <2>2. /\ Fresh(copy[r][pick[r]], today[r]) \in Row
          /\ Fresh(copy[r][pick[r]], today[r]).week = today[r]
      <3>1. copy[r][pick[r]] \in Row /\ today[r] \in Weeks
        BY DEF TypeOK
      <3> QED
        BY <3>1, FreshRow
    <2>3. new \in [Campaigns -> Row]
      <3>1. copy[r] \in [Campaigns -> Row]
        BY <1>1
      <3> QED
        BY <2>2, <3>1
    <2>4. ASSUME NEW c \in Campaigns PROVE new[c].week <= now
      <3>1. CASE c = pick[r]
        BY <1>1, <2>2, <3>1 DEF TimeInv
      <3>2. CASE c # pick[r]
        BY <1>1, <3>2 DEF TimeInv
      <3> QED
        BY <3>1, <3>2
    <2> HIDE DEF new
    <2> QED
      BY <1>3, <2>1, <2>3, <2>4
  <1>7. ASSUME NEW r \in Requests, Choose(r) \/ Abort(r)
        PROVE  TimeInv' /\ now' = now /\ kind' = kind
    BY <1>7 DEF Choose, Abort, TimeInv
  <1>8. ASSUME NEW r \in Requests, NothingFits(r)
        PROVE  TimeInv' /\ now' = now /\ kind' = kind
    BY <1>8 DEF NothingFits, TimeInv
  <1>9. ASSUME NEW r \in Requests, Spend(r) PROVE TimeInv' /\ now' = now /\ kind' = kind
    <2>1. UNCHANGED <<now, kind, today, copy>>
      BY <1>9 DEF Spend
    <2>2. \A c \in Campaigns : row'[c].week \in {row[c].week, copy[r][c].week}
      BY <1>9, SpendEffect
    <2> QED
      BY <2>1, <2>2 DEF TimeInv
  <1>10. CASE NextWeek
    <2>1. now' = now + 1 /\ UNCHANGED <<row, today, copy, kind>>
      BY <1>10 DEF NextWeek
    <2>2. \A w \in Weeks : w \in Nat
      BY DEF Weeks
    <2> QED
      BY <1>1, <2>1, <2>2, RowFields DEF TimeInv
  <1>11. CASE UNCHANGED vars
    BY <1>1, <1>11 DEF vars, TimeInv
  <1>12. ASSUME NEW r \in Requests, Patch(r) PROVE TimeInv' /\ now' = now /\ kind' = kind
    <2>1. UNCHANGED <<now, kind, today, copy>>
      BY <1>12 DEF Patch
    <2>2. \A c \in Campaigns : row'[c].week \in {row[c].week, now}
      BY <1>1, <1>12 DEF Patch
    <2> QED
      BY <1>1, <2>1, <2>2 DEF TimeInv
  <1> QED
    BY <1>1, <1>2, <1>4, <1>5, <1>6, <1>7, <1>8, <1>9, <1>10, <1>11, <1>12 DEF Next

\* Only a patch sets a limit.
LimitsStay == \A c \in Campaigns : limits[c] = {FirstLimit[c]}

LEMMA LimitsNext ==
    ASSUME AllAuto, LimitsStay, [Next]_vars
    PROVE  LimitsStay'
  <1>1. ASSUME NEW r \in Requests PROVE ~Patch(r)
    BY DEF Patch, AllAuto
  <1>2. limits' = limits
    BY <1>1 DEF Next, Begin, ReadAll, ReadOne, Reset, Choose, NothingFits, Spend, Abort,
                NextWeek, vars
  <1> QED
    BY <1>2 DEF LimitsStay

\* While all checkouts pick automatically and the week does not change, the
\* discounts given stay within the limit of every campaign: the row locks of
\* _active_public_campaigns_qs make its budget check good until the commit.
THEOREM AutomaticPickingKeepsTheLimit == Spec => []AutomaticKeepsTheLimit
  <1> DEFINE Week == /\ TimeInv
                     /\ AllAuto => LimitsStay
                     /\ AllAuto /\ now = 0 => AutoInv
  <1>1. Init => Week
    BY DEF Init, TimeInv, LimitsStay, AutoInv, Weeks
  <1>2. IInv /\ Week /\ [Next]_vars => Week'
    <2> SUFFICES ASSUME IInv, Week, [Next]_vars PROVE Week'
      OBVIOUS
    <2>1. TimeInv' /\ now <= now' /\ UNCHANGED kind
      BY TimeNext
    <2>2. ASSUME AllAuto', now' = 0 PROVE AutoInv'
      <3>1. AllAuto /\ now = 0
        BY <2>1, <2>2 DEF AllAuto, IInv, TypeOK, Weeks
      <3> QED
        BY <2>2, <3>1, AutoNext
    <2>3. ASSUME AllAuto' PROVE LimitsStay'
      <3>1. AllAuto
        BY <2>1, <2>3 DEF AllAuto
      <3> QED
        BY <3>1, LimitsNext
    <2> QED
      BY <2>1, <2>2, <2>3
  <1>3. IInv /\ Week => AutomaticKeepsTheLimit
    <2> SUFFICES ASSUME IInv, LimitsStay, AutoInv, NEW c \in Campaigns, row[c].limit > 0
                 PROVE  granted[c][0] <= row[c].limit
      BY DEF AutomaticKeepsTheLimit
    <2>1. limits[c] = {row[c].limit}
      BY DEF IInv, LimitInv, LimitsStay
    <2>2. row[c].spent <= row[c].limit
      BY <2>1 DEF IInv, RowWithinLimit, Limited
    <2> QED
      BY <2>2 DEF AutoInv
  <1> QED
    BY <1>1, <1>2, <1>3, Invariance, PTL DEF Spec
=============================================================================
