------------------------------- MODULE Pricing -------------------------------
(***************************************************************************)
(* The price of a checkout (checkout_app/pricing.py, loyalty/points.py):   *)
(* what the offer, the gift card and the points take off the cart, what is *)
(* left to pay, and the points it earns.  Money is counted in hundredths,  *)
(* a point is worth 100 of them; percentages and multipliers are counted   *)
(* in hundredths too.                                                      *)
(*                                                                         *)
(* A checkout prices the cart, stores the total, recalculates the tier of  *)
(* the customer (the new total counts) and prices the cart again when the  *)
(* tier has changed.                                                       *)
(***************************************************************************)
EXTENDS Integers

CONSTANTS
    Grosses,       \* cart totals
    Eligibles,     \* totals of the items the target of the offer covers
    Offers,        \* offers: [kind, value, scope]
    Balances,      \* gift card balances, 0 for none
    Requested,     \* points the customer asks to redeem
    RawRates,      \* Tier.points_rate, in hundredths
    TierMultipliers

OfferKinds == {"discount", "multiplier"}
Scopes == {"cart", "part"}

ASSUME PricingAssumption ==
    /\ Grosses \subseteq Nat /\ Eligibles \subseteq Nat
    /\ Offers \subseteq [kind : OfferKinds, value : Nat, scope : Scopes]
    /\ \A f \in Offers : f.kind = "discount" => f.value <= 10000
    /\ Balances \subseteq Nat /\ Requested \subseteq Nat
    /\ RawRates \subseteq Int
    /\ TierMultipliers \subseteq Nat \ {0}

VARIABLES
    order,    \* the cart and everything the customer brings
    tier,     \* [rate, multiplier] of the customer's tier
    stage,    \* where the checkout is
    quote,    \* the result of apply_offer_to_totals
    total     \* Transaction.total_amount

pricingVars == <<order, tier, stage, quote, total>>

Orders == [gross : Grosses, eligible : Eligibles, offer : Offers,
           balance : Balances, requested : Requested]
Tiers == [rate : RawRates, multiplier : TierMultipliers]
Quotes == [discount : Nat, gift : Nat, points : Nat, net : Nat, earned : Nat]
NoQuote == [discount |-> 0, gift |-> 0, points |-> 0, net |-> 0, earned |-> 0]

Min(a, b) == IF a <= b THEN a ELSE b
Max(a, b) == IF a >= b THEN a ELSE b
Abs(a) == IF a >= 0 THEN a ELSE -a

\* n/d rounded to the nearest integer, halves up (ROUND_HALF_UP, n >= 0).
Rounded(n, d) == (2 * n + d) \div (2 * d)

-----------------------------------------------------------------------------
\* What is taken off.

\* Seeded fault: the percentage is taken of the whole cart.
Discount_OfCart(o) ==
    IF o.offer.kind = "discount" THEN Rounded(o.gross * o.offer.value, 10000) ELSE 0

Discount(o) ==
    IF o.offer.kind = "discount" THEN Rounded(o.eligible * o.offer.value, 10000) ELSE 0

AfterDiscount(o) == Max(o.gross - Discount(o), 0)

\* An offer for the cart covers everything, even when its product or brand
\* lists left items out of the eligible total.
EligibleAfterDiscount(o) ==
    IF o.offer.kind # "discount" THEN o.eligible
    ELSE IF o.offer.scope = "cart" THEN AfterDiscount(o)
    ELSE Max(o.eligible - Discount(o), 0)

\* Seeded fault: the share is cut to whole units of currency.
Share_Cut(all, part, amount) == {((amount * part) \div (100 * all)) * 100}

\* The share of an amount that falls on a part of the total, rounded to the
\* nearest hundredth.  The quotient is a Decimal of 28 digits, so a half may
\* be rounded either way.
Share(all, part, amount) ==
    LET q == (amount * part) \div all
    IN  {n \in {q, q + 1} : 2 * Abs(n * all - amount * part) <= all}

\* _split_applied_amount: an amount already applied to the total is spread over
\* its eligible part and the rest; what remains of both is returned.
Split(all, eligible, amount) ==
    LET part == Min(eligible, all)
        shares == IF part <= 0 THEN {0}
                  ELSE IF part >= all THEN {amount}
                  ELSE Share(all, part, amount)
        Remains(n) ==
            LET onPart == Min(Min(n, part), amount)
                onRest == Min(amount - onPart, all - part)
            IN  [part |-> Max(part - onPart, 0),
                 rest |-> Max(all - part - onRest, 0)]
    IN  IF all <= 0 \/ amount <= 0
        THEN {[part |-> part, rest |-> all - part]}
        ELSE {Remains(n) : n \in shares}

Left(parts) == parts.part + parts.rest

Gift(o) == Min(o.balance, AfterDiscount(o))

\* clamp_redeem_points: whole points only, and no more than there is to pay.
Clamped(requested, payable) ==
    IF payable <= 0 THEN 0 ELSE Max(0, Min(requested, payable \div 100))

-----------------------------------------------------------------------------
\* What is earned.

\* get_effective_points_rate, of a rate with two decimals.
EffectiveRate(raw) ==
    IF raw <= 0 THEN 1
    ELSE Min(1, IF raw >= 100 THEN Rounded(raw, 10) ELSE raw)

TierPoints(amount, t) ==
    Rounded(Rounded(amount * EffectiveRate(t.rate), 10000) * t.multiplier, 100)

\* Seeded fault: nobody caps the points.
Capped_Not(points, net) == points

\* cap_earned_points: at most a tenth of what is paid.
Capped(points, net) ==
    IF net <= 0 THEN 0 ELSE Max(0, Min(points, Rounded(net, 1000)))

Earned(o, parts, t) ==
    LET multiplied ==
            IF o.offer.kind # "multiplier" \/ o.offer.value = 100
            THEN TierPoints(Left(parts), t)
            ELSE IF o.offer.scope = "cart"
            THEN Rounded(TierPoints(Left(parts), t) * o.offer.value, 100)
            ELSE TierPoints(parts.rest, t)
                   + Rounded(TierPoints(parts.part, t) * o.offer.value, 100)
    IN  Capped(multiplied, Left(parts))

\* apply_offer_to_totals: the quotes the rounding allows.
Refused(o) == o.offer.scope # "cart" /\ o.eligible <= 0

Priced(o, t) ==
    UNION {LET points == Clamped(o.requested, Left(afterGift))
           IN  {[discount |-> Discount(o), gift |-> Gift(o), points |-> points,
                 net |-> Left(parts), earned |-> Earned(o, parts, t)] :
                  parts \in Split(Left(afterGift), afterGift.part, 100 * points)} :
             afterGift \in Split(AfterDiscount(o), EligibleAfterDiscount(o), Gift(o))}

-----------------------------------------------------------------------------
\* The checkout.

PricingInit ==
    /\ order \in {o \in Orders : o.eligible <= o.gross}
    /\ tier \in Tiers
    /\ stage = "new"
    /\ quote = NoQuote
    /\ total = 0

\* The cart is priced and the total stored.
Price ==
    /\ stage = "new"
    /\ ~Refused(order)
    /\ \E q \in Priced(order, tier) : quote' = q /\ total' = q.net
    /\ stage' = "stored"
    /\ UNCHANGED <<order, tier>>

\* "No eligible items for this offer in provided items".
Refuse ==
    /\ stage = "new"
    /\ Refused(order)
    /\ stage' = "refused"
    /\ UNCHANGED <<order, tier, quote, total>>

\* Seeded fault: the second pricing forgets the gift card.
Again_NoCard(o) == [o EXCEPT !.balance = 0]

\* The arguments of the second pricing.
Again(o) == o

\* The tier is recalculated; only when its rate or multiplier is another is the
\* cart priced again.  The stored total is not touched.
Recalculate ==
    /\ stage = "stored"
    /\ \E t \in Tiers :
         /\ tier' = t
         /\ IF /\ EffectiveRate(t.rate) = EffectiveRate(tier.rate)
               /\ t.multiplier = tier.multiplier
            THEN quote' = quote
            ELSE quote' \in Priced(Again(order), t)
    /\ stage' = "final"
    /\ UNCHANGED <<order, total>>

PricingNext == Price \/ Refuse \/ Recalculate

PricingSpec == PricingInit /\ [][PricingNext]_pricingVars

-----------------------------------------------------------------------------
\* Properties.

priced == stage \in {"stored", "final"}

\* Types, and no single amount of a quote exceeds the cart.
PricingTypeOK ==
    /\ order \in Orders
    /\ tier \in Tiers
    /\ stage \in {"new", "stored", "final", "refused"}
    /\ quote \in Quotes
    /\ \A a \in {quote.discount, quote.gift, 100 * quote.points, quote.net, total} :
          a <= order.gross

\* What is taken off and what is paid add up to the cart to the last hundredth:
\* the two roundings of a split over the eligible items and the rest lose and
\* invent nothing, whatever they do with halves.
MoneyAddsUp ==
    priced => order.gross = quote.discount + quote.gift + 100 * quote.points + quote.net

\* Nothing is taken that the customer did not bring: the discount stays within
\* the items of the offer, the card within its balance, the points within the
\* request.
TakenWithinLimits ==
    priced => /\ quote.discount <= order.eligible
              /\ quote.gift <= order.balance
              /\ quote.points <= order.requested

\* However tier and offer multiply, a purchase earns at most a tenth of what is
\* paid, rounded once, and a purchase that costs nothing earns nothing.
EarnedIsCapped ==
    priced => /\ 2000 * quote.earned <= 2 * quote.net + 1000
              /\ quote.net = 0 => quote.earned = 0

\* A receipt takes from the customer, and gives to him, within the limits.
ReceiptWithinLimits == TakenWithinLimits /\ EarnedIsCapped

\* The total stored before the tier was recalculated is the one on the receipt
\* priced after it.
StoredTotalIsFinal == stage = "final" => total = quote.net
=============================================================================
