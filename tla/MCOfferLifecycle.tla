--------------------------- MODULE MCOfferLifecycle ---------------------------
EXTENDS OfferLifecycle, TLC

CONSTANTS double, welcome, comeback, favorite, r1, r2, r3

\* A points multiplier, and the discounts of the three special campaigns.
AllSorts == (double :> "plain") @@ (welcome :> "first_order")
              @@ (comeback :> "winback") @@ (favorite :> "favorite")
MCSort == [o \in Offers |-> AllSorts[o]]

=============================================================================
