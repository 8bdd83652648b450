----------------------------- MODULE MCPricing -----------------------------
(* A model-checking instance of Pricing. *)
EXTENDS Pricing

MCGrosses == {1, 199, 9950, 10049}
MCEligibles == {0, 1, 99, 4975, 10049}
MCOffers ==
    [kind : {"discount"}, value : {0, 3333, 10000}, scope : Scopes]
      \cup [kind : {"multiplier"}, value : {0, 150, 900}, scope : Scopes]
MCBalances == {0, 101, 5000}
MCRequested == {0, 1, 33, 200}
=============================================================================
