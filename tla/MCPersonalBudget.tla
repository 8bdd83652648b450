--------------------------- MODULE MCPersonalBudget ---------------------------
EXTENDS PersonalBudget

CONSTANTS a, b, ann, bob, r1, r2

=============================================================================
