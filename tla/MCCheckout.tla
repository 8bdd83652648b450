----------------------------- MODULE MCCheckout -----------------------------
(* Model-checking instances of Checkout. *)
EXTENDS Checkout, TLC

CONSTANTS u1, u2, k1, b1

MCBody(kind, u, k, points) ==
    [kind |-> kind, user |-> u, key |-> k, points |-> points, bonus |-> b1]

\* Everything one customer can have in flight at once, and a purchase of another
\* customer who happened to choose the same key.
MCPool ==
    {MCBody("checkout", u1, k1, 2), MCBody("checkout", u2, k1, 0),
     MCBody("gift", u1, k1, 0), MCBody("redeem", u1, NoKey, 2),
     MCBody("offer", u1, NoKey, 0), MCBody("bonus", u1, NoKey, 0)}
=============================================================================
