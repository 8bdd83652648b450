--------------------------- MODULE LoyaltyLedger ---------------------------
(***************************************************************************)
(* What the loyalty ledger promises its users, with no requests, locks or  *)
(* database transactions in sight: a points balance per user that only     *)
(* moves by whole postings, is never overdrawn, is charged at most once    *)
(* per idempotency key and credits each one-off bonus at most once.        *)
(* Module Checkout is shown to implement it.                               *)
(***************************************************************************)
EXTENDS Integers, FiniteSets

CONSTANTS
    Users,        \* customers, one LoyaltyAccount row each
    Keys,         \* client-chosen idempotency keys
    Bonuses,      \* ledger references of one-off bonuses (roadmap step, profile)
    BonusPoints,  \* points of one bonus
    Opening,      \* points every account starts with
    Moves         \* net points a purchase, redemption or offer may post

VARIABLES
    points,       \* the sum of a user's ledger entries
    paid,         \* the <<user, key>> pairs already turned into a transaction
    credited      \* the bonuses each user has received

vars == <<points, paid, credited>>

Init ==
    /\ points = [u \in Users |-> Opening]
    /\ paid = {}
    /\ credited = [u \in Users |-> {}]

\* A posting of `delta` points together with the bonuses B, none of them new
\* to the user; the account is not overdrawn by it.
Post(u, delta, B) ==
    /\ B \cap credited[u] = {}
    /\ points[u] + delta >= 0
    /\ points' = [points EXCEPT
                    ![u] = points[u] + delta + BonusPoints * Cardinality(B)]
    /\ credited' = [credited EXCEPT ![u] = credited[u] \cup B]

\* A purchase without a key, a redemption, an offer, a bonus: nothing but the
\* bonus references protects these from being repeated.
Purchase(u, delta, B) ==
    /\ Post(u, delta, B)
    /\ paid' = paid

\* A purchase made with a key takes effect once.
KeyedPurchase(u, k, delta, B) ==
    /\ <<u, k>> \notin paid
    /\ Post(u, delta, B)
    /\ paid' = paid \cup {<<u, k>>}

\* A gift card bought with a key: the key is used up, no points move.
KeyedGift(u, k) ==
    /\ <<u, k>> \notin paid
    /\ paid' = paid \cup {<<u, k>>}
    /\ UNCHANGED <<points, credited>>

Next ==
    \E u \in Users :
        \/ \E delta \in Moves, B \in SUBSET Bonuses : Purchase(u, delta, B)
        \/ \E k \in Keys, delta \in Moves, B \in SUBSET Bonuses :
              KeyedPurchase(u, k, delta, B)
        \/ \E k \in Keys : KeyedGift(u, k)

Spec == Init /\ [][Next]_vars
=============================================================================
