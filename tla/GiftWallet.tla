----------------------------- MODULE GiftWallet -----------------------------
(***************************************************************************)
(* What a gift card promises, with no rows, locks or statuses in sight:    *)
(* the money paid for it can be spent until it is gone, by orders placed   *)
(* before the card expires and by each of them once; the code is mailed    *)
(* at most once.  Module GiftCards is shown to implement it.               *)
(***************************************************************************)
EXTENDS Integers

CONSTANTS
    Cards,      \* gift cards
    Orders,     \* checkouts that name a card
    Amount,     \* what is paid for a card
    Ttl         \* days a card lasts

VARIABLES
    day,        \* the calendar
    issued,     \* cards sold
    money,      \* what is left on each card
    until,      \* the day on which it is no longer taken
    mailed,     \* cards whose code was mailed
    open,       \* pairs of an order placed in time and its card
    placed      \* orders that were placed at all

vars == <<day, issued, money, until, mailed, open, placed>>

Init ==
    /\ day = 0
    /\ issued = {}
    /\ money = [c \in Cards |-> 0]
    /\ until = [c \in Cards |-> 0]
    /\ mailed = {}
    /\ open = {}
    /\ placed = {}

\* A card is sold once.
Issue(c) ==
    /\ c \notin issued
    /\ issued' = issued \cup {c}
    /\ money' = [money EXCEPT ![c] = Amount]
    /\ until' = [until EXCEPT ![c] = day + Ttl]
    /\ UNCHANGED <<day, mailed, open, placed>>

Mail(c) ==
    /\ c \in issued \ mailed
    /\ mailed' = mailed \cup {c}
    /\ UNCHANGED <<day, issued, money, until, open, placed>>

\* The day an order is placed decides, not the day it is paid.
Place(o, c) ==
    /\ o \notin placed
    /\ c \in issued
    /\ placed' = placed \cup {o}
    /\ open' = IF day < until[c] THEN open \cup {<<o, c>>} ELSE open
    /\ UNCHANGED <<day, issued, money, until, mailed>>

\* An order takes money off its own card, no more than there is.
Spend(o, c, n) ==
    /\ <<o, c>> \in open
    /\ money' = [money EXCEPT ![c] = money[c] - n]
    /\ open' = open \ {<<o, c>>}
    /\ UNCHANGED <<day, issued, until, mailed, placed>>

\* An order that is refused, or lost, takes nothing.
Drop(o, c) ==
    /\ <<o, c>> \in open
    /\ open' = open \ {<<o, c>>}
    /\ UNCHANGED <<day, issued, money, until, mailed, placed>>

NextDay ==
    /\ day' = day + 1
    /\ UNCHANGED <<issued, money, until, mailed, open, placed>>

Next ==
    \/ \E c \in Cards : Issue(c) \/ Mail(c)
    \/ \E o \in Orders, c \in Cards :
          Place(o, c) \/ Drop(o, c) \/ \E n \in 1..money[c] : Spend(o, c, n)
    \/ NextDay

Spec == Init /\ [][Next]_vars
=============================================================================
