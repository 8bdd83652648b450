------------------------------ MODULE MCAccounts ------------------------------
EXTENDS Accounts, TLC

CONSTANTS home, work, r1, r2, r3

\* Two addresses with the same local part.
MCBase == [e \in Emails |-> "ann"]

\* The name in capitals.
MCAsked == {[base |-> "ann", n |-> 1, lower |-> FALSE]}

\* Requests are interchangeable.
Symmetry == Permutations(Requests)

=============================================================================
