------------------------------ MODULE MCShopping ------------------------------
EXTENDS Shopping

CONSTANTS ann, bob, soap, balm, r1, r2, r3

\* One product, one product twice, and two products in both orders.
MCBaskets ==
    LET item(p, q) == [product |-> p, quantity |-> q]
    IN  {<<item(soap, 2)>>, <<item(soap, 2), item(soap, 1)>>,
         <<item(soap, 1), item(balm, 1)>>, <<item(balm, 1), item(soap, 1)>>}

\* Two requests of one customer, and one of either.
MCCustomers == [r \in Requests |-> IF r = r3 THEN Users ELSE {ann}]

=============================================================================
