------------------------------- MODULE Shopping -------------------------------
(***************************************************************************)
(* The cart and the products a customer owns (transactions/views.py), and  *)
(* what a checkout does to them (checkout_app/views.py):                   *)
(*   add     POST   /api/me/cart              drop  DELETE the cart line   *)
(*   patch   PATCH  /api/me/cart/<product>                                 *)
(*   toggle  POST   .../activate and .../deactivate of an owned product    *)
(*   note    PATCH  an owned product                                       *)
(*   buy     POST   /api/checkout                                          *)
(* A checkout is one transaction.  It holds the loyalty account of its     *)
(* customer, every product it has come to and the rows it has written.     *)
(* The others commit after every statement.                                *)
(***************************************************************************)
EXTENDS Integers, Sequences

CONSTANTS
    Users, Products,
    Requests,     \* HTTP requests
    Customers,    \* the users that may send each request
    Shelf,        \* the products that requests other than checkouts name
    NoRow,        \* no cart line
    Baskets,      \* the lists of items that checkouts send
    Kinds,        \* the requests a run considers
    MaxAdd,       \* bound: the greatest quantity of a cart request
    FirstLine     \* bound: the quantity in a cart at the start

AllKinds == {"add", "patch", "drop", "toggle", "note", "buy"}

\* CheckoutItemSerializer; one product may be listed twice.
Item == [product : Products, quantity : Nat \ {0}]

ASSUME ShoppingAssumption ==
    /\ Users # {} /\ Products # {}
    /\ Customers \in [Requests -> SUBSET Users]
    /\ Shelf \subseteq Products
    /\ NoRow \notin Requests
    /\ Baskets \subseteq Seq(Item) \ {<<>>}
    /\ Kinds \subseteq AllKinds
    /\ MaxAdd \in Nat
    /\ FirstLine \in Nat \ {0}

VARIABLES
    cart,       \* the CartItem row of each user and product
    owned,      \* the OwnedProduct row; one of quantity 0 does not exist
    bought,     \* the quantity in all TransactionItem rows
    kind, pc,   \* what each request is, and where its worker is
    mem         \* what it remembers

rows == <<cart, owned, bought>>
vars == <<rows, kind, pc, mem>>

Old == "old"
Labels == {"start", "look", "insert", "sum", "get", "set", "delete", "drop",
           "toggle", "copy", "store", "account", "item", "cart", "commit", "done"}

\* id: the primary key, which is the request that inserted the row
Line == [id : Requests \cup {Old}, n : Nat \ {0}]
Owned == [n : Nat, active : BOOLEAN]

None == [p \in Products |-> 0]
NotOwned == [n |-> 0, active |-> FALSE]

\* id, n: the row and the quantity that were read; k: the quantity asked for
\* items: what is still to come; gain: the quantity of each product so far;
\* earlier: the same without its last item; total: what was written to owned rows;
\* seen: the cart lines that were locked
Blank == [user |-> CHOOSE u \in Users : TRUE, product |-> CHOOSE p \in Products : TRUE,
          k |-> 0, id |-> Old, n |-> 0, copy |-> NotOwned, items |-> <<>>,
          gain |-> None, earlier |-> None, total |-> None,
          seen |-> [p \in Products |-> NoRow]]

Memory == [user : Users, product : Products, k : 0..MaxAdd, id : Requests \cup {Old},
           n : Nat, copy : Owned, items : Seq(Item), gain : [Products -> Nat],
           earlier : [Products -> Nat], total : [Products -> Nat],
           seen : [Products -> Line \cup {NoRow}]]

\* Nothing was bought yet.  Bound: all carts are alike at the start.
Init ==
    /\ \E line \in {NoRow} \cup [id : {Old}, n : {FirstLine}] :
         cart = [u \in Users |-> [p \in Products |-> line]]
    /\ owned = [u \in Users |-> [p \in Products |-> NotOwned]]
    /\ bought = [u \in Users |-> [p \in Products |-> 0]]
    /\ kind \in [Requests -> Kinds]
    /\ pc = [r \in Requests |-> "start"]
    /\ mem = [r \in Requests |-> Blank]

Goto(r, label) == pc' = [pc EXCEPT ![r] = label]
Remember(r, m) == mem' = [mem EXCEPT ![r] = m]

\* The end of the request, and of its locks.
Finish(r) == Goto(r, "done") /\ Remember(r, Blank)

FirstStep == [add |-> "look", patch |-> "get", drop |-> "drop", toggle |-> "toggle",
              note |-> "copy", buy |-> "account"]

Quantities == [add |-> 1..MaxAdd, patch |-> 0..MaxAdd, drop |-> {0},
               toggle |-> {0}, note |-> {0}]

\* The client chooses the product and the quantity, or the items.
Begin(r) ==
    /\ pc[r] = "start"
    /\ \E u \in Customers[r] :
         IF kind[r] = "buy"
         THEN \E items \in Baskets :
                Remember(r, [Blank EXCEPT !.user = u, !.items = items])
         ELSE \E p \in Shelf, k \in Quantities[kind[r]] :
                Remember(r, [Blank EXCEPT !.user = u, !.product = p, !.k = k])
    /\ Goto(r, FirstStep[kind[r]])
    /\ UNCHANGED <<rows, kind>>

-----------------------------------------------------------------------------
\* Locks of checkouts.

\* The product, for which every row waits that is to refer to it, and the owned
\* row, which was written.
HasProduct(s, p) == mem[s].gain[p] > 0
OwnedIsHeld(u, p) == \E s \in Requests : mem[s].user = u /\ HasProduct(s, p)

\* Seeded fault: the cart lines are read without a lock.
LineIsHeld_Never(u, p) == FALSE

\* SELECT ... FOR UPDATE of the cart lines.
LineIsHeld(u, p) ==
    \E s \in Requests :
        pc[s] = "commit" /\ mem[s].user = u /\ mem[s].seen[p] # NoRow

-----------------------------------------------------------------------------
\* The cart.

Set(u, p, line) == cart' = [cart EXCEPT ![u][p] = line]

\* get_or_create reads,
Look(r) ==
    /\ pc[r] = "look"
    /\ LET line == cart[mem[r].user][mem[r].product]
       IN  IF line = NoRow
           THEN Goto(r, "insert") /\ mem' = mem
           ELSE Goto(r, "sum") /\ Remember(r, [mem[r] EXCEPT !.id = line.id, !.n = line.n])
    /\ UNCHANGED <<rows, kind>>

\* and inserts, or reads again when another one was faster.
InsertLine(r) ==
    LET u == mem[r].user
        p == mem[r].product
    IN  /\ pc[r] = "insert"
        /\ ~\E s \in Requests : HasProduct(s, p)
        /\ IF cart[u][p] = NoRow
           THEN Set(u, p, [id |-> r, n |-> mem[r].k]) /\ Finish(r)
           ELSE /\ Goto(r, "sum")
                /\ Remember(r, [mem[r] EXCEPT !.id = cart[u][p].id, !.n = cart[u][p].n])
                /\ UNCHANGED cart
        /\ UNCHANGED <<owned, bought, kind>>

\* Seeded fault: a row that is gone is inserted anew.
Saved_Again(line, id, n) == [id |-> id, n |-> n]

\* save(update_fields) of the row id; an error when it is gone.
Saved(line, id, n) ==
    IF line # NoRow /\ line.id = id THEN [line EXCEPT !.n = n] ELSE line

\* The sum of what was read and what was asked for.
Sum(r) ==
    LET u == mem[r].user
        p == mem[r].product
    IN  /\ pc[r] = "sum"
        /\ ~LineIsHeld(u, p)
        /\ Set(u, p, Saved(cart[u][p], mem[r].id, mem[r].n + mem[r].k))
        /\ Finish(r)
        /\ UNCHANGED <<owned, bought, kind>>

\* PATCH: 404, or the quantity of the request; zero deletes.
Get(r) ==
    /\ pc[r] = "get"
    /\ LET line == cart[mem[r].user][mem[r].product]
       IN  IF line = NoRow
           THEN Finish(r)
           ELSE /\ Goto(r, IF mem[r].k = 0 THEN "delete" ELSE "set")
                /\ Remember(r, [mem[r] EXCEPT !.id = line.id])
    /\ UNCHANGED <<rows, kind>>

SetQuantity(r) ==
    LET u == mem[r].user
        p == mem[r].product
    IN  /\ pc[r] = "set"
        /\ ~LineIsHeld(u, p)
        /\ Set(u, p, Saved(cart[u][p], mem[r].id, mem[r].k))
        /\ Finish(r)
        /\ UNCHANGED <<owned, bought, kind>>

Delete(r) ==
    LET u == mem[r].user
        p == mem[r].product
    IN  /\ pc[r] = "delete"
        /\ ~LineIsHeld(u, p)
        /\ Set(u, p, IF cart[u][p] # NoRow /\ cart[u][p].id = mem[r].id
                     THEN NoRow ELSE cart[u][p])
        /\ Finish(r)
        /\ UNCHANGED <<owned, bought, kind>>

\* DELETE is one statement.
Drop(r) ==
    LET u == mem[r].user
        p == mem[r].product
    IN  /\ pc[r] = "drop"
        /\ ~LineIsHeld(u, p)
        /\ Set(u, p, NoRow)
        /\ Finish(r)
        /\ UNCHANGED <<owned, bought, kind>>

-----------------------------------------------------------------------------
\* Owned products.

\* activate and deactivate save one column; 404 without a row.
Toggle(r) ==
    LET u == mem[r].user
        p == mem[r].product
    IN  /\ pc[r] = "toggle"
        /\ ~OwnedIsHeld(u, p)
        /\ \E active \in BOOLEAN :
             owned' = [owned EXCEPT ![u][p].active = owned[u][p].n > 0 /\ active]
        /\ Finish(r)
        /\ UNCHANGED <<cart, bought, kind>>

\* PATCH reads the row, with is_active of the request if it has one,
CopyOwned(r) ==
    /\ pc[r] = "copy"
    /\ LET row == owned[mem[r].user][mem[r].product]
       IN  IF row.n = 0
           THEN Finish(r)
           ELSE /\ Goto(r, "store")
                /\ \E active \in BOOLEAN :
                     Remember(r, [mem[r] EXCEPT !.copy = [row EXCEPT !.active = active]])
    /\ UNCHANGED <<rows, kind>>

\* and saves all its columns.
StoreOwned(r) ==
    LET u == mem[r].user
        p == mem[r].product
    IN  /\ pc[r] = "store"
        /\ ~OwnedIsHeld(u, p)
        /\ owned' = [owned EXCEPT ![u][p] = mem[r].copy]
        /\ Finish(r)
        /\ UNCHANGED <<cart, bought, kind>>

-----------------------------------------------------------------------------
\* The checkout.

Buying(r) == pc[r] \in {"item", "cart", "commit"}

AccountIsFree(u) == ~\E s \in Requests : Buying(s) /\ mem[s].user = u

LockAccount(r) ==
    /\ pc[r] = "account"
    /\ AccountIsFree(mem[r].user)
    /\ Goto(r, "item")
    /\ UNCHANGED <<rows, kind, mem>>

NextItem(r) == Head(mem[r].items)

\* Seeded fault: a product that is listed twice is locked on two connections.
ProductIsFree_Twice(r, p) == ~\E s \in Requests : HasProduct(s, p)

ProductIsFree(r, p) == ~\E s \in Requests \ {r} : HasProduct(s, p)

\* Seeded fault: the second item of a product begins at the row of the database.
Written_Anew(r, p) == owned[mem[r].user][p].n

\* The quantity in the owned row, as the checkout sees it.
Written(r, p) ==
    IF HasProduct(r, p) THEN mem[r].total[p] ELSE owned[mem[r].user][p].n

\* An item: its product is locked, its TransactionItem inserted, the owned row
\* written.
TakeItem(r) ==
    /\ pc[r] = "item" /\ mem[r].items # <<>>
    /\ LET p == NextItem(r).product
           q == NextItem(r).quantity
       IN  /\ ProductIsFree(r, p)
           /\ Remember(r, [mem[r] EXCEPT
                !.items = Tail(@),
                !.gain[p] = @ + q,
                !.earlier[p] = mem[r].gain[p],
                !.total[p] = Written(r, p) + q])
    /\ UNCHANGED <<rows, kind, pc>>

\* Prices, points, offers and the roadmap are done by then.
LockCart(r) ==
    /\ pc[r] = "item" /\ mem[r].items = <<>>
    /\ Remember(r, [mem[r] EXCEPT !.seen = [p \in Products |->
         IF HasProduct(r, p) THEN cart[mem[r].user][p] ELSE NoRow]])
    /\ Goto(r, "commit")
    /\ UNCHANGED <<rows, kind>>

\* A line that an item has used up is deleted; the next item of the same product
\* finds an object without a primary key, and an error ends the checkout.
Trips(r) ==
    \E p \in Products : mem[r].seen[p] # NoRow /\ mem[r].earlier[p] >= mem[r].seen[p].n

LeftOver(r, line, p) ==
    IF line.n <= mem[r].gain[p] THEN NoRow ELSE [line EXCEPT !.n = @ - mem[r].gain[p]]

Commit(r) ==
    LET u == mem[r].user
    IN  /\ pc[r] = "commit"
        /\ ~Trips(r)
        /\ cart' = [cart EXCEPT ![u] = [p \in Products |->
             IF mem[r].seen[p] = NoRow THEN @[p] ELSE LeftOver(r, mem[r].seen[p], p)]]
        /\ owned' = [owned EXCEPT ![u] = [p \in Products |->
             IF HasProduct(r, p) THEN [n |-> mem[r].total[p], active |-> TRUE] ELSE @[p]]]
        /\ bought' = [bought EXCEPT ![u] = [p \in Products |-> @[p] + mem[r].gain[p]]]
        /\ Finish(r)
        /\ UNCHANGED kind

CommitFails(r) ==
    /\ pc[r] = "commit"
    /\ Trips(r)
    /\ Finish(r)
    /\ UNCHANGED <<rows, kind>>

-----------------------------------------------------------------------------
\* Products are locked in the order of the items.

WaitsFor(r, s) ==
    /\ r # s
    /\ pc[r] = "item" /\ mem[r].items # <<>>
    /\ HasProduct(s, NextItem(r).product)

\* The database finds a circle of checkouts that wait for each other.
InDeadlock(r) ==
    \E circle \in SUBSET Requests :
        /\ r \in circle
        /\ \A a \in circle :
             /\ \E b \in circle : WaitsFor(a, b)
             /\ \E b \in circle : WaitsFor(b, a)

\* and rolls one of them back.
Abort(r) ==
    /\ InDeadlock(r)
    /\ Finish(r)
    /\ UNCHANGED <<rows, kind>>

\* An error, or the death of the worker.
Die(r) ==
    /\ pc[r] \notin {"start", "done"}
    /\ Finish(r)
    /\ UNCHANGED <<rows, kind>>

Work(r) ==
    \/ Look(r) \/ InsertLine(r) \/ Sum(r) \/ Get(r) \/ SetQuantity(r) \/ Delete(r)
    \/ Drop(r) \/ Toggle(r) \/ CopyOwned(r) \/ StoreOwned(r)
    \/ LockAccount(r) \/ TakeItem(r) \/ LockCart(r) \/ Commit(r) \/ CommitFails(r)
    \/ Abort(r)

Next == \E r \in Requests : Begin(r) \/ Work(r) \/ Die(r)

Spec == Init /\ [][Next]_vars

\* A worker goes on as long as no lock stops it.
FairSpec == Spec /\ \A r \in Requests : WF_vars(Work(r))

-----------------------------------------------------------------------------
\* Properties.

\* Types of all variables (transactions/models.py).
TypeOK ==
    /\ cart \in [Users -> [Products -> Line \cup {NoRow}]]
    /\ owned \in [Users -> [Products -> Owned]]
    /\ bought \in [Users -> [Products -> Nat]]
    /\ kind \in [Requests -> Kinds]
    /\ pc \in [Requests -> Labels]
    /\ mem \in [Requests -> Memory]

\* The owned quantity is what the transactions say
\* (admin_tools/product_system_audit.py:251).
OwnedMatchesHistory ==
    \A u \in Users, p \in Products : owned[u][p].n = bought[u][p]

\* Nobody owns more than was bought, and exactly that unless owned products are
\* patched, although rows are read without a lock and one item may follow another
\* of the same product.
OwnedIsBacked ==
    /\ \A u \in Users, p \in Products : owned[u][p].n <= bought[u][p]
    /\ "note" \notin {kind[r] : r \in Requests} => OwnedMatchesHistory

\* What is bought leaves the cart in the same step, from the line as it is then.
BoughtLeavesTheCart ==
    [][\A u \in Users, p \in Products :
         LET n == bought'[u][p] - bought[u][p]
         IN  n > 0 =>
             cart'[u][p] = IF cart[u][p] = NoRow THEN NoRow
                           ELSE IF cart[u][p].n <= n THEN NoRow
                           ELSE [cart[u][p] EXCEPT !.n = @ - n]]_vars

\* A line that is deleted does not come back with its old quantity: a line appears
\* only with the quantity of one request.
DeletedStaysDeleted ==
    [][\A u \in Users, p \in Products :
         cart[u][p] = NoRow /\ cart'[u][p] # NoRow
         => \E r \in Requests : pc[r] # "done" /\ pc'[r] = "done"
                                /\ cart'[u][p] = [id |-> r, n |-> mem[r].k]]_vars

\* Every request ends, also of two checkouts that take the same products in
\* opposite orders.
EveryRequestEnds == \A r \in Requests : pc[r] # "start" ~> pc[r] = "done"
=============================================================================
