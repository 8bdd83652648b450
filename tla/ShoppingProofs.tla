---------------------------- MODULE ShoppingProofs ----------------------------
(***************************************************************************)
(* For any customers, products, baskets and requests: what a checkout      *)
(* locks does not change until it commits, so that what was bought leaves  *)
(* the cart and is owned, and nobody owns more than that.                  *)
(***************************************************************************)
EXTENDS Shopping, TLAPS

\* A request that will write a line writes no empty one.
AsksForSome ==
    \A r \in Requests : pc[r] \in {"look", "insert", "sum", "set"} => mem[r].k # 0

\* Only a checkout in its transaction has locked products.
LocksAreHeld ==
    \A r \in Requests : ~Buying(r) => mem[r].gain = None

\* The loyalty account admits one checkout of a user at a time.
OneCheckout ==
    \A r, s \in Requests : Buying(r) /\ Buying(s) /\ mem[r].user = mem[s].user => r = s

\* The owned row a checkout has written is the committed one and what it gained,
TotalIsRow ==
    \A r \in Requests, p \in Products :
        HasProduct(r, p) => mem[r].total[p] = owned[mem[r].user][p].n + mem[r].gain[p]

\* and the cart lines it has locked are the committed ones.
SeenIsCart ==
    \A r \in Requests, p \in Products :
        pc[r] = "commit" =>
            mem[r].seen[p] = IF HasProduct(r, p) THEN cart[mem[r].user][p] ELSE NoRow

\* A copy of an owned row is one of a patch, and of a quantity that was bought.
CopyIsBacked ==
    \A r \in Requests :
        /\ pc[r] \in {"copy", "store"} => kind[r] = "note"
        /\ pc[r] = "store" => mem[r].copy.n <= bought[mem[r].user][mem[r].product]

IInv == /\ TypeOK /\ AsksForSome /\ LocksAreHeld /\ OneCheckout
        /\ TotalIsRow /\ SeenIsCart /\ CopyIsBacked /\ OwnedIsBacked

USE ShoppingAssumption

-----------------------------------------------------------------------------
LEMMA BlankType == Blank \in Memory
  <1>1. (CHOOSE u \in Users : TRUE) \in Users /\ (CHOOSE p \in Products : TRUE) \in Products
    OBVIOUS
  <1>2. <<>> \in Seq(Item) /\ None \in [Products -> Nat] /\ NotOwned \in Owned
    BY DEF None, NotOwned, Owned
  <1>3. [p \in Products |-> NoRow] \in [Products -> Line \cup {NoRow}]
    OBVIOUS
  <1> QED
    BY <1>1, <1>2, <1>3 DEF Blank, Memory

LEMMA InitInv == Init => IInv
  <1> SUFFICES ASSUME Init PROVE IInv
    OBVIOUS
  <1>1. /\ owned = [u \in Users |-> [p \in Products |-> NotOwned]]
        /\ bought = [u \in Users |-> [p \in Products |-> 0]]
        /\ kind \in [Requests -> Kinds]
        /\ pc = [r \in Requests |-> "start"]
        /\ mem = [r \in Requests |-> Blank]
    BY DEF Init
  <1>2. cart \in [Users -> [Products -> Line \cup {NoRow}]]
    <2>1. PICK line \in {NoRow} \cup [id : {Old}, n : {FirstLine}] :
             cart = [u \in Users |-> [p \in Products |-> line]]
      BY DEF Init
    <2>2. line \in Line \cup {NoRow}
      BY DEF Line
    <2> QED
      BY <2>1, <2>2
  <1>3. NotOwned \in Owned /\ NotOwned.n = 0
    BY DEF NotOwned, Owned
  <1>4. TypeOK
    BY <1>1, <1>2, <1>3, BlankType DEF TypeOK, Labels
  <1>5. Blank.gain = None /\ \A p \in Products : None[p] = 0
    BY DEF Blank, None
  <1>6. LocksAreHeld /\ OneCheckout /\ TotalIsRow /\ AsksForSome /\ SeenIsCart /\ CopyIsBacked
    BY <1>1, <1>5 DEF LocksAreHeld, OneCheckout, TotalIsRow, AsksForSome, SeenIsCart,
                      CopyIsBacked, Buying, HasProduct
  <1>7. OwnedIsBacked
    BY <1>1, <1>3 DEF OwnedIsBacked, OwnedMatchesHistory
  <1> QED
    BY <1>4, <1>6, <1>7 DEF IInv

-----------------------------------------------------------------------------
\* A request that ends changes nothing but what it writes before, and frees its
\* locks.
LEMMA FinishInv ==
    ASSUME IInv, NEW r \in Requests, Finish(r), UNCHANGED <<rows, kind>>
    PROVE  IInv'
  <1>1. /\ pc' = [pc EXCEPT ![r] = "done"] /\ mem' = [mem EXCEPT ![r] = Blank]
        /\ UNCHANGED <<cart, owned, bought, kind>>
    BY DEF Finish, Goto, Remember, rows
  <1>2. TypeOK'
    BY <1>1, BlankType DEF IInv, TypeOK, Labels
  <1>3. \A s \in Requests : s # r => pc'[s] = pc[s] /\ mem'[s] = mem[s]
    BY <1>1 DEF IInv, TypeOK
  <1>4. pc'[r] = "done" /\ mem'[r] = Blank
    BY <1>1 DEF IInv, TypeOK
  <1>5. Blank.gain = None /\ \A p \in Products : None[p] = 0
    BY DEF Blank, None
  <1>6. (LocksAreHeld /\ OneCheckout /\ TotalIsRow /\ AsksForSome /\ SeenIsCart /\ CopyIsBacked)'
    BY <1>1, <1>3, <1>4, <1>5
       DEF IInv, LocksAreHeld, OneCheckout, TotalIsRow, AsksForSome, SeenIsCart,
           CopyIsBacked, Buying, HasProduct
  <1>7. OwnedIsBacked'
    BY <1>1 DEF IInv, OwnedIsBacked, OwnedMatchesHistory
  <1> QED
    BY <1>2, <1>6, <1>7 DEF IInv

-----------------------------------------------------------------------------
\* The client's choice.
LEMMA BeginInv ==
    ASSUME IInv, NEW r \in Requests, Begin(r)
    PROVE  IInv'
  <1>1. PICK u \in Customers[r] :
          IF kind[r] = "buy"
          THEN \E items \in Baskets : Remember(r, [Blank EXCEPT !.user = u, !.items = items])
          ELSE \E p \in Shelf, k \in Quantities[kind[r]] :
                 Remember(r, [Blank EXCEPT !.user = u, !.product = p, !.k = k])
    BY DEF Begin
  <1>2. u \in Users /\ kind[r] \in AllKinds
    BY DEF IInv, TypeOK
  <1>3. PICK m \in Memory : /\ mem' = [mem EXCEPT ![r] = m]
                            /\ m.gain = None
                            /\ kind[r] = "add" => m.k # 0
    <2>1. CASE kind[r] = "buy"
      <3>1. PICK items \in Baskets : Remember(r, [Blank EXCEPT !.user = u, !.items = items])
        BY <1>1, <2>1
      <3>2. [Blank EXCEPT !.user = u, !.items = items] \in Memory
        BY <1>2, BlankType DEF Memory
      <3>3. [Blank EXCEPT !.user = u, !.items = items].gain = None
        BY DEF Blank
      <3> QED
        BY <2>1, <3>1, <3>2, <3>3 DEF Remember
    <2>2. CASE kind[r] # "buy"
      <3>1. PICK p \in Shelf, k \in Quantities[kind[r]] :
               Remember(r, [Blank EXCEPT !.user = u, !.product = p, !.k = k])
        BY <1>1, <2>2
      <3>2. k \in 0..MaxAdd /\ p \in Products /\ (kind[r] = "add" => k # 0)
        BY <1>2, <2>2 DEF Quantities, AllKinds
      <3>3. [Blank EXCEPT !.user = u, !.product = p, !.k = k] \in Memory
        BY <1>2, <3>2, BlankType DEF Memory
      <3>4. /\ [Blank EXCEPT !.user = u, !.product = p, !.k = k].gain = None
            /\ [Blank EXCEPT !.user = u, !.product = p, !.k = k].k = k
        BY DEF Blank
      <3> QED
        BY <3>1, <3>2, <3>3, <3>4 DEF Remember
    <2> QED
      BY <2>1, <2>2
  <1>4. PICK label \in Labels :
           /\ pc' = [pc EXCEPT ![r] = label]
           /\ label \notin {"insert", "sum", "set", "store", "item", "cart", "commit"}
           /\ label = "look" => kind[r] = "add"
           /\ label = "copy" => kind[r] = "note"
    <2>1. pc' = [pc EXCEPT ![r] = FirstStep[kind[r]]]
      BY DEF Begin, Goto
    <2>2. FirstStep[kind[r]] \in Labels
      BY <1>2 DEF FirstStep, AllKinds, Labels
    <2>3. /\ FirstStep[kind[r]] \notin
                {"insert", "sum", "set", "store", "item", "cart", "commit"}
          /\ FirstStep[kind[r]] = "look" => kind[r] = "add"
          /\ FirstStep[kind[r]] = "copy" => kind[r] = "note"
      BY <1>2 DEF FirstStep, AllKinds
    <2> QED
      BY <2>1, <2>2, <2>3
  <1>5. UNCHANGED <<cart, owned, bought, kind>>
    BY DEF Begin, rows
  <1>6. TypeOK'
    BY <1>3, <1>4, <1>5 DEF IInv, TypeOK
  <1>7. /\ \A s \in Requests : s # r => pc'[s] = pc[s] /\ mem'[s] = mem[s]
        /\ pc'[r] = label /\ mem'[r] = m
    BY <1>3, <1>4 DEF IInv, TypeOK
  <1>8. \A p \in Products : m.gain[p] = 0
    BY <1>3 DEF None
  <1>9. (LocksAreHeld /\ OneCheckout /\ TotalIsRow /\ AsksForSome /\ SeenIsCart /\ CopyIsBacked)'
    BY <1>3, <1>4, <1>5, <1>7, <1>8
       DEF IInv, LocksAreHeld, OneCheckout, TotalIsRow, AsksForSome, SeenIsCart,
           CopyIsBacked, Buying, HasProduct
  <1>10. OwnedIsBacked'
    BY <1>5 DEF IInv, OwnedIsBacked, OwnedMatchesHistory
  <1> QED
    BY <1>6, <1>9, <1>10 DEF IInv

\* A request that takes no part in a checkout reads something.
LEMMA ReadInv ==
    ASSUME IInv, NEW r \in Requests, NEW m \in Memory, NEW label \in Labels,
           ~Buying(r), label \notin {"item", "cart", "commit", "copy"},
           pc' = [pc EXCEPT ![r] = label], mem' = [mem EXCEPT ![r] = m],
           UNCHANGED <<rows, kind>>,
           m.gain = mem[r].gain,
           label \in {"look", "insert", "sum", "set"} => m.k # 0,
           label = "store" => kind[r] = "note" /\ m.copy.n <= bought[m.user][m.product]
    PROVE  IInv'
  <1>1. UNCHANGED <<cart, owned, bought, kind>>
    BY DEF rows
  <1>2. TypeOK'
    BY <1>1 DEF IInv, TypeOK
  <1>3. /\ \A s \in Requests : s # r => pc'[s] = pc[s] /\ mem'[s] = mem[s]
        /\ pc'[r] = label /\ mem'[r] = m
    BY DEF IInv, TypeOK
  <1>4. m.gain = None /\ \A p \in Products : None[p] = 0
    BY DEF IInv, LocksAreHeld, None
  <1>5. (LocksAreHeld /\ OneCheckout /\ TotalIsRow /\ AsksForSome /\ SeenIsCart /\ CopyIsBacked)'
    BY <1>1, <1>3, <1>4
       DEF IInv, LocksAreHeld, OneCheckout, TotalIsRow, AsksForSome, SeenIsCart,
           CopyIsBacked, Buying, HasProduct
  <1>6. OwnedIsBacked'
    BY <1>1 DEF IInv, OwnedIsBacked, OwnedMatchesHistory
  <1> QED
    BY <1>2, <1>5, <1>6 DEF IInv

LEMMA MemoryFields ==
    ASSUME IInv, NEW r \in Requests
    PROVE  /\ mem[r] \in Memory /\ mem[r].user \in Users /\ mem[r].product \in Products
           /\ cart[mem[r].user][mem[r].product] \in Line \cup {NoRow}
           /\ owned[mem[r].user][mem[r].product] \in Owned
           /\ mem[r].k \in Nat /\ mem[r].n \in Nat /\ mem[r].copy \in Owned
  BY DEF IInv, TypeOK, Memory

LEMMA LookInv == ASSUME IInv, NEW r \in Requests, Look(r) PROVE IInv'
  <1> DEFINE line == cart[mem[r].user][mem[r].product]
             m == [mem[r] EXCEPT !.id = line.id, !.n = line.n]
  <1>1. /\ mem[r] \in Memory /\ line \in Line \cup {NoRow}
        /\ pc[r] = "look" /\ ~Buying(r) /\ mem[r].k # 0
        /\ UNCHANGED <<rows, kind>>
    BY MemoryFields DEF Look, Buying, IInv, AsksForSome
  <1>2. CASE line = NoRow
    <2>1. pc' = [pc EXCEPT ![r] = "insert"] /\ mem' = [mem EXCEPT ![r] = mem[r]]
      BY <1>2 DEF Look, Goto, IInv, TypeOK
    <2>2. "insert" \in Labels
      BY DEF Labels
    <2> QED
      BY <1>1, <2>1, <2>2, ReadInv
  <1>3. CASE line # NoRow
    <2>1. pc' = [pc EXCEPT ![r] = "sum"] /\ mem' = [mem EXCEPT ![r] = m]
      BY <1>3 DEF Look, Goto, Remember
    <2>2. "sum" \in Labels
      BY DEF Labels
    <2>3. m \in Memory /\ m.gain = mem[r].gain /\ m.k # 0
      BY <1>1, <1>3 DEF Memory, Line
    <2> HIDE DEF m
    <2> QED
      BY <1>1, <2>1, <2>2, <2>3, ReadInv
  <1> QED
    BY <1>2, <1>3

LEMMA GetInv == ASSUME IInv, NEW r \in Requests, Get(r) PROVE IInv'
  <1> DEFINE line == cart[mem[r].user][mem[r].product]
             m == [mem[r] EXCEPT !.id = line.id]
             label == IF mem[r].k = 0 THEN "delete" ELSE "set"
  <1>1. /\ mem[r] \in Memory /\ line \in Line \cup {NoRow}
        /\ pc[r] = "get" /\ ~Buying(r) /\ UNCHANGED <<rows, kind>>
    BY MemoryFields DEF Get, Buying
  <1>2. CASE line = NoRow
    BY <1>1, <1>2, FinishInv DEF Get
  <1>3. CASE line # NoRow
    <2>1. pc' = [pc EXCEPT ![r] = label] /\ mem' = [mem EXCEPT ![r] = m]
      BY <1>3 DEF Get, Goto, Remember
    <2>2. label \in Labels /\ label \in {"delete", "set"} /\ (label = "set" => mem[r].k # 0)
      BY DEF Labels
    <2>3. m \in Memory /\ m.gain = mem[r].gain /\ m.k = mem[r].k
      BY <1>1, <1>3 DEF Memory, Line
    <2> HIDE DEF m, label
    <2> QED
      BY <1>1, <2>1, <2>2, <2>3, ReadInv
  <1> QED
    BY <1>2, <1>3

LEMMA CopyOwnedInv == ASSUME IInv, NEW r \in Requests, CopyOwned(r) PROVE IInv'
  <1> DEFINE row == owned[mem[r].user][mem[r].product]
  <1>1. /\ mem[r] \in Memory /\ row \in Owned
        /\ mem[r].user \in Users /\ mem[r].product \in Products
        /\ pc[r] = "copy" /\ ~Buying(r) /\ UNCHANGED <<rows, kind>>
    BY MemoryFields DEF CopyOwned, Buying
  <1>2. CASE row.n = 0
    BY <1>1, <1>2, FinishInv DEF CopyOwned
  <1>3. CASE row.n # 0
    <2>1. PICK active \in BOOLEAN :
             mem' = [mem EXCEPT ![r] = [mem[r] EXCEPT !.copy = [row EXCEPT !.active = active]]]
      BY <1>3 DEF CopyOwned, Remember
    <2> DEFINE m == [mem[r] EXCEPT !.copy = [row EXCEPT !.active = active]]
    <2>2. pc' = [pc EXCEPT ![r] = "store"] /\ mem' = [mem EXCEPT ![r] = m]
      BY <1>3, <2>1 DEF CopyOwned, Goto
    <2>3. /\ m \in Memory /\ m.gain = mem[r].gain /\ m.copy.n = row.n
          /\ m.user = mem[r].user /\ m.product = mem[r].product
      BY <1>1 DEF Memory, Owned
    <2>4. row.n <= bought[mem[r].user][mem[r].product] /\ kind[r] = "note"
      BY <1>1 DEF IInv, OwnedIsBacked, CopyIsBacked
    <2>5. "store" \in Labels
      BY DEF Labels
    <2> HIDE DEF m
    <2> QED
      BY <1>1, <2>2, <2>3, <2>4, <2>5, ReadInv
  <1> QED
    BY <1>2, <1>3

-----------------------------------------------------------------------------
\* A cart line is written that no checkout has locked.
LEMMA CartInv ==
    ASSUME IInv, NEW r \in Requests, ~Buying(r), NEW line \in Line \cup {NoRow},
           Set(mem[r].user, mem[r].product, line), Finish(r),
           UNCHANGED <<owned, bought, kind>>,
           \/ line = cart[mem[r].user][mem[r].product]
           \/ \A s \in Requests :
                 pc[s] = "commit" /\ mem[s].user = mem[r].user => ~HasProduct(s, mem[r].product)
    PROVE  IInv'
  <1> DEFINE u == mem[r].user
             p == mem[r].product
  <1>1. /\ pc' = [pc EXCEPT ![r] = "done"] /\ mem' = [mem EXCEPT ![r] = Blank]
        /\ cart' = [cart EXCEPT ![u][p] = line]
    BY DEF Finish, Goto, Remember, Set
  <1>2. u \in Users /\ p \in Products
    BY MemoryFields
  <1>3. TypeOK'
    BY <1>1, <1>2, BlankType DEF IInv, TypeOK, Labels
  <1>4. /\ \A s \in Requests : s # r => pc'[s] = pc[s] /\ mem'[s] = mem[s]
        /\ pc'[r] = "done" /\ mem'[r] = Blank
    BY <1>1 DEF IInv, TypeOK
  <1>5. Blank.gain = None /\ \A q \in Products : None[q] = 0
    BY DEF Blank, None
  <1>6. (LocksAreHeld /\ OneCheckout /\ TotalIsRow /\ AsksForSome /\ CopyIsBacked)'
    BY <1>4, <1>5 DEF IInv, LocksAreHeld, OneCheckout, TotalIsRow, AsksForSome,
                      CopyIsBacked, Buying, HasProduct
  <1>7. SeenIsCart'
    <2> SUFFICES ASSUME NEW s \in Requests, NEW q \in Products, pc'[s] = "commit"
                 PROVE  mem'[s].seen[q] =
                          IF HasProduct(s, q)' THEN cart'[mem'[s].user][q] ELSE NoRow
      BY DEF SeenIsCart
    <2>1. s # r /\ pc[s] = "commit" /\ mem'[s] = mem[s]
      BY <1>4
    <2>2. mem[s].seen[q] = IF HasProduct(s, q) THEN cart[mem[s].user][q] ELSE NoRow
      BY <2>1 DEF IInv, SeenIsCart
    <2>3. HasProduct(s, q)' = HasProduct(s, q)
      BY <2>1 DEF HasProduct
    <2>4. mem[s].user \in Users
      BY MemoryFields
    <2>5. HasProduct(s, q) => cart'[mem[s].user][q] = cart[mem[s].user][q]
      BY <1>1, <1>2, <2>1, <2>4 DEF IInv, TypeOK
    <2> QED
      BY <2>1, <2>2, <2>3, <2>5
  <1>8. OwnedIsBacked'
    BY DEF IInv, OwnedIsBacked, OwnedMatchesHistory
  <1> QED
    BY <1>3, <1>6, <1>7, <1>8 DEF IInv

\* No checkout has locked this line, or there is none.
LEMMA LineIsFree ==
    ASSUME IInv, NEW u \in Users, NEW p \in Products, ~LineIsHeld(u, p),
           cart[u][p] # NoRow
    PROVE  \A s \in Requests : pc[s] = "commit" /\ mem[s].user = u => ~HasProduct(s, p)
  BY DEF IInv, SeenIsCart, LineIsHeld

LEMMA InsertLineInv == ASSUME IInv, NEW r \in Requests, InsertLine(r) PROVE IInv'
  <1> DEFINE u == mem[r].user
             p == mem[r].product
             line == cart[u][p]
             m == [mem[r] EXCEPT !.id = line.id, !.n = line.n]
  <1>1. /\ mem[r] \in Memory /\ line \in Line \cup {NoRow} /\ u \in Users /\ p \in Products
        /\ mem[r].k \in Nat \ {0}
        /\ pc[r] = "insert" /\ ~Buying(r) /\ UNCHANGED <<owned, bought, kind>>
    BY MemoryFields DEF InsertLine, Buying, IInv, AsksForSome
  <1>2. CASE line = NoRow
    <2>1. [id |-> r, n |-> mem[r].k] \in Line \cup {NoRow}
      BY <1>1 DEF Line
    <2>2. Set(u, p, [id |-> r, n |-> mem[r].k]) /\ Finish(r)
      BY <1>2 DEF InsertLine
    <2>3. \A s \in Requests : ~HasProduct(s, p)
      BY DEF InsertLine
    <2> QED
      BY <1>1, <2>1, <2>2, <2>3, CartInv
  <1>3. CASE line # NoRow
    <2>1. /\ pc' = [pc EXCEPT ![r] = "sum"] /\ mem' = [mem EXCEPT ![r] = m]
          /\ UNCHANGED <<rows, kind>>
      BY <1>1, <1>3 DEF InsertLine, Goto, Remember, rows
    <2>2. "sum" \in Labels
      BY DEF Labels
    <2>3. m \in Memory /\ m.gain = mem[r].gain /\ m.k # 0
      BY <1>1, <1>3 DEF Memory, Line
    <2> HIDE DEF m
    <2> QED
      BY <1>1, <2>1, <2>2, <2>3, ReadInv
  <1> QED
    BY <1>2, <1>3

\* What a save writes is a line, and the old one when it is gone.
LEMMA SavedType ==
    ASSUME NEW line \in Line \cup {NoRow}, NEW id, NEW n \in Nat \ {0}
    PROVE  Saved(line, id, n) \in Line \cup {NoRow} /\ (line = NoRow => Saved(line, id, n) = NoRow)
  BY DEF Saved, Line

LEMMA SaveInv ==
    ASSUME IInv, NEW r \in Requests, Sum(r) \/ SetQuantity(r) \/ Delete(r) \/ Drop(r)
    PROVE  IInv'
  <1> DEFINE u == mem[r].user
             p == mem[r].product
             old == cart[u][p]
  <1>1. /\ old \in Line \cup {NoRow} /\ u \in Users /\ p \in Products
        /\ mem[r].k \in Nat /\ mem[r].n \in Nat
        /\ ~Buying(r) /\ ~LineIsHeld(u, p) /\ Finish(r) /\ UNCHANGED <<owned, bought, kind>>
    BY MemoryFields DEF Sum, SetQuantity, Delete, Drop, Buying
  <1>2. PICK line \in Line \cup {NoRow} : Set(u, p, line) /\ (old = NoRow => line = NoRow)
    <2>1. CASE Sum(r)
      <3>0. mem[r].k # 0
        BY <2>1 DEF Sum, IInv, AsksForSome
      <3>1. mem[r].n + mem[r].k \in Nat \ {0}
        BY <1>1, <3>0
      <3> QED
        BY <1>1, <2>1, <3>1, SavedType DEF Sum
    <2>2. CASE SetQuantity(r)
      <3>1. mem[r].k \in Nat \ {0}
        BY <1>1, <2>2 DEF SetQuantity, IInv, AsksForSome
      <3> QED
        BY <1>1, <2>2, <3>1, SavedType DEF SetQuantity
    <2>3. CASE Delete(r)
      BY <1>1, <2>3 DEF Delete
    <2>4. CASE Drop(r)
      BY <1>1, <2>4 DEF Drop
    <2> QED
      BY <2>1, <2>2, <2>3, <2>4
  <1>3. \/ line = old
        \/ \A s \in Requests : pc[s] = "commit" /\ mem[s].user = u => ~HasProduct(s, p)
    BY <1>1, <1>2, LineIsFree
  <1> QED
    BY <1>1, <1>2, <1>3, CartInv

-----------------------------------------------------------------------------
\* An owned row is written that no checkout has written: with its quantity, or by
\* a patch with one that was bought.
LEMMA OwnedInv ==
    ASSUME IInv, NEW r \in Requests, ~Buying(r), NEW new \in Owned,
           owned' = [owned EXCEPT ![mem[r].user][mem[r].product] = new], Finish(r),
           UNCHANGED <<cart, bought, kind>>,
           ~OwnedIsHeld(mem[r].user, mem[r].product),
           new.n <= bought[mem[r].user][mem[r].product],
           kind[r] = "note" \/ new.n = owned[mem[r].user][mem[r].product].n
    PROVE  IInv'
  <1> DEFINE u == mem[r].user
             p == mem[r].product
  <1>1. pc' = [pc EXCEPT ![r] = "done"] /\ mem' = [mem EXCEPT ![r] = Blank]
    BY DEF Finish, Goto, Remember
  <1>2. u \in Users /\ p \in Products
    BY MemoryFields
  <1>3. TypeOK'
    BY <1>1, <1>2, BlankType DEF IInv, TypeOK, Labels
  <1>4. /\ \A s \in Requests : s # r => pc'[s] = pc[s] /\ mem'[s] = mem[s]
        /\ pc'[r] = "done" /\ mem'[r] = Blank
    BY <1>1 DEF IInv, TypeOK
  <1>5. Blank.gain = None /\ \A q \in Products : None[q] = 0
    BY DEF Blank, None
  <1>6. (LocksAreHeld /\ OneCheckout /\ SeenIsCart /\ AsksForSome /\ CopyIsBacked)'
    BY <1>4, <1>5 DEF IInv, LocksAreHeld, OneCheckout, SeenIsCart, AsksForSome,
                      CopyIsBacked, Buying, HasProduct
  <1>7. \A v \in Users, q \in Products :
           owned'[v][q] = IF v = u /\ q = p THEN new ELSE owned[v][q]
    BY <1>2 DEF IInv, TypeOK
  <1>8. TotalIsRow'
    <2> SUFFICES ASSUME NEW s \in Requests, NEW q \in Products, HasProduct(s, q)'
                 PROVE  mem'[s].total[q] = owned'[mem'[s].user][q].n + mem'[s].gain[q]
      BY DEF TotalIsRow
    <2>1. s # r /\ mem'[s] = mem[s] /\ HasProduct(s, q)
      BY <1>4, <1>5 DEF HasProduct
    <2>2. ~(mem[s].user = u /\ q = p)
      BY <2>1 DEF OwnedIsHeld
    <2>3. mem[s].user \in Users
      BY MemoryFields
    <2> QED
      BY <1>7, <2>1, <2>2, <2>3 DEF IInv, TotalIsRow
  <1>9. OwnedIsBacked'
    <2>1. \A v \in Users, q \in Products : owned'[v][q].n <= bought[v][q]
      BY <1>7 DEF IInv, OwnedIsBacked
    <2>2. "note" \notin {kind[s] : s \in Requests} => OwnedMatchesHistory'
      BY <1>7 DEF IInv, OwnedIsBacked, OwnedMatchesHistory
    <2> QED
      BY <2>1, <2>2 DEF OwnedIsBacked
  <1> QED
    BY <1>3, <1>6, <1>8, <1>9 DEF IInv

LEMMA ToggleInv == ASSUME IInv, NEW r \in Requests, Toggle(r) PROVE IInv'
  <1> DEFINE u == mem[r].user
             p == mem[r].product
  <1>1. /\ owned[u][p] \in Owned /\ u \in Users /\ p \in Products /\ ~Buying(r)
        /\ owned[u][p].n <= bought[u][p]
    BY MemoryFields DEF Toggle, Buying, IInv, OwnedIsBacked
  <1>2. PICK active \in BOOLEAN : owned' = [owned EXCEPT ![u][p].active = active]
    <2>1. PICK a \in BOOLEAN :
             owned' = [owned EXCEPT ![u][p].active = owned[u][p].n > 0 /\ a]
      BY DEF Toggle
    <2>2. (owned[u][p].n > 0 /\ a) \in BOOLEAN
      OBVIOUS
    <2> QED
      BY <2>1, <2>2
  <1>3. owned' = [owned EXCEPT ![u][p] = [owned[u][p] EXCEPT !.active = active]]
    BY <1>1, <1>2 DEF IInv, TypeOK
  <1>4. /\ [owned[u][p] EXCEPT !.active = active] \in Owned
        /\ [owned[u][p] EXCEPT !.active = active].n = owned[u][p].n
    BY <1>1 DEF Owned
  <1>5. ~OwnedIsHeld(u, p) /\ Finish(r) /\ UNCHANGED <<cart, bought, kind>>
    BY DEF Toggle
  <1> QED
    BY <1>1, <1>3, <1>4, <1>5, OwnedInv

LEMMA StoreOwnedInv == ASSUME IInv, NEW r \in Requests, StoreOwned(r) PROVE IInv'
  <1>1. /\ mem[r].copy \in Owned /\ ~Buying(r) /\ kind[r] = "note"
        /\ mem[r].copy.n <= bought[mem[r].user][mem[r].product]
    BY MemoryFields DEF StoreOwned, Buying, IInv, CopyIsBacked
  <1> QED
    BY <1>1, OwnedInv DEF StoreOwned

-----------------------------------------------------------------------------
\* The checkout.
LEMMA LockAccountInv == ASSUME IInv, NEW r \in Requests, LockAccount(r) PROVE IInv'
  <1>1. /\ pc[r] = "account" /\ pc' = [pc EXCEPT ![r] = "item"]
        /\ UNCHANGED <<cart, owned, bought, kind, mem>>
        /\ \A s \in Requests : Buying(s) => mem[s].user # mem[r].user
    BY DEF LockAccount, Goto, rows, AccountIsFree
  <1>2. TypeOK'
    BY <1>1 DEF IInv, TypeOK, Labels
  <1>3. (\A s \in Requests : s # r => pc'[s] = pc[s]) /\ pc'[r] = "item"
    BY <1>1 DEF IInv, TypeOK
  <1>4. OneCheckout'
    BY <1>1, <1>3 DEF IInv, OneCheckout, Buying
  <1>5. (LocksAreHeld /\ TotalIsRow /\ SeenIsCart /\ AsksForSome /\ CopyIsBacked)'
    BY <1>1, <1>3 DEF IInv, LocksAreHeld, TotalIsRow, SeenIsCart, AsksForSome,
                      CopyIsBacked, Buying, HasProduct
  <1>6. OwnedIsBacked'
    BY <1>1 DEF IInv, OwnedIsBacked, OwnedMatchesHistory
  <1> QED
    BY <1>2, <1>4, <1>5, <1>6 DEF IInv

LEMMA TakeItemInv == ASSUME IInv, NEW r \in Requests, TakeItem(r) PROVE IInv'
  <1> DEFINE p == NextItem(r).product
             q == NextItem(r).quantity
             u == mem[r].user
             gain == [mem[r].gain EXCEPT ![p] = @ + q]
             earlier == [mem[r].earlier EXCEPT ![p] = mem[r].gain[p]]
             total == [mem[r].total EXCEPT ![p] = Written(r, p) + q]
             m == [mem[r] EXCEPT !.items = Tail(mem[r].items), !.gain = gain,
                                 !.earlier = earlier, !.total = total]
  <1>1. /\ pc[r] = "item" /\ mem' = [mem EXCEPT ![r] = m]
        /\ UNCHANGED <<cart, owned, bought, kind, pc>>
    BY DEF TakeItem, Remember, rows
  <1>2. p \in Products /\ q \in Nat \ {0} /\ Tail(mem[r].items) \in Seq(Item)
    <2>1. mem[r].items \in Seq(Item) /\ mem[r].items # <<>>
      BY MemoryFields DEF Memory, TakeItem
    <2>2. Head(mem[r].items) \in Item /\ Tail(mem[r].items) \in Seq(Item)
      BY <2>1
    <2> QED
      BY <2>2 DEF NextItem, Item
  <1>3. /\ mem[r] \in Memory /\ u \in Users
        /\ mem[r].gain \in [Products -> Nat] /\ mem[r].earlier \in [Products -> Nat]
        /\ mem[r].total \in [Products -> Nat]
    BY MemoryFields DEF Memory
  <1>4. owned[u][p].n \in Nat
    BY <1>2, <1>3 DEF IInv, TypeOK, Owned
  <1>5. Written(r, p) = owned[u][p].n + mem[r].gain[p] /\ Written(r, p) \in Nat
    <2>1. CASE HasProduct(r, p)
      BY <1>2, <1>3, <2>1 DEF Written, IInv, TotalIsRow
    <2>2. CASE ~HasProduct(r, p)
      BY <1>2, <1>3, <1>4, <2>2 DEF Written, HasProduct
    <2> QED
      BY <2>1, <2>2
  <1>6. /\ gain \in [Products -> Nat] /\ earlier \in [Products -> Nat]
        /\ total \in [Products -> Nat]
    <2>1. Written(r, p) + q \in Nat /\ mem[r].gain[p] + q \in Nat /\ mem[r].gain[p] \in Nat
      BY <1>2, <1>3, <1>5
    <2> QED
      BY <1>2, <1>3, <2>1
  <1>8. /\ \A x \in Products : gain[x] = IF x = p THEN mem[r].gain[x] + q ELSE mem[r].gain[x]
        /\ \A x \in Products :
             total[x] = IF x = p THEN owned[u][p].n + (mem[r].gain[p] + q) ELSE mem[r].total[x]
    <2>1. owned[u][p].n + mem[r].gain[p] + q = owned[u][p].n + (mem[r].gain[p] + q)
      BY <1>2, <1>3, <1>4
    <2> QED
      BY <1>2, <1>3, <1>5, <2>1
  <1> HIDE DEF gain, total, earlier
  <1>7. /\ m \in Memory /\ m.gain = gain /\ m.total = total
        /\ m.user = u /\ m.k = mem[r].k /\ m.copy = mem[r].copy /\ m.product = mem[r].product
        /\ m.seen = mem[r].seen
    BY <1>2, <1>3, <1>6 DEF Memory
  <1> HIDE DEF m
  <1>9. TypeOK'
    BY <1>1, <1>7 DEF IInv, TypeOK
  <1>10. (\A s \in Requests : s # r => mem'[s] = mem[s]) /\ mem'[r] = m
    BY <1>1 DEF IInv, TypeOK
  <1>11. (LocksAreHeld /\ OneCheckout /\ SeenIsCart /\ AsksForSome /\ CopyIsBacked)'
    BY <1>1, <1>7, <1>10 DEF IInv, LocksAreHeld, OneCheckout, SeenIsCart, AsksForSome,
                             CopyIsBacked, Buying, HasProduct
  <1>12. TotalIsRow'
    <2> SUFFICES ASSUME NEW s \in Requests, NEW x \in Products, HasProduct(s, x)'
                 PROVE  mem'[s].total[x] = owned[mem'[s].user][x].n + mem'[s].gain[x]
      BY <1>1 DEF TotalIsRow
    <2>1. CASE s # r
      BY <1>10, <2>1 DEF HasProduct, IInv, TotalIsRow
    <2>2. CASE s = r /\ x = p
      BY <1>2, <1>7, <1>8, <1>10, <2>2
    <2>3. CASE s = r /\ x # p
      <3>1. m.gain[x] = mem[r].gain[x] /\ m.total[x] = mem[r].total[x] /\ HasProduct(r, x)
        BY <1>7, <1>8, <1>10, <2>3 DEF HasProduct
      <3>2. mem[r].total[x] = owned[u][x].n + mem[r].gain[x]
        BY <3>1 DEF IInv, TotalIsRow
      <3> QED
        BY <1>7, <1>10, <2>3, <3>1, <3>2
    <2> QED
      BY <2>1, <2>2, <2>3
  <1>13. OwnedIsBacked'
    BY <1>1 DEF IInv, OwnedIsBacked, OwnedMatchesHistory
  <1> QED
    BY <1>9, <1>11, <1>12, <1>13 DEF IInv

LEMMA LockCartInv == ASSUME IInv, NEW r \in Requests, LockCart(r) PROVE IInv'
  <1> DEFINE u == mem[r].user
             seen == [p \in Products |-> IF HasProduct(r, p) THEN cart[u][p] ELSE NoRow]
             m == [mem[r] EXCEPT !.seen = seen]
  <1>1. /\ pc[r] = "item" /\ pc' = [pc EXCEPT ![r] = "commit"]
        /\ mem' = [mem EXCEPT ![r] = m]
        /\ UNCHANGED <<cart, owned, bought, kind>>
    BY DEF LockCart, Goto, Remember, rows
  <1>2. mem[r] \in Memory /\ u \in Users /\ seen \in [Products -> Line \cup {NoRow}]
    BY MemoryFields DEF IInv, TypeOK
  <1>3. \A p \in Products : seen[p] = IF HasProduct(r, p) THEN cart[u][p] ELSE NoRow
    OBVIOUS
  <1> HIDE DEF seen
  <1>4. /\ m \in Memory /\ m.gain = mem[r].gain /\ m.total = mem[r].total /\ m.user = u
        /\ m.k = mem[r].k /\ m.copy = mem[r].copy /\ m.product = mem[r].product
        /\ m.seen = seen
    BY <1>2 DEF Memory
  <1> HIDE DEF m
  <1>5. TypeOK'
    BY <1>1, <1>4 DEF IInv, TypeOK, Labels
  <1>6. /\ \A s \in Requests : s # r => pc'[s] = pc[s] /\ mem'[s] = mem[s]
        /\ pc'[r] = "commit" /\ mem'[r] = m
    BY <1>1 DEF IInv, TypeOK
  <1>7. \A s \in Requests, p \in Products : HasProduct(s, p)' <=> HasProduct(s, p)
    BY <1>4, <1>6 DEF HasProduct
  <1>8. (LocksAreHeld /\ OneCheckout /\ AsksForSome /\ CopyIsBacked)'
    BY <1>1, <1>4, <1>6 DEF IInv, LocksAreHeld, OneCheckout, AsksForSome, CopyIsBacked, Buying
  <1>9. TotalIsRow'
    BY <1>1, <1>4, <1>6, <1>7 DEF IInv, TotalIsRow
  <1>10. SeenIsCart'
    BY <1>1, <1>3, <1>4, <1>6, <1>7 DEF IInv, SeenIsCart
  <1>11. OwnedIsBacked'
    BY <1>1 DEF IInv, OwnedIsBacked, OwnedMatchesHistory
  <1> QED
    BY <1>5, <1>8, <1>9, <1>10, <1>11 DEF IInv

\* What a commit writes.
LEMMA CommitEffect ==
    ASSUME IInv, NEW r \in Requests, Commit(r)
    PROVE  /\ mem[r].user \in Users
           /\ mem[r].gain \in [Products -> Nat]
           /\ \A v \in Users : v # mem[r].user =>
                 cart'[v] = cart[v] /\ owned'[v] = owned[v] /\ bought'[v] = bought[v]
           /\ \A p \in Products :
                 /\ cart'[mem[r].user][p] =
                       IF HasProduct(r, p) /\ cart[mem[r].user][p] # NoRow
                       THEN LeftOver(r, cart[mem[r].user][p], p)
                       ELSE cart[mem[r].user][p]
                 /\ owned'[mem[r].user][p] =
                       IF HasProduct(r, p)
                       THEN [n |-> owned[mem[r].user][p].n + mem[r].gain[p], active |-> TRUE]
                       ELSE owned[mem[r].user][p]
                 /\ bought'[mem[r].user][p] = bought[mem[r].user][p] + mem[r].gain[p]
           /\ cart' \in [Users -> [Products -> Line \cup {NoRow}]]
           /\ owned' \in [Users -> [Products -> Owned]]
           /\ bought' \in [Users -> [Products -> Nat]]
  <1> DEFINE u == mem[r].user
             lines == [p \in Products |->
               IF mem[r].seen[p] = NoRow THEN cart[u][p] ELSE LeftOver(r, mem[r].seen[p], p)]
             own == [p \in Products |->
               IF HasProduct(r, p) THEN [n |-> mem[r].total[p], active |-> TRUE]
               ELSE owned[u][p]]
             sold == [p \in Products |-> bought[u][p] + mem[r].gain[p]]
  <1>1. /\ cart' = [cart EXCEPT ![u] = lines] /\ owned' = [owned EXCEPT ![u] = own]
        /\ bought' = [bought EXCEPT ![u] = sold] /\ pc[r] = "commit"
    BY DEF Commit
  <1>2. /\ u \in Users /\ mem[r].gain \in [Products -> Nat]
        /\ mem[r].total \in [Products -> Nat]
        /\ cart[u] \in [Products -> Line \cup {NoRow}]
        /\ owned[u] \in [Products -> Owned] /\ bought[u] \in [Products -> Nat]
    BY MemoryFields DEF Memory, IInv, TypeOK
  <1>3. \A p \in Products :
           mem[r].seen[p] = IF HasProduct(r, p) THEN cart[u][p] ELSE NoRow
    BY <1>1 DEF IInv, SeenIsCart
  <1>4. \A p \in Products :
           lines[p] = IF HasProduct(r, p) /\ cart[u][p] # NoRow
                      THEN LeftOver(r, cart[u][p], p) ELSE cart[u][p]
    BY <1>3
  <1>5. \A p \in Products :
           own[p] = IF HasProduct(r, p)
                    THEN [n |-> owned[u][p].n + mem[r].gain[p], active |-> TRUE]
                    ELSE owned[u][p]
    BY DEF IInv, TotalIsRow
  <1>6. \A p \in Products, line \in Line : LeftOver(r, line, p) \in Line \cup {NoRow}
    <2> SUFFICES ASSUME NEW p \in Products, NEW line \in Line, ~(line.n <= mem[r].gain[p])
                 PROVE  [line EXCEPT !.n = line.n - mem[r].gain[p]] \in Line
      BY DEF LeftOver
    <2>1. line.n \in Nat \ {0} /\ mem[r].gain[p] \in Nat
      BY <1>2 DEF Line
    <2>2. line.n - mem[r].gain[p] \in Nat \ {0}
      BY <2>1
    <2> QED
      BY <2>2 DEF Line
  <1>7. lines \in [Products -> Line \cup {NoRow}]
    BY <1>2, <1>4, <1>6
  <1>8. own \in [Products -> Owned]
    BY <1>2 DEF Owned
  <1>9. sold \in [Products -> Nat]
    BY <1>2
  <1>10. \A p \in Products : sold[p] = bought[u][p] + mem[r].gain[p]
    OBVIOUS
  <1> HIDE DEF lines, own, sold
  <1>11. /\ cart'[u] = lines /\ owned'[u] = own /\ bought'[u] = sold
         /\ \A v \in Users : v # u =>
               cart'[v] = cart[v] /\ owned'[v] = owned[v] /\ bought'[v] = bought[v]
         /\ cart' \in [Users -> [Products -> Line \cup {NoRow}]]
         /\ owned' \in [Users -> [Products -> Owned]]
         /\ bought' \in [Users -> [Products -> Nat]]
    BY <1>1, <1>2, <1>7, <1>8, <1>9 DEF IInv, TypeOK
  <1> QED
    BY <1>2, <1>4, <1>5, <1>10, <1>11

LEMMA CommitInv == ASSUME IInv, NEW r \in Requests, Commit(r) PROVE IInv'
  <1> DEFINE u == mem[r].user
  <1>1. /\ pc[r] = "commit" /\ pc' = [pc EXCEPT ![r] = "done"]
        /\ mem' = [mem EXCEPT ![r] = Blank] /\ UNCHANGED kind
    BY DEF Commit, Finish, Goto, Remember
  <1>2. /\ \A s \in Requests : s # r => pc'[s] = pc[s] /\ mem'[s] = mem[s]
        /\ pc'[r] = "done" /\ mem'[r] = Blank
    BY <1>1 DEF IInv, TypeOK
  <1>3. Blank.gain = None /\ \A p \in Products : None[p] = 0
    BY DEF Blank, None
  <1>4. TypeOK'
    BY <1>1, CommitEffect, BlankType DEF IInv, TypeOK, Labels
  <1>5. \A s \in Requests : Buying(s) /\ s # r => mem[s].user # u
    BY <1>1 DEF IInv, OneCheckout, Buying
  <1>6. \A s \in Requests, p \in Products : HasProduct(s, p) => Buying(s)
    BY <1>3 DEF IInv, LocksAreHeld, HasProduct
  <1>7. (LocksAreHeld /\ OneCheckout /\ AsksForSome)'
    BY <1>1, <1>2, <1>3 DEF IInv, LocksAreHeld, OneCheckout, AsksForSome, Buying
  <1>8. TotalIsRow'
    <2> SUFFICES ASSUME NEW s \in Requests, NEW p \in Products, HasProduct(s, p)'
                 PROVE  mem'[s].total[p] = owned'[mem'[s].user][p].n + mem'[s].gain[p]
      BY DEF TotalIsRow
    <2>1. s # r /\ mem'[s] = mem[s] /\ HasProduct(s, p)
      BY <1>2, <1>3 DEF HasProduct
    <2>2. mem[s].user \in Users /\ mem[s].user # u
      BY <1>5, <1>6, <2>1, MemoryFields
    <2>3. owned'[mem[s].user] = owned[mem[s].user]
      BY <2>2, CommitEffect
    <2> QED
      BY <2>1, <2>3 DEF IInv, TotalIsRow
  <1>9. SeenIsCart'
    <2> SUFFICES ASSUME NEW s \in Requests, NEW p \in Products, pc'[s] = "commit"
                 PROVE  mem'[s].seen[p] =
                          IF HasProduct(s, p)' THEN cart'[mem'[s].user][p] ELSE NoRow
      BY DEF SeenIsCart
    <2>1. s # r /\ mem'[s] = mem[s] /\ pc[s] = "commit" /\ Buying(s)
      BY <1>2 DEF Buying
    <2>2. mem[s].user \in Users /\ mem[s].user # u
      BY <1>5, <2>1, MemoryFields
    <2>3. cart'[mem[s].user] = cart[mem[s].user] /\ (HasProduct(s, p)' <=> HasProduct(s, p))
      BY <2>1, <2>2, CommitEffect DEF HasProduct
    <2> QED
      BY <2>1, <2>3 DEF IInv, SeenIsCart
  <1>10. \A v \in Users, p \in Products :
            /\ bought[v][p] \in Nat /\ owned[v][p].n \in Nat
            /\ bought'[v][p] >= bought[v][p]
            /\ \/ owned'[v][p].n = owned[v][p].n /\ bought'[v][p] = bought[v][p]
               \/ \E g \in Nat : /\ owned'[v][p].n = owned[v][p].n + g
                                 /\ bought'[v][p] = bought[v][p] + g
    <2> TAKE v \in Users, p \in Products
    <2>1. bought[v][p] \in Nat /\ owned[v][p].n \in Nat /\ mem[r].gain[p] \in Nat
      BY CommitEffect DEF IInv, TypeOK, Owned
    <2>2. CASE v # u
      BY <2>1, <2>2, CommitEffect
    <2>3. CASE v = u /\ HasProduct(r, p)
      <3>1. PICK g \in Nat : g = mem[r].gain[p]
        BY <2>1
      <3>2. /\ owned'[v][p] = [n |-> owned[v][p].n + mem[r].gain[p], active |-> TRUE]
            /\ bought'[v][p] = bought[v][p] + mem[r].gain[p]
        BY <2>3, CommitEffect
      <3>3. /\ owned'[v][p].n = owned[v][p].n + g /\ bought'[v][p] = bought[v][p] + g
            /\ bought'[v][p] >= bought[v][p]
        BY <2>1, <3>1, <3>2
      <3> QED
        BY <2>1, <3>3, Zenon
    <2>4. CASE v = u /\ ~HasProduct(r, p)
      <3>1. mem[r].gain[p] = 0
        BY <2>1, <2>4 DEF HasProduct
      <3>2. owned'[v][p] = owned[v][p] /\ bought'[v][p] = bought[v][p] + mem[r].gain[p]
        BY <2>4, CommitEffect
      <3>3. bought'[v][p] = bought[v][p]
        BY <2>1, <3>1, <3>2
      <3> QED
        BY <2>1, <3>2, <3>3
    <2> QED
      BY <2>2, <2>3, <2>4
  <1>11. CopyIsBacked'
    <2> SUFFICES ASSUME NEW s \in Requests
                 PROVE  /\ pc'[s] \in {"copy", "store"} => kind'[s] = "note"
                        /\ pc'[s] = "store" =>
                             mem'[s].copy.n <= bought'[mem'[s].user][mem'[s].product]
      BY DEF CopyIsBacked
    <2>1. pc'[s] \in {"copy", "store"} => s # r /\ pc'[s] = pc[s] /\ mem'[s] = mem[s]
      BY <1>2
    <2>2. /\ mem[s].user \in Users /\ mem[s].product \in Products
          /\ mem[s].copy.n \in Nat
      BY MemoryFields DEF Owned
    <2>3. /\ bought[mem[s].user][mem[s].product] \in Nat
          /\ bought'[mem[s].user][mem[s].product] >= bought[mem[s].user][mem[s].product]
          /\ bought'[mem[s].user][mem[s].product] \in Nat
      BY <1>10, <2>2, CommitEffect
    <2> QED
      BY <1>1, <2>1, <2>2, <2>3 DEF IInv, CopyIsBacked
  <1>12. OwnedIsBacked'
    <2>1. \A v \in Users, p \in Products : owned'[v][p].n <= bought'[v][p]
      BY <1>10 DEF IInv, OwnedIsBacked
    <2>2. "note" \notin {kind[s] : s \in Requests} => OwnedMatchesHistory'
      BY <1>10 DEF IInv, OwnedIsBacked, OwnedMatchesHistory
    <2> QED
      BY <1>1, <2>1, <2>2 DEF OwnedIsBacked
  <1> QED
    BY <1>4, <1>7, <1>8, <1>9, <1>11, <1>12 DEF IInv

-----------------------------------------------------------------------------
LEMMA NextInv == IInv /\ [Next]_vars => IInv'
  <1> SUFFICES ASSUME IInv, [Next]_vars PROVE IInv'
    OBVIOUS
  <1>1. CASE UNCHANGED vars
    BY <1>1 DEF vars, rows, IInv, TypeOK, AsksForSome, LocksAreHeld, OneCheckout, TotalIsRow,
                SeenIsCart, CopyIsBacked, OwnedIsBacked, OwnedMatchesHistory, Buying, HasProduct
  <1>2. ASSUME NEW r \in Requests, Begin(r) \/ Work(r) \/ Die(r)
        PROVE  IInv'
    <2>1. CASE Begin(r)
      BY <2>1, BeginInv
    <2>2. CASE Look(r) \/ Get(r) \/ CopyOwned(r)
      BY <2>2, LookInv, GetInv, CopyOwnedInv
    <2>3. CASE InsertLine(r) \/ Sum(r) \/ SetQuantity(r) \/ Delete(r) \/ Drop(r)
      BY <2>3, InsertLineInv, SaveInv
    <2>4. CASE Toggle(r) \/ StoreOwned(r)
      BY <2>4, ToggleInv, StoreOwnedInv
    <2>5. CASE LockAccount(r) \/ TakeItem(r) \/ LockCart(r) \/ Commit(r)
      BY <2>5, LockAccountInv, TakeItemInv, LockCartInv, CommitInv
    <2>6. CASE CommitFails(r) \/ Abort(r) \/ Die(r)
      BY <2>6, FinishInv DEF CommitFails, Abort, Die
    <2> QED
      BY <1>2, <2>1, <2>2, <2>3, <2>4, <2>5, <2>6 DEF Work
  <1> QED
    BY <1>1, <1>2 DEF Next

LEMMA Invariance == Spec => []IInv
  BY InitInv, NextInv, PTL DEF Spec

\* Type correctness.
THEOREM TypeCorrect == Spec => []TypeOK
  <1>1. IInv => TypeOK
    BY DEF IInv
  <1> QED
    BY <1>1, Invariance, PTL

\* Nobody owns more than was bought, and exactly that unless owned products are
\* patched.
THEOREM OwnedWasBought == Spec => []OwnedIsBacked
  <1>1. IInv => OwnedIsBacked
    BY DEF IInv
  <1> QED
    BY <1>1, Invariance, PTL

-----------------------------------------------------------------------------
\* Commit is the only step that counts a purchase.
LEMMA OnlyCommitBuys ==
    IInv /\ [Next]_vars => bought' = bought \/ \E r \in Requests : Commit(r)
  <1> SUFFICES ASSUME [Next]_vars PROVE bought' = bought \/ \E r \in Requests : Commit(r)
    OBVIOUS
  <1>1. CASE UNCHANGED vars
    BY <1>1 DEF vars, rows
  <1>2. ASSUME NEW r \in Requests, Begin(r) \/ Work(r) \/ Die(r), ~Commit(r)
        PROVE  bought' = bought
    BY <1>2 DEF Begin, Work, Die, Look, InsertLine, Sum, Get, SetQuantity, Delete, Drop,
                Toggle, CopyOwned, StoreOwned, LockAccount, TakeItem, LockCart,
                CommitFails, Abort, rows
  <1> QED
    BY <1>1, <1>2 DEF Next

Leaves ==
    \A u \in Users, p \in Products :
        LET n == bought'[u][p] - bought[u][p]
        IN  n > 0 =>
            cart'[u][p] = IF cart[u][p] = NoRow THEN NoRow
                          ELSE IF cart[u][p].n <= n THEN NoRow
                          ELSE [cart[u][p] EXCEPT !.n = @ - n]

LEMMA CommitLeaves == ASSUME IInv, NEW r \in Requests, Commit(r) PROVE Leaves
  <1> SUFFICES ASSUME NEW u \in Users, NEW p \in Products,
                      bought'[u][p] - bought[u][p] > 0
               PROVE  cart'[u][p] =
                        IF cart[u][p] = NoRow THEN NoRow
                        ELSE IF cart[u][p].n <= bought'[u][p] - bought[u][p] THEN NoRow
                        ELSE [cart[u][p] EXCEPT
                                !.n = @ - (bought'[u][p] - bought[u][p])]
    BY DEF Leaves
  <1>1. bought[u][p] \in Nat /\ mem[r].gain[p] \in Nat
    BY CommitEffect DEF IInv, TypeOK
  <1>2. u = mem[r].user
    BY <1>1, CommitEffect
  <1>3. bought'[u][p] = bought[u][p] + mem[r].gain[p]
    BY <1>2, CommitEffect
  <1>4. bought'[u][p] - bought[u][p] = mem[r].gain[p] /\ HasProduct(r, p)
    BY <1>1, <1>3 DEF HasProduct
  <1>5. cart'[u][p] = IF cart[u][p] # NoRow THEN LeftOver(r, cart[u][p], p) ELSE cart[u][p]
    BY <1>2, <1>4, CommitEffect
  <1> QED
    BY <1>4, <1>5 DEF LeftOver

\* What is bought leaves the cart in the same step, from the line as it is then.
THEOREM CartIsSettled == Spec => BoughtLeavesTheCart
  <1>1. IInv /\ [Next]_vars => [Leaves]_vars
    <2> SUFFICES ASSUME IInv, [Next]_vars PROVE Leaves
      OBVIOUS
    <2>1. CASE bought' = bought
      <3>1. \A u \in Users, p \in Products : bought[u][p] \in Nat
        BY DEF IInv, TypeOK
      <3> QED
        BY <2>1, <3>1 DEF Leaves
    <2> QED
      BY <2>1, OnlyCommitBuys, CommitLeaves
  <1> QED
    BY <1>1, Invariance, PTL DEF Spec, BoughtLeavesTheCart, Leaves

Appears ==
    \A u \in Users, p \in Products :
        cart[u][p] = NoRow /\ cart'[u][p] # NoRow
        => \E r \in Requests : pc[r] # "done" /\ pc'[r] = "done"
                               /\ cart'[u][p] = [id |-> r, n |-> mem[r].k]

LEMMA StepAppears == IInv /\ [Next]_vars => Appears
  <1> SUFFICES ASSUME IInv, [Next]_vars, NEW u \in Users, NEW p \in Products,
                      cart[u][p] = NoRow, cart'[u][p] # NoRow
               PROVE  \E r \in Requests : pc[r] # "done" /\ pc'[r] = "done"
                                          /\ cart'[u][p] = [id |-> r, n |-> mem[r].k]
    BY DEF Appears
  <1>1. ASSUME cart' = cart PROVE FALSE
    BY <1>1
  <1>2. ~UNCHANGED vars
    BY <1>1 DEF vars, rows
  <1>3. PICK r \in Requests : Begin(r) \/ Work(r) \/ Die(r)
    BY <1>2 DEF Next
  <1>4. mem[r].user \in Users /\ mem[r].product \in Products
    BY MemoryFields
  <1>5. ASSUME NEW line, Set(mem[r].user, mem[r].product, line)
        PROVE  u = mem[r].user /\ p = mem[r].product /\ cart'[u][p] = line
    BY <1>4, <1>5 DEF Set, IInv, TypeOK
  <1>6. CASE InsertLine(r)
    <2>1. CASE cart[mem[r].user][mem[r].product] = NoRow
      <3>1. /\ Set(mem[r].user, mem[r].product, [id |-> r, n |-> mem[r].k])
            /\ pc[r] = "insert" /\ pc' = [pc EXCEPT ![r] = "done"]
        BY <1>6, <2>1 DEF InsertLine, Finish, Goto
      <3>2. pc'[r] = "done"
        BY <3>1 DEF IInv, TypeOK
      <3> QED
        BY <1>5, <3>1, <3>2
    <2>2. CASE cart[mem[r].user][mem[r].product] # NoRow
      BY <1>1, <1>6, <2>2 DEF InsertLine
    <2> QED
      BY <2>1, <2>2
  <1>7. CASE Sum(r) \/ SetQuantity(r) \/ Delete(r) \/ Drop(r)
    <2>1. \E line : Set(mem[r].user, mem[r].product, line)
                    /\ (cart[mem[r].user][mem[r].product] = NoRow => line = NoRow)
      BY <1>7 DEF Sum, SetQuantity, Delete, Drop, Saved
    <2> QED
      BY <1>5, <2>1
  <1>8. CASE Commit(r)
    <2>1. CASE u = mem[r].user
      BY <1>8, <2>1, CommitEffect
    <2>2. CASE u # mem[r].user
      BY <1>8, <2>2, CommitEffect
    <2> QED
      BY <2>1, <2>2
  <1>9. ASSUME ~InsertLine(r), ~Sum(r), ~SetQuantity(r), ~Delete(r), ~Drop(r), ~Commit(r)
        PROVE  cart' = cart
    BY <1>3, <1>9 DEF Begin, Work, Die, Look, Get, Toggle, CopyOwned, StoreOwned,
                      LockAccount, TakeItem, LockCart, CommitFails, Abort, rows
  <1> QED
    BY <1>1, <1>6, <1>7, <1>8, <1>9

\* A line appears only with the quantity of one request: none that was deleted
\* comes back.
THEOREM NoLineReturns == Spec => DeletedStaysDeleted
  <1>1. IInv /\ [Next]_vars => [Appears]_vars
    BY StepAppears
  <1> QED
    BY <1>1, Invariance, PTL DEF Spec, DeletedStaysDeleted, Appears

=============================================================================
