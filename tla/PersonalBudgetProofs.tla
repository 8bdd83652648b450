------------------------- MODULE PersonalBudgetProofs -------------------------
(***************************************************************************)
(* For any campaigns, users, requests, limits and costs: an assignment of  *)
(* an offer keeps to the weekly limit of its campaign, counts nothing that *)
(* was not assigned, and leaves no open offer unpaid.  All three rest on   *)
(* what a request remembers of the rows it has locked.                     *)
(***************************************************************************)
EXTENDS PersonalBudget, SequenceTheorems, FiniteSetTheorems, TLAPS

USE PersonalBudgetAssumption

\* A request that holds row locks.
Locking == {"choose", "refund", "spend"}

\* It has copied the rows, and then picked an offer.
CopyInv == \A r \in Requests :
    /\ pc[r] \in Locking => mem[r].copy \in [Campaigns -> Row]
    /\ pc[r] \in {"refund", "spend"} => mem[r].new \in Offer

BaseInv == TypeOK /\ CopyInv

-----------------------------------------------------------------------------
\* Types.

LEMMA BlankType == Blank \in Memory /\ NoOffer.cost = 0
  <1> DEFINE someone == CHOOSE u \in Users : TRUE
  <1>1. someone \in Users
    OBVIOUS
  <1>2. 0 \in Weeks /\ <<>> \in Seq(Offer) /\ <<>> \in Seq(Campaigns)
    BY DEF Weeks
  <1>3. NoOffer.cost = 0
    BY DEF NoOffer
  <1>4. NoOffer \in Offer \cup {NoOffer} /\ <<>> \in [Campaigns -> Row] \cup {<<>>}
    OBVIOUS
  <1> DEFINE none == <<>>
  <1>5. Blank = [user |-> someone, today |-> 0, seen |-> none,
                 old |-> NoOffer, closed |-> FALSE, superseded |-> FALSE, want |-> none,
                 copy |-> none, new |-> NoOffer, spent |-> 0]
    BY DEF Blank
  <1>6. none \in Seq(Offer) /\ none \in Seq(Campaigns) /\ none \in [Campaigns -> Row] \cup {<<>>}
    BY <1>2, <1>4
  <1> HIDE DEF none, someone
  <1> QED
    BY <1>1, <1>2, <1>3, <1>4, <1>5, <1>6 DEF Memory

LEMMA MemoryFields ==
    ASSUME TypeOK, NEW r \in Requests
    PROVE  /\ mem[r] \in Memory /\ mem[r].user \in Users /\ mem[r].today \in Weeks
           /\ mem[r].seen \in Seq(Offer) /\ mem[r].old \in Offer \cup {NoOffer}
           /\ mem[r].closed \in BOOLEAN /\ mem[r].superseded \in BOOLEAN
           /\ mem[r].want \in Seq(Campaigns)
           /\ mem[r].copy \in [Campaigns -> Row] \cup {<<>>}
           /\ mem[r].new \in Offer \cup {NoOffer} /\ mem[r].spent \in Nat
           /\ mem[r].old.cost \in Nat /\ mem[r].new.cost \in Nat
  <1>1. mem[r] \in Memory
    BY DEF TypeOK
  <1>2. \A o \in Offer \cup {NoOffer} : o.cost \in Nat
    <2>1. \A o \in Offer : o.cost \in Costs
      BY DEF Offer
    <2>2. NoOffer.cost \in Nat
      BY BlankType
    <2> QED
      BY <2>1, <2>2
  <1> QED
    BY <1>1, <1>2 DEF Memory

LEMMA CurrentType ==
    ASSUME NEW g \in Row, NEW w \in Weeks
    PROVE  /\ Current(g, w) \in Row /\ Current(g, w).week = w
           /\ Current(g, w).limit = g.limit
           /\ Current(g, w).spent = IF g.week = w THEN g.spent ELSE 0
  BY DEF Current, Row

\* One offer less.
LEMMA WithoutType ==
    ASSUME NEW S, NEW offers \in Seq(S), NEW old
    PROVE  /\ Without(offers, old) \in Seq(S)
           /\ (\E i \in DOMAIN offers : offers[i] = old) => Without(offers, old) # offers
           /\ \A i \in DOMAIN offers : offers[i] # old =>
                 \E j \in DOMAIN Without(offers, old) : Without(offers, old)[j] = offers[i]
  <1>1. CASE ~\E i \in DOMAIN offers : offers[i] = old
    BY <1>1 DEF Without
  <1>2. CASE \E i \in DOMAIN offers : offers[i] = old
    <2> DEFINE at == CHOOSE i \in DOMAIN offers : offers[i] = old
               front == SubSeq(offers, 1, at - 1)
               back == SubSeq(offers, at + 1, Len(offers))
    <2>1. at \in 1..Len(offers) /\ offers[at] = old
      BY <1>2
    <2>2. Without(offers, old) = front \o back
      BY <1>2 DEF Without
    <2> HIDE DEF at
    <2>3. front \in Seq(S) /\ Len(front) = at - 1 /\ \A k \in 1..(at - 1) : front[k] = offers[k]
      BY <2>1
    <2>4. back \in Seq(S) /\ Len(back) = Len(offers) - at
          /\ \A k \in 1..(Len(offers) - at) : back[k] = offers[at + k]
      BY <2>1
    <2> HIDE DEF front, back
    <2>5. /\ front \o back \in Seq(S) /\ Len(front \o back) = Len(offers) - 1
          /\ \A k \in 1..(at - 1) : (front \o back)[k] = offers[k]
          /\ \A k \in at..(Len(offers) - 1) : (front \o back)[k] = offers[k + 1]
      <3>1. /\ front \o back \in Seq(S)
            /\ Len(front \o back) = Len(front) + Len(back)
            /\ \A k \in 1..Len(front) + Len(back) : (front \o back)[k] =
                 IF k <= Len(front) THEN front[k] ELSE back[k - Len(front)]
        BY <2>3, <2>4, ConcatProperties
      <3> QED
        BY <2>1, <2>3, <2>4, <3>1
    <2>6. ASSUME NEW i \in DOMAIN offers, offers[i] # old
          PROVE  \E j \in DOMAIN (front \o back) : (front \o back)[j] = offers[i]
      <3>1. i \in 1..Len(offers) /\ i # at
        BY <2>1, <2>6
      <3>2. CASE i < at
        BY <2>1, <2>5, <3>1, <3>2
      <3>3. CASE i > at
        <4>1. i - 1 \in at..(Len(offers) - 1) /\ i - 1 \in 1..(Len(offers) - 1)
          BY <2>1, <3>1, <3>3
        <4> QED
          BY <2>1, <2>5, <3>1, <4>1
      <3> QED
        BY <2>1, <3>1, <3>2, <3>3
    <2> QED
      BY <2>2, <2>5, <2>6
  <1> QED
    BY <1>1, <1>2

\* One request moves on, and the store changes within its types.
StoreType ==
    /\ row' \in [Campaigns -> Row]
    /\ holder' \in [Campaigns -> Requests \cup {NoRequest}]
    /\ open' \in [Users -> Seq(Offer)]
    /\ given' \in [Campaigns -> [Weeks -> Nat]]
    /\ live' \in [Campaigns -> Int]

LEMMA MoveBase ==
    ASSUME BaseInv, NEW r \in Requests, NEW label \in Labels, NEW m \in Memory,
           pc' = [pc EXCEPT ![r] = label], mem' = [mem EXCEPT ![r] = m],
           UNCHANGED <<now, kind>>, StoreType,
           label \in Locking => m.copy \in [Campaigns -> Row],
           label \in {"refund", "spend"} => m.new \in Offer
    PROVE  BaseInv'
  <1>1. TypeOK'
    BY DEF BaseInv, TypeOK, StoreType
  <1>2. CopyInv'
    BY DEF BaseInv, TypeOK, CopyInv
  <1> QED
    BY <1>1, <1>2 DEF BaseInv

LEMMA FinishBase ==
    ASSUME BaseInv, NEW r \in Requests, Finish(r), UNCHANGED <<now, kind>>,
           row' \in [Campaigns -> Row], open' \in [Users -> Seq(Offer)],
           given' \in [Campaigns -> [Weeks -> Nat]], live' \in [Campaigns -> Int]
    PROVE  BaseInv'
  <1>1. "done" \in Labels /\ "done" \notin Locking /\ "done" \notin {"refund", "spend"}
    BY DEF Labels, Locking
  <1>2. holder' \in [Campaigns -> Requests \cup {NoRequest}]
    BY DEF Finish, BaseInv, TypeOK
  <1>3. pc' = [pc EXCEPT ![r] = "done"] /\ mem' = [mem EXCEPT ![r] = Blank]
    BY DEF Finish, Goto, Remember
  <1> QED
    BY <1>1, <1>2, <1>3, BlankType, MoveBase DEF StoreType

LEMMA CampaignCount == Cardinality(Campaigns) \in Nat
  BY FS_CardinalityType

\* The steps before the rows are copied.
LEMMA EarlyBase ==
    ASSUME BaseInv, NEW r \in Requests,
           \/ Begin(r) \/ Find(r) \/ Await(r) \/ FindNone(r) \/ Close(r) \/ Supersede(r)
           \/ Lock(r) \/ Acquire(r)
    PROVE  BaseInv'
  <1>1. UNCHANGED <<now, kind>> /\ StoreType
    <2>1. CASE Acquire(r)
      BY <2>1 DEF Acquire, BaseInv, TypeOK, StoreType, store
    <2> QED
      BY <2>1 DEF Begin, Find, Await, FindNone, Close, Supersede, Lock, BaseInv, TypeOK, StoreType,
                  store
  <1>2. PICK label \in Labels : pc' = [pc EXCEPT ![r] = label] /\ label \notin Locking
    <2>1. CASE Begin(r) \/ Find(r) \/ FindNone(r)
      BY <2>1 DEF Begin, Find, FindNone, Goto, Labels, Locking
    <2>2. CASE Await(r) \/ Close(r) \/ Supersede(r) \/ Acquire(r)
      <3>1. pc[r] \in {"await", "lock", "acquire"}
        BY <2>2 DEF Await, Close, Supersede, Acquire
      <3>2. pc' = [pc EXCEPT ![r] = pc[r]] \/ pc' = [pc EXCEPT ![r] = "lock"]
        BY <2>2 DEF Await, Close, Supersede, Acquire, Goto, BaseInv, TypeOK
      <3> QED
        BY <3>1, <3>2 DEF Labels, Locking
    <2>3. CASE Lock(r)
      BY <2>3 DEF Lock, Goto, Labels, Locking
    <2> QED
      BY <2>1, <2>2, <2>3
  <1>3. mem[r] \in Memory
    BY MemoryFields DEF BaseInv
  <1>4. PICK m \in Memory : mem' = [mem EXCEPT ![r] = m]
    <2>1. CASE Begin(r)
      <3>1. PICK u \in Users : mem' = [mem EXCEPT ![r] = [Blank EXCEPT !.user = u, !.today = now]]
        BY <2>1 DEF Begin, Remember
      <3>2. [Blank EXCEPT !.user = u, !.today = now] \in Memory
        BY BlankType DEF Memory, BaseInv, TypeOK
      <3> QED
        BY <3>1, <3>2
    <2>2. CASE Find(r)
      <3>1. open[mem[r].user] \in Seq(Offer)
        BY MemoryFields DEF BaseInv, TypeOK
      <3>2. [mem[r] EXCEPT !.seen = open[mem[r].user]] \in Memory
        BY <1>3, <3>1 DEF Memory
      <3> QED
        BY <2>2, <3>2 DEF Find, Remember
    <2>3. CASE Await(r)
      <3> DEFINE seen == mem[r].seen
      <3>1. seen \in Seq(Offer) /\ seen # <<>>
        BY <2>3, MemoryFields DEF Await, BaseInv
      <3>2. Newest(r) \in Offer
        BY <3>1 DEF Newest
      <3>3. SubSeq(seen, 1, Len(seen) - 1) \in Seq(Offer)
        BY <3>1
      <3>4. [mem[r] EXCEPT !.old = Newest(r)] \in Memory
        BY <1>3, <3>2 DEF Memory
      <3>5. [mem[r] EXCEPT !.seen = SubSeq(seen, 1, Len(seen) - 1)] \in Memory
        BY <1>3, <3>3 DEF Memory
      <3>6. \/ mem' = [mem EXCEPT ![r] = [mem[r] EXCEPT !.old = Newest(r)]]
            \/ mem' = [mem EXCEPT ![r] =
                         [mem[r] EXCEPT !.seen = SubSeq(seen, 1, Len(seen) - 1)]]
        BY <1>3, <2>3 DEF Await, Remember, Memory
      <3> QED
        BY <3>4, <3>5, <3>6
    <2>4. CASE FindNone(r)
      BY <1>3, <2>4 DEF FindNone, BaseInv, TypeOK
    <2>5. CASE Close(r) \/ Supersede(r)
      <3>1. [mem[r] EXCEPT !.closed = TRUE] \in Memory
            /\ [mem[r] EXCEPT !.superseded = TRUE] \in Memory
        BY <1>3 DEF Memory
      <3> QED
        BY <2>5, <3>1 DEF Close, Supersede, Remember
    <2>6. CASE Lock(r)
      <3>1. PICK scan \in Scans : mem' = [mem EXCEPT ![r] = [mem[r] EXCEPT !.want = scan]]
        BY <2>6 DEF Lock, Remember
      <3>2. PICK n \in 1..Cardinality(Campaigns) : scan \in [1..n -> Campaigns]
        BY DEF Scans
      <3>3. n \in Nat
        BY CampaignCount
      <3>4. scan \in Seq(Campaigns)
        BY <3>2, <3>3
      <3>5. [mem[r] EXCEPT !.want = scan] \in Memory
        BY <1>3, <3>4 DEF Memory
      <3> QED
        BY <3>1, <3>5
    <2>7. CASE Acquire(r)
      <3> DEFINE rest == Tail(mem[r].want)
      <3>1. rest \in Seq(Campaigns)
        BY <2>7, MemoryFields DEF Acquire, BaseInv
      <3>2. mem' = [mem EXCEPT ![r] = [mem[r] EXCEPT !.want = rest]]
        BY <1>3, <2>7 DEF Acquire, Remember, Memory
      <3> HIDE DEF rest
      <3>3. [mem[r] EXCEPT !.want = rest] \in Memory
        BY <1>3, <3>1 DEF Memory
      <3> QED
        BY <3>2, <3>3
    <2> QED
      BY <2>1, <2>2, <2>3, <2>4, <2>5, <2>6, <2>7
  <1>5. {"refund", "spend"} \subseteq Locking
    BY DEF Locking
  <1> QED
    BY <1>1, <1>2, <1>4, <1>5, MoveBase

LEMMA OpenAfterType ==
    ASSUME BaseInv, NEW r \in Requests
    PROVE  /\ OpenAfter(r) \in Seq(Offer)
           /\ [c \in Campaigns |-> LiveAfter(r, c)] \in [Campaigns -> Int]
           /\ \A c \in Campaigns : LiveAfter(r, c) \in Int /\ LiveAfter(r, c) <= live[c]
  <1>1. open[mem[r].user] \in Seq(Offer)
    BY MemoryFields DEF BaseInv, TypeOK
  <1>2. OpenAfter(r) \in Seq(Offer)
    BY <1>1, WithoutType DEF OpenAfter
  <1>3. mem[r].old.cost \in Nat
    BY MemoryFields DEF BaseInv
  <1>4. \A c \in Campaigns : LiveAfter(r, c) \in Int /\ LiveAfter(r, c) <= live[c]
    BY <1>3 DEF LiveAfter, BaseInv, TypeOK
  <1> QED
    BY <1>2, <1>4

LEMMA AcquiredBase ==
    ASSUME BaseInv, NEW r \in Requests, Acquired(r)
    PROVE  BaseInv'
  <1>2. StoreType
    BY DEF Acquired, store, StoreType, BaseInv, TypeOK
  <1>3. row \in [Campaigns -> Row] /\ mem[r] \in Memory
    BY MemoryFields DEF BaseInv, TypeOK
  <1>4. [mem[r] EXCEPT !.copy = row] \in Memory /\ [mem[r] EXCEPT !.copy = row].copy = row
    BY <1>3 DEF Memory
  <1>5. /\ mem' = [mem EXCEPT ![r] = [mem[r] EXCEPT !.copy = row]]
        /\ pc' = [pc EXCEPT ![r] = "choose"] /\ "choose" \in Labels
        /\ UNCHANGED <<now, kind>>
    BY DEF Acquired, Goto, Remember, Labels
  <1> QED
    BY <1>2, <1>3, <1>4, <1>5, MoveBase

\* What Choose remembers.
Chosen(r, visited, c, cost, copy) ==
    /\ copy = [x \in Campaigns |-> IF x \in visited
                 THEN Current(mem[r].copy[x], mem[r].today) ELSE mem[r].copy[x]]
    /\ cost <= Left(copy[c])
    /\ mem'[r] \in Memory /\ mem' = [mem EXCEPT ![r] = mem'[r]]
    /\ mem'[r].copy = copy /\ mem'[r].spent = copy[c].spent
    /\ mem'[r].new = [id |-> r, campaign |-> c, cost |-> cost]
    /\ mem'[r].old = mem[r].old /\ mem'[r].today = mem[r].today
    /\ mem'[r].user = mem[r].user
    /\ mem'[r].closed = mem[r].closed /\ mem'[r].superseded = mem[r].superseded

LEMMA ChooseStep ==
    ASSUME BaseInv, NEW r \in Requests, Choose(r)
    PROVE  \E visited \in SUBSET Mine(r) : \E c \in visited, cost \in Costs,
             copy \in [Campaigns -> Row] : Chosen(r, visited, c, cost, copy)
  <1>1. PICK visited \in SUBSET Mine(r) :
          LET copy == [x \in Campaigns |-> IF x \in visited
                        THEN Current(mem[r].copy[x], mem[r].today) ELSE mem[r].copy[x]]
          IN  \E c \in visited, cost \in Costs :
                /\ cost <= Left(copy[c])
                /\ mem' = [mem EXCEPT ![r] = [mem[r] EXCEPT !.copy = copy, !.spent = copy[c].spent,
                              !.new = [id |-> r, campaign |-> c, cost |-> cost]]]
    BY DEF Choose, Remember
  <1> DEFINE copy == [x \in Campaigns |-> IF x \in visited
                        THEN Current(mem[r].copy[x], mem[r].today) ELSE mem[r].copy[x]]
  <1>2. PICK c \in visited, cost \in Costs :
          /\ cost <= Left(copy[c])
          /\ mem' = [mem EXCEPT ![r] = [mem[r] EXCEPT !.copy = copy, !.spent = copy[c].spent,
                        !.new = [id |-> r, campaign |-> c, cost |-> cost]]]
    BY <1>1
  <1>3. mem[r] \in Memory /\ mem[r].today \in Weeks /\ mem \in [Requests -> Memory]
    BY MemoryFields DEF BaseInv, TypeOK
  <1>4. mem[r].copy \in [Campaigns -> Row]
    BY DEF Choose, BaseInv, CopyInv, Locking
  <1>5. copy \in [Campaigns -> Row]
    BY <1>3, <1>4, CurrentType
  <1>6. c \in Campaigns
    BY DEF Mine
  <1>7. [id |-> r, campaign |-> c, cost |-> cost] \in Offer
    BY <1>6 DEF Offer
  <1>8. copy[c].spent \in Nat
    BY <1>5, <1>6 DEF Row
  <1> HIDE DEF copy
  <1> DEFINE spent == copy[c].spent
             new == [id |-> r, campaign |-> c, cost |-> cost]
  <1>9. mem' = [mem EXCEPT ![r] = [mem[r] EXCEPT !.copy = copy, !.spent = spent, !.new = new]]
        /\ new \in Offer /\ spent \in Nat
    BY <1>2, <1>7, <1>8
  <1> HIDE DEF spent, new
  <1> DEFINE m == [mem[r] EXCEPT !.copy = copy, !.spent = spent, !.new = new]
  <1>10. /\ m \in Memory /\ m.copy = copy /\ m.spent = spent /\ m.new = new
         /\ m.old = mem[r].old /\ m.today = mem[r].today /\ m.user = mem[r].user
         /\ m.closed = mem[r].closed /\ m.superseded = mem[r].superseded
    BY <1>3, <1>5, <1>9 DEF Memory
  <1>11. mem' = [mem EXCEPT ![r] = m]
    BY <1>9
  <1> HIDE DEF m
  <1>12. mem'[r] = m
    BY <1>3, <1>11
  <1>13. copy = [x \in Campaigns |-> IF x \in visited
                   THEN Current(mem[r].copy[x], mem[r].today) ELSE mem[r].copy[x]]
    BY DEF copy
  <1>14. spent = copy[c].spent /\ new = [id |-> r, campaign |-> c, cost |-> cost]
    BY DEF spent, new
  <1> QED
    <2>1. Chosen(r, visited, c, cost, copy)
      BY <1>2, <1>10, <1>11, <1>12, <1>13, <1>14 DEF Chosen
    <2> QED
      BY <1>5, <2>1

LEMMA ChooseBase ==
    ASSUME BaseInv, NEW r \in Requests, Choose(r)
    PROVE  BaseInv'
  <1>1. mem'[r] \in Memory /\ mem' = [mem EXCEPT ![r] = mem'[r]]
        /\ mem'[r].copy \in [Campaigns -> Row] /\ mem'[r].new \in Offer
    <2>1. PICK visited \in SUBSET Mine(r) : \E c \in visited, cost \in Costs,
            copy \in [Campaigns -> Row] : Chosen(r, visited, c, cost, copy)
      BY ChooseStep
    <2>3. PICK c \in visited, cost \in Costs, copy \in [Campaigns -> Row] :
            Chosen(r, visited, c, cost, copy)
      BY <2>1
    <2>2. [id |-> r, campaign |-> c, cost |-> cost] \in Offer
      BY DEF Offer, Mine
    <2> QED
      BY <2>2, <2>3 DEF Chosen
  <1>2. PICK label \in {"refund", "spend"} : pc' = [pc EXCEPT ![r] = label]
    BY DEF Choose, Goto
  <1>3. UNCHANGED <<now, kind>> /\ StoreType
    BY DEF Choose, store, StoreType, BaseInv, TypeOK
  <1>4. label \in Labels
    BY DEF Labels
  <1> DEFINE m == mem'[r]
  <1> HIDE DEF m
  <1>5. m \in Memory /\ mem' = [mem EXCEPT ![r] = m]
        /\ m.copy \in [Campaigns -> Row] /\ m.new \in Offer
    BY <1>1 DEF m
  <1> QED
    BY <1>2, <1>3, <1>4, <1>5, MoveBase

LEMMA OldCampaign ==
    ASSUME TypeOK, NEW r \in Requests
    PROVE  mem[r].old.campaign \in Campaigns
  <1>1. \A o \in Offer : o.campaign \in Campaigns
    BY DEF Offer
  <1>2. NoOffer.campaign \in Campaigns
    BY DEF NoOffer
  <1> QED
    BY <1>1, <1>2, MemoryFields

\* What Refund remembers.
Raw(r, c) == Current(IF holder[c] = r THEN mem[r].copy[c] ELSE row[c], mem[r].today)
Refunded(r, c) == [Raw(r, c) EXCEPT !.spent = Lowered(Raw(r, c).spent, mem[r].old.cost)]

WroteRefund(r, c) ==
    /\ c \in Campaigns /\ Refunded(r, c) \in Row
    /\ mem'[r] \in Memory /\ mem' = [mem EXCEPT ![r] = mem'[r]]
    /\ mem'[r].copy \in [Campaigns -> Row]
    /\ mem'[r].copy = [mem[r].copy EXCEPT ![c] = Refunded(r, c)]
    /\ mem'[r].new = mem[r].new /\ mem'[r].spent = mem[r].spent
    /\ mem'[r].old = mem[r].old /\ mem'[r].today = mem[r].today
    /\ mem'[r].user = mem[r].user
    /\ mem'[r].closed = mem[r].closed /\ mem'[r].superseded = mem[r].superseded
    /\ holder' = [holder EXCEPT ![c] = r] /\ holder[c] \in {NoRequest, r}

LEMMA RefundStep ==
    ASSUME BaseInv, NEW r \in Requests, Refund(r), NEW c, c = mem[r].old.campaign
    PROVE  WroteRefund(r, c)
  <1>1. c \in Campaigns /\ mem[r] \in Memory /\ mem[r].today \in Weeks
        /\ mem \in [Requests -> Memory] /\ mem[r].old.cost \in Nat
    BY OldCampaign, MemoryFields DEF BaseInv, TypeOK
  <1>2. mem[r].copy \in [Campaigns -> Row]
    BY DEF Refund, BaseInv, CopyInv, Locking
  <1>3. Raw(r, c) \in Row
    BY <1>1, <1>2, CurrentType DEF Raw, BaseInv, TypeOK
  <1>4. Lowered(Raw(r, c).spent, mem[r].old.cost) \in Nat
    BY <1>1, <1>3 DEF Row, Lowered
  <1>5. Refunded(r, c) \in Row
    BY <1>3, <1>4 DEF Refunded, Row
  <1>6. mem' = [mem EXCEPT ![r] = [mem[r] EXCEPT !.copy[c] = Refunded(r, c)]]
    BY <1>3 DEF Refund, Remember, Refunded, Raw, Row
  <1>7. mem' = [mem EXCEPT ![r] =
                 [mem[r] EXCEPT !.copy = [mem[r].copy EXCEPT ![c] = Refunded(r, c)]]]
    BY <1>1, <1>6 DEF Memory
  <1> DEFINE copy == [mem[r].copy EXCEPT ![c] = Refunded(r, c)]
  <1>8. copy \in [Campaigns -> Row]
    BY <1>1, <1>2, <1>5
  <1>9. mem' = [mem EXCEPT ![r] = [mem[r] EXCEPT !.copy = copy]]
    BY <1>7
  <1> HIDE DEF copy
  <1> DEFINE m == [mem[r] EXCEPT !.copy = copy]
  <1>10. /\ m \in Memory /\ m.copy = copy /\ m.new = mem[r].new /\ m.spent = mem[r].spent
         /\ m.old = mem[r].old /\ m.today = mem[r].today /\ m.user = mem[r].user
         /\ m.closed = mem[r].closed /\ m.superseded = mem[r].superseded
    BY <1>1, <1>8 DEF Memory
  <1>11. mem'[r] = m /\ mem' = [mem EXCEPT ![r] = m]
    BY <1>1, <1>9
  <1>12. holder' = [holder EXCEPT ![c] = r] /\ holder[c] \in {NoRequest, r}
    BY DEF Refund, FreeFor
  <1> QED
    <2>1. copy = [mem[r].copy EXCEPT ![c] = Refunded(r, c)]
      BY DEF copy
    <2> HIDE DEF m, copy
    <2>2. mem'[r].copy = copy /\ mem'[r].copy \in [Campaigns -> Row] /\ mem'[r] \in Memory
          /\ mem' = [mem EXCEPT ![r] = mem'[r]]
      BY <1>8, <1>10, <1>11
    <2> QED
      BY <1>1, <1>5, <1>10, <1>11, <1>12, <2>1, <2>2 DEF WroteRefund

LEMMA RefundBase ==
    ASSUME BaseInv, NEW r \in Requests, Refund(r)
    PROVE  BaseInv'
  <1>1. /\ mem'[r] \in Memory /\ mem' = [mem EXCEPT ![r] = mem'[r]]
        /\ mem'[r].copy \in [Campaigns -> Row] /\ mem'[r].new = mem[r].new
        /\ holder' = [holder EXCEPT ![mem[r].old.campaign] = r]
    <2>1. PICK c : c = mem[r].old.campaign
      OBVIOUS
    <2>2. WroteRefund(r, c)
      BY <2>1, RefundStep
    <2> QED
      BY <2>1, <2>2 DEF WroteRefund
  <1>2. mem[r].new \in Offer
    BY DEF Refund, BaseInv, CopyInv
  <1>3. pc' = [pc EXCEPT ![r] = "spend"] /\ "spend" \in Labels /\ UNCHANGED <<now, kind>>
    BY DEF Refund, Goto, Labels
  <1>4. StoreType
    <2>1. UNCHANGED store
      BY DEF Refund
    <2> QED
      BY <1>1, <2>1 DEF store, StoreType, BaseInv, TypeOK
  <1> DEFINE m == mem'[r]
  <1>5. m \in Memory /\ mem' = [mem EXCEPT ![r] = m]
        /\ m.copy \in [Campaigns -> Row] /\ m.new \in Offer
    BY <1>1, <1>2
  <1> HIDE DEF m
  <1> QED
    BY <1>3, <1>4, <1>5, MoveBase

\* What Spend writes into a row.
SpentRow(r, c) ==
    IF c = mem[r].new.campaign
    THEN [mem[r].copy[c] EXCEPT !.week = mem[r].today, !.spent = mem[r].spent + mem[r].new.cost]
    ELSE IF c \in Mine(r) THEN mem[r].copy[c] ELSE row[c]

LEMMA SpendBase ==
    ASSUME BaseInv, NEW r \in Requests, Spend(r)
    PROVE  BaseInv' /\ mem[r].new.campaign \in Campaigns /\ mem[r].new.cost \in Nat
           /\ \A c \in Campaigns : row'[c] = SpentRow(r, c) /\ SpentRow(r, c) \in Row
           /\ Finish(r) /\ pc[r] = "spend"
  <1>1. /\ mem[r].copy \in [Campaigns -> Row] /\ mem[r].new \in Offer
        /\ mem[r].today \in Weeks /\ mem[r].spent \in Nat /\ mem[r].user \in Users
    BY MemoryFields DEF Spend, BaseInv, CopyInv, Locking
  <1>2. mem[r].new.campaign \in Campaigns /\ mem[r].new.cost \in Costs
    BY <1>1 DEF Offer
  <1>3. mem[r].new.cost \in Nat
    BY <1>2
  <1>4. \A c \in Campaigns : SpentRow(r, c) \in Row
    <2> SUFFICES ASSUME NEW c \in Campaigns PROVE SpentRow(r, c) \in Row
      OBVIOUS
    <2>1. mem[r].copy[c] \in Row /\ row[c] \in Row
      BY <1>1 DEF BaseInv, TypeOK
    <2> DEFINE sum == mem[r].spent + mem[r].new.cost
    <2>2. sum \in Nat
      BY <1>1, <1>3
    <2> HIDE DEF sum
    <2>3. [mem[r].copy[c] EXCEPT !.week = mem[r].today, !.spent = sum] \in Row
      BY <1>1, <2>1, <2>2 DEF Row
    <2> QED
      BY <2>1, <2>3 DEF SpentRow, sum
  <1>5. row' = [c \in Campaigns |-> SpentRow(r, c)]
    BY DEF Spend, SpentRow
  <1>6. row' \in [Campaigns -> Row]
    BY <1>4, <1>5
  <1>7. open' \in [Users -> Seq(Offer)]
    <2>1. open' = [open EXCEPT ![mem[r].user] = Append(OpenAfter(r), mem[r].new)]
      BY DEF Spend
    <2>2. Append(OpenAfter(r), mem[r].new) \in Seq(Offer)
      BY <1>1, OpenAfterType
    <2> QED
      BY <2>1, <2>2 DEF BaseInv, TypeOK
  <1>8. live' \in [Campaigns -> Int]
    <2> DEFINE more(c) == LiveAfter(r, c) + IF c = mem[r].new.campaign THEN mem[r].new.cost ELSE 0
    <2>1. live' = [c \in Campaigns |-> more(c)]
      BY DEF Spend
    <2>2. \A c \in Campaigns : more(c) \in Int
      BY <1>3, OpenAfterType
    <2> HIDE DEF more
    <2> QED
      BY <2>1, <2>2
  <1>9. given' \in [Campaigns -> [Weeks -> Nat]]
    <2>1. given' = [given EXCEPT ![mem[r].new.campaign] =
            [given[mem[r].new.campaign] EXCEPT ![mem[r].today] =
               given[mem[r].new.campaign][mem[r].today] + mem[r].new.cost]]
      BY <1>1, <1>2 DEF Spend, BaseInv, TypeOK
    <2>2. given[mem[r].new.campaign][mem[r].today] + mem[r].new.cost \in Nat
      BY <1>1, <1>2, <1>3 DEF BaseInv, TypeOK
    <2> QED
      BY <1>1, <1>2, <2>1, <2>2 DEF BaseInv, TypeOK
  <1>10. Finish(r) /\ UNCHANGED <<now, kind>> /\ pc[r] = "spend"
    BY DEF Spend
  <1> QED
    BY <1>2, <1>3, <1>4, <1>5, <1>6, <1>7, <1>8, <1>9, <1>10, FinishBase

LEMMA EndsBase ==
    ASSUME BaseInv, NEW r \in Requests,
           Patch(r) \/ Keep(r) \/ ChooseNone(r) \/ Abort(r) \/ Die(r)
    PROVE  BaseInv'
  <1>1. Finish(r) /\ UNCHANGED <<given, now, kind>>
    BY DEF Patch, Keep, ChooseNone, Abort, Die, store
  <1>2. row' \in [Campaigns -> Row]
    <2>1. CASE Patch(r)
      <3>1. PICK c \in Campaigns, limit \in Limits, reset \in BOOLEAN :
              row' = [row EXCEPT ![c] =
                [week |-> IF reset THEN now ELSE row[c].week,
                 spent |-> IF reset THEN 0 ELSE row[c].spent, limit |-> limit]]
        BY <2>1 DEF Patch
      <3>2. [week |-> IF reset THEN now ELSE row[c].week,
             spent |-> IF reset THEN 0 ELSE row[c].spent, limit |-> limit] \in Row
        BY DEF Row, BaseInv, TypeOK
      <3> QED
        BY <3>1, <3>2 DEF BaseInv, TypeOK
    <2>2. CASE ChooseNone(r)
      <3>1. PICK visited \in SUBSET Mine(r) : row' = [c \in Campaigns |->
               IF c \in visited THEN Current(row[c], mem[r].today) ELSE row[c]]
        BY <2>2 DEF ChooseNone
      <3>2. \A c \in Campaigns : Current(row[c], mem[r].today) \in Row /\ row[c] \in Row
        BY CurrentType, MemoryFields DEF BaseInv, TypeOK
      <3> QED
        BY <3>1, <3>2
    <2>3. CASE Keep(r) \/ Abort(r) \/ Die(r)
      BY <2>3 DEF Keep, Abort, Die, store, BaseInv, TypeOK
    <2> QED
      BY <2>1, <2>2, <2>3
  <1>3. open' \in [Users -> Seq(Offer)] /\ live' \in [Campaigns -> Int]
    <2>1. CASE ChooseNone(r)
      BY <2>1, OpenAfterType DEF ChooseNone, BaseInv, TypeOK
    <2>2. CASE Patch(r) \/ Keep(r) \/ Abort(r) \/ Die(r)
      BY <2>2 DEF Patch, Keep, Abort, Die, store, BaseInv, TypeOK
    <2> QED
      BY <2>1, <2>2
  <1> QED
    BY <1>1, <1>2, <1>3, FinishBase DEF BaseInv, TypeOK

\* Every step of a request is one of these.
Moves(r) ==
    \/ Begin(r) \/ Find(r) \/ Await(r) \/ FindNone(r) \/ Close(r) \/ Supersede(r)
    \/ Lock(r) \/ Acquire(r) \/ Acquired(r) \/ Choose(r) \/ Refund(r) \/ Spend(r)
    \/ Patch(r) \/ Keep(r) \/ ChooseNone(r) \/ Abort(r) \/ Die(r)

LEMMA StepCases ==
    ASSUME Next
    PROVE  NextWeek \/ \E r \in Requests : Moves(r)
  BY DEF Next, Work, Moves

LEMMA MovesBase ==
    ASSUME BaseInv, NEW r \in Requests, Moves(r)
    PROVE  BaseInv'
  BY EarlyBase, AcquiredBase, ChooseBase, RefundBase, SpendBase, EndsBase DEF Moves

LEMMA NextBase == BaseInv /\ [Next]_vars => BaseInv'
  <1> SUFFICES ASSUME BaseInv, [Next]_vars PROVE BaseInv'
    OBVIOUS
  <1>1. CASE NextWeek
    <2>1. now' \in Weeks /\ UNCHANGED <<store, holder, kind, pc, mem>>
      BY <1>1 DEF NextWeek, BaseInv, TypeOK, Weeks
    <2>2. TypeOK'
      BY <2>1 DEF BaseInv, TypeOK, store
    <2>3. CopyInv'
      BY <2>1 DEF BaseInv, CopyInv
    <2> QED
      BY <2>2, <2>3 DEF BaseInv
  <1>2. CASE UNCHANGED vars
    BY <1>2 DEF vars, store, BaseInv, TypeOK, CopyInv
  <1> QED
    BY <1>1, <1>2, StepCases, MovesBase

LEMMA InitBase == Init => BaseInv
  <1> SUFFICES ASSUME Init PROVE BaseInv
    OBVIOUS
  <1>1. PICK first \in [Users -> {NoOffer} \cup {o \in Offer : o.id = Old}], others \in FirstSpent :
           /\ open = [u \in Users |-> IF first[u] = NoOffer THEN <<>> ELSE <<first[u]>>]
           /\ live = [c \in Campaigns |-> others + CostIn(first, c)]
    BY DEF Init
  <1>2. open \in [Users -> Seq(Offer)]
    <2>1. \A u \in Users : first[u] # NoOffer => first[u] \in Offer
      OBVIOUS
    <2> QED
      BY <1>1, <2>1
  <1>3. \A c \in Campaigns : CostIn(first, c) \in Nat
    <2> SUFFICES ASSUME NEW c \in Campaigns PROVE CostIn(first, c) \in Nat
      OBVIOUS
    <2> DEFINE holders == {u \in Users : first[u] # NoOffer /\ first[u].campaign = c}
               u0 == CHOOSE u \in holders : TRUE
    <2>1. CASE holders = {}
      BY <2>1 DEF CostIn
    <2>2. CASE holders # {}
      <3>1. u0 \in holders
        BY <2>2
      <3>2. first[u0] \in Offer
        BY <3>1
      <3>3. first[u0].cost \in Nat
        BY <3>2 DEF Offer
      <3> QED
        BY <2>2, <3>3 DEF CostIn
    <2> QED
      BY <2>1, <2>2
  <1>4. live \in [Campaigns -> Nat]
    BY <1>1, <1>3
  <1>5. row \in [Campaigns -> Row] /\ given \in [Campaigns -> [Weeks -> Nat]]
    <2>1. PICK limit \in Limits :
            row = [c \in Campaigns |-> [week |-> 0, spent |-> live[c], limit |-> limit]]
      BY DEF Init
    <2>2. \A c \in Campaigns : [week |-> 0, spent |-> live[c], limit |-> limit] \in Row
      BY <1>4 DEF Row, Weeks
    <2>3. given = [c \in Campaigns |-> [w \in Weeks |-> IF w = 0 THEN live[c] ELSE 0]]
      BY DEF Init
    <2> QED
      BY <1>4, <2>1, <2>2, <2>3
  <1>6. mem \in [Requests -> Memory] /\ pc \in [Requests -> Labels]
    BY BlankType DEF Init, Labels
  <1>7. TypeOK
    BY <1>2, <1>4, <1>5, <1>6 DEF Init, TypeOK, Weeks
  <1> QED
    BY <1>7 DEF Init, BaseInv, CopyInv, Locking

LEMMA AlwaysBase == Spec => []BaseInv
  <1> QED
    BY InitBase, NextBase, PTL DEF Spec

\* The variables keep their types (offers/models.py): weekly_spent is never negative,
\* although a refund may be larger than what its week has spent.
THEOREM TypeCorrect == Spec => []TypeOK
  <1>1. BaseInv => TypeOK
    BY DEF BaseInv
  <1> QED
    BY AlwaysBase, <1>1, PTL

-----------------------------------------------------------------------------
\* The rows a request holds.

\* Nobody else writes a row that a request holds, so what it has copied of it stays
\* true of it.
Copied(r, c) ==
    /\ mem[r].copy[c].limit = row[c].limit
    /\ mem[r].copy[c].spent <= row[c].spent
    /\ mem[r].copy[c].spent <= given[c][mem[r].copy[c].week]

\* What it has picked fits.
Picked(r) ==
    LET c == mem[r].new.campaign
    IN  /\ holder[c] = r
        /\ mem[r].spent + mem[r].new.cost <= row[c].limit
        /\ mem[r].spent <= given[c][mem[r].today]

Fit(r) ==
    /\ pc[r] \in Locking => \A c \in Campaigns : holder[c] = r => Copied(r, c)
    /\ pc[r] \in {"refund", "spend"} => Picked(r)

FitInv == NoPhantomSpending /\ \A r \in Requests : Fit(r)

\* What a step of r leaves to the others.
Frame(r) ==
    /\ \A s \in Requests \ {r} : mem'[s] = mem[s] /\ pc'[s] = pc[s]
    /\ \A c \in Campaigns, s \in Requests \ {r} :
         /\ holder'[c] = s <=> holder[c] = s
         /\ holder[c] = s => row'[c] = row[c]
    /\ \A c \in Campaigns, w \in Weeks : given'[c][w] >= given[c][w]

LEMMA OthersMemory ==
    ASSUME BaseInv, NEW r \in Requests, NEW label, NEW m,
           pc' = [pc EXCEPT ![r] = label], mem' = [mem EXCEPT ![r] = m]
    PROVE  \A s \in Requests \ {r} : mem'[s] = mem[s] /\ pc'[s] = pc[s]
  BY DEF BaseInv, TypeOK

LEMMA SameGiven ==
    ASSUME BaseInv, given' = given
    PROVE  \A c \in Campaigns, w \in Weeks : given'[c][w] >= given[c][w]
  BY DEF BaseInv, TypeOK

LEMMA FinishFrame ==
    ASSUME BaseInv, NEW r \in Requests, Finish(r),
           \A c \in Campaigns : holder[c] \notin {r, NoRequest} => row'[c] = row[c],
           \A c \in Campaigns, w \in Weeks : given'[c][w] >= given[c][w]
    PROVE  Frame(r)
  <1>1. \A s \in Requests \ {r} : mem'[s] = mem[s] /\ pc'[s] = pc[s]
    BY OthersMemory DEF Finish, Goto, Remember
  <1>2. \A c \in Campaigns : holder'[c] = IF holder[c] = r THEN NoRequest ELSE holder[c]
    BY DEF Finish
  <1> QED
    BY <1>1, <1>2 DEF Frame

LEMMA QuietFrame ==
    ASSUME BaseInv, NEW r \in Requests,
           \/ Begin(r) \/ Find(r) \/ Await(r) \/ FindNone(r) \/ Close(r) \/ Supersede(r)
           \/ Lock(r) \/ Acquire(r) \/ Acquired(r) \/ Choose(r) \/ Refund(r)
    PROVE  Frame(r)
  <1>1. UNCHANGED <<row, given>>
    BY DEF Begin, Find, Await, FindNone, Close, Supersede, Lock, Acquire, Acquired, Choose, Refund, store
  <1>2. \A s \in Requests \ {r} : mem'[s] = mem[s] /\ pc'[s] = pc[s]
    BY DEF Begin, Find, Await, FindNone, Close, Supersede, Lock, Acquire, Acquired, Choose, Refund, Goto,
           Remember, BaseInv, TypeOK
  <1>3. \A c \in Campaigns, s \in Requests \ {r} : holder'[c] = s <=> holder[c] = s
    <2>1. CASE Acquire(r)
      BY <2>1 DEF Acquire, FreeFor, BaseInv, TypeOK
    <2>2. CASE Refund(r)
      BY <2>2 DEF Refund, FreeFor, BaseInv, TypeOK
    <2>3. CASE UNCHANGED holder
      BY <2>3
    <2> QED
      BY <2>1, <2>2, <2>3 DEF Begin, Find, Await, FindNone, Close, Supersede, Lock, Acquired, Choose
  <1> QED
    BY <1>1, <1>2, <1>3, SameGiven DEF Frame

LEMMA SpendGiven ==
    ASSUME BaseInv, NEW r \in Requests, Spend(r)
    PROVE  \A c \in Campaigns, w \in Weeks :
             given'[c][w] = given[c][w] + IF c = mem[r].new.campaign /\ w = mem[r].today
                                          THEN mem[r].new.cost ELSE 0
  <1>1. given' = [given EXCEPT ![mem[r].new.campaign] =
            [given[mem[r].new.campaign] EXCEPT ![mem[r].today] =
               given[mem[r].new.campaign][mem[r].today] + mem[r].new.cost]]
    BY SpendBase, MemoryFields DEF Spend, BaseInv, TypeOK
  <1>2. /\ mem[r].new.campaign \in Campaigns /\ mem[r].new.cost \in Nat
        /\ mem[r].today \in Weeks /\ given \in [Campaigns -> [Weeks -> Nat]]
    BY SpendBase, MemoryFields DEF BaseInv, TypeOK
  <1> DEFINE x == mem[r].new.campaign
             y == mem[r].today
             z == mem[r].new.cost
  <1>3. /\ x \in Campaigns /\ y \in Weeks /\ z \in Nat
        /\ given' = [given EXCEPT ![x] = [given[x] EXCEPT ![y] = given[x][y] + z]]
    BY <1>1, <1>2
  <1> HIDE DEF x, y, z
  <1>4. \A c \in Campaigns, w \in Weeks :
          given'[c][w] = given[c][w] + IF c = x /\ w = y THEN z ELSE 0
    BY <1>2, <1>3
  <1> QED
    BY <1>4 DEF x, y, z

LEMMA MovesFrame ==
    ASSUME BaseInv, FitInv, NEW r \in Requests, Moves(r)
    PROVE  Frame(r)
  <1>1. CASE Spend(r)
    <2>1. Finish(r) /\ \A c \in Campaigns : row'[c] = SpentRow(r, c)
      BY <1>1, SpendBase
    <2>2. holder[mem[r].new.campaign] = r
      BY <1>1, SpendBase DEF FitInv, Fit, Picked
    <2>3. \A c \in Campaigns : holder[c] \notin {r, NoRequest} => row'[c] = row[c]
      BY <2>1, <2>2 DEF SpentRow, Mine
    <2>4. \A c \in Campaigns, w \in Weeks : given'[c][w] >= given[c][w]
      <3>1. mem[r].new.cost \in Nat
        BY <1>1, SpendBase
      <3>2. given \in [Campaigns -> [Weeks -> Nat]]
        BY DEF BaseInv, TypeOK
      <3> QED
        BY <1>1, <3>1, <3>2, SpendGiven
    <2> QED
      BY <2>1, <2>3, <2>4, FinishFrame
  <1>2. CASE Patch(r)
    <2>1. \A c \in Campaigns : holder[c] # NoRequest => row'[c] = row[c]
      BY <1>2 DEF Patch, BaseInv, TypeOK
    <2>2. Finish(r) /\ given' = given
      BY <1>2 DEF Patch
    <2> QED
      BY <2>1, <2>2, SameGiven, FinishFrame
  <1>3. CASE ChooseNone(r)
    <2>1. \A c \in Campaigns : holder[c] # r => row'[c] = row[c]
      BY <1>3 DEF ChooseNone, Mine
    <2>2. Finish(r) /\ given' = given
      BY <1>3 DEF ChooseNone
    <2> QED
      BY <2>1, <2>2, SameGiven, FinishFrame
  <1>4. CASE Keep(r) \/ Abort(r) \/ Die(r)
    <2>1. Finish(r) /\ given' = given /\ row' = row
      BY <1>4 DEF Keep, Abort, Die, store
    <2> QED
      BY <2>1, SameGiven, FinishFrame
  <1> QED
    BY <1>1, <1>2, <1>3, <1>4, QuietFrame DEF Moves

LEMMA OthersFit ==
    ASSUME BaseInv, BaseInv', FitInv, NEW r \in Requests, Frame(r), NEW s \in Requests \ {r}
    PROVE  Fit(s)'
  <1>0. \A c \in Campaigns, w \in Weeks : given[c][w] \in Nat /\ given'[c][w] \in Nat
    <2>1. given \in [Campaigns -> [Weeks -> Nat]] /\ given' \in [Campaigns -> [Weeks -> Nat]]
      BY DEF BaseInv, TypeOK
    <2> QED
      BY <2>1
  <1>1. mem'[s] = mem[s] /\ pc'[s] = pc[s] /\ Fit(s)
    BY DEF Frame, FitInv
  <1>2. ASSUME NEW c \in Campaigns, holder'[c] = s, pc[s] \in Locking
        PROVE  Copied(s, c)'
    <2>1. holder[c] = s /\ row'[c] = row[c]
      BY <1>2 DEF Frame
    <2>2. Copied(s, c)
      BY <1>1, <1>2, <2>1 DEF Fit
    <2>3. mem[s].copy[c] \in Row
      BY <1>2 DEF BaseInv, CopyInv
    <2>4. mem[s].copy[c].week \in Weeks /\ mem[s].copy[c].spent \in Nat
      BY <2>3 DEF Row
    <2>5. given'[c][mem[s].copy[c].week] >= given[c][mem[s].copy[c].week]
      BY <2>4 DEF Frame
    <2>6. given[c][mem[s].copy[c].week] \in Nat /\ given'[c][mem[s].copy[c].week] \in Nat
      BY <1>0, <2>4
    <2> QED
      BY <1>1, <2>1, <2>2, <2>4, <2>5, <2>6 DEF Copied
  <1>3. ASSUME pc[s] \in {"refund", "spend"}
        PROVE  Picked(s)'
    <2> DEFINE c == mem[s].new.campaign
    <2>1. Picked(s) /\ mem[s].new \in Offer
      BY <1>1, <1>3 DEF Fit, BaseInv, CopyInv
    <2>2. c \in Campaigns /\ mem[s].today \in Weeks /\ mem[s].spent \in Nat
      BY <2>1, MemoryFields DEF Offer, BaseInv
    <2>3. holder[c] = s
      BY <2>1 DEF Picked
    <2>4. holder'[c] = s /\ row'[c] = row[c] /\ given'[c][mem[s].today] >= given[c][mem[s].today]
      BY <2>2, <2>3 DEF Frame
    <2>5. given[c][mem[s].today] \in Nat /\ given'[c][mem[s].today] \in Nat
      BY <1>0, <2>2
    <2> QED
      BY <1>1, <2>1, <2>2, <2>4, <2>5 DEF Picked
  <1> QED
    BY <1>1, <1>2, <1>3 DEF Fit

\* A request that has not locked anything, or has let it go.
LEMMA IdleFit ==
    ASSUME BaseInv, NEW r \in Requests,
           \/ Begin(r) \/ Find(r) \/ Await(r) \/ FindNone(r) \/ Close(r) \/ Supersede(r)
           \/ Lock(r) \/ Acquire(r) \/ Finish(r)
    PROVE  Fit(r)'
  <1>1. pc'[r] \notin Locking
    BY DEF Begin, Find, Await, FindNone, Close, Supersede, Lock, Acquire, Finish, Goto, Locking,
           BaseInv, TypeOK
  <1>2. {"refund", "spend"} \subseteq Locking
    BY DEF Locking
  <1> QED
    BY <1>1, <1>2 DEF Fit

LEMMA GivenType ==
    ASSUME BaseInv
    PROVE  \A c \in Campaigns, w \in Weeks : given[c][w] \in Nat
  BY DEF BaseInv, TypeOK

LEMMA AcquiredFit ==
    ASSUME BaseInv, FitInv, NEW r \in Requests, Acquired(r)
    PROVE  Fit(r)'
  <1>1. mem[r] \in Memory /\ row \in [Campaigns -> Row]
    BY MemoryFields DEF BaseInv, TypeOK
  <1>2. mem'[r].copy = row
    BY <1>1 DEF Acquired, Remember, Memory, BaseInv, TypeOK
  <1>3. pc'[r] = "choose" /\ UNCHANGED <<row, given>>
    BY DEF Acquired, Goto, store, BaseInv, TypeOK
  <1>4. \A c \in Campaigns : Copied(r, c)'
    BY <1>1, <1>2, <1>3 DEF Copied, FitInv, NoPhantomSpending, Row
  <1> QED
    BY <1>3, <1>4 DEF Fit

\* A reset lowers what a row has spent, and keeps what is true of it.
LEMMA CurrentFits ==
    ASSUME BaseInv, NEW c \in Campaigns, NEW g \in Row, NEW w \in Weeks,
           g.spent <= given[c][g.week]
    PROVE  /\ Current(g, w) \in Row /\ Current(g, w).limit = g.limit
           /\ Current(g, w).week = w
           /\ Current(g, w).spent \in Nat /\ Current(g, w).spent <= g.spent
           /\ Current(g, w).spent <= given[c][w]
  BY CurrentType, GivenType DEF Row

LEMMA ChooseFit ==
    ASSUME BaseInv, FitInv, NEW r \in Requests, Choose(r)
    PROVE  Fit(r)'
  <1>1. PICK visited \in SUBSET Mine(r) : \E c \in visited, cost \in Costs,
          copy \in [Campaigns -> Row] : Chosen(r, visited, c, cost, copy)
    BY ChooseStep
  <1>2. PICK c \in visited, cost \in Costs, copy \in [Campaigns -> Row] :
          Chosen(r, visited, c, cost, copy)
    BY <1>1
  <1>3. /\ mem[r].copy \in [Campaigns -> Row] /\ mem[r].today \in Weeks
        /\ \A x \in Campaigns : holder[x] = r => Copied(r, x)
        /\ UNCHANGED <<row, given, holder>> /\ pc'[r] \in {"refund", "spend"}
    BY MemoryFields DEF Choose, Goto, store, BaseInv, TypeOK, CopyInv, FitInv, Fit, Locking
  <1>4. ASSUME NEW x \in Campaigns, holder[x] = r
        PROVE  /\ copy[x].limit = row[x].limit /\ copy[x].spent <= row[x].spent
               /\ copy[x].spent <= given[x][copy[x].week]
               /\ x \in visited => copy[x].week = mem[r].today
    <2>1. mem[r].copy[x] \in Row /\ Copied(r, x) /\ row[x] \in Row
      BY <1>3, <1>4 DEF BaseInv, TypeOK
    <2>2. CASE x \in visited
      <3>1. copy[x] = Current(mem[r].copy[x], mem[r].today)
        BY <1>2, <2>2 DEF Chosen
      <3>2. /\ Current(mem[r].copy[x], mem[r].today).limit = mem[r].copy[x].limit
            /\ Current(mem[r].copy[x], mem[r].today).week = mem[r].today
            /\ Current(mem[r].copy[x], mem[r].today).spent \in Nat
            /\ Current(mem[r].copy[x], mem[r].today).spent <= mem[r].copy[x].spent
            /\ Current(mem[r].copy[x], mem[r].today).spent <= given[x][mem[r].today]
        BY <1>3, <2>1, CurrentFits DEF Copied
      <3> QED
        BY <2>1, <3>1, <3>2 DEF Copied, Row
    <2>3. CASE x \notin visited
      <3>1. copy[x] = mem[r].copy[x]
        BY <1>2, <2>3 DEF Chosen
      <3> QED
        BY <2>1, <2>3, <3>1 DEF Copied
    <2> QED
      BY <2>2, <2>3
  <1>5. \A x \in Campaigns : holder'[x] = r => Copied(r, x)'
    BY <1>2, <1>3, <1>4 DEF Copied, Chosen
  <1>6. Picked(r)'
    <2>1. c \in Campaigns /\ holder[c] = r /\ cost \in Nat
      BY DEF Mine
    <2>2. /\ mem'[r].spent = copy[c].spent /\ mem'[r].new.campaign = c
          /\ mem'[r].new.cost = cost /\ mem'[r].today = mem[r].today
          /\ cost <= Left(copy[c])
      BY <1>2 DEF Chosen
    <2>3. copy[c] \in Row /\ copy[c].limit = row[c].limit
          /\ copy[c].spent <= given[c][mem[r].today]
      BY <1>4, <2>1
    <2>4. copy[c].spent \in Nat /\ copy[c].limit \in Nat
      BY <2>3 DEF Row
    <2>5. copy[c].spent + cost <= copy[c].limit
      BY <2>1, <2>2, <2>4 DEF Left
    <2> QED
      BY <1>3, <2>1, <2>2, <2>3, <2>5 DEF Picked
  <1> QED
    BY <1>5, <1>6 DEF Fit

LEMMA RefundFit ==
    ASSUME BaseInv, FitInv, NEW r \in Requests, Refund(r)
    PROVE  Fit(r)'
  <1>1. PICK c : c = mem[r].old.campaign
    OBVIOUS
  <1>2. WroteRefund(r, c)
    BY <1>1, RefundStep
  <1>3. /\ mem[r].copy \in [Campaigns -> Row] /\ mem[r].today \in Weeks
        /\ mem[r].old.cost \in Nat
        /\ \A x \in Campaigns : holder[x] = r => Copied(r, x)
        /\ UNCHANGED <<row, given>> /\ pc'[r] = "spend" /\ Picked(r)
    BY MemoryFields DEF Refund, Goto, store, BaseInv, TypeOK, CopyInv, FitInv, Fit, Locking
  <1>4. c \in Campaigns /\ row[c] \in Row /\ mem[r].copy[c] \in Row
    BY <1>2, <1>3 DEF WroteRefund, BaseInv, TypeOK
  <1> DEFINE g == IF holder[c] = r THEN mem[r].copy[c] ELSE row[c]
  <1>5. /\ g \in Row /\ g.limit = row[c].limit /\ g.spent <= row[c].spent
        /\ g.spent <= given[c][g.week]
    BY <1>3, <1>4 DEF Copied, FitInv, NoPhantomSpending, Row
  <1>6. Raw(r, c) = Current(g, mem[r].today)
    BY DEF Raw
  <1> HIDE DEF g
  <1>7. /\ Raw(r, c) \in Row /\ Raw(r, c).limit = row[c].limit
        /\ Raw(r, c).week = mem[r].today /\ Raw(r, c).spent \in Nat
        /\ Raw(r, c).spent <= g.spent /\ Raw(r, c).spent <= given[c][mem[r].today]
    BY <1>3, <1>4, <1>5, <1>6, CurrentFits
  <1>8. /\ Refunded(r, c).limit = row[c].limit /\ Refunded(r, c).week = mem[r].today
        /\ Refunded(r, c).spent = Lowered(Raw(r, c).spent, mem[r].old.cost)
    BY <1>7 DEF Refunded, Row
  <1>9. Lowered(Raw(r, c).spent, mem[r].old.cost) \in Nat
        /\ Lowered(Raw(r, c).spent, mem[r].old.cost) <= Raw(r, c).spent
    BY <1>3, <1>7 DEF Lowered
  <1>10. given[c][mem[r].today] \in Nat /\ g.spent \in Nat /\ row[c].spent \in Nat
    BY <1>3, <1>4, <1>5, GivenType DEF Row
  <1>11. /\ Refunded(r, c).limit = row[c].limit /\ Refunded(r, c).spent <= row[c].spent
         /\ Refunded(r, c).spent <= given[c][Refunded(r, c).week]
    BY <1>5, <1>7, <1>8, <1>9, <1>10
  <1>12. ASSUME NEW x \in Campaigns, holder'[x] = r
         PROVE  Copied(r, x)'
    <2>1. CASE x = c
      <3>1. mem'[r].copy[x] = Refunded(r, c)
        BY <1>2, <1>3, <2>1 DEF WroteRefund
      <3> QED
        BY <1>3, <1>11, <2>1, <3>1 DEF Copied
    <2>2. CASE x # c
      <3>1. mem'[r].copy[x] = mem[r].copy[x] /\ holder[x] = r
        BY <1>2, <1>3, <1>12, <2>2 DEF WroteRefund, BaseInv, TypeOK
      <3> QED
        BY <1>3, <3>1 DEF Copied
    <2> QED
      BY <2>1, <2>2
  <1>13. Picked(r)'
    <2>1. mem[r].new.campaign \in Campaigns
      BY DEF Refund, BaseInv, CopyInv, Offer
    <2>2. holder'[mem[r].new.campaign] = r
      BY <1>2, <1>3, <2>1 DEF WroteRefund, Picked, BaseInv, TypeOK
    <2> QED
      BY <1>2, <1>3, <2>2 DEF Picked, WroteRefund
  <1> QED
    BY <1>3, <1>12, <1>13 DEF Fit

LEMMA OwnFit ==
    ASSUME BaseInv, FitInv, NEW r \in Requests, Moves(r)
    PROVE  Fit(r)'
  <1>1. Spend(r) \/ Patch(r) \/ Keep(r) \/ ChooseNone(r) \/ Abort(r) \/ Die(r) => Finish(r)
    BY DEF Spend, Patch, Keep, ChooseNone, Abort, Die
  <1> QED
    BY <1>1, IdleFit, AcquiredFit, ChooseFit, RefundFit DEF Moves

\* What Spend writes was assigned, and fits.
LEMMA SpendPaid ==
    ASSUME BaseInv, FitInv, NEW r \in Requests, Spend(r), NEW c \in Campaigns
    PROVE  /\ row'[c].spent <= given'[c][row'[c].week]
           /\ row'[c].spent > row[c].spent => row'[c].spent <= row'[c].limit
  <1>1. /\ row'[c] = SpentRow(r, c) /\ mem[r].new.campaign \in Campaigns
        /\ mem[r].new.cost \in Nat /\ mem[r].today \in Weeks /\ mem[r].spent \in Nat
        /\ mem[r].copy \in [Campaigns -> Row] /\ row[c] \in Row
    BY SpendBase, MemoryFields DEF Spend, BaseInv, TypeOK, CopyInv, Locking
  <1>2. Picked(r) /\ (holder[c] = r => Copied(r, c))
    BY DEF Spend, FitInv, Fit, Locking
  <1>3. mem[r].copy[c] \in Row /\ mem[r].copy[c].spent \in Nat /\ mem[r].copy[c].week \in Weeks
        /\ mem[r].copy[c].limit \in Nat
        /\ row[c].spent \in Nat /\ row[c].week \in Weeks /\ row[c].limit \in Nat
    BY <1>1 DEF Row
  <1>4. CASE c = mem[r].new.campaign
    <2>1. /\ row'[c].week = mem[r].today /\ row'[c].limit = mem[r].copy[c].limit
          /\ row'[c].spent = mem[r].spent + mem[r].new.cost
      BY <1>1, <1>3, <1>4 DEF SpentRow, Row
    <2>2. given'[c][mem[r].today] = given[c][mem[r].today] + mem[r].new.cost
      BY <1>1, <1>4, SpendGiven
    <2>3. holder[c] = r /\ mem[r].copy[c].limit = row[c].limit
      BY <1>2, <1>4 DEF Picked, Copied
    <2>4. given[c][mem[r].today] \in Nat
      BY <1>1, GivenType
    <2> QED
      BY <1>1, <1>2, <1>3, <1>4, <2>1, <2>2, <2>3, <2>4 DEF Picked
  <1>5. CASE c # mem[r].new.campaign
    <2>1. given'[c] = given[c]
      BY <1>1, <1>5 DEF Spend, BaseInv, TypeOK
    <2>2. CASE holder[c] = r
      BY <1>1, <1>2, <1>3, <1>5, <2>1, <2>2 DEF SpentRow, Mine, Copied
    <2>3. CASE holder[c] # r
      BY <1>1, <1>3, <1>5, <2>1, <2>3 DEF SpentRow, Mine, FitInv, NoPhantomSpending
    <2> QED
      BY <2>2, <2>3
  <1> QED
    BY <1>4, <1>5

LEMMA MovesPaid ==
    ASSUME BaseInv, FitInv, NEW r \in Requests, Moves(r), NEW c \in Campaigns
    PROVE  /\ row'[c].spent <= given'[c][row'[c].week]
           /\ row'[c].spent > row[c].spent => row'[c].spent <= row'[c].limit
  <1>1. row[c] \in Row /\ row[c].spent \in Nat /\ row[c].week \in Weeks
        /\ row[c].spent <= given[c][row[c].week] /\ now \in Weeks
        /\ \A w \in Weeks : given[c][w] \in Nat
    BY GivenType DEF BaseInv, TypeOK, FitInv, NoPhantomSpending, Row
  <1>2. CASE Spend(r)
    BY <1>2, SpendPaid
  <1>3. CASE Patch(r)
    <2>1. PICK d \in Campaigns, limit \in Limits, reset \in BOOLEAN :
            row' = [row EXCEPT ![d] =
              [week |-> IF reset THEN now ELSE row[d].week,
               spent |-> IF reset THEN 0 ELSE row[d].spent, limit |-> limit]]
      BY <1>3 DEF Patch
    <2>2. given' = given
      BY <1>3 DEF Patch
    <2>3. row'[c] = row[c] \/ (row'[c].week = row[c].week /\ row'[c].spent = row[c].spent)
          \/ (row'[c].week = now /\ row'[c].spent = 0)
      BY <2>1 DEF BaseInv, TypeOK
    <2> QED
      BY <1>1, <2>2, <2>3
  <1>4. CASE ChooseNone(r)
    <2>1. given' = given /\ (row'[c] = row[c] \/ row'[c] = Current(row[c], mem[r].today))
      BY <1>4 DEF ChooseNone
    <2>2. /\ Current(row[c], mem[r].today).week = mem[r].today
          /\ Current(row[c], mem[r].today).spent \in Nat
          /\ Current(row[c], mem[r].today).spent <= row[c].spent
          /\ Current(row[c], mem[r].today).spent <= given[c][mem[r].today]
      BY <1>1, MemoryFields, CurrentFits DEF BaseInv
    <2> QED
      BY <1>1, <2>1, <2>2
  <1>5. CASE UNCHANGED <<row, given>>
    BY <1>1, <1>5
  <1>6. UNCHANGED <<row, given>> \/ Spend(r) \/ Patch(r) \/ ChooseNone(r)
    BY DEF Moves, Begin, Find, Await, FindNone, Close, Supersede, Lock, Acquire, Acquired, Choose, Refund,
           Keep, Abort, Die, store
  <1> QED
    BY <1>2, <1>3, <1>4, <1>5, <1>6

LEMMA NextFit ==
    BaseInv /\ BaseInv' /\ FitInv /\ [Next]_vars
    => /\ FitInv'
       /\ \A c \in Campaigns : row'[c].spent > row[c].spent => row'[c].spent <= row'[c].limit
  <1> SUFFICES ASSUME BaseInv, BaseInv', FitInv, [Next]_vars
               PROVE  /\ FitInv'
                      /\ \A c \in Campaigns :
                           row'[c].spent > row[c].spent => row'[c].spent <= row'[c].limit
    OBVIOUS
  <1>1. CASE \E r \in Requests : Moves(r)
    <2>1. PICK r \in Requests : Moves(r)
      BY <1>1
    <2>2. \A s \in Requests : Fit(s)'
      BY <2>1, OwnFit, MovesFrame, OthersFit
    <2>3. NoPhantomSpending'
      BY <2>1, MovesPaid DEF NoPhantomSpending
    <2> QED
      BY <2>1, <2>2, <2>3, MovesPaid DEF FitInv
  <1>2. CASE UNCHANGED <<row, holder, given, pc, mem>>
    <2>1. \A c \in Campaigns : row[c].spent \in Nat
      BY DEF BaseInv, TypeOK, Row
    <2> QED
      BY <1>2, <2>1 DEF FitInv, Fit, Picked, Copied, NoPhantomSpending
  <1> QED
    BY <1>1, <1>2, StepCases DEF NextWeek, vars, store

LEMMA InitFit == Init => FitInv
  <1> SUFFICES ASSUME Init PROVE FitInv
    OBVIOUS
  <1>1. \A c \in Campaigns : row[c].week = 0 /\ row[c].spent = live[c]
    <2>1. PICK limit \in Limits :
            row = [c \in Campaigns |-> [week |-> 0, spent |-> live[c], limit |-> limit]]
      BY DEF Init
    <2> QED
      BY <2>1
  <1>2. \A c \in Campaigns : given[c][0] = live[c] /\ live[c] \in Int
    BY InitBase DEF Init, Weeks, BaseInv, TypeOK
  <1>3. NoPhantomSpending
    <2>1. \A c \in Campaigns : row[c].spent <= given[c][row[c].week]
      <3> TAKE c \in Campaigns
      <3>1. row[c].spent = live[c] /\ given[c][row[c].week] = live[c] /\ live[c] \in Int
        BY <1>1, <1>2
      <3>2. live[c] <= live[c]
        BY <3>1
      <3> QED
        BY <3>1, <3>2
    <2> QED
      BY <2>1 DEF NoPhantomSpending
  <1>4. \A r \in Requests : pc[r] = "start"
    BY DEF Init
  <1> QED
    BY <1>3, <1>4 DEF FitInv, Fit, Locking

LEMMA AlwaysFit == Spec => [](BaseInv /\ FitInv)
  <1>1. Init => BaseInv /\ FitInv
    BY InitBase, InitFit
  <1>2. BaseInv /\ FitInv /\ [Next]_vars => (BaseInv /\ FitInv)'
    BY NextBase, NextFit
  <1> QED
    BY <1>1, <1>2, PTL DEF Spec

\* What a CampaignBudget row has spent was assigned in its week, whatever resets,
\* refunds and aborted transactions there were (offers/services.py).
THEOREM NothingInvented == Spec => []NoPhantomSpending
  <1>1. BaseInv /\ FitInv => NoPhantomSpending
    BY DEF FitInv
  <1> QED
    BY <1>1, AlwaysFit, PTL

\* No assignment takes a campaign above its weekly_limit, although the row it saves is
\* the one it read before it chose, and before a refund (offers/services.py).
THEOREM LimitIsKept == Spec => WithinLimit
  <1>1. BaseInv /\ FitInv /\ [Next]_vars
        => [\A c \in Campaigns :
              row'[c].spent > row[c].spent => row'[c].spent <= row'[c].limit]_vars
    BY NextBase, NextFit
  <1> QED
    BY <1>1, AlwaysFit, PTL DEF Spec, WithinLimit

-----------------------------------------------------------------------------
\* The open offer a request holds.

InOpen(u, offer) == \E i \in DOMAIN open[u] : open[u][i] = offer

\* A request closes only the offer whose row it has locked, and that is still open.
Held(r) ==
    /\ pc[r] \in {"find", "await"} =>
         mem[r].old = NoOffer /\ ~mem[r].closed /\ ~mem[r].superseded
    /\ pc[r] \in Holding /\ (mem[r].closed \/ mem[r].superseded) => mem[r].old # NoOffer
    /\ pc[r] \in Holding /\ mem[r].old # NoOffer => InOpen(mem[r].user, mem[r].old)
    /\ pc[r] = "refund" => mem[r].superseded

Exclusive == \A r, s \in Requests :
    pc[r] \in Holding /\ pc[s] \in Holding /\ mem[r].old = mem[s].old /\ mem[r].old # NoOffer
    => r = s

HoldInv == Exclusive /\ \A r \in Requests : Held(r)

\* What the later steps keep of what they remember.
Kept(r) ==
    /\ mem'[r].user = mem[r].user /\ mem'[r].today = mem[r].today
    /\ mem'[r].old = mem[r].old
    /\ mem'[r].closed = mem[r].closed /\ mem'[r].superseded = mem[r].superseded

LEMMA KeptSteps ==
    ASSUME BaseInv, NEW r \in Requests,
           \/ Find(r) \/ FindNone(r) \/ Lock(r) \/ Acquire(r) \/ Acquired(r)
           \/ Choose(r) \/ Refund(r)
    PROVE  Kept(r)
  <1>1. mem \in [Requests -> Memory] /\ mem[r] \in Memory
    BY MemoryFields DEF BaseInv, TypeOK
  <1>2. CASE Find(r)
    <2>1. mem' = [mem EXCEPT ![r] = [mem[r] EXCEPT !.seen = open[mem[r].user]]]
      BY <1>2 DEF Find, Remember
    <2> QED
      BY <1>1, <2>1 DEF Kept, Memory
  <1>3. CASE FindNone(r)
    BY <1>3 DEF FindNone, Kept
  <1>4. CASE Lock(r) \/ Acquire(r) \/ Acquired(r)
    <2>1. \/ \E scan : mem' = [mem EXCEPT ![r] = [mem[r] EXCEPT !.want = scan]]
          \/ mem' = [mem EXCEPT ![r] = [mem[r] EXCEPT !.copy = row]]
      BY <1>1, <1>4 DEF Lock, Acquire, Acquired, Remember, Memory
    <2> QED
      BY <1>1, <2>1 DEF Kept, Memory
  <1>5. CASE Choose(r)
    <2>1. PICK visited \in SUBSET Mine(r) : \E c \in visited, cost \in Costs,
            copy \in [Campaigns -> Row] : Chosen(r, visited, c, cost, copy)
      BY <1>5, ChooseStep
    <2> QED
      BY <2>1 DEF Chosen, Kept
  <1>6. CASE Refund(r)
    <2>1. PICK c : c = mem[r].old.campaign
      OBVIOUS
    <2>2. WroteRefund(r, c)
      BY <1>6, <2>1, RefundStep
    <2> QED
      BY <2>2 DEF WroteRefund, Kept
  <1> QED
    BY <1>2, <1>3, <1>4, <1>5, <1>6

\* The steps that change it.
LEMMA ChangedSteps ==
    ASSUME BaseInv, NEW r \in Requests
    PROVE  /\ Begin(r) => /\ mem'[r].old = NoOffer /\ mem'[r].closed = FALSE
                          /\ mem'[r].superseded = FALSE /\ mem'[r].today = now
                          /\ pc'[r] = "find"
           /\ Await(r) => \/ Kept(r) /\ pc'[r] = "await"
                          \/ /\ mem'[r].old = Newest(r) /\ pc'[r] = "lock"
                             /\ InOpen(mem[r].user, Newest(r))
                             /\ mem'[r].user = mem[r].user /\ mem'[r].today = mem[r].today
                             /\ mem'[r].closed = mem[r].closed
                             /\ mem'[r].superseded = mem[r].superseded
           /\ Close(r) \/ Supersede(r) => /\ mem'[r].old = mem[r].old /\ mem[r].old # NoOffer
                                          /\ mem'[r].user = mem[r].user
                                          /\ mem'[r].today = mem[r].today
                                          /\ pc[r] = "lock" /\ pc'[r] = "lock"
  <1>1. mem \in [Requests -> Memory] /\ mem[r] \in Memory /\ pc \in [Requests -> Labels]
    BY MemoryFields DEF BaseInv, TypeOK
  <1>2. ASSUME Begin(r)
        PROVE  /\ mem'[r].old = NoOffer /\ mem'[r].closed = FALSE
               /\ mem'[r].superseded = FALSE /\ mem'[r].today = now /\ pc'[r] = "find"
    <2>1. PICK u \in Users : mem' = [mem EXCEPT ![r] = [Blank EXCEPT !.user = u, !.today = now]]
      BY <1>2 DEF Begin, Remember
    <2>2. pc'[r] = "find"
      BY <1>1, <1>2 DEF Begin, Goto
    <2>3. mem'[r] = [Blank EXCEPT !.user = u, !.today = now]
      BY <1>1, <2>1
    <2>4. /\ mem'[r].today = now /\ mem'[r].old = Blank.old
          /\ mem'[r].closed = Blank.closed /\ mem'[r].superseded = Blank.superseded
      BY <2>3, BlankType DEF Memory
    <2> QED
      BY <2>2, <2>4 DEF Blank
  <1>3. ASSUME Await(r)
        PROVE  \/ Kept(r) /\ pc'[r] = "await"
               \/ /\ mem'[r].old = Newest(r) /\ pc'[r] = "lock"
                  /\ InOpen(mem[r].user, Newest(r))
                  /\ mem'[r].user = mem[r].user /\ mem'[r].today = mem[r].today
                  /\ mem'[r].closed = mem[r].closed
                  /\ mem'[r].superseded = mem[r].superseded
    <2>1. CASE StillOpen(r)
      <3>1. mem' = [mem EXCEPT ![r] = [mem[r] EXCEPT !.old = Newest(r)]]
            /\ pc' = [pc EXCEPT ![r] = "lock"]
        BY <1>3, <2>1 DEF Await, Remember, Goto
      <3>2. InOpen(mem[r].user, Newest(r))
        BY <2>1 DEF StillOpen, InOpen
      <3> QED
        BY <1>1, <3>1, <3>2 DEF Memory
    <2>2. CASE ~StillOpen(r)
      <3> DEFINE rest == SubSeq(mem[r].seen, 1, Len(mem[r].seen) - 1)
      <3>1. mem' = [mem EXCEPT ![r] = [mem[r] EXCEPT !.seen = rest]]
            /\ pc' = pc /\ pc[r] = "await"
        BY <1>1, <1>3, <2>2 DEF Await, Remember, Memory
      <3> HIDE DEF rest
      <3> QED
        BY <1>1, <3>1 DEF Kept, Memory
    <2> QED
      BY <2>1, <2>2
  <1>4. ASSUME Close(r) \/ Supersede(r)
        PROVE  /\ mem'[r].old = mem[r].old /\ mem[r].old # NoOffer
               /\ mem'[r].user = mem[r].user /\ mem'[r].today = mem[r].today
               /\ pc[r] = "lock" /\ pc'[r] = "lock"
    <2>1. \/ mem' = [mem EXCEPT ![r] = [mem[r] EXCEPT !.closed = TRUE]]
          \/ mem' = [mem EXCEPT ![r] = [mem[r] EXCEPT !.superseded = TRUE]]
      BY <1>4 DEF Close, Supersede, Remember
    <2>2. mem[r].old # NoOffer /\ pc[r] = "lock" /\ pc' = pc
      BY <1>4 DEF Close, Supersede
    <2> QED
      BY <1>1, <2>1, <2>2 DEF Memory
  <1> QED
    BY <1>2, <1>3, <1>4

LEMMA PcSteps ==
    ASSUME BaseInv, NEW r \in Requests
    PROVE  /\ Find(r) => pc[r] = "find" /\ pc'[r] = "await"
           /\ FindNone(r) => pc[r] = "await" /\ pc'[r] = "lock"
           /\ Lock(r) => pc[r] = "lock" /\ pc'[r] = "acquire"
           /\ Acquire(r) => pc[r] = "acquire" /\ pc'[r] = "acquire"
           /\ Acquired(r) => pc[r] = "acquire" /\ pc'[r] = "choose"
           /\ Choose(r) => /\ pc[r] = "choose"
                           /\ pc'[r] = IF mem[r].superseded THEN "refund" ELSE "spend"
           /\ Refund(r) => pc[r] = "refund" /\ pc'[r] = "spend"
           /\ Finish(r) => pc'[r] = "done"
  BY DEF Find, FindNone, Lock, Acquire, Acquired, Choose, Refund, Finish, Goto, BaseInv, TypeOK

\* An open offer that the request does not close stays open.
LEMMA AfterKeeps ==
    ASSUME BaseInv, NEW r \in Requests, NEW offer, InOpen(mem[r].user, offer),
           offer # mem[r].old \/ ~(mem[r].closed \/ mem[r].superseded)
    PROVE  \E j \in DOMAIN OpenAfter(r) : OpenAfter(r)[j] = offer
  <1>1. open[mem[r].user] \in Seq(Offer)
    BY MemoryFields DEF BaseInv, TypeOK
  <1>2. PICK i \in DOMAIN open[mem[r].user] : open[mem[r].user][i] = offer
    BY DEF InOpen
  <1>3. CASE mem[r].closed \/ mem[r].superseded
    <2>1. OpenAfter(r) = Without(open[mem[r].user], mem[r].old)
      BY <1>3 DEF OpenAfter
    <2> QED
      BY <1>1, <1>2, <1>3, <2>1, WithoutType
  <1>4. CASE ~(mem[r].closed \/ mem[r].superseded)
    BY <1>2, <1>4 DEF OpenAfter
  <1> QED
    BY <1>3, <1>4

LEMMA OpenKept ==
    ASSUME BaseInv, NEW r \in Requests, Moves(r), NEW u \in Users, NEW offer, InOpen(u, offer),
           \/ pc[r] \notin {"choose", "spend"}
           \/ ~(mem[r].closed \/ mem[r].superseded)
           \/ offer # mem[r].old
    PROVE  InOpen(u, offer)'
  <1>1. CASE open' = open
    BY <1>1 DEF InOpen
  <1>2. CASE ChooseNone(r) /\ open' # open
    <2>1. open' = [open EXCEPT ![mem[r].user] = OpenAfter(r)] /\ pc[r] = "choose"
      BY <1>2 DEF ChooseNone
    <2>2. CASE u # mem[r].user
      BY <2>1, <2>2 DEF InOpen, BaseInv, TypeOK
    <2>3. CASE u = mem[r].user
      <3>1. open'[u] = OpenAfter(r)
        BY <2>1, <2>3 DEF BaseInv, TypeOK
      <3>2. \E j \in DOMAIN OpenAfter(r) : OpenAfter(r)[j] = offer
        BY <2>1, <2>3, AfterKeeps
      <3> QED
        BY <3>1, <3>2 DEF InOpen
    <2> QED
      BY <2>2, <2>3
  <1>3. CASE Spend(r)
    <2>1. open' = [open EXCEPT ![mem[r].user] = Append(OpenAfter(r), mem[r].new)]
          /\ pc[r] = "spend"
      BY <1>3 DEF Spend
    <2>2. CASE u # mem[r].user
      BY <2>1, <2>2 DEF InOpen, BaseInv, TypeOK
    <2>3. CASE u = mem[r].user
      <3>1. open'[u] = Append(OpenAfter(r), mem[r].new)
        BY <2>1, <2>3 DEF BaseInv, TypeOK
      <3>2. PICK j \in DOMAIN OpenAfter(r) : OpenAfter(r)[j] = offer
        BY <2>1, <2>3, AfterKeeps
      <3>3. OpenAfter(r) \in Seq(Offer)
        BY OpenAfterType
      <3>4. j \in DOMAIN Append(OpenAfter(r), mem[r].new)
            /\ Append(OpenAfter(r), mem[r].new)[j] = offer
        BY <3>2, <3>3
      <3> QED
        BY <3>1, <3>4 DEF InOpen
    <2> QED
      BY <2>2, <2>3
  <1>4. open' = open \/ ChooseNone(r) \/ Spend(r)
    BY DEF Moves, Begin, Find, Await, FindNone, Close, Supersede, Lock, Acquire, Acquired, Choose, Refund,
           Patch, Keep, Abort, Die, store
  <1> QED
    BY <1>1, <1>2, <1>3, <1>4

LEMMA OthersHeld ==
    ASSUME BaseInv, HoldInv, NEW r \in Requests, Moves(r), Frame(r),
           NEW s \in Requests \ {r}
    PROVE  Held(s)'
  <1>1. mem'[s] = mem[s] /\ pc'[s] = pc[s] /\ Held(s) /\ mem[s].user \in Users
    BY MemoryFields DEF Frame, HoldInv, BaseInv
  <1>2. ASSUME pc[s] \in Holding, mem[s].old # NoOffer
        PROVE  InOpen(mem[s].user, mem[s].old)'
    <2>1. InOpen(mem[s].user, mem[s].old)
      BY <1>1, <1>2 DEF Held
    <2>2. pc[r] \notin {"choose", "spend"} \/ mem[s].old # mem[r].old
      BY <1>2 DEF HoldInv, Exclusive, Holding
    <2>3. PICK u \in Users : u = mem[s].user
      BY <1>1
    <2>4. PICK offer : offer = mem[s].old
      OBVIOUS
    <2>5. InOpen(u, offer)'
      BY <2>1, <2>2, <2>3, <2>4, OpenKept
    <2> QED
      BY <1>1, <2>3, <2>4, <2>5 DEF InOpen
  <1> QED
    BY <1>1, <1>2 DEF Held

LEMMA OwnHeld ==
    ASSUME BaseInv, HoldInv, NEW r \in Requests, Moves(r)
    PROVE  Held(r)'
  <1>1. Held(r) /\ mem[r].user \in Users
    BY MemoryFields DEF HoldInv, BaseInv
  <1>2. CASE Begin(r)
    BY <1>2, ChangedSteps DEF Held, Holding
  <1>3. CASE Await(r)
    <2>1. pc[r] = "await" /\ open' = open
      BY <1>3 DEF Await, store
    <2>2. mem[r].old = NoOffer /\ ~mem[r].closed /\ ~mem[r].superseded
      BY <1>1, <2>1 DEF Held
    <2> QED
      BY <1>3, <2>1, <2>2, ChangedSteps DEF Held, Holding, Kept, InOpen
  <1>4. CASE Close(r) \/ Supersede(r)
    <2>1. open' = open
      BY <1>4 DEF Close, Supersede, store
    <2> QED
      BY <1>1, <1>4, <2>1, ChangedSteps DEF Held, Holding, InOpen
  <1>5. CASE \/ Find(r) \/ FindNone(r) \/ Lock(r) \/ Acquire(r) \/ Acquired(r)
             \/ Choose(r) \/ Refund(r)
    <2>1. Kept(r) /\ open' = open
      BY <1>5, KeptSteps DEF Find, FindNone, Lock, Acquire, Acquired, Choose, Refund, store
    <2> QED
      BY <1>1, <1>5, <2>1, PcSteps DEF Held, Holding, InOpen, Kept
  <1>6. CASE Finish(r)
    <2>1. pc'[r] = "done"
      BY <1>6, PcSteps
    <2> QED
      BY <2>1 DEF Held, Holding
  <1> QED
    BY <1>2, <1>3, <1>4, <1>5, <1>6 DEF Moves, Spend, Patch, Keep, ChooseNone, Abort, Die

\* Whoever holds an offer after a step held it before, or it was free.
LEMMA ExclusiveKept ==
    ASSUME BaseInv, HoldInv, NEW r \in Requests, Moves(r), Frame(r),
           NEW s \in Requests \ {r}, pc'[r] \in Holding, pc'[s] \in Holding,
           mem'[r].old = mem'[s].old, mem'[r].old # NoOffer
    PROVE  FALSE
  <1>1. mem'[s] = mem[s] /\ pc'[s] = pc[s]
    BY DEF Frame
  <1>2. ASSUME pc[r] \in Holding, mem'[r].old = mem[r].old
        PROVE  FALSE
    BY <1>1, <1>2 DEF HoldInv, Exclusive
  <1>3. CASE Await(r)
    <2>1. pc'[r] = "lock" /\ mem'[r].old = Newest(r)
      BY <1>3, ChangedSteps DEF Holding
    <2>2. ~Holds(s, Newest(r))
      BY <1>3 DEF Await
    <2> QED
      BY <1>1, <2>1, <2>2 DEF Holds, Holding
  <1>4. CASE Close(r) \/ Supersede(r)
    BY <1>2, <1>4, ChangedSteps DEF Holding
  <1>5. CASE Lock(r) \/ Acquire(r) \/ Acquired(r) \/ Choose(r) \/ Refund(r)
    BY <1>2, <1>5, KeptSteps, PcSteps DEF Kept, Holding
  <1>6. CASE FindNone(r)
    BY <1>6, KeptSteps, PcSteps DEF Kept, HoldInv, Held
  <1>7. CASE Find(r) \/ Begin(r)
    BY <1>7, PcSteps, ChangedSteps DEF Holding
  <1>8. CASE Finish(r)
    BY <1>8, PcSteps DEF Holding
  <1> QED
    BY <1>3, <1>4, <1>5, <1>6, <1>7, <1>8
    DEF Moves, Spend, Patch, Keep, ChooseNone, Abort, Die

LEMMA NextHeld ==
    BaseInv /\ FitInv /\ HoldInv /\ [Next]_vars => HoldInv'
  <1> SUFFICES ASSUME BaseInv, FitInv, HoldInv, [Next]_vars PROVE HoldInv'
    OBVIOUS
  <1>1. CASE \E r \in Requests : Moves(r)
    <2>1. PICK r \in Requests : Moves(r)
      BY <1>1
    <2>2. Frame(r)
      BY <2>1, MovesFrame
    <2>3. \A s \in Requests : Held(s)'
      BY <2>1, <2>2, OwnHeld, OthersHeld
    <2>4. ASSUME NEW s \in Requests, NEW t \in Requests, s # t,
                 pc'[s] \in Holding, pc'[t] \in Holding,
                 mem'[s].old = mem'[t].old, mem'[s].old # NoOffer
          PROVE  FALSE
      <3>1. CASE s = r
        BY <2>1, <2>2, <2>4, <3>1, ExclusiveKept
      <3>2. CASE t = r
        BY <2>1, <2>2, <2>4, <3>2, ExclusiveKept
      <3>3. CASE s # r /\ t # r
        <4>1. mem'[s] = mem[s] /\ pc'[s] = pc[s] /\ mem'[t] = mem[t] /\ pc'[t] = pc[t]
          BY <2>2, <3>3 DEF Frame
        <4> QED
          BY <2>4, <4>1 DEF HoldInv, Exclusive
      <3> QED
        BY <3>1, <3>2, <3>3
    <2>5. Exclusive'
      BY <2>4 DEF Exclusive
    <2> QED
      BY <2>3, <2>5 DEF HoldInv
  <1>2. CASE UNCHANGED <<open, pc, mem>>
    BY <1>2 DEF HoldInv, Exclusive, Held, InOpen
  <1> QED
    BY <1>1, <1>2, StepCases DEF NextWeek, vars, store

LEMMA InitHeld == Init => HoldInv
  <1>1. Init => \A r \in Requests : pc[r] = "start"
    BY DEF Init
  <1> QED
    BY <1>1 DEF HoldInv, Exclusive, Held, Holding

-----------------------------------------------------------------------------
\* One week that nobody resets.

Quiet == now = 0 /\ "patch" \notin {kind[r] : r \in Requests}

PaidUp == \A c \in Campaigns : row[c].week = 0 /\ live[c] <= row[c].spent

\* What the transaction has written: only the refund of the offer it supersedes.
Written(r, c) ==
    IF pc[r] = "spend" /\ mem[r].superseded /\ c = mem[r].old.campaign
    THEN Lowered(row[c].spent, mem[r].old.cost) ELSE row[c].spent

CopyExact(r, c) == mem[r].copy[c].week = 0 /\ mem[r].copy[c].spent = Written(r, c)

Exact(r) ==
    /\ mem[r].today = 0
    /\ pc[r] \in Locking => \A c \in Campaigns : holder[c] = r => CopyExact(r, c)
    /\ pc[r] \in {"refund", "spend"} => mem[r].spent = row[mem[r].new.campaign].spent

PaidInv == Quiet => PaidUp /\ \A r \in Requests : Exact(r)

LEMMA OthersExact ==
    ASSUME BaseInv, FitInv, NEW r \in Requests, Frame(r),
           NEW s \in Requests \ {r}, Exact(s)
    PROVE  Exact(s)'
  <1>1. mem'[s] = mem[s] /\ pc'[s] = pc[s]
    BY DEF Frame
  <1>2. ASSUME NEW c \in Campaigns, holder'[c] = s, pc[s] \in Locking
        PROVE  CopyExact(s, c)'
    <2>1. holder[c] = s /\ row'[c] = row[c]
      BY <1>2 DEF Frame
    <2> QED
      BY <1>1, <1>2, <2>1 DEF Exact, CopyExact, Written
  <1>3. ASSUME pc[s] \in {"refund", "spend"}
        PROVE  row'[mem[s].new.campaign] = row[mem[s].new.campaign]
    <2>1. mem[s].new.campaign \in Campaigns /\ holder[mem[s].new.campaign] = s
      BY <1>3 DEF FitInv, Fit, Picked, BaseInv, CopyInv, Offer
    <2> QED
      BY <2>1 DEF Frame
  <1> QED
    BY <1>1, <1>2, <1>3 DEF Exact

LEMMA IdleExact ==
    ASSUME BaseInv, NEW r \in Requests, Exact(r), now = 0,
           \/ Begin(r) \/ Find(r) \/ Await(r) \/ FindNone(r) \/ Close(r) \/ Supersede(r)
           \/ Lock(r) \/ Acquire(r) \/ Finish(r)
    PROVE  Exact(r)'
  <1>1. pc'[r] \notin Locking /\ {"refund", "spend"} \subseteq Locking
    BY DEF Begin, Find, Await, FindNone, Close, Supersede, Lock, Acquire, Finish, Goto, Locking,
           BaseInv, TypeOK
  <1>2. mem'[r].today = 0
    <2>1. CASE Begin(r) \/ Await(r) \/ Close(r) \/ Supersede(r)
      BY <2>1, ChangedSteps DEF Exact, Kept
    <2>2. CASE Find(r) \/ FindNone(r) \/ Lock(r) \/ Acquire(r)
      BY <2>2, KeptSteps DEF Exact, Kept
    <2>3. CASE Finish(r)
      <3>1. mem'[r] = Blank
        BY <2>3 DEF Finish, Remember, BaseInv, TypeOK
      <3> QED
        BY <3>1 DEF Blank
    <2> QED
      BY <2>1, <2>2, <2>3
  <1> QED
    BY <1>1, <1>2 DEF Exact

LEMMA AcquiredExact ==
    ASSUME BaseInv, PaidUp, NEW r \in Requests, Exact(r), Acquired(r)
    PROVE  Exact(r)'
  <1>1. mem[r] \in Memory /\ row \in [Campaigns -> Row]
    BY MemoryFields DEF BaseInv, TypeOK
  <1>2. mem'[r].copy = row
    BY <1>1 DEF Acquired, Remember, Memory, BaseInv, TypeOK
  <1>3. pc'[r] = "choose" /\ UNCHANGED row /\ mem'[r].today = 0
    BY PcSteps, KeptSteps DEF Acquired, store, Kept, Exact
  <1>4. \A c \in Campaigns : CopyExact(r, c)'
    BY <1>2, <1>3 DEF CopyExact, Written, PaidUp
  <1> QED
    BY <1>3, <1>4 DEF Exact

LEMMA ChooseExact ==
    ASSUME BaseInv, HoldInv, NEW r \in Requests, Exact(r), Choose(r)
    PROVE  Exact(r)'
  <1>1. PICK visited \in SUBSET Mine(r) : \E c \in visited, cost \in Costs,
          copy \in [Campaigns -> Row] : Chosen(r, visited, c, cost, copy)
    BY ChooseStep
  <1>2. PICK c \in visited, cost \in Costs, copy \in [Campaigns -> Row] :
          Chosen(r, visited, c, cost, copy)
    BY <1>1
  <1>3. /\ mem[r].today = 0 /\ pc[r] = "choose"
        /\ \A x \in Campaigns : holder[x] = r => CopyExact(r, x)
        /\ UNCHANGED <<row, holder>>
        /\ pc'[r] = IF mem[r].superseded THEN "refund" ELSE "spend"
    BY PcSteps DEF Choose, store, Exact, Locking
  <1>4. ASSUME NEW x \in Campaigns, holder[x] = r
        PROVE  copy[x].week = 0 /\ copy[x].spent = row[x].spent
    <2>1. mem[r].copy[x].week = 0 /\ mem[r].copy[x].spent = row[x].spent
      BY <1>3, <1>4 DEF CopyExact, Written
    <2>2. copy[x] = Current(mem[r].copy[x], 0) \/ copy[x] = mem[r].copy[x]
      BY <1>2, <1>3 DEF Chosen
    <2> QED
      BY <2>1, <2>2 DEF Current
  <1>5. c \in Campaigns /\ holder[c] = r
    BY DEF Mine
  <1>6. /\ mem'[r].copy = copy /\ mem'[r].spent = copy[c].spent /\ mem'[r].new.campaign = c
        /\ mem'[r].superseded = mem[r].superseded /\ mem'[r].today = 0
    BY <1>2, <1>3 DEF Chosen
  <1>7. mem'[r].spent = row'[mem'[r].new.campaign].spent
    BY <1>3, <1>4, <1>5, <1>6
  <1>8. \A x \in Campaigns : holder'[x] = r => CopyExact(r, x)'
    BY <1>3, <1>4, <1>6 DEF CopyExact, Written
  <1> QED
    BY <1>6, <1>7, <1>8 DEF Exact

LEMMA RefundExact ==
    ASSUME BaseInv, HoldInv, PaidUp, NEW r \in Requests, Exact(r), Refund(r)
    PROVE  Exact(r)'
  <1>1. PICK c : c = mem[r].old.campaign
    OBVIOUS
  <1>2. WroteRefund(r, c)
    BY <1>1, RefundStep
  <1>3. /\ mem[r].today = 0 /\ pc[r] = "refund" /\ pc'[r] = "spend" /\ mem[r].superseded
        /\ \A x \in Campaigns : holder[x] = r => CopyExact(r, x)
        /\ UNCHANGED row /\ mem[r].spent = row[mem[r].new.campaign].spent
        /\ mem[r].copy \in [Campaigns -> Row]
    BY PcSteps DEF Refund, store, Exact, Locking, HoldInv, Held, BaseInv, CopyInv
  <1>4. Raw(r, c).spent = row[c].spent /\ Raw(r, c).week = 0 /\ Raw(r, c) \in Row
    <2>1. c \in Campaigns /\ row[c] \in Row /\ mem[r].copy[c] \in Row
      BY <1>2, <1>3 DEF WroteRefund, BaseInv, TypeOK
    <2>2. row[c].week = 0 /\ (holder[c] = r => mem[r].copy[c].week = 0
                                               /\ mem[r].copy[c].spent = row[c].spent)
      BY <1>3, <2>1 DEF PaidUp, CopyExact, Written
    <2> QED
      BY <1>3, <2>1, <2>2 DEF Raw, Current
  <1>5. Refunded(r, c).week = 0
        /\ Refunded(r, c).spent = Lowered(row[c].spent, mem[r].old.cost)
    BY <1>4 DEF Refunded, Row
  <1>6. ASSUME NEW x \in Campaigns, holder'[x] = r
        PROVE  CopyExact(r, x)'
    <2>1. CASE x = c
      <3>1. mem'[r].copy[x] = Refunded(r, c) /\ mem'[r].old = mem[r].old
            /\ mem'[r].superseded = mem[r].superseded
        BY <1>2, <1>3, <2>1 DEF WroteRefund
      <3> QED
        BY <1>1, <1>3, <1>5, <2>1, <3>1 DEF CopyExact, Written
    <2>2. CASE x # c
      <3>1. mem'[r].copy[x] = mem[r].copy[x] /\ holder[x] = r /\ mem'[r].old = mem[r].old
        BY <1>2, <1>3, <1>6, <2>2 DEF WroteRefund, BaseInv, TypeOK
      <3> QED
        BY <1>1, <1>3, <2>2, <3>1 DEF CopyExact, Written
    <2> QED
      BY <2>1, <2>2
  <1>7. mem'[r].today = 0 /\ mem'[r].spent = row'[mem'[r].new.campaign].spent
    BY <1>2, <1>3 DEF WroteRefund
  <1> QED
    BY <1>6, <1>7 DEF Exact

\* The offer that is superseded is no longer open when its cost has been refunded.
LEMMA RefundedIsClosed ==
    ASSUME BaseInv, HoldInv, NEW r \in Requests, pc[r] = "spend", mem[r].superseded
    PROVE  \A c \in Campaigns :
             c = mem[r].old.campaign => LiveAfter(r, c) = live[c] - mem[r].old.cost
  <1>1. InOpen(mem[r].user, mem[r].old)
    BY DEF HoldInv, Held, Holding
  <1>2. open[mem[r].user] \in Seq(Offer)
    BY MemoryFields DEF BaseInv, TypeOK
  <1>3. OpenAfter(r) # open[mem[r].user]
    BY <1>1, <1>2, WithoutType DEF OpenAfter, InOpen
  <1> QED
    BY <1>3 DEF LiveAfter

LEMMA SpendUp ==
    ASSUME BaseInv, FitInv, HoldInv, PaidUp, NEW r \in Requests, Exact(r), Spend(r)
    PROVE  PaidUp'
  <1>1. pc[r] = "spend" /\ mem[r].new.cost \in Nat /\ mem[r].old.cost \in Nat /\ mem[r].today = 0
        /\ mem[r].copy \in [Campaigns -> Row] /\ mem[r].spent \in Nat
    BY SpendBase, MemoryFields DEF Spend, BaseInv, CopyInv, Locking, Exact
  <1> SUFFICES ASSUME NEW c \in Campaigns
               PROVE  row'[c].week = 0 /\ live'[c] <= row'[c].spent
    BY DEF PaidUp
  <1>2. row'[c] = SpentRow(r, c) /\ row[c].week = 0 /\ live[c] <= row[c].spent
        /\ (holder[c] = r => CopyExact(r, c)) /\ row[c].spent \in Nat /\ live[c] \in Int
        /\ mem[r].copy[c] \in Row
    BY <1>1, SpendBase DEF PaidUp, Exact, Locking, BaseInv, TypeOK, Row
  <1>3. /\ live'[c] = LiveAfter(r, c) + IF c = mem[r].new.campaign THEN mem[r].new.cost ELSE 0
        /\ LiveAfter(r, c) \in Int /\ LiveAfter(r, c) <= live[c]
    BY OpenAfterType DEF Spend
  <1>4. CASE c = mem[r].new.campaign
    <2>1. row'[c].week = 0 /\ row'[c].spent = mem[r].spent + mem[r].new.cost
      BY <1>1, <1>2, <1>4 DEF SpentRow, Row
    <2>2. mem[r].spent = row[c].spent
      BY <1>1, <1>4 DEF Exact
    <2> QED
      BY <1>1, <1>2, <1>3, <1>4, <2>1, <2>2
  <1>5. CASE c # mem[r].new.campaign /\ holder[c] = r
    <2>1. row'[c].week = 0 /\ row'[c].spent = Written(r, c)
      BY <1>2, <1>5 DEF SpentRow, Mine, CopyExact
    <2>2. CASE mem[r].superseded /\ c = mem[r].old.campaign
      <3>1. LiveAfter(r, c) = live[c] - mem[r].old.cost
        BY <1>1, <2>2, RefundedIsClosed
      <3>2. Written(r, c) = Lowered(row[c].spent, mem[r].old.cost)
        BY <1>1, <2>2 DEF Written
      <3>3. Lowered(row[c].spent, mem[r].old.cost) >= row[c].spent - mem[r].old.cost
        BY <1>1, <1>2 DEF Lowered
      <3>4. Lowered(row[c].spent, mem[r].old.cost) \in Int
        BY <1>1, <1>2 DEF Lowered
      <3> QED
        BY <1>1, <1>2, <1>3, <1>5, <2>1, <3>1, <3>2, <3>3, <3>4
    <2>3. CASE ~(mem[r].superseded /\ c = mem[r].old.campaign)
      <3>1. Written(r, c) = row[c].spent
        BY <2>3 DEF Written
      <3> QED
        BY <1>2, <1>3, <1>5, <2>1, <3>1
    <2> QED
      BY <2>2, <2>3
  <1>6. CASE c # mem[r].new.campaign /\ holder[c] # r
    <2>1. row'[c] = row[c]
      BY <1>2, <1>6 DEF SpentRow, Mine
    <2> QED
      BY <1>2, <1>3, <1>6, <2>1
  <1> QED
    BY <1>4, <1>5, <1>6

LEMMA ChooseNoneUp ==
    ASSUME BaseInv, PaidUp, NEW r \in Requests, Exact(r), ChooseNone(r)
    PROVE  PaidUp'
  <1> SUFFICES ASSUME NEW c \in Campaigns
               PROVE  row'[c].week = 0 /\ live'[c] <= row'[c].spent
    BY DEF PaidUp
  <1>1. row'[c] = row[c] \/ row'[c] = Current(row[c], 0)
    BY DEF ChooseNone, Exact
  <1>2. row[c].week = 0 /\ live[c] <= row[c].spent /\ live[c] \in Int /\ row[c].spent \in Nat
    BY DEF PaidUp, BaseInv, TypeOK, Row
  <1>3. row'[c] = row[c]
    BY <1>1, <1>2 DEF Current
  <1>4. live'[c] = live[c] \/ live'[c] = LiveAfter(r, c)
    BY DEF ChooseNone
  <1>5. LiveAfter(r, c) \in Int /\ LiveAfter(r, c) <= live[c]
    BY OpenAfterType
  <1> QED
    BY <1>2, <1>3, <1>4, <1>5

LEMMA NextPaid ==
    BaseInv /\ FitInv /\ HoldInv /\ PaidInv /\ [Next]_vars => PaidInv'
  <1> SUFFICES ASSUME BaseInv, FitInv, HoldInv, PaidInv, [Next]_vars, Quiet'
               PROVE  PaidUp' /\ \A s \in Requests : Exact(s)'
    BY DEF PaidInv
  <1>1. CASE \E r \in Requests : Moves(r)
    <2>1. PICK r \in Requests : Moves(r)
      BY <1>1
    <2>2. now' = now /\ kind' = kind
      BY <2>1 DEF Moves, Begin, Find, Await, FindNone, Close, Supersede, Lock, Acquire, Acquired, Choose, Refund,
                  Spend, Patch, Keep, ChooseNone, Abort, Die
    <2>3. Quiet /\ PaidUp /\ \A s \in Requests : Exact(s)
      BY <2>2 DEF PaidInv, Quiet
    <2>4. ~Patch(r)
      BY <2>3 DEF Patch, Quiet
    <2>5. \A s \in Requests \ {r} : Exact(s)'
      BY <2>1, <2>3, MovesFrame, OthersExact
    <2>6. Exact(r)'
      <3>1. Spend(r) \/ Keep(r) \/ ChooseNone(r) \/ Abort(r) \/ Die(r) => Finish(r)
        BY DEF Spend, Keep, ChooseNone, Abort, Die
      <3>2. now = 0 /\ Exact(r)
        BY <2>3 DEF Quiet
      <3> QED
        BY <2>1, <2>3, <2>4, <3>1, <3>2, IdleExact, AcquiredExact, ChooseExact, RefundExact DEF Moves
    <2>7. PaidUp'
      <3>1. CASE UNCHANGED <<row, live>>
        BY <2>3, <3>1 DEF PaidUp
      <3>2. UNCHANGED <<row, live>> \/ Spend(r) \/ ChooseNone(r)
        BY <2>1, <2>4 DEF Moves, Begin, Find, Await, FindNone, Close, Supersede, Lock, Acquire, Acquired, Choose,
                          Refund, Keep, Abort, Die, store
      <3> QED
        BY <2>3, <3>1, <3>2, SpendUp, ChooseNoneUp
    <2> QED
      BY <2>5, <2>6, <2>7
  <1>2. CASE NextWeek
    BY <1>2 DEF NextWeek, Quiet, BaseInv, TypeOK, Weeks
  <1>3. CASE UNCHANGED vars
    BY <1>3 DEF vars, store, PaidInv, PaidUp, Exact, CopyExact, Written, Quiet
  <1> QED
    BY <1>1, <1>2, <1>3, StepCases

LEMMA InitPaid == Init => PaidInv
  <1> SUFFICES ASSUME Init PROVE PaidUp /\ \A r \in Requests : Exact(r)
    BY DEF PaidInv
  <1>1. PaidUp
    <2>1. PICK limit \in Limits :
            row = [c \in Campaigns |-> [week |-> 0, spent |-> live[c], limit |-> limit]]
      BY DEF Init
    <2>2. \A c \in Campaigns : live[c] \in Int
      BY InitBase DEF BaseInv, TypeOK
    <2>3. \A c \in Campaigns : row[c].week = 0 /\ live[c] <= row[c].spent
      <3> TAKE c \in Campaigns
      <3>1. row[c].week = 0 /\ row[c].spent = live[c]
        BY <2>1
      <3>2. live[c] <= live[c]
        BY <2>2
      <3> QED
        BY <3>1, <3>2
    <2> QED
      BY <2>3 DEF PaidUp
  <1>2. \A r \in Requests : pc[r] = "start" /\ mem[r].today = 0
    BY DEF Init, Blank
  <1> QED
    BY <1>1, <1>2 DEF Exact, Locking

\* Within one week that nobody resets, every open offer of a personal campaign is paid
\* for: an assignment refunds only the offer that it closes, once (offers/services.py).
THEOREM OffersArePaid == Spec => []OpenOffersArePaid
  <1> DEFINE I == BaseInv /\ FitInv /\ HoldInv /\ PaidInv
  <1>1. Init => I
    BY InitBase, InitFit, InitHeld, InitPaid
  <1>2. I /\ [Next]_vars => I'
    BY NextBase, NextFit, NextHeld, NextPaid
  <1>3. I => OpenOffersArePaid
    BY DEF PaidInv, PaidUp, Quiet, OpenOffersArePaid
  <1> HIDE DEF I
  <1> QED
    BY <1>1, <1>2, <1>3, PTL DEF Spec
=============================================================================
