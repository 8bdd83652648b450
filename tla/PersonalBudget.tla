---------------------------- MODULE PersonalBudget ----------------------------
(***************************************************************************)
(* The weekly budgets of personal campaigns (CampaignBudget, used by       *)
(* offers/services.py).  The cost of an offer is spent when the offer is   *)
(* assigned, and refunded when it is superseded before it was clicked:     *)
(*   assign  get_or_assign_next_offer, one transaction                     *)
(*   patch   PATCH /api/admin/campaigns/<id>: limit, reset of the week     *)
(* An assignment locks the user's open offer and the Offer row it is an    *)
(* instance of, one by one the campaigns it may choose from, last that of  *)
(* the offer it supersedes; its INSERT refers to the Offer row it picked.  *)
(***************************************************************************)
EXTENDS Integers, Sequences, FiniteSets

CONSTANTS
    Campaigns,     \* active campaigns of type PERSONAL
    Users,
    Requests,      \* HTTP requests
    NoRequest,     \* null value of Requests
    Kinds,         \* the requests a run considers
    Limits,        \* weekly_limit: what an administrator may set
    Costs,         \* estimated_cost of offers
    FirstSpent,    \* bound: the costs of the open offers of other users
    LastWeek       \* bound: the calendar stops here

AllKinds == {"assign", "patch"}

ASSUME PersonalBudgetAssumption ==
    /\ IsFiniteSet(Campaigns) /\ Campaigns # {} /\ Users # {}
    /\ NoRequest \notin Requests
    /\ Kinds \subseteq AllKinds
    /\ Limits \subseteq Nat
    /\ Costs \subseteq Nat
    /\ FirstSpent \subseteq Nat
    /\ LastWeek \in Nat

VARIABLES
    row,        \* the CampaignBudget rows, as committed
    holder,     \* the transaction that holds the row lock of each campaign
    open,       \* the open offers of each user, the newest last
    given,      \* history: what was assigned of each campaign in each week
    live,       \* history: what the open offers of each campaign cost
    now,        \* the current week
    kind, pc,   \* what each request is, and where its worker is
    mem         \* what it remembers

store == <<row, open, given, live>>
vars == <<store, holder, now, kind, pc, mem>>

Weeks == 0..LastWeek
Labels == {"start", "find", "await", "lock", "acquire", "choose", "refund", "spend",
           "done"}

\* week_start_date, weekly_spent, weekly_limit
Row == [week : Weeks, spent : Nat, limit : Limits]

\* id: the request that assigned it; Old for one from before
Old == "old"
Offer == [id : Requests \cup {Old}, campaign : Campaigns, cost : Costs]
NoOffer == [id |-> NoRequest, campaign |-> CHOOSE c \in Campaigns : TRUE, cost |-> 0]

\* today: the week of its `now`; seen: the open offers of the user that its query
\* found; old: the one that it holds the lock of; closed: that
\* one is closed; superseded: for an offer it assigns; want: the campaigns it has
\* yet to lock; copy: the rows as the transaction has written them; new: what it
\* picked; spent: weekly_spent of the campaign object it picked
Memory == [user : Users, today : Weeks, seen : Seq(Offer), old : Offer \cup {NoOffer},
           closed : BOOLEAN, superseded : BOOLEAN, want : Seq(Campaigns),
           copy : [Campaigns -> Row] \cup {<<>>},
           new : Offer \cup {NoOffer}, spent : Nat]
Blank == [user |-> CHOOSE u \in Users : TRUE, today |-> 0, seen |-> <<>>,
          old |-> NoOffer, closed |-> FALSE, superseded |-> FALSE, want |-> <<>>,
          copy |-> <<>>, new |-> NoOffer, spent |-> 0]

\* The cost of the offer of a campaign, which at most one user holds.
CostIn(first, c) ==
    LET holders == {u \in Users : first[u] # NoOffer /\ first[u].campaign = c}
    IN  IF holders = {} THEN 0 ELSE first[CHOOSE u \in holders : TRUE].cost

\* Users may hold an offer of this week, and others whom nobody asks about.
\* Bound: each of these users one of another campaign.
Init ==
    /\ \E first \in [Users -> {NoOffer} \cup {o \in Offer : o.id = Old}] :
         /\ \A u, v \in Users : u # v /\ NoOffer \notin {first[u], first[v]}
                                => first[u].campaign # first[v].campaign
         /\ open = [u \in Users |-> IF first[u] = NoOffer THEN <<>> ELSE <<first[u]>>]
         /\ \E others \in FirstSpent :
              live = [c \in Campaigns |-> others + CostIn(first, c)]
    /\ \E limit \in Limits :
         /\ \A c \in Campaigns : live[c] <= limit
         /\ row = [c \in Campaigns |-> [week |-> 0, spent |-> live[c], limit |-> limit]]
    /\ given = [c \in Campaigns |-> [w \in Weeks |-> IF w = 0 THEN live[c] ELSE 0]]
    /\ holder = [c \in Campaigns |-> NoRequest]
    /\ now = 0
    /\ kind \in [Requests -> Kinds]
    /\ pc = [r \in Requests |-> "start"]
    /\ mem = [r \in Requests |-> Blank]

Goto(r, label) == pc' = [pc EXCEPT ![r] = label]
Remember(r, m) == mem' = [mem EXCEPT ![r] = m]

\* The end of the transaction, and of its locks.
Finish(r) ==
    /\ Goto(r, "done")
    /\ Remember(r, Blank)
    /\ holder' = [c \in Campaigns |-> IF holder[c] = r THEN NoRequest ELSE holder[c]]

\* Seeded fault: a second statement of a transaction waits for its own lock.
FreeFor_Others(r, c) == holder[c] = NoRequest

FreeFor(r, c) == holder[c] \in {NoRequest, r}

\* Seeded fault: the week is moved on, the sum is not.
Current_Kept(g, week) == [g EXCEPT !.week = week]

\* _reset_campaign_week_if_needed
Current(g, week) == IF g.week = week THEN g ELSE [g EXCEPT !.week = week, !.spent = 0]

-----------------------------------------------------------------------------
\* The open offer.

\* The request takes its `now`.
Begin(r) ==
    /\ pc[r] = "start" /\ kind[r] = "assign"
    /\ \E u \in Users : Remember(r, [Blank EXCEPT !.user = u, !.today = now])
    /\ Goto(r, "find")
    /\ UNCHANGED <<store, holder, now, kind>>

\* The query finds the open offers,
Find(r) ==
    /\ pc[r] = "find"
    /\ Remember(r, [mem[r] EXCEPT !.seen = open[mem[r].user]])
    /\ Goto(r, "await")
    /\ UNCHANGED <<store, holder, now, kind>>

Newest(r) == mem[r].seen[Len(mem[r].seen)]

Holding == {"lock", "acquire", "choose", "refund", "spend"}
Holds(s, offer) == pc[s] \in Holding /\ mem[s].old = offer

\* The Offer row that an open offer is an instance of, and whoever else has locked
\* it.  Bound: a campaign has one Offer row of each cost.
Instance(offer) == <<offer.campaign, offer.cost>>
Lockers(r, offer) ==
    {s \in Requests \ {r} : /\ pc[s] \in Holding /\ mem[s].old # NoOffer
                           /\ Instance(mem[s].old) = Instance(offer)}

\* Seeded fault: the row is not looked at again after the wait.
StillOpen_Trusted(r) == TRUE

StillOpen(r) ==
    \E i \in DOMAIN open[mem[r].user] : open[mem[r].user][i] = Newest(r)

\* waits for the lock of the newest, and for that of its Offer row, and goes on to
\* the next one if it has been closed meanwhile.
Await(r) ==
    /\ pc[r] = "await" /\ mem[r].seen # <<>>
    /\ ~\E s \in Requests : Holds(s, Newest(r))
    /\ IF StillOpen(r)
       THEN /\ Lockers(r, Newest(r)) = {}
            /\ Remember(r, [mem[r] EXCEPT !.old = Newest(r)])
            /\ Goto(r, "lock")
       ELSE /\ Remember(r, [mem[r] EXCEPT !.seen = SubSeq(@, 1, Len(@) - 1)])
            /\ pc' = pc
    /\ UNCHANGED <<store, holder, now, kind>>

FindNone(r) ==
    /\ pc[r] = "await" /\ mem[r].seen = <<>>
    /\ Goto(r, "lock")
    /\ UNCHANGED <<store, holder, now, kind, mem>>

\* An open offer is kept,
Keep(r) ==
    /\ pc[r] = "lock" /\ mem[r].old # NoOffer
    /\ ~mem[r].closed /\ ~mem[r].superseded
    /\ Finish(r)
    /\ UNCHANGED <<store, now, kind>>

\* or it has expired or is closed for another reason,
Close(r) ==
    /\ pc[r] = "lock" /\ mem[r].old # NoOffer
    /\ ~mem[r].closed /\ ~mem[r].superseded
    /\ Remember(r, [mem[r] EXCEPT !.closed = TRUE])
    /\ UNCHANGED <<store, holder, now, kind, pc>>

\* or the roadmap has a better one.
Supersede(r) ==
    /\ pc[r] = "lock" /\ mem[r].old # NoOffer
    /\ ~mem[r].closed /\ ~mem[r].superseded
    /\ Remember(r, [mem[r] EXCEPT !.superseded = TRUE])
    /\ UNCHANGED <<store, holder, now, kind, pc>>

-----------------------------------------------------------------------------
\* The choice of an offer.

\* The newer open offers stay when the one that was held is closed.
Without(offers, old) ==
    LET at == CHOOSE i \in DOMAIN offers : offers[i] = old
    IN  IF \E i \in DOMAIN offers : offers[i] = old
        THEN SubSeq(offers, 1, at - 1) \o SubSeq(offers, at + 1, Len(offers))
        ELSE offers

OpenAfter(r) ==
    IF mem[r].closed \/ mem[r].superseded
    THEN Without(open[mem[r].user], mem[r].old)
    ELSE open[mem[r].user]

\* The open offers of a campaign cost less by the one that was closed.
LiveAfter(r, c) ==
    IF OpenAfter(r) # open[mem[r].user] /\ mem[r].old.campaign = c
    THEN live[c] - mem[r].old.cost ELSE live[c]

\* Some campaigns, in the order in which the scan finds them.
Scans == UNION {{f \in [1..n -> Campaigns] : \A i, j \in 1..n : f[i] = f[j] => i = j} :
                n \in 1..Cardinality(Campaigns)}

\* _select_offer locks its candidates in one statement, without ORDER BY,
Lock(r) ==
    /\ pc[r] = "lock"
    /\ mem[r].old = NoOffer \/ mem[r].closed \/ mem[r].superseded
    /\ \E scan \in Scans : Remember(r, [mem[r] EXCEPT !.want = scan])
    /\ Goto(r, "acquire")
    /\ UNCHANGED <<store, holder, now, kind>>

\* which takes the row locks one by one and keeps them while it waits.
Acquire(r) ==
    LET c == Head(mem[r].want)
    IN  /\ pc[r] = "acquire" /\ mem[r].want # <<>>
        /\ FreeFor(r, c)
        /\ holder' = [holder EXCEPT ![c] = r]
        /\ Remember(r, [mem[r] EXCEPT !.want = Tail(@)])
        /\ UNCHANGED <<store, now, kind, pc>>

Acquired(r) ==
    /\ pc[r] = "acquire" /\ mem[r].want = <<>>
    /\ Remember(r, [mem[r] EXCEPT !.copy = row])
    /\ Goto(r, "choose")
    /\ UNCHANGED <<store, holder, now, kind>>

Mine(r) == {c \in Campaigns : holder[c] = r}

\* Seeded fault: the limit itself is compared, not what is left of it.
Left_Whole(g) == g.limit

Left(g) == g.limit - g.spent

\* The campaigns come one after the other, each is reset for its week, and the
\* first with an offer that fits is taken.
Choose(r) ==
    /\ pc[r] = "choose"
    /\ \E visited \in SUBSET Mine(r) :
         LET copy == [c \in Campaigns |->
               IF c \in visited THEN Current(mem[r].copy[c], mem[r].today)
               ELSE mem[r].copy[c]]
         IN  \E c \in visited, cost \in Costs :
               /\ Left(copy[c]) > 0
               /\ cost <= Left(copy[c])
               /\ Remember(r, [mem[r] EXCEPT !.copy = copy, !.spent = copy[c].spent,
                    !.new = [id |-> r, campaign |-> c, cost |-> cost]])
    /\ Goto(r, IF mem[r].superseded THEN "refund" ELSE "spend")
    /\ UNCHANGED <<store, holder, now, kind>>

\* Nothing fits, or it does not follow the roadmap: an offer that is to be
\* superseded is kept.
ChooseNone(r) ==
    LET u == mem[r].user
    IN  /\ pc[r] = "choose"
        /\ \E visited \in SUBSET Mine(r) :
             row' = [c \in Campaigns |->
               IF c \in visited THEN Current(row[c], mem[r].today) ELSE row[c]]
        /\ IF mem[r].closed
           THEN /\ open' = [open EXCEPT ![u] = OpenAfter(r)]
                /\ live' = [c \in Campaigns |-> LiveAfter(r, c)]
           ELSE UNCHANGED <<open, live>>
        /\ Finish(r)
        /\ UNCHANGED <<given, now, kind>>

Lowered(spent, cost) == IF cost < spent THEN spent - cost ELSE 0

\* _refund_campaign_budget_for_superseded, on an object of its own.
Refund(r) ==
    LET c == mem[r].old.campaign
        g == Current(IF holder[c] = r THEN mem[r].copy[c] ELSE row[c], mem[r].today)
    IN  /\ pc[r] = "refund"
        /\ FreeFor(r, c)
        /\ holder' = [holder EXCEPT ![c] = r]
        /\ Remember(r, [mem[r] EXCEPT !.copy[c] =
             [g EXCEPT !.spent = Lowered(@, mem[r].old.cost)]])
        /\ Goto(r, "spend")
        /\ UNCHANGED <<store, now, kind>>

\* The object that was picked is saved, over a refund of the same campaign, and the
\* INSERT of the assignment waits for the Offer row.
Spend(r) ==
    LET u == mem[r].user
        new == mem[r].new
    IN  /\ pc[r] = "spend"
        /\ Lockers(r, new) = {}
        /\ row' = [c \in Campaigns |->
             IF c = new.campaign
             THEN [mem[r].copy[c] EXCEPT !.week = mem[r].today,
                                         !.spent = mem[r].spent + new.cost]
             ELSE IF c \in Mine(r) THEN mem[r].copy[c] ELSE row[c]]
        /\ open' = [open EXCEPT ![u] = Append(OpenAfter(r), new)]
        /\ live' = [c \in Campaigns |->
             LiveAfter(r, c) + IF c = new.campaign THEN new.cost ELSE 0]
        /\ given' = [given EXCEPT ![new.campaign][mem[r].today] = @ + new.cost]
        /\ Finish(r)
        /\ UNCHANGED <<now, kind>>

-----------------------------------------------------------------------------
\* The administrator sets the limit and may reset the week, under the row lock.
Patch(r) ==
    /\ pc[r] = "start" /\ kind[r] = "patch"
    /\ \E c \in Campaigns, limit \in Limits, reset \in BOOLEAN :
         /\ holder[c] = NoRequest
         /\ row' = [row EXCEPT ![c] =
              [week |-> IF reset THEN now ELSE @.week,
               spent |-> IF reset THEN 0 ELSE @.spent, limit |-> limit]]
    /\ Finish(r)
    /\ UNCHANGED <<open, given, live, now, kind>>

-----------------------------------------------------------------------------
\* r waits for a lock of s.
WaitsFor(r, s) ==
    /\ r # s
    /\ \/ /\ pc[r] = "await" /\ mem[r].seen # <<>>
          /\ Holds(s, Newest(r)) \/ (StillOpen(r) /\ s \in Lockers(r, Newest(r)))
       \/ pc[r] = "acquire" /\ mem[r].want # <<>> /\ holder[Head(mem[r].want)] = s
       \/ pc[r] = "refund" /\ holder[mem[r].old.campaign] = s
       \/ pc[r] = "spend" /\ s \in Lockers(r, mem[r].new)

\* The database finds a circle of transactions that wait for each other,
InDeadlock(r) ==
    \E circle \in SUBSET Requests :
        /\ r \in circle
        /\ \A a \in circle :
             /\ \E b \in circle : WaitsFor(a, b)
             /\ \E b \in circle : WaitsFor(b, a)

\* and rolls one of them back.
Abort(r) ==
    /\ InDeadlock(r)
    /\ Finish(r)
    /\ UNCHANGED <<store, now, kind>>

\* An error, or the death of the worker.
Die(r) ==
    /\ pc[r] \notin {"start", "done"}
    /\ Finish(r)
    /\ UNCHANGED <<store, now, kind>>

NextWeek ==
    /\ now < LastWeek
    /\ now' = now + 1
    /\ UNCHANGED <<store, holder, kind, pc, mem>>

Work(r) ==
    \/ Find(r) \/ Await(r) \/ FindNone(r) \/ Keep(r) \/ Close(r) \/ Supersede(r) \/ Lock(r)
    \/ Acquire(r) \/ Acquired(r) \/ Choose(r) \/ ChooseNone(r) \/ Refund(r) \/ Spend(r) \/ Abort(r)

Next == (\E r \in Requests : Begin(r) \/ Patch(r) \/ Work(r) \/ Die(r)) \/ NextWeek

Spec == Init /\ [][Next]_vars

\* A worker goes on as long as no lock stops it.
FairSpec == Spec /\ \A r \in Requests : WF_vars(Work(r))

-----------------------------------------------------------------------------
\* Properties.

\* Types of all variables (offers/models.py).
TypeOK ==
    /\ row \in [Campaigns -> Row]
    /\ holder \in [Campaigns -> Requests \cup {NoRequest}]
    /\ open \in [Users -> Seq(Offer)]
    /\ given \in [Campaigns -> [Weeks -> Nat]]
    /\ live \in [Campaigns -> Int]
    /\ now \in Weeks
    /\ kind \in [Requests -> Kinds]
    /\ pc \in [Requests -> Labels]
    /\ mem \in [Requests -> Memory]

\* No assignment takes the spending of a campaign above its limit, although the
\* row is read long before it is written, and written over a refund.
WithinLimit ==
    [][\A c \in Campaigns :
         row'[c].spent > row[c].spent => row'[c].spent <= row'[c].limit]_vars

\* What a row has spent was assigned in its week.
NoPhantomSpending ==
    \A c \in Campaigns : row[c].spent <= given[c][row[c].week]

\* Within one week, and unless an administrator resets it, every open offer is
\* paid for: nothing is refunded twice, or refunded and kept.
OpenOffersArePaid ==
    now = 0 /\ "patch" \notin {kind[r] : r \in Requests}
    => \A c \in Campaigns : live[c] <= row[c].spent

\* Every request ends, also when one waits for a campaign or an Offer row that
\* another one holds and the other way round.
EveryRequestEnds == \A r \in Requests : pc[r] # "start" ~> pc[r] = "done"
=============================================================================
