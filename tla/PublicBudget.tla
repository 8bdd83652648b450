----------------------------- MODULE PublicBudget -----------------------------
(***************************************************************************)
(* The weekly budgets of public campaigns (CampaignBudget, used by         *)
(* checkout_app/views.py).  A checkout either lets the program pick the    *)
(* best promotion, and then locks all public campaigns before it reads     *)
(* them, or names an offer, and then reads its campaign without a lock and *)
(* writes the new spending over whatever the row holds by then.  A budget  *)
(* is reset by the first checkout that finds the row of another week.  An  *)
(* administrator sets limits and resets weeks in between.                  *)
(***************************************************************************)
EXTENDS Integers

CONSTANTS
    Campaigns,     \* active campaigns of type PUBLIC
    FirstLimit,    \* weekly_limit of each at first, 0 for no limit
    Limits,        \* those that an administrator may set
    Requests,      \* HTTP requests
    NoRequest,     \* null value of Requests
    Kinds,         \* what they are: a subset of AllKinds
    Discounts,     \* discounts an offer may give on a cart
    LastWeek       \* bound: the calendar stops here

\* Checkouts by the way they find an offer, and patches of a campaign.
AllKinds == {"auto", "by_id", "patch"}

ASSUME BudgetAssumption ==
    /\ FirstLimit \in [Campaigns -> Nat]
    /\ Limits \subseteq Nat
    /\ NoRequest \notin Requests
    /\ Kinds \subseteq AllKinds
    /\ Discounts \subseteq Nat \ {0}
    /\ LastWeek \in Nat

VARIABLES
    row,        \* week_start_date, weekly_spent and weekly_limit, as committed
    limits,     \* history: the limits each campaign has had
    granted,    \* per campaign and week, the discounts on committed receipts
    holder,     \* the transaction that holds the row lock of each campaign
    now,        \* the current week
    kind, pc,   \* what each request is, and where it is
    today,      \* the week of the `now` it took when it began
    copy,       \* the CampaignBudget objects in its memory
    pick,       \* the campaign whose offer it applies
    amount      \* the discount

vars == <<row, limits, granted, holder, now, kind, pc, today, copy, pick, amount>>

Weeks == 0..LastWeek
Row == [week : Weeks, spent : Nat, limit : Nat]
Labels == {"start", "read", "reset", "choose", "spend", "done"}

Init ==
    /\ row = [c \in Campaigns |-> [week |-> 0, spent |-> 0, limit |-> FirstLimit[c]]]
    /\ limits = [c \in Campaigns |-> {FirstLimit[c]}]
    /\ granted = [c \in Campaigns |-> [w \in Weeks |-> 0]]
    /\ holder = [c \in Campaigns |-> NoRequest]
    /\ now = 0
    /\ kind \in [Requests -> Kinds]
    /\ pc = [r \in Requests |-> "start"]
    /\ today = [r \in Requests |-> 0]
    /\ copy = [r \in Requests |-> row]
    /\ pick \in [Requests -> Campaigns]
    /\ amount = [r \in Requests |-> 0]

Goto(r, label) == pc' = [pc EXCEPT ![r] = label]
FreeFor(r, c) == holder[c] \in {NoRequest, r}

\* The row after _public_campaign_weekly_spent(reset=True); a campaign without
\* a limit is not looked at.
Stale(g, week) == g.limit > 0 /\ g.week # week
Fresh(g, week) == [g EXCEPT !.week = week, !.spent = 0]

\* Seeded fault: the limit itself is compared, not what is left of it.
Fits_Whole(g, d) == g.limit = 0 \/ d <= g.limit

\* A discount must fit in what is left of the week.
Fits(g, d) == g.limit = 0 \/ d <= g.limit - g.spent

-----------------------------------------------------------------------------

\* A checkout takes its `now`.
Begin(r) ==
    /\ pc[r] = "start" /\ kind[r] # "patch"
    /\ today' = [today EXCEPT ![r] = now]
    /\ Goto(r, "read")
    /\ UNCHANGED <<row, limits, granted, holder, now, kind, copy, pick, amount>>

\* Seeded fault: SELECT without FOR UPDATE.
AllLocked_Unlocked(r) == holder' = holder

AllLocked(r) ==
    /\ \A c \in Campaigns : FreeFor(r, c)
    /\ holder' = [c \in Campaigns |-> r]

\* _find_public_campaign_offer: all campaigns are locked, read and reset.
ReadAll(r) ==
    /\ pc[r] = "read"
    /\ kind[r] = "auto"
    /\ AllLocked(r)
    /\ copy' = [copy EXCEPT ![r] = [c \in Campaigns |->
          IF Stale(row[c], today[r]) THEN Fresh(row[c], today[r]) ELSE row[c]]]
    /\ Goto(r, "choose")
    /\ UNCHANGED <<row, limits, granted, now, kind, today, pick, amount>>

\* _resolve_public_offer_by_id: the campaign comes with its offer, unlocked.
ReadOne(r) ==
    /\ pc[r] = "read"
    /\ kind[r] = "by_id"
    /\ copy' = [copy EXCEPT ![r] = row]
    /\ Goto(r, IF Stale(row[pick[r]], today[r]) THEN "reset" ELSE "choose")
    /\ UNCHANGED <<row, limits, granted, holder, now, kind, today, pick, amount>>

\* Its reset is an UPDATE: it waits for the row, takes it, and overwrites it
\* without looking at it again.
Reset(r) ==
    /\ pc[r] = "reset"
    /\ FreeFor(r, pick[r])
    /\ holder' = [holder EXCEPT ![pick[r]] = r]
    /\ copy' = [copy EXCEPT ![r][pick[r]] = Fresh(@, today[r])]
    /\ Goto(r, "choose")
    /\ UNCHANGED <<row, limits, granted, now, kind, today, pick, amount>>

\* An offer with a discount that fits; automatic picking may take any campaign.
Choose(r) ==
    /\ pc[r] = "choose"
    /\ \E c \in Campaigns, d \in Discounts :
         /\ kind[r] = "by_id" => c = pick[r]
         /\ Fits(copy[r][c], d)
         /\ pick' = [pick EXCEPT ![r] = c]
         /\ amount' = [amount EXCEPT ![r] = d]
    /\ Goto(r, "spend")
    /\ UNCHANGED <<row, limits, granted, holder, now, kind, today, copy>>

Released(r) == [c \in Campaigns |-> IF holder[c] = r THEN NoRequest ELSE holder[c]]

\* Automatic picking finds nothing that fits: the checkout commits without a
\* promotion, and the resets with it.
NothingFits(r) ==
    /\ pc[r] = "choose"
    /\ kind[r] = "auto"
    /\ row' = copy[r]
    /\ holder' = Released(r)
    /\ Goto(r, "done")
    /\ UNCHANGED <<limits, granted, now, kind, today, copy, pick, amount>>

\* Seeded fault: week_start_date is not written with the spending, so that an
\* amount of one week may end up on the row of another.
Spent_WeekKept(r) ==
    [(IF holder[pick[r]] = r THEN copy[r] ELSE row)[pick[r]] EXCEPT
       !.spent = copy[r][pick[r]].spent + amount[r]]

\* The limit is not saved.
Spent(r) ==
    [row[pick[r]] EXCEPT !.week = copy[r][pick[r]].week,
                         !.spent = copy[r][pick[r]].spent + amount[r]]

\* The checkout commits: the absolute value it computed replaces the row.
Spend(r) ==
    /\ pc[r] = "spend"
    /\ FreeFor(r, pick[r])
    /\ row' = [(IF kind[r] = "auto" THEN copy[r] ELSE row) EXCEPT ![pick[r]] = Spent(r)]
    /\ granted' = [granted EXCEPT ![pick[r]][today[r]] = @ + amount[r]]
    /\ holder' = Released(r)
    /\ Goto(r, "done")
    /\ UNCHANGED <<limits, now, kind, today, copy, pick, amount>>

\* The checkout fails or its worker dies; its transaction is rolled back.
Abort(r) ==
    /\ pc[r] \notin {"start", "done"}
    /\ holder' = Released(r)
    /\ Goto(r, "done")
    /\ UNCHANGED <<row, limits, granted, now, kind, today, copy, pick, amount>>

\* An administrator sets the limit and may reset the week, under the row lock.
Patch(r) ==
    /\ pc[r] = "start" /\ kind[r] = "patch"
    /\ \E c \in Campaigns, limit \in Limits, reset \in BOOLEAN :
         /\ holder[c] = NoRequest
         /\ row' = [row EXCEPT ![c] =
              [week |-> IF reset THEN now ELSE @.week,
               spent |-> IF reset THEN 0 ELSE @.spent, limit |-> limit]]
         /\ limits' = [limits EXCEPT ![c] = @ \cup {limit}]
    /\ Goto(r, "done")
    /\ UNCHANGED <<granted, holder, now, kind, today, copy, pick, amount>>

NextWeek ==
    /\ now < LastWeek
    /\ now' = now + 1
    /\ UNCHANGED <<row, limits, granted, holder, kind, pc, today, copy, pick, amount>>

Next ==
    \/ \E r \in Requests :
         \/ Begin(r) \/ ReadAll(r) \/ ReadOne(r) \/ Reset(r) \/ Choose(r)
         \/ NothingFits(r) \/ Spend(r) \/ Abort(r) \/ Patch(r)
    \/ NextWeek

Spec == Init /\ [][Next]_vars

-----------------------------------------------------------------------------
\* Properties.

\* Types; a row is only locked by a checkout that is between its first read of
\* the campaigns and its commit.
TypeOK ==
    /\ row \in [Campaigns -> Row]
    /\ limits \in [Campaigns -> SUBSET Nat]
    /\ granted \in [Campaigns -> [Weeks -> Nat]]
    /\ holder \in [Campaigns -> Requests \cup {NoRequest}]
    /\ now \in Weeks
    /\ kind \in [Requests -> Kinds]
    /\ pc \in [Requests -> Labels]
    /\ today \in [Requests -> Weeks]
    /\ copy \in [Requests -> [Campaigns -> Row]]
    /\ pick \in [Requests -> Campaigns]
    /\ amount \in [Requests -> Nat]
    /\ \A c \in Campaigns, r \in Requests : holder[c] = r => pc[r] \in {"choose", "spend"}

\* A campaign that has had a limit all the time.
Limited(c) == 0 \notin limits[c]

\* No race, no change of week and no patch makes weekly_spent pass the limits that
\* its campaign has had.
RowWithinLimit ==
    \A c \in Campaigns : Limited(c) => \E l \in limits[c] : row[c].spent <= l

\* weekly_spent never counts a discount that was not granted in the week of the
\* row: rollbacks, resets and blind writes may lose spending but invent none,
\* so that no customer is refused for money that was not spent.  (A campaign without
\* a limit is never reset and counts on through the weeks.)
NoPhantomSpending ==
    \A c \in Campaigns : Limited(c) => row[c].spent <= granted[c][row[c].week]

\* The row that decides the next grant is neither above the limits nor too high.
RowIsRight == RowWithinLimit /\ NoPhantomSpending

\* The discounts given stay within the limit of the campaign while every checkout
\* picks its promotion automatically, nobody patches a campaign and no week has
\* changed under a checkout that was waiting: those checkouts lock the campaigns
\* before they read them.  Checkouts that name an offer do not, and together give
\* more than the limit allows.
AllAuto == \A r \in Requests : kind[r] = "auto"

AutomaticKeepsTheLimit ==
    AllAuto /\ now = 0 =>
        \A c \in Campaigns : row[c].limit > 0 => granted[c][0] <= row[c].limit
=============================================================================
