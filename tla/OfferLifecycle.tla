---------------------------- MODULE OfferLifecycle ----------------------------
(***************************************************************************)
(* The personal offers of one user (OfferAssignment and OfferEvent rows,   *)
(* module offers).  Requests of other users touch none of these rows, but  *)
(* share the Offer rows; their waits for those are in PersonalBudget.      *)
(*   next    GET /api/me/next-offer, home promotions  offers/services.py   *)
(*   buy     POST /api/checkout naming an assignment, or none              *)
(*   auto    POST /api/checkout that picks one by itself                   *)
(*   redeem  POST /api/offers/redeem                   offers/views.py     *)
(*   click   POST /api/offers/click                                        *)
(*   look    offer list, detail, preview, and the cleanup_offers command   *)
(* next, checkouts and redemptions lock the rows they judge; a look and a  *)
(* click judge an unlocked copy and then write single autocommitted rows.  *)
(* Foreign keys make the INSERT of an event wait for a locked assignment,  *)
(* and that of an event or an assignment wait for a locked Offer row.      *)
(* What the roadmap and the favourite category say is left open; campaign  *)
(* budgets and scores are, too, so any offer may win the selection.        *)
(***************************************************************************)
EXTENDS Integers, FiniteSets

CONSTANTS
    Offers,       \* the offers of the active campaigns
    Sort,         \* the special campaign an offer belongs to, or "plain"
    Discounts,    \* the offers of type discount, which only a checkout redeems
    Ttl,          \* expires_in_days, at least a day
    Cooldown,     \* cooldown_days
    Reassign,     \* days before a winback or favourite offer is given again
    Inactive,     \* days without a purchase that make a winback
    MaxExposed,   \* OFFER_SUPERSEDE_MAX_EXPOSED
    Requests,     \* HTTP requests
    NoRequest,    \* null value of Requests
    Kinds,        \* the requests a run considers
    MaxRows,      \* bound: no more assignments are made
    LastDay       \* bound: the calendar stops here

AllKinds == {"next", "buy", "auto", "redeem", "click", "look"}
Sorts == {"plain", "first_order", "winback", "favorite"}

ASSUME OfferAssumption ==
    /\ Sort \in [Offers -> Sorts]
    /\ Discounts \subseteq Offers
    /\ Offers # {}
    /\ Ttl \in Nat \ {0}
    /\ {Cooldown, Reassign, Inactive, MaxExposed, LastDay} \subseteq Nat
    /\ MaxRows \in Nat \ {0}
    /\ NoRequest \notin Requests
    /\ Kinds \subseteq AllKinds

VARIABLES
    now,        \* the day
    last,       \* the day of the user's last purchase
    made,       \* how many assignments there are; the newest has this number
    row,        \* the OfferAssignment rows, as committed
    events,     \* the types of the OfferEvent rows of each assignment
    shown,      \* the days with an EXPOSED event of each assignment
    holder,     \* who holds the row lock of each assignment
    wallet,     \* who holds the row lock of the loyalty account
    kind, pc,   \* what each request is, and where its worker is
    at,         \* the `now` it took when it began
    slot,       \* the assignment it applies or writes, 0 for none
    view,       \* the assignments its query found; then the one it locked
    pick,       \* the offer it is about to assign, if any
    image       \* that assignment, as its own transaction has changed it

shared == <<now, last, made, row, events, shown, holder, wallet>>
vars == <<shared, kind, pc, at, slot, view, pick, image>>

Slots == 1..MaxRows
Made == 1..made
Days == 0..LastDay
Never == 0 - Inactive - 1
LongAgo == 0 - Inactive
Buys == {"buy", "auto"}
EventTypes == {"clicked", "redeemed", "expired", "superseded"}
Labels == {"start", "pay", "apply", "query", "take", "offer", "judge", "keep", "select",
           "replace", "read", "claim", "wallet", "close", "drop", "expired", "click",
           "expose", "done"}

\* is_active, is_redeemed, redeemed_transaction_id, superseded_by, assigned_at,
\* expires_at, and whether the target is a shortcut into the roadmap.
Row == [offer : Offers, shortcut : BOOLEAN, active : BOOLEAN, redeemed : BOOLEAN,
        by : Requests \cup {NoRequest}, heir : 0..MaxRows, born : Days, due : Nat]

NewRow(o, shortcut, r) ==
    [offer |-> o, shortcut |-> shortcut, active |-> TRUE, redeemed |-> FALSE,
     by |-> NoRequest, heir |-> 0, born |-> now, due |-> at[r] + Ttl]

NoRow == [offer |-> CHOOSE o \in Offers : TRUE, shortcut |-> FALSE,
          active |-> FALSE, redeemed |-> FALSE, by |-> NoRequest, heir |-> 0,
          born |-> 0, due |-> 0]

Open(a) == a.active /\ ~a.redeemed

\* What a user may have been given before: nothing, or one open offer.
OldRow(o, shortcut) ==
    [offer |-> o, shortcut |-> shortcut, active |-> TRUE, redeemed |-> FALSE,
     by |-> NoRequest, heir |-> 0, born |-> 0, due |-> Ttl]

Given == {NoRow} \cup {OldRow(o, b) : o \in Offers, b \in BOOLEAN}

Init ==
    /\ now = 0
    /\ last \in {Never, LongAgo}
    /\ \E a \in Given :
         /\ row = [s \in Slots |-> IF s = 1 THEN a ELSE NoRow]
         /\ made = IF a.active THEN 1 ELSE 0
         /\ a.active /\ Sort[a.offer] = "first_order" => last = Never
         /\ a.active /\ Sort[a.offer] \in {"winback", "favorite"} => last # Never
    /\ events = [s \in Slots |-> {}]
    /\ shown = [s \in Slots |-> {}]
    /\ holder = [s \in Slots |-> NoRequest]
    /\ wallet = NoRequest
    /\ kind \in [Requests -> Kinds]
    /\ pc = [r \in Requests |-> "start"]
    /\ at = [r \in Requests |-> 0]
    /\ slot = [r \in Requests |-> 0]
    /\ view = [r \in Requests |-> {}]
    /\ pick = [r \in Requests |-> {}]
    /\ image = [r \in Requests |-> NoRow]

Goto(r, label) == pc' = [pc EXCEPT ![r] = label]
FreeFor(r, s) == holder[s] \in {NoRequest, r}

\* The next offer and a redemption lock the Offer row with the assignment; an event
\* refers to it, and so shares its lock, until the transaction ends.
Locks(t, o) ==
    \/ /\ pc[t] \in {"judge", "keep", "replace", "select"}
       /\ \E s \in view[t] : row[s].offer = o
    \/ pc[t] = "wallet" /\ row[slot[t]].offer = o

Shares(t, o) ==
    /\ pc[t] \in {"take", "offer", "judge", "keep", "replace", "select"}
    /\ kind[t] \in Buys /\ slot[t] # 0 /\ row[slot[t]].offer = o

MayRefer(r, o) == ~\E t \in Requests \ {r} : Locks(t, o)
MayLock(r, o) == MayRefer(r, o) /\ ~\E t \in Requests \ {r} : Shares(t, o)

\* Seeded fault: a path that does not end the database transaction.
Released_Kept(r) == holder

Released(r) == [s \in Slots |-> IF holder[s] = r THEN NoRequest ELSE holder[s]]

\* The end of a database transaction, whether it commits or not.
Release(r) ==
    /\ holder' = Released(r)
    /\ wallet' = IF wallet = r THEN NoRequest ELSE wallet

\* Its objects are garbage then.
Forget(r) ==
    /\ view' = [view EXCEPT ![r] = {}]
    /\ pick' = [pick EXCEPT ![r] = {}]
    /\ image' = [image EXCEPT ![r] = NoRow]

-----------------------------------------------------------------------------
\* Beginnings.

FirstStep == [next |-> "query", buy |-> "pay", auto |-> "pay",
              redeem |-> "read", click |-> "read", look |-> "read"]

\* The request takes its `now`, and the assignment that the client names.
Begin(r) ==
    /\ pc[r] = "start"
    /\ \E s \in 0..made :
         /\ kind[r] \in {"next", "auto"} => s = 0
         /\ kind[r] \in {"redeem", "click", "look"} => s # 0
         /\ slot' = [slot EXCEPT ![r] = s]
    /\ at' = [at EXCEPT ![r] = now]
    /\ Goto(r, FirstStep[kind[r]])
    /\ UNCHANGED <<shared, kind, view, pick, image>>

\* A checkout locks the loyalty account first.
Pay(r) ==
    /\ pc[r] = "pay"
    /\ wallet = NoRequest
    /\ wallet' = r
    /\ Goto(r, "apply")
    /\ UNCHANGED <<now, last, made, row, events, shown, holder, kind, at, slot,
                   view, pick, image>>

\* Seeded fault: the expiry is not looked at.
Usable_Overdue(r, s) == Open(row[s])

\* An assignment that gives its benefit to a request with this `now`.
Usable(r, s) == Open(row[s]) /\ row[s].due > at[r]

\* The named assignment is locked and examined.  A bad one fails the checkout:
\* even the expiry that was just recorded is rolled back.
ApplyNamed(r) ==
    /\ pc[r] = "apply" /\ kind[r] = "buy" /\ slot[r] # 0
    /\ FreeFor(r, slot[r])
    /\ Usable(r, slot[r])
    /\ holder' = [holder EXCEPT ![slot[r]] = r]
    /\ Goto(r, "query")
    /\ UNCHANGED <<now, last, made, row, events, shown, wallet, kind, at, slot,
                   view, pick, image>>

\* A public offer, or none.
ApplyNone(r) ==
    /\ pc[r] = "apply" /\ kind[r] = "buy" /\ slot[r] = 0
    /\ Goto(r, "query")
    /\ UNCHANGED <<shared, kind, at, slot, view, pick, image>>

\* All open assignments are locked, the best unexpired discount is applied.
ApplyAuto(r) ==
    /\ pc[r] = "apply" /\ kind[r] = "auto"
    /\ \A s \in Made : Open(row[s]) => FreeFor(r, s)
    /\ holder' = [s \in Slots |->
                    IF s \in Made /\ Open(row[s]) THEN r ELSE holder[s]]
    /\ \E s \in 0..made :
         /\ s # 0 => Usable(r, s) /\ row[s].offer \in Discounts
         /\ slot' = [slot EXCEPT ![r] = s]
    /\ Goto(r, "query")
    /\ UNCHANGED <<now, last, made, row, events, shown, wallet, kind, at, view,
                   pick, image>>

-----------------------------------------------------------------------------
\* get_or_assign_next_offer, on its own or at the end of a checkout.

\* A checkout has recorded what it used; then the snapshot of its query: what is
\* open, less that.
Query(r) ==
    /\ pc[r] = "query"
    /\ kind[r] \in Buys /\ slot[r] # 0 => MayRefer(r, row[slot[r]].offer)
    /\ view' = [view EXCEPT ![r] = {s \in Made : Open(row[s])} \ {slot[r]}]
    /\ Goto(r, "take")
    /\ UNCHANGED <<shared, kind, at, slot, pick, image>>

\* order_by("-assigned_at", "-id"): the last one made.
Newest(s, S) == \A t \in S : t <= s

\* FOR UPDATE waits for the newest, then looks at it again: one that was closed
\* in the meantime is passed over, one that was made in the meantime not seen.
Take(r) ==
    /\ pc[r] = "take"
    /\ \E s \in view[r] :
         /\ Newest(s, view[r])
         /\ FreeFor(r, s)
         /\ IF Open(row[s])
            THEN /\ holder' = [holder EXCEPT ![s] = r]
                 /\ view' = [view EXCEPT ![r] = {s}]
                 /\ image' = [image EXCEPT ![r] = row[s]]
                 /\ Goto(r, "offer")
            ELSE /\ view' = [view EXCEPT ![r] = view[r] \ {s}]
                 /\ UNCHANGED <<holder, image, pc>>
    /\ UNCHANGED <<now, last, made, row, events, shown, wallet, kind, at, slot, pick>>

\* The same statement then locks the Offer row.
TakeOffer(r) ==
    /\ pc[r] = "offer"
    /\ \A s \in view[r] : MayLock(r, row[s].offer)
    /\ Goto(r, "judge")
    /\ UNCHANGED <<shared, kind, at, slot, view, pick, image>>

TakeNone(r) ==
    /\ pc[r] = "take" /\ view[r] = {}
    /\ Goto(r, "select")
    /\ UNCHANGED <<shared, kind, at, slot, view, pick, image>>

\* A checkout sees the Transaction it has inserted.
HasBought(r) == kind[r] \in Buys \/ last # Never
WonBack(r) == kind[r] \notin Buys /\ last # Never /\ at[r] - last >= Inactive

\* The purchase an onboarding or winback offer was meant to cause has happened.
Bought(r, a) ==
    \/ Sort[a.offer] = "first_order" /\ HasBought(r)
    \/ Sort[a.offer] = "winback" /\ ~WonBack(r)

\* Expired, bought, or aimed at something that is gone: it is closed.
Judged(r, a, gone) ==
    [a EXCEPT !.active = a.active /\ a.due > at[r] /\ ~Bought(r, a) /\ ~gone,
              !.redeemed = a.redeemed \/ Bought(r, a)]

\* _can_supersede_existing: not clicked, not redeemed, hardly shown.
CanSupersede(s) ==
    /\ events[s] \cap {"clicked", "redeemed"} = {}
    /\ Cardinality(shown[s]) <= MaxExposed

Judge(r) ==
    /\ pc[r] = "judge"
    /\ \E s \in view[r], gone \in BOOLEAN :
         LET a == Judged(r, row[s], gone)
         IN  /\ gone => row[s].shortcut \/ Sort[row[s].offer] = "favorite"
             /\ image' = [image EXCEPT ![r] = a]
             /\ \/ ~a.active /\ Goto(r, "select")
                \/ a.active /\ Goto(r, "keep")
                \/ a.active /\ kind[r] \in Buys /\ CanSupersede(s) /\ Goto(r, "replace")
    /\ UNCHANGED <<shared, kind, at, slot, view, pick>>

\* The rows as the transaction of r leaves them: what a checkout applied is
\* redeemed, what it judged has its new state.
Applied(r, s) ==
    IF kind[r] \in Buys /\ s = slot[r]
    THEN [row[s] EXCEPT !.active = FALSE, !.redeemed = TRUE, !.by = r]
    ELSE IF s \in view[r] THEN image[r] ELSE row[s]

AppliedEvents(r, s) ==
    events[s]
      \cup (IF Applied(r, s).redeemed /\ ~row[s].redeemed THEN {"redeemed"} ELSE {})
      \cup (IF s \in view[r] /\ row[s].due <= at[r] THEN {"expired"} ELSE {})

Recently(r, days, S) == \E s \in S : row[s].born >= at[r] - days

\* The campaigns' and the offer's own conditions in _select_offer.
Eligible(r, o) ==
    LET same == {s \in Made : Sort[row[s].offer] = Sort[o]}
        used == {s \in Made : row[s].offer = o /\ Applied(r, s).redeemed}
    IN  /\ Sort[o] = "first_order" => ~HasBought(r)
        /\ Sort[o] = "winback" => WonBack(r)
        /\ Sort[o] = "favorite" => kind[r] \notin Buys
        /\ Sort[o] \in {"winback", "favorite"} => ~Recently(r, Reassign, same)
        /\ Cooldown > 0 => ~Recently(r, Cooldown, used)

Bookkeeping(r) ==
    /\ last' = IF kind[r] \in Buys THEN now ELSE last
    /\ Release(r)
    /\ Forget(r)
    /\ UNCHANGED <<now, shown, kind, at>>

\* The assignment it returns, 0 for none, is shown by GET next-offer only.
Return(r, s) ==
    IF kind[r] = "next" /\ s # 0
    THEN slot' = [slot EXCEPT ![r] = s] /\ Goto(r, "expose")
    ELSE slot' = [slot EXCEPT ![r] = 0] /\ Goto(r, "done")

\* _select_offer.  Each assignment that is still to be made counts.
Pick(r) ==
    /\ pc[r] \in {"replace", "select"} /\ pick[r] = {}
    /\ made + Cardinality({t \in Requests : pick[t] # {}}) < MaxRows
    /\ \E o \in Offers : Eligible(r, o) /\ pick' = [pick EXCEPT ![r] = {o}]
    /\ UNCHANGED <<shared, kind, pc, at, slot, view, image>>

\* COMMIT with no new assignment: the existing one stays, or nothing fits.
CommitOld(r) ==
    /\ pc[r] \in {"keep", "replace", "select"} /\ pick[r] = {}
    /\ row' = [s \in Slots |-> Applied(r, s)]
    /\ events' = [s \in Slots |-> AppliedEvents(r, s)]
    /\ made' = made
    /\ Bookkeeping(r)
    /\ IF pc[r] = "select" THEN Return(r, 0) ELSE \E s \in view[r] : Return(r, s)

\* The INSERT waits for the Offer row, and COMMIT with the new assignment; in
\* "replace" it supersedes the existing one.
CommitNew(r) ==
    /\ pc[r] \in {"replace", "select"}
    /\ made < MaxRows
    /\ made' = made + 1
    /\ \E o \in pick[r], shortcut \in BOOLEAN :
         /\ MayRefer(r, o)
         /\ row' = [s \in Slots |->
              IF s = made + 1 THEN NewRow(o, shortcut, r)
              ELSE IF pc[r] = "replace" /\ s \in view[r]
                   THEN [image[r] EXCEPT !.active = FALSE, !.heir = made + 1]
                   ELSE Applied(r, s)]
    /\ events' = [s \in Slots |-> AppliedEvents(r, s)
         \cup (IF pc[r] = "replace" /\ s \in view[r] THEN {"superseded"} ELSE {})]
    /\ Bookkeeping(r)
    /\ Return(r, made + 1)

-----------------------------------------------------------------------------
\* POST /api/offers/redeem

\* It locks the assignment,
RedeemLock(r) ==
    /\ pc[r] = "read" /\ kind[r] = "redeem"
    /\ FreeFor(r, slot[r])
    /\ holder' = [holder EXCEPT ![slot[r]] = r]
    /\ Goto(r, "claim")
    /\ UNCHANGED <<now, last, made, row, events, shown, wallet, kind, at, slot, view,
                   pick, image>>

\* then the Offer row, and examines them; an expired one is closed, and because the
\* handler returns instead of raising, that is committed.
RedeemTake(r) ==
    /\ pc[r] = "claim"
    /\ MayLock(r, row[slot[r]].offer)
    /\ LET a == row[slot[r]]
           lapsed == ~a.redeemed /\ a.offer \notin Discounts /\ a.due <= at[r]
       IN  IF Usable(r, slot[r]) /\ a.offer \notin Discounts
           THEN /\ Goto(r, "wallet")
                /\ UNCHANGED <<row, events, holder>>
           ELSE /\ row' = [row EXCEPT ![slot[r]].active = a.active /\ ~lapsed]
                /\ events' = [events EXCEPT ![slot[r]] =
                      @ \cup (IF lapsed /\ a.active THEN {"expired"} ELSE {})]
                /\ Goto(r, "done")
                /\ holder' = Released(r)
    /\ UNCHANGED <<now, last, made, shown, wallet, kind, at, slot, view, pick, image>>

\* Then it waits for the loyalty account, credits the points and commits.
RedeemCommit(r) ==
    /\ pc[r] = "wallet"
    /\ wallet = NoRequest
    /\ last # Never
    /\ row' = [row EXCEPT ![slot[r]].active = FALSE, ![slot[r]].redeemed = TRUE,
                          ![slot[r]].by = r]
    /\ events' = [events EXCEPT ![slot[r]] = @ \cup {"redeemed"}]
    /\ holder' = Released(r)
    /\ Goto(r, "done")
    /\ UNCHANGED <<now, last, made, shown, wallet, kind, at, slot, view, pick, image>>

-----------------------------------------------------------------------------
\* Requests that judge a copy.

\* What the copy says decides every later step.
Read(r) ==
    /\ pc[r] = "read" /\ kind[r] \in {"click", "look"}
    /\ LET a == row[slot[r]]
       IN  \/ /\ ~Open(a) /\ Goto(r, "done")
           \/ /\ Open(a) /\ a.due <= at[r] /\ Goto(r, "close")
           \/ /\ Usable(r, slot[r]) /\ kind[r] = "click" /\ Goto(r, "click")
           \/ /\ Usable(r, slot[r]) /\ kind[r] = "look"
              /\ \/ Goto(r, "expose")
                 \/ a.shortcut /\ Goto(r, "drop")
                 \/ Goto(r, "done")
    /\ UNCHANGED <<shared, kind, at, slot, view, pick, image>>

\* UPDATE, which waits for the row.
Writes(r, label) == pc[r] = label /\ FreeFor(r, slot[r])

\* Seeded fault: no foreign keys from the event to the assignment and the offer.
Inserts_NoWait(r, label) == pc[r] = label

\* INSERT of an event: its foreign keys need both rows, so it waits, too.
Inserts(r, label) ==
    pc[r] = label /\ FreeFor(r, slot[r]) /\ MayRefer(r, row[slot[r]].offer)

\* Seeded fault: save() writes all the fields of the copy.
Closed_Whole(a) == [a EXCEPT !.active = FALSE, !.redeemed = FALSE]

Closed(a) == [a EXCEPT !.active = FALSE]

\* save(update_fields=["is_active"]), as expired or as aimed at a stale step.
Close(r) ==
    /\ \/ Writes(r, "close") /\ Goto(r, "expired")
       \/ Writes(r, "drop") /\ Goto(r, "done")
    /\ row' = [row EXCEPT ![slot[r]] = Closed(row[slot[r]])]
    /\ UNCHANGED <<now, last, made, events, shown, holder, wallet, kind, at, slot,
                   view, pick, image>>

Record(r, type) ==
    /\ events' = [events EXCEPT ![slot[r]] = @ \cup {type}]
    /\ Goto(r, "done")
    /\ UNCHANGED <<now, last, made, row, shown, holder, wallet, kind, at, slot,
                   view, pick, image>>

RecordExpired(r) == Inserts(r, "expired") /\ Record(r, "expired")
Click(r) == Inserts(r, "click") /\ Record(r, "clicked")

\* At most one EXPOSED event per assignment and day.
Expose(r) ==
    /\ Inserts(r, "expose")
    /\ shown' = [shown EXCEPT ![slot[r]] = @ \cup {now}]
    /\ Goto(r, "done")
    /\ UNCHANGED <<now, last, made, row, events, holder, wallet, kind, at, slot,
                   view, pick, image>>

-----------------------------------------------------------------------------
\* Failure, time and the whole system.

Rollback(r) ==
    /\ Release(r)
    /\ Forget(r)
    /\ slot' = [slot EXCEPT ![r] = 0]
    /\ Goto(r, "done")
    /\ UNCHANGED <<now, last, made, row, events, shown, kind, at>>

\* The named assignment cannot be used, or the redemption has no purchase.
Refuse(r) ==
    /\ \/ /\ pc[r] = "apply" /\ kind[r] = "buy" /\ slot[r] # 0
          /\ FreeFor(r, slot[r]) /\ ~Usable(r, slot[r])
       \/ pc[r] = "wallet" /\ last = Never
    /\ Rollback(r)

\* Any other error, or the death of the worker.
Die(r) == pc[r] \notin {"start", "done"} /\ Rollback(r)

\* r waits for a lock that t holds.
WaitsFor(r, t) ==
    /\ t # r
    /\ \/ pc[r] \in {"pay", "wallet"} /\ wallet = t
       \/ pc[r] = "apply" /\ kind[r] = "buy" /\ slot[r] # 0 /\ holder[slot[r]] = t
       \/ pc[r] = "apply" /\ kind[r] = "auto"
          /\ \E s \in Made : Open(row[s]) /\ holder[s] = t
       \/ pc[r] = "read" /\ kind[r] = "redeem" /\ holder[slot[r]] = t
       \/ pc[r] = "take" /\ \E s \in view[r] : Newest(s, view[r]) /\ holder[s] = t
       \/ /\ pc[r] = "query" /\ kind[r] \in Buys /\ slot[r] # 0
          /\ Locks(t, row[slot[r]].offer)
       \/ /\ pc[r] = "claim"
          /\ Locks(t, row[slot[r]].offer) \/ Shares(t, row[slot[r]].offer)
       \/ /\ pc[r] = "offer"
          /\ \E s \in view[r] : Locks(t, row[s].offer) \/ Shares(t, row[s].offer)
       \/ \E o \in pick[r] : Locks(t, o)

\* A circle of transactions that wait for each other.
Deadlocked(r) ==
    \E circle \in SUBSET Requests :
        /\ r \in circle
        /\ \A a \in circle :
             /\ \E b \in circle : WaitsFor(a, b)
             /\ \E b \in circle : WaitsFor(b, a)

\* PostgreSQL ends a deadlock by failing one of its transactions.
Victim(r) == Deadlocked(r) /\ Rollback(r)

NextDay ==
    /\ now < LastDay
    /\ now' = now + 1
    /\ UNCHANGED <<last, made, row, events, shown, holder, wallet, kind, pc, at,
                   slot, view, pick, image>>

Work(r) ==
    \/ Pay(r) \/ ApplyNamed(r) \/ ApplyNone(r) \/ ApplyAuto(r)
    \/ Query(r) \/ Take(r) \/ TakeNone(r) \/ TakeOffer(r) \/ Judge(r)
    \/ Pick(r) \/ CommitOld(r) \/ CommitNew(r)
    \/ RedeemLock(r) \/ RedeemTake(r) \/ RedeemCommit(r)
    \/ Read(r) \/ Close(r) \/ RecordExpired(r) \/ Click(r) \/ Expose(r)
    \/ Refuse(r) \/ Victim(r)

Next == (\E r \in Requests : Begin(r) \/ Work(r) \/ Die(r)) \/ NextDay

Spec == Init /\ [][Next]_vars
FairSpec == Spec /\ \A r \in Requests : WF_vars(Work(r))

-----------------------------------------------------------------------------
\* Properties.

\* Types of all variables (offers/models.py).
TypeOK ==
    /\ now \in Days
    /\ last \in Int
    /\ made \in 0..MaxRows
    /\ row \in [Slots -> Row]
    /\ events \in [Slots -> SUBSET EventTypes]
    /\ shown \in [Slots -> SUBSET Days]
    /\ holder \in [Slots -> Requests \cup {NoRequest}]
    /\ wallet \in Requests \cup {NoRequest}
    /\ kind \in [Requests -> Kinds]
    /\ pc \in [Requests -> Labels]
    /\ at \in [Requests -> Days]
    /\ slot \in [Requests -> 0..MaxRows]
    /\ view \in [Requests -> SUBSET Slots]
    /\ pick \in [Requests -> SUBSET Offers]
    /\ image \in [Requests -> Row]

\* What the set of events E of assignment s says of its row a.
Agree(a, E, s) ==
    /\ a.redeemed = ("redeemed" \in E)
    /\ a.redeemed => ~a.active
    /\ a.by # NoRequest => a.redeemed
    /\ (a.heir # 0) = ("superseded" \in E)
    /\ a.heir # 0 => ~a.active /\ a.heir > s /\ a.heir <= made
    /\ "expired" \in E => ~a.active /\ a.due <= now

\* The event log and the rows tell the same story, although looks and clicks
\* write the two in separate statements and from old copies: a redeemed
\* assignment has its event and is not active, one that a purchase used is
\* redeemed, a superseded one was replaced by a newer one, and what is recorded
\* as expired is closed and overdue.
EventsTellTheTruth == \A s \in Made : Agree(row[s], events[s], s)

\* A closed assignment stays closed, and a redeemed one stays with the purchase
\* that used it, whatever copies are still in the memory of other workers.
FinalIsFinal ==
    [][\A s \in Made :
         /\ ~row[s].active => ~row'[s].active
         /\ row[s].redeemed => row'[s].redeemed /\ row'[s].by = row[s].by
         /\ row[s].heir # 0 => row'[s].heir = row[s].heir]_vars

\* An assignment gives its benefit to one purchase or redemption, and only while
\* it is open, unexpired at the time of that request, and not superseded.
BenefitIsEarned ==
    [][\A s \in Made :
         row'[s].by # row[s].by
         => /\ row[s].by = NoRequest
            /\ row[s].active /\ ~row[s].redeemed
            /\ row[s].due > at[row'[s].by]
            /\ events[s] \cap {"redeemed", "superseded"} = {}]_vars

\* An assignment the customer has clicked is not taken away by a better one, nor
\* one that was shown on many days, although the click may come while a checkout
\* is deciding.
ClickedIsKept ==
    [][\A s \in Made :
         row[s].heir = 0 /\ row'[s].heir # 0
         => "clicked" \notin events[s] /\ Cardinality(shown[s]) <= MaxExposed]_vars

\* Every request that has begun ends, one that waits for an Offer row included: the
\* deadlock of a checkout (account, then assignment) with a redemption (assignment,
\* then account) is broken.
EveryRequestEnds ==
    \A r \in Requests : pc[r] # "start" ~> pc[r] = "done"

\* Documented for GET /api/me/next-offer: it returns the current active
\* assignment or creates a new one, so that there is one at a time.
OneCurrentOffer ==
    \A s, t \in Made :
        Open(row[s]) /\ Open(row[t]) /\ row[s].due > now /\ row[t].due > now => s = t
=============================================================================
