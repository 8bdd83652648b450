------------------------------ MODULE GiftCards ------------------------------
(***************************************************************************)
(* The life of a gift card (gift_cards/, and its use in checkout_app/):    *)
(*   buy      issue the card in one database transaction, then e-mail it   *)
(*   pay      redeem it in a checkout, under the card's row lock           *)
(*   list     the recipient's list, which refreshes the status it shows    *)
(*   preview  a checkout preview, which refreshes the card it looks at     *)
(* The last two read and write the row without a lock.  A card expires by  *)
(* the calendar, but its status only changes when a request looks at it.   *)
(***************************************************************************)
EXTENDS Integers

CONSTANTS
    Cards,        \* rows of GiftCard
    Requests,     \* HTTP requests
    NoRequest,    \* null value of Requests
    Kinds,        \* what the requests may be: a subset of AllKinds
    Amount,       \* initial_amount of a card
    Dues,         \* amounts a checkout may still have to collect
    Ttl,          \* GIFT_CARD_EXPIRES_IN_DAYS
    LastDay,      \* bound: the calendar stops here
    Refunds       \* whether staff may mark cards as refunded

AllKinds == {"buy", "pay", "list", "preview"}

ASSUME GiftCardAssumption ==
    /\ NoRequest \notin Requests
    /\ Kinds \subseteq AllKinds
    /\ Amount \in Nat \ {0}
    /\ Dues \subseteq Nat
    /\ Ttl \in Nat
    /\ LastDay \in Nat
    /\ Refunds \in BOOLEAN

VARIABLES
    card,      \* the committed row of each card
    ledger,    \* sum of amount_delta over the card's GiftCardLedgerEntry rows
    mails,     \* e-mails sent for the card
    holder,    \* the checkout that holds the card's row lock
    now,       \* the calendar
    kind,      \* what each request is
    pc,        \* where its worker is
    mine,      \* the card it is about
    copy,      \* the GiftCard object in its memory
    today,     \* the value of `now` it took for its decisions
    receipt    \* email_sent in the stored pricing_meta of a purchase

rows == <<card, ledger, mails, holder>>
local == <<kind, mine, copy, today, receipt>>
vars == <<rows, now, pc, local>>

Statuses == {"none", "active", "exhausted", "expired", "refunded"}
CardRow == [status : Statuses, remaining : Nat, expires : Nat, sent : BOOLEAN]
Labels == {"start", "fetch", "judge", "save", "pay", "mail", "stamp", "receipt", "done"}

Blank == [status |-> "none", remaining |-> 0, expires |-> 0, sent |-> FALSE]
Issued == {c \in Cards : card[c].status # "none"}

Init ==
    /\ card = [c \in Cards |-> Blank]
    /\ ledger = [c \in Cards |-> 0]
    /\ mails = [c \in Cards |-> 0]
    /\ holder = [c \in Cards |-> NoRequest]
    /\ now = 0
    /\ kind \in [Requests -> Kinds]
    /\ pc = [r \in Requests |-> "start"]
    /\ mine \in [Requests -> Cards]
    /\ copy = [r \in Requests |-> Blank]
    /\ today = [r \in Requests |-> 0]
    /\ receipt = [r \in Requests |-> "none"]

Goto(r, label) == pc' = [pc EXCEPT ![r] = label]

Min(a, b) == IF a <= b THEN a ELSE b
Max(a, b) == IF a >= b THEN a ELSE b

\* Seeded fault: the expiry is compared with the wrong day.
Refreshed_Early(g, day) ==
    IF g.expires <= day + 1 /\ g.status # "expired" THEN "expired"
    ELSE IF g.remaining <= 0 THEN "exhausted" ELSE g.status

\* refresh_gift_card_status: the status a card should have on a day.  A card
\* that is already expired falls through to the other rules.
Refreshed(g, day) ==
    IF g.expires <= day /\ g.status # "expired" THEN "expired"
    ELSE IF g.remaining <= 0 THEN "exhausted"
    ELSE IF g.expires > day THEN "active"
    ELSE g.status

\* Seeded fault: nobody looks at the status of the card.
Redeemable_AnyStatus(g) == g.remaining > 0

Redeemable(g) == g.status \notin {"expired", "refunded"} /\ g.remaining > 0

-----------------------------------------------------------------------------
\* Buying a card.

\* The transaction row, the card and its ISSUE entry are committed together;
\* the stored receipt says that no e-mail was sent.
Issue(r) ==
    /\ pc[r] = "start"
    /\ kind[r] = "buy"
    /\ mine[r] \notin Issued
    /\ card' = [card EXCEPT ![mine[r]] =
          [status |-> "active", remaining |-> Amount,
           expires |-> now + Ttl, sent |-> FALSE]]
    /\ ledger' = [ledger EXCEPT ![mine[r]] = Amount]
    /\ receipt' = [receipt EXCEPT ![r] = "unsent"]
    /\ Goto(r, "mail")
    /\ UNCHANGED <<mails, holder, now, kind, mine, copy, today>>

\* The request fails before its commit, for instance because the code it
\* generated was taken in the meantime: nothing of it remains.
BuyFails(r) ==
    /\ pc[r] = "start"
    /\ kind[r] = "buy"
    /\ Goto(r, "done")
    /\ UNCHANGED <<rows, now, local>>

\* send_mail, after the commit.  Its exceptions are swallowed, one that comes
\* after the delivery too.
Mail(r) ==
    /\ pc[r] = "mail"
    /\ \/ /\ mails' = [mails EXCEPT ![mine[r]] = @ + 1]
          /\ \E label \in {"stamp", "receipt"} : Goto(r, label)
       \/ Goto(r, "receipt") /\ UNCHANGED mails
    /\ UNCHANGED <<card, ledger, holder, now, local>>

\* Seeded fault: save() without update_fields writes back the card as issued.
Stamped_Whole(g) == [g EXCEPT !.sent = TRUE, !.remaining = Amount]

Stamped(g) == [g EXCEPT !.sent = TRUE]

\* sent_at is saved on its own: a payment made meanwhile is not undone.
Stamp(r) ==
    /\ pc[r] = "stamp"
    /\ holder[mine[r]] = NoRequest
    /\ card' = [card EXCEPT ![mine[r]] = Stamped(card[mine[r]])]
    /\ Goto(r, "receipt")
    /\ UNCHANGED <<ledger, mails, holder, now, local>>

\* Seeded fault: the receipt claims the e-mail whatever send_mail did.
EmailSent_Always(r) == "sent"

EmailSent(r) == IF card[mine[r]].sent THEN "sent" ELSE "unsent"

StoreReceipt(r) ==
    /\ pc[r] = "receipt"
    /\ receipt' = [receipt EXCEPT ![r] = EmailSent(r)]
    /\ Goto(r, "done")
    /\ UNCHANGED <<rows, now, kind, mine, copy, today>>

-----------------------------------------------------------------------------
\* Looking at a card and paying with it.

\* The handler takes its notion of now, long before it reads the card.
Begin(r) ==
    /\ pc[r] = "start"
    /\ kind[r] # "buy"
    /\ mine[r] \in Issued
    /\ today' = [today EXCEPT ![r] = now]
    /\ Goto(r, "fetch")
    /\ UNCHANGED <<rows, now, kind, mine, copy, receipt>>

\* SELECT ... FOR UPDATE, then the refresh inside the same transaction; a card
\* that is not redeemable fails the checkout, and the refresh is rolled back.
FetchToPay(r) ==
    LET g == card[mine[r]]
        refreshed == [g EXCEPT !.status = Refreshed(g, today[r])]
    IN  /\ pc[r] = "fetch"
        /\ kind[r] = "pay"
        /\ holder[mine[r]] = NoRequest
        /\ copy' = [copy EXCEPT ![r] = refreshed]
        /\ IF Redeemable(refreshed)
           THEN Goto(r, "pay") /\ holder' = [holder EXCEPT ![mine[r]] = r]
           ELSE Goto(r, "done") /\ UNCHANGED holder
        /\ UNCHANGED <<card, ledger, mails, now, kind, mine, today, receipt>>

\* Seeded fault: a path that does not end the database transaction.
Released_Kept(r) == holder

Released(r) == [c \in Cards |-> IF holder[c] = r THEN NoRequest ELSE holder[c]]

Applied(g, due) == Min(g.remaining, due)

\* The checkout commits: balance, status and REDEEM entry together.
Pay(r) ==
    /\ pc[r] = "pay"
    /\ \E due \in Dues :
         LET applied == Applied(copy[r], due)
             after == Max(copy[r].remaining - applied, 0)
         IN  /\ card' = [card EXCEPT
                  ![mine[r]].remaining = after,
                  ![mine[r]].status = IF after <= 0 THEN "exhausted" ELSE "active"]
             /\ ledger' = [ledger EXCEPT ![mine[r]] = @ - applied]
    /\ holder' = Released(r)
    /\ Goto(r, "done")
    /\ UNCHANGED <<mails, now, local>>

\* The list and the preview read the row as it is committed.
Fetch(r) ==
    /\ pc[r] = "fetch"
    /\ kind[r] \in {"list", "preview"}
    /\ copy' = [copy EXCEPT ![r] = card[mine[r]]]
    /\ Goto(r, "judge")
    /\ UNCHANGED <<rows, now, kind, mine, today, receipt>>

\* The list takes a fresh `now` for every card, the preview its first one.
Judge(r) ==
    LET day == IF kind[r] = "list" THEN now ELSE today[r]
        status == Refreshed(copy[r], day)
    IN  /\ pc[r] = "judge"
        /\ copy' = [copy EXCEPT ![r].status = status]
        /\ Goto(r, IF status = copy[r].status THEN "done" ELSE "save")
        /\ UNCHANGED <<rows, now, kind, mine, today, receipt>>

\* UPDATE of the status alone; it waits for a checkout that holds the row.
Save(r) ==
    /\ pc[r] = "save"
    /\ holder[mine[r]] = NoRequest
    /\ card' = [card EXCEPT ![mine[r]].status = copy[r].status]
    /\ Goto(r, "done")
    /\ UNCHANGED <<ledger, mails, holder, now, local>>

-----------------------------------------------------------------------------
\* The environment.

\* A worker dies, or a checkout that holds the card is refused for another
\* reason: the lock is freed and what was not committed is lost.
Die(r) ==
    /\ pc[r] \notin {"start", "done"}
    /\ holder' = Released(r)
    /\ Goto(r, "done")
    /\ UNCHANGED <<card, ledger, mails, now, local>>

\* Staff set the status in the Django admin.
Refund(c) ==
    /\ Refunds
    /\ c \in Issued
    /\ holder[c] = NoRequest
    /\ card' = [card EXCEPT ![c].status = "refunded"]
    /\ UNCHANGED <<ledger, mails, holder, now, pc, local>>

NextDay ==
    /\ now < LastDay
    /\ now' = now + 1
    /\ UNCHANGED <<rows, pc, local>>

Work(r) ==
    \/ Mail(r) \/ Stamp(r) \/ StoreReceipt(r)
    \/ FetchToPay(r) \/ Pay(r) \/ Fetch(r) \/ Judge(r) \/ Save(r)

Next ==
    \/ \E r \in Requests :
          Issue(r) \/ BuyFails(r) \/ Begin(r) \/ Work(r) \/ Die(r)
    \/ \E c \in Cards : Refund(c)
    \/ NextDay

Spec == Init /\ [][Next]_vars
FairSpec == Spec /\ \A r \in Requests : WF_vars(Work(r))

-----------------------------------------------------------------------------
\* Properties.

\* Types of all variables (gift_cards/models.py).
TypeOK ==
    /\ card \in [Cards -> CardRow]
    /\ ledger \in [Cards -> Nat]
    /\ mails \in [Cards -> Nat]
    /\ holder \in [Cards -> Requests \cup {NoRequest}]
    /\ now \in 0..LastDay
    /\ kind \in [Requests -> Kinds]
    /\ pc \in [Requests -> Labels]
    /\ mine \in [Requests -> Cards]
    /\ copy \in [Requests -> CardRow]
    /\ today \in [Requests -> Nat]
    /\ receipt \in [Requests -> {"none", "unsent", "sent"}]

\* remaining_amount is what the ledger entries of the card add up to, and lies
\* between zero and the amount paid for it: no two checkouts spend the same
\* money, and no unlocked save brings spent money back.
CardIsJournal ==
    \A c \in Cards :
        /\ card[c].remaining = ledger[c]
        /\ card[c].remaining \in 0..Amount

\* Stale status writes never hide money: a card is only called exhausted when
\* it is empty and expired when its day has come.  (The converse fails: of
\* three requests that straddle the expiry, a preview can leave an empty card
\* marked active until somebody looks at it again.)
MoneyIsNotHidden ==
    \A c \in Cards :
        /\ card[c].status = "exhausted" => card[c].remaining = 0
        /\ card[c].status = "expired" => card[c].expires <= now

\* A code is e-mailed at most once, only for a card that exists, and neither
\* the card nor the stored receipt claims an e-mail that was not sent.
MailIsBacked ==
    /\ \A c \in Cards :
          /\ mails[c] <= 1
          /\ mails[c] = 1 => c \in Issued
          /\ card[c].sent => mails[c] = 1
    /\ \A r \in Requests : receipt[r] = "sent" => mails[mine[r]] = 1

\* Money is only taken off a card by a checkout that arrived before the card
\* expired, however long the checkout waited for the row.
SpentInTime ==
    [][\A c \in Cards :
         c \in Issued /\ card'[c].remaining < card[c].remaining
         => \E r \in Requests :
               /\ kind[r] = "pay" /\ mine[r] = c
               /\ pc[r] = "pay" /\ pc'[r] = "done"
               /\ today[r] < card[c].expires]_vars

\* Whoever waits for the row of a card gets it: every request comes to an end.
EveryRequestEnds ==
    \A r \in Requests : pc[r] \in Labels \ {"start", "done"} ~> pc[r] = "done"

\* The checks for REFUNDED in services.py and checkout_app/views.py mean that
\* a refunded card is refused until staff change it back.
RefundedIsNotSpent ==
    [][\A c \in Cards :
         card[c].status = "refunded" => card'[c].remaining = card[c].remaining]_vars

\* The detailed system keeps the promises of GiftWallet: statuses, stale saves,
\* waiting and crashes are not to be seen in them.
Left == [c \in Cards |-> card[c].remaining]
Until == [c \in Cards |-> card[c].expires]
Mailed == {c \in Cards : mails[c] > 0}
OpenOrders ==
    {o \in Requests \X Cards :
        /\ kind[o[1]] = "pay" /\ mine[o[1]] = o[2]
        /\ pc[o[1]] \in {"fetch", "pay"}
        /\ today[o[1]] < card[o[2]].expires}
Placed == {r \in Requests : kind[r] = "pay" /\ pc[r] # "start"}

Wallet == INSTANCE GiftWallet WITH
    Orders <- Requests, day <- now, issued <- Issued, money <- Left, until <- Until,
    mailed <- Mailed, open <- OpenOrders, placed <- Placed

WalletSpec == Wallet!Spec
=============================================================================
