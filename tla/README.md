# Formal models of the loyalty platform backend

TLA+ modules that model the parts of `src/backend` where several requests, rows
and ledgers have to agree, TLC configurations that check them on small instances,
and TLAPS proofs of the main safety properties for every instance. All paths
below are relative to `src/backend` unless they begin with `src/`.

The program is a Django 5 / DRF application on PostgreSQL (default isolation,
READ COMMITTED, no `ATOMIC_REQUESTS`). There is no queue and no scheduler: all
concurrency is between HTTP requests, each served by one worker, and all shared
state is in database rows.

## The system

| part | state | operations | talks to |
|---|---|---|---|
| Checkout (`checkout_app`) | `Transaction`, items, stored receipt (`pricing_meta`) | `POST /checkout`, preview, last | every other part, in one database transaction |
| Points ledger (`loyalty`) | `LoyaltyAccount.points_balance`, `LoyaltyLedgerEntry` | redeem, history; written by checkout, offers, roadmap, profile | - |
| Gift cards (`gift_cards`) | `GiftCard`, `GiftCardLedgerEntry` | purchase (with e-mail), list sent/received, redeem in checkout | Transaction, mail server |
| Offers (`offers`) | `OfferAssignment`, `OfferEvent` | assign next offer, expire, supersede, redeem, click | checkout, roadmap |
| Campaign budgets (`offers`) | `CampaignBudget.weekly_spent`, `week_start_date`, `weekly_limit` | spent by checkouts (public) and assignments (personal), refunded, reset, patched by staff | checkout, offers |
| Pricing (`checkout_app/pricing.py`, `loyalty/points.py`) | none | the receipt arithmetic | - |
| Roadmap (`roadmap_app`) | `RoadmapPlan`, `RoadmapStep` | refresh, patch step, update from purchase, step bonus | points ledger, offers |
| Profile (`users_app`) | `CustomerProfile` | profile update, completion bonus | points ledger |
| Cart, wishlist, owned products (`transactions`) | `CartItem`, `OwnedProduct` | add, patch, delete; decremented by checkout | checkout |
| Accounts (`backend/auth_views.py`) | `User`, the verification columns of `CustomerProfile` | register, verify, resend, reset the password | mail server, profile |
| Recommendation events (`recs_analytics`) | `RecommendationEvent` | exposure, click, attribute a purchase | checkout, offers |
| Catalog, recommenders, routines, analytics, audit, admin tools, ML training | products, reports, artifacts | mostly reads and batch jobs | - |

What is hard here:

* **Lost updates.** Balances, budgets, quantities and statuses are read into a
  Python object and saved as absolute values. That is right only under a row lock
  taken before the read. The points account, the gift card and the personal
  campaigns are locked; the campaign a client names by offer id, the offer list
  views, the profile, the roadmap steps and the cart of a customer who shops are not.
* **Idempotency keys.** A check before the transaction, a unique index inside it,
  and an error path for the race between the two.
* **One-off bonuses** are guarded by "does an entry with this reference exist", a
  check and an insert that only the account lock makes atomic.
* **Lock order.** Checkout, offer redemption and offer assignment take account,
  assignment, campaign and product rows in different orders; two checkouts take
  products, and two refunds campaigns, in opposite orders.
* **Uniqueness without an index.** One active plan, one account per e-mail and one
  bonus per step are kept by queries that come before the write.
* **Swallowed errors.** The roadmap update and purchase attribution may fail
  without failing the purchase.
* **Time.** Cards, offers and budgets expire or reset when somebody happens to look
  at them, not when the time comes.

What makes each part correct:

* *Checkout and ledger*: the cached balance is the sum of the journal and never
  negative; a one-off bonus is credited once; a key buys one thing; every answer
  names committed work; every receipt states the balance that was committed.
* *Gift cards*: the remaining amount is the sum of the card's entries; nobody
  loses money to a wrong status; a code is mailed once and only if it exists;
  nothing is spent after the expiry or after a refund.
* *Pricing*: what is taken off and what is paid add up; nothing is taken that the
  customer did not have; points earned are capped; the stored total is the final one.
* *Campaign budgets*: weekly spending stays within the limit and is all counted.
* *Offers*: one current offer; what is closed stays closed; one benefit per
  assignment, in time; the event log tells what happened; frequency is capped.
* *Roadmap*: one active plan; a replaced plan stays closed; a step row is paid once,
  and only if it was done; a new cycle is not closed for what was owned before it.
* *Cart and owned products*: what is bought leaves the cart and is owned, in one
  step; what is deleted stays deleted.
* *Accounts and profile*: one account per e-mail; a verified address stays verified;
  one mail per cooldown; a reset link works once; the profile bonus is paid once.

## The modules

`M.tla` is a component, `MCM.tla` gives its constants values for TLC,
`MProofs.tla` holds its theorems. In every component model an HTTP request `r` is
an actor: `kind[r]` (or `req[r]`) is what it is, `pc[r]` is where its worker
stands, its other variables are the Python objects in its memory. A step is a
stretch of code between two points at which another request can get in between: a
row lock it may wait for, a query whose result is used later, a commit. What a
transaction writes appears in the shared variables at its commit; until then a row
lock keeps others away, or, where the code takes none, nothing does. `Die` (or
`Abort`) lets a worker end at every such point, with a rollback.

### LoyaltyLedger, Checkout

`LoyaltyLedger` is the abstract promise: points per user, keys paid, bonuses
credited, and postings that happen at once. `Checkout` is the code: the
requests that move points (`checkout_app/views.py:823-1351`,
`gift_cards/views.py`, `loyalty/views.py`, `offers/views.py`,
`roadmap_app/step_bonus.py`, `users_app/services.py`).

* `Start` is the idempotency check before the transaction; `LockAccount` the
  `select_for_update` on the account, after which the worker computes on `seen`;
  `Insert` and `InsertDuplicate` the INSERT under the unique index, which waits for
  an uncommitted row with the same key; `Commit...` everything from there to COMMIT.
* `balance` is the column and `journal` the sum of the entries. `Commit` writes
  `balance` as `seen + delta`, an absolute value as in the code, and adds `delta`
  to `journal`: they part as soon as something moves in between.
* Prices, carts, gift cards and offers are reduced to the points they redeem and
  earn; the bonuses of the roadmap update are any set of references that no entry
  carries, and the update may raise after it has credited them.
* The body of a manual redemption carries a free-text `reference`
  (`loyalty/views.py:110-114`), which may be that of a bonus. The search before a
  bonus looks for *any* entry with the reference, whatever its type
  (`roadmap_app/step_bonus.py:74`, `users_app/services.py:135`): `named` are the
  references that redemptions carry, and `Uncredited` leaves them out. Such a
  redemption keeps the bonus from ever being paid; the properties of the account
  hold all the same, for only less is credited.

Properties: `AccountIsRight` (`BalanceIsJournal`, `NeverOverdrawn`, `BonusOnce`),
`AnswersAreRight` (`OneTransactionPerKey`, `AnswersAreBacked`), `ReceiptAddsUp`,
`LedgerSpec` (every step is one of `LoyaltyLedger` or invisible to it),
`EveryRequestEnds`; proved only: `NothingIsTakenBack` and `WaitsAreShort`; refuted:
`RetryIsReplayed`.

### GiftWallet, GiftCards

`GiftWallet` is the abstract promise: a card is sold once and mailed at most once; an
order placed before its day may take money off its own card, once and no more than
there is; nothing else moves the money. `GiftCards` is the code. `WalletSpec` says
that each of its steps is one of the wallet's or invisible to it: `money` is the
column `remaining`, an `open` order is a checkout that began in time and has neither
paid nor ended, and the four statuses do not appear at all.

`Issue`, `Mail`, `Stamp` and `StoreReceipt` are a purchase and what follows its
commit (`gift_cards/views.py:60-170`); `FetchToPay` and `Pay` a checkout's use of
the card under its lock (`checkout_app/views.py:103-130`, `1111-1136`); `Fetch`,
`Judge` and `Save` the recipient's list and the preview, which refresh a status from
an unlocked copy (`gift_cards/services.py:76-93`); the list of sent cards only reads. `Refund` is the status staff set in
the Django admin. `card.remaining` is the column, `ledger` the sum of the card's
entries; `today[r]` is the `now` a handler took when it began. Properties:
`CardIsJournal`, `MoneyIsNotHidden`, `MailIsBacked`, `SpentInTime`, `WalletSpec`,
`EveryRequestEnds`; refuted: `RefundedIsNotSpent`.

The converse of `MoneyIsNotHidden` is false and not claimed: of three requests
that straddle the expiry, a preview can leave an empty card marked active until
somebody looks again. It does no harm, because an empty card cannot be spent.

### Pricing

The pure functions of `checkout_app/pricing.py` and `loyalty/points.py` as
operators on integers (money in hundredths; `OfferKinds` are the kinds of offers,
and the module's `PricingInit`, `PricingNext` and so on carry its name because
MoneyProofs extends it together with PublicBudget), and the two pricings of a checkout,
before and after the tier is recalculated, as its steps. A share of an amount is a
28-digit Decimal quotient rounded to cents: the model allows either neighbour when
it is exactly half way. Two things the models made plain: `EffectiveRate` is 1 %
whatever `Tier.points_rate` says (`RateIsOnePercent`), and a multiplier offer for
a part of the cart may earn fewer points than none, since each part is rounded by
itself.

### PublicBudget

`weekly_spent` and `week_start_date` of public campaigns. A checkout that lets the
program choose (`auto`) locks all campaigns, then reads and resets them
(`ReadAll`); one that names an offer (`by_id`) reads its campaign without a lock
(`ReadOne`), resets a stale row by an UPDATE that does wait for it (`Reset`), and at
its end writes week and spending over whatever the row holds (`Spend`).
`Patch` is the administrator, who sets `weekly_limit` and may reset the week
(`offers/views_admin_campaigns.py:166-186`), in between. The limit is read with the
row and not saved by a checkout. `granted` is what the committed receipts gave in
each week, and `limits` which limits a campaign has had: a row may be above the limit
of today because the one of yesterday was higher, so that `RowIsRight` compares with
those (`Limited`). Campaigns without a limit are never reset and count on. A patch of
`is_active` or `campaign_type` is not modelled.

### OfferLifecycle

The assignments of one user: no request reads or locks the assignments of another.
What users do share is the row of the Offer that an assignment is an instance of:
`select_for_update().select_related("offer")` without `of=` locks it with the
assignment (`offers/services.py:1527-1529`, `offers/views.py:380-382`), and the INSERT
of an assignment or an event, whose foreign key refers to it, waits (`Locks`,
`Shares`, `MayLock`, `MayRefer`). Two assignments of one user may be of one offer,
so that these waits occur here; with two requests of one user none of them alone
closes a circle. The circles over Offer rows, which requests of several users close,
are in PersonalBudget's run. Checkouts say `of=("self",)` and lock the assignment only.

`next`, `buy` and `auto` requests run
`get_or_assign_next_offer` (`offers/services.py:1444-1640`): `Query` (snapshot),
`Take` (FOR UPDATE of the newest, evaluated again after the wait) and `TakeOffer`,
`Judge` (`expire_assignment_if_needed` and the special campaigns), `Pick`
(`_select_offer`), and `CommitOld` or `CommitNew`, which waits for the Offer it
refers to. `buy` and `auto` first lock the loyalty account (`Pay`) and then the
assignments they apply. `redeem` locks the assignment first (`RedeemLock`), then the
Offer (`RedeemTake`), the account last (`RedeemCommit`; the purchase it names is
locked just before, which only redemptions do): the deadlocks this makes possible are
there (`Deadlocked`) and are resolved as PostgreSQL does it (`Victim`). `click` and `look` (list, detail, preview and the
`cleanup_offers` command) judge an unlocked copy and then write single autocommitted
statements: `Close`, `RecordExpired`, `Click`, `Expose`. A list is as many
independent looks. The INSERT of an event waits for a locked assignment, too, because
its foreign key needs a share lock.

Which offer wins the selection is left open beyond the conditions in `Eligible`;
what the roadmap and the favourite category say is left open, too. `Init` may hold
one open offer that an earlier request has made.

An assignment may have both an `expired` and a `redeemed` event: an onboarding or
winback offer whose purchase came too late is closed as expired and, by the same
request, marked as redeemed. `EventsTellTheTruth` allows that and nothing else.

### PersonalBudget

The budgets of personal campaigns in the same `get_or_assign_next_offer`, now over
several users and campaigns, with the offers reduced to campaign and cost.
`Find` and `Await` are the locking query for the open offer: a snapshot, a wait for
the row and for the Offer row that it is an instance of (`Instance`, `Lockers`), and
a second look at it (`offers/services.py:1526-1532`). `Close` and
`Supersede` decide what becomes of it; `Lock` is the one statement that locks all
candidate campaigns (`:935-951`), without ORDER BY: the rows come in any order
(`Scans`) and are locked one by one (`Acquire`), so that a request may hold some of
them while it waits for another; `Choose` resets the weeks it passes and picks the
first offer that fits (`:953-1023`); `Refund` lowers the campaign of the superseded
offer, on a second Python object (`:1471-1497`); `Spend` saves the first object over
it (`:1626-1660`). `Patch` is the administrator
(`offers/views_admin_campaigns.py:166-186`). `row` is what is committed, `copy` what
the transaction has written; `live` and `given` are histories: what the open offers
of a campaign cost, and what was assigned in each week. Two requests may each need a
campaign that the other one holds, or the Offer row of the other one's open offer for
the new assignment (`Spend`): `InDeadlock` and `Abort`. Bounds: a campaign has one
Offer row of each cost, and an offer's cost does not change while it is open, whereas
a refund takes the cost the Offer row has by then (`:1479-1488`): an administrator
who edits `estimated_cost` in between makes the refund differ from what was spent.

What is *not* true, and therefore not claimed: a refund of last week's cost lowers
the spending of this week; a refund into the campaign the new offer comes from is
lost, because the object picked first is saved last; a request whose `now` is of the
old week resets a row back to it. All three make a row count less or more than it
should, never more than was assigned, and never above the limit: that is what
`NoPhantomSpending` and `WithinLimit` say. `OpenOffersArePaid` is stated for one week
without an administrator's reset for the same reason.

### RoadmapPlan

The plans of one user in one category (`roadmap_app/services.py:2034-2080`,
`2090-2306`, `2621-2677`, `2870-2960`). `Look`, `Own`, `Find` are what `refresh_roadmap` reads
without a lock; `Write` is `_upsert_plan_with_steps`, which locks the active plans
that its snapshot found, looks at each again, keeps one, closes the others or makes a
new one, and writes the steps by position; `List` and `Award` are the step bonuses
afterwards, one by one. A purchase (`Pay`, `Lock`, `Commit`) does all of it in the
transaction of the checkout, under the account lock, and survives its failure
(`CommitAlone`). `Read`, `Mark`, `Bonus`, `NextOpen`, `Choose`, `Select`, `Delete`
and `Meta` are the autocommitted statements of a status patch; `delete()` is two of
them, because events refer to steps: it reads the ids of the open steps (`Select`)
and deletes the rows that have them (`Delete`), also those that have been completed in
between. `Redeem` is a redemption of points under the reference of a step
(`References`), which may come before the step exists (`loyalty/views.py:99-116`):
`Credited` pays nothing then (`roadmap_app/step_bonus.py:74`). A step row is named by plan, position and
`life`, which counts the rows a position has had, as its id would. The ranking models
that could reorder the steps are off in the settings and left out.

Properties: `CreditsArePostings`, `DoneStepsArePaid`, `CycleIsHonoured`,
`ClosedPlansStayClosed`, `OnePlanStays`, `EveryRequestEnds`; proved only:
`CreditsAreEarned`. `CreditsArePostings` is what Checkout takes for
granted when it lets the roadmap credit "any set of references that no entry
carries": a bonus is paid that was never paid before, for a step that is done and
whose reference no redemption carries, and never between another checkout's reading
of the balance and its commit. `DoneStepsArePaid` has the redemption as an exception,
because in the code such a step is done and never paid. A step bonus of a refresh
or a patch waits for the account (`AccountFree`, `roadmap_app/step_bonus.py:72`).

What is *not* true, and therefore not claimed: the bonus belongs to the row, not to
what it asks for, so a position that is deleted and made again is paid again, and a
row that is reused for another product type is not; two first refreshes together, or
a refresh and a new cycle together, leave two active plans until the next refresh
(`OnePlanStays` starts from one plan and excludes new cycles); a refresh that looked
before a new cycle began may overwrite the flag of that cycle, and with it what
`roadmap_app/tests.py:3632` promises of purchases in it; a refresh may reopen a step
that was bought after it had looked; a patch may delete a step that was completed
after `delete()` had read its id.

Not modelled are the row locks of single steps: a refresh takes them one by one
(`roadmap_app/services.py:2066-2074`), the deletion of a patch several at once
(`:2921-2943`), and a status patch waits for one. A refresh or a purchase and a patch
may wait for each other in a circle; PostgreSQL ends it by failing one of them, which
for the model is a `Die`. So no theorem says that requests of the roadmap never wait
in a circle.

### Shopping

Cart lines and owned products of several customers (`transactions/views.py`), and
the part of a checkout that touches them (`checkout_app/views.py:847-910`,
`1298-1316`). `Look`/`InsertLine`/`Sum` are the add, `Get`/`SetQuantity`/`Delete` the
patch of a line, `CopyOwned`/`StoreOwned` the patch of an owned product, which saves
all its columns. `TakeItem` locks the product of one item and writes the owned row,
item by item in the order of the request; `LockCart` locks the lines of what was
bought, `Commit` lowers or deletes them. A basket may list one product twice: when
the first item has used the line up, the second one trips over the deleted object
(`Trips`), and the purchase fails. Two baskets may be in opposite orders
(`InDeadlock`, `Abort`). `bought` is the sum of all TransactionItem rows.

What is *not* true, and therefore not claimed: two adds may count as one, and an add
that read before a checkout puts back what was bought; a patched owned product may
lose what a checkout has added, so that `OwnedIsBacked` is an inequality as soon as
there are such patches (`admin_tools/product_system_audit.py:251` expects equality).

### Accounts

Users and the columns of their profile that several handlers write
(`backend/auth_views.py`, `auth_email.py`, `email_verification_middleware.py`,
`users_app/views.py`, `users_app/services.py`). `BuildName`, `CheckName`,
`CheckEmail` and `Insert` are a registration: only usernames are unique in the
database, and without regard to letter case only in the query. `SendMail` and `Stamp`
are a verification mail and the time saved after it; `ResolveToken`, `ReadVerified`
and `Mark` a verification; `Look` and `Wait` a resend; `Forgot`, `ResolveLink` and
`SetPassword` a password reset; `Gate`, `Copy`, `Save`, `Complete` and `Award` a
profile PUT with its bonus. `Redeem` is a redemption of points under the reference of
the bonus, by a client: `Award` then sets the flag without paying
(`users_app/services.py:135-138`), which is the exception in `BonusIsBacked`.
`before[r]` is the set of requests that had ended when
`r` began: the cooldown and the single use of a link are promises to requests that
follow one another, and overlapping ones do break both.

That e-mails stay unique (`EmailsStayUnique`) hangs on a thread: registrations that
pass the e-mail check together have made up the same username before it. With a
username of the client's choice two accounts can share an address.

## What the runs show

| run | instance | shows |
|---|---|---|
| `checkout` | 3 requests of 6 bodies, 2 users, 1 key, 1 bonus | all properties of Checkout, with liveness and the refinement of LoyaltyLedger |
| `checkout_retry` | 2 requests | `RetryIsReplayed` fails |
| `gift_cards` | 3 requests of any kind, 1 card, 3 days, with refunds | all properties of GiftCards, with liveness and the refinement of GiftWallet |
| `gift_cards_refund` | the same | `RefundedIsNotSpent` fails |
| `pricing` | carts, offers, cards, rates at the edges of the roundings | all properties of Pricing |
| `budget` | 3 checkouts or patches, a campaign with and one without limit at first, 2 weeks | `RowIsRight` (within the limits, no phantom spending), `AutomaticKeepsTheLimit` |
| `personal_budget` | 2 requests, 2 campaigns, 2 users, 2 limits, 2 costs, 2 weeks | `WithinLimit`, `NoPhantomSpending`, `OpenOffersArePaid`, with liveness through deadlocks over campaigns and Offer rows |
| `offers` | 2 requests of any kind, 3 offers, 3 assignments, 3 days | all properties of OfferLifecycle, with liveness through deadlocks |
| `offers_one_current` | 2 requests for the next offer | `OneCurrentOffer` fails |
| `roadmap` | 2 requests of any kind, plans of one or two steps, 3 plans, 2 rows per position, redemptions under 2 references | all properties of RoadmapPlan, with liveness |
| `shopping` | 3 requests of any kind, 2 customers, 2 products, 4 baskets | all properties of Shopping, with liveness through deadlocks |
| `accounts` | 3 requests of any kind, 2 addresses with one local part, 3 users, times 0 to 2, a redemption per user | all properties of Accounts |

**Why the bounds are enough.** A race in this code takes two requests: a reader and
a writer of the same row. A third one lets something happen between the two and to
what they leave behind, such as the holder of a lock, the request that waits for it
and the one that dies. `checkout` has two users so that a shared key and separate
accounts are both there; more users do not interact. One card suffices because no
request touches two. Dates need one day before an expiry, one at it and one after.
The limit of 3 with discounts of 1 and 2 lets one, two or no discount fit.
`offers` has two requests and three rows, so that an old assignment can be judged
while a newer one replaces it; its inductive invariant was checked with three
requests before it was proved, and the proofs cover any number. In `pricing` the
amounts lie at, just below and just above what rounds to a cent or a point.
`personal_budget` has two campaigns and two users because a deadlock of refunds
takes both; its costs and limits let one or two offers fit. `roadmap` has a base step
and an optional one, and two rows for every position, so that it is filled, emptied and
filled again; `References` are the rows of the first plan, which redemptions may name
before or after they are made; two requests already give all the races listed above, and the proofs
cover any number. `shopping` has
baskets in both orders and one that lists a product twice; a line begins with a
quantity that one item leaves over and two use up. In `accounts` the cooldown is
longer than the life of a token, so that a mail can be too old and still too recent;
requests are interchangeable there, which its symmetry uses. The inductive
invariants of `Shopping`, `Accounts` and `PersonalBudget` cover any number.

**Deadlock.** Checkout checks for it (`Finished` is the only end). The other
configurations say `CHECK_DEADLOCK FALSE`: there all requests may have ended on the
last day, a card may never have been issued, a plan may never have been made, an
account that a request needs may not exist, and a `Pricing` order is priced once.
That no request waits forever is what `EveryRequestEnds` says instead.

**Fairness.** `WF_vars(Work(r))` for each request: a worker that can take its next
step eventually does. It is justified because a request is a plain function call
in a process of its own, PostgreSQL grants a row lock to a waiter when its holder
ends, and it ends deadlocks by itself (`Abort`, `Victim`). `accounts` takes no lock
for longer than a statement, so that nobody waits, and states no fairness. Nothing is assumed about clients (`Start`,
`Begin`), deaths, refunds or the calendar, and a repeatedly taken lock is not
assumed to be granted (that would be strong fairness): it is not needed, because
each request runs once.

**Violations.** Three runs check a statement of the repository that the code does
not keep; "findings" in `PROJECT.json` quotes it.

1. The loser of two concurrent requests with one key gets a server error, neither
   replay nor conflict: the handler queries inside the transaction that the failed
   INSERT has broken (`checkout_app/views.py:860`, also `gift_cards/views.py:93`).
   Nothing is charged twice; a later retry is replayed.
2. A refunded gift card is refreshed to active and can be spent
   (`gift_cards/services.py:86`).
3. Two concurrent requests for the next offer both create one (`offers/services.py:1526`).

Other statements that the models contradict have no run of their own, for each would
need one just for itself:

* "Full checkout preview ... (no DB writes)" (`checkout_app/views.py:1390`): a preview
  saves a changed card status (`Fetch`, `Judge` and `Save` of GiftCards).
* "Raises ValidationError if ... over budget" (`checkout_app/views.py:754-755`):
  checkouts that name an offer by id read its budget without a lock; together they
  pass `weekly_limit`, and a part of the spending is lost (`ReadOne` and `Spend` of
  PublicBudget).
* "do not assign more often than every N days" (`offers/models.py:36`): the cooldown
  counts redeemed assignments only (`Eligible` of OfferLifecycle).
* `owned_products_match_transaction_history_semantics`
  (`admin_tools/product_system_audit.py:251`): see Shopping.
* `test_new_roadmap_cycle_purchase_does_not_reclose_old_owned_steps`
  (`roadmap_app/tests.py:3632`), when a refresh overlaps the new cycle: see RoadmapPlan.

* "When a step transitions to a "done" state ... we award those points"
  (`roadmap_app/step_bonus.py:4-7`), unless points were redeemed under its reference
  before, and never after that (`Redeem` and `Credited` of RoadmapPlan); likewise for
  the completion of the profile (`Redeem` and `Award` of Accounts).

Short of findings, the models show that a weekly budget also forgets spending when
a checkout whose `now` is of the old week gets the row after one of the new week: it
resets the row back. `AutomaticKeepsTheLimit` is therefore stated for one week.

## What is proved

For every value of the constants, from the named assumptions about them
(`CheckoutAssumption`, `GiftCardAssumption`, `PricingAssumption`,
`BudgetAssumption`, `OfferAssumption`, `ShoppingAssumption`, `AccountsAssumption`,
`PersonalBudgetAssumption`, `RoadmapAssumption`: types, nonempty sets and amounts, a null value that is
no request). Each module proves an inductive invariant `IInv`: `Init => IInv`, one
lemma per action for the step, and the theorems as consequences. The type invariants
are proved (`TypeCorrect`, for Pricing `PricingTypeCorrect`) and are in no run. At
most eight modules hold theorems, so those of the two small components that compute
with money share one.

* **CheckoutProofs.** `BalanceIsJournal` is not inductive by itself: `LockInv` adds
  that a worker past `LockAccount` holds the lock and that the balance it remembers
  is the one in the row; `RowInv` ties `pc` to the row a request has inserted;
  `KeyInv` is the unique index, uncommitted rows included. From these follow
  `TypeCorrect`, `AccountSafety` (balance, overdraft, bonuses) and
  `AnswersSafety` (`KeySafety`, `AnswersBacked`). `Implements` is the refinement: every step of Checkout is a posting of
  LoyaltyLedger or changes nothing it sees; `CommittedIsKept` follows in the same way.
  `ReceiptIsRight`: only the commit of a checkout takes it to its reply
  (`OnlyCommitReplies`), and what that commit credits is the set it found uncredited.
  `NoCircle`: a second invariant, `HeldInv`, is the converse of `LockInv` (every lock
  belongs to a request that works under it); with it, whoever holds the account waits
  at most for a key, and the request with that key is a gift card purchase, for any
  other would hold the same account.
* **GiftCardsProofs.** `PayInv`: a checkout that holds a card remembers its true
  amount. `LookInv`: one that holds none may remember more money than there is left,
  never less, and never another expiry; that is why its status write hides nothing.
  `BuyInv`: one buyer per card, who mails it once. `Implements` is the refinement of
  GiftWallet: `PayInv` gives that the order of a payment is open, `PayEffect` what the
  payment takes, and `StatusUnseen` that every other write of a row, locked or not, is
  a stutter; `Lookers` adds that no checkout refreshes without the lock.
* **MoneyProofs**, on Pricing. Lemmas on rounding, `ShareFits` and `SplitExact` (a split loses
  and invents nothing) and the ranges of all amounts; then the invariant. On
  PublicBudget: `CopyInv`: what a checkout remembers was true once, hence
  `RowSafety`, in spite of the blind writes. For
  `AutomaticPickingKeepsTheLimit` a second invariant, `AutoInv`, says that a checkout
  that chooses holds all rows and remembers them as they are.
* **OfferLifecycleProofs.** `Views` and `Images`: what a request judges is open,
  locked by it, and its image has been judged right; `Applies`: the assignment a
  checkout uses is its own and still good; `Closes`: what is about to be closed as
  overdue is overdue, although it is looked at without a lock. `OthersKeep` shows
  once that a step of one request keeps the part of all others, from what it leaves
  alone (`Others`).
* **ShoppingProofs.** `LocksAreHeld`, `OneCheckout`: who has locked products is in the
  transaction of a checkout, one per customer. `TotalIsRow` and `SeenIsCart`: what it
  has written and locked is the committed row and what it gained, so that what it
  commits takes off exactly what it adds; `CopyIsBacked` keeps a stale owned row below
  what was bought.
* **AccountsProofs.** Four invariants on one of types. `VerifiedForGood` rests on the
  middleware: a request that has a copy of a profile got past `Gate`, so the copy is
  verified. `LinkInv` ties a link in use to the version of the password it was made
  for; `MailInv` says what a request knows about mails that had been saved when it
  began. `EmailInv` is the thread mentioned above: a request about to insert holds the
  lowest number that was free (`LowestIsHeld`), and if its address was registered
  meanwhile, that very username is taken (`TooLate`).
* **PersonalBudgetProofs.** `FitInv`: what a request copied of a row it holds is still
  true of it, and what it picked fits; `Frame` says once what a step leaves to the
  requests that did not take it. `HoldInv`: a request closes only the offer it has
  locked and looked at again, and nobody else holds it. `PaidInv`: within a quiet week
  the copy of each held row is the row, less the one refund, hence `OffersArePaid`.
* **RoadmapPlanProofs.** One invariant of shape, `BaseInv`, and one for each question
  on top of it. `BaseInv` has the types, what a worker remembers at each place of its
  code (`LocalInv`), that a position's rows are numbered by `life` (`Numbered`) and that
  plans are made in order (`MadeInOrder`). `CreditInv`: whatever is done, or
  noted down for payment, belongs to the history `done`, hence `CreditsEarned`.
  `PaidInv`: in a plan whose last payer did not die, each done row is paid or owed
  (`Owed`), unless a redemption carries its reference, by a request about to list it, about to pay it, or past the patch that has
  marked it; when nobody is at work nobody owes, hence `DoneStepsPaid`. `CycleInv`
  says of all plans what `CycleIsHonoured` says of the active ones; `OneInv`, that the
  plan a refresh has locked or is about to write is the one there is.
  `LockInv` (`Locks`, `InCheckout`): only a checkout holds plans, and it holds the
  account first; hence, with `CreditInv`, `PostsLikeTheLedger`.

Only model-checked: liveness (`EveryRequestEnds`), which needs fairness and is out of
the prover's reach, and the violations. For Checkout `WaitsAreShort` is proved:
no circle of requests closes that wait for accounts and keys, the locks of that module,
for any number of them, which is the part of its `EveryRequestEnds` that a proof can
reach. Circles over products, assignments, Offer rows and campaigns do close; they are
in the runs of the modules with those locks, up to the number of requests there.

## What is not modelled

* Login, tokens and their refresh, the wishlist and the fields of a profile: single
  statements that nothing else depends on. Recommendation events are append-only, and
  no decision reads them back.
* Roadmaps of categories without a rule chain (fragrance), and the models that reorder
  steps or rank products: the settings freeze them.
* Django admin forms may overwrite any column, such as `remaining_amount`; no
  invariant survives arbitrary edits. Only the refund status is modelled.
* Management commands and seeds run by hand on a quiet database. The exceptions are
  `cleanup_offers`, whose expiry is a `look`, and whose deletion of old history is
  left out. `admin_tools/product_system_audit.py` checks by query some of what is proved
  here, such as balance against journal.
* Recommenders, scoring, planner models and their training are pure functions of
  features; routines, catalog, analytics and the audit log have no invariant that
  several requests could break.
* Database failures other than the end of a connection; PostgreSQL's locks, its unique
  index and its foreign keys are taken to work as documented.

## Plan

Done, in this order: LoyaltyLedger and Checkout, GiftCards, Pricing, PublicBudget,
OfferLifecycle, RoadmapPlan, Accounts, Shopping, PersonalBudget, each with its runs
and proofs; then GiftWallet and the proof that GiftCards implements it.

1. **Composition** of Checkout with OfferLifecycle and GiftCards (one purchase, one
   benefit, one card): the points of one purchase that is redeemed against a second
   multiplier offer (`offers/views.py:403`) are the open question there.
2. **An abstract specification of OfferLifecycle** (an assignment is made, gives its
   benefit once or lapses), which would join `FinalIsFinal` and `BenefitIsEarned`.
3. **Circles of waiting** in Shopping, PersonalBudget and OfferLifecycle, where they are
   possible: that whoever waits in one is seen by `InDeadlock` or `Deadlocked`; and
   the row locks of single steps in RoadmapPlan.
