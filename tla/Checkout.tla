------------------------------ MODULE Checkout ------------------------------
(***************************************************************************)
(* The requests that move loyalty points, as concurrent workers over one   *)
(* PostgreSQL database (READ COMMITTED, row locks):                        *)
(*   checkout  POST /api/checkout              checkout_app/views.py       *)
(*   gift      POST /api/gift-cards/purchase   gift_cards/views.py         *)
(*   redeem    POST /api/loyalty/redeem        loyalty/views.py            *)
(*   offer     POST /api/offers/redeem         offers/views.py             *)
(*   bonus     roadmap step and profile bonus  step_bonus.py, services.py  *)
(*                                                                         *)
(* A request works on what it read when it locked the account row and      *)
(* writes back absolute values, so the journal and the cached balance stay *)
(* together only if nothing moves in between.  A database transaction's    *)
(* writes appear when it commits; an error or the death of the worker      *)
(* undoes them and frees its locks.  Prices, offers and gift-card amounts  *)
(* are abstracted to the points they redeem and earn.                      *)
(***************************************************************************)
EXTENDS Integers, FiniteSets

CONSTANTS
    Users, Keys, Bonuses, BonusPoints, Opening,   \* see LoyaltyLedger
    NoKey,        \* the body carries no idempotency_key (NULL in the row)
    Requests,     \* HTTP requests; a request's id also names the row it inserts
    NoRequest,    \* null value of Requests
    Pool,         \* the request bodies clients may send
    EarnAmounts   \* points a purchase or an offer may earn

Kinds == {"checkout", "gift", "redeem", "offer", "bonus"}

Body == [kind : Kinds, user : Users, key : Keys \cup {NoKey},
         points : Nat, bonus : Bonuses]

ASSUME CheckoutAssumption ==
    /\ IsFiniteSet(Bonuses)
    /\ BonusPoints \in Nat
    /\ Opening \in Nat
    /\ NoKey \notin Keys
    /\ NoRequest \notin Requests
    /\ Pool \subseteq Body
    /\ EarnAmounts \subseteq Nat

VARIABLES
    balance,    \* LoyaltyAccount.points_balance, committed
    journal,    \* sum of points_delta over the user's LoyaltyLedgerEntry rows
    credits,    \* number of EARN entries per bonus reference
    named,      \* the bonus references that redemptions carry
    row,        \* the Transaction row a request inserts: none, pending, committed
    lock,       \* who holds the LoyaltyAccount row lock
    req,        \* the body of each request
    pc,         \* where the worker of each request is
    seen,       \* account.points_balance as the worker read it
    receipt,    \* new_balance and roadmap_awarded_points of the stored payload
    answer      \* the HTTP answer, with the transaction it names

database == <<balance, journal, credits, named, row, lock>>
vars == <<database, req, pc, seen, receipt, answer>>

Account == [Users -> Int]
Statuses == {"none", "created", "replay", "conflict", "rejected", "error", "lost"}
Labels == {"idle", "account", "insert", "body", "reply", "done"}

Answer(status, t) == [status |-> status, txn |-> t]
Rows == {t \in Requests : row[t] = "committed"}
Keyed(r) == req[r].key # NoKey
SameKey(r, t) == req[t].user = req[r].user /\ req[t].key = req[r].key
\* Transaction.objects.filter(user=..., idempotency_key=...)
Previous(r) == {t \in Rows : SameKey(r, t)}

Init ==
    /\ balance = [u \in Users |-> Opening]
    /\ journal = [u \in Users |-> Opening]
    /\ credits = [u \in Users |-> [b \in Bonuses |-> 0]]
    /\ named = [u \in Users |-> {}]
    /\ row = [r \in Requests |-> "none"]
    /\ lock = [u \in Users |-> NoRequest]
    /\ req \in [Requests -> Pool]
    /\ pc = [r \in Requests |-> "idle"]
    /\ seen = [r \in Requests |-> 0]
    /\ receipt = [r \in Requests |-> [balance |-> 0, awarded |-> 0]]
    /\ answer = [r \in Requests |-> Answer("none", NoRequest)]

-----------------------------------------------------------------------------
\* Ending a request.

Goto(r, label) == pc' = [pc EXCEPT ![r] = label]

Reply(r, status, t) ==
    /\ Goto(r, "done")
    /\ answer' = [answer EXCEPT ![r] = Answer(status, t)]

\* Seeded fault: a path that forgets to end the database transaction.
Unlocked_Kept(r) == lock

Unlocked(r) == [u \in Users |-> IF lock[u] = r THEN NoRequest ELSE lock[u]]

RowUndone(r) == [row EXCEPT ![r] = IF row[r] = "pending" THEN "none" ELSE row[r]]

\* ROLLBACK: the row inserted is gone and the account lock is free.
Rollback(r) ==
    /\ row' = RowUndone(r)
    /\ lock' = Unlocked(r)
    /\ UNCHANGED <<balance, journal, credits, named>>

-----------------------------------------------------------------------------
\* The steps of a request.

\* Seeded fault: the type of the previous transaction is not looked at.
Verdict_AnyKind(r, t) == "replay"

\* A row of the same kind is replayed, a row of the other kind is a conflict.
Verdict(r, t) == IF req[t].kind = req[r].kind THEN "replay" ELSE "conflict"

\* The idempotency check, made before and outside the database transaction.
\* The points endpoints take no key.
Start(r) ==
    /\ pc[r] = "idle"
    /\ \/ /\ ~Keyed(r) \/ Previous(r) = {}
          /\ Goto(r, "account")
          /\ UNCHANGED answer
       \/ \E t \in Previous(r) :
             /\ Keyed(r)
             /\ Reply(r, Verdict(r, t), t)
    /\ UNCHANGED <<database, req, seen, receipt>>

\* Seeded fault: the account is read without FOR UPDATE.
AccountFree_NoWait(r) == TRUE

AccountFree(r) == lock[req[r].user] = NoRequest

AfterLock(r) == IF req[r].kind = "checkout" THEN "insert" ELSE "body"

\* select_for_update on the account, and the balance every later step uses.
LockAccount(r) ==
    /\ pc[r] = "account"
    /\ req[r].kind # "gift"
    /\ AccountFree(r)
    /\ lock' = [lock EXCEPT ![req[r].user] = r]
    /\ seen' = [seen EXCEPT ![r] = balance[req[r].user]]
    /\ Goto(r, AfterLock(r))
    /\ UNCHANGED <<balance, journal, credits, named, row, req, receipt, answer>>

\* A gift card purchase only looks at the account, without locking it.
ReadAccount(r) ==
    /\ pc[r] = "account"
    /\ req[r].kind = "gift"
    /\ seen' = [seen EXCEPT ![r] = balance[req[r].user]]
    /\ Goto(r, "insert")
    /\ UNCHANGED <<database, req, receipt, answer>>

\* Seeded fault: no unique constraint to wait on.
CanInsert_NoIndex(r) == pc[r] = "insert"

\* INSERT of the Transaction row.  The unique index makes it wait for an
\* uncommitted row with the same key.
CanInsert(r) ==
    /\ pc[r] = "insert"
    /\ ~\E t \in Requests : Keyed(r) /\ row[t] = "pending" /\ SameKey(r, t)

Insert(r) ==
    /\ CanInsert(r)
    /\ ~Keyed(r) \/ Previous(r) = {}
    /\ row' = [row EXCEPT ![r] = "pending"]
    /\ Goto(r, "body")
    /\ UNCHANGED <<balance, journal, credits, named, lock, req, seen, receipt, answer>>

\* IntegrityError.  The failed INSERT has marked the enclosing atomic block
\* for rollback, so the handler's query for the previous row raises in turn
\* and the request ends as a server error: no replay, no 409.
InsertDuplicate(r) ==
    /\ CanInsert(r)
    /\ Keyed(r) /\ Previous(r) # {}
    /\ Rollback(r)
    /\ Reply(r, "error", NoRequest)
    /\ UNCHANGED <<req, seen, receipt>>

\* Entries worth `delta` points and the bonuses B go into the journal and the
\* balance computed from `seen` is saved; COMMIT frees the lock.
Commit(r, delta, B) ==
    LET u == req[r].user
        total == delta + BonusPoints * Cardinality(B)
    IN  /\ pc[r] = "body"
        /\ balance' = [balance EXCEPT ![u] = seen[r] + total]
        /\ journal' = [journal EXCEPT ![u] = journal[u] + total]
        /\ credits' = [credits EXCEPT ![u] =
              [b \in Bonuses |-> credits[u][b] + (IF b \in B THEN 1 ELSE 0)]]
        /\ row' = [row EXCEPT ![r] =
              IF row[r] = "pending" THEN "committed" ELSE row[r]]
        /\ lock' = Unlocked(r)
        /\ Goto(r, "reply")
        /\ UNCHANGED <<req, seen, answer>>

\* Seeded fault: the ledger is not searched for the reference.
Uncredited_All(u) == Bonuses

\* exists(reference): the check before a bonus is credited, which finds entries of
\* every type.
Uncredited(u) == {b \in Bonuses \ named[u] : credits[u][b] = 0}

\* Seeded fault: the check for sufficient points is missing.
Affordable_Always(r) == TRUE

Affordable(r) == req[r].points <= seen[r]

\* Seeded fault: the account is not read again after the roadmap update.
NewBalance_Stale(saved, awarded) == saved

NewBalance(saved, awarded) == saved + awarded

\* The roadmap update credits the steps the purchase completed, then the
\* balance is read again for the receipt.  If the update raises after it has
\* credited some, the points stay but the receipt does not mention them.
CommitCheckout(r) ==
    /\ req[r].kind = "checkout"
    /\ Affordable(r)
    /\ \E redeemed \in 0..req[r].points, earned \in EarnAmounts,
          B \in SUBSET Uncredited(req[r].user), roadmapRaised \in BOOLEAN :
         LET awarded == IF roadmapRaised THEN 0 ELSE BonusPoints * Cardinality(B)
         IN  /\ Commit(r, earned - redeemed, B)
             /\ receipt' = [receipt EXCEPT ![r] =
                   [balance |-> NewBalance(seen[r] - redeemed + earned, awarded),
                    awarded |-> awarded]]
    /\ UNCHANGED named

CommitGift(r) ==
    /\ req[r].kind = "gift"
    /\ pc[r] = "body"
    /\ row' = [row EXCEPT ![r] = "committed"]
    /\ receipt' = [receipt EXCEPT ![r] = [balance |-> seen[r], awarded |-> 0]]
    /\ Goto(r, "reply")
    /\ UNCHANGED <<balance, journal, credits, named, lock, req, seen, answer>>

\* The client chooses the reference of the entry, perhaps that of a bonus.
CommitRedeem(r) ==
    /\ req[r].kind = "redeem"
    /\ Affordable(r)
    /\ Commit(r, -req[r].points, {})
    /\ \E B \in {{}, {req[r].bonus}} :
         named' = [named EXCEPT ![req[r].user] = named[req[r].user] \cup B]
    /\ receipt' = [receipt EXCEPT ![r] =
          [balance |-> seen[r] - req[r].points, awarded |-> 0]]

\* An offer is redeemed against a purchase the user has made.
CommitOffer(r) ==
    /\ req[r].kind = "offer"
    /\ \E t \in Rows : req[t].user = req[r].user
    /\ \E earned \in EarnAmounts :
         /\ Commit(r, earned, {})
         /\ receipt' = [receipt EXCEPT ![r] =
               [balance |-> seen[r] + earned, awarded |-> 0]]
    /\ UNCHANGED named

CommitBonus(r) ==
    /\ req[r].kind = "bonus"
    /\ req[r].bonus \in Uncredited(req[r].user)
    /\ Commit(r, 0, {req[r].bonus})
    /\ receipt' = [receipt EXCEPT ![r] =
          [balance |-> seen[r] + BonusPoints, awarded |-> BonusPoints]]
    /\ UNCHANGED named

\* What makes a request end with nothing posted: a checkout or an offer for
\* many reasons the model does not look into, a redemption only for want of
\* points, a bonus only because an entry with its reference is there.
Refused(r) ==
    \/ req[r].kind \in {"checkout", "offer"}
    \/ req[r].kind = "redeem" /\ ~Affordable(r)
    \/ req[r].kind = "bonus" /\ req[r].bonus \notin Uncredited(req[r].user)

Reject(r) ==
    /\ pc[r] = "body"
    /\ Refused(r)
    /\ Rollback(r)
    /\ Reply(r, "rejected", NoRequest)
    /\ UNCHANGED <<req, seen, receipt>>

Respond(r) ==
    /\ pc[r] = "reply"
    /\ Reply(r, "created", r)
    /\ UNCHANGED <<database, req, seen, receipt>>

\* The worker or its connection dies; what was committed stays, and the client
\* gets no answer.
Die(r) ==
    /\ pc[r] \in {"account", "insert", "body", "reply"}
    /\ Rollback(r)
    /\ Reply(r, "lost", NoRequest)
    /\ UNCHANGED <<req, seen, receipt>>

Work(r) ==
    \/ LockAccount(r) \/ ReadAccount(r)
    \/ Insert(r) \/ InsertDuplicate(r)
    \/ CommitCheckout(r) \/ CommitGift(r) \/ CommitRedeem(r)
    \/ CommitOffer(r) \/ CommitBonus(r)
    \/ Reject(r) \/ Respond(r)

\* Every request has been answered or lost.
Finished == (\A r \in Requests : pc[r] = "done") /\ UNCHANGED vars

Next == (\E r \in Requests : Start(r) \/ Work(r) \/ Die(r)) \/ Finished

Spec == Init /\ [][Next]_vars
FairSpec == Spec /\ \A r \in Requests : WF_vars(Work(r))

-----------------------------------------------------------------------------
\* Properties.

\* Types of all variables (loyalty/models.py, transactions/models.py).
TypeOK ==
    /\ balance \in Account
    /\ journal \in Account
    /\ credits \in [Users -> [Bonuses -> Nat]]
    /\ named \in [Users -> SUBSET Bonuses]
    /\ row \in [Requests -> {"none", "pending", "committed"}]
    /\ lock \in [Users -> Requests \cup {NoRequest}]
    /\ req \in [Requests -> Pool]
    /\ pc \in [Requests -> Labels]
    /\ seen \in [Requests -> Int]
    /\ receipt \in [Requests -> [balance : Int, awarded : Int]]
    /\ answer \in [Requests -> [status : Statuses,
                                txn : Requests \cup {NoRequest}]]

\* The cached points_balance is the sum of the journal, whatever the requests
\* of a user interleave and wherever one dies: no writer loses the update of
\* another by saving a balance it read earlier.
BalanceIsJournal == balance = journal

\* No sequence of concurrent redemptions and checkouts overdraws an account.
NeverOverdrawn == \A u \in Users : balance[u] >= 0

\* A bonus is credited once, although the check for it and the entry are two
\* statements and a checkout, a roadmap refresh and a step patch may all try.
BonusOnce == \A u \in Users, b \in Bonuses : credits[u][b] <= 1

\* The account as a whole.
AccountIsRight == BalanceIsJournal /\ NeverOverdrawn /\ BonusOnce

\* All the successful answers to one idempotency key of a user name the same
\* transaction: a retry, or a double click, is never charged again.
OneTransactionPerKey ==
    \A r, s \in Requests :
        /\ {answer[r].status, answer[s].status} \subseteq {"created", "replay"}
        /\ {req[r].kind, req[s].kind} \subseteq {"checkout", "gift"}
        /\ Keyed(r) /\ SameKey(r, s)
        => answer[r].txn = answer[s].txn

\* What is replayed, or reported as a conflict, is committed work of the same
\* user and key, of the same kind exactly when it is a replay.
AnswersAreBacked ==
    \A r \in Requests :
        answer[r].status \in {"created", "replay", "conflict"}
        /\ req[r].kind \in {"checkout", "gift"}
        => LET t == answer[r].txn
           IN  /\ t \in Rows
               /\ SameKey(r, t)
               /\ (answer[r].status # "conflict") = (req[t].kind = req[r].kind)

\* What a client that sends a key may rely on: a success is one transaction, and
\* every answer that names a transaction names committed work of that key.
AnswersAreRight == OneTransactionPerKey /\ AnswersAreBacked

\* The receipt of a checkout gives the committed balance, short of exactly the
\* bonus points it does not mention.
ReceiptAddsUp ==
    [][\A r \in Requests :
         req[r].kind = "checkout" /\ pc[r] = "body" /\ pc'[r] = "reply"
         => LET u == req[r].user
                credited == {b \in Bonuses : credits'[u][b] # credits[u][b]}
            IN  receipt'[r].balance
                  + (BonusPoints * Cardinality(credited) - receipt'[r].awarded)
                = balance'[u]]_vars

\* Committed transactions and credited bonuses are never taken back, and the
\* receipt a replay will show no longer changes.
NothingIsTakenBack ==
    [][/\ \A r \in Requests :
            row[r] = "committed" => row'[r] = "committed" /\ receipt'[r] = receipt[r]
       /\ \A u \in Users, b \in Bonuses : credits'[u][b] >= credits[u][b]]_vars

\* Every request that is being worked on is eventually answered, or lost with
\* its worker; waiting for the account row or for a key never lasts forever.
EveryRequestEnds ==
    \A r \in Requests : pc[r] = "account" ~> pc[r] = "done"

\* Whom a request waits for: the one that has locked its account, or one whose
\* uncommitted row has its key.
WaitsFor(r) ==
    {q \in Requests :
        \/ pc[r] = "account" /\ req[r].kind # "gift" /\ lock[req[r].user] = q
        \/ pc[r] = "insert" /\ Keyed(r) /\ row[q] = "pending" /\ SameKey(r, q)}

\* No circle of waiting requests closes although one may hold the account while it
\* waits for a key: the holder of the key then is a gift card purchase, which takes
\* no account and waits for nobody.
WaitsAreShort ==
    \A r \in Requests : \A q \in WaitsFor(r) :
        /\ pc[q] \in {"insert", "body"}
        /\ \A t \in WaitsFor(q) :
              pc[t] = "body" /\ req[t].kind = "gift" /\ WaitsFor(t) = {}

\* The documented contract of the endpoint: a checkout whose key was already
\* used gets the replay or a conflict, never a server error.
RetryIsReplayed == \A r \in Requests : answer[r].status # "error"

\* The detailed system keeps the promises of LoyaltyLedger: whatever is committed
\* is one of its postings, and nothing else moves points, keys or bonuses.
NetMoves == {e - p : e \in EarnAmounts \cup {0},
                     p \in UNION {0..body.points : body \in Pool}}
PaidKeys == {<<req[t].user, req[t].key>> : t \in {t \in Rows : Keyed(t)}}
CreditedTo == [u \in Users |-> {b \in Bonuses : credits[u][b] > 0}]

Ledger == INSTANCE LoyaltyLedger WITH
    Moves <- NetMoves, points <- journal, paid <- PaidKeys, credited <- CreditedTo

LedgerSpec == Ledger!Spec
=============================================================================
