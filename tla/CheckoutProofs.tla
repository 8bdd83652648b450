--------------------------- MODULE CheckoutProofs ---------------------------
(***************************************************************************)
(* Checkout keeps the ledger consistent for any number of users, keys,     *)
(* bonuses and concurrent requests.                                        *)
(***************************************************************************)
EXTENDS Checkout, TLAPS, FiniteSetTheorems

\* A request that works on the account row under its lock.
Holds(r) == pc[r] \in {"insert", "body"} /\ req[r].kind # "gift"

\* The lock protects what was read under it: no one else can hold it, and
\* the balance read is still the one in the row.
LockInv ==
    \A r \in Requests : Holds(r) =>
        lock[req[r].user] = r /\ seen[r] = balance[req[r].user]

\* Where a request may be when its row is absent, pending or committed.
RowInv ==
    \A r \in Requests :
        /\ row[r] # "none" => req[r].kind \in {"checkout", "gift"}
        /\ pc[r] \in {"idle", "account", "insert"} => row[r] = "none"
        /\ row[r] = "pending" => pc[r] = "body"
        /\ pc[r] = "body" /\ req[r].kind \in {"checkout", "gift"} => row[r] = "pending"
        /\ pc[r] = "reply" /\ req[r].kind \in {"checkout", "gift"} => row[r] = "committed"
        /\ pc[r] = "insert" => req[r].kind \in {"checkout", "gift"}

\* The unique constraint, which covers uncommitted rows too.
KeyInv ==
    \A r, s \in Requests :
        r # s /\ row[r] # "none" /\ row[s] # "none" /\ Keyed(r) => ~SameKey(r, s)

AccountInv == BalanceIsJournal /\ NeverOverdrawn /\ BonusOnce

IInv == TypeOK /\ LockInv /\ RowInv /\ KeyInv /\ AccountInv /\ AnswersAreBacked

USE CheckoutAssumption

-----------------------------------------------------------------------------
\* A set of bonuses has a size, and one more for a new member.
LEMMA BonusCount ==
    ASSUME NEW B, B \subseteq Bonuses
    PROVE  Cardinality(B) \in Nat
  BY FS_Subset, FS_CardinalityType

\* What a rollback does, whoever calls it.
LEMMA RollbackRow ==
    ASSUME TypeOK, NEW r \in Requests, Rollback(r)
    PROVE  /\ row' \in [Requests -> {"none", "pending", "committed"}]
           /\ \A s \in Requests : s # r => row'[s] = row[s]
           /\ row'[r] = IF row[r] = "pending" THEN "none" ELSE row[r]
           /\ lock' \in [Users -> Requests \cup {NoRequest}]
           /\ \A u \in Users : lock[u] # r => lock'[u] = lock[u]
           /\ UNCHANGED <<balance, journal, credits, named>>
  BY DEF Rollback, RowUndone, Unlocked, TypeOK

\* What a commit does, whoever calls it.
LEMMA CommitEffect ==
    ASSUME TypeOK, NEW r \in Requests, NEW delta \in Int,
           NEW B \in SUBSET Bonuses, Commit(r, delta, B)
    PROVE  /\ Cardinality(B) \in Nat
           /\ balance' \in Account /\ journal' \in Account
           /\ credits' \in [Users -> [Bonuses -> Nat]]
           /\ row' \in [Requests -> {"none", "pending", "committed"}]
           /\ lock' \in [Users -> Requests \cup {NoRequest}]
           /\ \A s \in Requests : s # r => row'[s] = row[s]
           /\ row'[r] = IF row[r] = "pending" THEN "committed" ELSE row[r]
           /\ \A u \in Users : lock[u] # r => lock'[u] = lock[u]
           /\ \A u \in Users : u # req[r].user =>
                 /\ balance'[u] = balance[u]
                 /\ journal'[u] = journal[u]
                 /\ credits'[u] = credits[u]
           /\ balance'[req[r].user] = seen[r] + (delta + BonusPoints * Cardinality(B))
           /\ journal'[req[r].user] = journal[req[r].user] + (delta + BonusPoints * Cardinality(B))
           /\ \A b \in Bonuses : credits'[req[r].user][b] =
                 credits[req[r].user][b] + (IF b \in B THEN 1 ELSE 0)
  <1>1. Cardinality(B) \in Nat
    BY BonusCount
  <1>2. BonusPoints * Cardinality(B) \in Nat
    BY <1>1
  <1>3. req[r] \in Body
    BY DEF TypeOK
  <1>4. req[r].user \in Users
    BY <1>3 DEF Body
  <1> DEFINE total == delta + BonusPoints * Cardinality(B)
  <1>5. total \in Int
    BY <1>2
  <1>6. balance' = [balance EXCEPT ![req[r].user] = seen[r] + total]
        /\ journal' = [journal EXCEPT ![req[r].user] = journal[req[r].user] + total]
    BY DEF Commit
  <1> HIDE DEF total
  <1>7. balance' \in Account /\ journal' \in Account
    BY <1>4, <1>5, <1>6 DEF TypeOK, Account
  <1>8. /\ balance'[req[r].user] = seen[r] + total
        /\ journal'[req[r].user] = journal[req[r].user] + total
        /\ \A u \in Users : u # req[r].user =>
              balance'[u] = balance[u] /\ journal'[u] = journal[u]
    BY <1>4, <1>6 DEF TypeOK, Account
  <1> DEFINE cr == [b \in Bonuses |-> credits[req[r].user][b] + (IF b \in B THEN 1 ELSE 0)]
  <1>9. credits' = [credits EXCEPT ![req[r].user] = cr]
    BY DEF Commit
  <1>10. cr \in [Bonuses -> Nat]
    <2>1. credits[req[r].user] \in [Bonuses -> Nat]
      BY <1>4 DEF TypeOK
    <2> QED
      BY <2>1
  <1>11. \A b \in Bonuses : cr[b] = credits[req[r].user][b] + (IF b \in B THEN 1 ELSE 0)
    OBVIOUS
  <1> HIDE DEF cr
  <1>12. /\ credits' \in [Users -> [Bonuses -> Nat]]
         /\ credits'[req[r].user] = cr
         /\ \A u \in Users : u # req[r].user => credits'[u] = credits[u]
    BY <1>4, <1>9, <1>10 DEF TypeOK
  <1>13. /\ row' \in [Requests -> {"none", "pending", "committed"}]
         /\ \A s \in Requests : s # r => row'[s] = row[s]
         /\ row'[r] = IF row[r] = "pending" THEN "committed" ELSE row[r]
    BY DEF Commit, TypeOK
  <1>14. /\ lock' \in [Users -> Requests \cup {NoRequest}]
         /\ \A u \in Users : lock[u] # r => lock'[u] = lock[u]
    BY DEF Commit, TypeOK, Unlocked
  <1> QED
    BY <1>1, <1>7, <1>8, <1>11, <1>12, <1>13, <1>14 DEF total

-----------------------------------------------------------------------------
LEMMA InitInv == Init => IInv
  <1> SUFFICES ASSUME Init PROVE IInv
    OBVIOUS
  <1>1. TypeOK
    BY DEF Init, TypeOK, Account, Labels, Statuses, Answer
  <1>2. LockInv /\ RowInv /\ KeyInv
    BY DEF Init, LockInv, Holds, RowInv, KeyInv
  <1>3. AccountInv
    BY DEF Init, AccountInv, BalanceIsJournal, NeverOverdrawn, BonusOnce
  <1>4. AnswersAreBacked
    BY DEF Init, AnswersAreBacked, Answer
  <1> QED
    BY <1>1, <1>2, <1>3, <1>4 DEF IInv

\* The body of a request, field by field.
LEMMA BodyFields ==
    ASSUME TypeOK, NEW r \in Requests
    PROVE  /\ req[r].user \in Users /\ req[r].kind \in Kinds
           /\ req[r].points \in Nat /\ req[r].bonus \in Bonuses
  <1>1. req[r] \in Body
    BY DEF TypeOK
  <1> QED
    BY <1>1 DEF Body

LEMMA StartInv ==
    ASSUME IInv, NEW r \in Requests, Start(r)
    PROVE  IInv'
  <1> USE DEF IInv
  <1>1. /\ UNCHANGED <<balance, journal, credits, named, row, lock, req, seen, receipt>>
        /\ pc[r] = "idle"
        /\ \A s \in Requests : s # r => pc'[s] = pc[s] /\ answer'[s] = answer[s]
        /\ pc' \in [Requests -> Labels]
        /\ pc'[r] \in {"account", "done"}
    BY DEF Start, database, Goto, Reply, TypeOK, Labels
  <1>2. \/ answer' = answer
        \/ \E t \in Previous(r) :
              answer' = [answer EXCEPT ![r] = Answer(Verdict(r, t), t)]
    BY DEF Start, Reply
  <1>3. TypeOK'
    <2>1. answer' \in [Requests -> [status : Statuses, txn : Requests \cup {NoRequest}]]
      <3>1. CASE answer' = answer
        BY <3>1 DEF TypeOK
      <3>2. ASSUME NEW t \in Previous(r),
                   answer' = [answer EXCEPT ![r] = Answer(Verdict(r, t), t)]
            PROVE  answer' \in [Requests -> [status : Statuses,
                                            txn : Requests \cup {NoRequest}]]
        <4>1. t \in Requests /\ Verdict(r, t) \in Statuses
          BY DEF Previous, Rows, Verdict, Statuses
        <4>2. Answer(Verdict(r, t), t) \in [status : Statuses,
                                           txn : Requests \cup {NoRequest}]
          BY <4>1 DEF Answer
        <4> QED
          BY <3>2, <4>2 DEF TypeOK
      <3> QED
        BY <1>2, <3>1, <3>2
    <2> QED
      BY <1>1, <2>1 DEF TypeOK
  <1>4. LockInv'
    BY <1>1 DEF LockInv, Holds
  <1>5. RowInv' /\ KeyInv' /\ AccountInv'
    BY <1>1 DEF RowInv, KeyInv, Keyed, SameKey, AccountInv,
                BalanceIsJournal, NeverOverdrawn, BonusOnce
  <1>6. AnswersAreBacked'
    <2>1. CASE answer' = answer
      BY <1>1, <2>1 DEF AnswersAreBacked, Rows, SameKey
    <2>2. ASSUME NEW t \in Previous(r),
                 answer' = [answer EXCEPT ![r] = Answer(Verdict(r, t), t)]
          PROVE  AnswersAreBacked'
      <3>1. /\ answer'[r].status = Verdict(r, t) /\ answer'[r].txn = t
            /\ t \in Rows' /\ SameKey(r, t)'
        BY <1>1, <2>2 DEF Previous, Rows, Answer, TypeOK, SameKey
      <3>2. (answer'[r].status # "conflict") = (req'[t].kind = req'[r].kind)
        BY <1>1, <3>1 DEF Verdict
      <3> QED
        BY <1>1, <3>1, <3>2 DEF AnswersAreBacked, Rows, SameKey
    <2> QED
      BY <1>2, <2>1, <2>2
  <1> QED
    BY <1>3, <1>4, <1>5, <1>6

LEMMA LockAccountInv ==
    ASSUME IInv, NEW r \in Requests, LockAccount(r)
    PROVE  IInv'
  <1> USE DEF IInv
  <1>1. req[r].user \in Users /\ req[r].kind \in Kinds
    BY BodyFields
  <1>2. /\ UNCHANGED <<balance, journal, credits, named, row, req, receipt, answer>>
        /\ pc[r] = "account" /\ req[r].kind # "gift"
        /\ lock[req[r].user] = NoRequest
        /\ lock' = [lock EXCEPT ![req[r].user] = r]
        /\ seen' = [seen EXCEPT ![r] = balance[req[r].user]]
        /\ pc' = [pc EXCEPT ![r] = AfterLock(r)]
    BY DEF LockAccount, AccountFree, Goto
  <1>3. /\ AfterLock(r) \in {"insert", "body"}
        /\ AfterLock(r) = "insert" <=> req[r].kind = "checkout"
    BY DEF AfterLock
  <1>4. TypeOK'
    BY <1>1, <1>2, <1>3 DEF TypeOK, Account, Labels
  <1>5. LockInv'
    <2> SUFFICES ASSUME NEW s \in Requests, Holds(s)'
                 PROVE  lock'[req[s].user] = s /\ seen'[s] = balance[req[s].user]
      BY <1>2 DEF LockInv
    <2>1. CASE s = r
      BY <1>1, <1>2, <2>1 DEF TypeOK
    <2>2. CASE s # r
      <3>1. lock[req[s].user] = s /\ seen[s] = balance[req[s].user]
        BY <1>2, <2>2 DEF LockInv, Holds, TypeOK
      <3> QED
        BY <1>2, <2>2, <3>1 DEF TypeOK
    <2> QED
      BY <2>1, <2>2
  <1>6. RowInv'
    BY <1>2, <1>3 DEF RowInv, TypeOK
  <1>7. KeyInv' /\ AccountInv' /\ AnswersAreBacked'
    BY <1>2 DEF KeyInv, Keyed, SameKey, AccountInv, BalanceIsJournal,
                NeverOverdrawn, BonusOnce, AnswersAreBacked, Rows
  <1> QED
    BY <1>4, <1>5, <1>6, <1>7

LEMMA ReadAccountInv ==
    ASSUME IInv, NEW r \in Requests, ReadAccount(r)
    PROVE  IInv'
  <1> USE DEF IInv
  <1>1. req[r].user \in Users
    BY BodyFields
  <1>2. /\ UNCHANGED <<balance, journal, credits, named, row, lock, req, receipt, answer>>
        /\ pc[r] = "account" /\ req[r].kind = "gift"
        /\ seen' = [seen EXCEPT ![r] = balance[req[r].user]]
        /\ pc' = [pc EXCEPT ![r] = "insert"]
    BY DEF ReadAccount, database, Goto
  <1>3. TypeOK'
    BY <1>1, <1>2 DEF TypeOK, Account, Labels
  <1>4. LockInv' /\ RowInv'
    BY <1>2 DEF LockInv, Holds, RowInv, TypeOK
  <1>5. KeyInv' /\ AccountInv' /\ AnswersAreBacked'
    BY <1>2 DEF KeyInv, Keyed, SameKey, AccountInv, BalanceIsJournal,
                NeverOverdrawn, BonusOnce, AnswersAreBacked, Rows
  <1> QED
    BY <1>3, <1>4, <1>5

LEMMA InsertInv ==
    ASSUME IInv, NEW r \in Requests, Insert(r)
    PROVE  IInv'
  <1> USE DEF IInv
  <1>1. /\ UNCHANGED <<balance, journal, credits, named, lock, req, seen, receipt, answer>>
        /\ pc[r] = "insert"
        /\ row' = [row EXCEPT ![r] = "pending"]
        /\ pc' = [pc EXCEPT ![r] = "body"]
    BY DEF Insert, CanInsert, Goto
  <1>2. ASSUME NEW t \in Requests, t # r, row[t] # "none", Keyed(r)
        PROVE  ~SameKey(r, t)
    <2>1. row[t] = "pending" => ~SameKey(r, t)
      BY <1>2 DEF Insert, CanInsert
    <2>2. row[t] = "committed" => ~SameKey(r, t)
      BY <1>2 DEF Insert, Previous, Rows
    <2> QED
      BY <1>2, <2>1, <2>2 DEF TypeOK
  <1>3. TypeOK'
    BY <1>1 DEF TypeOK, Labels
  <1>4. LockInv' /\ RowInv'
    BY <1>1 DEF LockInv, Holds, RowInv, TypeOK
  <1>5. KeyInv'
    BY <1>1, <1>2 DEF KeyInv, Keyed, SameKey, TypeOK
  <1>6. AnswersAreBacked'
    <2>1. Rows' = Rows
      BY <1>1 DEF Rows, RowInv, TypeOK
    <2> QED
      BY <1>1, <2>1 DEF AnswersAreBacked, SameKey
  <1>7. AccountInv'
    BY <1>1 DEF AccountInv, BalanceIsJournal, NeverOverdrawn, BonusOnce
  <1> QED
    BY <1>3, <1>4, <1>5, <1>6, <1>7

\* A duplicate key, a refusal and a dead worker all end in a rollback and an
\* answer that promises nothing.
LEMMA RollbackInv ==
    ASSUME IInv, NEW r \in Requests, NEW status \in {"error", "rejected", "lost"},
           Rollback(r), Reply(r, status, NoRequest), UNCHANGED <<req, seen, receipt>>
    PROVE  IInv'
  <1> USE DEF IInv
  <1>1. /\ UNCHANGED <<balance, journal, credits, named, req, seen, receipt>>
        /\ pc' = [pc EXCEPT ![r] = "done"]
        /\ answer' = [answer EXCEPT ![r] = Answer(status, NoRequest)]
        /\ Answer(status, NoRequest) = [status |-> status, txn |-> NoRequest]
    BY RollbackRow DEF Reply, Goto, Answer
  <1>2. /\ row' \in [Requests -> {"none", "pending", "committed"}]
        /\ \A s \in Requests : s # r => row'[s] = row[s]
        /\ row'[r] = IF row[r] = "pending" THEN "none" ELSE row[r]
        /\ lock' \in [Users -> Requests \cup {NoRequest}]
        /\ \A u \in Users : lock[u] # r => lock'[u] = lock[u]
    BY RollbackRow
  <1>3. TypeOK'
    <2>1. [status |-> status, txn |-> NoRequest] \in
             [status : Statuses, txn : Requests \cup {NoRequest}]
      BY DEF Statuses
    <2>2. answer' \in [Requests -> [status : Statuses, txn : Requests \cup {NoRequest}]]
      BY <1>1, <2>1 DEF TypeOK
    <2>3. pc' \in [Requests -> Labels]
      BY <1>1 DEF TypeOK, Labels
    <2> QED
      BY <1>1, <1>2, <2>2, <2>3 DEF TypeOK
  <1>4. LockInv'
    <2> SUFFICES ASSUME NEW s \in Requests, Holds(s)'
                 PROVE  lock'[req[s].user] = s /\ seen[s] = balance[req[s].user]
      BY <1>1 DEF LockInv
    <2>1. s # r /\ Holds(s)
      BY <1>1 DEF Holds, TypeOK
    <2>2. req[s].user \in Users
      BY BodyFields
    <2> QED
      BY <1>2, <2>1, <2>2 DEF LockInv
  <1>5. RowInv'
    BY <1>1, <1>2 DEF RowInv, TypeOK
  <1>6. KeyInv'
    BY <1>1, <1>2 DEF KeyInv, Keyed, SameKey, TypeOK
  <1>7. Rows' = Rows
    BY <1>2 DEF Rows
  <1>8. AnswersAreBacked'
    BY <1>1, <1>7 DEF AnswersAreBacked, SameKey, TypeOK
  <1>9. AccountInv'
    BY <1>1 DEF AccountInv, BalanceIsJournal, NeverOverdrawn, BonusOnce
  <1> QED
    BY <1>3, <1>4, <1>5, <1>6, <1>8, <1>9

\* A commit made with the lock held, that the account can bear and that credits
\* new bonuses only.
LEMMA CommitInv ==
    ASSUME IInv, NEW r \in Requests, NEW delta \in Int,
           NEW B \in SUBSET Uncredited(req[r].user),
           Commit(r, delta, B), req[r].kind # "gift", seen[r] + delta >= 0,
           receipt' \in [Requests -> [balance : Int, awarded : Int]],
           named' \in [Users -> SUBSET Bonuses]
    PROVE  IInv'
  <1> USE DEF IInv
  <1>1. B \in SUBSET Bonuses
    BY DEF Uncredited
  <1>2. /\ Cardinality(B) \in Nat
        /\ balance' \in Account /\ journal' \in Account
        /\ credits' \in [Users -> [Bonuses -> Nat]]
        /\ row' \in [Requests -> {"none", "pending", "committed"}]
        /\ lock' \in [Users -> Requests \cup {NoRequest}]
        /\ \A s \in Requests : s # r => row'[s] = row[s]
        /\ row'[r] = IF row[r] = "pending" THEN "committed" ELSE row[r]
        /\ \A u \in Users : lock[u] # r => lock'[u] = lock[u]
        /\ \A u \in Users : u # req[r].user =>
              /\ balance'[u] = balance[u]
              /\ journal'[u] = journal[u]
              /\ credits'[u] = credits[u]
        /\ balance'[req[r].user] = seen[r] + (delta + BonusPoints * Cardinality(B))
        /\ journal'[req[r].user] = journal[req[r].user] + (delta + BonusPoints * Cardinality(B))
        /\ \A b \in Bonuses : credits'[req[r].user][b] =
              credits[req[r].user][b] + (IF b \in B THEN 1 ELSE 0)
    <2>1. TypeOK
      OBVIOUS
    <2> QED
      BY ONLY <1>1, <2>1, CommitEffect, Commit(r, delta, B), r \in Requests, delta \in Int
  <1>3. /\ pc[r] = "body" /\ pc' = [pc EXCEPT ![r] = "reply"]
        /\ UNCHANGED <<req, seen, answer>>
    BY DEF Commit, Goto
  <1>4. req[r].user \in Users /\ req[r].kind \in Kinds
    BY BodyFields
  <1>5. lock[req[r].user] = r /\ seen[r] = balance[req[r].user]
    BY <1>3 DEF LockInv, Holds
  <1>6. TypeOK'
    BY <1>2, <1>3 DEF TypeOK, Labels
  <1>7. LockInv'
    <2> SUFFICES ASSUME NEW s \in Requests, Holds(s)'
                 PROVE  lock'[req[s].user] = s /\ seen[s] = balance'[req[s].user]
      BY <1>3 DEF LockInv
    <2>1. s # r /\ Holds(s)
      BY <1>3 DEF Holds, TypeOK
    <2>2. req[s].user \in Users /\ lock[req[s].user] = s /\ seen[s] = balance[req[s].user]
      BY <2>1, BodyFields DEF LockInv
    <2>3. req[s].user # req[r].user
      BY <1>5, <2>1, <2>2
    <2> QED
      BY <1>2, <2>1, <2>2, <2>3
  <1>8. RowInv'
    BY <1>2, <1>3 DEF RowInv, TypeOK
  <1>9. KeyInv'
    BY <1>2, <1>3 DEF KeyInv, Keyed, SameKey, TypeOK
  <1>10. BalanceIsJournal'
    <2>1. \A u \in Users : balance'[u] = journal'[u]
      BY <1>2, <1>4, <1>5 DEF AccountInv, BalanceIsJournal
    <2> QED
      BY <1>2, <2>1 DEF BalanceIsJournal, Account
  <1>11. NeverOverdrawn'
    <2>1. BonusPoints * Cardinality(B) \in Nat
      BY <1>2
    <2>2. balance'[req[r].user] >= 0
      BY <1>2, <2>1 DEF TypeOK
    <2> QED
      BY <1>2, <2>2 DEF AccountInv, NeverOverdrawn
  <1>12. BonusOnce'
    <2> SUFFICES ASSUME NEW u \in Users, NEW b \in Bonuses
                 PROVE  credits'[u][b] <= 1
      BY DEF BonusOnce
    <2>1. credits[u][b] \in Nat /\ credits[u][b] <= 1
      BY DEF TypeOK, AccountInv, BonusOnce
    <2>2. CASE u = req[r].user
      <3>1. b \in B => credits[u][b] = 0
        BY <2>2 DEF Uncredited
      <3> QED
        BY <1>2, <2>1, <2>2, <3>1
    <2> QED
      BY <1>2, <2>1, <2>2
  <1>13. AnswersAreBacked'
    <2>1. Rows \subseteq Rows'
      BY <1>2 DEF Rows
    <2> QED
      BY <1>3, <2>1 DEF AnswersAreBacked, SameKey
  <1> QED
    BY <1>6, <1>7, <1>8, <1>9, <1>10, <1>11, <1>12, <1>13 DEF AccountInv

LEMMA CommitGiftInv ==
    ASSUME IInv, NEW r \in Requests, CommitGift(r)
    PROVE  IInv'
  <1> USE DEF IInv
  <1>1. /\ UNCHANGED <<balance, journal, credits, named, lock, req, seen, answer>>
        /\ pc[r] = "body" /\ req[r].kind = "gift"
        /\ row' = [row EXCEPT ![r] = "committed"]
        /\ receipt' = [receipt EXCEPT ![r] = [balance |-> seen[r], awarded |-> 0]]
        /\ pc' = [pc EXCEPT ![r] = "reply"]
    BY DEF CommitGift, Goto
  <1>2. TypeOK'
    <2>1. [balance |-> seen[r], awarded |-> 0] \in [balance : Int, awarded : Int]
      BY DEF TypeOK
    <2>2. receipt' \in [Requests -> [balance : Int, awarded : Int]]
      BY <1>1, <2>1 DEF TypeOK
    <2> QED
      BY <1>1, <2>2 DEF TypeOK, Labels
  <1>3. LockInv' /\ RowInv'
    BY <1>1 DEF LockInv, Holds, RowInv, TypeOK
  <1>4. KeyInv'
    BY <1>1 DEF KeyInv, Keyed, SameKey, TypeOK, RowInv
  <1>5. Rows \subseteq Rows'
    BY <1>1 DEF Rows, TypeOK
  <1>6. AnswersAreBacked'
    BY <1>1, <1>5 DEF AnswersAreBacked, SameKey
  <1>7. AccountInv'
    BY <1>1 DEF AccountInv, BalanceIsJournal, NeverOverdrawn, BonusOnce
  <1> QED
    BY <1>2, <1>3, <1>4, <1>6, <1>7

LEMMA RespondInv ==
    ASSUME IInv, NEW r \in Requests, Respond(r)
    PROVE  IInv'
  <1> USE DEF IInv
  <1>1. /\ UNCHANGED <<balance, journal, credits, named, row, lock, req, seen, receipt>>
        /\ pc[r] = "reply" /\ pc' = [pc EXCEPT ![r] = "done"]
        /\ answer' = [answer EXCEPT ![r] = [status |-> "created", txn |-> r]]
    BY DEF Respond, database, Reply, Goto, Answer
  <1>2. TypeOK'
    <2>1. [status |-> "created", txn |-> r] \in
             [status : Statuses, txn : Requests \cup {NoRequest}]
      BY DEF Statuses
    <2>2. answer' \in [Requests -> [status : Statuses, txn : Requests \cup {NoRequest}]]
      BY <1>1, <2>1 DEF TypeOK
    <2> QED
      BY <1>1, <2>2 DEF TypeOK, Labels
  <1>3. LockInv' /\ RowInv'
    BY <1>1 DEF LockInv, Holds, RowInv, TypeOK
  <1>4. KeyInv' /\ AccountInv'
    BY <1>1 DEF KeyInv, Keyed, SameKey, AccountInv, BalanceIsJournal,
                NeverOverdrawn, BonusOnce
  <1>5. req[r].kind \in {"checkout", "gift"} => r \in Rows
    BY <1>1 DEF RowInv, Rows
  <1>6. AnswersAreBacked'
    BY <1>1, <1>5 DEF AnswersAreBacked, Rows, SameKey, TypeOK
  <1> QED
    BY <1>2, <1>3, <1>4, <1>6

\* Only a redemption takes a reference.
LEMMA CommitNames ==
    ASSUME IInv, NEW r \in Requests,
           CommitCheckout(r) \/ CommitRedeem(r) \/ CommitOffer(r) \/ CommitBonus(r)
    PROVE  named' \in [Users -> SUBSET Bonuses]
  <1>1. CASE CommitRedeem(r)
    <2>1. PICK B \in {{}, {req[r].bonus}} :
            named' = [named EXCEPT ![req[r].user] = named[req[r].user] \cup B]
      BY <1>1 DEF CommitRedeem
    <2>2. req[r].user \in Users /\ B \subseteq Bonuses
      BY BodyFields DEF IInv
    <2> QED
      BY <2>1, <2>2 DEF IInv, TypeOK
  <1>2. CASE CommitCheckout(r) \/ CommitOffer(r) \/ CommitBonus(r)
    BY <1>2 DEF CommitCheckout, CommitOffer, CommitBonus, IInv, TypeOK
  <1> QED
    BY <1>1, <1>2

\* The commits under the account lock, each as an instance of CommitInv.
LEMMA LedgerCommit ==
    ASSUME IInv, NEW r \in Requests,
           CommitCheckout(r) \/ CommitRedeem(r) \/ CommitOffer(r) \/ CommitBonus(r)
    PROVE  \E delta \in Int, B \in SUBSET Uncredited(req[r].user) :
              /\ Commit(r, delta, B)
              /\ req[r].kind # "gift"
              /\ seen[r] + delta >= 0
              /\ receipt' \in [Requests -> [balance : Int, awarded : Int]]
              /\ \E e \in EarnAmounts \cup {0}, p \in 0..req[r].points : delta = e - p
  <1> USE DEF IInv
  <1>1. /\ req[r].user \in Users /\ req[r].points \in Nat /\ req[r].bonus \in Bonuses
        /\ seen[r] \in Int
    BY BodyFields DEF TypeOK
  <1>2. ASSUME pc[r] = "body", req[r].kind # "gift"
        PROVE  seen[r] >= 0
    BY <1>1, <1>2 DEF LockInv, Holds, AccountInv, NeverOverdrawn
  <1>3. ASSUME NEW x \in Int, NEW y \in Int,
               receipt' = [receipt EXCEPT ![r] = [balance |-> x, awarded |-> y]]
        PROVE  receipt' \in [Requests -> [balance : Int, awarded : Int]]
    <2>1. [balance |-> x, awarded |-> y] \in [balance : Int, awarded : Int]
      OBVIOUS
    <2> QED
      BY <1>3, <2>1 DEF TypeOK
  <1>4. CASE CommitCheckout(r)
    <2>1. PICK redeemed \in 0..req[r].points, earned \in EarnAmounts,
               B \in SUBSET Uncredited(req[r].user), roadmapRaised \in BOOLEAN :
            LET awarded == IF roadmapRaised THEN 0 ELSE BonusPoints * Cardinality(B)
            IN  /\ Commit(r, earned - redeemed, B)
                /\ receipt' = [receipt EXCEPT ![r] =
                      [balance |-> NewBalance(seen[r] - redeemed + earned, awarded),
                       awarded |-> awarded]]
      BY <1>4 DEF CommitCheckout
    <2> DEFINE awarded == IF roadmapRaised THEN 0 ELSE BonusPoints * Cardinality(B)
    <2>2. awarded \in Nat
      <3>1. Cardinality(B) \in Nat
        BY BonusCount DEF Uncredited
      <3> QED
        BY <3>1
    <2> HIDE DEF awarded
    <2>3. /\ Commit(r, earned - redeemed, B)
          /\ receipt' = [receipt EXCEPT ![r] =
                [balance |-> NewBalance(seen[r] - redeemed + earned, awarded),
                 awarded |-> awarded]]
      BY <2>1 DEF awarded
    <2>4. /\ earned \in Nat /\ redeemed \in Nat /\ redeemed <= req[r].points
          /\ req[r].points <= seen[r] /\ req[r].kind = "checkout" /\ pc[r] = "body"
      BY <1>1, <1>4, <2>3 DEF CommitCheckout, Affordable, Commit
    <2>5. earned - redeemed \in Int /\ seen[r] + (earned - redeemed) >= 0
      BY <1>1, <2>4
    <2>6. NewBalance(seen[r] - redeemed + earned, awarded) \in Int
      BY <1>1, <2>2, <2>4 DEF NewBalance
    <2>7. awarded \in Int
      BY <2>2
    <2>8. receipt' \in [Requests -> [balance : Int, awarded : Int]]
      <3> DEFINE x == NewBalance(seen[r] - redeemed + earned, awarded)
      <3>1. x \in Int
        BY <2>6
      <3>2. receipt' = [receipt EXCEPT ![r] = [balance |-> x, awarded |-> awarded]]
        BY <2>3
      <3> HIDE DEF x
      <3> QED
        BY <1>3, <2>7, <3>1, <3>2
    <2>9. B \in SUBSET Uncredited(req[r].user) /\ earned - redeemed \in Int
      BY <2>5
    <2>10. req[r].kind \in {"checkout", "redeem", "offer", "bonus"}
      BY <2>4
    <2> QED
      BY <2>3, <2>5, <2>8, <2>9, <2>10
  <1>5. CASE CommitRedeem(r)
    <2>1. /\ Commit(r, -req[r].points, {}) /\ req[r].kind = "redeem"
          /\ req[r].points <= seen[r]
          /\ receipt' = [receipt EXCEPT ![r] =
                [balance |-> seen[r] - req[r].points, awarded |-> 0]]
      BY <1>5 DEF CommitRedeem, Affordable
    <2>2. -req[r].points \in Int /\ seen[r] + (-req[r].points) >= 0
          /\ seen[r] - req[r].points \in Int
          /\ req[r].points \in 0..req[r].points /\ -req[r].points = 0 - req[r].points
      BY <1>1, <2>1
    <2>3. receipt' \in [Requests -> [balance : Int, awarded : Int]]
      <3>1. 0 \in Int
        OBVIOUS
      <3> QED
        BY <1>3, <2>1, <2>2, <3>1
    <2>4. {} \in SUBSET Uncredited(req[r].user)
      OBVIOUS
    <2> QED
      BY <2>1, <2>2, <2>3, <2>4
  <1>6. CASE CommitOffer(r)
    <2>1. PICK earned \in EarnAmounts :
            /\ Commit(r, earned, {})
            /\ receipt' = [receipt EXCEPT ![r] = [balance |-> seen[r] + earned, awarded |-> 0]]
      BY <1>6 DEF CommitOffer
    <2>2. earned \in Nat /\ req[r].kind = "offer" /\ pc[r] = "body"
      BY <1>6, <2>1 DEF CommitOffer, Commit
    <2>3. seen[r] + earned >= 0 /\ seen[r] + earned \in Int
      BY <1>1, <1>2, <2>2
    <2>4. receipt' \in [Requests -> [balance : Int, awarded : Int]]
      <3>1. 0 \in Int
        OBVIOUS
      <3> QED
        BY <1>3, <2>1, <2>3, <3>1
    <2>5. {} \in SUBSET Uncredited(req[r].user)
      OBVIOUS
    <2>6. earned \in Int /\ 0 \in 0..req[r].points /\ earned = earned - 0
      BY <1>1, <2>2
    <2> QED
      BY <2>1, <2>2, <2>3, <2>4, <2>5, <2>6
  <1>7. CASE CommitBonus(r)
    <2>1. /\ Commit(r, 0, {req[r].bonus}) /\ req[r].kind = "bonus" /\ pc[r] = "body"
          /\ req[r].bonus \in Uncredited(req[r].user)
          /\ receipt' = [receipt EXCEPT ![r] =
                [balance |-> seen[r] + BonusPoints, awarded |-> BonusPoints]]
      BY <1>7 DEF CommitBonus, Commit
    <2>2. seen[r] + 0 >= 0 /\ seen[r] + BonusPoints \in Int
      BY <1>1, <1>2, <2>1
    <2>3. receipt' \in [Requests -> [balance : Int, awarded : Int]]
      <3>1. BonusPoints \in Int
        OBVIOUS
      <3> QED
        BY <1>3, <2>1, <2>2, <3>1
    <2>4. {req[r].bonus} \in SUBSET Uncredited(req[r].user)
      BY <2>1
    <2>5. 0 \in Int /\ 0 \in 0..req[r].points /\ 0 = 0 - 0
      BY <1>1
    <2> QED
      BY <2>1, <2>2, <2>3, <2>4, <2>5
  <1> QED
    BY <1>4, <1>5, <1>6, <1>7

-----------------------------------------------------------------------------
\* One step of any request, or none, keeps the invariant.
LEMMA NextInv == IInv /\ [Next]_vars => IInv'
  <1> SUFFICES ASSUME IInv, [Next]_vars PROVE IInv'
    OBVIOUS
  <1>1. CASE UNCHANGED vars
    BY <1>1 DEF vars, database, IInv, TypeOK, LockInv, Holds, RowInv, KeyInv, Keyed,
                SameKey, AccountInv, BalanceIsJournal, NeverOverdrawn, BonusOnce,
                AnswersAreBacked, Rows
  <1>2. ASSUME NEW r \in Requests, Start(r) \/ Work(r) \/ Die(r)
        PROVE  IInv'
    <2>1. CASE Start(r)
      BY <2>1, StartInv
    <2>2. CASE LockAccount(r)
      BY <2>2, LockAccountInv
    <2>3. CASE ReadAccount(r)
      BY <2>3, ReadAccountInv
    <2>4. CASE Insert(r)
      BY <2>4, InsertInv
    <2>5. CASE InsertDuplicate(r)
      BY <2>5, RollbackInv DEF InsertDuplicate
    <2>6. CASE CommitCheckout(r) \/ CommitRedeem(r) \/ CommitOffer(r) \/ CommitBonus(r)
      BY <2>6, LedgerCommit, CommitNames, CommitInv
    <2>7. CASE CommitGift(r)
      BY <2>7, CommitGiftInv
    <2>8. CASE Reject(r)
      BY <2>8, RollbackInv DEF Reject
    <2>9. CASE Respond(r)
      BY <2>9, RespondInv
    <2>10. CASE Die(r)
      BY <2>10, RollbackInv DEF Die
    <2> QED
      BY <1>2, <2>1, <2>2, <2>3, <2>4, <2>5, <2>6, <2>7, <2>8, <2>9, <2>10 DEF Work
  <1> QED
    BY <1>1, <1>2 DEF Next, Finished

LEMMA Invariance == Spec => []IInv
  BY InitInv, NextInv, PTL DEF Spec

\* Type correctness.
THEOREM TypeCorrect == Spec => []TypeOK
  <1>1. IInv => TypeOK
    BY DEF IInv
  <1> QED
    BY <1>1, Invariance, PTL

\* However requests interleave and workers die, the cached balance equals the
\* journal, no account is overdrawn and no bonus is credited twice.
THEOREM AccountSafety == Spec => []AccountIsRight
  <1>1. IInv => AccountIsRight
    BY DEF IInv, AccountInv, AccountIsRight
  <1> QED
    BY <1>1, Invariance, PTL

\* Replays and conflicts point at committed transactions of the same key.
THEOREM AnswersBacked == Spec => []AnswersAreBacked
  <1>1. IInv => AnswersAreBacked
    BY DEF IInv
  <1> QED
    BY <1>1, Invariance, PTL

\* An idempotency key buys one transaction.
THEOREM KeySafety == Spec => []OneTransactionPerKey
  <1>1. IInv => OneTransactionPerKey
    <2> SUFFICES ASSUME IInv, NEW r \in Requests, NEW s \in Requests,
                   {answer[r].status, answer[s].status} \subseteq {"created", "replay"},
                   {req[r].kind, req[s].kind} \subseteq {"checkout", "gift"},
                   Keyed(r), SameKey(r, s)
                 PROVE answer[r].txn = answer[s].txn
      BY DEF OneTransactionPerKey
    <2>1. /\ answer[r].txn \in Rows /\ SameKey(r, answer[r].txn)
          /\ answer[s].txn \in Rows /\ SameKey(s, answer[s].txn)
      BY DEF IInv, AnswersAreBacked
    <2>2. /\ Keyed(answer[r].txn) /\ SameKey(answer[r].txn, answer[s].txn)
      BY <2>1 DEF Keyed, SameKey
    <2> QED
      BY <2>1, <2>2 DEF IInv, KeyInv, Rows
  <1> QED
    BY <1>1, Invariance, PTL

\* What a client that sends a key may rely on.
THEOREM AnswersSafety == Spec => []AnswersAreRight
  <1>1. OneTransactionPerKey /\ AnswersAreBacked => AnswersAreRight
    BY DEF AnswersAreRight
  <1> QED
    BY <1>1, KeySafety, AnswersBacked, PTL

-----------------------------------------------------------------------------
\* The detailed system keeps the promises of LoyaltyLedger: a commit is a posting,
\* everything else a stutter.
\* Rows that change nothing that is committed.
LEMMA StutterRows ==
    ASSUME IInv, UNCHANGED <<journal, credits, req>>,
           \A t \in Requests : row'[t] = "committed" <=> row[t] = "committed"
    PROVE  UNCHANGED Ledger!vars
  <1>1. Rows' = Rows
    BY DEF Rows
  <1>2. PaidKeys' = PaidKeys
    BY <1>1 DEF PaidKeys, Keyed
  <1>3. CreditedTo' = CreditedTo
    BY DEF CreditedTo
  <1> QED
    BY <1>2, <1>3 DEF Ledger!vars

\* A row that commits makes its key, if it has one, a paid one.
LEMMA PaidByCommit ==
    ASSUME IInv, NEW r \in Requests, pc[r] = "body", UNCHANGED req,
           \A t \in Requests \ {r} : row'[t] = row[t],
           row'[r] = IF row[r] = "pending" THEN "committed" ELSE row[r]
    PROVE  IF row[r] = "pending" /\ Keyed(r)
           THEN /\ <<req[r].user, req[r].key>> \notin PaidKeys
                /\ PaidKeys' = PaidKeys \cup {<<req[r].user, req[r].key>>}
                /\ req[r].user \in Users /\ req[r].key \in Keys
           ELSE PaidKeys' = PaidKeys
  <1>1. req[r].user \in Users /\ req[r].key \in Keys \cup {NoKey}
    BY DEF IInv, TypeOK, Body
  <1>2. CASE row[r] = "pending" /\ Keyed(r)
    <2>1. Rows' = Rows \cup {r} /\ r \notin Rows
      BY <1>2 DEF Rows
    <2>2. <<req[r].user, req[r].key>> \notin PaidKeys
      BY <1>2, <2>1 DEF PaidKeys, Rows, IInv, KeyInv, SameKey
    <2>3. PaidKeys' = PaidKeys \cup {<<req[r].user, req[r].key>>}
      BY <1>2, <2>1 DEF PaidKeys, Keyed
    <2> QED
      BY <1>1, <1>2, <2>2, <2>3 DEF Keyed
  <1>3. CASE ~(row[r] = "pending" /\ Keyed(r))
    <2>1. {t \in Rows : Keyed(t)}' = {t \in Rows : Keyed(t)}
      BY <1>3 DEF Rows, Keyed
    <2> QED
      BY <1>3, <2>1 DEF PaidKeys
  <1> QED
    BY <1>2, <1>3

\* A commit is a posting.
LEMMA CommitPosts ==
    ASSUME IInv, NEW r \in Requests, NEW delta \in Int,
           NEW B \in SUBSET Uncredited(req[r].user),
           Commit(r, delta, B), req[r].kind # "gift", seen[r] + delta >= 0,
           \E e \in EarnAmounts \cup {0}, p \in 0..req[r].points : delta = e - p
    PROVE  Ledger!Next
  <1>a. req[r].user \in Users /\ req[r] \in Pool
    BY BodyFields DEF IInv, TypeOK
  <1>b. PICK u \in Users : u = req[r].user
    BY <1>a
  <1>1. u \in Users /\ req[r] \in Pool /\ u = req[r].user
    BY <1>a, <1>b
  <1>2. B \in SUBSET Bonuses /\ B \cap CreditedTo[u] = {}
    BY <1>1 DEF Uncredited, CreditedTo
  <1>3. /\ Cardinality(B) \in Nat
        /\ journal' \in Account
        /\ credits' \in [Users -> [Bonuses -> Nat]]
        /\ \A t \in Requests \ {r} : row'[t] = row[t]
        /\ row'[r] = IF row[r] = "pending" THEN "committed" ELSE row[r]
        /\ \A v \in Users : v # u => journal'[v] = journal[v] /\ credits'[v] = credits[v]
        /\ journal'[u] = journal[u] + (delta + BonusPoints * Cardinality(B))
        /\ \A b \in Bonuses : credits'[u][b] = credits[u][b] + (IF b \in B THEN 1 ELSE 0)
    BY <1>1, <1>2, CommitEffect DEF IInv
  <1>4. journal[u] = seen[r] /\ journal \in Account /\ journal[u] \in Int
    BY <1>1 DEF IInv, AccountInv, BalanceIsJournal, LockInv, Holds, Commit, TypeOK, Account
  <1>5. delta \in NetMoves
    BY <1>1 DEF NetMoves
  <1>6. journal' = [journal EXCEPT ![u] = journal[u] + delta + BonusPoints * Cardinality(B)]
    <2>1. BonusPoints * Cardinality(B) \in Nat
      BY <1>3
    <2>2. journal'[u] = journal[u] + delta + BonusPoints * Cardinality(B)
      BY <1>3, <1>4, <2>1
    <2> DEFINE new == journal[u] + delta + BonusPoints * Cardinality(B)
    <2>3. journal'[u] = new
      BY <2>2
    <2> HIDE DEF new
    <2>4. journal' = [journal EXCEPT ![u] = new]
      BY <1>1, <1>3, <1>4, <2>3 DEF Account
    <2> QED
      BY <2>4 DEF new
  <1>7. CreditedTo' = [CreditedTo EXCEPT ![u] = CreditedTo[u] \cup B]
    <2>1. \A v \in Users : v # u => CreditedTo'[v] = CreditedTo[v]
      BY <1>3 DEF CreditedTo
    <2>2. \A b \in Bonuses : credits[u][b] \in Nat
      BY <1>1 DEF IInv, TypeOK
    <2>3. CreditedTo'[u] = CreditedTo[u] \cup B
      BY <1>1, <1>2, <1>3, <2>2 DEF CreditedTo
    <2> QED
      BY <1>1, <2>1, <2>3 DEF CreditedTo
  <1>8. Ledger!Post(u, delta, B)
    <2>1. Ledger!Cardinality(B) = Cardinality(B)
      BY DEF Ledger!Cardinality, Cardinality
    <2> QED
      BY <1>2, <1>4, <1>6, <1>7, <2>1 DEF Ledger!Post
  <1>9. pc[r] = "body" /\ UNCHANGED req
    BY DEF Commit
  <1>10. CASE row[r] = "pending" /\ Keyed(r)
    <2>1. /\ <<req[r].user, req[r].key>> \notin PaidKeys
          /\ PaidKeys' = PaidKeys \cup {<<req[r].user, req[r].key>>}
          /\ req[r].key \in Keys
      BY <1>3, <1>9, <1>10, PaidByCommit
    <2>2. PICK k \in Keys : k = req[r].key
      BY <2>1
    <2>3. Ledger!KeyedPurchase(u, k, delta, B)
      BY <1>1, <1>8, <2>1, <2>2 DEF Ledger!KeyedPurchase
    <2> QED
      BY <1>1, <1>2, <1>5, <2>2, <2>3, Zenon DEF Ledger!Next
  <1>11. CASE ~(row[r] = "pending" /\ Keyed(r))
    <2>1. PaidKeys' = PaidKeys
      BY <1>3, <1>9, <1>11, PaidByCommit
    <2>2. Ledger!Purchase(u, delta, B)
      BY <1>8, <2>1 DEF Ledger!Purchase
    <2> QED
      BY <1>1, <1>2, <1>5, <2>2, Zenon DEF Ledger!Next
  <1> QED
    BY <1>10, <1>11

\* So is the sale of a gift card with a key; without a key it moves nothing.
LEMMA GiftPosts ==
    ASSUME IInv, NEW r \in Requests, CommitGift(r)
    PROVE  [Ledger!Next]_(Ledger!vars)
  <1>1. /\ pc[r] = "body" /\ row[r] = "pending" /\ UNCHANGED <<req, journal, credits>>
        /\ row' = [row EXCEPT ![r] = "committed"]
    BY DEF CommitGift, IInv, RowInv
  <1>2. /\ \A t \in Requests \ {r} : row'[t] = row[t]
        /\ row'[r] = "committed"
    BY <1>1 DEF IInv, TypeOK
  <1>3. CreditedTo' = CreditedTo
    BY <1>1 DEF CreditedTo
  <1>4. CASE Keyed(r)
    <2>1. /\ <<req[r].user, req[r].key>> \notin PaidKeys
          /\ PaidKeys' = PaidKeys \cup {<<req[r].user, req[r].key>>}
          /\ req[r].user \in Users /\ req[r].key \in Keys
      BY <1>1, <1>2, <1>4, PaidByCommit
    <2>2. PICK u \in Users, k \in Keys : u = req[r].user /\ k = req[r].key
      BY <2>1
    <2>3. Ledger!KeyedGift(u, k)
      BY <1>1, <1>3, <2>1, <2>2 DEF Ledger!KeyedGift
    <2> QED
      BY <2>2, <2>3, Zenon DEF Ledger!Next
  <1>5. CASE ~Keyed(r)
    <2>1. PaidKeys' = PaidKeys
      BY <1>1, <1>2, <1>5, PaidByCommit
    <2> QED
      BY <1>1, <1>3, <2>1 DEF Ledger!vars
  <1> QED
    BY <1>4, <1>5

LEMMA StepPosts == IInv /\ [Next]_vars => [Ledger!Next]_(Ledger!vars)
  <1> SUFFICES ASSUME IInv, [Next]_vars PROVE [Ledger!Next]_(Ledger!vars)
    OBVIOUS
  <1>1. CASE UNCHANGED vars
    BY <1>1, StutterRows DEF vars, database
  <1>2. ASSUME NEW r \in Requests, Start(r) \/ Work(r) \/ Die(r)
        PROVE  [Ledger!Next]_(Ledger!vars)
    <2>1. CASE Start(r) \/ LockAccount(r) \/ ReadAccount(r) \/ Respond(r)
      BY <2>1, StutterRows DEF Start, LockAccount, ReadAccount, Respond, database
    <2>2. CASE Insert(r)
      <3>1. /\ UNCHANGED <<journal, credits, req>>
            /\ row[r] = "none" /\ row' = [row EXCEPT ![r] = "pending"]
        BY <2>2 DEF Insert, CanInsert, IInv, RowInv
      <3>2. \A t \in Requests : row'[t] = "committed" <=> row[t] = "committed"
        BY <3>1 DEF IInv, TypeOK
      <3> QED
        BY <3>1, <3>2, StutterRows
    <2>3. CASE InsertDuplicate(r) \/ Reject(r) \/ Die(r)
      <3>1. Rollback(r) /\ UNCHANGED req
        BY <2>3 DEF InsertDuplicate, Reject, Die
      <3>2. UNCHANGED <<journal, credits, req>>
            /\ \A t \in Requests : row'[t] = "committed" <=> row[t] = "committed"
        BY <3>1, RollbackRow DEF IInv
      <3> QED
        BY <3>2, StutterRows
    <2>4. CASE CommitCheckout(r) \/ CommitRedeem(r) \/ CommitOffer(r) \/ CommitBonus(r)
      BY <2>4, LedgerCommit, CommitPosts
    <2>5. CASE CommitGift(r)
      BY <2>5, GiftPosts
    <2> QED
      BY <1>2, <2>1, <2>2, <2>3, <2>4, <2>5 DEF Work
  <1> QED
    BY <1>1, <1>2 DEF Next, Finished

LEMMA InitPosts == Init => Ledger!Init
  <1> SUFFICES ASSUME Init PROVE Ledger!Init
    OBVIOUS
  <1>1. PaidKeys = {}
    BY DEF Init, PaidKeys, Rows
  <1>2. CreditedTo = [u \in Users |-> {}]
    BY DEF Init, CreditedTo
  <1> QED
    BY <1>1, <1>2 DEF Init, Ledger!Init

\* Checkout implements LoyaltyLedger: points move by whole postings, a key is paid
\* once and a bonus credited once, for any users, keys, bonuses and requests.
THEOREM Implements == Spec => LedgerSpec
  BY InitPosts, StepPosts, Invariance, PTL DEF Spec, LedgerSpec, Ledger!Spec

-----------------------------------------------------------------------------
\* What a step may do to committed rows, receipts and credits.
TakesNothingBack ==
    /\ \A r \in Requests :
         row[r] = "committed" => row'[r] = "committed" /\ receipt'[r] = receipt[r]
    /\ \A u \in Users, b \in Bonuses : credits'[u][b] >= credits[u][b]

LEMMA NothingBackStep == IInv /\ [Next]_vars => TakesNothingBack
  <1> SUFFICES ASSUME IInv, [Next]_vars PROVE TakesNothingBack
    OBVIOUS
  <1>0. \A u \in Users, b \in Bonuses : credits[u][b] \in Nat
    BY DEF IInv, TypeOK
  <1>1. CASE UNCHANGED vars
    BY <1>0, <1>1 DEF vars, database, TakesNothingBack
  <1>2. ASSUME NEW r \in Requests, Start(r) \/ Work(r) \/ Die(r)
        PROVE  TakesNothingBack
    <2>1. CASE Start(r) \/ LockAccount(r) \/ ReadAccount(r) \/ Respond(r)
      BY <1>0, <2>1 DEF Start, LockAccount, ReadAccount, Respond, database, TakesNothingBack
    <2>2. CASE Insert(r)
      BY <1>0, <2>2 DEF Insert, CanInsert, IInv, RowInv, TypeOK, TakesNothingBack
    <2>3. CASE InsertDuplicate(r) \/ Reject(r) \/ Die(r)
      <3>1. Rollback(r) /\ UNCHANGED receipt
        BY <2>3 DEF InsertDuplicate, Reject, Die
      <3> QED
        BY <1>0, <3>1, RollbackRow DEF IInv, TakesNothingBack
    <2>4. CASE CommitCheckout(r) \/ CommitRedeem(r) \/ CommitOffer(r) \/ CommitBonus(r)
      <3>1. PICK delta \in Int, B \in SUBSET Uncredited(req[r].user) : Commit(r, delta, B)
        BY <2>4, LedgerCommit
      <3>2. B \in SUBSET Bonuses
        BY <3>1 DEF Uncredited
      <3>3. /\ \A s \in Requests : s # r => row'[s] = row[s]
            /\ \A u \in Users : u # req[r].user => credits'[u] = credits[u]
            /\ \A b \in Bonuses : credits'[req[r].user][b] =
                  credits[req[r].user][b] + (IF b \in B THEN 1 ELSE 0)
        BY <3>1, <3>2, CommitEffect DEF IInv
      <3>4. req[r].user \in Users /\ pc[r] = "body"
        BY <3>1, BodyFields DEF IInv, Commit
      <3>5. row[r] # "committed" /\ \A s \in Requests : s # r => receipt'[s] = receipt[s]
        <4>1. req[r].kind \in {"checkout", "gift"} => row[r] = "pending"
          BY <3>4 DEF IInv, RowInv
        <4>2. req[r].kind \notin {"checkout", "gift"} => row[r] = "none"
          BY DEF IInv, RowInv
        <4> QED
          BY <2>4, <4>1, <4>2 DEF CommitCheckout, CommitRedeem, CommitOffer, CommitBonus,
                                  IInv, TypeOK
      <3> QED
        BY <1>0, <3>3, <3>4, <3>5 DEF TakesNothingBack
    <2>5. CASE CommitGift(r)
      BY <1>0, <2>5 DEF CommitGift, IInv, RowInv, TypeOK, TakesNothingBack
    <2> QED
      BY <1>2, <2>1, <2>2, <2>3, <2>4, <2>5 DEF Work
  <1> QED
    BY <1>1, <1>2 DEF Next, Finished

\* Committed rows, their receipts and credited bonuses are never taken back.
THEOREM CommittedIsKept == Spec => NothingIsTakenBack
  <1>1. IInv /\ [Next]_vars => [TakesNothingBack]_vars
    BY NothingBackStep
  <1> QED
    BY <1>1, Invariance, PTL DEF Spec, NothingIsTakenBack, TakesNothingBack

-----------------------------------------------------------------------------
\* What the step that ends a checkout's transaction leaves on its receipt.
ReceiptStep ==
    \A r \in Requests :
        req[r].kind = "checkout" /\ pc[r] = "body" /\ pc'[r] = "reply"
        => LET u == req[r].user
               credited == {b \in Bonuses : credits'[u][b] # credits[u][b]}
           IN  receipt'[r].balance
                 + (BonusPoints * Cardinality(credited) - receipt'[r].awarded)
               = balance'[u]

\* Only the request itself moves its program counter, and only its commit takes a
\* checkout from the body to the reply.
LEMMA OnlyCommitReplies ==
    ASSUME TypeOK, [Next]_vars, NEW r \in Requests, req[r].kind = "checkout",
           pc[r] = "body", pc'[r] = "reply"
    PROVE  CommitCheckout(r)
  <1>1. ~UNCHANGED vars
    BY DEF vars, database
  <1>2. PICK s \in Requests : Start(s) \/ Work(s) \/ Die(s)
    BY <1>1 DEF Next, Finished
  <1>3. \A t \in Requests : t # s => pc'[t] = pc[t]
    <2>1. ASSUME NEW label, Goto(s, label)
          PROVE  \A t \in Requests : t # s => pc'[t] = pc[t]
      BY <2>1 DEF Goto, TypeOK
    <2>2. CASE Start(s)
      BY <2>1, <2>2 DEF Start, Reply
    <2>3. CASE LockAccount(s) \/ ReadAccount(s) \/ Insert(s) \/ InsertDuplicate(s)
      BY <2>1, <2>3 DEF LockAccount, ReadAccount, Insert, InsertDuplicate, Reply
    <2>4. CASE CommitCheckout(s)
      BY <2>1, <2>4 DEF CommitCheckout, Commit
    <2>5. CASE CommitGift(s) \/ CommitRedeem(s) \/ CommitBonus(s)
      BY <2>1, <2>5 DEF CommitGift, CommitRedeem, CommitBonus, Commit
    <2>6. CASE CommitOffer(s)
      BY <2>1, <2>6 DEF CommitOffer, Commit
    <2>7. CASE Reject(s) \/ Respond(s) \/ Die(s)
      BY <2>1, <2>7 DEF Reject, Respond, Die, Reply
    <2> QED
      BY <1>2, <2>2, <2>3, <2>4, <2>5, <2>6, <2>7 DEF Work
  <1>4. s = r
    BY <1>3
  <1>5. ~(Start(r) \/ LockAccount(r) \/ ReadAccount(r) \/ Insert(r) \/ Respond(r))
    BY DEF Start, LockAccount, ReadAccount, Insert, CanInsert, Respond
  <1>6. ~(InsertDuplicate(r) \/ Reject(r) \/ Die(r))
    BY DEF InsertDuplicate, Reject, Die, Reply, Goto, TypeOK
  <1>7. ~(CommitGift(r) \/ CommitRedeem(r) \/ CommitOffer(r) \/ CommitBonus(r))
    BY DEF CommitGift, CommitRedeem, CommitOffer, CommitBonus
  <1> QED
    BY <1>2, <1>4, <1>5, <1>6, <1>7 DEF Work

LEMMA ReceiptOfCommit ==
    ASSUME IInv, NEW r \in Requests, CommitCheckout(r)
    PROVE  LET u == req[r].user
               credited == {b \in Bonuses : credits'[u][b] # credits[u][b]}
           IN  receipt'[r].balance
                 + (BonusPoints * Cardinality(credited) - receipt'[r].awarded)
               = balance'[u]
  <1> DEFINE u == req[r].user
             credited == {b \in Bonuses : credits'[u][b] # credits[u][b]}
  <1>1. PICK redeemed \in 0..req[r].points, earned \in EarnAmounts,
             B \in SUBSET Uncredited(u), roadmapRaised \in BOOLEAN :
           LET awarded == IF roadmapRaised THEN 0 ELSE BonusPoints * Cardinality(B)
           IN  /\ Commit(r, earned - redeemed, B)
               /\ receipt' = [receipt EXCEPT ![r] =
                     [balance |-> NewBalance(seen[r] - redeemed + earned, awarded),
                      awarded |-> awarded]]
    BY DEF CommitCheckout
  <1> DEFINE bonus == BonusPoints * Cardinality(B)
             awarded == IF roadmapRaised THEN 0 ELSE bonus
  <1>2. u \in Users /\ seen[r] \in Int /\ req[r].points \in Nat
    BY DEF IInv, TypeOK, Body
  <1>s. B \in SUBSET Bonuses
    BY DEF Uncredited
  <1>3. B \in SUBSET Bonuses /\ earned - redeemed \in Int /\ earned \in Int /\ redeemed \in Int
    BY <1>2, <1>s
  <1>4. /\ Cardinality(B) \in Nat
        /\ balance'[u] = seen[r] + ((earned - redeemed) + bonus)
        /\ \A b \in Bonuses : credits'[u][b] = credits[u][b] + (IF b \in B THEN 1 ELSE 0)
    BY <1>1, <1>3, CommitEffect DEF IInv
  <1>5. credited = B
    BY <1>2, <1>3, <1>4 DEF IInv, TypeOK
  <1>6. bonus \in Int /\ awarded \in Int
    BY <1>4
  <1>7. /\ receipt'[r].balance = (seen[r] - redeemed + earned) + awarded
        /\ receipt'[r].awarded = awarded
    BY <1>1 DEF NewBalance, IInv, TypeOK
  <1>8. BonusPoints * Cardinality(credited) = bonus
    BY <1>5
  <1> HIDE DEF u, credited, bonus, awarded
  <1>9. receipt'[r].balance + (BonusPoints * Cardinality(credited) - receipt'[r].awarded)
           = balance'[u]
    BY <1>2, <1>3, <1>4, <1>6, <1>7, <1>8
  <1> QED
    BY <1>9 DEF u, credited

\* The balance on the receipt of a checkout is the committed one, short of exactly
\* the bonuses that the failed roadmap update had credited before it failed.
THEOREM ReceiptIsRight == Spec => ReceiptAddsUp
  <1>1. IInv /\ [Next]_vars => [ReceiptStep]_vars
    BY OnlyCommitReplies, ReceiptOfCommit DEF ReceiptStep, IInv
  <1> QED
    BY <1>1, Invariance, PTL DEF Spec, ReceiptAddsUp, ReceiptStep

-----------------------------------------------------------------------------
\* Waiting.  Every lock belongs to a request that works under it.
HeldInv ==
    \A u \in Users : lock[u] # NoRequest =>
        lock[u] \in Requests /\ Holds(lock[u]) /\ req[lock[u]].user = u

\* A request that ends frees its account.
LEMMA EndHeld ==
    ASSUME TypeOK, HeldInv, NEW r \in Requests, lock' = Unlocked(r), req' = req,
           \A q \in Requests \ {r} : pc'[q] = pc[q]
    PROVE  HeldInv'
  <1> SUFFICES ASSUME NEW u \in Users, lock'[u] # NoRequest
               PROVE  /\ lock'[u] \in Requests /\ pc'[lock'[u]] \in {"insert", "body"}
                      /\ req'[lock'[u]].kind # "gift" /\ req'[lock'[u]].user = u
    BY DEF HeldInv, Holds
  <1>1. lock'[u] = lock[u] /\ lock[u] # r
    BY DEF Unlocked
  <1>2. lock[u] \in Requests /\ Holds(lock[u]) /\ req[lock[u]].user = u
    BY <1>1 DEF HeldInv
  <1> QED
    BY <1>1, <1>2 DEF Holds

\* A request that goes on keeps what it holds.
LEMMA StepHeld ==
    ASSUME TypeOK, HeldInv, NEW r \in Requests, lock' = lock, req' = req,
           \A q \in Requests \ {r} : pc'[q] = pc[q],
           Holds(r) => pc'[r] \in {"insert", "body"}
    PROVE  HeldInv'
  <1> SUFFICES ASSUME NEW u \in Users, lock[u] # NoRequest
               PROVE  lock[u] \in Requests /\ pc'[lock[u]] \in {"insert", "body"}
                      /\ req[lock[u]].kind # "gift" /\ req[lock[u]].user = u
    BY DEF HeldInv, Holds
  <1>1. lock[u] \in Requests /\ Holds(lock[u]) /\ req[lock[u]].user = u
    BY DEF HeldInv
  <1> QED
    BY <1>1 DEF Holds

LEMMA NextHeld == IInv /\ HeldInv /\ [Next]_vars => HeldInv'
  <1> SUFFICES ASSUME IInv, HeldInv, [Next]_vars PROVE HeldInv'
    OBVIOUS
  <1> USE DEF IInv
  <1>1. ASSUME NEW r \in Requests, Start(r) \/ Work(r) \/ Die(r) PROVE HeldInv'
    <2>0. ASSUME NEW label, Goto(r, label)
          PROVE  pc'[r] = label /\ \A q \in Requests \ {r} : pc'[q] = pc[q]
      BY <2>0 DEF Goto, TypeOK
    <2>1. CASE Start(r) \/ ReadAccount(r) \/ Insert(r) \/ Respond(r)
      <3>1. lock' = lock /\ req' = req
        BY <2>1 DEF Start, ReadAccount, Insert, Respond, database
      <3>2. /\ \A q \in Requests \ {r} : pc'[q] = pc[q]
            /\ Holds(r) => pc'[r] \in {"insert", "body"}
        BY <2>0, <2>1 DEF Start, ReadAccount, Insert, CanInsert, Respond, Reply, Holds
      <3> QED
        BY <3>1, <3>2, StepHeld
    <2>2. CASE CommitGift(r)
      <3>1. lock' = lock /\ req' = req /\ ~Holds(r)
        BY <2>2 DEF CommitGift, Holds
      <3>2. \A q \in Requests \ {r} : pc'[q] = pc[q]
        BY <2>0, <2>2 DEF CommitGift
      <3> QED
        BY <3>1, <3>2, StepHeld
    <2>3. CASE InsertDuplicate(r) \/ Reject(r) \/ Die(r)
      <3>1. lock' = Unlocked(r) /\ req' = req
        BY <2>3 DEF InsertDuplicate, Reject, Die, Rollback
      <3>2. \A q \in Requests \ {r} : pc'[q] = pc[q]
        BY <2>0, <2>3 DEF InsertDuplicate, Reject, Die, Reply
      <3> QED
        BY <3>1, <3>2, EndHeld
    <2>4. CASE CommitCheckout(r) \/ CommitRedeem(r) \/ CommitOffer(r) \/ CommitBonus(r)
      <3>1. PICK delta \in Int, B \in SUBSET Uncredited(req[r].user) : Commit(r, delta, B)
        BY <2>4, LedgerCommit
      <3>2. lock' = Unlocked(r) /\ req' = req
        BY <3>1 DEF Commit
      <3>3. \A q \in Requests \ {r} : pc'[q] = pc[q]
        BY <2>0, <3>1 DEF Commit
      <3> QED
        BY <3>2, <3>3, EndHeld
    <2>5. CASE LockAccount(r)
      <3>1. /\ pc[r] = "account" /\ req[r].kind # "gift" /\ req' = req
            /\ lock' = [lock EXCEPT ![req[r].user] = r]
        BY <2>5 DEF LockAccount
      <3>2. /\ pc'[r] \in {"insert", "body"}
            /\ \A q \in Requests \ {r} : pc'[q] = pc[q]
        BY <2>0, <2>5 DEF LockAccount, AfterLock
      <3>3. ASSUME NEW u \in Users, lock'[u] # NoRequest
            PROVE  /\ lock'[u] \in Requests /\ pc'[lock'[u]] \in {"insert", "body"}
                   /\ req'[lock'[u]].kind # "gift" /\ req'[lock'[u]].user = u
        <4>1. CASE u = req[r].user
          BY <3>1, <3>2, <4>1 DEF TypeOK, Holds
        <4>2. CASE u # req[r].user
          <5>1. lock'[u] = lock[u]
            BY <3>1, <4>2 DEF TypeOK
          <5>2. lock[u] \in Requests /\ Holds(lock[u]) /\ req[lock[u]].user = u
            BY <3>3, <5>1 DEF HeldInv
          <5>3. lock[u] # r
            BY <3>1, <5>2 DEF Holds
          <5> QED
            BY <3>1, <3>2, <5>1, <5>2, <5>3 DEF Holds
        <4> QED
          BY <4>1, <4>2
      <3> QED
        BY <3>3 DEF HeldInv, Holds
    <2> QED
      BY <1>1, <2>1, <2>2, <2>3, <2>4, <2>5 DEF Work
  <1>2. CASE UNCHANGED vars
    BY <1>2 DEF vars, database, HeldInv, Holds
  <1> QED
    BY <1>1, <1>2 DEF Next, Finished

LEMMA HeldDecides == IInv /\ HeldInv => WaitsAreShort
  <1> SUFFICES ASSUME IInv, HeldInv PROVE WaitsAreShort
    OBVIOUS
  <1> USE DEF IInv
  <1>1. ASSUME NEW q \in Requests, pc[q] = "body" PROVE WaitsFor(q) = {}
    BY <1>1 DEF WaitsFor
  <1>2. ASSUME NEW q \in Requests, Holds(q), NEW t \in WaitsFor(q)
        PROVE  pc[t] = "body" /\ req[t].kind = "gift"
    <2>1. pc[q] = "insert" /\ t \in Requests /\ row[t] = "pending" /\ SameKey(q, t)
      BY <1>2 DEF WaitsFor, Holds
    <2>2. pc[t] = "body" /\ req[t].user = req[q].user
      BY <2>1 DEF RowInv, SameKey
    <2>3. lock[req[q].user] = q
      BY <1>2 DEF LockInv
    <2>4. ~Holds(t)
      BY <2>1, <2>2, <2>3 DEF LockInv
    <2> QED
      BY <2>2, <2>4 DEF Holds
  <1>3. ASSUME NEW r \in Requests, NEW q \in WaitsFor(r)
        PROVE  /\ pc[q] \in {"insert", "body"}
               /\ \A t \in WaitsFor(q) :
                     pc[t] = "body" /\ req[t].kind = "gift" /\ WaitsFor(t) = {}
    <2>1. q \in Requests
      BY DEF WaitsFor
    <2>2. CASE pc[r] = "account" /\ lock[req[r].user] = q
      <3>1. Holds(q)
        <4>1. req[r].user \in Users
          BY BodyFields
        <4> QED
          BY <2>1, <2>2, <4>1 DEF HeldInv
      <3>2. ASSUME NEW t \in WaitsFor(q)
            PROVE  pc[t] = "body" /\ req[t].kind = "gift" /\ WaitsFor(t) = {}
        <4>1. pc[t] = "body" /\ req[t].kind = "gift" /\ t \in Requests
          BY <1>2, <2>1, <3>1 DEF WaitsFor
        <4> QED
          BY <1>1, <4>1
      <3> QED
        BY <3>1, <3>2 DEF Holds
    <2>3. CASE row[q] = "pending"
      <3>1. pc[q] = "body"
        BY <2>1, <2>3 DEF RowInv
      <3> QED
        BY <1>1, <2>1, <3>1
    <2> QED
      BY <2>2, <2>3 DEF WaitsFor
  <1> QED
    BY <1>3 DEF WaitsAreShort

\* Over accounts and keys requests never wait for each other in a circle, for any number
\* of them: whoever holds the account waits at most for a gift card purchase with its key.
THEOREM NoCircle == Spec => []WaitsAreShort
  <1>1. Init => HeldInv
    BY DEF Init, HeldInv
  <1> QED
    BY <1>1, NextHeld, HeldDecides, Invariance, PTL DEF Spec
=============================================================================
