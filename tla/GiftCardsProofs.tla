--------------------------- MODULE GiftCardsProofs ---------------------------
(***************************************************************************)
(* A gift card keeps its money and its expiry for any number of cards,     *)
(* requests and days.                                                      *)
(***************************************************************************)
EXTENDS GiftCards, TLAPS

\* A checkout between its SELECT FOR UPDATE and its commit works on the row as
\* it is, and arrived in time.
PayInv ==
    \A r \in Requests : pc[r] = "pay" =>
        /\ kind[r] = "pay"
        /\ mine[r] \in Issued
        /\ holder[mine[r]] = r
        /\ copy[r].remaining = card[mine[r]].remaining
        /\ today[r] < card[mine[r]].expires

\* A request that refreshes a status without the lock may see more money than
\* there is left, but never less, and never another expiry.
LookInv ==
    \A r \in Requests :
        /\ today[r] <= now
        /\ pc[r] = "fetch" => mine[r] \in Issued
        /\ pc[r] \in {"judge", "save"} =>
              /\ mine[r] \in Issued
              /\ copy[r].status # "none"
              /\ card[mine[r]].remaining <= copy[r].remaining
              /\ copy[r].expires = card[mine[r]].expires
              /\ copy[r].status = "exhausted" => card[mine[r]].remaining = 0
              /\ copy[r].status = "expired" => copy[r].expires <= now

\* A card has one buyer, who e-mails it once.
BuyInv ==
    \A r \in Requests :
        /\ pc[r] \in {"mail", "stamp", "receipt"} =>
              kind[r] = "buy" /\ receipt[r] # "none"
        /\ receipt[r] # "none" => kind[r] = "buy" /\ mine[r] \in Issued /\ pc[r] # "start"
        /\ pc[r] = "mail" => mails[mine[r]] = 0
        /\ pc[r] = "stamp" => mails[mine[r]] = 1
        /\ \A s \in Requests :
              receipt[r] # "none" /\ receipt[s] # "none" /\ mine[r] = mine[s] => r = s

\* A row that does not exist yet is blank.
BlankInv ==
    \A c \in Cards \ Issued : card[c].remaining = 0 /\ ~card[c].sent /\ mails[c] = 0

IInv ==
    /\ TypeOK
    /\ CardIsJournal /\ MoneyIsNotHidden /\ MailIsBacked
    /\ PayInv /\ LookInv /\ BuyInv /\ BlankInv

USE GiftCardAssumption

-----------------------------------------------------------------------------
LEMMA InitInv == Init => IInv
  <1> SUFFICES ASSUME Init PROVE IInv
    OBVIOUS
  <1>1. TypeOK
    BY DEF Init, TypeOK, CardRow, Statuses, Labels, Blank
  <1>2. CardIsJournal /\ MoneyIsNotHidden /\ MailIsBacked
    BY DEF Init, CardIsJournal, MoneyIsNotHidden, MailIsBacked, Blank
  <1>3. PayInv /\ LookInv /\ BuyInv /\ BlankInv
    BY DEF Init, PayInv, LookInv, BuyInv, BlankInv, Blank, Issued
  <1> QED
    BY <1>1, <1>2, <1>3 DEF IInv

\* What a refresh may conclude.
LEMMA RefreshedStatus ==
    ASSUME NEW g \in CardRow, NEW day \in Nat, g.status # "none"
    PROVE  /\ Refreshed(g, day) \in Statuses \ {"none"}
           /\ Refreshed(g, day) = "exhausted" => g.remaining = 0 \/ g.status = "exhausted"
           /\ Refreshed(g, day) = "expired" => g.expires <= day \/ g.status = "expired"
           /\ g.remaining > 0 /\ Refreshed(g, day) \notin {"expired", "refunded"}
                 => g.expires > day
  BY DEF Refreshed, CardRow, Statuses

-----------------------------------------------------------------------------
\* One lemma per action.

LEMMA IssueInv ==
    ASSUME IInv, NEW r \in Requests, Issue(r)
    PROVE  IInv'
  <1> USE DEF IInv
  <1>1. /\ pc[r] = "start" /\ kind[r] = "buy" /\ mine[r] \in Cards /\ mine[r] \notin Issued
        /\ UNCHANGED <<mails, holder, now, kind, mine, copy, today>>
        /\ pc' = [pc EXCEPT ![r] = "mail"]
        /\ receipt' = [receipt EXCEPT ![r] = "unsent"]
        /\ ledger' = [ledger EXCEPT ![mine[r]] = Amount]
    BY DEF Issue, Goto, TypeOK
  <1> DEFINE new == [status |-> "active", remaining |-> Amount,
                     expires |-> now + Ttl, sent |-> FALSE]
  <1>2. card' = [card EXCEPT ![mine[r]] = new]
    BY DEF Issue
  <1>3. new \in CardRow /\ new.status = "active" /\ new.remaining = Amount /\ ~new.sent
    BY DEF CardRow, Statuses, TypeOK
  <1> HIDE DEF new
  <1>4. TypeOK'
    BY <1>1, <1>2, <1>3 DEF TypeOK, Labels
  <1>5. Issued' = Issued \cup {mine[r]}
    BY <1>1, <1>2, <1>3 DEF Issued, TypeOK
  <1>6. CardIsJournal' /\ MoneyIsNotHidden'
    BY <1>1, <1>2, <1>3 DEF CardIsJournal, MoneyIsNotHidden, TypeOK
  <1>7. BlankInv'
    BY <1>1, <1>2, <1>5 DEF BlankInv, TypeOK
  <1>8. PayInv'
    BY <1>1, <1>2, <1>5 DEF PayInv, TypeOK
  <1>9. LookInv'
    BY <1>1, <1>2, <1>5 DEF LookInv, TypeOK
  <1>10. BuyInv'
    BY <1>1, <1>5 DEF BuyInv, BlankInv, TypeOK
  <1>11. MailIsBacked'
    BY <1>1, <1>2, <1>3, <1>5 DEF MailIsBacked, BlankInv, TypeOK
  <1> QED
    BY <1>4, <1>6, <1>7, <1>8, <1>9, <1>10, <1>11

\* Steps that end the request without touching a row, except its own lock.
LEMMA LeaveInv ==
    ASSUME IInv, NEW r \in Requests, BuyFails(r) \/ Die(r)
    PROVE  IInv'
  <1> USE DEF IInv
  <1>1. /\ UNCHANGED <<card, ledger, mails, now, kind, mine, copy, today, receipt>>
        /\ pc' = [pc EXCEPT ![r] = "done"]
        /\ holder' \in [Cards -> Requests \cup {NoRequest}]
        /\ \A c \in Cards : holder[c] # r => holder'[c] = holder[c]
    BY DEF BuyFails, Die, Goto, Released, rows, local, TypeOK
  <1>2. Issued' = Issued
    BY <1>1 DEF Issued
  <1>3. TypeOK' /\ CardIsJournal' /\ MoneyIsNotHidden' /\ BlankInv'
    BY <1>1, <1>2 DEF TypeOK, Labels, CardIsJournal, MoneyIsNotHidden, BlankInv
  <1>4. PayInv' /\ LookInv'
    BY <1>1, <1>2 DEF PayInv, LookInv, TypeOK
  <1>5. BuyInv' /\ MailIsBacked'
    BY <1>1, <1>2 DEF BuyInv, MailIsBacked, TypeOK
  <1> QED
    BY <1>3, <1>4, <1>5

LEMMA MailInv ==
    ASSUME IInv, NEW r \in Requests, Mail(r)
    PROVE  IInv'
  <1> USE DEF IInv
  <1>1. /\ pc[r] = "mail"
        /\ UNCHANGED <<card, ledger, holder, now, kind, mine, copy, today, receipt>>
        /\ \/ /\ mails' = [mails EXCEPT ![mine[r]] = @ + 1]
              /\ \E label \in {"stamp", "receipt"} : pc' = [pc EXCEPT ![r] = label]
           \/ mails' = mails /\ pc' = [pc EXCEPT ![r] = "receipt"]
    BY DEF Mail, Goto, local
  <1>2. Issued' = Issued
    BY <1>1 DEF Issued
  <1>3. mine[r] \in Issued /\ mails[mine[r]] = 0 /\ mine[r] \in Cards
    BY <1>1 DEF BuyInv, TypeOK
  <1>4. TypeOK' /\ CardIsJournal' /\ MoneyIsNotHidden' /\ BlankInv'
    BY <1>1, <1>2, <1>3 DEF TypeOK, Labels, CardIsJournal, MoneyIsNotHidden, BlankInv
  <1>5. PayInv' /\ LookInv'
    BY <1>1, <1>2 DEF PayInv, LookInv, TypeOK
  <1>6. BuyInv'
    BY <1>1, <1>2, <1>3 DEF BuyInv, TypeOK
  <1>7. MailIsBacked'
    BY <1>1, <1>2, <1>3 DEF MailIsBacked, TypeOK
  <1> QED
    BY <1>4, <1>5, <1>6, <1>7

LEMMA StampInv ==
    ASSUME IInv, NEW r \in Requests, Stamp(r)
    PROVE  IInv'
  <1> USE DEF IInv
  <1>1. /\ pc[r] = "stamp" /\ mine[r] \in Cards
        /\ UNCHANGED <<ledger, mails, holder, now, kind, mine, copy, today, receipt>>
        /\ pc' = [pc EXCEPT ![r] = "receipt"]
        /\ card' = [card EXCEPT ![mine[r]] = [card[mine[r]] EXCEPT !.sent = TRUE]]
    BY DEF Stamp, Stamped, Goto, local, TypeOK
  <1>2. /\ card' \in [Cards -> CardRow]
        /\ \A c \in Cards :
              /\ card'[c].status = card[c].status
              /\ card'[c].remaining = card[c].remaining
              /\ card'[c].expires = card[c].expires
              /\ card'[c].sent => card[c].sent \/ c = mine[r]
    <2> DEFINE new == [card[mine[r]] EXCEPT !.sent = TRUE]
    <2>1. card[mine[r]] \in CardRow
      BY <1>1 DEF TypeOK
    <2>2. /\ new \in CardRow
          /\ new.status = card[mine[r]].status
          /\ new.remaining = card[mine[r]].remaining
          /\ new.expires = card[mine[r]].expires
      BY <2>1 DEF CardRow
    <2> HIDE DEF new
    <2>3. card' = [card EXCEPT ![mine[r]] = new]
      BY <1>1 DEF new
    <2>4. card' \in [Cards -> CardRow]
      BY <2>2, <2>3 DEF TypeOK
    <2>5. ASSUME NEW c \in Cards
          PROVE  /\ card'[c].status = card[c].status
                 /\ card'[c].remaining = card[c].remaining
                 /\ card'[c].expires = card[c].expires
                 /\ card'[c].sent => card[c].sent \/ c = mine[r]
      <3>1. CASE c = mine[r]
        BY <1>1, <2>2, <2>3, <3>1 DEF TypeOK
      <3>2. CASE c # mine[r]
        <4>1. card'[c] = card[c]
          BY <2>3, <3>2 DEF TypeOK
        <4> QED
          BY <4>1
      <3> QED
        BY <3>1, <3>2
    <2> QED
      BY <2>4, <2>5
  <1>3. Issued' = Issued
    BY <1>2 DEF Issued
  <1>4. mine[r] \in Issued /\ mails[mine[r]] = 1
    BY <1>1 DEF BuyInv
  <1>5. TypeOK' /\ CardIsJournal' /\ MoneyIsNotHidden'
    BY <1>1, <1>2 DEF TypeOK, Labels, CardIsJournal, MoneyIsNotHidden
  <1>6. BlankInv'
    BY <1>1, <1>2, <1>3, <1>4 DEF BlankInv
  <1>10. MailIsBacked'
    BY <1>1, <1>2, <1>3, <1>4 DEF MailIsBacked
  <1>7. PayInv'
    BY <1>1, <1>2, <1>3 DEF PayInv, TypeOK
  <1>8. LookInv'
    BY <1>1, <1>2, <1>3 DEF LookInv, TypeOK
  <1>9. BuyInv'
    BY <1>1, <1>3 DEF BuyInv, TypeOK
  <1> QED
    BY <1>5, <1>6, <1>7, <1>8, <1>9, <1>10

LEMMA StoreReceiptInv ==
    ASSUME IInv, NEW r \in Requests, StoreReceipt(r)
    PROVE  IInv'
  <1> USE DEF IInv
  <1>1. /\ pc[r] = "receipt"
        /\ UNCHANGED <<card, ledger, mails, holder, now, kind, mine, copy, today>>
        /\ pc' = [pc EXCEPT ![r] = "done"]
        /\ receipt' = [receipt EXCEPT ![r] = EmailSent(r)]
    BY DEF StoreReceipt, Goto, rows
  <1>2. /\ EmailSent(r) \in {"sent", "unsent"}
        /\ EmailSent(r) = "sent" => mails[mine[r]] = 1
    BY DEF EmailSent, MailIsBacked, TypeOK
  <1>3. Issued' = Issued
    BY <1>1 DEF Issued
  <1>4. TypeOK' /\ CardIsJournal' /\ MoneyIsNotHidden' /\ BlankInv'
    BY <1>1, <1>2, <1>3 DEF TypeOK, Labels, CardIsJournal, MoneyIsNotHidden, BlankInv
  <1>5. PayInv' /\ LookInv'
    BY <1>1, <1>3 DEF PayInv, LookInv, TypeOK
  <1>6. BuyInv' /\ MailIsBacked'
    BY <1>1, <1>2, <1>3 DEF BuyInv, MailIsBacked, TypeOK
  <1> QED
    BY <1>4, <1>5, <1>6

LEMMA BeginInv ==
    ASSUME IInv, NEW r \in Requests, Begin(r)
    PROVE  IInv'
  <1> USE DEF IInv
  <1>1. /\ kind[r] # "buy" /\ mine[r] \in Issued /\ now \in Nat
        /\ UNCHANGED <<card, ledger, mails, holder, now, kind, mine, copy, receipt>>
        /\ pc' = [pc EXCEPT ![r] = "fetch"]
        /\ today' = [today EXCEPT ![r] = now]
    BY DEF Begin, Goto, rows, TypeOK
  <1>2. Issued' = Issued
    BY <1>1 DEF Issued
  <1>3. TypeOK' /\ CardIsJournal' /\ MoneyIsNotHidden' /\ BlankInv'
    BY <1>1, <1>2 DEF TypeOK, Labels, CardIsJournal, MoneyIsNotHidden, BlankInv
  <1>4. PayInv'
    BY <1>1, <1>2 DEF PayInv, TypeOK
  <1>5. LookInv'
    BY <1>1, <1>2 DEF LookInv, TypeOK
  <1>6. BuyInv' /\ MailIsBacked'
    BY <1>1, <1>2 DEF BuyInv, MailIsBacked, TypeOK
  <1> QED
    BY <1>3, <1>4, <1>5, <1>6

LEMMA FetchToPayInv ==
    ASSUME IInv, NEW r \in Requests, FetchToPay(r)
    PROVE  IInv'
  <1> USE DEF IInv
  <1> DEFINE g == card[mine[r]]
             refreshed == [g EXCEPT !.status = Refreshed(g, today[r])]
  <1>1. /\ pc[r] = "fetch" /\ kind[r] = "pay" /\ holder[mine[r]] = NoRequest
        /\ UNCHANGED <<card, ledger, mails, now, kind, mine, today, receipt>>
        /\ copy' = [copy EXCEPT ![r] = refreshed]
        /\ \/ /\ Redeemable(refreshed) /\ pc' = [pc EXCEPT ![r] = "pay"]
              /\ holder' = [holder EXCEPT ![mine[r]] = r]
           \/ pc' = [pc EXCEPT ![r] = "done"] /\ holder' = holder
    BY DEF FetchToPay, Goto
  <1>2. mine[r] \in Issued /\ mine[r] \in Cards /\ g \in CardRow /\ g.status # "none"
    BY <1>1 DEF LookInv, TypeOK, Issued
  <1>3. today[r] \in Nat
    BY DEF TypeOK
  <1>4. /\ Refreshed(g, today[r]) \in Statuses
        /\ g.remaining > 0 /\ Refreshed(g, today[r]) \notin {"expired", "refunded"}
              => today[r] < g.expires
    BY <1>2, <1>3, RefreshedStatus DEF CardRow
  <1>5. /\ refreshed \in CardRow
        /\ refreshed.remaining = g.remaining
        /\ refreshed.status = Refreshed(g, today[r])
    BY <1>2, <1>4 DEF CardRow
  <1>6. Redeemable(refreshed) => today[r] < g.expires
    BY <1>4, <1>5 DEF Redeemable
  <1> HIDE DEF refreshed
  <1>7. Issued' = Issued
    BY <1>1 DEF Issued
  <1>8. TypeOK' /\ CardIsJournal' /\ MoneyIsNotHidden' /\ BlankInv'
    BY <1>1, <1>2, <1>5, <1>7 DEF TypeOK, Labels, CardIsJournal, MoneyIsNotHidden, BlankInv
  <1>9. PayInv'
    <2> SUFFICES ASSUME NEW q \in Requests, pc'[q] = "pay"
                 PROVE  /\ kind'[q] = "pay" /\ mine'[q] \in Issued'
                        /\ holder'[mine'[q]] = q
                        /\ copy'[q].remaining = card'[mine'[q]].remaining
                        /\ today'[q] < card'[mine'[q]].expires
      BY DEF PayInv
    <2>1. CASE q = r
      BY <1>1, <1>2, <1>5, <1>6, <1>7, <2>1 DEF TypeOK
    <2>2. CASE q # r
      <3>1. /\ kind[q] = "pay" /\ mine[q] \in Issued /\ mine[q] \in Cards
            /\ holder[mine[q]] = q
            /\ copy[q].remaining = card[mine[q]].remaining
            /\ today[q] < card[mine[q]].expires
        BY <1>1, <2>2 DEF PayInv, TypeOK
      <3>2. copy'[q] = copy[q] /\ holder'[mine[q]] = holder[mine[q]]
        BY <1>1, <2>2, <3>1 DEF TypeOK
      <3> QED
        BY <1>1, <1>7, <3>1, <3>2
    <2> QED
      BY <2>1, <2>2
  <1>10. LookInv'
    BY <1>1, <1>2, <1>7 DEF LookInv, TypeOK
  <1>11. BuyInv' /\ MailIsBacked'
    BY <1>1, <1>7 DEF BuyInv, MailIsBacked, TypeOK
  <1> QED
    BY <1>8, <1>9, <1>10, <1>11

LEMMA FetchInv ==
    ASSUME IInv, NEW r \in Requests, Fetch(r)
    PROVE  IInv'
  <1> USE DEF IInv
  <1>1. /\ pc[r] = "fetch"
        /\ UNCHANGED <<card, ledger, mails, holder, now, kind, mine, today, receipt>>
        /\ copy' = [copy EXCEPT ![r] = card[mine[r]]]
        /\ pc' = [pc EXCEPT ![r] = "judge"]
    BY DEF Fetch, Goto, rows
  <1>2. /\ mine[r] \in Issued /\ mine[r] \in Cards /\ card[mine[r]] \in CardRow
        /\ card[mine[r]].status # "none" /\ card[mine[r]].remaining \in Nat
    BY <1>1 DEF LookInv, Issued, TypeOK, CardRow
  <1>3. Issued' = Issued
    BY <1>1 DEF Issued
  <1>4. TypeOK' /\ CardIsJournal' /\ MoneyIsNotHidden' /\ BlankInv'
    BY <1>1, <1>2, <1>3 DEF TypeOK, Labels, CardIsJournal, MoneyIsNotHidden, BlankInv
  <1>5. PayInv'
    BY <1>1, <1>3 DEF PayInv, TypeOK
  <1>6. LookInv'
    <2> SUFFICES ASSUME NEW q \in Requests
                 PROVE  /\ today[q] <= now
                        /\ pc'[q] = "fetch" => mine[q] \in Issued
                        /\ pc'[q] \in {"judge", "save"} =>
                              /\ mine[q] \in Issued
                              /\ copy'[q].status # "none"
                              /\ card[mine[q]].remaining <= copy'[q].remaining
                              /\ copy'[q].expires = card[mine[q]].expires
                              /\ copy'[q].status = "exhausted" => card[mine[q]].remaining = 0
                              /\ copy'[q].status = "expired" => copy'[q].expires <= now
      BY <1>1, <1>3 DEF LookInv
    <2>1. CASE q = r
      <3>1. copy'[r] = card[mine[r]] /\ pc'[r] = "judge"
        BY <1>1 DEF TypeOK
      <3>2. /\ card[mine[r]].status = "exhausted" => card[mine[r]].remaining = 0
            /\ card[mine[r]].status = "expired" => card[mine[r]].expires <= now
        BY <1>2 DEF MoneyIsNotHidden
      <3> QED
        BY <1>2, <2>1, <3>1, <3>2 DEF LookInv
    <2>2. CASE q # r
      <3>1. copy'[q] = copy[q] /\ pc'[q] = pc[q]
        BY <1>1, <2>2 DEF TypeOK
      <3> QED
        BY <3>1 DEF LookInv
    <2> QED
      BY <2>1, <2>2
  <1>7. BuyInv' /\ MailIsBacked'
    BY <1>1, <1>3 DEF BuyInv, MailIsBacked, TypeOK
  <1> QED
    BY <1>4, <1>5, <1>6, <1>7

LEMMA JudgeInv ==
    ASSUME IInv, NEW r \in Requests, Judge(r)
    PROVE  IInv'
  <1> USE DEF IInv
  <1> DEFINE day == IF kind[r] = "list" THEN now ELSE today[r]
             status == Refreshed(copy[r], day)
             judged == [copy[r] EXCEPT !.status = status]
  <1>1. /\ pc[r] = "judge"
        /\ UNCHANGED <<card, ledger, mails, holder, now, kind, mine, today, receipt>>
        /\ copy' = [copy EXCEPT ![r] = judged]
        /\ pc' = [pc EXCEPT ![r] = IF status = copy[r].status THEN "done" ELSE "save"]
    BY DEF Judge, Goto, rows, TypeOK
  <1>2. /\ mine[r] \in Issued /\ mine[r] \in Cards /\ card[mine[r]] \in CardRow
        /\ copy[r] \in CardRow /\ copy[r].status # "none"
        /\ card[mine[r]].remaining <= copy[r].remaining
        /\ copy[r].expires = card[mine[r]].expires
        /\ copy[r].status = "exhausted" => card[mine[r]].remaining = 0
        /\ copy[r].status = "expired" => copy[r].expires <= now
    BY <1>1 DEF LookInv, TypeOK
  <1>3. day \in Nat /\ now \in Nat /\ day <= now
    BY DEF LookInv, TypeOK
  <1> HIDE DEF day
  <1>4. /\ status \in Statuses \ {"none"}
        /\ status = "exhausted" => copy[r].remaining = 0 \/ copy[r].status = "exhausted"
        /\ status = "expired" => copy[r].expires <= day \/ copy[r].status = "expired"
    BY <1>2, <1>3, RefreshedStatus
  <1> HIDE DEF status
  <1>5. /\ judged \in CardRow /\ judged.status = status
        /\ judged.remaining = copy[r].remaining /\ judged.expires = copy[r].expires
    BY <1>2, <1>4 DEF CardRow
  <1> HIDE DEF judged
  <1>6. /\ status = "exhausted" => card[mine[r]].remaining = 0
        /\ status = "expired" => copy[r].expires <= now
    BY <1>2, <1>3, <1>4 DEF CardRow
  <1>7. Issued' = Issued
    BY <1>1 DEF Issued
  <1>8. TypeOK' /\ CardIsJournal' /\ MoneyIsNotHidden' /\ BlankInv'
    BY <1>1, <1>5, <1>7 DEF TypeOK, Labels, CardIsJournal, MoneyIsNotHidden, BlankInv
  <1>9. PayInv'
    BY <1>1, <1>7 DEF PayInv, TypeOK
  <1>10. LookInv'
    <2> SUFFICES ASSUME NEW q \in Requests
                 PROVE  /\ today[q] <= now
                        /\ pc'[q] = "fetch" => mine[q] \in Issued
                        /\ pc'[q] \in {"judge", "save"} =>
                              /\ mine[q] \in Issued
                              /\ copy'[q].status # "none"
                              /\ card[mine[q]].remaining <= copy'[q].remaining
                              /\ copy'[q].expires = card[mine[q]].expires
                              /\ copy'[q].status = "exhausted" => card[mine[q]].remaining = 0
                              /\ copy'[q].status = "expired" => copy'[q].expires <= now
      BY <1>1, <1>7 DEF LookInv
    <2>1. CASE q = r
      <3>1. copy'[r] = judged /\ pc'[r] # "fetch"
        BY <1>1 DEF TypeOK
      <3> QED
        BY <1>2, <1>4, <1>5, <1>6, <2>1, <3>1 DEF LookInv
    <2>2. CASE q # r
      <3>1. copy'[q] = copy[q] /\ pc'[q] = pc[q]
        BY <1>1, <2>2 DEF TypeOK
      <3> QED
        BY <3>1 DEF LookInv
    <2> QED
      BY <2>1, <2>2
  <1>11. BuyInv' /\ MailIsBacked'
    BY <1>1, <1>7 DEF BuyInv, MailIsBacked, TypeOK
  <1> QED
    BY <1>8, <1>9, <1>10, <1>11

\* What is common to the steps that write the status of one card and nothing
\* else of any row.
LEMMA StatusWritten ==
    ASSUME IInv, NEW c \in Cards, NEW status \in Statuses \ {"none"},
           card' = [card EXCEPT ![c].status = status],
           c \in Issued,
           status = "exhausted" => card[c].remaining = 0,
           status = "expired" => card[c].expires <= now,
           UNCHANGED <<ledger, mails, holder, now, kind, mine, copy, today, receipt>>
    PROVE  /\ card' \in [Cards -> CardRow]
           /\ \A d \in Cards : /\ card'[d].remaining = card[d].remaining
                               /\ card'[d].expires = card[d].expires
                               /\ card'[d].sent = card[d].sent
           /\ Issued' = Issued
           /\ CardIsJournal' /\ MoneyIsNotHidden' /\ MailIsBacked' /\ BlankInv'
  <1> DEFINE new == [card[c] EXCEPT !.status = status]
  <1>1. card \in [Cards -> CardRow] /\ card[c] \in CardRow
    BY DEF IInv, TypeOK
  <1>2. /\ new \in CardRow /\ new.status = status
        /\ new.remaining = card[c].remaining
        /\ new.expires = card[c].expires /\ new.sent = card[c].sent
    BY <1>1 DEF CardRow
  <1>3. card' = [card EXCEPT ![c] = new]
    OBVIOUS
  <1> HIDE DEF new
  <1>4. card' \in [Cards -> CardRow]
    BY <1>1, <1>2, <1>3
  <1>5. ASSUME NEW d \in Cards
        PROVE  /\ card'[d].remaining = card[d].remaining
               /\ card'[d].expires = card[d].expires
               /\ card'[d].sent = card[d].sent
               /\ card'[d].status = IF d = c THEN status ELSE card[d].status
    <2>1. CASE d = c
      BY <1>1, <1>2, <1>3, <2>1
    <2>2. CASE d # c
      <3>1. card'[d] = card[d]
        BY <1>1, <1>3, <2>2
      <3> QED
        BY <2>2, <3>1
    <2> QED
      BY <2>1, <2>2
  <1>6. Issued' = Issued
    BY <1>5 DEF Issued
  <1>7. CardIsJournal' /\ MoneyIsNotHidden'
    BY <1>5 DEF IInv, CardIsJournal, MoneyIsNotHidden
  <1>8. MailIsBacked' /\ BlankInv'
    BY <1>5, <1>6 DEF IInv, MailIsBacked, BlankInv
  <1> QED
    BY <1>4, <1>5, <1>6, <1>7, <1>8

LEMMA SaveInv ==
    ASSUME IInv, NEW r \in Requests, Save(r)
    PROVE  IInv'
  <1> USE DEF IInv
  <1>1. /\ pc[r] = "save"
        /\ UNCHANGED <<ledger, mails, holder, now, kind, mine, copy, today, receipt>>
        /\ card' = [card EXCEPT ![mine[r]].status = copy[r].status]
        /\ pc' = [pc EXCEPT ![r] = "done"]
    BY DEF Save, Goto, local
  <1>2. /\ mine[r] \in Issued /\ mine[r] \in Cards
        /\ copy[r].status \in Statuses \ {"none"}
        /\ copy[r].status = "exhausted" => card[mine[r]].remaining = 0
        /\ copy[r].status = "expired" => card[mine[r]].expires <= now
    BY <1>1 DEF LookInv, TypeOK, CardRow
  <1>3. /\ card' \in [Cards -> CardRow]
        /\ \A d \in Cards : /\ card'[d].remaining = card[d].remaining
                            /\ card'[d].expires = card[d].expires
                            /\ card'[d].sent = card[d].sent
        /\ Issued' = Issued
        /\ CardIsJournal' /\ MoneyIsNotHidden' /\ MailIsBacked' /\ BlankInv'
    BY <1>1, <1>2, StatusWritten
  <1>4. TypeOK'
    BY <1>1, <1>3 DEF TypeOK, Labels
  <1>5. PayInv'
    BY <1>1, <1>3 DEF PayInv, TypeOK
  <1>6. LookInv'
    BY <1>1, <1>3 DEF LookInv, TypeOK
  <1>7. BuyInv'
    BY <1>1, <1>3 DEF BuyInv, TypeOK
  <1> QED
    BY <1>3, <1>4, <1>5, <1>6, <1>7

LEMMA RefundInv ==
    ASSUME IInv, NEW c \in Cards, Refund(c)
    PROVE  IInv'
  <1> USE DEF IInv
  <1>1. /\ c \in Issued
        /\ UNCHANGED <<ledger, mails, holder, now, kind, pc, mine, copy, today, receipt>>
        /\ card' = [card EXCEPT ![c].status = "refunded"]
    BY DEF Refund, local
  <1>2. /\ card' \in [Cards -> CardRow]
        /\ \A d \in Cards : /\ card'[d].remaining = card[d].remaining
                            /\ card'[d].expires = card[d].expires
                            /\ card'[d].sent = card[d].sent
        /\ Issued' = Issued
        /\ CardIsJournal' /\ MoneyIsNotHidden' /\ MailIsBacked' /\ BlankInv'
    <2>1. "refunded" \in Statuses \ {"none"}
      BY DEF Statuses
    <2> QED
      BY <1>1, <2>1, StatusWritten
  <1>3. TypeOK'
    BY <1>1, <1>2 DEF TypeOK
  <1>4. PayInv'
    BY <1>1, <1>2 DEF PayInv, TypeOK
  <1>5. LookInv'
    BY <1>1, <1>2 DEF LookInv, TypeOK
  <1>6. BuyInv'
    BY <1>1, <1>2 DEF BuyInv
  <1> QED
    BY <1>2, <1>3, <1>4, <1>5, <1>6

LEMMA NextDayInv ==
    ASSUME IInv, NextDay
    PROVE  IInv'
  <1> USE DEF IInv
  <1>1. /\ now' = now + 1 /\ now' \in 0..LastDay /\ now \in Nat
        /\ UNCHANGED <<card, ledger, mails, holder, pc, kind, mine, copy, today, receipt>>
    BY DEF NextDay, rows, local, TypeOK
  <1>2. Issued' = Issued
    BY <1>1 DEF Issued
  <1>3. TypeOK' /\ CardIsJournal' /\ BlankInv'
    BY <1>1, <1>2 DEF TypeOK, CardIsJournal, BlankInv
  <1>4. MoneyIsNotHidden'
    BY <1>1 DEF MoneyIsNotHidden, TypeOK, CardRow
  <1>5. PayInv' /\ BuyInv' /\ MailIsBacked'
    BY <1>1, <1>2 DEF PayInv, BuyInv, MailIsBacked
  <1>6. LookInv'
    <2>1. ASSUME NEW x \in Nat, x <= now PROVE x <= now'
      BY <1>1, <2>1
    <2>2. \A q \in Requests : today[q] \in Nat /\ copy[q].expires \in Nat
      BY DEF TypeOK, CardRow
    <2> QED
      BY <1>1, <1>2, <2>1, <2>2 DEF LookInv
  <1> QED
    BY <1>3, <1>4, <1>5, <1>6

\* What a payment does to the rows; the action property follows from it too.
LEMMA PayEffect ==
    ASSUME IInv, NEW r \in Requests, Pay(r)
    PROVE  \E after \in Nat :
              /\ after <= card[mine[r]].remaining
              /\ card' \in [Cards -> CardRow]
              /\ ledger' \in [Cards -> Nat]
              /\ ledger'[mine[r]] = after
              /\ \A d \in Cards :
                    /\ card'[d].remaining = IF d = mine[r] THEN after ELSE card[d].remaining
                    /\ card'[d].status = IF d = mine[r]
                                         THEN IF after <= 0 THEN "exhausted" ELSE "active"
                                         ELSE card[d].status
                    /\ card'[d].expires = card[d].expires
                    /\ card'[d].sent = card[d].sent
                    /\ d # mine[r] => ledger'[d] = ledger[d]
  <1> USE DEF IInv
  <1>1. /\ pc[r] = "pay" /\ mine[r] \in Issued /\ mine[r] \in Cards
        /\ card \in [Cards -> CardRow] /\ card[mine[r]] \in CardRow
        /\ ledger \in [Cards -> Nat]
        /\ copy[r].remaining = card[mine[r]].remaining
        /\ card[mine[r]].remaining \in Nat
        /\ ledger[mine[r]] = card[mine[r]].remaining
    BY DEF Pay, PayInv, TypeOK, CardIsJournal, CardRow
  <1>2. PICK due \in Dues :
           LET applied == Applied(copy[r], due)
               after == Max(copy[r].remaining - applied, 0)
           IN  /\ card' = [card EXCEPT
                    ![mine[r]].remaining = after,
                    ![mine[r]].status = IF after <= 0 THEN "exhausted" ELSE "active"]
               /\ ledger' = [ledger EXCEPT ![mine[r]] = @ - applied]
    BY DEF Pay
  <1> DEFINE applied == Applied(copy[r], due)
             after == Max(copy[r].remaining - applied, 0)
             status == IF after <= 0 THEN "exhausted" ELSE "active"
             new == [[card[mine[r]] EXCEPT !.remaining = after] EXCEPT !.status = status]
  <1>3. /\ applied \in Nat /\ after \in Nat
        /\ after = card[mine[r]].remaining - applied
        /\ after <= card[mine[r]].remaining
    BY <1>1 DEF Applied, Min, Max
  <1>4. card' = [card EXCEPT ![mine[r]] = new]
    BY <1>1, <1>2
  <1>5. ledger' = [ledger EXCEPT ![mine[r]] = @ - applied]
    BY <1>2
  <1> HIDE DEF applied, after
  <1>6. /\ new \in CardRow /\ new.remaining = after /\ new.status = status
        /\ new.expires = card[mine[r]].expires /\ new.sent = card[mine[r]].sent
    BY <1>1, <1>3 DEF CardRow, Statuses
  <1> HIDE DEF new
  <1>7. card' \in [Cards -> CardRow]
    BY <1>1, <1>4, <1>6
  <1>8. ledger' \in [Cards -> Nat] /\ ledger'[mine[r]] = after
    BY <1>1, <1>3, <1>5
  <1>9. ASSUME NEW d \in Cards
        PROVE  /\ card'[d].remaining = IF d = mine[r] THEN after ELSE card[d].remaining
               /\ card'[d].status = IF d = mine[r] THEN status ELSE card[d].status
               /\ card'[d].expires = card[d].expires
               /\ card'[d].sent = card[d].sent
               /\ d # mine[r] => ledger'[d] = ledger[d]
    <2>1. CASE d = mine[r]
      <3>1. card'[d] = new
        BY <1>1, <1>4, <2>1
      <3> QED
        BY <1>6, <2>1, <3>1
    <2>2. CASE d # mine[r]
      <3>1. card'[d] = card[d] /\ ledger'[d] = ledger[d]
        BY <1>1, <1>4, <1>5, <2>2
      <3> QED
        BY <2>2, <3>1
    <2> QED
      BY <2>1, <2>2
  <1> QED
    BY <1>3, <1>7, <1>8, <1>9

LEMMA PayStepInv ==
    ASSUME IInv, NEW r \in Requests, Pay(r)
    PROVE  IInv'
  <1> USE DEF IInv
  <1>1. /\ pc[r] = "pay" /\ mine[r] \in Issued /\ mine[r] \in Cards
        /\ holder[mine[r]] = r
        /\ holder' = Released(r)
        /\ pc' = [pc EXCEPT ![r] = "done"]
        /\ UNCHANGED <<mails, now, kind, mine, copy, today, receipt>>
    BY DEF Pay, PayInv, Goto, local, TypeOK
  <1>2. PICK after \in Nat :
              /\ after <= card[mine[r]].remaining
              /\ card' \in [Cards -> CardRow]
              /\ ledger' \in [Cards -> Nat]
              /\ ledger'[mine[r]] = after
              /\ \A d \in Cards :
                    /\ card'[d].remaining = IF d = mine[r] THEN after ELSE card[d].remaining
                    /\ card'[d].status = IF d = mine[r]
                                         THEN IF after <= 0 THEN "exhausted" ELSE "active"
                                         ELSE card[d].status
                    /\ card'[d].expires = card[d].expires
                    /\ card'[d].sent = card[d].sent
                    /\ d # mine[r] => ledger'[d] = ledger[d]
    BY PayEffect
  <1>3. /\ holder' \in [Cards -> Requests \cup {NoRequest}]
        /\ \A d \in Cards : holder[d] # r => holder'[d] = holder[d]
    BY <1>1 DEF Released, TypeOK
  <1>4. Issued' = Issued
    BY <1>1, <1>2 DEF Issued
  <1>5. \A d \in Cards : card[d].remaining \in Nat /\ card[d].remaining <= Amount
    BY DEF CardIsJournal
  <1>6. TypeOK'
    BY <1>1, <1>2, <1>3 DEF TypeOK, Labels
  <1>7. CardIsJournal'
    BY <1>2, <1>5 DEF CardIsJournal
  <1>8. MoneyIsNotHidden'
    BY <1>1, <1>2 DEF MoneyIsNotHidden
  <1>9. MailIsBacked'
    BY <1>1, <1>2, <1>4 DEF MailIsBacked
  <1>10. BlankInv'
    BY <1>1, <1>2, <1>4 DEF BlankInv
  <1>11. PayInv'
    <2> SUFFICES ASSUME NEW q \in Requests, pc'[q] = "pay"
                 PROVE  /\ kind[q] = "pay" /\ mine[q] \in Issued
                        /\ holder'[mine[q]] = q
                        /\ copy[q].remaining = card'[mine[q]].remaining
                        /\ today[q] < card'[mine[q]].expires
      BY <1>1, <1>4 DEF PayInv
    <2>1. q # r /\ pc[q] = "pay"
      BY <1>1 DEF TypeOK
    <2>2. /\ kind[q] = "pay" /\ mine[q] \in Issued /\ mine[q] \in Cards
          /\ holder[mine[q]] = q
          /\ copy[q].remaining = card[mine[q]].remaining
          /\ today[q] < card[mine[q]].expires
      BY <2>1 DEF PayInv, TypeOK
    <2>3. mine[q] # mine[r]
      BY <1>1, <2>1, <2>2
    <2> QED
      BY <1>2, <1>3, <2>1, <2>2, <2>3
  <1>12. LookInv'
    <2> SUFFICES ASSUME NEW q \in Requests
                 PROVE  /\ today[q] <= now
                        /\ pc'[q] = "fetch" => mine[q] \in Issued
                        /\ pc'[q] \in {"judge", "save"} =>
                              /\ mine[q] \in Issued
                              /\ copy[q].status # "none"
                              /\ card'[mine[q]].remaining <= copy[q].remaining
                              /\ copy[q].expires = card'[mine[q]].expires
                              /\ copy[q].status = "exhausted" => card'[mine[q]].remaining = 0
                              /\ copy[q].status = "expired" => copy[q].expires <= now
      BY <1>1, <1>4 DEF LookInv
    <2>1. mine[q] \in Cards /\ copy[q].remaining \in Nat
      BY DEF TypeOK, CardRow
    <2>2. /\ card'[mine[q]].remaining \in Nat
          /\ card'[mine[q]].remaining <= card[mine[q]].remaining
          /\ card'[mine[q]].expires = card[mine[q]].expires
      BY <1>2, <1>5, <2>1
    <2>3. pc'[q] = "fetch" => pc[q] = "fetch"
      BY <1>1 DEF TypeOK
    <2>4. pc'[q] \in {"judge", "save"} => pc[q] \in {"judge", "save"}
      BY <1>1 DEF TypeOK
    <2> QED
      BY <1>5, <2>1, <2>2, <2>3, <2>4 DEF LookInv
  <1>13. BuyInv'
    BY <1>1, <1>4 DEF BuyInv, TypeOK
  <1> QED
    BY <1>6, <1>7, <1>8, <1>9, <1>10, <1>11, <1>12, <1>13

LEMMA NextInv == IInv /\ [Next]_vars => IInv'
  <1> SUFFICES ASSUME IInv, [Next]_vars PROVE IInv'
    OBVIOUS
  <1>1. ASSUME NEW r \in Requests,
               Issue(r) \/ BuyFails(r) \/ Begin(r) \/ Work(r) \/ Die(r)
        PROVE  IInv'
    <2>1. CASE Issue(r)
      BY <2>1, IssueInv
    <2>2. CASE BuyFails(r) \/ Die(r)
      BY <2>2, LeaveInv
    <2>3. CASE Begin(r)
      BY <2>3, BeginInv
    <2>4. CASE Work(r)
      BY <2>4, MailInv, StampInv, StoreReceiptInv, FetchToPayInv, PayStepInv,
         FetchInv, JudgeInv, SaveInv DEF Work
    <2> QED
      BY <1>1, <2>1, <2>2, <2>3, <2>4
  <1>2. ASSUME NEW c \in Cards, Refund(c) PROVE IInv'
    BY <1>2, RefundInv
  <1>3. CASE NextDay
    BY <1>3, NextDayInv
  <1>4. CASE UNCHANGED vars
    BY <1>4 DEF IInv, TypeOK, CardIsJournal, MoneyIsNotHidden, MailIsBacked,
       PayInv, LookInv, BuyInv, BlankInv, Issued, vars, rows, local
  <1> QED
    BY <1>1, <1>2, <1>3, <1>4 DEF Next

THEOREM Invariance == Spec => []IInv
  BY InitInv, NextInv, PTL DEF Spec

-----------------------------------------------------------------------------
\* The variables keep their types (the fields of gift_cards/models.py).
THEOREM TypeCorrect == Spec => []TypeOK
  <1>1. IInv => TypeOK
    BY DEF IInv
  <1> QED
    BY <1>1, Invariance, PTL

\* The balance of a card always is what its ledger entries add up to, whatever
\* the purchases, payments, lists and previews do at the same time.
THEOREM BalanceIsJournal == Spec => []CardIsJournal
  <1>1. IInv => CardIsJournal
    BY DEF IInv
  <1> QED
    BY <1>1, Invariance, PTL

\* No unlocked status write calls a card with money on it exhausted, or one
\* whose day has not come expired.
THEOREM StatusHidesNoMoney == Spec => []MoneyIsNotHidden
  <1>1. IInv => MoneyIsNotHidden
    BY DEF IInv
  <1> QED
    BY <1>1, Invariance, PTL

\* A card is e-mailed at most once, and no row claims an e-mail never sent.
THEOREM MailCorrect == Spec => []MailIsBacked
  <1>1. IInv => MailIsBacked
    BY DEF IInv
  <1> QED
    BY <1>1, Invariance, PTL

\* No other step than a payment takes money off an issued card.
LEMMA OnlyPayTakes ==
    ASSUME IInv, [Next]_vars,
           NEW c \in Cards, c \in Issued, card'[c].remaining < card[c].remaining
    PROVE  \E r \in Requests : Pay(r) /\ mine[r] = c
  <1>1. /\ card \in [Cards -> CardRow] /\ card[c].remaining \in Nat
        /\ card' # card /\ ~(card'[c] = card[c])
        /\ ~(card'[c].remaining = card[c].remaining)
    BY DEF IInv, TypeOK, CardRow
  <1>2. ASSUME NEW r \in Requests, Issue(r) PROVE FALSE
    BY <1>1, <1>2 DEF Issue
  <1>3. ASSUME NEW r \in Requests, Stamp(r) PROVE FALSE
    <2>1. /\ card[mine[r]] \in CardRow /\ mine[r] \in Cards
          /\ card' = [card EXCEPT ![mine[r]] = [card[mine[r]] EXCEPT !.sent = TRUE]]
      BY <1>1, <1>3 DEF Stamp, Stamped, IInv, TypeOK
    <2>2. [card[mine[r]] EXCEPT !.sent = TRUE].remaining = card[mine[r]].remaining
      BY <2>1 DEF CardRow
    <2> QED
      BY <1>1, <2>1, <2>2
  <1>4. ASSUME NEW r \in Requests, Save(r) PROVE FALSE
    <2>1. /\ card[mine[r]] \in CardRow /\ mine[r] \in Cards
          /\ card' = [card EXCEPT ![mine[r]] = [card[mine[r]] EXCEPT !.status = copy[r].status]]
      BY <1>1, <1>4 DEF Save, IInv, TypeOK
    <2>2. [card[mine[r]] EXCEPT !.status = copy[r].status].remaining = card[mine[r]].remaining
      BY <2>1 DEF CardRow
    <2> QED
      BY <1>1, <2>1, <2>2
  <1>5. ASSUME NEW d \in Cards, Refund(d) PROVE FALSE
    <2>1. /\ card[d] \in CardRow
          /\ card' = [card EXCEPT ![d] = [card[d] EXCEPT !.status = "refunded"]]
      BY <1>1, <1>5 DEF Refund
    <2>2. [card[d] EXCEPT !.status = "refunded"].remaining = card[d].remaining
      BY <2>1 DEF CardRow
    <2> QED
      BY <1>1, <2>1, <2>2
  <1>6. ASSUME NEW r \in Requests,
               BuyFails(r) \/ Mail(r) \/ StoreReceipt(r) \/ Begin(r) \/ FetchToPay(r)
                  \/ Fetch(r) \/ Judge(r) \/ Die(r)
        PROVE  FALSE
    BY <1>1, <1>6 DEF BuyFails, Mail, StoreReceipt, Begin, FetchToPay, Fetch, Judge, Die, rows
  <1>7. ASSUME NextDay \/ UNCHANGED vars PROVE FALSE
    BY <1>1, <1>7 DEF NextDay, vars, rows
  <1>8. PICK r \in Requests : Pay(r)
    BY <1>2, <1>3, <1>4, <1>5, <1>6, <1>7 DEF Next, Work
  <1>9. mine[r] = c
    <2> SUFFICES ASSUME mine[r] # c PROVE FALSE
      OBVIOUS
    <2>1. card'[c].remaining = card[c].remaining
      BY <1>8, PayEffect
    <2> QED
      BY <1>1, <2>1
  <1> QED
    BY <1>8, <1>9

\* Money only leaves a card through a checkout that arrived before the card
\* expired, for any number of days it may have waited.
THEOREM ExpiryHolds == Spec => SpentInTime
  <1> DEFINE A == \A c \in Cards :
                    c \in Issued /\ card'[c].remaining < card[c].remaining
                    => \E r \in Requests :
                          /\ kind[r] = "pay" /\ mine[r] = c
                          /\ pc[r] = "pay" /\ pc'[r] = "done"
                          /\ today[r] < card[c].expires
  <1>1. IInv /\ [Next]_vars => A
    <2> SUFFICES ASSUME IInv, [Next]_vars, NEW c \in Cards, c \in Issued,
                        card'[c].remaining < card[c].remaining
                 PROVE  \E r \in Requests :
                           /\ kind[r] = "pay" /\ mine[r] = c
                           /\ pc[r] = "pay" /\ pc'[r] = "done"
                           /\ today[r] < card[c].expires
      OBVIOUS
    <2>1. PICK r \in Requests : Pay(r) /\ mine[r] = c
      BY OnlyPayTakes
    <2>2. pc[r] = "pay" /\ pc'[r] = "done"
      BY <2>1 DEF Pay, Goto, IInv, TypeOK
    <2>3. kind[r] = "pay" /\ today[r] < card[c].expires
      BY <2>1, <2>2 DEF IInv, PayInv
    <2> QED
      BY <2>1, <2>2, <2>3
  <1>2. Spec => [][A]_vars
    <2> HIDE DEF A
    <2> QED
      BY <1>1, Invariance, PTL DEF Spec
  <1> QED
    BY <1>2 DEF SpentInTime

-----------------------------------------------------------------------------
\* Checkouts do not refresh without the lock.
Lookers == \A r \in Requests : pc[r] \in {"judge", "save"} => kind[r] # "pay"

LEMMA NextLookers == TypeOK /\ Lookers /\ [Next]_vars => Lookers'
  <1> SUFFICES ASSUME TypeOK, Lookers, [Next]_vars, NEW q \in Requests,
                      pc'[q] \in {"judge", "save"}
               PROVE  kind'[q] # "pay"
    BY DEF Lookers
  <1>1. kind' = kind
    BY DEF Next, Work, Issue, BuyFails, Begin, Mail, Stamp, StoreReceipt, FetchToPay, Pay,
           Fetch, Judge, Save, Die, Refund, NextDay, vars, local
  <1>2. CASE pc'[q] = pc[q]
    BY <1>1, <1>2 DEF Lookers
  <1>3. CASE pc'[q] # pc[q]
    <2>1. PICK r \in Requests :
             \/ Fetch(r) \/ Judge(r)
             \/ \E l \in Labels \ {"judge", "save"} : pc' = [pc EXCEPT ![r] = l]
      BY <1>3 DEF Next, Work, Issue, BuyFails, Begin, Mail, Stamp, StoreReceipt, FetchToPay,
             Pay, Save, Die, Refund, NextDay, vars, Goto, Labels
    <2>2. CASE Fetch(r) \/ Judge(r)
      <3>1. kind[r] # "pay" /\ \E l \in Labels : pc' = [pc EXCEPT ![r] = l]
        BY <2>2 DEF Fetch, Judge, Goto, Labels, Lookers
      <3> QED
        BY <1>1, <1>3, <3>1 DEF TypeOK
    <2>3. CASE \E l \in Labels \ {"judge", "save"} : pc' = [pc EXCEPT ![r] = l]
      BY <1>3, <2>3 DEF TypeOK
    <2> QED
      BY <2>1, <2>2, <2>3
  <1> QED
    BY <1>2, <1>3

LEMMA LookersCorrect == Spec => []Lookers
  <1>1. Init => Lookers
    BY DEF Init, Lookers
  <1>2. Spec => []TypeOK
    BY TypeCorrect
  <1> QED
    BY <1>1, <1>2, NextLookers, PTL DEF Spec

\* The refinement of GiftWallet.  Everything it can see of a state:
Seen == <<now, Issued, Left, Until, Mailed, OpenOrders, Placed>>

LEMMA SeenIsWallet == UNCHANGED Seen => UNCHANGED Wallet!vars
  BY DEF Seen, Wallet!vars

\* What it sees of the rows depends on these columns only.
LEMMA SameRows ==
    ASSUME \A c \in Cards : /\ card'[c].remaining = card[c].remaining
                            /\ card'[c].expires = card[c].expires
    PROVE  Left' = Left /\ Until' = Until
  BY DEF Left, Until

\* An open order is that of a request, and it only closes when the request moves.
LEMMA OrdersOf ==
    ASSUME NEW r \in Requests, NEW c \in Cards
    PROVE  <<r, c>> \in OpenOrders <=>
              /\ kind[r] = "pay" /\ mine[r] = c /\ pc[r] \in {"fetch", "pay"}
              /\ today[r] < card[c].expires
  BY DEF OpenOrders

\* Requests that are no checkouts, and steps that move none, place no orders and
\* close none.
LEMMA SameOrders ==
    ASSUME IInv, UNCHANGED <<kind, mine, today>>,
           \A c \in Issued : card'[c].expires = card[c].expires,
           \A q \in Requests : kind[q] = "pay" => pc'[q] = pc[q]
    PROVE  OpenOrders' = OpenOrders /\ Placed' = Placed
  <1>1. \A q \in Requests : kind[q] = "pay" /\ pc[q] \in {"fetch", "pay"}
           => mine[q] \in Issued
    BY DEF IInv, LookInv, PayInv
  <1> QED
    BY <1>1 DEF OpenOrders, Placed

\* A checkout that ends closes its order, if it is open, and no other.
LEMMA OrderEnds ==
    ASSUME IInv, NEW r \in Requests, kind[r] = "pay", pc[r] # "start",
           UNCHANGED <<kind, mine, today>>,
           \A c \in Cards : card'[c].expires = card[c].expires,
           pc' = [pc EXCEPT ![r] = "done"]
    PROVE  /\ OpenOrders' = OpenOrders \ {<<r, mine[r]>>}
           /\ Placed' = Placed
           /\ mine[r] \in Cards
  <1>1. mine[r] \in Cards /\ pc'[r] = "done" /\ \A q \in Requests \ {r} : pc'[q] = pc[q]
    BY DEF IInv, TypeOK
  <1>2. Placed' = Placed
    BY <1>1 DEF Placed
  <1>3. ASSUME NEW q \in Requests, NEW c \in Cards
        PROVE  <<q, c>> \in OpenOrders' <=> <<q, c>> \in OpenOrders \ {<<r, mine[r]>>}
    <2>1. CASE q = r
      BY <1>1, <2>1 DEF OpenOrders
    <2>2. CASE q # r
      BY <1>1, <2>2 DEF OpenOrders
    <2> QED
      BY <2>1, <2>2
  <1>4. OpenOrders \subseteq Requests \X Cards /\ OpenOrders' \subseteq Requests \X Cards
    BY DEF OpenOrders
  <1> QED
    BY <1>1, <1>2, <1>3, <1>4

LEMMA DropOrStutter ==
    ASSUME IInv, NEW r \in Requests, kind[r] = "pay", pc[r] # "start",
           UNCHANGED <<card, mails, now, kind, mine, today>>,
           pc' = [pc EXCEPT ![r] = "done"]
    PROVE  [Wallet!Next]_(Wallet!vars)
  <1>1. /\ OpenOrders' = OpenOrders \ {<<r, mine[r]>>}
        /\ Placed' = Placed /\ mine[r] \in Cards
    BY OrderEnds
  <1>2. Issued' = Issued /\ Left' = Left /\ Until' = Until /\ Mailed' = Mailed
    BY DEF Issued, Left, Until, Mailed
  <1>3. CASE <<r, mine[r]>> \in OpenOrders
    <2>1. Wallet!Drop(r, mine[r])
      BY <1>1, <1>2, <1>3 DEF Wallet!Drop
    <2> QED
      BY <1>1, <2>1, Zenon DEF Wallet!Next
  <1>4. CASE <<r, mine[r]>> \notin OpenOrders
    BY <1>1, <1>2, <1>4, SeenIsWallet DEF Seen
  <1> QED
    BY <1>3, <1>4

-----------------------------------------------------------------------------
LEMMA IssueSold ==
    ASSUME IInv, NEW r \in Requests, Issue(r)
    PROVE  [Wallet!Next]_(Wallet!vars)
  <1> DEFINE c == mine[r]
             new == [status |-> "active", remaining |-> Amount,
                     expires |-> now + Ttl, sent |-> FALSE]
  <1>1. /\ kind[r] = "buy" /\ c \in Cards /\ c \notin Issued
        /\ UNCHANGED <<mails, now, kind, mine, today>>
        /\ card' = [card EXCEPT ![c] = new]
        /\ pc' = [pc EXCEPT ![r] = "mail"]
        /\ card \in [Cards -> CardRow]
    BY DEF Issue, Goto, IInv, TypeOK
  <1>2. card'[c] = new /\ \A d \in Cards \ {c} : card'[d] = card[d]
    BY <1>1
  <1>3. Issued' = Issued \cup {c}
    BY <1>1, <1>2 DEF Issued
  <1>4. Left' = [Left EXCEPT ![c] = Amount]
    BY <1>1, <1>2 DEF Left
  <1>5. Until' = [Until EXCEPT ![c] = now + Ttl]
    BY <1>1, <1>2 DEF Until
  <1>6. OpenOrders' = OpenOrders /\ Placed' = Placed
    <2>1. \A d \in Issued : card'[d].expires = card[d].expires
      BY <1>1, <1>2 DEF Issued
    <2>2. \A q \in Requests : kind[q] = "pay" => pc'[q] = pc[q]
      BY <1>1 DEF IInv, TypeOK
    <2> QED
      BY <1>1, <2>1, <2>2, SameOrders
  <1>7. Mailed' = Mailed
    BY <1>1 DEF Mailed
  <1>8. Wallet!Issue(c)
    BY <1>1, <1>3, <1>4, <1>5, <1>6, <1>7 DEF Wallet!Issue
  <1> QED
    BY <1>1, <1>8, Zenon DEF Wallet!Next

LEMMA MailSeen ==
    ASSUME IInv, NEW r \in Requests, Mail(r)
    PROVE  [Wallet!Next]_(Wallet!vars)
  <1> DEFINE c == mine[r]
  <1>1. /\ pc[r] = "mail" /\ kind[r] = "buy" /\ c \in Cards /\ c \in Issued /\ mails[c] = 0
        /\ UNCHANGED <<card, now, kind, mine, today>>
        /\ \A q \in Requests \ {r} : pc'[q] = pc[q]
        /\ mails \in [Cards -> Nat]
    BY DEF Mail, Goto, local, IInv, BuyInv, TypeOK
  <1>2. mails' = [mails EXCEPT ![c] = @ + 1] \/ mails' = mails
    BY DEF Mail
  <1>3. Issued' = Issued /\ Left' = Left /\ Until' = Until
    BY <1>1 DEF Issued, Left, Until
  <1>4. OpenOrders' = OpenOrders /\ Placed' = Placed
    BY <1>1, SameOrders
  <1>5. CASE mails' = mails
    <2>1. Mailed' = Mailed
      BY <1>5 DEF Mailed
    <2> QED
      BY <1>1, <1>3, <1>4, <2>1, SeenIsWallet DEF Seen
  <1>6. CASE mails' = [mails EXCEPT ![c] = @ + 1]
    <2>1. c \notin Mailed /\ Mailed' = Mailed \cup {c}
      BY <1>1, <1>6 DEF Mailed
    <2>2. Wallet!Mail(c)
      BY <1>1, <1>3, <1>4, <2>1 DEF Wallet!Mail
    <2> QED
      BY <1>1, <2>2, Zenon DEF Wallet!Next
  <1> QED
    BY <1>2, <1>5, <1>6

LEMMA BeginPlaces ==
    ASSUME IInv, NEW r \in Requests, Begin(r)
    PROVE  [Wallet!Next]_(Wallet!vars)
  <1> DEFINE c == mine[r]
  <1>1. /\ pc[r] = "start" /\ c \in Issued /\ c \in Cards
        /\ UNCHANGED <<card, mails, now, kind, mine>>
        /\ pc'[r] = "fetch" /\ today'[r] = now
        /\ \A q \in Requests \ {r} : pc'[q] = pc[q] /\ today'[q] = today[q]
    BY DEF Begin, Goto, rows, IInv, TypeOK
  <1>2. Issued' = Issued /\ Left' = Left /\ Until' = Until /\ Mailed' = Mailed
    BY <1>1 DEF Issued, Left, Until, Mailed
  <1>3. OpenOrders \subseteq Requests \X Cards /\ OpenOrders' \subseteq Requests \X Cards
    BY DEF OpenOrders
  <1>4. CASE kind[r] = "pay"
    <2>1. r \notin Placed /\ Placed' = Placed \cup {r}
      BY <1>1, <1>4 DEF Placed
    <2>2. ASSUME NEW q \in Requests, NEW d \in Cards
          PROVE  <<q, d>> \in OpenOrders' <=>
                    <<q, d>> \in (IF now < Until[c] THEN OpenOrders \cup {<<r, c>>}
                                  ELSE OpenOrders)
      <3>1. CASE q = r
        BY <1>1, <1>4, <3>1 DEF OpenOrders, Until
      <3>2. CASE q # r
        BY <1>1, <3>2 DEF OpenOrders
      <3> QED
        BY <3>1, <3>2
    <2>3. OpenOrders' = IF now < Until[c] THEN OpenOrders \cup {<<r, c>>} ELSE OpenOrders
      BY <1>1, <1>3, <2>2
    <2>4. Wallet!Place(r, c)
      BY <1>1, <1>2, <2>1, <2>3 DEF Wallet!Place
    <2> QED
      BY <1>1, <2>4, Zenon DEF Wallet!Next
  <1>5. CASE kind[r] # "pay"
    <2>1. Placed' = Placed
      BY <1>1, <1>5 DEF Placed
    <2>2. OpenOrders' = OpenOrders
      BY <1>1, <1>5 DEF OpenOrders
    <2> QED
      BY <1>1, <1>2, <2>1, <2>2, SeenIsWallet DEF Seen
  <1> QED
    BY <1>4, <1>5

\* A payment is the spending of its order, or its end when there is nothing due.
LEMMA PaySpends ==
    ASSUME IInv, NEW r \in Requests, Pay(r)
    PROVE  [Wallet!Next]_(Wallet!vars)
  <1> DEFINE c == mine[r]
  <1>1. /\ pc[r] = "pay" /\ kind[r] = "pay" /\ c \in Issued /\ c \in Cards
        /\ today[r] < card[c].expires
        /\ pc' = [pc EXCEPT ![r] = "done"]
        /\ UNCHANGED <<mails, now, kind, mine, today>>
        /\ card[c].remaining \in Nat
    BY DEF Pay, Goto, local, IInv, PayInv, TypeOK, CardRow
  <1>2. PICK after \in Nat :
              /\ after <= card[c].remaining
              /\ \A d \in Cards :
                    /\ card'[d].remaining = IF d = c THEN after ELSE card[d].remaining
                    /\ card'[d].status = IF d = c
                                         THEN IF after <= 0 THEN "exhausted" ELSE "active"
                                         ELSE card[d].status
                    /\ card'[d].expires = card[d].expires
    BY PayEffect
  <1>3. Issued' = Issued
    BY <1>1, <1>2 DEF Issued
  <1>4. Until' = Until /\ Mailed' = Mailed
    BY <1>1, <1>2 DEF Until, Mailed
  <1>5. /\ OpenOrders' = OpenOrders \ {<<r, c>>}
        /\ Placed' = Placed
    BY <1>1, <1>2, OrderEnds
  <1>6. <<r, c>> \in OpenOrders
    BY <1>1, OrdersOf
  <1> DEFINE n == card[c].remaining - after
  <1>7. n \in 0..card[c].remaining /\ after = card[c].remaining - n
    BY <1>1, <1>2
  <1>8. Left' = [Left EXCEPT ![c] = Left[c] - n]
    BY <1>1, <1>2, <1>7 DEF Left
  <1> HIDE DEF n
  <1>9. Left[c] = card[c].remaining
    BY <1>1 DEF Left
  <1>10. CASE n = 0
    <2>1. Left' = Left
      BY <1>1, <1>8, <1>9, <1>10 DEF Left
    <2>2. Wallet!Drop(r, c)
      BY <1>1, <1>3, <1>4, <1>5, <1>6, <2>1 DEF Wallet!Drop
    <2> QED
      BY <1>1, <2>2, Zenon DEF Wallet!Next
  <1>11. CASE n # 0
    <2>1. n \in 1..Left[c]
      BY <1>1, <1>7, <1>9, <1>11
    <2>2. Wallet!Spend(r, c, n)
      BY <1>1, <1>3, <1>4, <1>5, <1>6, <1>8 DEF Wallet!Spend
    <2> QED
      BY <1>1, <2>1, <2>2, Zenon DEF Wallet!Next
  <1> QED
    BY <1>10, <1>11

\* Stale saves, refreshes and refunds change nothing the wallet sees.
LEMMA StatusUnseen ==
    ASSUME IInv, NEW c \in Cards, NEW row,
           card' = [card EXCEPT ![c] = row],
           row.remaining = card[c].remaining, row.expires = card[c].expires,
           row.status # "none", c \in Issued,
           UNCHANGED <<mails, now, kind, mine, today>>,
           \A q \in Requests : kind[q] = "pay" => pc'[q] = pc[q]
    PROVE  [Wallet!Next]_(Wallet!vars)
  <1>1. card'[c] = row /\ \A d \in Cards \ {c} : card'[d] = card[d]
    BY DEF IInv, TypeOK
  <1>2. Issued' = Issued
    BY <1>1 DEF Issued
  <1>3. Left' = Left /\ Until' = Until
    BY <1>1, SameRows
  <1>4. OpenOrders' = OpenOrders /\ Placed' = Placed
    BY <1>1, SameOrders DEF Issued
  <1>5. Mailed' = Mailed
    BY DEF Mailed
  <1> QED
    BY <1>2, <1>3, <1>4, <1>5, SeenIsWallet DEF Seen

LEMMA StampUnseen ==
    ASSUME IInv, NEW r \in Requests, Stamp(r)
    PROVE  [Wallet!Next]_(Wallet!vars)
  <1> DEFINE row == [card[mine[r]] EXCEPT !.sent = TRUE]
  <1>1. /\ mine[r] \in Cards /\ mine[r] \in Issued /\ kind[r] = "buy"
        /\ card[mine[r]] \in CardRow /\ card[mine[r]].status # "none"
    BY DEF Stamp, IInv, BuyInv, TypeOK, Issued
  <1>2. /\ card' = [card EXCEPT ![mine[r]] = row]
        /\ UNCHANGED <<mails, now, kind, mine, today>>
        /\ \A q \in Requests : kind[q] = "pay" => pc'[q] = pc[q]
    BY <1>1 DEF Stamp, Stamped, Goto, local, IInv, TypeOK
  <1>3. /\ row.remaining = card[mine[r]].remaining /\ row.expires = card[mine[r]].expires
        /\ row.status = card[mine[r]].status
    BY <1>1 DEF CardRow
  <1> HIDE DEF row
  <1> QED
    BY <1>1, <1>2, <1>3, StatusUnseen

LEMMA SaveUnseen ==
    ASSUME IInv, Lookers, NEW r \in Requests, Save(r)
    PROVE  [Wallet!Next]_(Wallet!vars)
  <1> DEFINE row == [card[mine[r]] EXCEPT !.status = copy[r].status]
  <1>1. /\ mine[r] \in Cards /\ mine[r] \in Issued /\ kind[r] # "pay"
        /\ card[mine[r]] \in CardRow /\ copy[r].status # "none"
    BY DEF Save, IInv, LookInv, Lookers, TypeOK
  <1>2. /\ card' = [card EXCEPT ![mine[r]] = row]
        /\ UNCHANGED <<mails, now, kind, mine, today>>
        /\ \A q \in Requests : kind[q] = "pay" => pc'[q] = pc[q]
    BY <1>1 DEF Save, Goto, local, IInv, TypeOK
  <1>3. /\ row.remaining = card[mine[r]].remaining /\ row.expires = card[mine[r]].expires
        /\ row.status = copy[r].status
    BY <1>1 DEF CardRow
  <1> HIDE DEF row
  <1> QED
    BY <1>1, <1>2, <1>3, StatusUnseen

LEMMA RefundUnseen ==
    ASSUME IInv, NEW c \in Cards, Refund(c)
    PROVE  [Wallet!Next]_(Wallet!vars)
  <1> DEFINE row == [card[c] EXCEPT !.status = "refunded"]
  <1>1. c \in Issued /\ card[c] \in CardRow
    BY DEF Refund, IInv, TypeOK
  <1>2. /\ card' = [card EXCEPT ![c] = row]
        /\ UNCHANGED <<mails, now, kind, mine, today, pc>>
    BY DEF Refund, local
  <1>3. /\ row.remaining = card[c].remaining /\ row.expires = card[c].expires
        /\ row.status = "refunded"
    BY <1>1 DEF CardRow
  <1> HIDE DEF row
  <1> QED
    BY <1>1, <1>2, <1>3, StatusUnseen

\* Steps that touch no row and move no checkout, or move one from the reading of
\* the card to its payment.
LEMMA LocalUnseen ==
    ASSUME IInv, NEW r \in Requests,
           UNCHANGED <<card, mails, now, kind, mine, today>>,
           \A q \in Requests \ {r} : pc'[q] = pc[q],
           kind[r] = "pay" => pc[r] = "fetch" /\ pc'[r] = "pay"
    PROVE  [Wallet!Next]_(Wallet!vars)
  <1>1. Issued' = Issued /\ Left' = Left /\ Until' = Until /\ Mailed' = Mailed
    BY DEF Issued, Left, Until, Mailed
  <1>2. \A q \in Requests : kind[q] = "pay" =>
           /\ pc[q] = "start" <=> pc'[q] = "start"
           /\ pc[q] \in {"fetch", "pay"} <=> pc'[q] \in {"fetch", "pay"}
    OBVIOUS
  <1>3. Placed' = Placed /\ OpenOrders' = OpenOrders
    BY <1>2 DEF Placed, OpenOrders
  <1> QED
    BY <1>1, <1>3, SeenIsWallet DEF Seen

LEMMA StepKeepsPromise == IInv /\ Lookers /\ [Next]_vars => [Wallet!Next]_(Wallet!vars)
  <1> SUFFICES ASSUME IInv, Lookers, [Next]_vars PROVE [Wallet!Next]_(Wallet!vars)
    OBVIOUS
  <1>1. ASSUME NEW r \in Requests,
               Issue(r) \/ BuyFails(r) \/ Begin(r) \/ Work(r) \/ Die(r)
        PROVE  [Wallet!Next]_(Wallet!vars)
    <2>1. CASE BuyFails(r) \/ StoreReceipt(r) \/ Fetch(r) \/ Judge(r)
      <3>1. kind[r] # "pay"
        BY <2>1 DEF BuyFails, StoreReceipt, Fetch, Judge, IInv, BuyInv, Lookers
      <3>2. /\ UNCHANGED <<card, mails, now, kind, mine, today>>
            /\ \A q \in Requests \ {r} : pc'[q] = pc[q]
        BY <2>1 DEF BuyFails, StoreReceipt, Fetch, Judge, Goto, rows, local, IInv, TypeOK
      <3> QED
        BY <3>1, <3>2, LocalUnseen
    <2>2. CASE FetchToPay(r)
      <3>1. /\ kind[r] = "pay" /\ pc[r] = "fetch"
            /\ UNCHANGED <<card, mails, now, kind, mine, today>>
            /\ pc' = [pc EXCEPT ![r] = "pay"] \/ pc' = [pc EXCEPT ![r] = "done"]
        BY <2>2 DEF FetchToPay, Goto
      <3>2. CASE pc' = [pc EXCEPT ![r] = "pay"]
        <4>1. pc'[r] = "pay" /\ \A q \in Requests \ {r} : pc'[q] = pc[q]
          BY <3>2 DEF IInv, TypeOK
        <4> QED
          BY <3>1, <4>1, LocalUnseen
      <3>3. CASE pc' = [pc EXCEPT ![r] = "done"]
        BY <3>1, <3>3, DropOrStutter
      <3> QED
        BY <3>1, <3>2, <3>3
    <2>3. CASE Die(r)
      <3>1. /\ pc[r] # "start" /\ pc' = [pc EXCEPT ![r] = "done"]
            /\ UNCHANGED <<card, mails, now, kind, mine, today>>
        BY <2>3 DEF Die, Goto, local
      <3>2. CASE kind[r] = "pay"
        BY <3>1, <3>2, DropOrStutter
      <3>3. CASE kind[r] # "pay"
        <4>1. \A q \in Requests \ {r} : pc'[q] = pc[q]
          BY <3>1 DEF IInv, TypeOK
        <4> QED
          BY <3>1, <3>3, <4>1, LocalUnseen
      <3> QED
        BY <3>2, <3>3
    <2> QED
      BY <1>1, <2>1, <2>2, <2>3, IssueSold, MailSeen, BeginPlaces, PaySpends, StampUnseen,
         SaveUnseen DEF Work
  <1>2. ASSUME NEW c \in Cards, Refund(c) PROVE [Wallet!Next]_(Wallet!vars)
    BY <1>2, RefundUnseen
  <1>3. CASE NextDay
    <2>1. now' = now + 1 /\ UNCHANGED <<card, mails, kind, mine, today, pc>>
      BY <1>3 DEF NextDay, rows, local
    <2>2. /\ Issued' = Issued /\ Left' = Left /\ Until' = Until /\ Mailed' = Mailed
          /\ OpenOrders' = OpenOrders /\ Placed' = Placed
      BY <2>1 DEF Issued, Left, Until, Mailed, OpenOrders, Placed
    <2>3. Wallet!NextDay
      BY <2>1, <2>2 DEF Wallet!NextDay
    <2> QED
      BY <2>3 DEF Wallet!Next
  <1>4. CASE UNCHANGED vars
    <2>1. UNCHANGED <<card, mails, now, kind, mine, today, pc>>
      BY <1>4 DEF vars, rows, local
    <2>2. UNCHANGED Seen
      BY <2>1 DEF Seen, Issued, Left, Until, Mailed, OpenOrders, Placed
    <2> QED
      BY <2>2, SeenIsWallet
  <1> QED
    BY <1>1, <1>2, <1>3, <1>4 DEF Next

LEMMA InitEmpty == Init => Wallet!Init
  <1> SUFFICES ASSUME Init PROVE Wallet!Init
    OBVIOUS
  <1>1. Issued = {} /\ Mailed = {} /\ OpenOrders = {} /\ Placed = {}
    BY DEF Init, Issued, Mailed, OpenOrders, Placed, Blank
  <1>2. Left = [c \in Cards |-> 0] /\ Until = [c \in Cards |-> 0] /\ now = 0
    BY DEF Init, Left, Until, Blank
  <1> QED
    BY <1>1, <1>2 DEF Wallet!Init

\* The gift cards of the shop keep the promises of GiftWallet, for any number of
\* cards, requests and days.
THEOREM Implements == Spec => WalletSpec
  BY InitEmpty, StepKeepsPromise, Invariance, LookersCorrect, PTL DEF Spec, WalletSpec, Wallet!Spec
=============================================================================
