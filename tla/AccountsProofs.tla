---------------------------- MODULE AccountsProofs ----------------------------
(***************************************************************************)
(* For any numbers of users, requests, addresses and times: what the       *)
(* account endpoints promise although no two of their queries are in one   *)
(* transaction.  Every promise has an invariant of its own, on top of      *)
(* BaseInv: the types, that requests talk about users who exist, and that  *)
(* what has ended stays so.                                                *)
(***************************************************************************)
EXTENDS Accounts, TLAPS

USE AccountsAssumption

\* A request that is not about a registration yet to be made, or over, is about a
\* user who exists.
NoUserYet == {"start", "name", "asked", "email", "insert", "done"}
UserExists == \A r \in Requests : pc[r] \notin NoUserYet => mem[r].user \in Made

\* What had ended has ended.
BeforeIsOver == \A r \in Requests : \A t \in before[r] : pc[t] = "done"

\* A password is set with a link that was chosen.
LinkChosen == \A r \in Requests : pc[r] = "password" => mem[r].link \in Link

BaseInv == TypeOK /\ UserExists /\ BeforeIsOver /\ LinkChosen

-----------------------------------------------------------------------------
LEMMA BlankType == Blank \in Memory
  <1>1. NoUser.email \in Emails
    BY DEF NoUser
  <1>2. NewProfile \in Profile
    BY DEF NewProfile, Profile
  <1>3. 0 \in 0..MaxUsers
    OBVIOUS
  <1> QED
    BY <1>1, <1>2, <1>3 DEF Blank, Memory

LEMMA MemoryFields ==
    ASSUME TypeOK, NEW r \in Requests
    PROVE  /\ mem[r] \in Memory /\ mem[r].email \in Emails
           /\ mem[r].ask \in Name \cup {NoName} /\ mem[r].name \in Name \cup {NoName}
           /\ mem[r].user \in 0..MaxUsers /\ mem[r].copy \in Profile
           /\ mem[r].link \in Link \cup {NoLink}
  BY DEF TypeOK, Memory

\* One request moves on, and the store changes within its types.
StoreType ==
    /\ made' \in 0..MaxUsers /\ made' >= made
    /\ user' \in [Users -> [email : Emails, name : Name \cup {NoName}, password : Nat,
                            asked : BOOLEAN]]
    /\ profile' \in [Users -> Profile]
    /\ entries' \in [Users -> Ledger]
    /\ mails' \subseteq Mail
    /\ links' \subseteq Link
    /\ used' \subseteq Requests \X Link

LEMMA MoveBase ==
    ASSUME BaseInv, NEW r \in Requests, NEW label \in Labels, NEW m \in Memory,
           pc[r] \notin {"start", "done"},
           pc' = [pc EXCEPT ![r] = label], mem' = [mem EXCEPT ![r] = m],
           UNCHANGED <<now, before, kind>>, StoreType,
           label \notin NoUserYet => m.user \in Made',
           label = "password" => m.link \in Link
    PROVE  BaseInv'
  <1>1. TypeOK'
    BY DEF BaseInv, TypeOK, StoreType
  <1>2. /\ \A s \in Requests : s # r => pc'[s] = pc[s] /\ mem'[s] = mem[s]
        /\ pc'[r] = label /\ mem'[r] = m
    BY DEF BaseInv, TypeOK
  <1>3. Made \subseteq Made'
    BY DEF StoreType, Made, BaseInv, TypeOK
  <1>4. UserExists'
    BY <1>2, <1>3 DEF BaseInv, UserExists
  <1>5. BeforeIsOver'
    BY <1>2 DEF BaseInv, BeforeIsOver, TypeOK
  <1>6. LinkChosen'
    BY <1>2 DEF BaseInv, LinkChosen
  <1> QED
    BY <1>1, <1>4, <1>5, <1>6 DEF BaseInv

LEMMA FinishBase ==
    ASSUME BaseInv, NEW r \in Requests, Finish(r), pc[r] \notin {"start", "done"},
           UNCHANGED <<now, before, kind>>, StoreType
    PROVE  BaseInv'
  <1>1. "done" \in Labels /\ "done" \in NoUserYet
    BY DEF Labels, NoUserYet
  <1> QED
    BY <1>1, BlankType, MoveBase DEF Finish, Goto, Remember

LEMMA StoreKept ==
    ASSUME BaseInv, UNCHANGED store
    PROVE  StoreType
  BY DEF BaseInv, TypeOK, StoreType, store

\* The steps that only read, and go on.
Reads(r) ==
    \/ BuildName(r) \/ CheckName(r) \/ CheckEmail(r) \/ RefuseRegistration(r)
    \/ InsertFails(r) \/ MailFails(r) \/ Look(r) \/ Wait(r) \/ ResolveToken(r)
    \/ ReadVerified(r) \/ ResolveLink(r) \/ RefuseLink(r) \/ Gate(r) \/ Copy(r) \/ Die(r)

LEMMA ReadsBase ==
    ASSUME BaseInv, NEW r \in Requests, Reads(r)
    PROVE  BaseInv'
  <1>1. UNCHANGED <<now, store, before, kind>> /\ pc[r] \notin {"start", "done"}
    BY DEF Reads, BuildName, CheckName, CheckEmail, RefuseRegistration, InsertFails,
           MailFails, Look, Wait, ResolveToken, ReadVerified, ResolveLink, RefuseLink,
           Gate, Copy, Die
  <1>2. StoreType /\ Made' = Made
    BY <1>1, StoreKept DEF store, Made
  <1>3. CASE Finish(r)
    BY <1>1, <1>2, <1>3, FinishBase
  <1>4. CASE mem' = mem /\ ~ResolveLink(r)
    <2>1. PICK label \in Labels :
             /\ pc' = [pc EXCEPT ![r] = label] /\ label # "password"
             /\ label \notin NoUserYet => pc[r] \notin NoUserYet
      BY <1>4 DEF Reads, BuildName, CheckName, CheckEmail, RefuseRegistration, InsertFails,
           MailFails, Look, Wait, ResolveToken, ReadVerified, ResolveLink, RefuseLink,
           Gate, Copy, Die, Goto, Finish, Labels, NoUserYet
    <2>2. mem' = [mem EXCEPT ![r] = mem[r]] /\ mem[r] \in Memory
      BY <1>4 DEF BaseInv, TypeOK
    <2> QED
      BY <1>1, <1>2, <2>1, <2>2, MoveBase DEF BaseInv, UserExists
  <1>5. CASE BuildName(r)
    <2>1. PICK n \in FreeNumbers(IF mem[r].ask = NoName THEN Base[mem[r].email]
                                 ELSE mem[r].ask.base) :
             Remember(r, [mem[r] EXCEPT !.name =
                [base |-> IF mem[r].ask = NoName THEN Base[mem[r].email]
                          ELSE mem[r].ask.base,
                 n |-> n, lower |-> mem[r].ask = NoName \/ mem[r].ask.lower]])
      BY <1>5 DEF BuildName
    <2> DEFINE name == [base |-> IF mem[r].ask = NoName THEN Base[mem[r].email]
                                 ELSE mem[r].ask.base,
                        n |-> n, lower |-> mem[r].ask = NoName \/ mem[r].ask.lower]
               label == IF mem[r].ask = NoName THEN "email" ELSE "asked"
    <2>2. name \in Name
      <3>1. n \in Nat \ {0}
        BY DEF FreeNumbers, BaseInv, TypeOK
      <3>2. (mem[r].ask = NoName \/ mem[r].ask.lower) \in BOOLEAN
        OBVIOUS
      <3>3. (IF mem[r].ask = NoName THEN Base[mem[r].email] ELSE mem[r].ask.base) \in Bases
        BY MemoryFields DEF BaseInv, Name
      <3> QED
        BY <3>1, <3>2, <3>3 DEF Name
    <2>3. mem' = [mem EXCEPT ![r] = [mem[r] EXCEPT !.name = name]]
      BY <2>1 DEF Remember
    <2> HIDE DEF name
    <2>4. [mem[r] EXCEPT !.name = name] \in Memory
      BY <2>2, MemoryFields DEF Memory, BaseInv
    <2>5. pc' = [pc EXCEPT ![r] = label] /\ label \in Labels /\ label \in NoUserYet
      BY <1>5 DEF BuildName, Goto, Labels, NoUserYet
    <2> QED
      BY <1>1, <1>2, <2>3, <2>4, <2>5, MoveBase
  <1>6. CASE ResolveLink(r)
    <2>1. PICK l \in links : mem' = [mem EXCEPT ![r] = [mem[r] EXCEPT !.link = l]]
      BY <1>6 DEF ResolveLink, Remember
    <2> DEFINE m == [mem[r] EXCEPT !.link = l]
    <2>2. m \in Memory /\ m.user = mem[r].user
      BY MemoryFields DEF Memory, BaseInv, TypeOK
    <2>3. /\ pc' = [pc EXCEPT ![r] = "password"] /\ "password" \in Labels
          /\ pc[r] \notin NoUserYet
      BY <1>6 DEF ResolveLink, Goto, Labels, NoUserYet
    <2>4. m.user \in Made' /\ m.link \in Link
      BY <1>2, <2>2, <2>3, MemoryFields DEF BaseInv, UserExists, TypeOK
    <2>5. mem' = [mem EXCEPT ![r] = m]
      BY <2>1
    <2> HIDE DEF m
    <2> QED
      BY <1>1, <1>2, <2>2, <2>3, <2>4, <2>5, MoveBase
  <1>7. CASE Copy(r)
    <2>1. PICK full \in BOOLEAN : mem' = [mem EXCEPT ![r] =
            [mem[r] EXCEPT !.copy = [profile[mem[r].user] EXCEPT !.full = full]]]
      BY <1>7 DEF Copy, Remember
    <2>2. /\ pc' = [pc EXCEPT ![r] = "save"] /\ "save" \in Labels
          /\ pc[r] \notin NoUserYet
      BY <1>7 DEF Copy, Goto, Labels, NoUserYet
    <2>3. mem[r].user \in Made /\ mem[r].user \in Users
      BY <2>2 DEF BaseInv, UserExists, Made, Users, TypeOK
    <2> DEFINE copy == [profile[mem[r].user] EXCEPT !.full = full]
    <2>4. profile[mem[r].user] \in Profile
      BY <2>3 DEF BaseInv, TypeOK
    <2>5. copy \in Profile /\ mem' = [mem EXCEPT ![r] = [mem[r] EXCEPT !.copy = copy]]
      BY <2>1, <2>4 DEF Profile
    <2> HIDE DEF copy
    <2> DEFINE m == [mem[r] EXCEPT !.copy = copy]
    <2>6. m \in Memory /\ m.user = mem[r].user
      BY <2>5, MemoryFields DEF Memory, BaseInv
    <2>7. m.user \in Made' /\ mem' = [mem EXCEPT ![r] = m]
      BY <1>2, <2>3, <2>5, <2>6
    <2> HIDE DEF m
    <2> QED
      BY <1>1, <1>2, <2>2, <2>6, <2>7, MoveBase
  <1>8. Finish(r) \/ mem' = mem \/ BuildName(r) \/ ResolveLink(r) \/ Copy(r)
    BY DEF Reads, CheckName, CheckEmail, RefuseRegistration, InsertFails, MailFails, Look,
           Wait, ResolveToken, ReadVerified, RefuseLink, Gate, Die
  <1> QED
    BY <1>3, <1>4, <1>5, <1>6, <1>7, <1>8

\* The steps that write.
Writes(r) ==
    \/ Insert(r) \/ SendMail(r) \/ Stamp(r) \/ Mark(r) \/ Forgot(r)
    \/ SetPassword(r) \/ Save(r) \/ Complete(r) \/ Award(r)

LEMMA WritesBase ==
    ASSUME BaseInv, NEW r \in Requests,
           Writes(r)
    PROVE  BaseInv'
  <1>1. UNCHANGED <<now, before, kind>> /\ pc[r] \notin {"start", "done"}
    BY DEF Writes, Insert, SendMail, Stamp, Mark, Forgot, SetPassword, Save, Complete, Award
  <1>2. CASE Insert(r)
    <2> DEFINE row == [email |-> mem[r].email, name |-> mem[r].name, password |-> 1,
                       asked |-> mem[r].ask # NoName]
               m == [Blank EXCEPT !.user = made + 1]
    <2>1. /\ made < MaxUsers /\ made' = made + 1 /\ user' = [user EXCEPT ![made + 1] = row]
          /\ UNCHANGED <<profile, entries, mails, links, used>>
          /\ mem' = [mem EXCEPT ![r] = m] /\ pc' = [pc EXCEPT ![r] = "mail"]
      BY <1>2 DEF Insert, InsertedName, Remember, Goto
    <2>2. made + 1 \in Users /\ made' \in 0..MaxUsers /\ made' >= made /\ made + 1 \in Made'
      BY <2>1 DEF BaseInv, TypeOK, Users, Made
    <2>3. row \in [email : Emails, name : Name \cup {NoName}, password : Nat, asked : BOOLEAN]
      <3>1. (mem[r].ask # NoName) \in BOOLEAN
        OBVIOUS
      <3> QED
        BY <3>1, MemoryFields DEF BaseInv
    <2> HIDE DEF row
    <2>4. StoreType
      BY <2>1, <2>2, <2>3 DEF StoreType, BaseInv, TypeOK
    <2>5. m \in Memory /\ m.user = made + 1
      BY <2>1, <2>2, BlankType DEF Memory
    <2>6. m.user \in Made' /\ "mail" \in Labels
      BY <2>2, <2>5 DEF Labels
    <2> HIDE DEF m
    <2> QED
      BY <1>1, <2>1, <2>4, <2>5, <2>6, MoveBase
  <1>3. ASSUME ~Insert(r) PROVE BaseInv'
    <2>1. pc[r] \notin NoUserYet
      BY <1>3 DEF Writes, NoUserYet, SendMail, Stamp, Mark, Forgot, SetPassword, Save, Complete, Award
    <2>2. mem[r].user \in Made /\ mem[r].user \in Users /\ made' = made
      BY <1>3, <2>1 DEF BaseInv, UserExists, Users, Made, TypeOK,
                        Writes, SendMail, Stamp, Mark, Forgot, SetPassword, Save, Complete, Award
    <2>3. profile[mem[r].user] \in Profile /\ mem[r].copy \in Profile
          /\ entries[mem[r].user] \in Ledger
          /\ user[mem[r].user] \in [email : Emails, name : Name \cup {NoName}, password : Nat,
                                    asked : BOOLEAN]
      BY <2>2, MemoryFields DEF BaseInv, TypeOK
    <2>4. StoreType
      <3>1. CASE SendMail(r)
        <4>1. [user |-> mem[r].user, at |-> now, by |-> r, saved |-> FALSE] \in Mail
          BY <2>2 DEF Mail, BaseInv, TypeOK
        <4>2. mails' = mails \cup {[user |-> mem[r].user, at |-> now, by |-> r, saved |-> FALSE]}
              /\ UNCHANGED <<made, user, profile, entries, links, used>>
          BY <3>1 DEF SendMail
        <4>3. mails' \subseteq Mail
          BY <4>1, <4>2 DEF BaseInv, TypeOK
        <4> QED
          BY <4>2, <4>3 DEF StoreType, BaseInv, TypeOK
      <3>2. CASE Stamp(r)
        <4>1. \A m \in mails : [m EXCEPT !.saved = m.saved \/ m.by = r] \in Mail
          BY DEF Mail, BaseInv, TypeOK
        <4>2. [profile[mem[r].user] EXCEPT !.sent = now] \in Profile
          BY <2>3 DEF Profile, BaseInv, TypeOK
        <4>3. profile' = [profile EXCEPT ![mem[r].user] =
                            [profile[mem[r].user] EXCEPT !.sent = now]]
          BY <2>2, <3>2 DEF Stamp, BaseInv, TypeOK
        <4>4. profile' \in [Users -> Profile]
          BY <2>2, <4>2, <4>3 DEF BaseInv, TypeOK
        <4> QED
          BY <3>2, <4>1, <4>4 DEF Stamp, StoreType, BaseInv, TypeOK
      <3>3. CASE Mark(r)
        <4>1. profile' = [profile EXCEPT ![mem[r].user] =
                            [profile[mem[r].user] EXCEPT !.verified = TRUE]]
          BY <2>2, <3>3 DEF Mark, BaseInv, TypeOK
        <4>2. [profile[mem[r].user] EXCEPT !.verified = TRUE] \in Profile
          BY <2>3 DEF Profile
        <4> QED
          BY <2>2, <3>3, <4>1, <4>2 DEF Mark, StoreType, BaseInv, TypeOK
      <3>4. CASE Forgot(r)
        <4>1. [user |-> mem[r].user, at |-> now, password |-> user[mem[r].user].password] \in Link
          BY <2>2, <2>3 DEF Link, BaseInv, TypeOK
        <4> QED
          BY <3>4, <4>1 DEF Forgot, StoreType, BaseInv, TypeOK
      <3>5. CASE SetPassword(r)
        <4>1. user' = [user EXCEPT ![mem[r].user] =
                 [user[mem[r].user] EXCEPT !.password = user[mem[r].user].password + 1]]
          BY <2>2, <3>5 DEF SetPassword, BaseInv, TypeOK
        <4>2. [user[mem[r].user] EXCEPT !.password = user[mem[r].user].password + 1]
                 \in [email : Emails, name : Name \cup {NoName}, password : Nat, asked : BOOLEAN]
          BY <2>3
        <4>3. mem[r].link \in Link
          BY <3>5 DEF SetPassword, BaseInv, LinkChosen
        <4> QED
          BY <2>2, <3>5, <4>1, <4>2, <4>3 DEF SetPassword, StoreType, BaseInv, TypeOK
      <3>6. CASE Save(r)
        BY <2>2, <2>3, <3>6 DEF Save, StoreType, BaseInv, TypeOK
      <3>7. CASE Complete(r)
        <4> DEFINE flag == profile[mem[r].user].completed \/ ~mem[r].copy.completed
                   row == [profile[mem[r].user] EXCEPT !.completed = flag]
        <4>1. profile' = [profile EXCEPT ![mem[r].user] = row]
          BY <2>2, <3>7 DEF Complete, BaseInv, TypeOK
        <4>2. flag \in BOOLEAN
          BY <2>3 DEF Profile
        <4> HIDE DEF flag
        <4>3. row \in Profile
          BY <2>3, <4>2 DEF Profile
        <4> HIDE DEF row
        <4> QED
          BY <2>2, <3>7, <4>1, <4>3 DEF Complete, StoreType, BaseInv, TypeOK
      <3>8. CASE Award(r)
        <4> DEFINE flag == profile[mem[r].user].completed \/ ~IsPaid(r)
                   row == [profile[mem[r].user] EXCEPT !.rewarded = TRUE, !.completed = flag]
                   old == entries[mem[r].user]
                   count == IF IsPaid(r) THEN old.earn ELSE old.earn + 1
                   ledger == [old EXCEPT !.earn = count]
        <4>1. profile' = [profile EXCEPT ![mem[r].user] = row]
              /\ entries' = [entries EXCEPT ![mem[r].user] = ledger]
              /\ UNCHANGED <<made, user, mails, links, used>>
          BY <2>2, <3>8 DEF Award, BaseInv, TypeOK
        <4>2. flag \in BOOLEAN /\ count \in Nat
          BY <2>3 DEF Profile, Ledger
        <4> HIDE DEF flag, count
        <4>3. row \in Profile /\ ledger \in Ledger
          BY <2>3, <4>2 DEF Profile, Ledger
        <4> HIDE DEF row, ledger
        <4> QED
          BY <2>2, <4>1, <4>2, <4>3 DEF StoreType, BaseInv, TypeOK
      <3> QED
        BY <1>3, <3>1, <3>2, <3>3, <3>4, <3>5, <3>6, <3>7, <3>8 DEF Writes
    <2>5. CASE Finish(r)
      BY <1>1, <2>4, <2>5, FinishBase
    <2>6. CASE mem' = mem
      <3>1. PICK label \in Labels : pc' = [pc EXCEPT ![r] = label] /\ label # "password"
        BY <1>3, <2>6 DEF Writes, SendMail, Stamp, Mark, Forgot, SetPassword, Save, Complete, Award,
                          Finish, Goto, Labels
      <3>2. mem' = [mem EXCEPT ![r] = mem[r]] /\ mem[r] \in Memory
        BY <2>6 DEF BaseInv, TypeOK
      <3>3. mem[r].user \in Made'
        BY <2>2 DEF Made
      <3> QED
        BY <1>1, <2>4, <3>1, <3>2, <3>3, MoveBase
    <2>7. Finish(r) \/ mem' = mem
      BY <1>3 DEF Writes, SendMail, Stamp, Mark, Forgot, SetPassword, Save, Complete, Award
    <2> QED
      BY <2>5, <2>6, <2>7
  <1> QED
    BY <1>2, <1>3

LEMMA InitBase == Init => BaseInv
  <1> SUFFICES ASSUME Init PROVE BaseInv
    OBVIOUS
  <1>1. PICK old, verified \in BOOLEAN, e \in Emails :
         /\ made = IF old THEN 1 ELSE 0
         /\ user = [u \in Users |->
              IF old /\ u = 1
              THEN [email |-> e, password |-> 1, asked |-> FALSE,
                    name |-> [base |-> Base[e], n |-> 1, lower |-> TRUE]]
              ELSE NoUser]
         /\ profile = [u \in Users |->
              [NewProfile EXCEPT !.verified = old /\ verified /\ u = 1]]
    BY DEF Init
  <1>2. user \in [Users -> [email : Emails, name : Name \cup {NoName}, password : Nat,
                           asked : BOOLEAN]]
    <2>1. NoUser \in [email : Emails, name : Name \cup {NoName}, password : Nat,
                     asked : BOOLEAN]
      BY DEF NoUser
    <2>2. [base |-> Base[e], n |-> 1, lower |-> TRUE] \in Name
      BY DEF Name
    <2> QED
      BY <1>1, <2>1, <2>2
  <1>3. profile \in [Users -> Profile]
    <2>1. \A b \in BOOLEAN : [NewProfile EXCEPT !.verified = b] \in Profile
      BY DEF NewProfile, Profile
    <2>2. \A u \in Users : (old /\ verified /\ u = 1) \in BOOLEAN
      OBVIOUS
    <2> QED
      BY <1>1, <2>1, <2>2
  <1>4. made \in 0..MaxUsers
    BY <1>1
  <1>5. TypeOK
    <2>1. pc \in [Requests -> Labels]
      BY DEF Init, Labels
    <2>2. now \in Times /\ kind \in [Requests -> Kinds] /\ mem \in [Requests -> Memory]
      BY BlankType DEF Init, Times
    <2> QED
      BY <1>2, <1>3, <1>4, <2>1, <2>2 DEF Init, TypeOK, NoEntry, Ledger
  <1> QED
    BY <1>5 DEF Init, BaseInv, UserExists, BeforeIsOver, LinkChosen, NoUserYet

LEMMA BeginBase ==
    ASSUME BaseInv, NEW r \in Requests, Begin(r)
    PROVE  BaseInv'
  <1>1. kind[r] \in AllKinds /\ pc[r] = "start" /\ UNCHANGED <<now, store, kind>>
    BY DEF Begin, BaseInv, TypeOK
  <1>2. pc' = [pc EXCEPT ![r] = FirstStep[kind[r]]] /\ FirstStep[kind[r]] \in Labels
        /\ FirstStep[kind[r]] \notin {"start", "password"}
        /\ (kind[r] = "register" => FirstStep[kind[r]] = "name")
    <2>1. pc' = [pc EXCEPT ![r] = FirstStep[kind[r]]]
      BY DEF Begin, Goto
    <2>2. kind[r] = "register" => FirstStep[kind[r]] = "name"
      BY DEF FirstStep
    <2>3. FirstStep[kind[r]] \in {"name", "resolve", "look", "forgot", "gate"}
      BY <1>1 DEF FirstStep, AllKinds
    <2> QED
      BY <2>1, <2>2, <2>3 DEF Labels
  <1>3. PICK m \in Memory : /\ mem' = [mem EXCEPT ![r] = m]
                            /\ kind[r] # "register" => m.user \in Made
    <2>1. CASE kind[r] = "register"
      <3>1. PICK e \in Emails, name \in Asked \cup {NoName} :
               mem' = [mem EXCEPT ![r] = [Blank EXCEPT !.email = e, !.ask = name]]
        BY <2>1 DEF Begin, Remember
      <3>2. [Blank EXCEPT !.email = e, !.ask = name] \in Memory
        BY BlankType DEF Memory
      <3> QED
        BY <2>1, <3>1, <3>2
    <2>2. CASE kind[r] # "register"
      <3>1. PICK u \in Made : mem' = [mem EXCEPT ![r] = [Blank EXCEPT !.user = u]]
        BY <2>2 DEF Begin, Remember
      <3>2. u \in 0..MaxUsers
        BY DEF Made, BaseInv, TypeOK
      <3>3. [Blank EXCEPT !.user = u] \in Memory /\ [Blank EXCEPT !.user = u].user = u
        BY <3>2, BlankType DEF Memory
      <3> QED
        BY <3>1, <3>3
    <2> QED
      BY <2>1, <2>2
  <1>4. before' = [before EXCEPT ![r] = {t \in Requests : pc[t] = "done"}]
    BY DEF Begin
  <1>5. TypeOK'
    BY <1>1, <1>2, <1>3, <1>4 DEF BaseInv, TypeOK, store
  <1>6. UserExists'
    BY <1>1, <1>2, <1>3 DEF BaseInv, TypeOK, UserExists, store, Made, NoUserYet
  <1>7. BeforeIsOver'
    BY <1>1, <1>2, <1>4 DEF BaseInv, TypeOK, BeforeIsOver
  <1>8. LinkChosen'
    BY <1>2, <1>3 DEF BaseInv, TypeOK, LinkChosen
  <1> QED
    BY <1>5, <1>6, <1>7, <1>8 DEF BaseInv

\* What no request does: time passes, and clients redeem points.
Outside == Tick \/ \E u \in Made : Redeem(u)

LEMMA OutsideBase ==
    ASSUME BaseInv, Outside
    PROVE  BaseInv'
  <1>1. now' \in Times /\ entries' \in [Users -> Ledger]
        /\ UNCHANGED <<made, user, profile, mails, links, used, before, kind, pc, mem>>
    <2>1. CASE Tick
      BY <2>1 DEF Tick, BaseInv, TypeOK, Times, store
    <2>2. ASSUME NEW u \in Made, Redeem(u)
          PROVE  entries' \in [Users -> Ledger]
      <3>1. u \in Users /\ entries[u] \in Ledger
        BY DEF BaseInv, TypeOK, Made, Users
      <3>2. [entries[u] EXCEPT !.redeem = TRUE] \in Ledger
        BY <3>1 DEF Ledger
      <3>3. entries' = [entries EXCEPT ![u] = [entries[u] EXCEPT !.redeem = TRUE]]
        BY <2>2, <3>1 DEF Redeem, BaseInv, TypeOK
      <3> QED
        BY <3>1, <3>2, <3>3 DEF BaseInv, TypeOK
    <2> QED
      BY <2>1, <2>2 DEF Outside, Redeem, BaseInv, TypeOK
  <1>2. TypeOK'
    BY <1>1 DEF BaseInv, TypeOK
  <1> QED
    BY <1>1, <1>2 DEF BaseInv, UserExists, BeforeIsOver, LinkChosen, store, Made

\* Every step is one of these.
Moves(r) == Begin(r) \/ Reads(r) \/ Writes(r)

LEMMA StepCases ==
    ASSUME Next
    PROVE  \/ Outside
           \/ \E r \in Requests :
                Moves(r)
  BY DEF Next, Outside, Work, Moves, Reads, Writes

LEMMA NextBase == BaseInv /\ [Next]_vars => BaseInv'
  <1> SUFFICES ASSUME BaseInv, [Next]_vars PROVE BaseInv'
    OBVIOUS
  <1>1. CASE Next
    BY <1>1, StepCases, OutsideBase, BeginBase, ReadsBase, WritesBase DEF Moves
  <1>2. CASE UNCHANGED vars
    BY <1>2 DEF vars, store, BaseInv, TypeOK, UserExists, BeforeIsOver, LinkChosen, Made
  <1> QED
    BY <1>1, <1>2

LEMMA AlwaysBase == Spec => []BaseInv
  <1> QED
    BY InitBase, NextBase, PTL DEF Spec

\* The variables keep their types (users_app/models.py, django.contrib.auth).
THEOREM TypeCorrect == Spec => []TypeOK
  <1>1. BaseInv => TypeOK
    BY DEF BaseInv
  <1> QED
    BY AlwaysBase, <1>1, PTL

-----------------------------------------------------------------------------
LEMMA ItsUser ==
    ASSUME BaseInv, NEW r \in Requests, pc[r] \notin NoUserYet
    PROVE  mem[r].user \in Made /\ mem[r].user \in Users
  <1>1. mem[r].user \in Made
    BY DEF BaseInv, UserExists
  <1>2. made \in 0..MaxUsers
    BY DEF BaseInv, TypeOK
  <1> QED
    BY <1>1, <1>2 DEF Made, Users

\* A request leaves what the others remember alone, and is done with a profile when
\* it has saved it.
LEMMA OthersKeep ==
    ASSUME BaseInv, NEW r \in Requests, NEW s \in Requests, s # r,
           Moves(r)
    PROVE  pc'[s] = pc[s] /\ mem'[s] = mem[s]
  <1>1. pc \in [Requests -> Labels] /\ mem \in [Requests -> Memory]
    BY DEF BaseInv, TypeOK
  <1>2. (\E label : Goto(r, label)) => pc'[s] = pc[s]
    BY <1>1 DEF Goto
  <1>3. (\E m : Remember(r, m)) \/ mem' = mem => mem'[s] = mem[s]
    BY <1>1 DEF Remember
  <1>4. \E label : Goto(r, label)
    <2>1. CASE Reads(r)
      BY <2>1 DEF Reads, BuildName, CheckName, CheckEmail, RefuseRegistration,
           InsertFails, MailFails, Look, Wait, ResolveToken, ReadVerified, ResolveLink,
           RefuseLink, Gate, Copy, Die, Finish
    <2>2. CASE ~Reads(r)
      BY <2>2 DEF Moves, Writes, Begin, Insert, SendMail, Stamp, Mark, Forgot, SetPassword, Save,
           Complete, Award, Finish
    <2> QED
      BY <2>1, <2>2
  <1>5. (\E m : Remember(r, m)) \/ mem' = mem
    <2>1. CASE Reads(r)
      BY <2>1 DEF Reads, BuildName, CheckName, CheckEmail, RefuseRegistration,
           InsertFails, MailFails, Look, Wait, ResolveToken, ReadVerified, ResolveLink,
           RefuseLink, Gate, Copy, Die, Finish
    <2>2. CASE ~Reads(r)
      BY <2>2 DEF Moves, Writes, Begin, Insert, SendMail, Stamp, Mark, Forgot, SetPassword, Save,
           Complete, Award, Finish
    <2> QED
      BY <2>1, <2>2
  <1> QED
    BY <1>2, <1>3, <1>4, <1>5

\* Where a step leads that comes to a place where something is relied on.
LEMMA Arrivals ==
    ASSUME BaseInv, NEW r \in Requests,
           Moves(r)
    PROVE  /\ pc'[r] = "asked" => BuildName(r)
           /\ pc'[r] = "email" => BuildName(r) \/ CheckName(r)
           /\ pc'[r] = "insert" => CheckEmail(r)
           /\ pc'[r] = "mail" => Insert(r) \/ Wait(r)
           /\ pc'[r] = "password" => ResolveLink(r)
           /\ pc'[r] = "copy" => Gate(r)
           /\ pc'[r] = "save" => Copy(r)
           /\ pc'[r] # "start"
  <1>1. pc \in [Requests -> Labels]
    BY DEF BaseInv, TypeOK
  <1>2. \A label : Goto(r, label) => pc'[r] = label
    BY <1>1 DEF Goto
  <1>3. CASE Begin(r)
    <2>1. pc'[r] = FirstStep[kind[r]] /\ kind[r] \in AllKinds
      BY <1>2, <1>3 DEF Begin, BaseInv, TypeOK
    <2>2. pc'[r] \in {"name", "resolve", "look", "forgot", "gate"}
      BY <2>1 DEF FirstStep, AllKinds
    <2> QED
      BY <2>2
  <1>4. CASE Reads(r)
    BY <1>2, <1>4 DEF Reads, BuildName, CheckName, CheckEmail, RefuseRegistration,
           InsertFails, MailFails, Look, Wait, ResolveToken, ReadVerified, ResolveLink,
           RefuseLink, Gate, Copy, Die, Finish
  <1>5. CASE ~Begin(r) /\ ~Reads(r)
    BY <1>2, <1>5 DEF Moves, Writes, Insert, SendMail, Stamp, Mark, Forgot, SetPassword, Save,
           Complete, Award, Finish
  <1> QED
    BY <1>3, <1>4, <1>5

-----------------------------------------------------------------------------
\* Whoever may save a profile is verified, and so is the copy.
MayBeSaved == \A r \in Requests :
    /\ pc[r] = "copy" => profile[mem[r].user].verified
    /\ pc[r] = "save" => mem[r].copy.verified

\* Which rows a step changes, and how.
LEMMA ProfileStep ==
    ASSUME BaseInv, MayBeSaved, NEW r \in Requests, NEW u \in Users,
           Moves(r)
    PROVE  profile[u].verified => profile'[u].verified
  <1>1. profile \in [Users -> Profile] /\ profile[u] \in Profile
    BY DEF BaseInv, TypeOK
  <1>2. CASE Begin(r) \/ Reads(r)
    BY <1>2 DEF Begin, store, Reads, BuildName, CheckName, CheckEmail, RefuseRegistration,
           InsertFails, MailFails, Look, Wait, ResolveToken, ReadVerified, ResolveLink,
           RefuseLink, Gate, Copy, Die
  <1>3. CASE Insert(r) \/ SendMail(r) \/ Forgot(r) \/ SetPassword(r)
    BY <1>3 DEF Insert, SendMail, Forgot, SetPassword
  <1>4. CASE Stamp(r)
    BY <1>1, <1>4 DEF Stamp, Profile
  <1>5. CASE Mark(r)
    BY <1>1, <1>5 DEF Mark, Profile
  <1>6. CASE Save(r)
    BY <1>1, <1>6 DEF Save, MayBeSaved
  <1>7. CASE Complete(r)
    BY <1>1, <1>7 DEF Complete, Profile
  <1>8. CASE Award(r)
    BY <1>1, <1>8 DEF Award, Profile
  <1> QED
    BY <1>2, <1>3, <1>4, <1>5, <1>6, <1>7, <1>8 DEF Moves, Writes

LEMMA MayBeSavedStep == BaseInv /\ MayBeSaved /\ [Next]_vars => MayBeSaved'
  <1> SUFFICES ASSUME BaseInv, MayBeSaved, [Next]_vars PROVE MayBeSaved'
    OBVIOUS
  <1>1. CASE UNCHANGED <<profile, pc, mem>>
    BY <1>1 DEF MayBeSaved
  <1>2. ASSUME NEW r \in Requests,
               Moves(r)
        PROVE  MayBeSaved'
    <2> SUFFICES ASSUME NEW s \in Requests
                 PROVE  /\ pc'[s] = "copy" => profile'[mem'[s].user].verified
                        /\ pc'[s] = "save" => mem'[s].copy.verified
      BY DEF MayBeSaved
    <2>1. CASE s # r
      <3>1. pc'[s] = pc[s] /\ mem'[s] = mem[s]
        BY <1>2, <2>1, OthersKeep
      <3>2. pc[s] = "copy" => mem[s].user \in Users
        BY ItsUser DEF NoUserYet
      <3> QED
        BY <1>2, <3>1, <3>2, ProfileStep DEF MayBeSaved
    <2>2. CASE s = r
      <3>1. ASSUME pc'[r] = "copy" PROVE profile'[mem'[r].user].verified
        <4>1. Gate(r)
          BY <1>2, <3>1, Arrivals
        <4>2. ~Finish(r)
          BY <3>1 DEF Finish, Goto, BaseInv, TypeOK
        <4> QED
          BY <4>1, <4>2 DEF Gate, MayEnter, store
      <3>2. ASSUME pc'[r] = "save" PROVE mem'[r].copy.verified
        <4>1. Copy(r)
          BY <1>2, <3>2, Arrivals
        <4>2. PICK full \in BOOLEAN : mem' = [mem EXCEPT ![r] =
                [mem[r] EXCEPT !.copy = [profile[mem[r].user] EXCEPT !.full = full]]]
          BY <4>1 DEF Copy, Remember
        <4>3. mem[r].user \in Users /\ pc[r] = "copy"
          BY <4>1, ItsUser DEF Copy, NoUserYet
        <4>4. profile[mem[r].user] \in Profile /\ profile[mem[r].user].verified
          BY <4>3 DEF BaseInv, TypeOK, MayBeSaved
        <4>5. mem[r] \in Memory /\ mem \in [Requests -> Memory]
          BY MemoryFields DEF BaseInv, TypeOK
        <4> DEFINE copy == [profile[mem[r].user] EXCEPT !.full = full]
        <4>6. copy.verified
          BY <4>4 DEF Profile
        <4>7. mem' = [mem EXCEPT ![r] = [mem[r] EXCEPT !.copy = copy]]
          BY <4>2
        <4> HIDE DEF copy
        <4> QED
          BY <4>5, <4>6, <4>7 DEF Memory
      <3> QED
        BY <2>2, <3>1, <3>2
    <2> QED
      BY <2>1, <2>2
  <1>3. CASE Outside
    BY <1>1, <1>3 DEF Outside, Tick, Redeem, store
  <1>4. CASE UNCHANGED vars
    BY <1>1, <1>4 DEF vars, store
  <1> QED
    BY <1>2, <1>3, <1>4, StepCases

\* A verified address is never unverified again (auth_email.py, users_app/views.py).
THEOREM VerifiedForGood == Spec => VerifiedStaysVerified
  <1>1. Init => MayBeSaved
    BY DEF Init, MayBeSaved
  <1>2. BaseInv /\ MayBeSaved /\ [Next]_vars
        => [\A u \in Made : profile[u].verified => profile'[u].verified]_vars
    <2> SUFFICES ASSUME BaseInv, MayBeSaved, Next, NEW u \in Made
                 PROVE  profile[u].verified => profile'[u].verified
      OBVIOUS
    <2>1. u \in Users
      BY DEF BaseInv, TypeOK, Made, Users
    <2>2. CASE Outside
      BY <2>2 DEF Outside, Tick, Redeem, store
    <2> QED
      BY <2>1, <2>2, StepCases, ProfileStep
  <1> QED
    BY AlwaysBase, <1>1, <1>2, MayBeSavedStep, PTL DEF Spec, VerifiedStaysVerified

-----------------------------------------------------------------------------
\* The bonus: a flag, in the row or in a copy that will be saved, has its entry.
Backed(u) == entries[u].earn = 1 \/ entries[u].redeem
PaidOnce == \A u \in Users : entries[u].earn <= 1 /\ (profile[u].rewarded => Backed(u))
CopyIsBacked == \A r \in Requests :
    pc[r] = "save" /\ mem[r].copy.rewarded => Backed(mem[r].user)

LEMMA EntriesStep ==
    ASSUME BaseInv, PaidOnce, CopyIsBacked, NEW r \in Requests, Moves(r), NEW u \in Users
    PROVE  /\ entries'[u].earn <= 1 /\ (Backed(u) => Backed(u)')
           /\ profile'[u].rewarded => Backed(u)'
  <1>1. /\ profile \in [Users -> Profile] /\ profile[u] \in Profile
        /\ entries \in [Users -> Ledger] /\ entries[u] \in Ledger
        /\ entries[u].earn \in Nat
    BY DEF BaseInv, TypeOK, Ledger
  <1>2. CASE Begin(r) \/ Reads(r)
    BY <1>2 DEF PaidOnce, Backed, Begin, store, Reads, BuildName, CheckName, CheckEmail,
           RefuseRegistration, InsertFails, MailFails, Look, Wait, ResolveToken,
           ReadVerified, ResolveLink, RefuseLink, Gate, Copy, Die
  <1>3. CASE Insert(r) \/ SendMail(r) \/ Forgot(r) \/ SetPassword(r)
    BY <1>3 DEF PaidOnce, Backed, Insert, SendMail, Forgot, SetPassword
  <1>4. CASE Stamp(r)
    BY <1>1, <1>4 DEF PaidOnce, Backed, Stamp, Profile
  <1>5. CASE Mark(r)
    BY <1>1, <1>5 DEF PaidOnce, Backed, Mark, Profile
  <1>6. CASE Save(r)
    <2>1. pc[r] = "save" /\ entries' = entries
          /\ profile' = [profile EXCEPT ![mem[r].user] = mem[r].copy]
      BY <1>6 DEF Save
    <2> QED
      BY <1>1, <2>1 DEF PaidOnce, CopyIsBacked, Backed
  <1>7. CASE Complete(r)
    BY <1>1, <1>7 DEF PaidOnce, Backed, Complete, Profile
  <1>8. CASE Award(r)
    <2> DEFINE old == entries[mem[r].user]
               ledger == [old EXCEPT !.earn = IF IsPaid(r) THEN old.earn ELSE old.earn + 1]
    <2>1. mem[r].user \in Users /\ old \in Ledger /\ old.earn <= 1
      BY <1>8, ItsUser DEF Award, NoUserYet, PaidOnce, BaseInv, TypeOK
    <2>2. entries' = [entries EXCEPT ![mem[r].user] = ledger]
      BY <1>1, <1>8, <2>1 DEF Award
    <2>3. u # mem[r].user => entries'[u] = entries[u] /\ profile'[u] = profile[u]
      BY <1>1, <1>8, <2>2 DEF Award
    <2>4. ledger.earn <= 1 /\ (ledger.earn = 1 \/ ledger.redeem)
      BY <2>1 DEF IsPaid, Ledger
    <2> HIDE DEF ledger
    <2>5. entries'[mem[r].user] = ledger
      BY <1>1, <2>1, <2>2
    <2> QED
      BY <2>3, <2>4, <2>5 DEF PaidOnce, Backed
  <1> QED
    BY <1>2, <1>3, <1>4, <1>5, <1>6, <1>7, <1>8 DEF Moves, Writes

LEMMA BonusStep ==
    BaseInv /\ PaidOnce /\ CopyIsBacked /\ [Next]_vars => PaidOnce' /\ CopyIsBacked'
  <1> SUFFICES ASSUME BaseInv, PaidOnce, CopyIsBacked, [Next]_vars
               PROVE  PaidOnce' /\ CopyIsBacked'
    OBVIOUS
  <1>1. CASE UNCHANGED <<profile, entries, pc, mem>>
    BY <1>1 DEF PaidOnce, CopyIsBacked, Backed
  <1>2. ASSUME NEW r \in Requests, Moves(r)
        PROVE  PaidOnce' /\ CopyIsBacked'
    <2>1. PaidOnce'
      BY <1>2, EntriesStep DEF PaidOnce
    <2> SUFFICES ASSUME NEW s \in Requests, pc'[s] = "save", mem'[s].copy.rewarded
                 PROVE  Backed(mem[s].user)'
      BY <2>1 DEF CopyIsBacked
    <2>2. CASE s # r
      <3>1. pc'[s] = pc[s] /\ mem'[s] = mem[s]
        BY <1>2, <2>2, OthersKeep
      <3>2. pc[s] = "save" => mem[s].user \in Users
        BY ItsUser DEF NoUserYet
      <3> QED
        BY <1>2, <3>1, <3>2, EntriesStep DEF CopyIsBacked
    <2>3. CASE s = r
      <3>1. Copy(r)
        BY <1>2, <2>3, Arrivals
      <3>2. PICK full \in BOOLEAN : mem' = [mem EXCEPT ![r] =
              [mem[r] EXCEPT !.copy = [profile[mem[r].user] EXCEPT !.full = full]]]
        BY <3>1 DEF Copy, Remember
      <3>3. mem[r].user \in Users /\ profile' = profile /\ entries' = entries
        BY <3>1, ItsUser DEF Copy, NoUserYet, store
      <3>4. profile[mem[r].user] \in Profile
        BY <3>3 DEF BaseInv, TypeOK
      <3>5. mem[r] \in Memory /\ mem \in [Requests -> Memory]
        BY MemoryFields DEF BaseInv, TypeOK
      <3> DEFINE copy == [profile[mem[r].user] EXCEPT !.full = full]
      <3>6. copy.rewarded = profile[mem[r].user].rewarded
        BY <3>4 DEF Profile
      <3>7. mem' = [mem EXCEPT ![r] = [mem[r] EXCEPT !.copy = copy]]
        BY <3>2
      <3> HIDE DEF copy
      <3>8. mem'[r].copy = copy /\ mem'[r].user = mem[r].user
        BY <3>5, <3>7 DEF Memory
      <3> QED
        BY <2>3, <3>3, <3>6, <3>8 DEF PaidOnce, Backed
    <2> QED
      BY <2>2, <2>3
  <1>3. CASE Tick \/ UNCHANGED vars
    BY <1>1, <1>3 DEF Tick, vars, store
  <1>4. ASSUME NEW u \in Made, Redeem(u)
        PROVE  PaidOnce' /\ CopyIsBacked'
    <2> DEFINE ledger == [entries[u] EXCEPT !.redeem = TRUE]
    <2>0. /\ u \in Users /\ entries[u] \in Ledger /\ entries \in [Users -> Ledger]
          /\ entries' = [entries EXCEPT ![u] = ledger]
      BY <1>4 DEF Redeem, BaseInv, TypeOK, Made, Users
    <2>a. ledger.earn = entries[u].earn /\ ledger.redeem
      BY <2>0 DEF Ledger
    <2> HIDE DEF ledger
    <2>1. \A v \in Users : /\ entries'[v].earn = entries[v].earn
                           /\ entries[v].redeem => entries'[v].redeem
      BY <2>0, <2>a
    <2>2. UNCHANGED <<profile, pc, mem>>
      BY <1>4 DEF Redeem
    <2>3. \A r \in Requests : pc[r] = "save" => mem[r].user \in Users
      BY ItsUser DEF NoUserYet
    <2>4. \A v \in Users : Backed(v) => Backed(v)'
      BY <2>1 DEF Backed
    <2>5. PaidOnce'
      BY <2>1, <2>2, <2>4 DEF PaidOnce
    <2>6. CopyIsBacked'
      BY <2>2, <2>3, <2>4 DEF CopyIsBacked, Backed
    <2> QED
      BY <2>5, <2>6
  <1> QED
    BY <1>2, <1>3, <1>4, StepCases DEF Outside

\* The bonus for a complete profile is paid at most once, and its flag is set only
\* when it is or when a redemption carries its reference (users_app/services.py,
\* loyalty/views.py), however the saves of a profile and the redemptions overlap.
THEOREM BonusPaidOnce == Spec => []BonusIsBacked
  <1>1. Init => PaidOnce /\ CopyIsBacked
    <2> SUFFICES ASSUME Init PROVE PaidOnce /\ CopyIsBacked
      OBVIOUS
    <2>1. PICK b \in [Users -> BOOLEAN] :
            profile = [u \in Users |-> [NewProfile EXCEPT !.verified = b[u]]]
      <3>1. PICK old, verified \in BOOLEAN : profile = [u \in Users |->
              [NewProfile EXCEPT !.verified = old /\ verified /\ u = 1]]
        BY DEF Init
      <3> WITNESS [u \in Users |-> old /\ verified /\ u = 1] \in [Users -> BOOLEAN]
      <3> QED
        BY <3>1
    <2>2. \A u \in Users : profile[u].rewarded = FALSE
      BY <2>1 DEF NewProfile
    <2>3. pc = [r \in Requests |-> "start"] /\ entries = [u \in Users |-> NoEntry]
      BY DEF Init
    <2> QED
      BY <2>2, <2>3 DEF PaidOnce, CopyIsBacked, NoEntry
  <1>2. BaseInv /\ PaidOnce => BonusIsBacked
    <2>1. BaseInv => Made \subseteq Users
      BY DEF BaseInv, TypeOK, Made, Users
    <2> QED
      BY <2>1 DEF PaidOnce, Backed, BonusIsBacked
  <1> QED
    BY AlwaysBase, <1>1, <1>2, BonusStep, PTL DEF Spec

-----------------------------------------------------------------------------
\* The links are about users; one that set a password is of an older password, by a
\* request that is over; one that is about to is of none that set one before.
LinksOfUsers == \A l \in links : l.user \in Made
UsedIsOver == \A x \in used :
    /\ pc[x[1]] = "done"
    /\ x[2].user \in Made /\ x[2].password < user[x[2].user].password
ChosenIsFresh == \A r \in Requests : pc[r] = "password" =>
    /\ mem[r].link.user = mem[r].user
    /\ mem[r].link.password <= user[mem[r].user].password
    /\ \A x \in used : x[2].user = mem[r].user /\ x[2].password = mem[r].link.password
                       => x[1] \notin before[r]

LinkInv == LinksOfUsers /\ UsedIsOver /\ ChosenIsFresh /\ LinkWorksOnce

\* Only a request that begins changes what had ended before it.
LEMMA BeforeKeeps ==
    ASSUME BaseInv, NEW r \in Requests, Moves(r), NEW s \in Requests,
           s # r \/ pc[r] # "start"
    PROVE  before'[s] = before[s]
  <1>1. before \in [Requests -> SUBSET Requests]
    BY DEF BaseInv, TypeOK
  <1>2. CASE Begin(r)
    BY <1>1, <1>2 DEF Begin
  <1>3. CASE ~Begin(r)
    BY <1>3 DEF Moves, Writes, Reads, BuildName, CheckName, CheckEmail, RefuseRegistration,
           InsertFails, MailFails, Look, Wait, ResolveToken, ReadVerified, ResolveLink,
           RefuseLink, Gate, Copy, Die, Insert, SendMail, Stamp, Mark, Forgot,
           SetPassword, Save, Complete, Award
  <1> QED
    BY <1>2, <1>3

\* What has ended stays ended, and what goes on did not end.
LEMMA DoneStays ==
    ASSUME BaseInv, NEW r \in Requests, Moves(r)
    PROVE  pc[r] # "done"
  BY DEF Moves, Begin, Writes, Reads, BuildName, CheckName, CheckEmail,
         RefuseRegistration, InsertFails, MailFails, Look, Wait, ResolveToken,
         ReadVerified, ResolveLink, RefuseLink, Gate, Copy, Die, Insert, SendMail, Stamp,
         Mark, Forgot, SetPassword, Save, Complete, Award

\* A user stays, and a password is only replaced.
LEMMA UserStep ==
    ASSUME BaseInv, NEW r \in Requests, Moves(r), NEW u \in Made
    PROVE  u \in Made' /\ user'[u].password >= user[u].password
  <1>1. /\ u \in Users /\ made \in Nat /\ user[u].password \in Nat
        /\ user \in [Users -> [email : Emails, name : Name \cup {NoName}, password : Nat,
                               asked : BOOLEAN]]
    BY DEF BaseInv, TypeOK, Made, Users
  <1>2. CASE Insert(r)
    BY <1>1, <1>2 DEF Insert, Made
  <1>3. CASE SetPassword(r)
    BY <1>1, <1>3 DEF SetPassword, Made
  <1>4. CASE ~Insert(r) /\ ~SetPassword(r)
    <2>1. UNCHANGED <<made, user>>
      BY <1>4 DEF Moves, Begin, store, Writes, Reads, BuildName, CheckName, CheckEmail,
           RefuseRegistration, InsertFails, MailFails, Look, Wait, ResolveToken,
           ReadVerified, ResolveLink, RefuseLink, Gate, Copy, Die, SendMail, Stamp, Mark,
           Forgot, Save, Complete, Award
    <2> QED
      BY <1>1, <2>1 DEF Made
  <1> QED
    BY <1>2, <1>3, <1>4

\* A link is mailed by Forgot, and set down as used by SetPassword.
LEMMA LinkStep ==
    ASSUME BaseInv, NEW r \in Requests, Moves(r)
    PROVE  /\ links' = links \/ Forgot(r)
           /\ used' = used \/ SetPassword(r)
  BY DEF Moves, Begin, store, Writes, Reads, BuildName, CheckName, CheckEmail,
         RefuseRegistration, InsertFails, MailFails, Look, Wait, ResolveToken,
         ReadVerified, ResolveLink, RefuseLink, Gate, Copy, Die, Insert, SendMail, Stamp,
         Mark, Forgot, SetPassword, Save, Complete, Award

LEMMA LinkInvMoves ==
    ASSUME BaseInv, LinkInv, NEW r \in Requests, Moves(r)
    PROVE  LinkInv'
  <1>1. LinksOfUsers'
    <2>1. CASE links' = links
      BY <2>1, UserStep DEF LinkInv, LinksOfUsers
    <2>2. CASE Forgot(r)
      <3>1. links' = links \cup {[user |-> mem[r].user, at |-> now,
                                 password |-> user[mem[r].user].password]}
        BY <2>2 DEF Forgot
      <3>2. mem[r].user \in Made
        BY <2>2, ItsUser DEF Forgot, NoUserYet
      <3> QED
        BY <3>1, <3>2, UserStep DEF LinkInv, LinksOfUsers
    <2> QED
      BY <2>1, <2>2, LinkStep
  <1>2. \A x \in used : /\ x[1] \in Requests /\ x[1] # r /\ pc'[x[1]] = "done"
                        /\ x[2].user \in Made' /\ x[2].password < user'[x[2].user].password
                        /\ before'[x[1]] = before[x[1]]
    <2> SUFFICES ASSUME NEW x \in used
                 PROVE  /\ x[1] \in Requests /\ x[1] # r /\ pc'[x[1]] = "done"
                        /\ x[2].user \in Made' /\ x[2].password < user'[x[2].user].password
                        /\ before'[x[1]] = before[x[1]]
      OBVIOUS
    <2>1. x[1] \in Requests /\ x[2] \in Link
      BY DEF BaseInv, TypeOK
    <2>2. /\ pc[x[1]] = "done"
          /\ x[2].user \in Made /\ x[2].password < user[x[2].user].password
      BY DEF LinkInv, UsedIsOver
    <2>3. x[1] # r
      BY <2>2, DoneStays
    <2>4. pc'[x[1]] = "done" /\ before'[x[1]] = before[x[1]]
      BY <2>1, <2>2, <2>3, OthersKeep, BeforeKeeps
    <2>5. x[2].user \in Made' /\ user'[x[2].user].password >= user[x[2].user].password
      BY <2>2, UserStep
    <2>6. /\ x[2].password \in Nat /\ user[x[2].user].password \in Nat
          /\ user'[x[2].user].password \in Nat
      <3>1. x[2].user \in Users
        BY <2>2 DEF BaseInv, TypeOK, Made, Users
      <3>2. user' \in [Users -> [email : Emails, name : Name \cup {NoName},
                                password : Nat, asked : BOOLEAN]]
        BY NextBase DEF BaseInv, TypeOK, Next, Moves, Work, Reads, Writes
      <3> QED
        BY <2>1, <3>1, <3>2 DEF BaseInv, TypeOK, Link
    <2> QED
      BY <2>1, <2>2, <2>3, <2>4, <2>5, <2>6
  <1>3. CASE ~SetPassword(r)
    <2>1. used' = used
      BY <1>3, LinkStep
    <2>2. UsedIsOver' /\ LinkWorksOnce'
      BY <1>2, <2>1 DEF LinkInv, UsedIsOver, LinkWorksOnce
    <2>3. ASSUME NEW s \in Requests, pc'[s] = "password"
          PROVE  /\ mem'[s].link.user = mem'[s].user
                 /\ mem'[s].link.password <= user'[mem'[s].user].password
                 /\ \A x \in used : x[2].user = mem'[s].user
                                      /\ x[2].password = mem'[s].link.password
                                    => x[1] \notin before'[s]
      <3>1. CASE s # r
        <4>1. pc'[s] = pc[s] /\ mem'[s] = mem[s] /\ before'[s] = before[s]
          BY <3>1, OthersKeep, BeforeKeeps
        <4>2. mem[s].user \in Made
          BY <2>3, <4>1, ItsUser DEF NoUserYet
        <4>3. /\ mem[s].link.user = mem[s].user
              /\ mem[s].link.password <= user[mem[s].user].password
              /\ \A x \in used : x[2].user = mem[s].user
                                   /\ x[2].password = mem[s].link.password
                                 => x[1] \notin before[s]
          BY <2>3, <4>1 DEF LinkInv, ChosenIsFresh
        <4>4. user'[mem[s].user].password >= user[mem[s].user].password
          BY <4>2, UserStep
        <4>5. /\ mem[s].link.password \in Nat /\ user[mem[s].user].password \in Nat
              /\ user'[mem[s].user].password \in Nat
          <5>1. mem[s].user \in Users
            BY <4>2 DEF BaseInv, TypeOK, Made, Users
          <5>2. user' \in [Users -> [email : Emails, name : Name \cup {NoName},
                                    password : Nat, asked : BOOLEAN]]
            BY NextBase DEF BaseInv, TypeOK, Next, Moves, Work, Reads, Writes
          <5>3. mem[s].link \in Link
            BY <2>3, <4>1 DEF BaseInv, LinkChosen
          <5> QED
            BY <5>1, <5>2, <5>3 DEF BaseInv, TypeOK, Link
        <4>6. mem[s].link.password <= user'[mem[s].user].password
          BY <4>3, <4>4, <4>5
        <4> QED
          BY <4>1, <4>3, <4>6
      <3>2. CASE s = r
        <4>1. ResolveLink(r)
          BY <2>3, <3>2, Arrivals
        <4>2. PICK l \in links : /\ l.user = mem[r].user /\ l.password = user[l.user].password
                                 /\ mem' = [mem EXCEPT ![r] = [mem[r] EXCEPT !.link = l]]
          BY <4>1 DEF ResolveLink, LinkIsGood, Remember
        <4>3. mem[r] \in Memory /\ mem \in [Requests -> Memory]
          BY MemoryFields DEF BaseInv, TypeOK
        <4>4. mem'[r].link = l /\ mem'[r].user = mem[r].user /\ user' = user
          BY <4>1, <4>2, <4>3 DEF Memory, ResolveLink, store
        <4>5. l \in Link /\ l.password \in Nat /\ l.user \in Users
          BY DEF BaseInv, TypeOK, Link
        <4>6. \A x \in used : x[2].user = l.user => x[2].password # l.password
          <5> SUFFICES ASSUME NEW x \in used, x[2].user = l.user
                       PROVE  x[2].password # l.password
            OBVIOUS
          <5>1. x[2].password < l.password
            BY <4>2 DEF LinkInv, UsedIsOver
          <5>2. x[2] \in Link /\ x[2].password \in Nat
            BY DEF BaseInv, TypeOK, Link
          <5> QED
            BY <4>5, <5>1, <5>2
        <4> QED
          BY <3>2, <4>2, <4>4, <4>5, <4>6
      <3> QED
        BY <3>1, <3>2
    <2>4. ChosenIsFresh'
      BY <2>1, <2>3 DEF ChosenIsFresh
    <2> QED
      BY <1>1, <2>2, <2>4 DEF LinkInv
  <1>4. CASE SetPassword(r)
    <2> DEFINE l == mem[r].link
    <2>1. pc[r] = "password" /\ used' = used \cup {<<r, l>>} /\ mem[r].user \in Made
          /\ UNCHANGED <<made, before>>
      BY <1>4, ItsUser DEF SetPassword, NoUserYet
    <2>2. /\ l.user = mem[r].user /\ l.password <= user[mem[r].user].password
          /\ \A x \in used : x[2].user = l.user /\ x[2].password = l.password
                             => x[1] \notin before[r]
      BY <2>1 DEF LinkInv, ChosenIsFresh
    <2>3. \A s \in Requests : r \notin before[s]
      BY <2>1 DEF BaseInv, BeforeIsOver
    <2>4. l \in Link /\ l.password \in Nat
      BY <2>1 DEF BaseInv, LinkChosen, Link
    <2> HIDE DEF l
    <2>5. user'[l.user].password > l.password /\ l.user \in Made'
      <3>1. mem[r].user \in Users /\ user[mem[r].user].password \in Nat
        BY <2>1 DEF BaseInv, TypeOK, Made, Users
      <3>2. user'[mem[r].user].password = user[mem[r].user].password + 1
        BY <1>4, <3>1 DEF SetPassword, BaseInv, TypeOK
      <3> QED
        BY <2>1, <2>2, <2>4, <3>1, <3>2 DEF Made
    <2>6. pc'[r] = "done"
      BY <1>4 DEF SetPassword, Finish, Goto, BaseInv, TypeOK
    <2>7. UsedIsOver'
      BY <1>2, <2>1, <2>5, <2>6 DEF UsedIsOver
    <2>8. LinkWorksOnce'
      <3> SUFFICES ASSUME NEW x \in used', NEW y \in used', x[2].user = y[2].user,
                          x[2].password = y[2].password
                   PROVE  x[1] \notin before[y[1]]
        BY <2>1 DEF LinkWorksOnce
      <3>1. CASE x = <<r, l>>
        <4>1. y[1] \in Requests
          BY <2>1 DEF BaseInv, TypeOK
        <4> QED
          BY <2>3, <3>1, <4>1
      <3>2. CASE x \in used /\ y = <<r, l>>
        BY <2>2, <3>2
      <3>3. CASE x \in used /\ y \in used
        BY <3>3 DEF LinkInv, LinkWorksOnce
      <3> QED
        BY <2>1, <3>1, <3>2, <3>3
    <2>9. ChosenIsFresh'
      <3> SUFFICES ASSUME NEW s \in Requests, pc'[s] = "password"
                   PROVE  /\ mem'[s].link.user = mem'[s].user
                          /\ mem'[s].link.password <= user'[mem'[s].user].password
                          /\ \A x \in used' : x[2].user = mem'[s].user
                                               /\ x[2].password = mem'[s].link.password
                                             => x[1] \notin before'[s]
        BY DEF ChosenIsFresh
      <3>1. s # r
        BY <2>6
      <3>2. pc'[s] = pc[s] /\ mem'[s] = mem[s] /\ before'[s] = before[s]
        BY <2>1, <3>1, OthersKeep
      <3>3. mem[s].user \in Made /\ mem[s].user \in Users /\ mem[s].link \in Link
        BY <3>2, ItsUser DEF NoUserYet, BaseInv, LinkChosen
      <3>4. /\ mem[s].link.user = mem[s].user
            /\ mem[s].link.password <= user[mem[s].user].password
            /\ \A x \in used : x[2].user = mem[s].user
                                 /\ x[2].password = mem[s].link.password
                               => x[1] \notin before[s]
        BY <3>2 DEF LinkInv, ChosenIsFresh
      <3>5. mem[s].link.password <= user'[mem[s].user].password
        <4>1. user'[mem[s].user].password >= user[mem[s].user].password
          BY <3>3, UserStep
        <4>2. user' \in [Users -> [email : Emails, name : Name \cup {NoName},
                                  password : Nat, asked : BOOLEAN]]
          BY NextBase DEF BaseInv, TypeOK, Next, Moves, Work, Reads, Writes
        <4>3. /\ mem[s].link.password \in Nat /\ user[mem[s].user].password \in Nat
              /\ user'[mem[s].user].password \in Nat
          BY <3>3, <4>2 DEF BaseInv, TypeOK, Link
        <4> QED
          BY <3>4, <4>1, <4>3
      <3> QED
        BY <2>1, <2>3, <3>2, <3>4, <3>5
    <2> QED
      BY <1>1, <2>7, <2>8, <2>9 DEF LinkInv
  <1> QED
    BY <1>3, <1>4

LEMMA LinkInvStep == BaseInv /\ LinkInv /\ [Next]_vars => LinkInv'
  <1> SUFFICES ASSUME BaseInv, LinkInv, [Next]_vars PROVE LinkInv'
    OBVIOUS
  <1>1. CASE UNCHANGED <<made, user, links, used, before, pc, mem>>
    BY <1>1 DEF LinkInv, LinksOfUsers, UsedIsOver, ChosenIsFresh, LinkWorksOnce, Made
  <1>2. CASE Outside
    BY <1>1, <1>2 DEF Outside, Tick, Redeem, store
  <1>3. CASE UNCHANGED vars
    BY <1>1, <1>3 DEF vars, store
  <1> QED
    BY <1>2, <1>3, StepCases, LinkInvMoves

\* A reset link is good for one password: once one has been used, the others that
\* were mailed for it are dead to every request that begins later.
THEOREM LinkIsUsedUp == Spec => []LinkWorksOnce
  <1>1. Init => LinkInv
    BY DEF Init, LinkInv, LinksOfUsers, UsedIsOver, ChosenIsFresh, LinkWorksOnce
  <1>2. LinkInv => LinkWorksOnce
    BY DEF LinkInv
  <1> QED
    BY AlwaysBase, <1>1, <1>2, LinkInvStep, PTL DEF Spec

-----------------------------------------------------------------------------
\* Verification mails: who sent one is about to save its time, or is over;
SentBySomeone == \A a \in mails :
    /\ a.user \in Made /\ a.at <= now
    /\ pc[a.by] = "done" \/ (pc[a.by] = "stamp" /\ a.user = mem[a.by].user)
\* a time that was saved is not forgotten, unless nobody asks for it any more;
SavedIsKnown == \A a \in mails :
    a.saved => profile[a.user].verified \/ a.at <= profile[a.user].sent
\* and who is about to send one has waited.
HasWaited == \A r \in Requests : pc[r] = "mail" => \A a \in mails :
    a.user = mem[r].user /\ a.saved /\ a.by \in before[r]
    => now - a.at >= Cooldown \/ profile[a.user].verified

MailInv == SentBySomeone /\ SavedIsKnown /\ HasWaited /\ CooldownHolds

\* The mails after a step are those from before it, saved or not, and a new one.
SameMail(a, m) == a.user = m.user /\ a.at = m.at /\ a.by = m.by
NewMail(r, a) == SendMail(r) /\ a.user = mem[r].user /\ a.at = now /\ a.by = r
OldMail(r, a) == \E m \in mails : SameMail(a, m)
SavedMail(r, a) == \E m \in mails : SameMail(a, m) /\ (m.saved \/ (Stamp(r) /\ m.by = r))

LEMMA MailStep ==
    ASSUME BaseInv, NEW r \in Requests, Moves(r), NEW a \in mails'
    PROVE  (OldMail(r, a) \/ NewMail(r, a)) /\ (a.saved => SavedMail(r, a))
  <1>1. CASE mails' = mails
    BY <1>1 DEF OldMail, SavedMail, SameMail
  <1>2. CASE SendMail(r)
    <2>1. a \in mails \/ a = [user |-> mem[r].user, at |-> now, by |-> r, saved |-> FALSE]
      BY <1>2 DEF SendMail
    <2> QED
      BY <1>2, <2>1 DEF OldMail, NewMail, SavedMail, SameMail
  <1>3. CASE Stamp(r)
    <2>1. PICK m \in mails : a = [m EXCEPT !.saved = m.saved \/ m.by = r]
      BY <1>3 DEF Stamp
    <2>2. m \in Mail
      BY DEF BaseInv, TypeOK
    <2>3. (m.saved \/ m.by = r) \in BOOLEAN
      OBVIOUS
    <2>4. a.user = m.user /\ a.at = m.at /\ a.by = m.by /\ a.saved = (m.saved \/ m.by = r)
      BY <2>1, <2>2, <2>3 DEF Mail
    <2> QED
      BY <1>3, <2>4 DEF OldMail, SavedMail, SameMail
  <1>4. mails' = mails \/ SendMail(r) \/ Stamp(r)
    BY DEF Moves, Begin, store, Writes, Reads, BuildName, CheckName, CheckEmail,
           RefuseRegistration, InsertFails, MailFails, Look, Wait, ResolveToken,
           ReadVerified, ResolveLink, RefuseLink, Gate, Copy, Die, Insert, Mark, Forgot,
           SetPassword, Save, Complete, Award
  <1> QED
    BY <1>1, <1>2, <1>3, <1>4

\* The time of the last mail changes with a mail, or in a row that is verified.
LEMMA SentStep ==
    ASSUME BaseInv, MayBeSaved, NEW r \in Requests, Moves(r), NEW u \in Users
    PROVE  /\ \/ profile'[u].verified
              \/ profile'[u].sent = profile[u].sent
              \/ Stamp(r) /\ u = mem[r].user
           /\ Stamp(r) /\ u = mem[r].user => profile'[u].sent = now
  <1>1. profile \in [Users -> Profile] /\ profile[u] \in Profile
    BY DEF BaseInv, TypeOK
  <1>2. CASE ~Stamp(r) /\ (Begin(r) \/ Reads(r))
    BY <1>2 DEF Begin, store, Reads, BuildName, CheckName, CheckEmail, RefuseRegistration,
           InsertFails, MailFails, Look, Wait, ResolveToken, ReadVerified, ResolveLink,
           RefuseLink, Gate, Copy, Die
  <1>3. CASE Insert(r) \/ SendMail(r) \/ Forgot(r) \/ SetPassword(r)
    BY <1>3 DEF Insert, SendMail, Forgot, SetPassword, Stamp
  <1>4. CASE Stamp(r)
    BY <1>1, <1>4 DEF Stamp, Profile
  <1>5. CASE Mark(r)
    BY <1>1, <1>5 DEF Mark, Profile, Stamp
  <1>6. CASE Save(r)
    BY <1>1, <1>6 DEF Save, MayBeSaved, Stamp
  <1>7. CASE Complete(r)
    BY <1>1, <1>7 DEF Complete, Profile, Stamp
  <1>8. CASE Award(r)
    BY <1>1, <1>8 DEF Award, Profile, Stamp
  <1>9. CASE Stamp(r) /\ u # mem[r].user
    BY <1>1, <1>9 DEF Stamp
  <1> QED
    BY <1>2, <1>3, <1>4, <1>5, <1>6, <1>7, <1>8 DEF Moves, Writes

LEMMA ClockStays ==
    ASSUME NEW r \in Requests, Moves(r)
    PROVE  now' = now /\ (pc[r] = "stamp" => Finish(r))
  BY DEF Moves, Begin, Writes, Reads, BuildName, CheckName, CheckEmail,
         RefuseRegistration, InsertFails, MailFails, Look, Wait, ResolveToken,
         ReadVerified, ResolveLink, RefuseLink, Gate, Copy, Die, Insert, SendMail, Stamp,
         Mark, Forgot, SetPassword, Save, Complete, Award

LEMMA MailInvMoves ==
    ASSUME BaseInv, MayBeSaved, MailInv, NEW r \in Requests, Moves(r)
    PROVE  MailInv'
  <1>1. now' = now /\ now \in Nat /\ pc[r] # "done" /\ Cooldown \in Nat
    BY ClockStays, DoneStays DEF BaseInv, TypeOK, Times
  <1>2. \A m \in mails : /\ m \in Mail /\ m.user \in Made /\ m.user \in Users
                        /\ m.at \in Int /\ profile[m.user].sent \in Int
    BY DEF BaseInv, TypeOK, Mail, Users, Made, Times, Profile, Never, MailInv, SentBySomeone
  <1>3. ASSUME NEW a \in mails'
        PROVE  /\ a.user \in Made' /\ a.at <= now'
               /\ pc'[a.by] = "done" \/ (pc'[a.by] = "stamp" /\ a.user = mem'[a.by].user)
               /\ a.by \in Requests
    <2>1. CASE NewMail(r, a)
      <3>1. pc'[r] = "stamp" /\ mem' = mem /\ made' = made /\ mem[r].user \in Made
        BY <2>1, ItsUser DEF NewMail, SendMail, Goto, NoUserYet, BaseInv, TypeOK
      <3> QED
        BY <1>1, <2>1, <3>1 DEF Made, NewMail
    <2>2. CASE OldMail(r, a)
      <3>1. PICK m \in mails : a.user = m.user /\ a.at = m.at /\ a.by = m.by
        BY <2>2 DEF OldMail, SameMail
      <3>2. /\ m.user \in Made /\ m.at <= now /\ m.by \in Requests
            /\ pc[m.by] = "done" \/ (pc[m.by] = "stamp" /\ m.user = mem[m.by].user)
        BY <1>2 DEF MailInv, SentBySomeone, Mail
      <3>3. CASE m.by # r
        BY <1>1, <3>1, <3>2, <3>3, UserStep, OthersKeep
      <3>4. CASE m.by = r
        <4>1. pc[r] = "stamp"
          BY <1>1, <3>2, <3>4
        <4>2. pc'[r] = "done"
          BY <4>1, ClockStays DEF Finish, Goto, BaseInv, TypeOK
        <4> QED
          BY <1>1, <3>1, <3>2, <3>4, <4>2, UserStep
      <3> QED
        BY <3>3, <3>4
    <2> QED
      BY <2>1, <2>2, MailStep
  <1>4. SentBySomeone'
    BY <1>3 DEF SentBySomeone
  <1>5. SavedIsKnown'
    <2> SUFFICES ASSUME NEW a \in mails', a.saved
                 PROVE  profile'[a.user].verified \/ a.at <= profile'[a.user].sent
      BY DEF SavedIsKnown
    <2>1. PICK m \in mails : /\ a.user = m.user /\ a.at = m.at /\ a.by = m.by
                             /\ m.saved \/ (Stamp(r) /\ m.by = r)
      <3>1. SavedMail(r, a)
        BY MailStep
      <3> QED
        BY <3>1 DEF SavedMail, SameMail
    <2>2. m.user \in Users /\ m.at <= now
      BY <1>2 DEF MailInv, SentBySomeone
    <2>3. CASE Stamp(r) /\ m.user = mem[r].user
      BY <2>1, <2>2, <2>3, SentStep
    <2>4. CASE m.saved /\ ~(Stamp(r) /\ m.user = mem[r].user)
      <3>1. profile[m.user].verified \/ m.at <= profile[m.user].sent
        BY <2>4 DEF MailInv, SavedIsKnown
      <3> QED
        BY <2>1, <2>2, <2>4, <3>1, SentStep, ProfileStep
    <2>5. Stamp(r) /\ m.by = r => m.user = mem[r].user
      BY DEF Stamp, MailInv, SentBySomeone
    <2> QED
      BY <2>1, <2>3, <2>4, <2>5
  <1>6. \A s \in Requests : r \notin before[s]
    BY <1>1 DEF BaseInv, BeforeIsOver
  <1>7. HasWaited'
    <2> SUFFICES ASSUME NEW s \in Requests, pc'[s] = "mail", NEW a \in mails',
                        a.user = mem'[s].user, a.saved, a.by \in before'[s]
                 PROVE  now - a.at >= Cooldown \/ profile'[a.user].verified
      BY <1>1 DEF HasWaited
    <2>1. PICK m \in mails : /\ a.user = m.user /\ a.at = m.at /\ a.by = m.by
                             /\ m.saved \/ (Stamp(r) /\ m.by = r)
      <3>1. SavedMail(r, a)
        BY MailStep
      <3> QED
        BY <3>1 DEF SavedMail, SameMail
    <2>2. before'[s] = before[s]
      <3>1. CASE s # r
        BY <3>1, BeforeKeeps
      <3>2. CASE s = r
        <4>1. Insert(r) \/ Wait(r)
          BY <3>2, Arrivals
        <4> QED
          BY <3>2, <4>1, BeforeKeeps DEF Insert, Wait
      <3> QED
        BY <3>1, <3>2
    <2>3. m.saved /\ m.by \in before[s] /\ m.user \in Users
      BY <1>2, <1>6, <2>1, <2>2
    <2>4. CASE s # r
      <3>1. pc[s] = "mail" /\ mem'[s] = mem[s]
        BY <2>4, OthersKeep
      <3>2. now - m.at >= Cooldown \/ profile[m.user].verified
        BY <2>1, <2>3, <3>1 DEF MailInv, HasWaited
      <3> QED
        BY <2>1, <2>3, <3>2, ProfileStep
    <2>5. CASE s = r /\ Insert(r)
      <3>1. mem'[r].user = made + 1
        <4>1. mem'[r] = [Blank EXCEPT !.user = made + 1]
          BY <2>5 DEF Insert, Remember, BaseInv, TypeOK
        <4> QED
          BY <4>1 DEF Blank
      <3>2. m.user \in Made /\ made \in Nat
        BY <1>2 DEF BaseInv, TypeOK
      <3> QED
        <4>1. m.user = made + 1
          BY <2>1, <2>5, <3>1
        <4>2. made + 1 \notin 1..made
          BY <3>2
        <4> QED
          BY <3>2, <4>1, <4>2 DEF Made
    <2>6. CASE s = r /\ Wait(r)
      <3>1. ~Finish(r)
        BY <2>6 DEF Finish, Goto, BaseInv, TypeOK
      <3>2. ~CoolsDown(profile[mem[r].user]) /\ mem' = mem /\ profile' = profile
        BY <2>6, <3>1 DEF Wait, store
      <3>3. ~profile[m.user].verified => now - profile[m.user].sent >= Cooldown
        <4>1. m.user = mem[r].user /\ profile[m.user].sent \in Int
          BY <1>2, <2>1, <2>6, <3>2
        <4> QED
          BY <1>1, <3>2, <4>1 DEF CoolsDown
      <3>4. profile[m.user].verified \/ m.at <= profile[m.user].sent
        BY <2>3 DEF MailInv, SavedIsKnown
      <3>5. m.at \in Int /\ profile[m.user].sent \in Int
        BY <1>2
      <3> QED
        BY <1>1, <2>1, <3>2, <3>3, <3>4, <3>5
    <2>7. s = r => Insert(r) \/ Wait(r)
      BY Arrivals
    <2> QED
      BY <2>4, <2>5, <2>6, <2>7
  <1>8. CooldownHolds'
    <2> SUFFICES ASSUME NEW a \in mails', NEW b \in mails', a.user = b.user, a.saved,
                        a.by \in before'[b.by]
                 PROVE  b.at - a.at >= Cooldown \/ profile'[a.user].verified
      BY DEF CooldownHolds
    <2>1. PICK m \in mails : /\ a.user = m.user /\ a.at = m.at /\ a.by = m.by
                             /\ m.saved \/ (Stamp(r) /\ m.by = r)
      <3>1. SavedMail(r, a)
        BY MailStep
      <3> QED
        BY <3>1 DEF SavedMail, SameMail
    <2>2. before'[b.by] = before[b.by]
      <3>1. b.by \in Requests
        BY <1>3
      <3>2. b.by = r => pc[r] # "start"
        <4>1. SendMail(r) => pc[r] # "start"
          BY DEF SendMail
        <4>2. \A n \in mails : n.by = r => pc[r] # "start"
          BY DEF MailInv, SentBySomeone
        <4> QED
          BY <4>1, <4>2, MailStep DEF OldMail, NewMail, SameMail
      <3> QED
        BY <3>1, <3>2, BeforeKeeps
    <2>3. m.saved /\ m.by \in before[b.by] /\ m.user \in Users
      <3>1. b.by \in Requests
        BY <1>3
      <3> QED
        BY <1>2, <1>6, <2>1, <2>2, <3>1
    <2>4. CASE OldMail(r, b)
      <3>1. PICK n \in mails : b.user = n.user /\ b.at = n.at /\ b.by = n.by
        BY <2>4 DEF OldMail, SameMail
      <3>2. n.at - m.at >= Cooldown \/ profile[m.user].verified
        BY <2>1, <2>3, <3>1 DEF MailInv, CooldownHolds
      <3> QED
        BY <2>1, <2>3, <3>1, <3>2, ProfileStep
    <2>5. CASE NewMail(r, b)
      <3>1. now - m.at >= Cooldown \/ profile[m.user].verified
        BY <2>1, <2>3, <2>5 DEF MailInv, HasWaited, NewMail, SendMail
      <3> QED
        BY <2>1, <2>3, <2>5, <3>1, ProfileStep DEF NewMail
    <2> QED
      BY <2>4, <2>5, MailStep
  <1> QED
    BY <1>4, <1>5, <1>7, <1>8 DEF MailInv

LEMMA MailInvStep == BaseInv /\ MayBeSaved /\ MailInv /\ [Next]_vars => MailInv'
  <1> SUFFICES ASSUME BaseInv, MayBeSaved, MailInv, [Next]_vars PROVE MailInv'
    OBVIOUS
  <1>1. CASE UNCHANGED <<made, profile, mails, before, pc, mem>> /\ now' \in {now, now + 1}
    <2>1. \A a \in mails : a.at \in Int /\ now \in Int
      BY DEF BaseInv, TypeOK, Mail, Times
    <2>2. SentBySomeone'
      BY <1>1, <2>1 DEF MailInv, SentBySomeone, Made
    <2>3. HasWaited'
      BY <1>1, <2>1 DEF MailInv, HasWaited
    <2> QED
      BY <1>1, <2>2, <2>3 DEF MailInv, SavedIsKnown, CooldownHolds
  <1>2. CASE Outside
    BY <1>1, <1>2 DEF Outside, Tick, Redeem, store
  <1>3. CASE UNCHANGED vars
    BY <1>1, <1>3 DEF vars, store
  <1> QED
    BY <1>2, <1>3, StepCases, MailInvMoves

\* No verification mail is sent within the cooldown of one whose time was saved
\* before the request for it began (auth_views.py), unless the address is verified.
THEOREM MailsAreSpaced == Spec => []CooldownHolds
  <1>1. Init => MayBeSaved /\ MailInv
    BY DEF Init, MayBeSaved, MailInv, SentBySomeone, SavedIsKnown, HasWaited, CooldownHolds
  <1>2. MailInv => CooldownHolds
    BY DEF MailInv
  <1> QED
    BY AlwaysBase, <1>1, <1>2, MayBeSavedStep, MailInvStep, PTL DEF Spec

-----------------------------------------------------------------------------
\* Usernames that nobody asked for are made of the e-mail, in lower case;
NobodyAsked == \A u \in Made : ~user[u].asked
MadeUp == \A u \in Made :
    ~user[u].asked => user[u].name.base = Base[user[u].email] /\ user[u].name.lower = TRUE
\* a registration holds the lowest number that was free, so the lower ones are taken;
AskedForIt == \A r \in Requests : pc[r] = "asked" => mem[r].ask # NoName
LowestIsHeld == \A r \in Requests :
    pc[r] \in {"email", "insert"} /\ mem[r].ask = NoName
    => /\ mem[r].name \in Name
       /\ mem[r].name.base = Base[mem[r].email] /\ mem[r].name.lower = TRUE
       /\ \A k \in 1..(mem[r].name.n - 1) : Taken(mem[r].name.base, k)
\* and it is too late for a second one with that e-mail, however far it has come.
TooLate == NobodyAsked => \A r \in Requests : \A u \in Made :
    pc[r] = "insert" /\ mem[r].ask = NoName /\ user[u].email = mem[r].email
    => ~UsernameIsNew(mem[r].name)

EmailInv == MadeUp /\ AskedForIt /\ LowestIsHeld /\ TooLate /\ EmailsStayUnique

\* The users stay, and with them what identifies them; Insert adds one.
LEMMA RowStep ==
    ASSUME BaseInv, NEW r \in Requests, Moves(r)
    PROVE  /\ \A u \in Made : /\ u \in Made' /\ user'[u].email = user[u].email
                             /\ user'[u].name = user[u].name
                             /\ user'[u].asked = user[u].asked
           /\ ~Insert(r) => Made' = Made
  <1>1. /\ made \in Nat /\ \A u \in Made : u \in Users
        /\ user \in [Users -> [email : Emails, name : Name \cup {NoName}, password : Nat,
                               asked : BOOLEAN]]
    BY DEF BaseInv, TypeOK, Made, Users
  <1>2. CASE Insert(r)
    <2>1. made' = made + 1 /\ \A u \in Made : user'[u] = user[u]
      BY <1>1, <1>2 DEF Insert, Made
    <2> QED
      BY <1>1, <1>2, <2>1 DEF Made
  <1>3. CASE SetPassword(r)
    <2>1. made' = made /\ ~Insert(r)
      BY <1>3 DEF SetPassword, Insert
    <2> QED
      BY <1>1, <1>3, <2>1 DEF SetPassword, Made
  <1>4. CASE ~Insert(r) /\ ~SetPassword(r)
    <2>1. UNCHANGED <<made, user>>
      BY <1>4 DEF Moves, Begin, store, Writes, Reads, BuildName, CheckName, CheckEmail,
           RefuseRegistration, InsertFails, MailFails, Look, Wait, ResolveToken,
           ReadVerified, ResolveLink, RefuseLink, Gate, Copy, Die, SendMail, Stamp, Mark,
           Forgot, Save, Complete, Award
    <2> QED
      BY <2>1 DEF Made
  <1> QED
    BY <1>2, <1>3, <1>4

\* What is taken stays taken.
LEMMA TakenStays ==
    ASSUME BaseInv, NEW r \in Requests, Moves(r), NEW base, NEW n, Taken(base, n)
    PROVE  \E u \in Made' : user'[u].name.base = base /\ user'[u].name.n = n
  <1>1. PICK u \in Made : user[u].name.base = base /\ user[u].name.n = n
    BY DEF Taken
  <1> QED
    BY <1>1, RowStep

\* A username is its three fields.
LEMMA SameFields ==
    ASSUME BaseInv, NEW name \in Name, NEW u \in Made,
           user[u].name.base = name.base, user[u].name.n = name.n,
           user[u].name.lower = name.lower
    PROVE  ~UsernameIsNew(name)
  <1>1. u \in Users
    BY DEF BaseInv, TypeOK, Made, Users
  <1>2. user[u].name \in Name \cup {NoName}
    BY <1>1 DEF BaseInv, TypeOK
  <1>3. name = [base |-> name.base, n |-> name.n, lower |-> name.lower]
    BY DEF Name
  <1>4. user[u].name = [base |-> user[u].name.base, n |-> user[u].name.n,
                        lower |-> user[u].name.lower]
    BY <1>2 DEF Name, NoName
  <1>5. user[u].name = name
    BY <1>3, <1>4
  <1> QED
    BY <1>5 DEF UsernameIsNew

\* When nobody asked, a number that is taken is taken by a name in lower case.
LEMMA TakenIsNotNew ==
    ASSUME BaseInv, MadeUp, NobodyAsked, NEW name \in Name, name.lower = TRUE,
           Taken(name.base, name.n)
    PROVE  ~UsernameIsNew(name)
  <1>1. PICK u \in Made : user[u].name.base = name.base /\ user[u].name.n = name.n
    BY DEF Taken
  <1>2. user[u].name.lower = TRUE
    BY DEF MadeUp, NobodyAsked
  <1> QED
    BY <1>1, <1>2, SameFields

LEMMA LowestIsFound ==
    ASSUME BaseInv, NEW r \in Requests, BuildName(r)
    PROVE  /\ mem'[r].ask = mem[r].ask
           /\ pc'[r] = IF mem[r].ask = NoName THEN "email" ELSE "asked"
           /\ mem[r].ask = NoName
              => /\ mem'[r].name \in Name
                 /\ mem'[r].name.base = Base[mem'[r].email] /\ mem'[r].name.lower = TRUE
                 /\ \A k \in 1..(mem'[r].name.n - 1) : Taken(mem'[r].name.base, k)
  <1> DEFINE base == IF mem[r].ask = NoName THEN Base[mem[r].email] ELSE mem[r].ask.base
             lower == mem[r].ask = NoName \/ mem[r].ask.lower
  <1>1. PICK n \in FreeNumbers(base) :
           mem' = [mem EXCEPT ![r] = [mem[r] EXCEPT !.name =
                     [base |-> base, n |-> n, lower |-> lower]]]
    BY DEF BuildName, Remember
  <1>2. pc'[r] = IF mem[r].ask = NoName THEN "email" ELSE "asked"
    BY DEF BuildName, Goto, BaseInv, TypeOK
  <1>3. n \in Nat \ {0} /\ \A k \in 1..(n - 1) : Taken(base, k)
    BY DEF FreeNumbers, BaseInv, TypeOK
  <1>4. mem[r] \in Memory /\ mem \in [Requests -> Memory] /\ mem[r].email \in Emails
    BY MemoryFields DEF BaseInv, TypeOK
  <1> DEFINE name == [base |-> base, n |-> n, lower |-> lower]
  <1>5. name.base = base /\ name.n = n /\ (name.lower = lower)
    OBVIOUS
  <1>6. mem[r].ask = NoName => base = Base[mem[r].email] /\ base \in Bases /\ lower = TRUE
    BY <1>4
  <1>7. mem[r].ask = NoName => name \in Name
    BY <1>3, <1>6 DEF Name
  <1>8. mem' = [mem EXCEPT ![r] = [mem[r] EXCEPT !.name = name]]
    BY <1>1
  <1> HIDE DEF name, base, lower
  <1>9. mem'[r].ask = mem[r].ask /\ mem'[r].email = mem[r].email /\ mem'[r].name = name
    BY <1>4, <1>8 DEF Memory
  <1> QED
    BY <1>2, <1>3, <1>5, <1>6, <1>7, <1>9

\* The row that Insert adds.
LEMMA NewRow ==
    ASSUME BaseInv, NEW r \in Requests, Insert(r)
    PROVE  /\ \A u \in Made' : u \in Made \/ u = made + 1
           /\ made + 1 \notin Made
           /\ user'[made + 1].email = mem[r].email /\ user'[made + 1].name = mem[r].name
           /\ user'[made + 1].asked = (mem[r].ask # NoName)
           /\ UsernameIsNew(mem[r].name) /\ pc[r] = "insert"
  <1>1. made \in Nat /\ made < MaxUsers /\ made' = made + 1
    BY DEF BaseInv, TypeOK, Insert
  <1>2. made + 1 \in Users
    BY <1>1 DEF Users
  <1>3. user' = [user EXCEPT ![made + 1] =
                  [email |-> mem[r].email, name |-> mem[r].name, password |-> 1,
                   asked |-> mem[r].ask # NoName]]
    BY DEF Insert, InsertedName
  <1>4. user'[made + 1] = [email |-> mem[r].email, name |-> mem[r].name, password |-> 1,
                           asked |-> mem[r].ask # NoName]
    BY <1>2, <1>3 DEF BaseInv, TypeOK
  <1>5. UsernameIsNew(mem[r].name) /\ pc[r] = "insert"
    BY DEF Insert, InsertedName
  <1> QED
    BY <1>1, <1>4, <1>5 DEF Made

LEMMA MadeUpMoves ==
    ASSUME BaseInv, MadeUp, LowestIsHeld, NEW r \in Requests, Moves(r)
    PROVE  MadeUp'
  <1> SUFFICES ASSUME NEW u \in Made', ~user'[u].asked
               PROVE  /\ user'[u].name.base = Base[user'[u].email]
                      /\ user'[u].name.lower = TRUE
    BY DEF MadeUp
  <1>1. CASE u \in Made
    BY <1>1, RowStep DEF MadeUp
  <1>2. CASE u \notin Made
    <2>1. Insert(r) /\ u = made + 1
      BY <1>2, RowStep, NewRow
    <2> QED
      BY <2>1, NewRow DEF LowestIsHeld
  <1> QED
    BY <1>1, <1>2

LEMMA LowestMoves ==
    ASSUME BaseInv, AskedForIt, LowestIsHeld, NEW r \in Requests, Moves(r)
    PROVE  AskedForIt' /\ LowestIsHeld'
  <1>1. ASSUME NEW s \in Requests, pc'[s] = "asked"
        PROVE  mem'[s].ask # NoName
    <2>1. CASE s # r
      BY <1>1, <2>1, OthersKeep DEF AskedForIt
    <2>2. CASE s = r
      BY <1>1, <2>2, Arrivals, LowestIsFound
    <2> QED
      BY <2>1, <2>2
  <1>2. ASSUME NEW s \in Requests, pc'[s] \in {"email", "insert"}, mem'[s].ask = NoName
        PROVE  /\ mem'[s].name \in Name /\ mem'[s].name.base = Base[mem'[s].email]
               /\ mem'[s].name.lower = TRUE
               /\ \A k \in 1..(mem'[s].name.n - 1) : Taken(mem'[s].name.base, k)
    <2>1. CASE pc[s] \in {"email", "insert"} /\ mem'[s] = mem[s]
      BY <1>2, <2>1 DEF LowestIsHeld
    <2>2. CASE s = r /\ BuildName(r)
      BY <1>2, <2>2, LowestIsFound
    <2>3. CASE s # r
      BY <1>2, <2>1, <2>3, OthersKeep
    <2>4. CASE s = r /\ CheckName(r)
      <3>1. ~Finish(r)
        BY <1>2, <2>4 DEF Finish, Goto, BaseInv, TypeOK
      <3> QED
        BY <1>2, <2>4, <3>1 DEF CheckName, AskedForIt
    <2>5. CASE s = r /\ CheckEmail(r)
      BY <2>1, <2>5 DEF CheckEmail
    <2> QED
      BY <1>2, <2>2, <2>3, <2>4, <2>5, Arrivals
  <1>3. AskedForIt'
    BY <1>1 DEF AskedForIt
  <1>4. LowestIsHeld'
    <2> SUFFICES ASSUME NEW s \in Requests, pc'[s] \in {"email", "insert"},
                        mem'[s].ask = NoName
                 PROVE  /\ mem'[s].name \in Name /\ mem'[s].name.base = Base[mem'[s].email]
                        /\ mem'[s].name.lower = TRUE
                        /\ \A k \in 1..(mem'[s].name.n - 1) : \E u \in Made' :
                             user'[u].name.base = mem'[s].name.base /\ user'[u].name.n = k
      BY DEF LowestIsHeld, Taken
    <2>1. /\ mem'[s].name \in Name /\ mem'[s].name.base = Base[mem'[s].email]
          /\ mem'[s].name.lower = TRUE
          /\ \A k \in 1..(mem'[s].name.n - 1) : Taken(mem'[s].name.base, k)
      BY <1>2
    <2>2. ASSUME NEW k \in 1..(mem'[s].name.n - 1)
          PROVE  \E u \in Made' : user'[u].name.base = mem'[s].name.base
                                 /\ user'[u].name.n = k
      <3>1. PICK base : base = mem'[s].name.base
        OBVIOUS
      <3>2. Taken(base, k)
        BY <2>1, <3>1
      <3> QED
        BY <3>1, <3>2, TakenStays
    <2> QED
      BY <2>1, <2>2
  <1> QED
    BY <1>3, <1>4

LEMMA TooLateMoves ==
    ASSUME BaseInv, EmailInv, NEW r \in Requests, Moves(r)
    PROVE  TooLate'
  <1> SUFFICES ASSUME NobodyAsked', NEW s \in Requests, NEW u \in Made', pc'[s] = "insert",
                      mem'[s].ask = NoName, user'[u].email = mem'[s].email
               PROVE  \E v \in Made' : user'[v].name = mem'[s].name
    BY DEF TooLate, UsernameIsNew
  <1>1. NobodyAsked
    BY RowStep DEF NobodyAsked
  <1>2. ~UsernameIsNew(mem'[s].name) => \E v \in Made' : user'[v].name = mem'[s].name
    <2> SUFFICES ASSUME NEW v \in Made, user[v].name = mem'[s].name
                 PROVE  \E w \in Made' : user'[w].name = mem'[s].name
      BY DEF UsernameIsNew
    <2> QED
      BY RowStep
  <1>3. CASE s = r
    <2>1. CheckEmail(r)
      BY <1>3, Arrivals
    <2>2. mem'[s].email = mem[r].email /\ UNCHANGED <<made, user>>
      BY <1>3, <2>1 DEF CheckEmail, store
    <2> QED
      BY <2>1, <2>2 DEF CheckEmail, Made
  <1>4. CASE s # r
    <2>1. pc[s] = "insert" /\ mem'[s] = mem[s]
      BY <1>4, OthersKeep
    <2>2. CASE u \in Made
      BY <1>1, <1>2, <2>1, <2>2, RowStep DEF EmailInv, TooLate
    <2>3. CASE u \notin Made
      <3>1. Insert(r) /\ u = made + 1
        BY <2>3, RowStep, NewRow
      <3>2. mem[r].ask = NoName /\ mem[r].email = mem[s].email /\ user'[u].name = mem[r].name
        BY <2>1, <3>1, NewRow DEF NobodyAsked
      <3> DEFINE mine == mem[s].name
                 its == mem[r].name
      <3>3. /\ mine \in Name /\ mine.lower = TRUE
            /\ \A k \in 1..(mine.n - 1) : Taken(mine.base, k)
            /\ its \in Name /\ its.lower = TRUE /\ its.base = mine.base
            /\ \A k \in 1..(its.n - 1) : Taken(its.base, k)
        BY <2>1, <3>1, <3>2, NewRow DEF EmailInv, LowestIsHeld
      <3>4. UsernameIsNew(its)
        BY <3>1, NewRow
      <3>5. mem'[s].name = mine /\ user'[u].name = its
        BY <2>1, <3>2
      <3> HIDE DEF mine, its
      <3>6. mine.n \in Nat \ {0} /\ its.n \in Nat \ {0}
        BY <3>3 DEF Name
      <3>7. ~(its.n < mine.n)
        <4> SUFFICES ASSUME its.n < mine.n PROVE FALSE
          OBVIOUS
        <4>1. its.n \in 1..(mine.n - 1)
          BY <3>6
        <4>2. Taken(its.base, its.n)
          BY <3>3, <4>1
        <4> QED
          BY <1>1, <3>3, <3>4, <4>2, TakenIsNotNew DEF EmailInv
      <3>8. CASE mine.n < its.n
        <4>1. mine.n \in 1..(its.n - 1)
          BY <3>6, <3>8
        <4>2. Taken(mine.base, mine.n)
          BY <3>3, <4>1
        <4>3. ~UsernameIsNew(mine)
          BY <1>1, <3>3, <4>2, TakenIsNotNew DEF EmailInv
        <4> QED
          BY <1>2, <3>5, <4>3
      <3>9. CASE mine.n = its.n
        <4>1. mine = its
          BY <3>3, <3>9 DEF Name
        <4> QED
          BY <3>5, <4>1
      <3> QED
        BY <3>6, <3>7, <3>8, <3>9
    <2> QED
      BY <2>2, <2>3
  <1> QED
    BY <1>3, <1>4

LEMMA UniqueMoves ==
    ASSUME BaseInv, EmailInv, NEW r \in Requests, Moves(r)
    PROVE  EmailsStayUnique'
  <1> SUFFICES ASSUME NobodyAsked', NEW u \in Made', NEW v \in Made',
                      user'[u].email = user'[v].email
               PROVE  u = v
    BY DEF EmailsStayUnique, NobodyAsked
  <1>1. NobodyAsked
    BY RowStep DEF NobodyAsked
  <1>2. CASE u \in Made /\ v \in Made
    BY <1>1, <1>2, RowStep DEF EmailInv, EmailsStayUnique, NobodyAsked
  <1>3. CASE u \notin Made \/ v \notin Made
    <2>1. Insert(r)
      BY <1>3, RowStep
    <2>2. mem[r].ask = NoName
      BY <1>3, <2>1, NewRow DEF NobodyAsked
    <2>3. \A w \in Made : user[w].email # mem[r].email
      BY <1>1, <2>1, <2>2, NewRow DEF EmailInv, TooLate
    <2>4. \A w \in Made : user'[w].email = user[w].email
      BY RowStep
    <2> QED
      BY <1>3, <2>1, <2>3, <2>4, NewRow
  <1> QED
    BY <1>2, <1>3

LEMMA EmailInvStep == BaseInv /\ EmailInv /\ [Next]_vars => EmailInv'
  <1> SUFFICES ASSUME BaseInv, EmailInv, [Next]_vars PROVE EmailInv'
    OBVIOUS
  <1>1. CASE UNCHANGED <<made, user, pc, mem>>
    BY <1>1 DEF EmailInv, MadeUp, AskedForIt, LowestIsHeld, TooLate, NobodyAsked,
                EmailsStayUnique, Taken, UsernameIsNew, Made
  <1>2. ASSUME NEW r \in Requests, Moves(r)
        PROVE  EmailInv'
    BY <1>2, MadeUpMoves, LowestMoves, TooLateMoves, UniqueMoves DEF EmailInv
  <1>3. CASE Outside
    BY <1>1, <1>3 DEF Outside, Tick, Redeem, store
  <1>4. CASE UNCHANGED vars
    BY <1>1, <1>4 DEF vars, store
  <1> QED
    BY <1>2, <1>3, <1>4, StepCases

\* Two accounts never share an e-mail unless a username was asked for (auth_views.py,
\* build_unique_username), although only usernames are unique in the database.
THEOREM OneAccountPerEmail == Spec => []EmailsStayUnique
  <1>1. Init => EmailInv
    <2> SUFFICES ASSUME Init PROVE EmailInv
      OBVIOUS
    <2>1. PICK old \in BOOLEAN, e \in Emails :
             /\ made = IF old THEN 1 ELSE 0
             /\ user = [u \in Users |->
                  IF old /\ u = 1
                  THEN [email |-> e, password |-> 1, asked |-> FALSE,
                        name |-> [base |-> Base[e], n |-> 1, lower |-> TRUE]]
                  ELSE NoUser]
      BY DEF Init
    <2>2. \A u \in Made : /\ u = 1 /\ u \in Users /\ old
      BY <2>1 DEF Made, Users
    <2>3. \A u \in Made : user[u] = [email |-> e, password |-> 1, asked |-> FALSE,
                                    name |-> [base |-> Base[e], n |-> 1, lower |-> TRUE]]
      BY <2>1, <2>2
    <2>4. MadeUp
      BY <2>3 DEF MadeUp
    <2>5. EmailsStayUnique
      BY <2>2 DEF EmailsStayUnique
    <2> QED
      BY <2>4, <2>5 DEF Init, EmailInv, AskedForIt, LowestIsHeld, TooLate
  <1>2. EmailInv => EmailsStayUnique
    BY DEF EmailInv
  <1> QED
    BY AlwaysBase, <1>1, <1>2, EmailInvStep, PTL DEF Spec
=============================================================================
