------------------------------- MODULE Accounts -------------------------------
(***************************************************************************)
(* User accounts and their profile rows (backend/auth_views.py,            *)
(* auth_email.py, email_verification_middleware.py, users_app):            *)
(*   register  POST /api/auth/register                                     *)
(*   verify    POST /api/auth/verify-email with a mailed token             *)
(*   resend    POST /api/auth/resend-verification                          *)
(*   forgot    POST /api/auth/password-reset/request                       *)
(*   reset     POST /api/auth/password-reset/confirm with a mailed link    *)
(*   put       PUT /api/me/profile, and the bonus for a complete profile   *)
(* A client may also redeem points under any reference it likes, that of   *)
(* its own bonus included (loyalty/views.py).                              *)
(* Every query is a transaction of its own, except the payment of the      *)
(* bonus.  Usernames are unique in the database, e-mails are not.          *)
(* get_or_create makes a missing profile row before anybody looks at it,   *)
(* so a user has one from the start here.                                  *)
(***************************************************************************)
EXTENDS Integers, FiniteSets

CONSTANTS
    Emails,       \* e-mail addresses, trimmed and in lower case
    Bases,        \* usernames without a number, in lower case
    Base,         \* the one made from the local part of an address
    Asked,        \* the usernames that registrations may ask for
    MaxAge,       \* EMAIL_VERIFICATION_MAX_AGE_SECONDS, PASSWORD_RESET_TIMEOUT
    Cooldown,     \* EMAIL_VERIFICATION_RESEND_COOLDOWN_SECONDS
    Requests,     \* HTTP requests
    Kinds,        \* the requests a run considers
    MaxUsers,     \* bound: no more users are created
    LastTime      \* bound: the clock stops here

AllKinds == {"register", "verify", "resend", "forgot", "reset", "put"}

\* A username: its letters in lower case, its number, and whether it is written
\* in lower case.  Number 1 stands for no suffix.
Name == [base : Bases, n : Nat \ {0}, lower : BOOLEAN]

ASSUME AccountsAssumption ==
    /\ Emails # {}
    /\ Base \in [Emails -> Bases]
    /\ Asked \subseteq Name
    /\ \A name \in Asked : name.n = 1
    /\ {MaxAge, Cooldown, LastTime} \subseteq Nat
    /\ MaxUsers \in Nat \ {0}
    /\ Kinds \subseteq AllKinds

VARIABLES
    now,        \* the clock
    made,       \* how many users there are
    user,       \* the User rows: e-mail, username, version of the password,
                \* and whether the username was asked for
    profile,    \* the CustomerProfile rows
    entries,    \* the ledger entries that refer to the bonus of each user
    mails,      \* history: verification mails, by whom and when they were sent
    links,      \* the password reset links that were mailed
    used,       \* history: which request set a password with which link
    before,     \* history: the requests that had ended when each one began
    kind, pc,   \* what each request is, and where its worker is
    mem         \* what it remembers

store == <<made, user, profile, entries, mails, links, used>>
vars == <<now, store, before, kind, pc, mem>>

Users == 1..MaxUsers
Made == 1..made
Times == 0..LastTime
Never == 0 - Cooldown - 1
NoName == [base |-> "", n |-> 0, lower |-> TRUE]
Labels == {"start", "name", "asked", "email", "insert", "mail", "stamp", "resolve",
           "read", "mark", "look", "wait", "forgot", "gate", "copy", "save",
           "complete", "award", "password", "done"}

\* verified_at, rewarded_at and completed_at as flags; full: goals, skin type and
\* budget are filled in.
Profile == [verified : BOOLEAN, sent : Times \cup {Never}, completed : BOOLEAN,
            rewarded : BOOLEAN, full : BOOLEAN]
NewProfile == [verified |-> FALSE, sent |-> Never, completed |-> FALSE,
               rewarded |-> FALSE, full |-> FALSE]

\* earn: how often the bonus was paid; redeem: a redemption carries its reference
Ledger == [earn : Nat, redeem : BOOLEAN]
NoEntry == [earn |-> 0, redeem |-> FALSE]

NoUser == [email |-> CHOOSE e \in Emails : TRUE, name |-> NoName, password |-> 0,
           asked |-> FALSE]

\* saved: the time of the mail has been saved
Mail == [user : Users, at : Times, by : Requests, saved : BOOLEAN]
Link == [user : Users, password : Nat, at : Times]
NoLink == [user |-> 0, password |-> 0, at |-> 0]

\* name: the one it asks for, then the one it will insert; user: whom it is about
Blank == [email |-> NoUser.email, ask |-> NoName, name |-> NoName, user |-> 0,
          copy |-> NewProfile, link |-> NoLink]
Memory == [email : Emails, ask : Name \cup {NoName}, name : Name \cup {NoName},
           user : 0..MaxUsers, copy : Profile, link : Link \cup {NoLink}]

\* No user, or one whose mail was lost, and who may have verified the address.
Init ==
    /\ now = 0
    /\ \E old, verified \in BOOLEAN, e \in Emails :
         /\ made = IF old THEN 1 ELSE 0
         /\ user = [u \in Users |->
              IF old /\ u = 1
              THEN [email |-> e, password |-> 1, asked |-> FALSE,
                    name |-> [base |-> Base[e], n |-> 1, lower |-> TRUE]]
              ELSE NoUser]
         /\ profile = [u \in Users |->
              [NewProfile EXCEPT !.verified = old /\ verified /\ u = 1]]
    /\ entries = [u \in Users |-> NoEntry]
    /\ mails = {}
    /\ links = {}
    /\ used = {}
    /\ before = [r \in Requests |-> {}]
    /\ kind \in [Requests -> Kinds]
    /\ pc = [r \in Requests |-> "start"]
    /\ mem = [r \in Requests |-> Blank]

Goto(r, label) == pc' = [pc EXCEPT ![r] = label]
Remember(r, m) == mem' = [mem EXCEPT ![r] = m]

\* The end of the request; its objects are garbage then.
Finish(r) == Goto(r, "done") /\ Remember(r, Blank)

FirstStep == [register |-> "name", verify |-> "resolve", resend |-> "look",
              forgot |-> "forgot", reset |-> "resolve", put |-> "gate"]

\* The client chooses the account, or the address and the username it asks for.
Begin(r) ==
    /\ pc[r] = "start"
    /\ \/ /\ kind[r] = "register"
          /\ \E e \in Emails, name \in Asked \cup {NoName} :
               Remember(r, [Blank EXCEPT !.email = e, !.ask = name])
       \/ /\ kind[r] # "register"
          /\ \E u \in Made : Remember(r, [Blank EXCEPT !.user = u])
    /\ before' = [before EXCEPT ![r] = {t \in Requests : pc[t] = "done"}]
    /\ Goto(r, FirstStep[kind[r]])
    /\ UNCHANGED <<now, store, kind>>

-----------------------------------------------------------------------------
\* register

\* username__iexact
Taken(base, n) == \E u \in Made : user[u].name.base = base /\ user[u].name.n = n

\* The lowest number that is free, as far as the queries see it.
FreeNumbers(base) ==
    {n \in 1..(made + 1) : ~Taken(base, n) /\ \A k \in 1..(n - 1) : Taken(base, k)}

\* build_unique_username
BuildName(r) ==
    LET ask == mem[r].ask
        base == IF ask = NoName THEN Base[mem[r].email] ELSE ask.base
    IN  /\ pc[r] = "name"
        /\ \E n \in FreeNumbers(base) :
             Remember(r, [mem[r] EXCEPT !.name =
                [base |-> base, n |-> n, lower |-> ask = NoName \/ ask.lower]])
        /\ Goto(r, IF ask = NoName THEN "email" ELSE "asked")
        /\ UNCHANGED <<now, store, before, kind>>

\* A username that was asked for must be free.
CheckName(r) ==
    /\ pc[r] = "asked"
    /\ IF Taken(mem[r].ask.base, 1) THEN Finish(r) ELSE Goto(r, "email") /\ mem' = mem
    /\ UNCHANGED <<now, store, before, kind>>

\* So must the e-mail be; a bad password is refused here too.
CheckEmail(r) ==
    /\ pc[r] = "email"
    /\ ~\E u \in Made : user[u].email = mem[r].email
    /\ Goto(r, "insert")
    /\ UNCHANGED <<now, store, before, kind, mem>>

RefuseRegistration(r) ==
    /\ pc[r] = "email"
    /\ Finish(r)
    /\ UNCHANGED <<now, store, before, kind>>

\* Seeded fault: the username is made up after the checks.
InsertedName_Late(r) ==
    [mem[r].name EXCEPT !.n = IF mem[r].ask # NoName THEN 1
                              ELSE CHOOSE n \in FreeNumbers(mem[r].name.base) : TRUE]

InsertedName(r) == mem[r].name

\* The unique index of the database, which minds the case.
UsernameIsNew(name) == \A u \in Made : user[u].name # name

Insert(r) ==
    /\ pc[r] = "insert"
    /\ made < MaxUsers
    /\ UsernameIsNew(InsertedName(r))
    /\ made' = made + 1
    /\ user' = [user EXCEPT ![made + 1] =
         [email |-> mem[r].email, name |-> InsertedName(r), password |-> 1,
          asked |-> mem[r].ask # NoName]]
    /\ Remember(r, [Blank EXCEPT !.user = made + 1])
    /\ Goto(r, "mail")
    /\ UNCHANGED <<now, profile, entries, mails, links, used, before, kind>>

\* IntegrityError
InsertFails(r) ==
    /\ pc[r] = "insert"
    /\ ~UsernameIsNew(InsertedName(r))
    /\ Finish(r)
    /\ UNCHANGED <<now, store, before, kind>>

-----------------------------------------------------------------------------
\* Verification mails (auth_email.py).

\* send_email_verification_message: the mail goes out,
SendMail(r) ==
    /\ pc[r] = "mail"
    /\ mails' = mails \cup {[user |-> mem[r].user, at |-> now, by |-> r,
                             saved |-> FALSE]}
    /\ Goto(r, "stamp")
    /\ UNCHANGED <<now, made, user, profile, entries, links, used, before, kind, mem>>

\* or it does not,
MailFails(r) ==
    /\ pc[r] = "mail"
    /\ Finish(r)
    /\ UNCHANGED <<now, store, before, kind>>

\* and its time is saved after it.
Stamp(r) ==
    /\ pc[r] = "stamp"
    /\ profile' = [profile EXCEPT ![mem[r].user].sent = now]
    /\ mails' = {[m EXCEPT !.saved = m.saved \/ m.by = r] : m \in mails}
    /\ Finish(r)
    /\ UNCHANGED <<now, made, user, entries, links, used, before, kind>>

\* resend: nothing to do for a verified address.
Look(r) ==
    /\ pc[r] = "look"
    /\ IF profile[mem[r].user].verified THEN Finish(r)
       ELSE Goto(r, "wait") /\ mem' = mem
    /\ UNCHANGED <<now, store, before, kind>>

\* Seeded fault: the cooldown is over a little early.
CoolsDown_Early(p) == ~p.verified /\ now - p.sent + 1 < Cooldown

\* get_email_verification_resend_remaining_seconds
CoolsDown(p) == ~p.verified /\ now - p.sent < Cooldown

Wait(r) ==
    /\ pc[r] = "wait"
    /\ IF CoolsDown(profile[mem[r].user]) THEN Finish(r)
       ELSE Goto(r, "mail") /\ mem' = mem
    /\ UNCHANGED <<now, store, before, kind>>

\* resolve_email_verification_user: a token that was mailed and is not too old.
ResolveToken(r) ==
    /\ pc[r] = "resolve" /\ kind[r] = "verify"
    /\ IF \E m \in mails : m.user = mem[r].user /\ now - m.at <= MaxAge
       THEN Goto(r, "read") /\ mem' = mem
       ELSE Finish(r)
    /\ UNCHANGED <<now, store, before, kind>>

\* mark_email_verified reads the row, and saves one column of it.
ReadVerified(r) ==
    /\ pc[r] = "read"
    /\ IF profile[mem[r].user].verified THEN Finish(r)
       ELSE Goto(r, "mark") /\ mem' = mem
    /\ UNCHANGED <<now, store, before, kind>>

Mark(r) ==
    /\ pc[r] = "mark"
    /\ profile' = [profile EXCEPT ![mem[r].user].verified = TRUE]
    /\ Finish(r)
    /\ UNCHANGED <<now, made, user, entries, mails, links, used, before, kind>>

-----------------------------------------------------------------------------
\* Password resets.

Forgot(r) ==
    /\ pc[r] = "forgot"
    /\ links' = links \cup {[user |-> mem[r].user, at |-> now,
                             password |-> user[mem[r].user].password]}
    /\ Finish(r)
    /\ UNCHANGED <<now, made, user, profile, entries, mails, used, before, kind>>

\* Seeded fault: the token does not depend on the password.
LinkIsGood_Always(l) == now - l.at <= MaxAge

\* check_token: the hash in the link is made of the password it replaces (and of
\* the last login, which can only make a link die sooner; logins are left out).
LinkIsGood(l) == now - l.at <= MaxAge /\ l.password = user[l.user].password

ResolveLink(r) ==
    /\ pc[r] = "resolve" /\ kind[r] = "reset"
    /\ \E l \in links :
         /\ l.user = mem[r].user
         /\ LinkIsGood(l)
         /\ Remember(r, [mem[r] EXCEPT !.link = l])
    /\ Goto(r, "password")
    /\ UNCHANGED <<now, store, before, kind>>

RefuseLink(r) ==
    /\ pc[r] = "resolve" /\ kind[r] = "reset"
    /\ Finish(r)
    /\ UNCHANGED <<now, store, before, kind>>

\* set_password and save, with a new salt.
SetPassword(r) ==
    /\ pc[r] = "password"
    /\ user' = [user EXCEPT ![mem[r].user].password = @ + 1]
    /\ used' = used \cup {<<r, mem[r].link>>}
    /\ Finish(r)
    /\ UNCHANGED <<now, made, profile, entries, mails, links, before, kind>>

-----------------------------------------------------------------------------
\* PUT /api/me/profile

\* Seeded fault: the middleware lets the path through.
MayEnter_Anybody(u) == TRUE

\* VerifiedEmailRequiredMiddleware
MayEnter(u) == profile[u].verified

Gate(r) ==
    /\ pc[r] = "gate"
    /\ IF MayEnter(mem[r].user) THEN Goto(r, "copy") /\ mem' = mem ELSE Finish(r)
    /\ UNCHANGED <<now, store, before, kind>>

\* The row as it is now, with the fields of the request.
Copy(r) ==
    /\ pc[r] = "copy"
    /\ \E full \in BOOLEAN :
         Remember(r, [mem[r] EXCEPT !.copy = [profile[mem[r].user] EXCEPT !.full = full]])
    /\ Goto(r, "save")
    /\ UNCHANGED <<now, store, before, kind>>

\* serializer.save writes all columns, also those the serializer may not change.
Save(r) ==
    /\ pc[r] = "save"
    /\ profile' = [profile EXCEPT ![mem[r].user] = mem[r].copy]
    /\ IF mem[r].copy.full THEN Goto(r, "complete") /\ mem' = mem ELSE Finish(r)
    /\ UNCHANGED <<now, made, user, entries, mails, links, used, before, kind>>

\* maybe_award_profile_completion_bonus
Complete(r) ==
    /\ pc[r] = "complete"
    /\ profile' = [profile EXCEPT ![mem[r].user].completed = @ \/ ~mem[r].copy.completed]
    /\ IF mem[r].copy.rewarded THEN Finish(r) ELSE Goto(r, "award") /\ mem' = mem
    /\ UNCHANGED <<now, made, user, entries, mails, links, used, before, kind>>

\* Seeded fault: the flag of the copy is trusted, the ledger is not asked.
IsPaid_Flag(r) == mem[r].copy.rewarded

\* The reference is looked for under the lock of the loyalty account, whatever the
\* type of the entry that carries it.
IsPaid(r) == entries[mem[r].user].earn > 0 \/ entries[mem[r].user].redeem

Award(r) ==
    /\ pc[r] = "award"
    /\ entries' = [entries EXCEPT ![mem[r].user].earn = IF IsPaid(r) THEN @ ELSE @ + 1]
    /\ profile' = [profile EXCEPT ![mem[r].user].rewarded = TRUE,
                                  ![mem[r].user].completed = @ \/ ~IsPaid(r)]
    /\ Finish(r)
    /\ UNCHANGED <<now, made, user, mails, links, used, before, kind>>

\* POST /api/loyalty/redeem-points with the reference of the bonus, a text the client
\* chooses: one transaction under the same lock.
Redeem(u) ==
    /\ profile[u].verified
    /\ ~entries[u].redeem
    /\ entries' = [entries EXCEPT ![u].redeem = TRUE]
    /\ UNCHANGED <<now, made, user, profile, mails, links, used, before, kind, pc, mem>>

-----------------------------------------------------------------------------
\* An error, or the death of the worker.
Die(r) ==
    /\ pc[r] \notin {"start", "done"}
    /\ Finish(r)
    /\ UNCHANGED <<now, store, before, kind>>

Tick ==
    /\ now < LastTime
    /\ now' = now + 1
    /\ UNCHANGED <<store, before, kind, pc, mem>>

Work(r) ==
    \/ BuildName(r) \/ CheckName(r) \/ CheckEmail(r) \/ RefuseRegistration(r)
    \/ Insert(r) \/ InsertFails(r) \/ SendMail(r) \/ MailFails(r) \/ Stamp(r)
    \/ Look(r) \/ Wait(r) \/ ResolveToken(r) \/ ReadVerified(r) \/ Mark(r)
    \/ Forgot(r) \/ ResolveLink(r) \/ RefuseLink(r) \/ SetPassword(r)
    \/ Gate(r) \/ Copy(r) \/ Save(r) \/ Complete(r) \/ Award(r)

Next == (\E r \in Requests : Begin(r) \/ Work(r) \/ Die(r)) \/ Tick \/ (\E u \in Made : Redeem(u))

Spec == Init /\ [][Next]_vars

-----------------------------------------------------------------------------
\* Properties.

\* Types of all variables (users_app/models.py, django.contrib.auth).
TypeOK ==
    /\ now \in Times
    /\ made \in 0..MaxUsers
    /\ user \in [Users -> [email : Emails, name : Name \cup {NoName}, password : Nat,
                         asked : BOOLEAN]]
    /\ profile \in [Users -> Profile]
    /\ entries \in [Users -> Ledger]
    /\ mails \subseteq Mail
    /\ links \subseteq Link
    /\ used \subseteq Requests \X Link
    /\ before \in [Requests -> SUBSET Requests]
    /\ kind \in [Requests -> Kinds]
    /\ pc \in [Requests -> Labels]
    /\ mem \in [Requests -> Memory]

\* Nobody has two accounts with one e-mail as long as usernames are made up from
\* the e-mail, although only usernames are unique in the database: registrations
\* that pass the e-mail check together have made up the same username before.
EmailsStayUnique ==
    (\A u \in Made : ~user[u].asked)
    => \A u, v \in Made : user[u].email = user[v].email => u = v

\* A verified address is never unverified again, although a profile is saved with
\* all its columns from a copy that may be old: only verified users come that far.
VerifiedStaysVerified ==
    [][\A u \in Made : profile[u].verified => profile'[u].verified]_vars

\* A mail is sent no sooner than the cooldown after one whose request had ended
\* when this one began, unless the address was verified in between.
CooldownHolds ==
    \A a, b \in mails :
        a.user = b.user /\ a.saved /\ a.by \in before[b.by]
        => b.at - a.at >= Cooldown \/ profile[a.user].verified

\* Of all the links mailed for one password, one is used, or several by requests
\* that overlap: when a reset has ended, the others are dead.
LinkWorksOnce ==
    \A x, y \in used :
        x[2].user = y[2].user /\ x[2].password = y[2].password
        => x[1] \notin before[y[1]]

\* The bonus is paid at most once, and whoever has the flag was paid, or redeemed
\* points under the reference of the bonus: the code takes any entry with it for a
\* payment.  All this although an old copy may take the flag back.
BonusIsBacked ==
    \A u \in Made :
        /\ entries[u].earn <= 1
        /\ profile[u].rewarded => entries[u].earn = 1 \/ entries[u].redeem
=============================================================================
