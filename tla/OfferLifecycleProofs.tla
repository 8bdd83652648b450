------------------------ MODULE OfferLifecycleProofs ------------------------
(***************************************************************************)
(* For any number of offers, assignments, requests and days: events and    *)
(* rows agree, what is closed or redeemed stays so, a benefit is given     *)
(* once and in time, and a clicked assignment is not superseded.           *)
(***************************************************************************)
EXTENDS OfferLifecycle, TLAPS

\* The labels at which a request may hold row locks, those at which it looks
\* for the next offer, and those at which it works on a named assignment.
Judging == {"offer", "judge", "keep", "select", "replace"}
Assigning == {"query", "take"} \cup Judging
Holding == Assigning \cup {"claim", "wallet"}
Naming == {"read", "claim", "wallet", "close", "drop", "expired", "click", "expose"}

\* Row locks end with their transaction.
RowLocks(r) == \A s \in Slots : holder[s] = r => s \in Made /\ pc[r] \in Holding

Names(r) ==
    /\ slot[r] \in 0..made
    /\ pc[r] \in Naming => slot[r] # 0

\* What a request has locked and judges is open and has been judged right.
Views(r) ==
    /\ pc[r] = "take" => view[r] \subseteq Made
    /\ pc[r] \in Judging => \A s \in view[r] :
          s \in Made /\ holder[s] = r /\ Open(row[s]) /\ view[r] = {s}

Images(r) ==
    \A s \in view[r] :
        /\ pc[r] \in {"keep", "select", "replace"} =>
              /\ image[r].by = row[s].by
              /\ image[r].heir = row[s].heir
              /\ image[r].due = row[s].due
              /\ image[r].active = (pc[r] # "select")
              /\ image[r].active => row[s].due > at[r] /\ ~image[r].redeemed
        /\ pc[r] = "replace" => CanSupersede(s)

\* The assignment it gives a benefit for is its own and still good.
Applies(r) ==
    /\ pc[r] \in {"claim", "wallet"} => holder[slot[r]] = r
    /\ pc[r] = "wallet" => Usable(r, slot[r])
    /\ pc[r] \in Assigning /\ kind[r] \in Buys /\ slot[r] # 0 =>
          /\ holder[slot[r]] = r
          /\ Usable(r, slot[r])
          /\ pc[r] # "query" => slot[r] \notin view[r]

\* What it is about to close, or has closed, as overdue, is.
Closes(r) ==
    /\ pc[r] \in {"close", "expired"} => row[slot[r]].due <= at[r]
    /\ pc[r] = "expired" => ~row[slot[r]].active

ReqInv(r) ==
    at[r] <= now /\ RowLocks(r) /\ Names(r) /\ Views(r) /\ Images(r) /\ Applies(r) /\ Closes(r)

\* Rows that do not exist yet have no events.
RowInv == EventsTellTheTruth /\ \A s \in Slots \ Made : events[s] = {}

IInv == TypeOK /\ RowInv /\ \A r \in Requests : ReqInv(r)

\* What a step of r leaves alone: the other requests, the rows they have locked,
\* and the past of every assignment.
OwnOnly(r) ==
    \A q \in Requests \ {r} :
        /\ at'[q] = at[q] /\ pc'[q] = pc[q] /\ kind'[q] = kind[q]
        /\ slot'[q] = slot[q] /\ view'[q] = view[q] /\ image'[q] = image[q]

Others(r) ==
    /\ now' = now /\ made <= made' /\ made' \in 0..MaxRows
    /\ OwnOnly(r)
    /\ \A q \in Requests \ {r} :
          /\ \A s \in Slots : holder'[s] = q <=> holder[s] = q
          /\ \A s \in Made : holder[s] = q =>
                row'[s] = row[s] /\ events'[s] = events[s] /\ shown'[s] = shown[s]
    /\ \A s \in Made : row'[s].due = row[s].due /\ (row'[s].active => row[s].active)

USE OfferAssumption

LEMMA Typing ==
    ASSUME TypeOK
    PROVE  /\ now \in Nat /\ made \in Nat /\ made <= MaxRows /\ Made \subseteq Slots
           /\ \A r \in Requests : at[r] \in Nat /\ at[r] \in Days
           /\ \A s \in Slots : row[s].due \in Nat
  BY DEF TypeOK, Days, Made, Slots, Row

\* Requests that do not step keep their part of the invariant.
LEMMA OthersKeep ==
    ASSUME IInv, NEW r \in Requests, Others(r), NEW q \in Requests \ {r}
    PROVE  ReqInv(q)'
  <1> USE DEF IInv
  <1>1. ReqInv(q) /\ Made \subseteq Slots /\ made \in Nat
    BY Typing
  <1>2. /\ now' = now /\ made <= made' /\ made' \in Nat /\ Made \subseteq Made'
        /\ at'[q] = at[q] /\ pc'[q] = pc[q] /\ kind'[q] = kind[q]
        /\ slot'[q] = slot[q] /\ view'[q] = view[q] /\ image'[q] = image[q]
    BY <1>1 DEF Others, OwnOnly, Made
  <1>3. \A s \in Slots : holder'[s] = q <=> holder[s] = q
    BY DEF Others
  <1>4. \A s \in Made : holder[s] = q =>
           row'[s] = row[s] /\ events'[s] = events[s] /\ shown'[s] = shown[s]
    BY DEF Others
  <1>5. RowLocks(q)'
    BY <1>1, <1>2, <1>3 DEF ReqInv, RowLocks, Slots
  <1>6. Names(q)'
    BY <1>1, <1>2 DEF ReqInv, Names
  <1>7. Views(q)'
    BY <1>1, <1>2, <1>3, <1>4 DEF ReqInv, Views, Open
  <1>8. Images(q)'
    <2>1. ASSUME NEW s \in view[q], pc[q] \in {"keep", "select", "replace"}
          PROVE  /\ row'[s] = row[s] /\ events'[s] = events[s] /\ shown'[s] = shown[s]
      BY <1>1, <1>4, <2>1 DEF ReqInv, Views, Judging
    <2> QED
      BY <1>1, <1>2, <2>1 DEF ReqInv, Images, CanSupersede
  <1>9. Applies(q)'
    <2>1. ASSUME slot[q] # 0 PROVE slot[q] \in Made
      BY <1>1, <2>1 DEF ReqInv, Names, Made
    <2>2. pc[q] \in {"claim", "wallet"} => slot[q] # 0
      BY <1>1 DEF ReqInv, Names, Naming
    <2> QED
      BY <1>1, <1>2, <1>3, <1>4, <2>1, <2>2 DEF ReqInv, Applies, Usable, Open
  <1>10. Closes(q)'
    <2>1. pc[q] \in {"close", "expired"} => slot[q] \in Made
      BY <1>1 DEF ReqInv, Names, Naming, Made
    <2> QED
      BY <1>1, <1>2, <2>1 DEF ReqInv, Closes, Others
  <1> QED
    BY <1>1, <1>2, <1>5, <1>6, <1>7, <1>8, <1>9, <1>10 DEF ReqInv

LEMMA StepInv ==
    ASSUME IInv, NEW r \in Requests, Others(r), TypeOK', RowInv', ReqInv(r)'
    PROVE  IInv'
  BY OthersKeep DEF IInv

\* A step that writes neither rows nor events.
LEMMA RowsKept ==
    ASSUME IInv, UNCHANGED <<now, made, row, events>>
    PROVE  RowInv'
  BY DEF IInv, RowInv, EventsTellTheTruth, Agree, Made, Slots

LEMMA NoRowTyped == NoRow \in Row /\ ~NoRow.active
  <1>1. (CHOOSE o \in Offers : TRUE) \in Offers
    OBVIOUS
  <1> QED
    BY <1>1 DEF NoRow, Row, Days

LEMMA InitInv == Init => IInv
  <1> SUFFICES ASSUME Init PROVE IInv
    OBVIOUS
  <1>1. PICK a \in Given :
          /\ row = [s \in Slots |-> IF s = 1 THEN a ELSE NoRow]
          /\ made = IF a.active THEN 1 ELSE 0
    BY DEF Init
  <1>2. NoRow \in Row /\ ~NoRow.active
    BY NoRowTyped
  <1>3. a \in Row /\ a.redeemed = FALSE /\ a.by = NoRequest /\ a.heir = 0
    <2>1. NoRow.redeemed = FALSE /\ NoRow.by = NoRequest /\ NoRow.heir = 0
      BY DEF NoRow
    <2>2. CASE a = NoRow
      BY <1>2, <2>1, <2>2
    <2>3. CASE a # NoRow
      <3>1. a \in {OldRow(o, b) : o \in Offers, b \in BOOLEAN}
        BY <2>3 DEF Given
      <3>2. PICK o \in Offers, b \in BOOLEAN : a = OldRow(o, b)
        BY <3>1
      <3>3. Ttl \in Nat /\ 0 \in 0..MaxRows /\ 0 \in Days
        BY DEF Days
      <3> QED
        BY <3>2, <3>3 DEF OldRow, Row
    <2> QED
      BY <2>2, <2>3
  <1>4. TypeOK
    BY <1>1, <1>2, <1>3 DEF Init, TypeOK, Days, Labels, Never, LongAgo, Slots
  <1>5. RowInv
    <2>1. events = [s \in Slots |-> {}] /\ Made \subseteq Slots
      BY <1>1 DEF Init, Made, Slots
    <2>2. ASSUME NEW s \in Made PROVE Agree(row[s], events[s], s)
      <3>1. row[s] = a /\ events[s] = {}
        BY <1>1, <2>1 DEF Made
      <3>2. ("redeemed" \in events[s]) = FALSE /\ (a.heir # 0) = FALSE
            /\ ("superseded" \in events[s]) = FALSE
        BY <1>3, <3>1
      <3> QED
        BY <1>3, <3>1, <3>2 DEF Agree
    <2> QED
      BY <2>1, <2>2 DEF RowInv, EventsTellTheTruth
  <1>6. ASSUME NEW r \in Requests PROVE ReqInv(r)
    <2>1. /\ at[r] = 0 /\ now = 0 /\ slot[r] = 0 /\ view[r] = {} /\ pc[r] = "start"
          /\ \A s \in Slots : holder[s] # r
      BY DEF Init
    <2> QED
      BY <1>4, <2>1 DEF ReqInv, RowLocks, Names, Views, Images, Applies, Closes, Naming,
         Judging, Assigning, TypeOK
  <1> QED
    BY <1>4, <1>5, <1>6 DEF IInv

-----------------------------------------------------------------------------
\* One lemma per action.

\* Steps that write no row and no event.
LEMMA QuietStep ==
    ASSUME IInv, NEW r \in Requests, UNCHANGED <<now, made, row, events, shown>>,
           OwnOnly(r), TypeOK', ReqInv(r)',
           \A q \in Requests \ {r}, s \in Slots : holder'[s] = q <=> holder[s] = q
    PROVE  IInv'
  <1>1. made \in 0..MaxRows
    BY DEF IInv, TypeOK
  <1>2. Others(r)
    BY <1>1 DEF Others
  <1> QED
    BY <1>2, RowsKept, StepInv

LEMMA BeginInv ==
    ASSUME IInv, NEW r \in Requests, Begin(r)
    PROVE  IInv'
  <1>1. PICK s \in 0..made :
          /\ kind[r] \in {"redeem", "click", "look"} => s # 0
          /\ slot' = [slot EXCEPT ![r] = s]
    BY DEF Begin
  <1>2. /\ pc[r] = "start" /\ at' = [at EXCEPT ![r] = now]
        /\ pc' = [pc EXCEPT ![r] = FirstStep[kind[r]]]
        /\ UNCHANGED <<shared, kind, view, pick, image>>
    BY DEF Begin, Goto
  <1>3. TypeOK /\ ReqInv(r) /\ kind[r] \in AllKinds
    BY DEF IInv, TypeOK
  <1>4. /\ FirstStep[kind[r]] \in {"query", "pay", "read"}
        /\ FirstStep[kind[r]] = "read" => kind[r] \in {"redeem", "click", "look"}
        /\ FirstStep[kind[r]] = "query" => kind[r] = "next"
    BY <1>3 DEF FirstStep, AllKinds
  <1>5. s \in 0..MaxRows /\ now \in Days /\ now \in Nat
    BY <1>3, Typing DEF TypeOK
  <1>6. TypeOK'
    BY <1>1, <1>2, <1>3, <1>4, <1>5 DEF TypeOK, shared, Labels
  <1>7. OwnOnly(r)
    BY <1>1, <1>2, <1>3 DEF OwnOnly, TypeOK
  <1>8. /\ slot'[r] = s /\ at'[r] = now /\ pc'[r] = FirstStep[kind[r]]
        /\ UNCHANGED <<now, made, row, events, shown, holder, kind, view, pick, image>>
    BY <1>1, <1>2, <1>3 DEF TypeOK, shared
  <1>9. RowLocks(r)'
    BY <1>2, <1>3, <1>8 DEF ReqInv, RowLocks, Holding, Assigning, Judging
  <1>10. Names(r)'
    BY <1>1, <1>4, <1>8 DEF Names, Naming
  <1>11. (Views(r) /\ Images(r) /\ Closes(r))'
    BY <1>4, <1>8 DEF Views, Images, Closes, Judging
  <1>12. Applies(r)'
    BY <1>4, <1>8 DEF Applies, Assigning, Judging, Buys
  <1> QED
    BY <1>5, <1>6, <1>7, <1>8, <1>9, <1>10, <1>11, <1>12, QuietStep DEF ReqInv

LEMMA PayInv ==
    ASSUME IInv, NEW r \in Requests, Pay(r)
    PROVE  IInv'
  <1>1. /\ pc[r] = "pay" /\ pc' = [pc EXCEPT ![r] = "apply"] /\ wallet' = r
        /\ UNCHANGED <<now, last, made, row, events, shown, holder, kind, at, slot,
                       view, pick, image>>
    BY DEF Pay, Goto
  <1>2. TypeOK /\ ReqInv(r)
    BY DEF IInv
  <1>3. TypeOK' /\ OwnOnly(r) /\ pc'[r] = "apply"
    BY <1>1, <1>2 DEF TypeOK, OwnOnly, Labels
  <1>4. ReqInv(r)'
    BY <1>1, <1>2, <1>3 DEF ReqInv, RowLocks, Names, Views, Images, Applies, Closes,
       Holding, Assigning, Judging, Naming
  <1> QED
    BY <1>1, <1>3, <1>4, QuietStep

\* A step that only moves the worker, from a label without locks or views.
LEMMA ApplyNoneInv ==
    ASSUME IInv, NEW r \in Requests, ApplyNone(r)
    PROVE  IInv'
  <1>1. /\ pc[r] = "apply" /\ slot[r] = 0 /\ pc' = [pc EXCEPT ![r] = "query"]
        /\ UNCHANGED <<shared, kind, at, slot, view, pick, image>>
    BY DEF ApplyNone, Goto
  <1>2. TypeOK /\ ReqInv(r)
    BY DEF IInv
  <1>3. TypeOK' /\ OwnOnly(r) /\ pc'[r] = "query"
    BY <1>1, <1>2 DEF TypeOK, OwnOnly, Labels, shared
  <1>4. ReqInv(r)'
    BY <1>1, <1>2, <1>3 DEF ReqInv, RowLocks, Names, Views, Images, Applies, Closes,
       Holding, Assigning, Judging, Naming, shared
  <1> QED
    BY <1>1, <1>3, <1>4, QuietStep DEF shared

LEMMA ApplyNamedInv ==
    ASSUME IInv, NEW r \in Requests, ApplyNamed(r)
    PROVE  IInv'
  <1>1. /\ pc[r] = "apply" /\ slot[r] # 0 /\ FreeFor(r, slot[r]) /\ Usable(r, slot[r])
        /\ holder' = [holder EXCEPT ![slot[r]] = r]
        /\ pc' = [pc EXCEPT ![r] = "query"]
        /\ UNCHANGED <<now, last, made, row, events, shown, wallet, kind, at, slot,
                       view, pick, image>>
    BY DEF ApplyNamed, Goto
  <1>2. TypeOK /\ ReqInv(r) /\ Made \subseteq Slots
    BY Typing DEF IInv
  <1>3. TypeOK' /\ OwnOnly(r) /\ pc'[r] = "query"
    BY <1>1, <1>2 DEF TypeOK, OwnOnly, Labels
  <1>4. slot[r] \in Made /\ slot[r] \in Slots
    BY <1>1, <1>2 DEF ReqInv, Names, Made
  <1>5. /\ holder'[slot[r]] = r
        /\ \A s \in Slots : s # slot[r] => holder'[s] = holder[s]
    BY <1>1, <1>2, <1>4 DEF TypeOK
  <1>6. \A q \in Requests \ {r}, s \in Slots : holder'[s] = q <=> holder[s] = q
    BY <1>1, <1>5 DEF FreeFor
  <1>7. RowLocks(r)'
    BY <1>1, <1>2, <1>3, <1>4 DEF TypeOK, ReqInv, RowLocks, Holding, Assigning, Made
  <1>8. Applies(r)'
    BY <1>1, <1>3, <1>5 DEF Applies, Usable, Open
  <1>9. (Names(r) /\ Views(r) /\ Images(r) /\ Closes(r))'
    BY <1>1, <1>2, <1>3 DEF ReqInv, Names, Views, Images, Closes, Judging, Naming
  <1> QED
    BY <1>1, <1>2, <1>3, <1>6, <1>7, <1>8, <1>9, QuietStep DEF ReqInv

LEMMA ApplyAutoInv ==
    ASSUME IInv, NEW r \in Requests, ApplyAuto(r)
    PROVE  IInv'
  <1>1. PICK s \in 0..made :
          (s # 0 => Usable(r, s)) /\ slot' = [slot EXCEPT ![r] = s]
    BY DEF ApplyAuto
  <1>2. /\ pc[r] = "apply" /\ pc' = [pc EXCEPT ![r] = "query"]
        /\ \A t \in Made : Open(row[t]) => FreeFor(r, t)
        /\ holder' = [t \in Slots |-> IF t \in Made /\ Open(row[t]) THEN r ELSE holder[t]]
        /\ UNCHANGED <<now, last, made, row, events, shown, wallet, kind, at, view, pick, image>>
    BY DEF ApplyAuto, Goto
  <1>3. TypeOK /\ ReqInv(r) /\ Made \subseteq Slots /\ s \in 0..MaxRows
    BY Typing DEF IInv, TypeOK
  <1>4. TypeOK' /\ OwnOnly(r) /\ pc'[r] = "query" /\ slot'[r] = s
    BY <1>1, <1>2, <1>3 DEF TypeOK, OwnOnly, Labels
  <1>5. \A q \in Requests \ {r}, t \in Slots : holder'[t] = q <=> holder[t] = q
    BY <1>2 DEF FreeFor
  <1>6. RowLocks(r)'
    BY <1>2, <1>3, <1>4 DEF ReqInv, RowLocks, Holding, Assigning, Made
  <1>7. Applies(r)'
    <2>1. s # 0 => s \in Made /\ s \in Slots /\ Open(row[s])
      BY <1>1, <1>3 DEF Made, Usable
    <2>2. s # 0 => holder'[s] = r
      BY <1>2, <2>1
    <2> QED
      BY <1>1, <1>2, <1>4, <2>2 DEF Applies, Usable, Open
  <1>8. (Names(r) /\ Views(r) /\ Images(r) /\ Closes(r))'
    BY <1>1, <1>2, <1>3, <1>4 DEF ReqInv, Names, Views, Images, Closes, Judging, Naming
  <1> QED
    BY <1>2, <1>3, <1>4, <1>5, <1>6, <1>7, <1>8, QuietStep DEF ReqInv

LEMMA QueryInv ==
    ASSUME IInv, NEW r \in Requests, Query(r)
    PROVE  IInv'
  <1> DEFINE found == {s \in Made : Open(row[s])} \ {slot[r]}
  <1>1. /\ pc[r] = "query" /\ pc' = [pc EXCEPT ![r] = "take"]
        /\ view' = [view EXCEPT ![r] = found]
        /\ UNCHANGED <<shared, kind, at, slot, pick, image>>
    BY DEF Query, Goto
  <1>2. TypeOK /\ ReqInv(r)
    BY DEF IInv
  <1>3. found \subseteq Made /\ found \subseteq Slots /\ slot[r] \notin found
    BY <1>2, Typing
  <1> HIDE DEF found
  <1>4. TypeOK' /\ OwnOnly(r) /\ pc'[r] = "take" /\ view'[r] = found
    BY <1>1, <1>2, <1>3 DEF TypeOK, OwnOnly, Labels, shared
  <1>5. (RowLocks(r) /\ Names(r) /\ Views(r) /\ Images(r) /\ Closes(r))'
    BY <1>1, <1>2, <1>3, <1>4 DEF ReqInv, RowLocks, Names, Views, Images, Closes, Made,
       Holding, Assigning, Judging, Naming, shared
  <1>6. Applies(r)'
    BY <1>1, <1>2, <1>3, <1>4 DEF ReqInv, Applies, Usable, Open, Assigning, shared
  <1> QED
    BY <1>1, <1>2, <1>4, <1>5, <1>6, QuietStep DEF ReqInv, shared

LEMMA TakeInv ==
    ASSUME IInv, NEW r \in Requests, Take(r)
    PROVE  IInv'
  <1>1. PICK s \in view[r] :
          /\ FreeFor(r, s)
          /\ IF Open(row[s])
             THEN /\ holder' = [holder EXCEPT ![s] = r]
                  /\ view' = [view EXCEPT ![r] = {s}]
                  /\ image' = [image EXCEPT ![r] = row[s]]
                  /\ Goto(r, "offer")
             ELSE /\ view' = [view EXCEPT ![r] = view[r] \ {s}]
                  /\ UNCHANGED <<holder, image, pc>>
    BY DEF Take
  <1>2. /\ pc[r] = "take"
        /\ UNCHANGED <<now, last, made, row, events, shown, wallet, kind, at, slot, pick>>
    BY DEF Take
  <1>3. TypeOK /\ ReqInv(r) /\ Made \subseteq Slots
    BY Typing DEF IInv
  <1>4. view[r] \subseteq Made /\ s \in Made /\ s \in Slots /\ row[s] \in Row
    BY <1>2, <1>3 DEF ReqInv, Views, TypeOK
  <1>5. CASE Open(row[s])
    <2>1. /\ holder' = [holder EXCEPT ![s] = r]
          /\ view' = [view EXCEPT ![r] = {s}]
          /\ image' = [image EXCEPT ![r] = row[s]]
          /\ pc' = [pc EXCEPT ![r] = "offer"]
      BY <1>1, <1>5 DEF Goto
    <2>2. TypeOK' /\ OwnOnly(r) /\ pc'[r] = "offer" /\ view'[r] = {s}
      BY <1>2, <1>3, <1>4, <2>1 DEF TypeOK, OwnOnly, Labels
    <2>3. holder'[s] = r /\ \A t \in Slots : t # s => holder'[t] = holder[t]
      BY <1>3, <1>4, <2>1 DEF TypeOK
    <2>4. \A q \in Requests \ {r}, t \in Slots : holder'[t] = q <=> holder[t] = q
      BY <1>1, <2>3 DEF FreeFor
    <2>5. RowLocks(r)'
      BY <1>2, <1>3, <1>4, <2>2, <2>3 DEF ReqInv, RowLocks, Holding, Assigning, Judging, Made
    <2>6. Views(r)'
      BY <1>2, <1>4, <1>5, <2>2, <2>3 DEF Views, Made, Open
    <2>7. Applies(r)'
      <3>1. ASSUME kind[r] \in Buys, slot[r] # 0
            PROVE  /\ slot[r] \in Slots /\ holder'[slot[r]] = r /\ Usable(r, slot[r])
                   /\ slot[r] \notin {s}
        <4>1. holder[slot[r]] = r /\ Usable(r, slot[r]) /\ slot[r] \notin view[r]
          BY <1>2, <1>3, <3>1 DEF ReqInv, Applies, Assigning
        <4>2. slot[r] \in Slots /\ slot[r] # s
          BY <1>3, <3>1, <4>1 DEF TypeOK, Slots
        <4> QED
          BY <2>3, <4>1, <4>2
      <3> QED
        BY <1>2, <2>2, <3>1 DEF Applies, Usable, Open
    <2>8. (Names(r) /\ Images(r) /\ Closes(r))'
      BY <1>2, <1>3, <2>2 DEF ReqInv, Names, Images, Closes, Naming
    <2> QED
      BY <1>2, <1>3, <2>2, <2>4, <2>5, <2>6, <2>7, <2>8, QuietStep DEF ReqInv
  <1>6. CASE ~Open(row[s])
    <2>1. view' = [view EXCEPT ![r] = view[r] \ {s}] /\ UNCHANGED <<holder, image, pc>>
      BY <1>1, <1>6
    <2>2. TypeOK' /\ OwnOnly(r) /\ view'[r] = view[r] \ {s}
      BY <1>2, <1>3, <2>1 DEF TypeOK, OwnOnly
    <2>3. (RowLocks(r) /\ Names(r) /\ Views(r) /\ Images(r) /\ Closes(r))'
      BY <1>2, <1>3, <2>1, <2>2 DEF ReqInv, RowLocks, Names, Views, Images, Closes, Made, Judging
    <2>4. Applies(r)'
      BY <1>2, <1>3, <2>1, <2>2 DEF ReqInv, Applies, Usable, Open
    <2> QED
      BY <1>2, <1>3, <2>1, <2>2, <2>3, <2>4, QuietStep DEF ReqInv
  <1> QED
    BY <1>5, <1>6

LEMMA TakeNoneInv ==
    ASSUME IInv, NEW r \in Requests, TakeNone(r)
    PROVE  IInv'
  <1>1. /\ pc[r] = "take" /\ view[r] = {} /\ pc' = [pc EXCEPT ![r] = "select"]
        /\ UNCHANGED <<shared, kind, at, slot, view, pick, image>>
    BY DEF TakeNone, Goto
  <1>2. TypeOK /\ ReqInv(r)
    BY DEF IInv
  <1>3. TypeOK' /\ OwnOnly(r) /\ pc'[r] = "select"
    BY <1>1, <1>2 DEF TypeOK, OwnOnly, Labels, shared
  <1>4. (RowLocks(r) /\ Names(r) /\ Views(r) /\ Images(r) /\ Closes(r))'
    BY <1>1, <1>2, <1>3 DEF ReqInv, RowLocks, Names, Views, Images, Closes, Made,
       Holding, Assigning, Judging, Naming, shared
  <1>5. Applies(r)'
    BY <1>1, <1>2, <1>3 DEF ReqInv, Applies, Usable, Open, Assigning, Judging, shared
  <1> QED
    BY <1>1, <1>2, <1>3, <1>4, <1>5, QuietStep DEF ReqInv, shared

LEMMA TakeOfferInv ==
    ASSUME IInv, NEW r \in Requests, TakeOffer(r)
    PROVE  IInv'
  <1>1. /\ pc[r] = "offer" /\ pc' = [pc EXCEPT ![r] = "judge"]
        /\ UNCHANGED <<shared, kind, at, slot, view, pick, image>>
    BY DEF TakeOffer, Goto
  <1>2. TypeOK /\ ReqInv(r)
    BY DEF IInv
  <1>3. TypeOK' /\ OwnOnly(r) /\ pc'[r] = "judge"
    BY <1>1, <1>2 DEF TypeOK, OwnOnly, Labels, shared
  <1>4. (RowLocks(r) /\ Names(r) /\ Views(r) /\ Images(r) /\ Closes(r))'
    BY <1>1, <1>2, <1>3 DEF ReqInv, RowLocks, Names, Views, Images, Closes, Made, Open,
       Holding, Assigning, Judging, Naming, shared
  <1>5. Applies(r)'
    BY <1>1, <1>2, <1>3 DEF ReqInv, Applies, Usable, Open, Assigning, Judging, shared
  <1> QED
    BY <1>1, <1>2, <1>3, <1>4, <1>5, QuietStep DEF ReqInv, shared

LEMMA PickInv ==
    ASSUME IInv, NEW r \in Requests, Pick(r)
    PROVE  IInv'
  <1>1. PICK o \in Offers : pick' = [pick EXCEPT ![r] = {o}]
    BY DEF Pick
  <1>2. UNCHANGED <<shared, kind, pc, at, slot, view, image>>
    BY DEF Pick
  <1>3. TypeOK /\ ReqInv(r)
    BY DEF IInv
  <1>4. TypeOK' /\ OwnOnly(r)
    BY <1>1, <1>2, <1>3 DEF TypeOK, OwnOnly, shared
  <1>5. ReqInv(r)'
    BY <1>2, <1>3 DEF ReqInv, RowLocks, Names, Views, Images, Applies, Closes, Made, Usable,
       Open, CanSupersede, shared
  <1> QED
    BY <1>2, <1>4, <1>5, QuietStep DEF shared

\* The assignment as it has been judged: active means good and not used up.
LEMMA JudgedFields ==
    ASSUME NEW r \in Requests, NEW b \in Row, Open(b), NEW gone \in BOOLEAN
    PROVE  LET a == Judged(r, b, gone)
           IN  /\ a \in Row /\ a.by = b.by /\ a.heir = b.heir /\ a.due = b.due
               /\ a.active => b.due > at[r] /\ ~a.redeemed
  <1> DEFINE active == b.active /\ b.due > at[r] /\ ~Bought(r, b) /\ ~gone
             redeemed == b.redeemed \/ Bought(r, b)
             a == Judged(r, b, gone)
  <1>1. active \in BOOLEAN /\ redeemed \in BOOLEAN
    BY Zenon
  <1>2. a = [b EXCEPT !.active = active, !.redeemed = redeemed]
    BY DEF Judged
  <1>3. active => b.due > at[r] /\ ~redeemed
    BY DEF Open
  <1> HIDE DEF active, redeemed, a
  <1>4. /\ a \in Row /\ a.by = b.by /\ a.heir = b.heir /\ a.due = b.due
        /\ a.active = active /\ a.redeemed = redeemed
    BY <1>1, <1>2 DEF Row
  <1> QED
    BY <1>3, <1>4 DEF a

LEMMA JudgeInv ==
    ASSUME IInv, NEW r \in Requests, Judge(r)
    PROVE  IInv'
  <1>1. PICK s \in view[r], gone \in BOOLEAN :
          LET a == Judged(r, row[s], gone)
          IN  /\ image' = [image EXCEPT ![r] = a]
              /\ \/ ~a.active /\ Goto(r, "select")
                 \/ a.active /\ Goto(r, "keep")
                 \/ a.active /\ kind[r] \in Buys /\ CanSupersede(s) /\ Goto(r, "replace")
    BY DEF Judge
  <1> DEFINE a == Judged(r, row[s], gone)
  <1>2. pc[r] = "judge" /\ UNCHANGED <<shared, kind, at, slot, view, pick>>
    BY DEF Judge
  <1>3. TypeOK /\ ReqInv(r) /\ Made \subseteq Slots
    BY Typing DEF IInv
  <1>4. s \in Made /\ Open(row[s]) /\ view[r] = {s} /\ row[s] \in Row
    BY <1>2, <1>3 DEF ReqInv, Views, Judging, TypeOK
  <1>5. /\ a \in Row /\ a.by = row[s].by /\ a.heir = row[s].heir /\ a.due = row[s].due
        /\ a.active => row[s].due > at[r] /\ ~a.redeemed
        /\ a.active \in BOOLEAN
    <2>1. a \in Row => a.active \in BOOLEAN
      BY DEF Row
    <2> QED
      BY <1>4, <2>1, JudgedFields
  <1>6. /\ image' = [image EXCEPT ![r] = a]
        /\ \/ ~a.active /\ pc' = [pc EXCEPT ![r] = "select"]
           \/ a.active /\ pc' = [pc EXCEPT ![r] = "keep"]
           \/ a.active /\ CanSupersede(s) /\ pc' = [pc EXCEPT ![r] = "replace"]
    BY <1>1 DEF Goto
  <1> HIDE DEF a
  <1>7. TypeOK' /\ OwnOnly(r) /\ image'[r] = a
    BY <1>2, <1>3, <1>5, <1>6 DEF TypeOK, OwnOnly, Labels, shared
  <1>8. /\ pc'[r] \in {"select", "keep", "replace"}
        /\ a.active = (pc'[r] # "select")
        /\ pc'[r] = "replace" => CanSupersede(s)
    BY <1>3, <1>5, <1>6 DEF TypeOK
  <1>9. (RowLocks(r) /\ Names(r) /\ Views(r) /\ Closes(r))'
    BY <1>2, <1>3, <1>8 DEF ReqInv, RowLocks, Names, Views, Closes, Made, Open,
       Holding, Assigning, Judging, Naming, shared
  <1>10. Images(r)'
    BY <1>2, <1>4, <1>5, <1>7, <1>8 DEF Images, CanSupersede, shared
  <1>11. Applies(r)'
    BY <1>2, <1>3, <1>8 DEF ReqInv, Applies, Usable, Open, Assigning, Judging, shared
  <1> QED
    BY <1>2, <1>3, <1>7, <1>9, <1>10, <1>11, QuietStep DEF ReqInv, shared

LEMMA ReadInv ==
    ASSUME IInv, NEW r \in Requests, Read(r)
    PROVE  IInv'
  <1>1. /\ pc[r] = "read" /\ UNCHANGED <<shared, kind, at, slot, view, pick, image>>
        /\ \E label \in {"done", "close", "click", "expose", "drop"} :
              /\ pc' = [pc EXCEPT ![r] = label]
              /\ label = "close" => row[slot[r]].due <= at[r]
    BY DEF Read, Goto
  <1>2. TypeOK /\ ReqInv(r)
    BY DEF IInv
  <1>3. /\ TypeOK' /\ OwnOnly(r)
        /\ pc'[r] \in {"done", "close", "click", "expose", "drop"}
        /\ pc'[r] = "close" => row[slot[r]].due <= at[r]
    BY <1>1, <1>2 DEF TypeOK, OwnOnly, Labels, shared
  <1>4. ReqInv(r)'
    BY <1>1, <1>2, <1>3 DEF ReqInv, RowLocks, Names, Views, Images, Applies, Closes,
       Holding, Assigning, Judging, Naming, shared
  <1> QED
    BY <1>1, <1>3, <1>4, QuietStep DEF shared

\* The end of a transaction frees the locks of r and nobody else's.
LEMMA ReleasedLocks ==
    ASSUME TypeOK, NEW r \in Requests, holder' = Released(r)
    PROVE  /\ holder' \in [Slots -> Requests \cup {NoRequest}]
           /\ \A s \in Slots : holder'[s] # r
           /\ \A q \in Requests \ {r}, s \in Slots : holder'[s] = q <=> holder[s] = q
  BY DEF TypeOK, Released

LEMMA RollbackInv ==
    ASSUME IInv, NEW r \in Requests, Rollback(r)
    PROVE  IInv'
  <1>1. /\ holder' = Released(r) /\ wallet' \in {wallet, NoRequest}
        /\ view' = [view EXCEPT ![r] = {}] /\ image' = [image EXCEPT ![r] = NoRow]
        /\ pick' = [pick EXCEPT ![r] = {}]
        /\ slot' = [slot EXCEPT ![r] = 0] /\ pc' = [pc EXCEPT ![r] = "done"]
        /\ UNCHANGED <<now, last, made, row, events, shown, kind, at>>
    BY DEF Rollback, Release, Forget, Goto
  <1>2. TypeOK /\ ReqInv(r) /\ NoRow \in Row /\ made \in Nat
    BY NoRowTyped, Typing DEF IInv
  <1>3. TypeOK' /\ OwnOnly(r)
    BY <1>1, <1>2, ReleasedLocks DEF TypeOK, OwnOnly, Labels
  <1>4. /\ pc'[r] = "done" /\ view'[r] = {} /\ slot'[r] = 0
        /\ \A s \in Slots : holder'[s] # r
    BY <1>1, <1>2, ReleasedLocks DEF TypeOK
  <1>5. ReqInv(r)'
    BY <1>1, <1>2, <1>4 DEF ReqInv, RowLocks, Names, Views, Images, Applies, Closes,
       Assigning, Judging, Naming
  <1> QED
    BY <1>1, <1>2, <1>3, <1>5, ReleasedLocks, QuietStep

LEMMA NextDayInv ==
    ASSUME IInv, NextDay
    PROVE  IInv'
  <1>1. /\ now' = now + 1 /\ now < LastDay
        /\ UNCHANGED <<last, made, row, events, shown, holder, wallet, kind, pc, at,
                       slot, view, pick, image>>
    BY DEF NextDay
  <1>2. TypeOK /\ LastDay \in Nat /\ now \in Nat
    BY Typing DEF IInv
  <1>3. TypeOK'
    BY <1>1, <1>2 DEF TypeOK, Days
  <1>4. RowInv'
    <2>1. \A s \in Made : row[s].due \in Nat
      BY <1>2, Typing
    <2> QED
      BY <1>1, <1>2, <2>1 DEF IInv, RowInv, EventsTellTheTruth, Agree, Made, Slots
  <1>5. ASSUME NEW r \in Requests PROVE ReqInv(r)'
    BY <1>1, <1>2, Typing DEF IInv, ReqInv, RowLocks, Names, Views, Images, Applies, Closes,
       Made, Slots, Usable, Open, CanSupersede
  <1> QED
    BY <1>3, <1>4, <1>5 DEF IInv

\* A step that writes one assignment, which nobody else has locked.
LEMMA RowStep ==
    ASSUME IInv, NEW r \in Requests, NEW s \in Made, FreeFor(r, s),
           NEW a \in Row, NEW E,
           row' = [row EXCEPT ![s] = a], events' = [events EXCEPT ![s] = E],
           \A t \in Made \ {s} : shown'[t] = shown[t],
           UNCHANGED <<now, made>>,
           a.due = row[s].due, a.active => row[s].active, Agree(a, E, s),
           \A q \in Requests \ {r}, t \in Slots : holder'[t] = q <=> holder[t] = q,
           OwnOnly(r), TypeOK', ReqInv(r)'
    PROVE  IInv'
  <1>1. TypeOK /\ Made \subseteq Slots /\ made \in 0..MaxRows
    BY Typing DEF IInv, TypeOK
  <1>2. /\ row'[s] = a /\ events'[s] = E
        /\ \A t \in Slots \ {s} : row'[t] = row[t] /\ events'[t] = events[t]
    BY <1>1 DEF TypeOK
  <1>3. RowInv'
    BY <1>1, <1>2 DEF IInv, RowInv, EventsTellTheTruth, Agree, Made, Slots
  <1>4. Others(r)
    <2>1. \A q \in Requests \ {r} : holder[s] # q
      BY DEF FreeFor
    <2> QED
      BY <1>1, <1>2, <2>1 DEF Others
  <1> QED
    BY <1>3, <1>4, StepInv

\* A request works on an assignment that exists.
LEMMA NamedRow ==
    ASSUME IInv, NEW r \in Requests, pc[r] \in Naming
    PROVE  /\ slot[r] \in Made /\ slot[r] \in Slots /\ row[slot[r]] \in Row
           /\ events[slot[r]] \subseteq EventTypes
           /\ Agree(row[slot[r]], events[slot[r]], slot[r])
           /\ row[slot[r]].due \in Nat
  <1>1. slot[r] \in Made /\ slot[r] \in Slots
    BY Typing DEF IInv, ReqInv, Names, Made
  <1> QED
    BY <1>1, Typing DEF IInv, TypeOK, RowInv, EventsTellTheTruth

\* A request that is not in a transaction has no row locks.
LEMMA NoLocks ==
    ASSUME IInv, NEW r \in Requests, pc[r] \notin Holding
    PROVE  \A s \in Slots : holder[s] # r
  BY DEF IInv, ReqInv, RowLocks

LEMMA RedeemLockInv ==
    ASSUME IInv, NEW r \in Requests, RedeemLock(r)
    PROVE  IInv'
  <1> DEFINE s == slot[r]
  <1>1. /\ pc[r] = "read" /\ FreeFor(r, s)
        /\ holder' = [holder EXCEPT ![s] = r] /\ pc' = [pc EXCEPT ![r] = "claim"]
        /\ UNCHANGED <<now, last, made, row, events, shown, wallet, kind, at, slot, view,
                       pick, image>>
    BY DEF RedeemLock, Goto
  <1>2. TypeOK /\ ReqInv(r) /\ s \in Made /\ s \in Slots
    BY <1>1, NamedRow DEF IInv, Naming
  <1>3. TypeOK' /\ OwnOnly(r) /\ pc'[r] = "claim"
    BY <1>1, <1>2 DEF TypeOK, OwnOnly, Labels
  <1>4. holder'[s] = r /\ \A t \in Slots : t # s => holder'[t] = holder[t]
    BY <1>1, <1>2 DEF TypeOK
  <1>5. \A q \in Requests \ {r}, t \in Slots : holder'[t] = q <=> holder[t] = q
    BY <1>1, <1>4 DEF FreeFor
  <1>6. RowLocks(r)'
    BY <1>1, <1>2, <1>3, <1>4 DEF ReqInv, RowLocks, Holding, Assigning, Judging, Made
  <1>7. Applies(r)'
    BY <1>1, <1>3, <1>4 DEF Applies, Assigning, Judging
  <1>8. (Names(r) /\ Views(r) /\ Images(r) /\ Closes(r))'
    BY <1>1, <1>2, <1>3 DEF ReqInv, Names, Views, Images, Closes, Judging, Naming
  <1> QED
    BY <1>1, <1>2, <1>3, <1>5, <1>6, <1>7, <1>8, QuietStep DEF ReqInv

LEMMA RedeemTakeInv ==
    ASSUME IInv, NEW r \in Requests, RedeemTake(r)
    PROVE  IInv'
  <1> DEFINE s == slot[r]
             lapsed == ~row[s].redeemed /\ row[s].offer \notin Discounts /\ row[s].due <= at[r]
             good == Usable(r, s) /\ row[s].offer \notin Discounts
  <1>1. /\ pc[r] = "claim"
        /\ UNCHANGED <<now, last, made, shown, wallet, kind, at, slot, view, pick, image>>
    BY DEF RedeemTake
  <1>2. /\ TypeOK /\ ReqInv(r) /\ s \in Made /\ s \in Slots /\ row[s] \in Row
        /\ events[s] \subseteq EventTypes /\ Agree(row[s], events[s], s)
        /\ row[s].due \in Nat /\ at[r] \in Nat /\ now \in Nat
    BY <1>1, NamedRow, Typing DEF IInv, Naming
  <1>3. CASE good
    <2>1. /\ pc' = [pc EXCEPT ![r] = "wallet"]
          /\ UNCHANGED <<row, events, holder>> /\ Usable(r, s)
      BY <1>3 DEF RedeemTake, Goto
    <2>2. TypeOK' /\ OwnOnly(r) /\ pc'[r] = "wallet"
      BY <1>1, <1>2, <2>1 DEF TypeOK, OwnOnly, Labels
    <2>5. RowLocks(r)'
      BY <1>1, <1>2, <2>1, <2>2 DEF ReqInv, RowLocks, Holding, Made
    <2>6. Applies(r)'
      BY <1>1, <1>2, <2>1, <2>2 DEF ReqInv, Applies, Usable, Open, Assigning, Judging
    <2>7. (Names(r) /\ Views(r) /\ Images(r) /\ Closes(r))'
      BY <1>1, <1>2, <2>2 DEF ReqInv, Names, Views, Images, Closes, Judging, Naming
    <2> QED
      BY <1>1, <1>2, <2>1, <2>2, <2>5, <2>6, <2>7, QuietStep DEF ReqInv
  <1>4. CASE ~good
    <2> DEFINE active == row[s].active /\ ~lapsed
               a == [row[s] EXCEPT !.active = active]
               E == events[s] \cup (IF lapsed /\ row[s].active THEN {"expired"} ELSE {})
    <2>1. /\ row' = [row EXCEPT ![s] = a] /\ events' = [events EXCEPT ![s] = E]
          /\ pc' = [pc EXCEPT ![r] = "done"] /\ holder' = Released(r)
      BY <1>4, <1>2 DEF RedeemTake, Goto, TypeOK
    <2>2. active \in BOOLEAN
      BY Zenon
    <2>3. /\ a \in Row /\ a.active = active /\ a.redeemed = row[s].redeemed
          /\ a.by = row[s].by /\ a.heir = row[s].heir /\ a.due = row[s].due
      <3> HIDE DEF active
      <3> QED
        BY <1>2, <2>2 DEF Row
    <2>4. E \subseteq EventTypes
      BY <1>2 DEF EventTypes
    <2>5. Agree(a, E, s)
      <3>1. at[r] <= now
        BY <1>2 DEF ReqInv
      <3>2. lapsed => row[s].due <= now
        BY <1>2, <3>1
      <3>3. "expired" \in E => lapsed \/ "expired" \in events[s]
        OBVIOUS
      <3>4. /\ ("redeemed" \in E) = ("redeemed" \in events[s])
            /\ ("superseded" \in E) = ("superseded" \in events[s])
        OBVIOUS
      <3>5. active => row[s].active /\ ~lapsed
        OBVIOUS
      <3> HIDE DEF active, lapsed, E, a
      <3> QED
        BY <1>2, <2>3, <3>2, <3>3, <3>4, <3>5 DEF Agree
    <2>6. active => row[s].active
      OBVIOUS
    <2> HIDE DEF a, E, active
    <2>7. TypeOK' /\ OwnOnly(r) /\ pc'[r] = "done"
      BY <1>1, <1>2, <2>1, <2>3, <2>4, ReleasedLocks DEF TypeOK, OwnOnly, Labels
    <2>8. ReqInv(r)'
      BY <1>1, <1>2, <2>1, <2>7, ReleasedLocks DEF ReqInv, RowLocks, Names, Views, Images, Applies, Closes,
         Holding, Assigning, Judging, Naming
    <2> QED
      <3>1. FreeFor(r, s)
        BY <1>1, <1>2 DEF ReqInv, Applies, FreeFor
      <3> QED
        BY <1>1, <1>2, <2>1, <2>3, <2>5, <2>6, <2>7, <2>8, <3>1, ReleasedLocks, RowStep
  <1> QED
    BY <1>3, <1>4

LEMMA RedeemCommitInv ==
    ASSUME IInv, NEW r \in Requests, RedeemCommit(r)
    PROVE  IInv'
  <1> DEFINE s == slot[r]
             a == [row[s] EXCEPT !.active = FALSE, !.redeemed = TRUE, !.by = r]
             E == events[s] \cup {"redeemed"}
  <1>1. /\ pc[r] = "wallet" /\ pc' = [pc EXCEPT ![r] = "done"] /\ holder' = Released(r)
        /\ events' = [events EXCEPT ![s] = E]
        /\ UNCHANGED <<now, last, made, shown, wallet, kind, at, slot, view, pick, image>>
    BY DEF RedeemCommit, Goto
  <1>2. /\ TypeOK /\ ReqInv(r) /\ s \in Made /\ s \in Slots /\ row[s] \in Row
        /\ events[s] \subseteq EventTypes /\ Agree(row[s], events[s], s)
    BY <1>1, NamedRow DEF IInv, Naming
  <1>3. row' = [row EXCEPT ![s] = a]
    BY <1>2 DEF RedeemCommit, TypeOK
  <1>4. holder[s] = r /\ Open(row[s])
    BY <1>1, <1>2 DEF ReqInv, Applies, Usable
  <1>5. /\ a \in Row /\ a.active = FALSE /\ a.redeemed = TRUE
        /\ a.by = r /\ a.heir = row[s].heir /\ a.due = row[s].due
    BY <1>2 DEF Row
  <1>6. E \subseteq EventTypes /\ Agree(a, E, s)
    <2>1. E \subseteq EventTypes
      BY <1>2 DEF EventTypes
    <2>2. /\ ("redeemed" \in E) = TRUE
          /\ ("superseded" \in E) = ("superseded" \in events[s])
          /\ ("expired" \in E) = ("expired" \in events[s])
      OBVIOUS
    <2> HIDE DEF a, E
    <2> QED
      BY <1>2, <1>4, <1>5, <2>1, <2>2 DEF Agree, Open
  <1> HIDE DEF a, E
  <1>7. TypeOK' /\ OwnOnly(r) /\ pc'[r] = "done"
    BY <1>1, <1>2, <1>3, <1>5, <1>6, ReleasedLocks DEF TypeOK, OwnOnly, Labels
  <1>8. ReqInv(r)'
    BY <1>1, <1>2, <1>7, ReleasedLocks DEF ReqInv, RowLocks, Names, Views, Images, Applies,
       Closes, Holding, Assigning, Judging, Naming
  <1> QED
    BY <1>1, <1>2, <1>3, <1>4, <1>5, <1>6, <1>7, <1>8, ReleasedLocks, RowStep DEF FreeFor

LEMMA CloseInv ==
    ASSUME IInv, NEW r \in Requests, Close(r)
    PROVE  IInv'
  <1> DEFINE s == slot[r]
             a == [row[s] EXCEPT !.active = FALSE]
  <1>1. /\ pc[r] \in {"close", "drop"} /\ FreeFor(r, s)
        /\ \/ pc[r] = "close" /\ pc' = [pc EXCEPT ![r] = "expired"]
           \/ pc' = [pc EXCEPT ![r] = "done"]
        /\ UNCHANGED <<now, last, made, events, shown, holder, wallet, kind, at, slot,
                       view, pick, image>>
    BY DEF Close, Writes, Goto
  <1>2. /\ TypeOK /\ ReqInv(r) /\ s \in Made /\ s \in Slots /\ row[s] \in Row
        /\ Agree(row[s], events[s], s)
    BY <1>1, NamedRow DEF IInv, Naming
  <1>3. row' = [row EXCEPT ![s] = a] /\ events' = [events EXCEPT ![s] = events[s]]
    BY <1>1, <1>2 DEF Close, Closed, TypeOK
  <1>4. /\ a \in Row /\ a.active = FALSE /\ a.redeemed = row[s].redeemed
        /\ a.by = row[s].by /\ a.heir = row[s].heir /\ a.due = row[s].due
    BY <1>2 DEF Row
  <1>5. Agree(a, events[s], s)
    BY <1>2, <1>4 DEF Agree
  <1> HIDE DEF a
  <1>6. TypeOK' /\ OwnOnly(r) /\ row'[s] = a
    BY <1>1, <1>2, <1>3, <1>4 DEF TypeOK, OwnOnly, Labels
  <1>7. pc'[r] = "done" \/ (pc[r] = "close" /\ pc'[r] = "expired")
    BY <1>1, <1>2 DEF TypeOK
  <1>8. \A t \in Slots : holder[t] # r
    BY <1>1, NoLocks DEF Holding, Assigning, Judging
  <1>9. Closes(r)'
    BY <1>1, <1>2, <1>4, <1>6, <1>7 DEF ReqInv, Closes
  <1>10. (RowLocks(r) /\ Names(r) /\ Views(r) /\ Images(r) /\ Applies(r))'
    BY <1>1, <1>2, <1>7, <1>8 DEF ReqInv, RowLocks, Names, Views, Images, Applies,
       Assigning, Judging, Naming
  <1> QED
    BY <1>1, <1>2, <1>3, <1>4, <1>5, <1>6, <1>9, <1>10, RowStep DEF ReqInv

\* An event that says no more of the row than is true.
LEMMA RecordInv ==
    ASSUME IInv, NEW r \in Requests,
           \/ Inserts(r, "expired") /\ Record(r, "expired")
           \/ Inserts(r, "click") /\ Record(r, "clicked")
    PROVE  IInv'
  <1> DEFINE s == slot[r]
  <1>1. /\ pc[r] \in {"expired", "click"} /\ FreeFor(r, s)
        /\ pc' = [pc EXCEPT ![r] = "done"]
        /\ UNCHANGED <<now, last, made, row, shown, holder, wallet, kind, at, slot, view,
                       pick, image>>
    BY DEF Inserts, Record, Goto
  <1>2. /\ TypeOK /\ ReqInv(r) /\ s \in Made /\ s \in Slots /\ row[s] \in Row
        /\ events[s] \subseteq EventTypes /\ Agree(row[s], events[s], s)
        /\ row[s].due \in Nat /\ at[r] \in Nat /\ now \in Nat
    BY <1>1, NamedRow, Typing DEF IInv, Naming
  <1>3. PICK type \in {"expired", "clicked"} :
          /\ events' = [events EXCEPT ![s] = events[s] \cup {type}]
          /\ type = "expired" => pc[r] = "expired"
    <2>1. CASE Inserts(r, "expired") /\ Record(r, "expired")
      BY <1>2, <2>1 DEF Inserts, Record, TypeOK
    <2>2. CASE Inserts(r, "click") /\ Record(r, "clicked")
      BY <1>2, <2>2 DEF Inserts, Record, TypeOK
    <2> QED
      BY <2>1, <2>2
  <1> DEFINE E == events[s] \cup {type}
  <1>4. E \subseteq EventTypes
    BY <1>2 DEF EventTypes
  <1>5. Agree(row[s], E, s)
    <2>1. type = "expired" => ~row[s].active /\ row[s].due <= now
      BY <1>2, <1>3 DEF ReqInv, Closes
    <2>2. /\ ("redeemed" \in E) = ("redeemed" \in events[s])
          /\ ("superseded" \in E) = ("superseded" \in events[s])
          /\ "expired" \in E => type = "expired" \/ "expired" \in events[s]
      OBVIOUS
    <2> HIDE DEF E
    <2> QED
      BY <1>2, <2>1, <2>2 DEF Agree
  <1>6. row' = [row EXCEPT ![s] = row[s]] /\ events' = [events EXCEPT ![s] = E]
    BY <1>1, <1>2, <1>3 DEF TypeOK
  <1> HIDE DEF E
  <1>7. TypeOK' /\ OwnOnly(r) /\ pc'[r] = "done"
    BY <1>1, <1>2, <1>4, <1>6 DEF TypeOK, OwnOnly, Labels
  <1>8. \A t \in Slots : holder[t] # r
    BY <1>1, NoLocks DEF Holding, Assigning, Judging
  <1>9. ReqInv(r)'
    BY <1>1, <1>2, <1>7, <1>8 DEF ReqInv, RowLocks, Names, Views, Images, Applies, Closes,
       Assigning, Judging, Naming
  <1> QED
    BY <1>1, <1>2, <1>5, <1>6, <1>7, <1>9, RowStep

LEMMA ExposeInv ==
    ASSUME IInv, NEW r \in Requests, Expose(r)
    PROVE  IInv'
  <1> DEFINE s == slot[r]
  <1>1. /\ pc[r] = "expose" /\ FreeFor(r, s) /\ pc' = [pc EXCEPT ![r] = "done"]
        /\ shown' = [shown EXCEPT ![s] = @ \cup {now}]
        /\ UNCHANGED <<now, last, made, row, events, holder, wallet, kind, at, slot, view,
                       pick, image>>
    BY DEF Expose, Inserts, Goto
  <1>2. /\ TypeOK /\ ReqInv(r) /\ s \in Made /\ s \in Slots /\ row[s] \in Row
        /\ Agree(row[s], events[s], s)
    BY <1>1, NamedRow DEF IInv, Naming
  <1>3. row' = [row EXCEPT ![s] = row[s]] /\ events' = [events EXCEPT ![s] = events[s]]
        /\ \A t \in Made \ {s} : shown'[t] = shown[t]
    BY <1>1, <1>2, Typing DEF TypeOK
  <1>4. TypeOK' /\ OwnOnly(r) /\ pc'[r] = "done"
    BY <1>1, <1>2 DEF TypeOK, OwnOnly, Labels
  <1>5. \A t \in Slots : holder[t] # r
    BY <1>1, NoLocks DEF Holding, Assigning, Judging
  <1>6. ReqInv(r)'
    BY <1>1, <1>2, <1>4, <1>5 DEF ReqInv, RowLocks, Names, Views, Images, Applies, Closes,
       Assigning, Judging, Naming
  <1> QED
    BY <1>1, <1>2, <1>3, <1>4, <1>6, RowStep

\* What a committing request makes of each assignment.
LEMMA AppliedRow ==
    ASSUME IInv, NEW r \in Requests, pc[r] \in {"keep", "replace", "select"}, NEW s \in Made
    PROVE  LET a == Applied(r, s)
               E == AppliedEvents(r, s)
           IN  /\ a \in Row /\ E \subseteq EventTypes /\ Agree(a, E, s)
               /\ a.due = row[s].due /\ a.heir = row[s].heir
               /\ a.active => row[s].active
               /\ row[s].redeemed => a.redeemed
               /\ a.by # row[s].by => a.by = r /\ row[s].by = NoRequest /\ Usable(r, s)
               /\ holder[s] # r => a = row[s] /\ E = events[s]
               /\ s \in view[r] => a = image[r] /\ holder[s] = r /\ Open(row[s])
  <1> DEFINE a == Applied(r, s)
             E == AppliedEvents(r, s)
  <1>1. /\ TypeOK /\ ReqInv(r) /\ s \in Slots /\ row[s] \in Row /\ image[r] \in Row
        /\ events[s] \subseteq EventTypes /\ Agree(row[s], events[s], s)
        /\ row[s].due \in Nat /\ at[r] \in Nat /\ now \in Nat /\ at[r] <= now
    BY Typing DEF IInv, TypeOK, RowInv, EventsTellTheTruth, ReqInv
  <1>2. /\ kind[r] \in Buys /\ s = slot[r] =>
              holder[s] = r /\ Usable(r, s) /\ s \notin view[r]
        /\ s \in view[r] => holder[s] = r /\ Open(row[s])
    <2>1. kind[r] \in Buys /\ s = slot[r] => s # 0
      BY DEF Made
    <2> QED
      BY <1>1, <2>1 DEF ReqInv, Applies, Views, Assigning, Judging
  <1>3. ("expired" \in E) = ("expired" \in events[s] \/ (s \in view[r] /\ row[s].due <= at[r]))
    BY DEF AppliedEvents
  <1>4. ("redeemed" \in E) = ("redeemed" \in events[s] \/ (a.redeemed /\ ~row[s].redeemed))
    BY DEF AppliedEvents
  <1>5. ("superseded" \in E) = ("superseded" \in events[s])
    BY DEF AppliedEvents
  <1>6. E \subseteq EventTypes
    BY <1>1 DEF AppliedEvents, EventTypes
  <1>7. CASE kind[r] \in Buys /\ s = slot[r]
    <2>1. a = [row[s] EXCEPT !.active = FALSE, !.redeemed = TRUE, !.by = r]
      BY <1>7 DEF Applied
    <2> HIDE DEF a, E
    <2>2. /\ a \in Row /\ a.active = FALSE /\ a.redeemed = TRUE /\ a.by = r
          /\ a.heir = row[s].heir /\ a.due = row[s].due
      BY <1>1, <2>1 DEF Row
    <2>3. Agree(a, E, s)
      BY <1>1, <1>2, <1>3, <1>4, <1>5, <1>7, <2>2 DEF Agree, Usable, Open
    <2>4. row[s].by = NoRequest
      BY <1>1, <1>2, <1>7 DEF Agree, Usable, Open
    <2> QED
      BY <1>2, <1>6, <1>7, <2>2, <2>3, <2>4 DEF Usable, Open, a, E
  <1>8. CASE s \in view[r]
    <2>1. a = image[r]
      BY <1>2, <1>8 DEF Applied
    <2>2. /\ image[r].by = row[s].by /\ image[r].heir = row[s].heir
          /\ image[r].due = row[s].due
          /\ image[r].active => row[s].due > at[r] /\ ~image[r].redeemed
      BY <1>1, <1>8 DEF ReqInv, Images
    <2>3. image[r].active => ~(row[s].due <= at[r])
      BY <1>1, <2>2
    <2> HIDE DEF a, E
    <2>4. a.redeemed \in BOOLEAN /\ a.active \in BOOLEAN /\ row[s].redeemed = FALSE
          /\ row[s].active = TRUE
      BY <1>1, <1>2, <1>8, <2>1 DEF Row, Open
    <2>5. Agree(a, E, s)
      <3>1. a.redeemed = ("redeemed" \in E)
        BY <1>1, <1>4, <2>4 DEF Agree
      <3>2. "expired" \in E => ~a.active /\ a.due <= now
        BY <1>1, <1>3, <2>1, <2>2, <2>3, <2>4 DEF Agree
      <3> QED
        BY <1>1, <1>5, <2>1, <2>2, <2>4, <3>1, <3>2 DEF Agree
    <2> QED
      BY <1>1, <1>2, <1>6, <1>8, <2>1, <2>2, <2>4, <2>5 DEF a, E
  <1>9. CASE ~(kind[r] \in Buys /\ s = slot[r]) /\ s \notin view[r]
    <2>1. a = row[s]
      BY <1>9 DEF Applied
    <2>2. E = events[s]
      BY <1>9, <2>1 DEF AppliedEvents
    <2> QED
      BY <1>1, <1>9, <2>1, <2>2
  <1> QED
    BY <1>7, <1>8, <1>9

\* It leaves the rows that do not exist yet alone.
LEMMA AppliedBlank ==
    ASSUME IInv, NEW r \in Requests, pc[r] \in {"keep", "replace", "select"},
           NEW s \in Slots \ Made
    PROVE  Applied(r, s) = row[s] /\ AppliedEvents(r, s) = {} /\ s \notin view[r]
  <1>1. ReqInv(r) /\ events[s] = {}
    BY DEF IInv, RowInv
  <1>2. s # slot[r] /\ s \notin view[r]
    BY <1>1 DEF ReqInv, Names, Views, Judging, Made, Slots
  <1> QED
    BY <1>1, <1>2 DEF Applied, AppliedEvents

\* The end of such a transaction.
LEMMA CommitStep ==
    ASSUME IInv, NEW r \in Requests, Bookkeeping(r), made' \in 0..MaxRows, made <= made',
           NEW t \in 0..made', Return(r, t),
           row' \in [Slots -> Row], events' \in [Slots -> SUBSET EventTypes], RowInv',
           \A s \in Made : /\ holder[s] # r => row'[s] = row[s] /\ events'[s] = events[s]
                           /\ row'[s].due = row[s].due
                           /\ row'[s].active => row[s].active
    PROVE  IInv'
  <1>1. /\ last' \in {now, last} /\ holder' = Released(r) /\ wallet' \in {wallet, NoRequest}
        /\ view' = [view EXCEPT ![r] = {}] /\ image' = [image EXCEPT ![r] = NoRow]
        /\ pick' = [pick EXCEPT ![r] = {}]
        /\ UNCHANGED <<now, shown, kind, at>>
    BY DEF Bookkeeping, Release, Forget
  <1>2. TypeOK /\ ReqInv(r) /\ NoRow \in Row /\ now \in Nat /\ now \in Int
    BY NoRowTyped, Typing DEF IInv
  <1>3. PICK u \in 0..made', label \in {"expose", "done"} :
          /\ slot' = [slot EXCEPT ![r] = u] /\ pc' = [pc EXCEPT ![r] = label]
          /\ label = "expose" => u # 0
    <2>1. CASE kind[r] = "next" /\ t # 0
      BY <2>1 DEF Return, Goto
    <2>2. CASE ~(kind[r] = "next" /\ t # 0)
      BY <2>2 DEF Return, Goto
    <2> QED
      BY <2>1, <2>2
  <1>4. u \in 0..MaxRows
    OBVIOUS
  <1>5. TypeOK' /\ OwnOnly(r)
    BY <1>1, <1>2, <1>3, <1>4, ReleasedLocks DEF TypeOK, OwnOnly, Labels
  <1>6. /\ view'[r] = {} /\ slot'[r] = u /\ pc'[r] = label /\ at'[r] = at[r]
        /\ \A s \in Slots : holder'[s] # r
    BY <1>1, <1>2, <1>3, ReleasedLocks DEF TypeOK
  <1>7. ReqInv(r)'
    BY <1>1, <1>2, <1>3, <1>6 DEF ReqInv, RowLocks, Names, Views, Images, Applies, Closes,
       Assigning, Judging, Naming
  <1>8. Others(r)
    BY <1>1, <1>2, <1>5, ReleasedLocks DEF Others
  <1> QED
    BY <1>5, <1>7, <1>8, StepInv

LEMMA CommitOldInv ==
    ASSUME IInv, NEW r \in Requests, CommitOld(r)
    PROVE  IInv'
  <1>1. /\ pc[r] \in {"keep", "replace", "select"} /\ made' = made /\ Bookkeeping(r)
        /\ row' = [s \in Slots |-> Applied(r, s)]
        /\ events' = [s \in Slots |-> AppliedEvents(r, s)]
    BY DEF CommitOld
  <1>2. TypeOK /\ ReqInv(r) /\ Made \subseteq Slots /\ made \in Nat /\ made \in 0..MaxRows
        /\ now' = now
    BY <1>1, Typing DEF IInv, TypeOK, Bookkeeping
  <1>3. PICK t \in 0..made : Return(r, t)
    <2>1. CASE pc[r] = "select"
      BY <1>2, <2>1 DEF CommitOld
    <2>2. CASE pc[r] # "select"
      <3>1. PICK t \in view[r] : Return(r, t)
        BY <2>2 DEF CommitOld
      <3>2. t \in 0..made
        BY <1>1, <1>2, <3>1 DEF ReqInv, Views, Judging, Made
      <3> QED
        BY <3>1, <3>2
    <2> QED
      BY <2>1, <2>2
  <1>4. \A s \in Made : row'[s] = Applied(r, s) /\ events'[s] = AppliedEvents(r, s)
    BY <1>1, <1>2
  <1>5. \A s \in Slots \ Made : row'[s] = row[s] /\ events'[s] = {}
    BY <1>1, AppliedBlank
  <1>6. row' \in [Slots -> Row] /\ events' \in [Slots -> SUBSET EventTypes]
    <2>1. ASSUME NEW s \in Slots PROVE row'[s] \in Row /\ events'[s] \in SUBSET EventTypes
      <3>1. CASE s \in Made
        BY <1>1, <1>4, <3>1, AppliedRow
      <3>2. CASE s \notin Made
        BY <1>2, <1>5, <3>2 DEF TypeOK
      <3> QED
        BY <3>1, <3>2
    <2> QED
      BY <1>1, <2>1
  <1>7. RowInv'
    <2>1. \A s \in Made : Agree(row'[s], events'[s], s)
      BY <1>1, <1>4, AppliedRow
    <2> QED
      BY <1>1, <1>2, <1>5, <2>1 DEF RowInv, EventsTellTheTruth, Agree, Made
  <1>8. \A s \in Made : /\ holder[s] # r => row'[s] = row[s] /\ events'[s] = events[s]
                        /\ row'[s].due = row[s].due
                        /\ row'[s].active => row[s].active
    BY <1>1, <1>4, AppliedRow
  <1> QED
    BY <1>1, <1>2, <1>3, <1>6, <1>7, <1>8, CommitStep

\* What becomes of the assignments when a new one is made.
LEMMA CommitNewRows ==
    ASSUME IInv, NEW r \in Requests, CommitNew(r), NEW s \in Made
    PROVE  /\ row'[s] \in Row /\ events'[s] \subseteq EventTypes
           /\ Agree(row[s], events[s], s)'
           /\ row'[s].due = row[s].due
           /\ row'[s].active => row[s].active
           /\ row[s].redeemed => row'[s].redeemed
           /\ row[s].heir # 0 => row'[s].heir = row[s].heir
           /\ row'[s].by # row[s].by =>
                 row'[s].by = r /\ row[s].by = NoRequest /\ Usable(r, s)
           /\ holder[s] # r => row'[s] = row[s] /\ events'[s] = events[s]
           /\ row[s].heir = 0 /\ row'[s].heir # 0 => CanSupersede(s)
  <1> DEFINE a == Applied(r, s)
             E == AppliedEvents(r, s)
             old == pc[r] = "replace" /\ s \in view[r]
             new == [image[r] EXCEPT !.active = FALSE, !.heir = made + 1]
  <1>1. /\ pc[r] \in {"keep", "replace", "select"} /\ made < MaxRows /\ made' = made + 1
        /\ now' = now
    BY DEF CommitNew, Bookkeeping
  <1>2. /\ TypeOK /\ ReqInv(r) /\ s \in Slots /\ made \in Nat /\ s # made + 1 /\ s <= made
        /\ s \in Nat /\ image[r] \in Row /\ Agree(row[s], events[s], s)
        /\ row[s].due \in Nat /\ now \in Nat
    BY Typing DEF IInv, TypeOK, RowInv, EventsTellTheTruth, Made, Slots
  <1>3. /\ row'[s] = IF old THEN new ELSE a
        /\ events'[s] = E \cup (IF old THEN {"superseded"} ELSE {})
    BY <1>2 DEF CommitNew
  <1>4. /\ a \in Row /\ E \subseteq EventTypes /\ Agree(a, E, s)
        /\ a.due = row[s].due /\ a.heir = row[s].heir
        /\ a.active => row[s].active
        /\ row[s].redeemed => a.redeemed
        /\ a.by # row[s].by => a.by = r /\ row[s].by = NoRequest /\ Usable(r, s)
        /\ holder[s] # r => a = row[s] /\ E = events[s]
        /\ s \in view[r] => a = image[r] /\ holder[s] = r /\ Open(row[s])
    BY <1>1, AppliedRow
  <1>5. CASE old
    <2>1. row'[s] = new /\ events'[s] = E \cup {"superseded"} /\ a = image[r]
      BY <1>3, <1>4, <1>5
    <2>2. image[r].active /\ image[r].by = row[s].by /\ CanSupersede(s)
      BY <1>2, <1>5 DEF ReqInv, Images
    <2>3. /\ ("redeemed" \in events'[s]) = ("redeemed" \in E)
          /\ ("expired" \in events'[s]) = ("expired" \in E)
          /\ ("superseded" \in events'[s]) = TRUE
          /\ events'[s] \subseteq EventTypes
      BY <1>4, <2>1 DEF EventTypes
    <2>4. made + 1 \in 0..MaxRows
      BY <1>1, <1>2
    <2> HIDE DEF a, E
    <2>5. /\ new \in Row /\ new.active = FALSE /\ new.heir = made + 1
          /\ new.redeemed = a.redeemed /\ new.by = a.by /\ new.due = a.due
      BY <1>2, <2>1, <2>4 DEF Row
    <2>6. ~a.redeemed /\ a.by = NoRequest /\ a.heir = 0 /\ "expired" \notin E
      BY <1>4, <2>1, <2>2 DEF Agree
    <2> HIDE DEF new
    <2>7. (new.heir # 0) = TRUE /\ new.heir > s /\ new.heir <= made'
      BY <1>1, <1>2, <2>5
    <2>8. Agree(row[s], events[s], s)'
      BY <1>4, <2>1, <2>3, <2>5, <2>6, <2>7 DEF Agree
    <2> QED
      BY <1>4, <1>5, <2>1, <2>2, <2>3, <2>5, <2>6, <2>8 DEF Open
  <1>6. CASE ~old
    <2>1. row'[s] = a /\ events'[s] = E
      BY <1>3, <1>6
    <2>2. Agree(row[s], events[s], s)'
      BY <1>1, <1>2, <1>4, <2>1 DEF Agree, Row
    <2> QED
      BY <1>4, <2>1, <2>2
  <1> QED
    BY <1>5, <1>6

LEMMA NewRowTyped ==
    ASSUME IInv, NEW r \in Requests, NEW o \in Offers, NEW shortcut \in BOOLEAN
    PROVE  /\ NewRow(o, shortcut, r) \in Row
           /\ NewRow(o, shortcut, r).redeemed = FALSE
           /\ NewRow(o, shortcut, r).by = NoRequest
           /\ NewRow(o, shortcut, r).heir = 0
  <1>1. now \in Days /\ at[r] + Ttl \in Nat
    BY Typing DEF IInv, TypeOK
  <1> QED
    BY <1>1 DEF NewRow, Row

LEMMA CommitNewInv ==
    ASSUME IInv, NEW r \in Requests, CommitNew(r)
    PROVE  IInv'
  <1>0. PICK n \in Slots : n = made + 1
    BY Typing DEF IInv, CommitNew, Slots
  <1>1. /\ pc[r] \in {"keep", "replace", "select"} /\ made < MaxRows /\ made' = n
        /\ Bookkeeping(r) /\ Return(r, n) /\ now' = now
    BY <1>0 DEF CommitNew, Bookkeeping
  <1>2. /\ TypeOK /\ Made \subseteq Slots /\ made \in Nat /\ n \in 0..MaxRows
        /\ n \in Slots \ Made /\ n \in 0..made' /\ made <= made'
        /\ Slots = Made \cup {n} \cup (Slots \ Made') /\ Made' = Made \cup {n}
    BY <1>0, <1>1, Typing DEF IInv, Made, Slots
  <1>3. PICK o \in pick[r], shortcut \in BOOLEAN :
          row' = [s \in Slots |->
              IF s = made + 1 THEN NewRow(o, shortcut, r)
              ELSE IF pc[r] = "replace" /\ s \in view[r]
                   THEN [image[r] EXCEPT !.active = FALSE, !.heir = made + 1]
                   ELSE Applied(r, s)]
    BY DEF CommitNew
  <1>4. events' = [s \in Slots |-> AppliedEvents(r, s)
           \cup (IF pc[r] = "replace" /\ s \in view[r] THEN {"superseded"} ELSE {})]
    BY DEF CommitNew
  <1>5. /\ row'[n] \in Row /\ row'[n].redeemed = FALSE
        /\ row'[n].by = NoRequest /\ row'[n].heir = 0
    <2>1. row'[n] = NewRow(o, shortcut, r)
      BY <1>0, <1>2, <1>3
    <2>2. o \in Offers
      BY <1>2, <1>3 DEF TypeOK
    <2> QED
      BY <2>1, <2>2, NewRowTyped
  <1>6. \A s \in Slots \ Made : events'[s] = {}
    BY <1>1, <1>4, AppliedBlank
  <1>7. \A s \in Slots \ Made : s # n => row'[s] = row[s]
    BY <1>0, <1>1, <1>3, AppliedBlank
  <1>8. row' \in [Slots -> Row] /\ events' \in [Slots -> SUBSET EventTypes]
    <2>1. ASSUME NEW s \in Slots PROVE row'[s] \in Row /\ events'[s] \in SUBSET EventTypes
      <3>1. CASE s \in Made
        BY <3>1, CommitNewRows
      <3>2. CASE s = n
        BY <1>2, <1>5, <1>6, <3>2
      <3>3. CASE s \notin Made /\ s # n
        BY <1>2, <1>6, <1>7, <3>3 DEF TypeOK
      <3> QED
        BY <3>1, <3>2, <3>3
    <2> QED
      BY <1>3, <1>4, <2>1
  <1>9. RowInv'
    <2>1. \A s \in Made : Agree(row[s], events[s], s)'
      BY CommitNewRows
    <2>2. Agree(row[n], events[n], n)'
      <3>1. /\ row'[n].redeemed = FALSE /\ row'[n].by = NoRequest /\ row'[n].heir = 0
            /\ events'[n] = {}
        BY <1>2, <1>5, <1>6
      <3>2. /\ ("redeemed" \in events'[n]) = FALSE /\ ("superseded" \in events'[n]) = FALSE
            /\ ("expired" \in events'[n]) = FALSE /\ (row'[n].heir # 0) = FALSE
        BY <3>1
      <3> QED
        BY <3>1, <3>2 DEF Agree
    <2>3. \A s \in Slots \ Made' : events'[s] = {}
      BY <1>2, <1>6
    <2> QED
      BY <1>2, <2>1, <2>2, <2>3 DEF RowInv, EventsTellTheTruth, Agree, Slots
  <1>10. \A s \in Made : /\ holder[s] # r => row'[s] = row[s] /\ events'[s] = events[s]
                         /\ row'[s].due = row[s].due
                         /\ row'[s].active => row[s].active
    BY CommitNewRows
  <1> QED
    BY <1>1, <1>2, <1>8, <1>9, <1>10, CommitStep

LEMMA NextInv == IInv /\ [Next]_vars => IInv'
  <1> SUFFICES ASSUME IInv, [Next]_vars PROVE IInv'
    OBVIOUS
  <1>1. ASSUME NEW r \in Requests, Begin(r) \/ Work(r) \/ Die(r)
        PROVE  IInv'
    <2>1. CASE Begin(r) \/ Pay(r) \/ ApplyNamed(r) \/ ApplyNone(r) \/ ApplyAuto(r)
      BY <2>1, BeginInv, PayInv, ApplyNamedInv, ApplyNoneInv, ApplyAutoInv
    <2>2. CASE \/ Query(r) \/ Take(r) \/ TakeNone(r) \/ TakeOffer(r) \/ Judge(r) \/ Pick(r)
               \/ CommitOld(r) \/ CommitNew(r)
      BY <2>2, QueryInv, TakeInv, TakeNoneInv, TakeOfferInv, JudgeInv, PickInv, CommitOldInv,
         CommitNewInv
    <2>3. CASE RedeemLock(r) \/ RedeemTake(r) \/ RedeemCommit(r) \/ Read(r) \/ Close(r) \/ Expose(r)
      BY <2>3, RedeemLockInv, RedeemTakeInv, RedeemCommitInv, ReadInv, CloseInv, ExposeInv
    <2>4. CASE RecordExpired(r) \/ Click(r)
      BY <2>4, RecordInv DEF RecordExpired, Click
    <2>5. CASE Refuse(r) \/ Victim(r) \/ Die(r)
      BY <2>5, RollbackInv DEF Refuse, Victim, Die
    <2> QED
      BY <1>1, <2>1, <2>2, <2>3, <2>4, <2>5 DEF Work
  <1>2. CASE NextDay
    BY <1>2, NextDayInv
  <1>3. CASE UNCHANGED vars
    <2>1. TypeOK'
      BY <1>3 DEF IInv, TypeOK, vars, shared
    <2>2. RowInv'
      BY <1>3, RowsKept DEF vars, shared
    <2>3. ASSUME NEW r \in Requests PROVE ReqInv(r)'
      BY <1>3 DEF IInv, ReqInv, RowLocks, Names, Views, Images, Applies, Closes, Made, Slots,
         Usable, Open, CanSupersede, vars, shared
    <2> QED
      BY <2>1, <2>2, <2>3 DEF IInv
  <1> QED
    BY <1>1, <1>2, <1>3 DEF Next

THEOREM Invariance == Spec => []IInv
  BY InitInv, NextInv, PTL DEF Spec

\* What one step may do to the row of an assignment.
RowMove(s) ==
    /\ ~row[s].active => ~row'[s].active
    /\ row[s].redeemed => row'[s].redeemed
    /\ row[s].heir # 0 => row'[s].heir = row[s].heir
    /\ row'[s].by # row[s].by =>
          \E r \in Requests : row'[s].by = r /\ row[s].by = NoRequest /\ Usable(r, s)
    /\ row[s].heir = 0 /\ row'[s].heir # 0 => CanSupersede(s)

LEMMA StepRows ==
    ASSUME IInv, [Next]_vars, NEW s \in Made
    PROVE  RowMove(s)
  <1>1. s \in Slots /\ row \in [Slots -> Row]
    BY Typing DEF IInv, TypeOK
  <1>2. ASSUME row' = row PROVE RowMove(s)
    BY <1>2 DEF RowMove
  <1>3. ASSUME NEW r \in Requests, CommitNew(r) PROVE RowMove(s)
    BY <1>3, CommitNewRows DEF RowMove
  <1>4. ASSUME NEW r \in Requests, CommitOld(r) PROVE RowMove(s)
    <2>1. row'[s] = Applied(r, s) /\ pc[r] \in {"keep", "replace", "select"}
      BY <1>1, <1>4 DEF CommitOld
    <2> QED
      BY <2>1, AppliedRow DEF RowMove
  <1>5. ASSUME NEW r \in Requests, RedeemCommit(r) PROVE RowMove(s)
    <2>1. pc[r] = "wallet"
          /\ row' = [row EXCEPT ![slot[r]].active = FALSE, ![slot[r]].redeemed = TRUE,
                                ![slot[r]].by = r]
      BY <1>5 DEF RedeemCommit
    <2>2. CASE s # slot[r]
      BY <1>1, <2>1, <2>2 DEF RowMove
    <2>3. CASE s = slot[r]
      <3>1. row'[s] = [row[s] EXCEPT !.active = FALSE, !.redeemed = TRUE, !.by = r]
        BY <1>1, <2>1, <2>3
      <3>2. Usable(r, s) /\ row[s] \in Row /\ Agree(row[s], events[s], s)
        BY <1>1, <2>1, <2>3 DEF IInv, ReqInv, Applies, RowInv, EventsTellTheTruth
      <3>3. row[s].by = NoRequest
        BY <3>2 DEF Agree, Usable, Open
      <3>4. /\ row'[s].active = FALSE /\ row'[s].redeemed = TRUE /\ row'[s].by = r
            /\ row'[s].heir = row[s].heir
        BY <3>1, <3>2 DEF Row
      <3> QED
        BY <3>2, <3>3, <3>4 DEF RowMove
    <2> QED
      BY <2>2, <2>3
  <1>6. ASSUME NEW r \in Requests, RedeemTake(r) \/ Close(r) PROVE RowMove(s)
    <2>1. row' = row \/ \E b : /\ b => row[slot[r]].active
                               /\ row' = [row EXCEPT ![slot[r]].active = b]
      <3>1. CASE Close(r)
        <4>1. pc[r] \in Naming
          BY <3>1 DEF Close, Writes, Naming
        <4>2. row' = [row EXCEPT ![slot[r]].active = FALSE]
          BY <1>1, <3>1, <4>1, NamedRow DEF Close, Closed
        <4> QED
          BY <4>2
      <3>2. CASE RedeemTake(r)
        <4> DEFINE a == row[slot[r]]
                   b == a.active /\ ~(~a.redeemed /\ a.offer \notin Discounts /\ a.due <= at[r])
        <4>1. row' = row \/ row' = [row EXCEPT ![slot[r]].active = b]
          BY <3>2 DEF RedeemTake
        <4> QED
          BY <4>1
      <3> QED
        BY <1>6, <3>1, <3>2
    <2>2. CASE row' = row
      BY <1>2, <2>2
    <2>3. ASSUME NEW b, b => row[slot[r]].active, row' = [row EXCEPT ![slot[r]].active = b]
          PROVE  RowMove(s)
      <3>1. CASE s # slot[r]
        BY <1>1, <2>3, <3>1 DEF RowMove
      <3>2. CASE s = slot[r]
        <4>1. row'[s] = [row[s] EXCEPT !.active = b] /\ row[s] \in Row
          BY <1>1, <2>3, <3>2
        <4>2. /\ row'[s].active = b /\ row'[s].redeemed = row[s].redeemed
              /\ row'[s].by = row[s].by /\ row'[s].heir = row[s].heir
          BY <4>1 DEF Row
        <4> QED
          BY <2>3, <3>2, <4>2 DEF RowMove
      <3> QED
        BY <3>1, <3>2
    <2> QED
      BY <2>1, <2>2, <2>3
  <1>7. ASSUME NEW r \in Requests,
               \/ Begin(r) \/ Pay(r) \/ ApplyNamed(r) \/ ApplyNone(r) \/ ApplyAuto(r)
               \/ Query(r) \/ Take(r) \/ TakeNone(r) \/ TakeOffer(r) \/ Judge(r)
               \/ Pick(r) \/ RedeemLock(r) \/ Read(r)
               \/ RecordExpired(r) \/ Click(r) \/ Expose(r)
               \/ Refuse(r) \/ Victim(r) \/ Die(r)
        PROVE  row' = row
    BY <1>7 DEF Begin, Pay, ApplyNamed, ApplyNone, ApplyAuto, Query, Take, TakeNone,
       TakeOffer, Judge, Pick, RedeemLock, Read, RecordExpired, Click, Record, Expose, Refuse, Victim, Die, Rollback, shared
  <1>8. CASE NextDay \/ UNCHANGED vars
    BY <1>2, <1>8 DEF NextDay, vars, shared
  <1> QED
    BY <1>2, <1>3, <1>4, <1>5, <1>6, <1>7, <1>8 DEF Next, Work

-----------------------------------------------------------------------------
\* The variables keep their types.
THEOREM TypeCorrect == Spec => []TypeOK
  <1>1. IInv => TypeOK
    BY DEF IInv
  <1> QED
    BY <1>1, Invariance, PTL

\* The event log and the rows agree, whichever copies the looks and clicks of a
\* user have in memory and wherever a worker dies between its two statements.
THEOREM LogIsTrue == Spec => []EventsTellTheTruth
  <1>1. IInv => EventsTellTheTruth
    BY DEF IInv, RowInv
  <1> QED
    BY <1>1, Invariance, PTL

\* Nothing reopens a closed assignment or moves a redeemed one to another
\* purchase.
THEOREM ClosedStaysClosed == Spec => FinalIsFinal
  <1>1. IInv /\ [Next]_vars =>
          [\A s \in Made :
             /\ ~row[s].active => ~row'[s].active
             /\ row[s].redeemed => row'[s].redeemed /\ row'[s].by = row[s].by
             /\ row[s].heir # 0 => row'[s].heir = row[s].heir]_vars
    BY StepRows DEF RowMove, Usable, Open
  <1> QED
    BY <1>1, Invariance, PTL DEF Spec, FinalIsFinal

\* One purchase or redemption has the benefit of an assignment, and only one that
\* began before the assignment expired and found it open.
THEOREM BenefitOnce == Spec => BenefitIsEarned
  <1>1. ASSUME IInv, [Next]_vars, NEW s \in Made, row'[s].by # row[s].by
        PROVE  /\ row[s].by = NoRequest
               /\ row[s].active /\ ~row[s].redeemed
               /\ row[s].due > at[row'[s].by]
               /\ events[s] \cap {"redeemed", "superseded"} = {}
    <2>1. Agree(row[s], events[s], s)
      BY <1>1 DEF IInv, RowInv, EventsTellTheTruth
    <2> QED
      BY <1>1, <2>1, StepRows DEF RowMove, Usable, Open, Agree
  <1>2. IInv /\ [Next]_vars =>
          [\A s \in Made :
             row'[s].by # row[s].by
             => /\ row[s].by = NoRequest
                /\ row[s].active /\ ~row[s].redeemed
                /\ row[s].due > at[row'[s].by]
                /\ events[s] \cap {"redeemed", "superseded"} = {}]_vars
    BY <1>1
  <1> QED
    BY <1>2, Invariance, PTL DEF Spec, BenefitIsEarned

\* A click that commits before the superseding checkout does is never ignored:
\* its foreign key makes it wait for the row that the checkout has locked.
THEOREM ClickIsRespected == Spec => ClickedIsKept
  <1>1. IInv /\ [Next]_vars =>
          [\A s \in Made :
             row[s].heir = 0 /\ row'[s].heir # 0
             => "clicked" \notin events[s] /\ Cardinality(shown[s]) <= MaxExposed]_vars
    BY StepRows DEF RowMove, CanSupersede
  <1> QED
    BY <1>1, Invariance, PTL DEF Spec, ClickedIsKept
=============================================================================
