--------------------------- MODULE RoadmapPlanProofs ---------------------------
(***************************************************************************)
(* For any rule chain and any requests on the roadmap of a category: each  *)
(* step row is paid at most once and only if it was done, none that is     *)
(* done is forgotten, replaced plans stay closed, one plan stays one plan, *)
(* and a new cycle closes nothing for what was owned before it.            *)
(***************************************************************************)
EXTENDS RoadmapPlan, FiniteSetTheorems, SequenceTheorems, TLAPS

USE RoadmapAssumption

PatchLabels == {"read", "mark", "bonus", "next", "rule", "select", "delete", "meta"}
PayloadRow == [type : Types, status : Statuses]

\* What a request of kind k that stands at l remembers: a patch, the plan and the
\* position it works on; a refresh about to pay, the plan it has written, and steps
\* of that plan only; one about to write, a payload that honours the cycle.
Local(k, l, m) ==
    /\ k # "patch" => l \notin PatchLabels
    /\ l \in PatchLabels \ {"read"} => m.seen \in Plans
    /\ l \in {"mark", "bonus", "next", "rule", "select"} => m.index \in Indexes
    /\ l \in {"mark", "bonus"} => m.life # 0
    /\ l \in {"list", "award"} =>
          \E p \in Plans : m.live = {p} /\ \A s \in m.todo : s[1] = p
    /\ l \in {"find", "lock", "write", "commit"} /\ m.cycle =>
          \A i \in DOMAIN m.payload : m.payload[i].status # "owned"

LocalInv == \A r \in Requests : Local(kind[r], pc[r], mem[r])

\* A row that is there has a number.
Numbered(table) ==
    \A p \in Plans, i \in Indexes : table[p][i].status # "none" => table[p][i].life # 0

\* Plans are made in order.
MadeInOrder == \A p \in Plans : p > made => plan[p].state = "none"

BaseInv == TypeOK /\ LocalInv /\ Numbered(step) /\ MadeInOrder

\* The part of a step that is not about the request that takes it.
StoreInv ==
    /\ owned \subseteq Types
    /\ made \in 0..MaxPlans
    /\ plan \in [Plans -> PlanRow]
    /\ step \in [Plans -> [Indexes -> StepRow]]
    /\ credits \in [Step -> Nat]
    /\ redeemed \subseteq Step
    /\ done \subseteq Step
    /\ unpaid \subseteq Plans
    /\ wallet \in Requests \cup {NoRequest}
    /\ holder \in [Plans -> Requests \cup {NoRequest}]
    /\ Numbered(step) /\ MadeInOrder

-----------------------------------------------------------------------------
\* Types.

LEMMA BlankType ==
    /\ Blank \in Memory
    /\ Blank.seen = 0 /\ Blank.live = {} /\ Blank.todo = {} /\ Blank.cycle = FALSE
  <1> DEFINE none == <<>>
  <1>1. Blank = [seen |-> 0, cycle |-> FALSE, bought |-> {}, live |-> {}, todo |-> {},
                 payload |-> none, index |-> 0, life |-> 0, base |-> FALSE, to |-> "none",
                 end |-> 0]
    BY DEF Blank
  <1>2. none \in Seq(PayloadRow)
    OBVIOUS
  <1>3. "none" \in Statuses /\ 0 \in 0..MaxPlans /\ 0 \in 0..MaxSteps /\ 0 \in Lives
        /\ 0 \in 0..(MaxSteps + 1)
    BY DEF Statuses, Lives
  <1> HIDE DEF none
  <1> QED
    BY <1>1, <1>2, <1>3 DEF Memory, PayloadRow

LEMMA MemoryFields ==
    ASSUME TypeOK, NEW r \in Requests
    PROVE  /\ mem[r] \in Memory /\ mem[r].seen \in 0..MaxPlans /\ mem[r].cycle \in BOOLEAN
           /\ mem[r].bought \in SUBSET Types /\ mem[r].live \in SUBSET Plans
           /\ mem[r].todo \in SUBSET Step /\ mem[r].payload \in Seq(PayloadRow)
           /\ mem[r].index \in 0..MaxSteps /\ mem[r].life \in Lives
           /\ mem[r].base \in BOOLEAN /\ mem[r].to \in Statuses
           /\ mem[r].end \in 0..(MaxSteps + 1)
  BY DEF TypeOK, Memory, PayloadRow

LEMMA TypesAreFinite == IsFiniteSet(Types) /\ IsFiniteSet(Indexes) /\ IsFiniteSet(Plans)
  <1>1. IsFiniteSet(Indexes) /\ IsFiniteSet(Plans) /\ IsFiniteSet(1..Len(RuleChain))
    BY FS_Interval DEF Indexes, Plans
  <1>2. RuleChain \in Surjection(1..Len(RuleChain), Types)
    BY DEF Surjection, Types, Range
  <1> QED
    BY <1>1, <1>2, FS_Surjection

\* The store and one request, put together again.
LEMMA MoveBase ==
    ASSUME BaseInv, NEW r \in Requests, NEW l \in Labels, NEW m \in Memory,
           pc' = [pc EXCEPT ![r] = l], mem' = [mem EXCEPT ![r] = m],
           kind' = kind, StoreInv', Local(kind[r], l, m)
    PROVE  BaseInv'
  <1>1. TypeOK'
    BY DEF BaseInv, TypeOK, StoreInv
  <1>2. LocalInv'
    <2> SUFFICES ASSUME NEW q \in Requests PROVE Local(kind[q], pc'[q], mem'[q])
      BY DEF LocalInv
    <2>1. CASE q = r
      BY <2>1 DEF BaseInv, TypeOK
    <2>2. CASE q # r
      BY <2>2 DEF BaseInv, TypeOK, LocalInv
    <2> QED
      BY <2>1, <2>2
  <1> QED
    BY <1>1, <1>2 DEF BaseInv, StoreInv

LEMMA StoreOfBase == BaseInv => StoreInv
  BY DEF BaseInv, StoreInv, TypeOK

LEMMA StoreKept == BaseInv /\ UNCHANGED <<owned, rows, wallet, holder>> => StoreInv'
  BY DEF BaseInv, StoreInv, TypeOK, rows, Numbered, MadeInOrder

LEMMA FinishBase ==
    ASSUME BaseInv, NEW r \in Requests, Finish(r), kind' = kind, StoreInv'
    PROVE  BaseInv'
  <1>1. Local(kind[r], "done", Blank)
    BY DEF Local, PatchLabels
  <1> QED
    BY <1>1, BlankType, MoveBase DEF Finish, Goto, Remember, Labels

\* The done rows of a plan.
LEMMA DoneType ==
    ASSUME NEW table \in [Plans -> [Indexes -> StepRow]], Numbered(table), NEW p \in Plans
    PROVE  DoneIn(table, p) \subseteq Step /\ \A s \in DoneIn(table, p) : s[1] = p
  <1> SUFFICES ASSUME NEW i \in Indexes, table[p][i].status \in DoneStatuses
               PROVE  Id(table, p, i) \in Step /\ Id(table, p, i)[1] = p
    BY DEF DoneIn
  <1>1. table[p][i] \in StepRow
    OBVIOUS
  <1>2. table[p][i].life \in Lives \ {0}
    BY <1>1 DEF StepRow, Numbered, DoneStatuses
  <1> QED
    BY <1>2 DEF Id, Step

\* Ending a request that has locks, or none.
LEMMA ReleaseType ==
    ASSUME BaseInv, NEW r \in Requests, Release(r)
    PROVE  holder' \in [Plans -> Requests \cup {NoRequest}]
           /\ wallet' \in Requests \cup {NoRequest}
  BY DEF Release, Released, BaseInv, TypeOK

LEMMA OwesPlans ==
    ASSUME BaseInv, NEW r \in Requests
    PROVE  Owes(r) \subseteq Plans
  <1>1. mem[r].live \subseteq Plans
    BY MemoryFields DEF BaseInv
  <1>2. pc[r] = "bonus" => mem[r].seen \in Plans
    BY DEF BaseInv, LocalInv, Local, PatchLabels
  <1> QED
    BY <1>1, <1>2 DEF Owes

LEMMA EndBase ==
    ASSUME BaseInv, NEW r \in Requests,
           \/ Show(r) \/ AwardNone(r) \/ NotFound(r) \/ MarkGone(r) \/ CommitAlone(r) \/ Die(r)
           \/ Redeem(r)
    PROVE  BaseInv'
  <1>1. CASE Show(r) \/ AwardNone(r) \/ NotFound(r) \/ MarkGone(r)
    BY <1>1, StoreKept, FinishBase DEF Show, AwardNone, NotFound, MarkGone
  <1>2. CASE CommitAlone(r)
    <2>1. owned' \subseteq Types
      BY <1>2, MemoryFields DEF CommitAlone, BaseInv, TypeOK
    <2>2. StoreInv'
      BY <1>2, <2>1, ReleaseType, StoreOfBase
      DEF CommitAlone, StoreInv, rows, Numbered, MadeInOrder
    <2> QED
      BY <1>2, <2>2, FinishBase DEF CommitAlone
  <1>3. CASE Die(r)
    <2>1. Owes(r) \subseteq Plans
      BY OwesPlans
    <2>2. StoreInv'
      BY <1>3, <2>1, ReleaseType, StoreOfBase DEF Die, StoreInv, Numbered, MadeInOrder
    <2> QED
      BY <1>3, <2>2, FinishBase DEF Die
  <1>4. CASE Redeem(r)
    <2>1. References \subseteq Step
      BY DEF Step, Plans, Indexes, Lives
    <2>2. StoreInv'
      BY <1>4, <2>1, StoreOfBase DEF Redeem, StoreInv, Numbered, MadeInOrder
    <2> QED
      BY <1>4, <2>2, FinishBase DEF Redeem
  <1> QED
    BY <1>1, <1>2, <1>3, <1>4

LEMMA BeginBase ==
    ASSUME BaseInv, NEW r \in Requests, Begin(r)
    PROVE  BaseInv'
  <1>1. kind[r] \in AllKinds /\ mem[r] \in Memory
    BY DEF BaseInv, TypeOK
  <1>2. FirstStep[kind[r]] \in {"look", "pay", "read", "redeem"}
        /\ (FirstStep[kind[r]] = "read" => kind[r] = "patch")
    BY <1>1 DEF AllKinds, FirstStep
  <1>3. FirstStep[kind[r]] \in Labels /\ Local(kind[r], FirstStep[kind[r]], mem[r])
    BY <1>2 DEF Labels, Local, PatchLabels
  <1>4. mem' = [mem EXCEPT ![r] = mem[r]]
    BY DEF Begin, BaseInv, TypeOK
  <1> QED
    BY <1>1, <1>3, <1>4, StoreKept, MoveBase DEF Begin, Goto

LEMMA PayBase ==
    ASSUME BaseInv, NEW r \in Requests, Pay(r)
    PROVE  BaseInv'
  <1>1. PICK t \in Types : mem' = [mem EXCEPT ![r] = [mem[r] EXCEPT !.bought = {t}]]
    BY DEF Pay, Remember
  <1> DEFINE m == [mem[r] EXCEPT !.bought = {t}]
  <1>2. m \in Memory
    BY MemoryFields DEF Memory, BaseInv
  <1>3. Local(kind[r], "look", m)
    BY DEF Pay, BaseInv, LocalInv, Local, PatchLabels
  <1>4. StoreInv'
    BY StoreOfBase DEF Pay, StoreInv, rows, Numbered, MadeInOrder
  <1> HIDE DEF m
  <1>5. mem' = [mem EXCEPT ![r] = m]
    BY <1>1 DEF m
  <1> QED
    BY <1>2, <1>3, <1>4, <1>5, MoveBase DEF Pay, Goto, Labels

LEMMA LookBase ==
    ASSUME BaseInv, NEW r \in Requests, Look(r)
    PROVE  BaseInv'
  <1>1. PICK p \in (IF Active = {} THEN {0} ELSE Active) :
           mem' = [mem EXCEPT ![r] = [mem[r] EXCEPT !.seen = p,
                     !.cycle = kind[r] = "cycle" \/ (p # 0 /\ plan[p].cycle)]]
    BY DEF Look, Remember
  <1> DEFINE cycle == kind[r] = "cycle" \/ (p # 0 /\ plan[p].cycle)
             m == [mem[r] EXCEPT !.seen = p, !.cycle = cycle]
  <1>2. p \in 0..MaxPlans
    BY DEF Active, Plans
  <1>3. cycle \in BOOLEAN
    <2>1. p # 0 => plan[p].cycle \in BOOLEAN
      BY DEF Active, BaseInv, TypeOK, PlanRow
    <2> QED
      BY <2>1
  <1> HIDE DEF cycle
  <1>4. m \in Memory
    BY <1>2, <1>3, MemoryFields DEF Memory, BaseInv
  <1>5. Local(kind[r], "own", m)
    BY DEF Look, BaseInv, LocalInv, Local, PatchLabels
  <1>6. mem' = [mem EXCEPT ![r] = m]
    BY <1>1 DEF cycle
  <1> HIDE DEF m
  <1> QED
    BY <1>4, <1>5, <1>6, StoreKept, MoveBase DEF Look, Goto, Labels

LEMMA FindBase ==
    ASSUME BaseInv, NEW r \in Requests, Find(r)
    PROVE  BaseInv'
  <1> DEFINE m == [mem[r] EXCEPT !.live = Active]
             l == IF kind[r] = "buy" THEN "lock" ELSE "write"
  <1>1. m \in Memory
    BY MemoryFields DEF Memory, BaseInv, Active
  <1>2. mem[r] \in Memory /\ m.cycle = mem[r].cycle /\ m.payload = mem[r].payload
    BY MemoryFields DEF BaseInv, Memory
  <1>3. Local(kind[r], l, m)
    BY <1>2 DEF Find, BaseInv, LocalInv, Local, PatchLabels
  <1>4. l \in Labels /\ mem' = [mem EXCEPT ![r] = m] /\ pc' = [pc EXCEPT ![r] = l]
    BY DEF Find, Remember, Goto, Labels
  <1> HIDE DEF m, l
  <1> QED
    BY <1>1, <1>3, <1>4, StoreKept, MoveBase DEF Find

LEMMA LockBase ==
    ASSUME BaseInv, NEW r \in Requests, Lock(r)
    PROVE  BaseInv'
  <1> DEFINE m == [mem[r] EXCEPT !.live = Locked(r)]
  <1>1. Locked(r) \subseteq Plans
    BY MemoryFields DEF Locked, Awaited, BaseInv
  <1>2. m \in Memory
    BY <1>1, MemoryFields DEF Memory, BaseInv
  <1>3. m.cycle = mem[r].cycle /\ m.payload = mem[r].payload
    BY MemoryFields DEF BaseInv, Memory
  <1>4. Local(kind[r], "commit", m)
    BY <1>3 DEF Lock, BaseInv, LocalInv, Local, PatchLabels
  <1>5. holder' \in [Plans -> Requests \cup {NoRequest}]
    BY DEF Lock, BaseInv, TypeOK
  <1>6. StoreInv'
    BY <1>5, StoreOfBase DEF Lock, StoreInv, rows, Numbered, MadeInOrder
  <1>7. mem' = [mem EXCEPT ![r] = m]
    BY DEF Lock, Remember
  <1> HIDE DEF m
  <1> QED
    BY <1>2, <1>4, <1>6, <1>7, MoveBase DEF Lock, Goto, Labels

LEMMA ReadBase ==
    ASSUME BaseInv, NEW r \in Requests, Read(r)
    PROVE  BaseInv'
  <1>1. PICK p \in Active, i \in Indexes, to \in Statuses :
          /\ step[p][i].status # "none"
          /\ mem' = [mem EXCEPT ![r] = [mem[r] EXCEPT
               !.seen = p, !.cycle = plan[p].cycle, !.index = i,
               !.life = step[p][i].life, !.base = step[p][i].type \in BaseTypes, !.to = to]]
    BY DEF Read, Remember, Present
  <1> DEFINE cycle == plan[p].cycle
             life == step[p][i].life
             base == step[p][i].type \in BaseTypes
             m == [mem[r] EXCEPT !.seen = p, !.cycle = cycle, !.index = i,
                                 !.life = life, !.base = base, !.to = to]
  <1>2. p \in Plans
    BY DEF Active
  <1>3. plan[p] \in PlanRow /\ step[p][i] \in StepRow
    BY <1>2 DEF BaseInv, TypeOK
  <1>4. cycle \in BOOLEAN /\ life \in Lives \ {0} /\ base \in BOOLEAN
    BY <1>1, <1>2, <1>3 DEF PlanRow, StepRow, BaseInv, Numbered
  <1>5. mem' = [mem EXCEPT ![r] = m]
    BY <1>1
  <1> HIDE DEF cycle, life, base
  <1>m. mem[r] \in Memory /\ p \in 0..MaxPlans /\ i \in 0..MaxSteps
    BY <1>2, MemoryFields DEF BaseInv, Plans, Indexes
  <1>6. m \in Memory /\ m.seen = p /\ m.index = i /\ m.life = life
    <2>1. m \in Memory
      BY <1>2, <1>4, <1>m DEF Memory
    <2>2. m.seen = p /\ m.index = i /\ m.life = life
      BY <1>m DEF Memory
    <2> QED
      BY <2>1, <2>2
  <1>7. kind[r] = "patch"
    BY DEF Read, BaseInv, LocalInv, Local, PatchLabels
  <1>8. Local(kind[r], "mark", m)
    BY <1>2, <1>4, <1>6, <1>7 DEF Local, PatchLabels
  <1> HIDE DEF m
  <1> QED
    BY <1>5, <1>6, <1>8, StoreKept, MoveBase DEF Read, Goto, Labels

\* What it remembers at the end.
LEMMA ItsPlanType ==
    ASSUME BaseInv, NEW r \in Requests
    PROVE  /\ ItsPlan(r) \in Memory
           /\ ItsPlan(r).seen = mem[r].seen /\ ItsPlan(r).todo = {}
  <1>1. Blank \in Memory /\ mem[r].seen \in 0..MaxPlans /\ mem[r].cycle \in BOOLEAN
    BY BlankType, MemoryFields DEF BaseInv
  <1>2. ItsPlan(r) \in Memory /\ ItsPlan(r).seen = mem[r].seen
        /\ ItsPlan(r).todo = Blank.todo
    BY <1>1 DEF ItsPlan, Memory
  <1> QED
    BY <1>2, BlankType

LEMMA NextOpenBase ==
    ASSUME BaseInv, NEW r \in Requests, NextOpen(r)
    PROVE  BaseInv'
  <1>0. kind[r] = "patch" /\ mem[r].seen \in Plans /\ mem[r].index \in Indexes
    BY DEF NextOpen, BaseInv, LocalInv, Local, PatchLabels
  <1>1. CASE OpenAt(mem[r].seen) = {}
    <2>1. mem' = [mem EXCEPT ![r] = ItsPlan(r)] /\ ItsPlan(r) \in Memory
      BY <1>1, ItsPlanType DEF NextOpen, Remember
    <2>2. Local(kind[r], "meta", ItsPlan(r))
      BY <1>0, ItsPlanType DEF Local, PatchLabels
    <2> QED
      BY <1>1, <2>1, <2>2, StoreKept, MoveBase DEF NextOpen, Goto, Labels
  <1>2. CASE OpenAt(mem[r].seen) # {}
    <2>1. PICK i \in OpenAt(mem[r].seen) :
             mem' = [mem EXCEPT ![r] = [mem[r] EXCEPT !.index = i]]
      BY <1>2 DEF NextOpen, Remember
    <2> DEFINE m == [mem[r] EXCEPT !.index = i]
    <2>2. i \in Indexes
      BY DEF OpenAt
    <2>m. mem[r] \in Memory /\ i \in 0..MaxSteps
      BY <2>2, MemoryFields DEF BaseInv, Indexes
    <2>3. m \in Memory /\ m.seen = mem[r].seen /\ m.index = i
      <3>1. m \in Memory
        BY <2>m DEF Memory
      <3>2. m.seen = mem[r].seen /\ m.index = i
        BY <2>m DEF Memory
      <3> QED
        BY <3>1, <3>2
    <2>4. Local(kind[r], "rule", m)
      BY <1>0, <2>2, <2>3 DEF Local, PatchLabels
    <2>5. mem' = [mem EXCEPT ![r] = m]
      BY <2>1
    <2> HIDE DEF m
    <2> QED
      BY <1>2, <2>3, <2>4, <2>5, StoreKept, MoveBase DEF NextOpen, Goto, Labels
  <1> QED
    BY <1>1, <1>2

LEMMA ChooseBase ==
    ASSUME BaseInv, NEW r \in Requests, Choose(r)
    PROVE  BaseInv'
  <1>0. kind[r] = "patch" /\ mem[r].seen \in Plans /\ mem[r].index \in Indexes
    BY DEF Choose, BaseInv, LocalInv, Local, PatchLabels
  <1>1. CASE Goto(r, "meta") /\ Remember(r, ItsPlan(r))
    <2>1. Local(kind[r], "meta", ItsPlan(r))
      BY <1>0, ItsPlanType DEF Local, PatchLabels
    <2> QED
      BY <1>1, <2>1, ItsPlanType, StoreKept, MoveBase DEF Choose, Goto, Remember, Labels
  <1>2. ASSUME NEW end \in 0..(MaxSteps + 1), Goto(r, "select"),
               Remember(r, [mem[r] EXCEPT !.end = end])
        PROVE  BaseInv'
    <2> DEFINE m == [mem[r] EXCEPT !.end = end]
    <2>1. mem[r] \in Memory
      BY MemoryFields DEF BaseInv
    <2>2. m \in Memory
      BY <2>1 DEF Memory
    <2>3. m.seen = mem[r].seen /\ m.index = mem[r].index
      BY <2>1 DEF Memory
    <2>4. Local(kind[r], "select", m)
      BY <1>0, <2>3 DEF Local, PatchLabels
    <2>5. mem' = [mem EXCEPT ![r] = m]
      BY <1>2 DEF Remember
    <2> HIDE DEF m
    <2> QED
      BY <1>2, <2>2, <2>4, <2>5, StoreKept, MoveBase DEF Choose, Goto, Labels
  <1>3. OpenAt(mem[r].seen) \cup (IF mem[r].base THEN {} ELSE {MaxSteps + 1})
           \subseteq 0..(MaxSteps + 1)
    BY DEF OpenAt, Indexes
  <1> QED
    BY <1>1, <1>2, <1>3 DEF Choose

LEMMA SelectBase ==
    ASSUME BaseInv, NEW r \in Requests, Select(r)
    PROVE  BaseInv'
  <1> DEFINE q == mem[r].seen
             todo == {Id(step, q, i) :
                i \in {j \in OpenAt(q) : mem[r].index <= j /\ j < mem[r].end}}
             m == [ItsPlan(r) EXCEPT !.todo = todo]
  <1>1. kind[r] = "patch" /\ q \in Plans
    BY DEF Select, BaseInv, LocalInv, Local, PatchLabels
  <1>2. todo \subseteq Step
    <2> SUFFICES ASSUME NEW i \in OpenAt(q) PROVE Id(step, q, i) \in Step
      OBVIOUS
    <2>1. i \in Indexes /\ step[q][i].status # "none" /\ step[q][i] \in StepRow
      BY <1>1 DEF OpenAt, BaseInv, TypeOK
    <2>2. step[q][i].life \in Lives \ {0}
      BY <1>1, <2>1 DEF StepRow, BaseInv, Numbered
    <2> QED
      BY <1>1, <2>1, <2>2 DEF Id, Step
  <1> HIDE DEF todo
  <1>3. m \in Memory /\ m.seen = q
    BY <1>2, ItsPlanType DEF Memory
  <1>4. Local(kind[r], "delete", m)
    BY <1>1, <1>3 DEF Local, PatchLabels
  <1>5. mem' = [mem EXCEPT ![r] = m]
    BY DEF Select, Remember, todo
  <1> HIDE DEF m
  <1> QED
    BY <1>3, <1>4, <1>5, StoreKept, MoveBase DEF Select, Goto, Labels

\* The sequence of a set of positions, mapped into a set.
LEMMA AscendingType ==
    ASSUME NEW S, IsFiniteSet(S), NEW order \in Ascending(S), NEW T,
           NEW f \in [S -> T]
    PROVE  [k \in DOMAIN order |-> f[order[k]]] \in Seq(T)
  <1>1. Cardinality(S) \in Nat
    BY FS_CardinalityType
  <1> DEFINE n == Cardinality(S)
  <1>2. order \in [1..n -> S]
    BY DEF Ascending
  <1> HIDE DEF n
  <1>3. [k \in DOMAIN order |-> f[order[k]]] = [k \in 1..n |-> f[order[k]]]
    BY <1>2
  <1>4. [k \in 1..n |-> f[order[k]]] \in [1..n -> T]
    BY <1>2
  <1> QED
    BY <1>1, <1>3, <1>4 DEF n

LEMMA SliceType ==
    ASSUME NEW T, NEW s \in Seq(T), NEW n \in Nat
    PROVE  Slice(s, n) \in Seq(T)
  <1> DEFINE m == IF Len(s) < n THEN Len(s) ELSE n
  <1>1. m \in Int /\ \A i \in 1..m : s[i] \in T
    OBVIOUS
  <1> HIDE DEF m
  <1>2. SubSeq(s, 1, m) \in Seq(T)
    BY <1>1, SubSeqProperties, 1 \in Int
  <1> QED
    BY <1>2 DEF Slice, m

LEMMA ChainLengthType ==
    ASSUME NEW own \in SUBSET Types
    PROVE  ChainLength(own) \in Nat
  <1>1. Cardinality(own) \in Nat
    BY TypesAreFinite, FS_Subset, FS_CardinalityType
  <1> QED
    BY <1>1 DEF ChainLength

LEMMA CompletedType ==
    ASSUME BaseInv, NEW r \in Requests, NEW first \in CompletedBefore(r)
    PROVE  first \in Seq(Types)
  <1>1. CASE mem[r].cycle /\ kind[r] # "cycle" /\ mem[r].seen # 0
    <2>1. mem[r].seen \in Plans
      BY <1>1, MemoryFields DEF BaseInv, Plans
    <2> DEFINE at == step[mem[r].seen]
               S == {i \in Indexes : at[i].status = "completed"}
               f == [i \in S |-> at[i].type]
    <2>2. at \in [Indexes -> StepRow]
      BY <2>1 DEF BaseInv, TypeOK
    <2>3. IsFiniteSet(S)
      BY TypesAreFinite, FS_Subset
    <2>4. PICK order \in Ascending(S) : first = [k \in DOMAIN order |-> at[order[k]].type]
      BY <1>1 DEF CompletedBefore
    <2>5. f \in [S -> Types]
      BY <2>2 DEF StepRow
    <2>6. order \in [1..Cardinality(S) -> S]
      BY DEF Ascending
    <2>7. [k \in DOMAIN order |-> f[order[k]]] = [k \in DOMAIN order |-> at[order[k]].type]
      BY <2>6
    <2> HIDE DEF S, f, at
    <2>8. [k \in DOMAIN order |-> f[order[k]]] \in Seq(Types)
      BY <2>3, <2>5, AscendingType
    <2> QED
      BY <2>4, <2>7, <2>8
  <1>2. CASE ~(mem[r].cycle /\ kind[r] # "cycle" /\ mem[r].seen # 0)
    <2> DEFINE none == <<>>
    <2>1. first = none
      BY <1>2 DEF CompletedBefore
    <2>2. none \in Seq(Types)
      OBVIOUS
    <2> HIDE DEF none
    <2> QED
      BY <2>1, <2>2
  <1> QED
    BY <1>1, <1>2

LEMMA ChainType ==
    ASSUME NEW r, NEW first \in Seq(Types), NEW own \in SUBSET Types,
           NEW chain \in Chains(r, first, own)
    PROVE  chain \in Seq(Types)
  <1> DEFINE S == {i \in DOMAIN RuleChain : RuleChain[i] \notin Range(first)}
             f == [i \in S |-> RuleChain[i]]
  <1>1. PICK rest \in Ascending(S) :
          chain = Slice(IF kind[r] = "buy" THEN RuleChain
                        ELSE first \o [k \in DOMAIN rest |-> RuleChain[rest[k]]],
                        ChainLength(own))
    BY DEF Chains
  <1> DEFINE tail == [k \in DOMAIN rest |-> RuleChain[rest[k]]]
  <1>2. RuleChain \in Seq(Types) /\ IsFiniteSet(DOMAIN RuleChain)
    BY FS_Interval DEF Types
  <1>3. IsFiniteSet(S) /\ f \in [S -> Types]
    BY <1>2, FS_Subset
  <1>4. rest \in [1..Cardinality(S) -> S]
    BY DEF Ascending
  <1>5. [k \in DOMAIN rest |-> f[rest[k]]] = tail
    BY <1>4
  <1> HIDE DEF S, f, tail
  <1>6. tail \in Seq(Types)
    BY <1>3, <1>5, AscendingType
  <1>7. first \o tail \in Seq(Types)
    BY <1>6, ConcatProperties
  <1>8. \A s \in Seq(Types) : Slice(s, ChainLength(own)) \in Seq(Types)
    BY ChainLengthType, SliceType
  <1> QED
    BY <1>1, <1>2, <1>7, <1>8 DEF tail

LEMMA OwnBase ==
    ASSUME BaseInv, NEW r \in Requests, Own(r)
    PROVE  BaseInv'
  <1>1. PICK own \in {owned, owned \cup mem[r].bought}, first \in CompletedBefore(r) :
         \E chain \in Chains(r, first, own) :
            mem' = [mem EXCEPT ![r] = [mem[r] EXCEPT
              !.payload = [k \in DOMAIN chain |->
                 [type |-> chain[k],
                  status |-> StatusForType(r, chain[k], mem[r].bought \cup Range(first),
                                           own)]]]]
    BY DEF Own, Remember
  <1>2. PICK chain \in Chains(r, first, own) :
            mem' = [mem EXCEPT ![r] = [mem[r] EXCEPT
              !.payload = [k \in DOMAIN chain |->
                 [type |-> chain[k],
                  status |-> StatusForType(r, chain[k], mem[r].bought \cup Range(first),
                                           own)]]]]
    BY <1>1
  <1> DEFINE closed == mem[r].bought \cup Range(first)
             row(k) == [type |-> chain[k], status |-> StatusForType(r, chain[k], closed, own)]
             payload == [k \in DOMAIN chain |-> row(k)]
             m == [mem[r] EXCEPT !.payload = payload]
  <1>3. own \in SUBSET Types
    BY MemoryFields DEF BaseInv, TypeOK
  <1>4. chain \in Seq(Types)
    BY <1>3, CompletedType, ChainType
  <1>5. \A k : StatusForType(r, chain[k], closed, own) \in Statuses
               /\ (mem[r].cycle => StatusForType(r, chain[k], closed, own) # "owned")
    BY DEF StatusForType, Statuses
  <1>6. \A k \in 1..Len(chain) : row(k) \in PayloadRow
    <2> SUFFICES ASSUME NEW k \in 1..Len(chain) PROVE row(k) \in PayloadRow
      OBVIOUS
    <2>1. chain[k] \in Types
      BY <1>4
    <2>2. StatusForType(r, chain[k], closed, own) \in Statuses
      BY <1>5
    <2> QED
      BY <2>1, <2>2 DEF PayloadRow
  <1>7. mem[r].cycle => \A k \in DOMAIN payload : payload[k].status # "owned"
    BY <1>5
  <1>8. mem' = [mem EXCEPT ![r] = m]
    BY <1>2
  <1> HIDE DEF row
  <1>9. payload \in Seq(PayloadRow)
    <2>1. payload = [k \in 1..Len(chain) |-> row(k)] /\ Len(chain) \in Nat
      BY <1>4
    <2> HIDE DEF payload
    <2> QED
      BY <1>6, <2>1
  <1> HIDE DEF payload
  <1>10. m \in Memory
    BY <1>9, MemoryFields DEF Memory, PayloadRow, BaseInv
  <1>11. m.payload = payload /\ m.cycle = mem[r].cycle
    BY MemoryFields DEF Memory, BaseInv
  <1>12. Local(kind[r], "find", m)
    BY <1>7, <1>11 DEF Own, BaseInv, LocalInv, Local, PatchLabels
  <1> HIDE DEF m
  <1> QED
    BY <1>8, <1>10, <1>12, StoreKept, MoveBase DEF Own, Goto, Labels

-----------------------------------------------------------------------------
\* The transaction that writes a plan.

\* The kept plan is an active one or the next one.
LEMMA KeptPlan ==
    ASSUME BaseInv, NEW r \in Requests, NEW keep \in Keeps(r), WritePlan(r, keep)
    PROVE  /\ keep \in Plans
           /\ (keep > made /\ made' = keep /\ keep = made + 1)
              \/ (keep <= made /\ made' = made /\ keep \in Locked(r))
  <1>1. keep \in Plans /\ made' = IF keep > made THEN keep ELSE made
    BY DEF WritePlan
  <1>2. made \in Nat
    BY DEF BaseInv, TypeOK
  <1>3. CASE keep = made + 1
    BY <1>1, <1>2, <1>3
  <1>4. CASE keep \in Locked(r)
    <2>1. ~(keep > made)
      BY <1>1, <1>4 DEF Locked, BaseInv, MadeInOrder
    <2> QED
      BY <1>1, <1>2, <1>4, <2>1 DEF Plans
  <1> QED
    BY <1>3, <1>4 DEF Keeps

LEMMA WritePlanEffect ==
    ASSUME BaseInv, NEW r \in Requests, NEW keep \in Keeps(r), WritePlan(r, keep)
    PROVE  /\ made' \in 0..MaxPlans
           /\ plan' \in [Plans -> PlanRow]
           /\ MadeInOrder'
           /\ plan'[keep].state = "active" /\ plan'[keep].cycle = mem[r].cycle
           /\ \A p \in Plans \ {keep} :
                /\ plan'[p].cycle = plan[p].cycle
                /\ plan'[p].state = IF p \in Locked(r) THEN "closed" ELSE plan[p].state
  <1>1. keep \in Plans
    BY KeptPlan
  <1>0. MaxPlans \in Nat /\ made \in 0..MaxPlans /\ keep \in 1..MaxPlans
    BY <1>1 DEF BaseInv, TypeOK, Plans
  <1>2. made' \in 0..MaxPlans /\ keep <= made' /\ made <= made'
    <2>1. CASE keep > made /\ made' = keep
      BY <1>0, <2>1
    <2>2. CASE keep <= made /\ made' = made
      BY <1>0, <2>2
    <2> QED
      BY <2>1, <2>2, KeptPlan
  <1>3. \A p \in Plans : plan[p] \in PlanRow
    BY DEF BaseInv, TypeOK
  <1>4. [state |-> "active", cycle |-> mem[r].cycle] \in PlanRow
    BY MemoryFields DEF BaseInv, PlanRow
  <1>5. \A p \in Plans : [plan[p] EXCEPT !.state = "closed"] \in PlanRow
    BY <1>3 DEF PlanRow
  <1>6. plan' = [p \in Plans |->
         IF p = keep THEN [state |-> "active", cycle |-> mem[r].cycle]
         ELSE IF p \in Locked(r) THEN [plan[p] EXCEPT !.state = "closed"]
         ELSE plan[p]]
    BY DEF WritePlan
  <1>7. plan' \in [Plans -> PlanRow]
    BY <1>3, <1>4, <1>5, <1>6
  <1>8. plan'[keep].state = "active" /\ plan'[keep].cycle = mem[r].cycle
    BY <1>1, <1>6
  <1>9. \A p \in Plans \ {keep} :
          /\ plan'[p].cycle = plan[p].cycle
          /\ plan'[p].state = IF p \in Locked(r) THEN "closed" ELSE plan[p].state
    BY <1>3, <1>6 DEF PlanRow
  <1>10. MadeInOrder'
    <2> SUFFICES ASSUME NEW p \in Plans, p > made' PROVE plan'[p].state = "none"
      BY DEF MadeInOrder
    <2>1. p # keep /\ p > made
      BY <1>0, <1>2 DEF Plans
    <2>2. plan[p].state = "none"
      BY <2>1 DEF BaseInv, MadeInOrder
    <2>3. p \notin Locked(r)
      BY <2>2 DEF Locked
    <2> QED
      BY <1>9, <2>1, <2>2, <2>3
  <1> QED
    BY <1>2, <1>7, <1>8, <1>9, <1>10

LEMMA WriteStepsEffect ==
    ASSUME BaseInv, NEW r \in Requests, NEW keep \in Plans, WriteSteps(r, keep)
    PROVE  /\ step' \in [Plans -> [Indexes -> StepRow]]
           /\ Numbered(step')
           /\ done' \subseteq Step
           /\ done \subseteq done' /\ DoneIn(step', keep) \subseteq done'
           /\ \A p \in Plans \ {keep} : step'[p] = step[p]
           /\ \A i \in Indexes : step'[keep][i].status # "none" =>
                 i \in DOMAIN mem[r].payload /\ step'[keep][i].status = mem[r].payload[i].status
  <1> DEFINE payload == mem[r].payload
             at == step[keep]
             new == Upserted(at, payload)
  <1>1. at \in [Indexes -> StepRow]
    BY DEF BaseInv, TypeOK
  <1>2. \A i \in DOMAIN payload : payload[i] \in PayloadRow
    BY MemoryFields DEF BaseInv
  <1>3. step' = [step EXCEPT ![keep] = new]
    BY DEF WriteSteps
  <1>4. step'[keep] = new /\ \A p \in Plans \ {keep} : step'[p] = step[p]
    BY <1>3 DEF BaseInv, TypeOK
  <1>5. \A i \in Indexes :
           new[i] = IF i \in DOMAIN payload
                    THEN [type |-> payload[i].type, status |-> payload[i].status,
                          life |-> at[i].life + (IF at[i].status = "none" THEN 1 ELSE 0)]
                    ELSE [at[i] EXCEPT !.status = "none"]
    BY DEF Upserted
  <1>6. \A i \in Indexes : new[i].life <= MaxLives
    BY <1>4 DEF WriteSteps
  <1> HIDE DEF new, at
  <1>7. ASSUME NEW i \in Indexes
        PROVE  /\ new[i] \in StepRow
               /\ new[i].status # "none" => new[i].life # 0
               /\ new[i].status # "none" =>
                     i \in DOMAIN payload /\ new[i].status = payload[i].status
    <2>1. at[i] \in StepRow /\ at[i].life \in Nat /\ (at[i].status # "none" => at[i].life # 0)
      BY <1>1 DEF StepRow, Lives, BaseInv, Numbered, at
    <2>2. CASE i \in DOMAIN payload
      <3> DEFINE life == at[i].life + (IF at[i].status = "none" THEN 1 ELSE 0)
      <3>1. new[i] = [type |-> payload[i].type, status |-> payload[i].status, life |-> life]
        BY <1>5, <2>2
      <3>2. life \in Nat \ {0}
        BY <2>1
      <3> HIDE DEF life
      <3>3. new[i].life = life /\ new[i].status = payload[i].status
        BY <3>1
      <3>4. life \in Lives
        BY <1>6, <3>2, <3>3 DEF Lives
      <3>5. payload[i].type \in Types /\ payload[i].status \in Statuses
        BY <1>2, <2>2 DEF PayloadRow
      <3> HIDE DEF payload
      <3>6. new[i] \in StepRow
        BY <3>1, <3>4, <3>5 DEF StepRow
      <3> QED
        BY <2>2, <3>2, <3>3, <3>6
    <2>3. CASE i \notin DOMAIN payload
      <3>1. new[i] = [at[i] EXCEPT !.status = "none"]
        BY <1>5, <2>3
      <3>2. new[i] \in StepRow /\ new[i].status = "none"
        BY <2>1, <3>1 DEF StepRow, Statuses
      <3> QED
        BY <3>2
    <2> QED
      BY <2>2, <2>3
  <1>8. new = [i \in Indexes |-> new[i]]
    BY DEF new, Upserted
  <1>9. new \in [Indexes -> StepRow]
    BY <1>7, <1>8
  <1>10. step' \in [Plans -> [Indexes -> StepRow]]
    BY <1>3, <1>9 DEF BaseInv, TypeOK
  <1>11. Numbered(step')
    <2> SUFFICES ASSUME NEW p \in Plans, NEW i \in Indexes, step'[p][i].status # "none"
                 PROVE  step'[p][i].life # 0
      BY DEF Numbered
    <2>1. CASE p = keep
      BY <1>4, <1>7, <2>1
    <2>2. CASE p # keep
      BY <1>4, <2>2 DEF BaseInv, Numbered
    <2> QED
      BY <2>1, <2>2
  <1>12. done' = done \cup DoneIn(step', keep)
    BY DEF WriteSteps
  <1>13. DoneIn(step', keep) \subseteq Step
    BY <1>10, <1>11, DoneType
  <1>14. done' \subseteq Step
    BY <1>12, <1>13 DEF BaseInv, TypeOK
  <1> QED
    BY <1>4, <1>7, <1>10, <1>11, <1>12, <1>14

LEMMA WriteBase ==
    ASSUME BaseInv, NEW r \in Requests, Write(r)
    PROVE  BaseInv'
  <1>1. PICK keep \in Keeps(r) :
           /\ WritePlan(r, keep) /\ WriteSteps(r, keep)
           /\ mem' = [mem EXCEPT ![r] = [Blank EXCEPT !.live = {keep}]]
    BY DEF Write, Remember
  <1> DEFINE m == [Blank EXCEPT !.live = {keep}]
  <1>2. keep \in Plans
    BY <1>1, KeptPlan
  <1>3. m \in Memory
    BY <1>2, BlankType DEF Memory
  <1>4. m.live = {keep} /\ m.todo = {}
    BY BlankType DEF Memory
  <1>5. Local(kind[r], "list", m)
    BY <1>2, <1>4 DEF Local, PatchLabels
  <1>6. StoreInv'
    BY <1>1, <1>2, WritePlanEffect, WriteStepsEffect, StoreOfBase DEF Write, StoreInv
  <1>7. mem' = [mem EXCEPT ![r] = m]
    BY <1>1
  <1> HIDE DEF m
  <1> QED
    BY <1>3, <1>5, <1>6, <1>7, MoveBase DEF Write, Goto, Labels

LEMMA CreditedType ==
    ASSUME BaseInv, NEW S
    PROVE  /\ Credited(S) \in [Step -> Nat]
           /\ \A s \in Step : Credited(S)[s] =
                 IF s \in S /\ ~Referred(s) THEN 1 ELSE credits[s]
  BY DEF Credited, Referred, BaseInv, TypeOK

LEMMA CommitBase ==
    ASSUME BaseInv, NEW r \in Requests, Commit(r)
    PROVE  BaseInv'
  <1>1. PICK keep \in Keeps(r) :
           /\ WritePlan(r, keep) /\ WriteSteps(r, keep)
           /\ \E upto \in 0..MaxSteps :
              LET paid == {s \in DoneIn(step', keep) : s[2] <= upto}
              IN  /\ credits' = Credited(paid)
                  /\ unpaid' = IF paid = DoneIn(step', keep)
                               THEN unpaid \ {keep} ELSE unpaid \cup {keep}
    BY DEF Commit
  <1>2. keep \in Plans
    BY <1>1, KeptPlan
  <1>3. credits' \in [Step -> Nat]
    BY <1>1, CreditedType
  <1>4. unpaid' \subseteq Plans
    BY <1>1, <1>2 DEF BaseInv, TypeOK
  <1>5. owned' \subseteq Types
    BY MemoryFields DEF Commit, BaseInv, TypeOK
  <1>6. holder' \in [Plans -> Requests \cup {NoRequest}]
        /\ wallet' \in Requests \cup {NoRequest}
    BY ReleaseType DEF Commit
  <1>7. StoreInv'
    BY <1>1, <1>2, <1>3, <1>4, <1>5, <1>6, WritePlanEffect, WriteStepsEffect, StoreOfBase
    DEF StoreInv, Commit
  <1> QED
    BY <1>7, FinishBase DEF Commit

-----------------------------------------------------------------------------
\* Bonuses and patches.

LEMMA ListBase ==
    ASSUME BaseInv, NEW r \in Requests, List(r)
    PROVE  BaseInv'
  <1>1. PICK p \in mem[r].live :
           /\ mem' = [mem EXCEPT ![r] = [mem[r] EXCEPT !.todo = Payable(p)]]
           /\ unpaid' = unpaid \ {p}
    BY DEF List, Remember
  <1> DEFINE m == [mem[r] EXCEPT !.todo = Payable(p)]
  <1>2. p \in Plans /\ mem[r].live = {p}
    BY DEF List, BaseInv, LocalInv, Local
  <1>3. Payable(p) \subseteq Step /\ \A s \in Payable(p) : s[1] = p
    BY <1>2, DoneType DEF Payable, BaseInv, TypeOK
  <1>4. m \in Memory
    BY <1>3, MemoryFields DEF Memory, BaseInv
  <1>5. m.live = mem[r].live /\ m.todo = Payable(p)
    BY MemoryFields DEF Memory, BaseInv
  <1>6. Local(kind[r], "award", m)
    BY <1>2, <1>3, <1>5 DEF Local, PatchLabels
  <1>7. StoreInv'
    BY <1>1, StoreOfBase DEF List, StoreInv, Numbered, MadeInOrder
  <1>8. mem' = [mem EXCEPT ![r] = m]
    BY <1>1
  <1> HIDE DEF m
  <1> QED
    BY <1>4, <1>6, <1>7, <1>8, MoveBase DEF List, Goto, Labels

LEMMA AwardBase ==
    ASSUME BaseInv, NEW r \in Requests, Award(r)
    PROVE  BaseInv'
  <1>1. PICK s \in mem[r].todo :
           /\ credits' = Credited({s})
           /\ mem' = [mem EXCEPT ![r] = [mem[r] EXCEPT !.todo = mem[r].todo \ {s}]]
    BY DEF Award, Remember
  <1> DEFINE m == [mem[r] EXCEPT !.todo = mem[r].todo \ {s}]
  <1>2. m \in Memory
    BY MemoryFields DEF Memory, BaseInv
  <1>3. m.live = mem[r].live /\ m.todo \subseteq mem[r].todo
    BY MemoryFields DEF Memory, BaseInv
  <1>4. Local(kind[r], "award", m)
    BY <1>3 DEF Award, BaseInv, LocalInv, Local, PatchLabels
  <1>5. StoreInv'
    BY <1>1, CreditedType, StoreOfBase DEF Award, StoreInv, Numbered, MadeInOrder
  <1>6. mem' = [mem EXCEPT ![r] = m] /\ pc' = [pc EXCEPT ![r] = "award"]
    BY <1>1 DEF Award, BaseInv, TypeOK
  <1> HIDE DEF m
  <1> QED
    BY <1>2, <1>4, <1>5, <1>6, MoveBase DEF Award, Labels

LEMMA BonusBase ==
    ASSUME BaseInv, NEW r \in Requests, Bonus(r)
    PROVE  BaseInv'
  <1>1. StoreInv'
    BY CreditedType, StoreOfBase DEF Bonus, StoreInv, Numbered, MadeInOrder
  <1> QED
    BY <1>1, FinishBase DEF Bonus

\* A status set in a row that is there.
LEMMA MarkEffect ==
    ASSUME BaseInv, NEW r \in Requests, Mark(r)
    PROVE  /\ mem[r].seen \in Plans /\ mem[r].index \in Indexes
           /\ step' \in [Plans -> [Indexes -> StepRow]] /\ Numbered(step')
           /\ done' \subseteq Step /\ done \subseteq done'
           /\ DoneIn(step', mem[r].seen) \subseteq done'
           /\ step'[mem[r].seen][mem[r].index].status = mem[r].to
           /\ \A p \in Plans, i \in Indexes :
                /\ step'[p][i].life = step[p][i].life
                /\ <<p, i>> # <<mem[r].seen, mem[r].index>> => step'[p][i] = step[p][i]
  <1> DEFINE p == mem[r].seen
             i == mem[r].index
             new == [step[p][i] EXCEPT !.status = mem[r].to]
  <1>1. p \in Plans /\ i \in Indexes /\ mem[r].to \in Statuses
    BY MemoryFields DEF Mark, BaseInv, LocalInv, Local, PatchLabels
  <1>2. step[p][i] \in StepRow /\ step[p][i].status # "none" /\ step[p][i].life # 0
    BY <1>1 DEF Mark, Exists, BaseInv, TypeOK, Numbered
  <1>3. new \in StepRow /\ new.life = step[p][i].life /\ new.status = mem[r].to
    BY <1>1, <1>2 DEF StepRow
  <1>4. step' = [step EXCEPT ![p][i] = new]
    BY <1>1 DEF Mark, BaseInv, TypeOK
  <1> HIDE DEF new
  <1>5. step' \in [Plans -> [Indexes -> StepRow]]
    BY <1>1, <1>3, <1>4 DEF BaseInv, TypeOK
  <1>6. step'[p][i] = new
        /\ \A q \in Plans, j \in Indexes : <<q, j>> # <<p, i>> => step'[q][j] = step[q][j]
    BY <1>1, <1>4 DEF BaseInv, TypeOK
  <1>7. \A q \in Plans, j \in Indexes : step'[q][j].life = step[q][j].life
    BY <1>3, <1>6
  <1>8. Numbered(step')
    BY <1>2, <1>3, <1>6 DEF Numbered, BaseInv
  <1>9. done' = done \cup DoneIn(step', p)
    BY DEF Mark
  <1>10. DoneIn(step', p) \subseteq Step
    BY <1>1, <1>5, <1>8, DoneType
  <1> QED
    BY <1>1, <1>3, <1>5, <1>6, <1>7, <1>8, <1>9, <1>10 DEF BaseInv, TypeOK

LEMMA MarkBase ==
    ASSUME BaseInv, NEW r \in Requests, Mark(r)
    PROVE  BaseInv'
  <1>1. StoreInv'
    BY MarkEffect, StoreOfBase DEF Mark, StoreInv, MadeInOrder
  <1>2. kind[r] = "patch" /\ mem[r].life # 0
    BY DEF Mark, BaseInv, LocalInv, Local, PatchLabels
  <1>3. CASE Finish(r)
    BY <1>1, <1>3, FinishBase DEF Mark
  <1>4. ASSUME NEW l \in {"bonus", "next"}, Goto(r, l), mem' = mem
        PROVE  BaseInv'
    <2>1. Local(kind[r], l, mem[r])
      BY <1>2, <1>4, MarkEffect DEF Local, PatchLabels
    <2>2. l \in Labels /\ mem[r] \in Memory /\ mem' = [mem EXCEPT ![r] = mem[r]]
      BY <1>4 DEF Labels, BaseInv, TypeOK
    <2> QED
      BY <1>1, <1>4, <2>1, <2>2, MoveBase DEF Mark, Goto
  <1> QED
    BY <1>3, <1>4 DEF Mark

\* Rows of one plan may go, whatever their status, and nothing else changes.
LEMMA DeleteEffect ==
    ASSUME BaseInv, NEW r \in Requests, Delete(r)
    PROVE  /\ step' \in [Plans -> [Indexes -> StepRow]] /\ Numbered(step')
           /\ \A p \in Plans : DoneIn(step', p) \subseteq DoneIn(step, p)
           /\ \A p \in Plans, i \in Indexes :
                step'[p][i] = step[p][i] \/ step'[p][i].status = "none"
  <1>1. mem[r].seen \in Plans
    BY DEF Delete, BaseInv, LocalInv, Local, PatchLabels
  <1> DEFINE q == mem[r].seen
             gone(i) == [step[q][i] EXCEPT !.status = "none"]
             new == [i \in Indexes |->
                IF Id(step, q, i) \in mem[r].todo THEN gone(i) ELSE step[q][i]]
  <1>3. step' = [step EXCEPT ![q] = new]
    BY DEF Delete
  <1>4. \A i \in Indexes : step[q][i] \in StepRow
    BY <1>1 DEF BaseInv, TypeOK
  <1>5. \A i \in Indexes : gone(i) \in StepRow /\ gone(i).status = "none"
    BY <1>4 DEF StepRow, Statuses
  <1> HIDE DEF gone
  <1>6. \A i \in Indexes :
           new[i] \in StepRow /\ (new[i] = step[q][i] \/ new[i].status = "none")
    BY <1>4, <1>5
  <1>7. new = [i \in Indexes |-> new[i]]
    OBVIOUS
  <1> HIDE DEF new
  <1>8. new \in [Indexes -> StepRow]
    BY <1>6, <1>7
  <1>9. step' \in [Plans -> [Indexes -> StepRow]]
    BY <1>1, <1>3, <1>8 DEF BaseInv, TypeOK
  <1>10. \A p \in Plans, i \in Indexes :
            step'[p][i] = step[p][i] \/ step'[p][i].status = "none"
    BY <1>1, <1>3, <1>6 DEF BaseInv, TypeOK
  <1>11. Numbered(step')
    BY <1>10 DEF Numbered, BaseInv
  <1>12. \A p \in Plans : DoneIn(step', p) \subseteq DoneIn(step, p)
    BY <1>10 DEF DoneIn, Id, DoneStatuses
  <1> QED
    BY <1>9, <1>10, <1>11, <1>12

LEMMA DeleteBase ==
    ASSUME BaseInv, NEW r \in Requests, Delete(r)
    PROVE  BaseInv'
  <1>1. StoreInv'
    BY DeleteEffect, StoreOfBase DEF Delete, StoreInv, MadeInOrder
  <1>2. kind[r] = "patch" /\ mem[r].seen \in Plans
    BY DEF Delete, BaseInv, LocalInv, Local, PatchLabels
  <1>3. Local(kind[r], "meta", ItsPlan(r))
    BY <1>2, ItsPlanType DEF Local, PatchLabels
  <1> QED
    BY <1>1, <1>3, ItsPlanType, MoveBase DEF Delete, Goto, Remember, Labels

\* Only the meta of a plan changes.
LEMMA MetaEffect ==
    ASSUME BaseInv, NEW r \in Requests, Meta(r)
    PROVE  /\ plan' \in [Plans -> PlanRow]
           /\ \A p \in Plans : plan'[p].state = plan[p].state
  <1>1. mem[r].seen \in Plans /\ mem[r].cycle \in BOOLEAN
    BY MemoryFields DEF Meta, BaseInv, LocalInv, Local, PatchLabels
  <1>2. plan[mem[r].seen] \in PlanRow
    BY <1>1 DEF BaseInv, TypeOK
  <1>3. SavedMeta(r) \in PlanRow /\ SavedMeta(r).state = plan[mem[r].seen].state
    BY <1>1, <1>2 DEF SavedMeta, PlanRow
  <1>4. plan' = [plan EXCEPT ![mem[r].seen] = SavedMeta(r)]
    BY DEF Meta
  <1> QED
    BY <1>1, <1>3, <1>4 DEF BaseInv, TypeOK

LEMMA MetaBase ==
    ASSUME BaseInv, NEW r \in Requests, Meta(r)
    PROVE  BaseInv'
  <1>1. StoreInv'
    BY MetaEffect, StoreOfBase DEF Meta, StoreInv, Numbered, MadeInOrder
  <1> QED
    BY <1>1, FinishBase DEF Meta

LEMMA ToggleBase == BaseInv /\ Toggle => BaseInv'
  <1> SUFFICES ASSUME BaseInv, Toggle PROVE BaseInv'
    OBVIOUS
  <1>1. owned' \subseteq Types
    BY DEF Toggle, BaseInv, TypeOK
  <1> QED
    BY <1>1 DEF Toggle, BaseInv, TypeOK, rows, LocalInv, Numbered, MadeInOrder

-----------------------------------------------------------------------------
\* The types hold in every state.

LEMMA InitBase == Init => BaseInv
  <1> SUFFICES ASSUME Init PROVE BaseInv
    OBVIOUS
  <1>1. PICK n \in {0} \cup MinSteps..MaxSteps :
          \E cyclic \in BOOLEAN, status \in [Indexes -> {"open", "completed"}] :
         /\ made = IF n = 0 THEN 0 ELSE 1
         /\ plan = [p \in Plans |-> IF p <= made
                                    THEN [state |-> "active", cycle |-> cyclic]
                                    ELSE NoPlan]
         /\ step = [p \in Plans |-> [i \in Indexes |->
                      IF p <= made /\ i <= n
                      THEN [life |-> 1, type |-> RuleChain[i], status |-> status[i]]
                      ELSE NoStep]]
    BY DEF Init
  <1>2. PICK cyclic \in BOOLEAN, status \in [Indexes -> {"open", "completed"}] :
         /\ plan = [p \in Plans |-> IF p <= made
                                    THEN [state |-> "active", cycle |-> cyclic]
                                    ELSE NoPlan]
         /\ step = [p \in Plans |-> [i \in Indexes |->
                      IF p <= made /\ i <= n
                      THEN [life |-> 1, type |-> RuleChain[i], status |-> status[i]]
                      ELSE NoStep]]
    BY <1>1
  <1>3. made \in 0..MaxPlans
    BY <1>1
  <1>4. \A i \in Indexes : RuleChain[i] \in Types
    BY DEF Indexes, Types, Range
  <1>5. 1 \in Indexes /\ {0, 1} \subseteq Lives
    BY DEF Indexes, Lives
  <1>6. NoStep \in StepRow /\ NoStep.status = "none" /\ NoPlan \in PlanRow
        /\ NoPlan.state = "none" /\ [state |-> "active", cycle |-> cyclic] \in PlanRow
    BY <1>4, <1>5 DEF NoStep, NoPlan, StepRow, PlanRow, Statuses
  <1>7. \A i \in Indexes :
           [life |-> 1, type |-> RuleChain[i], status |-> status[i]] \in StepRow
    BY <1>4, <1>5 DEF StepRow, Statuses
  <1> HIDE DEF NoStep, NoPlan
  <1>8. plan \in [Plans -> PlanRow] /\ MadeInOrder
    BY <1>2, <1>3, <1>6 DEF MadeInOrder, Plans
  <1>9. step \in [Plans -> [Indexes -> StepRow]]
    BY <1>2, <1>6, <1>7
  <1>10. Numbered(step)
    BY <1>2, <1>6 DEF Numbered
  <1>11. done \subseteq Step
    <2>1. \A p \in Plans : DoneIn(step, p) \subseteq Step
      BY <1>9, <1>10, DoneType
    <2>2. done = UNION {DoneIn(step, p) : p \in Plans}
      BY DEF Init
    <2> QED
      BY <2>1, <2>2
  <1>12. credits \in [Step -> Nat] /\ unpaid \subseteq Plans /\ owned \subseteq Types
         /\ redeemed \subseteq Step
    BY DEF Init
  <1>13. wallet \in Requests \cup {NoRequest} /\ holder \in [Plans -> Requests \cup {NoRequest}]
         /\ kind \in [Requests -> Kinds] /\ pc \in [Requests -> Labels]
    BY DEF Init, Labels
  <1>14. mem \in [Requests -> Memory]
    BY BlankType DEF Init
  <1>15. LocalInv
    BY DEF Init, LocalInv, Local, PatchLabels
  <1> QED
    BY <1>3, <1>8, <1>9, <1>10, <1>11, <1>12, <1>13, <1>14, <1>15 DEF BaseInv, TypeOK

\* A step that changes nothing.
LEMMA StutterBase == BaseInv /\ UNCHANGED vars => BaseInv'
  BY DEF BaseInv, TypeOK, vars, rows, LocalInv, Numbered, MadeInOrder

LEMMA NextBase == BaseInv /\ [Next]_vars => BaseInv'
  <1> SUFFICES ASSUME BaseInv, [Next]_vars PROVE BaseInv'
    OBVIOUS
  <1>1. ASSUME NEW r \in Requests, Begin(r) \/ Work(r) \/ Die(r) PROVE BaseInv'
    BY <1>1, BeginBase, PayBase, LookBase, OwnBase, FindBase, WriteBase, LockBase, ListBase,
       AwardBase, CommitBase, ReadBase, MarkBase, BonusBase, NextOpenBase, ChooseBase,
       SelectBase, DeleteBase, MetaBase, EndBase
    DEF Work
  <1> QED
    BY <1>1, ToggleBase, StutterBase DEF Next

LEMMA BaseCorrect == Spec => []BaseInv
  BY InitBase, NextBase, PTL DEF Spec

\* All variables keep their types, and rows get their number when they are made
\* (roadmap_app/models.py).
THEOREM TypeCorrect == Spec => []TypeOK
  <1>1. BaseInv => TypeOK
    BY DEF BaseInv
  <1> QED
    BY <1>1, BaseCorrect, PTL

-----------------------------------------------------------------------------
\* Each bonus is earned, and paid once.

\* Whatever is done was recorded, and so was whatever a request is about to pay.
CreditInv ==
    /\ CreditsAreEarned
    /\ \A p \in Plans : DoneIn(step, p) \subseteq done
    /\ \A r \in Requests : pc[r] = "award" => mem[r].todo \subseteq done
    /\ \A r \in Requests :
          pc[r] = "bonus" => <<mem[r].seen, mem[r].index, mem[r].life>> \in done

\* What is left to show of the step of one request.
LEMMA CreditMove ==
    ASSUME BaseInv, CreditInv, NEW r \in Requests, NEW l \in Labels, NEW m \in Memory,
           pc' = [pc EXCEPT ![r] = l], mem' = [mem EXCEPT ![r] = m],
           done \subseteq done',
           credits' = credits \/ \E S \in SUBSET done' : credits' = Credited(S),
           \A p \in Plans : DoneIn(step', p) \subseteq done',
           l = "award" => m.todo \subseteq done',
           l = "bonus" => <<m.seen, m.index, m.life>> \in done'
    PROVE  CreditInv'
  <1>1. CreditsAreEarned'
    <2> SUFFICES ASSUME NEW s \in Step
                 PROVE  credits'[s] <= 1 /\ (credits'[s] = 1 => s \in done')
      BY DEF CreditsAreEarned
    <2>1. credits[s] <= 1 /\ (credits[s] = 1 => s \in done) /\ credits[s] \in Nat
      BY DEF CreditInv, CreditsAreEarned, BaseInv, TypeOK
    <2>2. CASE credits' = credits
      BY <2>1, <2>2
    <2>3. ASSUME NEW S \in SUBSET done', credits' = Credited(S)
          PROVE  credits'[s] <= 1 /\ (credits'[s] = 1 => s \in done')
      BY <2>1, <2>3, CreditedType
    <2> QED
      BY <2>2, <2>3
  <1>2. ASSUME NEW q \in Requests
        PROVE  /\ pc'[q] = "award" => mem'[q].todo \subseteq done'
               /\ pc'[q] = "bonus" =>
                     <<mem'[q].seen, mem'[q].index, mem'[q].life>> \in done'
    <2>1. CASE q = r
      BY <2>1 DEF BaseInv, TypeOK
    <2>2. CASE q # r
      BY <2>2 DEF BaseInv, TypeOK, CreditInv
    <2> QED
      BY <2>1, <2>2
  <1> QED
    BY <1>1, <1>2 DEF CreditInv

\* Most steps pay and complete nothing.
LEMMA CreditKept ==
    ASSUME BaseInv, BaseInv', CreditInv, NEW r \in Requests, NEW l \in Labels \ {"award", "bonus"},
           pc' = [pc EXCEPT ![r] = l], NEW m \in Memory, mem' = [mem EXCEPT ![r] = m],
           done' = done, credits' = credits,
           \A p \in Plans : DoneIn(step', p) \subseteq DoneIn(step, p)
    PROVE  CreditInv'
  <1>1. \A p \in Plans : DoneIn(step', p) \subseteq done'
    BY DEF CreditInv
  <1> QED
    BY <1>1, CreditMove

LEMMA CreditFinish ==
    ASSUME BaseInv, CreditInv, NEW r \in Requests, Finish(r), done \subseteq done',
           credits' = credits \/ \E S \in SUBSET done' : credits' = Credited(S),
           \A p \in Plans : DoneIn(step', p) \subseteq done'
    PROVE  CreditInv'
  BY CreditMove, BlankType DEF Finish, Goto, Remember, Labels

\* The steps that are about the plan and its bonuses.
Pays(r) == Write(r) \/ List(r) \/ Award(r) \/ Commit(r) \/ Mark(r) \/ Bonus(r)

\* The others: where the request goes, with which memory.
LEMMA QuietStep ==
    ASSUME BaseInv, BaseInv', NEW r \in Requests, Begin(r) \/ Work(r) \/ Die(r), ~Pays(r)
    PROVE  /\ \E l \in Labels \ {"award", "bonus", "list"}, m \in Memory :
                 pc' = [pc EXCEPT ![r] = l] /\ mem' = [mem EXCEPT ![r] = m]
           /\ done' = done /\ credits' = credits /\ redeemed \subseteq redeemed'
           /\ \A p \in Plans : DoneIn(step', p) \subseteq DoneIn(step, p)
           /\ \A p \in Plans, i \in Indexes :
                 step'[p][i] = step[p][i] \/ step'[p][i].status = "none"
  <1>0. pc' \in [Requests -> Labels] /\ mem' \in [Requests -> Memory]
    BY DEF BaseInv, TypeOK
  <1>1. \A q \in Requests \ {r} : pc'[q] = pc[q] /\ mem'[q] = mem[q]
    BY DEF Begin, Work, Die, Pays, Goto, Remember, Finish, Pay, Show, Look, Own, Find, Lock,
           AwardNone, CommitAlone, Read, NotFound, MarkGone, NextOpen, Choose, Select, Delete,
           Meta, Redeem, BaseInv, TypeOK
  <1>2. pc' = [pc EXCEPT ![r] = pc'[r]] /\ mem' = [mem EXCEPT ![r] = mem'[r]]
    BY <1>0, <1>1 DEF BaseInv, TypeOK
  <1>3. pc'[r] \notin {"award", "bonus", "list"}
    <2>1. CASE Begin(r)
      <3>1. kind[r] \in AllKinds /\ pc'[r] = FirstStep[kind[r]]
        BY <2>1 DEF Begin, Goto, BaseInv, TypeOK
      <3> QED
        BY <3>1 DEF FirstStep, AllKinds
    <2>2. CASE Pay(r) \/ Look(r) \/ Own(r) \/ Find(r) \/ Lock(r) \/ Read(r) \/ NextOpen(r)
               \/ Choose(r) \/ Select(r) \/ Delete(r)
      <3>1. pc'[r] \in {"look", "own", "find", "lock", "write", "commit", "mark", "meta",
                        "rule", "select", "delete"}
        BY <2>2 DEF Goto, Pay, Look, Own, Find, Lock, Read, NextOpen, Choose, Select, Delete,
               BaseInv, TypeOK
      <3> QED
        BY <3>1
    <2>3. CASE Show(r) \/ AwardNone(r) \/ CommitAlone(r) \/ NotFound(r) \/ MarkGone(r)
               \/ Meta(r) \/ Redeem(r) \/ Die(r)
      <3>1. pc'[r] = "done"
        BY <2>3
        DEF Goto, Finish, Show, AwardNone, CommitAlone, NotFound, MarkGone, Meta, Die,
            Redeem, BaseInv, TypeOK
      <3> QED
        BY <3>1
    <2> QED
      BY <2>1, <2>2, <2>3 DEF Work, Pays
  <1>4. done' = done /\ credits' = credits /\ redeemed \subseteq redeemed'
    BY DEF Begin, Work, Die, Pays, Pay, Show, Look, Own, Find, Lock, rows,
           AwardNone, CommitAlone, Read, NotFound, MarkGone, NextOpen, Choose, Select, Delete,
           Meta, Redeem
  <1>5. CASE Delete(r)
    BY <1>0, <1>2, <1>3, <1>4, <1>5, DeleteEffect
  <1>6. CASE ~Delete(r)
    <2>1. step' = step
      BY <1>6
      DEF Begin, Work, Die, Pays, Pay, Show, Look, Own, Find, Lock, rows,
          AwardNone, CommitAlone, Read, NotFound, MarkGone, NextOpen, Choose, Select,
          Meta, Redeem
    <2> QED
      BY <1>0, <1>2, <1>3, <1>4, <2>1
  <1> QED
    BY <1>5, <1>6

LEMMA InitCredit == Init => CreditInv
  <1> SUFFICES ASSUME Init PROVE CreditInv
    OBVIOUS
  <1>1. credits = [s \in Step |-> IF s \in done THEN 1 ELSE 0]
        /\ done = UNION {DoneIn(step, p) : p \in Plans}
        /\ pc = [r \in Requests |-> "start"]
    BY DEF Init
  <1> QED
    BY <1>1 DEF CreditInv, CreditsAreEarned

LEMMA WriteCredit ==
    ASSUME BaseInv, CreditInv, NEW r \in Requests, NEW keep \in Plans, WriteSteps(r, keep)
    PROVE  /\ done \subseteq done'
           /\ \A p \in Plans : DoneIn(step', p) \subseteq done'
  <1>1. \A p \in Plans \ {keep} : DoneIn(step', p) = DoneIn(step, p)
    BY WriteStepsEffect DEF DoneIn, Id
  <1> QED
    BY <1>1, WriteStepsEffect DEF CreditInv

LEMMA MarkCredit ==
    ASSUME BaseInv, CreditInv, NEW r \in Requests, Mark(r)
    PROVE  /\ \A p \in Plans : DoneIn(step', p) \subseteq done'
           /\ mem[r].to \in DoneStatuses =>
                <<mem[r].seen, mem[r].index, mem[r].life>> \in done'
           /\ \A p \in Plans : \A s \in DoneIn(step', p) :
                \/ s \in DoneIn(step, p)
                \/ mem[r].to \in DoneStatuses
                   /\ s = <<mem[r].seen, mem[r].index, mem[r].life>>
  <1> DEFINE q == mem[r].seen
             j == mem[r].index
  <1>1. q \in Plans /\ j \in Indexes /\ step[q][j].life = mem[r].life
    BY MarkEffect DEF Mark, Exists
  <1>2. ASSUME NEW p \in Plans, NEW s \in DoneIn(step', p)
        PROVE  \/ s \in DoneIn(step, p)
               \/ mem[r].to \in DoneStatuses /\ s = <<q, j, mem[r].life>>
    <2>1. PICK i \in Indexes : step'[p][i].status \in DoneStatuses
                               /\ s = <<p, i, step'[p][i].life>>
      BY DEF DoneIn, Id
    <2>2. step'[p][i].life = step[p][i].life
      BY MarkEffect
    <2>3. CASE p = q /\ i = j
      BY <1>1, <2>1, <2>2, <2>3, MarkEffect
    <2>4. CASE ~(p = q /\ i = j)
      <3>1. step'[p][i] = step[p][i]
        BY <2>4, MarkEffect
      <3> QED
        BY <2>1, <3>1 DEF DoneIn, Id
    <2> QED
      BY <2>3, <2>4
  <1>3. ASSUME mem[r].to \in DoneStatuses PROVE <<q, j, mem[r].life>> \in done'
    <2>1. step'[q][j].status \in DoneStatuses /\ step'[q][j].life = mem[r].life
      BY <1>1, <1>3, MarkEffect
    <2>2. <<q, j, mem[r].life>> \in DoneIn(step', q)
      BY <1>1, <2>1 DEF DoneIn, Id
    <2> QED
      BY <2>2, MarkEffect
  <1>4. \A p \in Plans : DoneIn(step', p) \subseteq done'
    BY <1>2, <1>3, MarkEffect DEF CreditInv
  <1> QED
    BY <1>2, <1>3, <1>4

LEMMA PaysCredit ==
    ASSUME BaseInv, BaseInv', CreditInv, NEW r \in Requests, Pays(r)
    PROVE  CreditInv'
  <1>0. mem'[r] \in Memory /\ mem[r] \in Memory
    BY DEF BaseInv, TypeOK
  <1>1. CASE Write(r)
    <2>1. PICK keep \in Keeps(r) :
             WritePlan(r, keep) /\ WriteSteps(r, keep)
             /\ mem' = [mem EXCEPT ![r] = [Blank EXCEPT !.live = {keep}]]
      BY <1>1 DEF Write, Remember
    <2>2. keep \in Plans /\ mem' = [mem EXCEPT ![r] = mem'[r]]
      BY <2>1, KeptPlan DEF BaseInv, TypeOK
    <2> QED
      BY <1>0, <1>1, <2>1, <2>2, WriteCredit, CreditMove DEF Write, Goto, Labels
  <1>2. CASE List(r)
    <2>1. PICK p \in mem[r].live :
             mem' = [mem EXCEPT ![r] = [mem[r] EXCEPT !.todo = Payable(p)]]
      BY <1>2 DEF List, Remember
    <2>2. p \in Plans /\ mem'[r].todo = Payable(p) /\ mem' = [mem EXCEPT ![r] = mem'[r]]
      BY <1>0, <2>1, MemoryFields DEF BaseInv, TypeOK, Memory
    <2>3. mem'[r].todo \subseteq done'
      BY <1>2, <2>2 DEF List, Payable, CreditInv
    <2>4. \A p2 \in Plans : DoneIn(step', p2) \subseteq done'
      BY <1>2 DEF List, CreditInv
    <2> QED
      BY <1>0, <1>2, <2>2, <2>3, <2>4, CreditMove DEF List, Goto, Labels
  <1>3. CASE Award(r)
    <2>1. PICK s \in mem[r].todo :
             /\ credits' = Credited({s})
             /\ mem' = [mem EXCEPT ![r] = [mem[r] EXCEPT !.todo = mem[r].todo \ {s}]]
      BY <1>3 DEF Award, Remember
    <2>2. mem'[r].todo \subseteq mem[r].todo /\ mem' = [mem EXCEPT ![r] = mem'[r]]
          /\ pc' = [pc EXCEPT ![r] = "award"]
      BY <1>0, <1>3, <2>1 DEF BaseInv, TypeOK, Memory, Award
    <2>3. mem[r].todo \subseteq done /\ done' = done /\ step' = step
      BY <1>3 DEF Award, CreditInv
    <2>4. \E S \in SUBSET done' : credits' = Credited(S)
      BY <2>1, <2>3
    <2>5. \A p \in Plans : DoneIn(step', p) \subseteq done'
      BY <2>3 DEF CreditInv
    <2>6. "award" \in Labels
      BY DEF Labels
    <2> QED
      BY <1>0, <2>2, <2>3, <2>4, <2>5, <2>6, CreditMove
  <1>4. CASE Commit(r)
    <2>1. PICK keep \in Keeps(r) :
             /\ WritePlan(r, keep) /\ WriteSteps(r, keep)
             /\ \E upto \in 0..MaxSteps :
                  credits' = Credited({s \in DoneIn(step', keep) : s[2] <= upto})
      BY <1>4 DEF Commit
    <2>2. keep \in Plans
      BY <2>1, KeptPlan
    <2>3. done \subseteq done' /\ \A p \in Plans : DoneIn(step', p) \subseteq done'
      BY <2>1, <2>2, WriteCredit
    <2>4. \E S \in SUBSET done' : credits' = Credited(S)
      <3>1. PICK upto \in 0..MaxSteps :
                  credits' = Credited({s \in DoneIn(step', keep) : s[2] <= upto})
        BY <2>1
      <3>2. {s \in DoneIn(step', keep) : s[2] <= upto} \in SUBSET done'
        BY <2>2, <2>3
      <3> QED
        BY <3>1, <3>2
    <2> QED
      BY <1>4, <2>3, <2>4, CreditFinish DEF Commit
  <1>5. CASE Mark(r)
    <2>1. done \subseteq done' /\ credits' = credits
      BY <1>5, MarkEffect DEF Mark
    <2>2. CASE Finish(r)
      BY <1>5, <2>1, <2>2, MarkCredit, CreditFinish
    <2>3. CASE mem[r].to \in DoneStatuses /\ Goto(r, "bonus") /\ mem' = mem
      <3>1. mem' = [mem EXCEPT ![r] = mem[r]] /\ "bonus" \in Labels
        BY <2>3 DEF BaseInv, TypeOK, Labels
      <3> QED
        BY <1>0, <1>5, <2>1, <2>3, <3>1, MarkCredit, CreditMove DEF Goto
    <2>4. CASE Goto(r, "next") /\ mem' = mem
      <3>1. mem' = [mem EXCEPT ![r] = mem[r]] /\ "next" \in Labels
        BY <2>4 DEF BaseInv, TypeOK, Labels
      <3> QED
        BY <1>0, <1>5, <2>1, <2>4, <3>1, MarkCredit, CreditMove DEF Goto
    <2> QED
      BY <1>5, <2>2, <2>3, <2>4 DEF Mark
  <1>6. CASE Bonus(r)
    <2>1. <<mem[r].seen, mem[r].index, mem[r].life>> \in done /\ done' = done /\ step' = step
      BY <1>6 DEF Bonus, CreditInv
    <2>2. \E S \in SUBSET done' : credits' = Credited(S)
      BY <1>6, <2>1 DEF Bonus
    <2>3. \A p \in Plans : DoneIn(step', p) \subseteq done'
      BY <2>1 DEF CreditInv
    <2> QED
      BY <1>6, <2>1, <2>2, <2>3, CreditFinish DEF Bonus
  <1> QED
    BY <1>1, <1>2, <1>3, <1>4, <1>5, <1>6 DEF Pays

LEMMA NextCredit == BaseInv /\ BaseInv' /\ CreditInv /\ [Next]_vars => CreditInv'
  <1> SUFFICES ASSUME BaseInv, BaseInv', CreditInv, [Next]_vars PROVE CreditInv'
    OBVIOUS
  <1>1. ASSUME NEW r \in Requests, Begin(r) \/ Work(r) \/ Die(r), ~Pays(r) PROVE CreditInv'
    BY <1>1, QuietStep, CreditKept
  <1>2. CASE Toggle \/ UNCHANGED vars
    BY <1>2 DEF Toggle, vars, rows, CreditInv, CreditsAreEarned
  <1> QED
    BY <1>1, <1>2, PaysCredit DEF Next

LEMMA CreditCorrect == Spec => []CreditInv
  BY InitCredit, NextCredit, BaseCorrect, PTL DEF Spec

\* Each step row is paid at most once, and only if it was completed or owned at some
\* time: step_bonus.py looks for the row's reference under the lock of the account.
THEOREM CreditsEarned == Spec => []CreditsAreEarned
  <1>1. CreditInv => CreditsAreEarned
    BY DEF CreditInv
  <1> QED
    BY <1>1, CreditCorrect, PTL

-----------------------------------------------------------------------------
\* Whatever is done is paid, or somebody is about to pay it.

Owed(r, p, s) ==
    \/ pc[r] = "list" /\ mem[r].live = {p}
    \/ pc[r] = "award" /\ s \in mem[r].todo
    \/ pc[r] = "bonus" /\ s = <<mem[r].seen, mem[r].index, mem[r].life>>

Settled(s) == credits[s] = 1 \/ s \in redeemed
PaidInv ==
    \A p \in Plans \ unpaid : \A s \in DoneIn(step, p) :
        Settled(s) \/ \E r \in Requests : Owed(r, p, s)

\* What is left to show of the step of one request: that each done row is paid, owed
\* by that request, or was done before and not owed by it.
LEMMA PaidMove ==
    ASSUME BaseInv, PaidInv, NEW r \in Requests, NEW l, NEW m,
           pc' = [pc EXCEPT ![r] = l], mem' = [mem EXCEPT ![r] = m],
           \A s \in Step : Settled(s) => Settled(s)',
           \A p \in Plans \ unpaid' : \A s \in DoneIn(step', p) :
              \/ Settled(s)'
              \/ Owed(r, p, s)'
              \/ p \notin unpaid /\ s \in DoneIn(step, p) /\ ~Owed(r, p, s)
    PROVE  PaidInv'
  <1> SUFFICES ASSUME NEW p \in Plans \ unpaid', NEW s \in DoneIn(step', p)
               PROVE  Settled(s)' \/ \E q \in Requests : Owed(q, p, s)'
    BY DEF PaidInv
  <1>1. CASE p \notin unpaid /\ s \in DoneIn(step, p) /\ ~Owed(r, p, s)
    <2>1. s \in Step
      BY <1>1, DoneType DEF BaseInv, TypeOK
    <2>2. CASE Settled(s)
      BY <2>1, <2>2
    <2>3. ASSUME NEW q \in Requests, Owed(q, p, s) PROVE Owed(q, p, s)'
      <3>1. q # r
        BY <1>1, <2>3
      <3>2. pc'[q] = pc[q] /\ mem'[q] = mem[q]
        BY <3>1 DEF BaseInv, TypeOK
      <3> QED
        BY <2>3, <3>2 DEF Owed
    <2> QED
      BY <1>1, <2>2, <2>3 DEF PaidInv
  <1> QED
    BY <1>1

\* Requests that owe nothing before a step.
LEMMA OwesNothing ==
    ASSUME BaseInv, NEW r \in Requests, pc[r] \notin {"list", "award", "bonus"}, NEW p, NEW s
    PROVE  ~Owed(r, p, s)
  BY DEF Owed

\* A payment stays, and what is paid is settled.
LEMMA CreditsStay ==
    ASSUME BaseInv, CreditInv, NEW S, credits' = Credited(S), redeemed' = redeemed
    PROVE  \A s \in Step : /\ Settled(s) => Settled(s)'
                           /\ s \in S => Settled(s)'
  <1> SUFFICES ASSUME NEW s \in Step
               PROVE  /\ Settled(s) => Settled(s)'
                      /\ s \in S => Settled(s)'
    OBVIOUS
  <1>1. credits[s] \in Nat /\ credits[s] <= 1
    BY DEF BaseInv, TypeOK, CreditInv, CreditsAreEarned
  <1>2. credits'[s] = IF s \in S /\ ~Referred(s) THEN 1 ELSE credits[s]
    BY CreditedType
  <1> QED
    BY <1>1, <1>2 DEF Settled, Referred

\* Who dies puts the plans it owes something on record.
LEMMA OwesPlan ==
    ASSUME BaseInv, NEW r \in Requests, NEW p \in Plans, NEW s \in DoneIn(step, p),
           Owed(r, p, s)
    PROVE  p \in Owes(r)
  <1>1. s[1] = p
    BY DoneType DEF BaseInv, TypeOK
  <1>2. CASE pc[r] = "list" /\ mem[r].live = {p}
    BY <1>2 DEF Owes
  <1>3. CASE pc[r] = "award" /\ s \in mem[r].todo
    <2>1. PICK q \in Plans : mem[r].live = {q} /\ \A t \in mem[r].todo : t[1] = q
      BY <1>3 DEF BaseInv, LocalInv, Local
    <2>2. p = q
      BY <1>1, <1>3, <2>1
    <2> QED
      BY <1>3, <2>1, <2>2 DEF Owes
  <1>4. CASE pc[r] = "bonus" /\ s = <<mem[r].seen, mem[r].index, mem[r].life>>
    BY <1>1, <1>4 DEF Owes
  <1> QED
    BY <1>2, <1>3, <1>4 DEF Owed

LEMMA QuietPaid ==
    ASSUME BaseInv, BaseInv', PaidInv, NEW r \in Requests, Begin(r) \/ Work(r) \/ Die(r),
           ~Pays(r)
    PROVE  PaidInv'
  <1>1. PICK l \in Labels, m \in Memory :
           pc' = [pc EXCEPT ![r] = l] /\ mem' = [mem EXCEPT ![r] = m]
    BY QuietStep
  <1>2. \A s \in Step : Settled(s) => Settled(s)'
    BY QuietStep DEF Settled
  <1>3. unpaid \subseteq unpaid'
    BY DEF Begin, Work, Die, Pays, Pay, Show, Look, Own, Find, Lock, rows,
           AwardNone, CommitAlone, Read, NotFound, MarkGone, NextOpen, Choose, Select, Delete,
           Meta, Redeem
  <1>4. ASSUME NEW p \in Plans \ unpaid', NEW s \in DoneIn(step, p) PROVE ~Owed(r, p, s)
    <2>1. CASE Die(r)
      BY <1>4, <2>1, OwesPlan DEF Die
    <2>2. CASE AwardNone(r)
      BY <2>2 DEF AwardNone, Owed
    <2>3. CASE ~Die(r) /\ ~AwardNone(r)
      BY <2>3
      DEF Owed, Begin, Work, Pays, Pay, Show, Look, Own, Find, Lock,
          CommitAlone, Read, NotFound, MarkGone, NextOpen, Choose, Select, Delete, Meta,
          Redeem
    <2> QED
      BY <2>1, <2>2, <2>3
  <1>5. \A p \in Plans : DoneIn(step', p) \subseteq DoneIn(step, p)
    BY QuietStep
  <1> QED
    BY <1>1, <1>2, <1>3, <1>4, <1>5, PaidMove

LEMMA WritePaid ==
    ASSUME BaseInv, BaseInv', PaidInv, NEW r \in Requests, Write(r)
    PROVE  PaidInv'
  <1>1. PICK keep \in Keeps(r) :
           WritePlan(r, keep) /\ WriteSteps(r, keep)
           /\ mem' = [mem EXCEPT ![r] = [Blank EXCEPT !.live = {keep}]]
    BY DEF Write, Remember
  <1> DEFINE m == [Blank EXCEPT !.live = {keep}]
  <1>2. keep \in Plans
    BY <1>1, KeptPlan
  <1>3. m.live = {keep}
    BY BlankType DEF Memory
  <1>4. mem' = [mem EXCEPT ![r] = m] /\ pc' = [pc EXCEPT ![r] = "list"]
    BY <1>1 DEF Write, Goto
  <1> HIDE DEF m
  <1>5. pc'[r] = "list" /\ mem'[r].live = {keep}
    BY <1>3, <1>4 DEF BaseInv, TypeOK
  <1>6. \A s : Owed(r, keep, s)'
    BY <1>5 DEF Owed
  <1>7. \A p \in Plans \ {keep} : DoneIn(step', p) = DoneIn(step, p)
    BY <1>1, <1>2, WriteStepsEffect DEF DoneIn, Id
  <1>8. \A p, s : ~Owed(r, p, s)
    BY OwesNothing DEF Write
  <1>9. unpaid' = unpaid /\ credits' = credits /\ redeemed' = redeemed
    BY DEF Write
  <1>s. \A s \in Step : Settled(s) => Settled(s)'
    BY <1>9 DEF Settled
  <1>10. \A p \in Plans \ unpaid' : \A s \in DoneIn(step', p) :
            \/ Owed(r, p, s)'
            \/ p \notin unpaid /\ s \in DoneIn(step, p) /\ ~Owed(r, p, s)
    <2> SUFFICES ASSUME NEW p \in Plans \ unpaid', NEW s \in DoneIn(step', p)
                 PROVE  \/ Owed(r, p, s)'
                        \/ p \notin unpaid /\ s \in DoneIn(step, p) /\ ~Owed(r, p, s)
      OBVIOUS
    <2>1. CASE p = keep
      BY <1>6, <2>1
    <2>2. CASE p # keep
      BY <1>7, <1>8, <1>9, <2>2
    <2> QED
      BY <2>1, <2>2
  <1> QED
    BY <1>4, <1>9, <1>s, <1>10, PaidMove

LEMMA ListPaid ==
    ASSUME BaseInv, BaseInv', PaidInv, NEW r \in Requests, List(r)
    PROVE  PaidInv'
  <1>1. PICK q \in mem[r].live :
           /\ mem' = [mem EXCEPT ![r] = [mem[r] EXCEPT !.todo = Payable(q)]]
           /\ unpaid' = unpaid \ {q}
    BY DEF List, Remember
  <1> DEFINE m == [mem[r] EXCEPT !.todo = Payable(q)]
  <1>2. mem[r].live = {q}
    BY DEF List, BaseInv, LocalInv, Local
  <1>3. m.todo = Payable(q)
    BY MemoryFields DEF Memory, BaseInv
  <1>4. mem' = [mem EXCEPT ![r] = m] /\ pc' = [pc EXCEPT ![r] = "award"]
    BY <1>1 DEF List, Goto
  <1> HIDE DEF m
  <1>5. pc'[r] = "award" /\ mem'[r].todo = DoneIn(step, q)
    BY <1>3, <1>4 DEF BaseInv, TypeOK, Payable
  <1>6. step' = step /\ \A s \in Step : Settled(s) => Settled(s)'
    BY DEF List, Settled
  <1>7. \A s \in DoneIn(step', q) : Owed(r, q, s)'
    BY <1>5, <1>6 DEF Owed
  <1>8. \A p, s : p # q => ~Owed(r, p, s)
    BY <1>2 DEF List, Owed
  <1>9. \A s \in DoneIn(step', q) : \A p : p = q => Owed(r, p, s)'
    BY <1>7
  <1>10. \A p \in Plans \ unpaid' : \A s \in DoneIn(step', p) :
           \/ Owed(r, p, s)'
           \/ p \notin unpaid /\ s \in DoneIn(step, p) /\ ~Owed(r, p, s)
    BY <1>1, <1>6, <1>8, <1>9
  <1> QED
    BY <1>4, <1>6, <1>10, PaidMove

LEMMA AwardPaid ==
    ASSUME BaseInv, BaseInv', CreditInv, PaidInv, NEW r \in Requests, Award(r)
    PROVE  PaidInv'
  <1>1. PICK t \in mem[r].todo :
           /\ credits' = Credited({t})
           /\ mem' = [mem EXCEPT ![r] = [mem[r] EXCEPT !.todo = mem[r].todo \ {t}]]
    BY DEF Award, Remember
  <1> DEFINE m == [mem[r] EXCEPT !.todo = mem[r].todo \ {t}]
  <1>2. m.todo = mem[r].todo \ {t}
    BY MemoryFields DEF Memory, BaseInv
  <1>3. mem' = [mem EXCEPT ![r] = m] /\ pc' = [pc EXCEPT ![r] = pc[r]]
    BY <1>1 DEF Award, BaseInv, TypeOK
  <1> HIDE DEF m
  <1>4. pc[r] = "award" /\ pc'[r] = "award" /\ mem'[r].todo = mem[r].todo \ {t}
    BY <1>2, <1>3 DEF Award, BaseInv, TypeOK
  <1>5. t \in Step
    BY MemoryFields DEF BaseInv
  <1>6. /\ Settled(t)'
        /\ \A s \in Step : Settled(s) => Settled(s)'
    BY <1>1, <1>5, CreditsStay DEF Award
  <1>7. step' = step /\ unpaid' = unpaid
    BY DEF Award
  <1>8. \A p, s : Owed(r, p, s) => s = t \/ Owed(r, p, s)'
    BY <1>4 DEF Owed
  <1> QED
    BY <1>3, <1>6, <1>7, <1>8, PaidMove

LEMMA CommitPaid ==
    ASSUME BaseInv, BaseInv', CreditInv, PaidInv, NEW r \in Requests, Commit(r)
    PROVE  PaidInv'
  <1>1. PICK keep \in Keeps(r) :
           /\ WritePlan(r, keep) /\ WriteSteps(r, keep)
           /\ \E upto \in 0..MaxSteps :
              LET paid == {s \in DoneIn(step', keep) : s[2] <= upto}
              IN  /\ credits' = Credited(paid)
                  /\ unpaid' = IF paid = DoneIn(step', keep)
                               THEN unpaid \ {keep} ELSE unpaid \cup {keep}
    BY DEF Commit
  <1>2. PICK upto \in 0..MaxSteps :
              LET paid == {s \in DoneIn(step', keep) : s[2] <= upto}
              IN  /\ credits' = Credited(paid)
                  /\ unpaid' = IF paid = DoneIn(step', keep)
                               THEN unpaid \ {keep} ELSE unpaid \cup {keep}
    BY <1>1
  <1> DEFINE paid == {s \in DoneIn(step', keep) : s[2] <= upto}
  <1>3. /\ credits' = Credited(paid)
        /\ unpaid' = IF paid = DoneIn(step', keep) THEN unpaid \ {keep} ELSE unpaid \cup {keep}
    BY <1>2
  <1> HIDE DEF paid
  <1>4. keep \in Plans
    BY <1>1, KeptPlan
  <1>5. DoneIn(step', keep) \subseteq Step
    BY <1>4, DoneType DEF BaseInv, TypeOK
  <1>6. \A s \in Step : /\ Settled(s) => Settled(s)'
                        /\ s \in paid => Settled(s)'
    BY <1>3, CreditsStay DEF Commit
  <1>7. keep \notin unpaid' => \A s \in DoneIn(step', keep) : Settled(s)'
    BY <1>3, <1>5, <1>6
  <1>8. \A p \in Plans \ {keep} : DoneIn(step', p) = DoneIn(step, p)
    BY <1>1, <1>4, WriteStepsEffect DEF DoneIn, Id
  <1>9. \A p, s : ~Owed(r, p, s)
    BY OwesNothing DEF Commit
  <1>10. \A p \in Plans \ {keep} : p \notin unpaid' => p \notin unpaid
    BY <1>3
  <1>11. pc' = [pc EXCEPT ![r] = "done"] /\ mem' = [mem EXCEPT ![r] = Blank]
    BY DEF Commit, Finish, Goto, Remember
  <1> QED
    BY <1>6, <1>7, <1>8, <1>9, <1>10, <1>11, PaidMove

LEMMA MarkPaid ==
    ASSUME BaseInv, BaseInv', CreditInv, PaidInv, NEW r \in Requests, Mark(r)
    PROVE  PaidInv'
  <1>1. unpaid' = unpaid /\ \A s \in Step : Settled(s) => Settled(s)'
    BY DEF Mark, Settled
  <1>2. \A p, s : ~Owed(r, p, s)
    BY OwesNothing DEF Mark
  <1>3. CASE mem[r].to \in DoneStatuses /\ Goto(r, "bonus") /\ mem' = mem
    <2>1. pc' = [pc EXCEPT ![r] = "bonus"] /\ mem' = [mem EXCEPT ![r] = mem[r]]
      BY <1>3 DEF Goto, BaseInv, TypeOK
    <2>2. \A p, s : s = <<mem[r].seen, mem[r].index, mem[r].life>> => Owed(r, p, s)'
      BY <1>3 DEF Owed, Goto, BaseInv, TypeOK
    <2>3. \A p \in Plans \ unpaid' : \A s \in DoneIn(step', p) :
             \/ Owed(r, p, s)'
             \/ p \notin unpaid /\ s \in DoneIn(step, p) /\ ~Owed(r, p, s)
      BY <1>1, <1>2, <2>2, MarkCredit
    <2> QED
      BY <1>1, <2>1, <2>3, PaidMove
  <1>4. CASE mem[r].to \notin DoneStatuses
    <2>1. \A p \in Plans : DoneIn(step', p) \subseteq DoneIn(step, p)
      BY <1>4, MarkCredit
    <2>2. \E l, m : pc' = [pc EXCEPT ![r] = l] /\ mem' = [mem EXCEPT ![r] = m]
      <3>1. CASE Finish(r)
        BY <3>1 DEF Finish, Goto, Remember
      <3>2. CASE Goto(r, "next") /\ mem' = mem
        <4>1. mem' = [mem EXCEPT ![r] = mem[r]]
          BY <3>2 DEF BaseInv, TypeOK
        <4> QED
          BY <3>2, <4>1 DEF Goto
      <3> QED
        BY <1>4, <3>1, <3>2 DEF Mark
    <2> QED
      BY <1>1, <1>2, <2>1, <2>2, PaidMove
  <1> QED
    BY <1>3, <1>4 DEF Mark, DoneStatuses

LEMMA BonusPaid ==
    ASSUME BaseInv, BaseInv', CreditInv, PaidInv, NEW r \in Requests, Bonus(r)
    PROVE  PaidInv'
  <1>s. <<mem[r].seen, mem[r].index, mem[r].life>> \in Step
    BY DEF Bonus, CreditInv, BaseInv, TypeOK
  <1>2. PICK t \in Step : t = <<mem[r].seen, mem[r].index, mem[r].life>>
    BY <1>s
  <1>1. credits' = Credited({t}) /\ step' = step /\ unpaid' = unpaid
    BY <1>2 DEF Bonus
  <1>3. Settled(t)' /\ \A s \in Step : Settled(s) => Settled(s)'
    BY <1>1, <1>2, CreditsStay DEF Bonus
  <1>4. \A p, s : Owed(r, p, s) => s = t
    BY <1>2 DEF Bonus, Owed
  <1>5. pc' = [pc EXCEPT ![r] = "done"] /\ mem' = [mem EXCEPT ![r] = Blank]
    BY DEF Bonus, Finish, Goto, Remember
  <1> QED
    BY <1>1, <1>3, <1>4, <1>5, PaidMove

LEMMA NextPaid == BaseInv /\ BaseInv' /\ CreditInv /\ PaidInv /\ [Next]_vars => PaidInv'
  <1> SUFFICES ASSUME BaseInv, BaseInv', CreditInv, PaidInv, [Next]_vars PROVE PaidInv'
    OBVIOUS
  <1>1. ASSUME NEW r \in Requests, Begin(r) \/ Work(r) \/ Die(r) PROVE PaidInv'
    BY <1>1, QuietPaid, WritePaid, ListPaid, AwardPaid, CommitPaid, MarkPaid, BonusPaid
    DEF Pays
  <1>2. CASE Toggle \/ UNCHANGED vars
    <2>1. step' = step /\ credits' = credits /\ redeemed' = redeemed /\ unpaid' = unpaid
          /\ pc' = pc /\ mem' = mem
      BY <1>2 DEF Toggle, vars, rows
    <2>2. \A p, s, r : Owed(r, p, s) => Owed(r, p, s)'
      BY <2>1 DEF Owed
    <2>3. \A p \in Plans : DoneIn(step', p) = DoneIn(step, p)
      BY <2>1
    <2> QED
      BY <2>1, <2>2, <2>3 DEF PaidInv, Settled
  <1> QED
    BY <1>1, <1>2 DEF Next

LEMMA InitPaid == Init => PaidInv
  <1> SUFFICES ASSUME Init PROVE PaidInv
    OBVIOUS
  <1>1. credits = [s \in Step |-> IF s \in done THEN 1 ELSE 0]
    BY DEF Init
  <1>2. BaseInv /\ CreditInv
    BY InitBase, InitCredit
  <1> QED
    BY <1>1, <1>2 DEF PaidInv, Settled, BaseInv, TypeOK, CreditInv

LEMMA PaidCorrect == Spec => []PaidInv
  BY InitPaid, NextPaid, BaseCorrect, CreditCorrect, PTL DEF Spec

\* Once nobody is at work, every step that is done has its bonus, however refreshes,
\* purchases and patches met, unless the one that was to pay it died, or a redemption
\* carries its reference, which the code takes for the payment
\* (award_completed_steps_for_plan, maybe_award_step_completion_bonus).
THEOREM DoneStepsPaid == Spec => []DoneStepsArePaid
  <1>1. PaidInv => DoneStepsArePaid
    BY DEF PaidInv, Settled, DoneStepsArePaid, Owed
  <1> QED
    BY <1>1, PaidCorrect, PTL

-----------------------------------------------------------------------------
\* What a new cycle, a replaced plan and a single plan keep.

\* Without patches, no row of a plan in a new cycle is closed for being owned.
CycleInv ==
    (\A r \in Requests : kind[r] # "patch")
    => \A p \in Plans : plan[p].cycle
         => \A i \in Indexes : step[p][i].status # "owned"

\* The steps that touch neither the cycle nor the rows of a plan, but for deletions.
LEMMA CycleKept ==
    ASSUME CycleInv, kind' = kind,
           \A p \in Plans : plan'[p].cycle = plan[p].cycle,
           \A p \in Plans, i \in Indexes :
              step'[p][i] = step[p][i] \/ step'[p][i].status = "none"
    PROVE  CycleInv'
  BY DEF CycleInv

\* The payload of a new cycle has no row that is closed for being owned.
LEMMA WriteCycle ==
    ASSUME BaseInv, CycleInv, NEW r \in Requests, kind' = kind, pc[r] \in {"write", "commit"},
           NEW keep \in Keeps(r), WritePlan(r, keep), WriteSteps(r, keep)
    PROVE  CycleInv'
  <1> SUFFICES ASSUME \A q \in Requests : kind[q] # "patch",
                      NEW p \in Plans, plan'[p].cycle, NEW i \in Indexes
               PROVE  step'[p][i].status # "owned"
    BY DEF CycleInv
  <1>1. keep \in Plans
    BY KeptPlan
  <1>2. CASE p = keep
    <2>1. mem[r].cycle
      BY <1>2, WritePlanEffect
    <2>2. \A j \in DOMAIN mem[r].payload : mem[r].payload[j].status # "owned"
      BY <2>1 DEF BaseInv, LocalInv, Local
    <2>3. step'[keep][i].status # "none" =>
             i \in DOMAIN mem[r].payload /\ step'[keep][i].status = mem[r].payload[i].status
      BY <1>1, WriteStepsEffect
    <2> QED
      BY <1>2, <2>2, <2>3
  <1>3. CASE p # keep
    <2>1. plan[p].cycle
      BY <1>3, WritePlanEffect
    <2>2. step'[p] = step[p]
      BY <1>1, <1>3, WriteStepsEffect
    <2> QED
      BY <2>1, <2>2 DEF CycleInv
  <1> QED
    BY <1>2, <1>3

LEMMA NextCycle == BaseInv /\ BaseInv' /\ CycleInv /\ [Next]_vars => CycleInv'
  <1> SUFFICES ASSUME BaseInv, BaseInv', CycleInv, [Next]_vars PROVE CycleInv'
    OBVIOUS
  <1>1. ASSUME NEW r \in Requests, Begin(r) \/ Work(r) \/ Die(r) PROVE CycleInv'
    <2>1. CASE Write(r) \/ Commit(r)
      BY <2>1, WriteCycle DEF Write, Commit
    <2>2. CASE Mark(r) \/ Meta(r)
      <3>1. kind[r] = "patch" /\ kind' = kind
        BY <2>2 DEF Mark, Meta, BaseInv, LocalInv, Local, PatchLabels
      <3> QED
        BY <3>1 DEF CycleInv
    <2>3. CASE List(r) \/ Award(r) \/ Bonus(r)
      BY <2>3, CycleKept DEF List, Award, Bonus
    <2>4. CASE ~Pays(r) /\ ~Meta(r)
      <3>1. plan' = plan /\ kind' = kind
        BY <1>1, <2>4
        DEF Begin, Work, Die, Pays, Pay, Show, Look, Own, Find, Lock, rows,
            AwardNone, CommitAlone, Read, NotFound, MarkGone, NextOpen, Choose, Select,
            Delete, Redeem
      <3>2. \A p \in Plans, i \in Indexes :
               step'[p][i] = step[p][i] \/ step'[p][i].status = "none"
        BY <1>1, <2>4, QuietStep
      <3> QED
        BY <3>1, <3>2, CycleKept
    <2> QED
      BY <2>1, <2>2, <2>3, <2>4 DEF Pays
  <1>2. CASE Toggle \/ UNCHANGED vars
    BY <1>2, CycleKept DEF Toggle, vars, rows
  <1> QED
    BY <1>1, <1>2 DEF Next

LEMMA InitCycle == Init => CycleInv
  <1> SUFFICES ASSUME Init, NEW p \in Plans, NEW i \in Indexes
               PROVE  step[p][i].status # "owned"
    BY DEF CycleInv
  <1>1. PICK n \in {0} \cup MinSteps..MaxSteps, cyclic \in BOOLEAN,
             status \in [Indexes -> {"open", "completed"}] :
         step = [q \in Plans |-> [j \in Indexes |->
                      IF q <= made /\ j <= n
                      THEN [life |-> 1, type |-> RuleChain[j], status |-> status[j]]
                      ELSE NoStep]]
    BY DEF Init
  <1> QED
    BY <1>1 DEF NoStep

\* A plan in a new cycle closes nothing for being owned already (status_for_type, as
\* long as the user says nothing else with a patch).
THEOREM CycleHonoured == Spec => []CycleIsHonoured
  <1>1. CycleInv => CycleIsHonoured
    BY DEF CycleInv, CycleIsHonoured, Active
  <1>2. Spec => []CycleInv
    BY InitCycle, NextCycle, BaseCorrect, PTL DEF Spec
  <1> QED
    BY <1>1, <1>2, PTL

\* What a step does to the states of the plans: nothing, unless it writes one.
LEMMA StatesKept ==
    ASSUME BaseInv, NEW r \in Requests, Begin(r) \/ Work(r) \/ Die(r), ~Write(r), ~Commit(r)
    PROVE  \A p \in Plans : plan'[p].state = plan[p].state
  <1>1. CASE Meta(r)
    BY <1>1, MetaEffect
  <1>2. CASE ~Meta(r)
    BY <1>2
    DEF Begin, Work, Die, Pay, Show, Look, Own, Find, Lock, List, Award, AwardNone,
        CommitAlone, Read, NotFound, Mark, MarkGone, Bonus, NextOpen, Choose,
        Select, Delete, Redeem, rows
  <1> QED
    BY <1>1, <1>2

ClosedStay == \A p \in Plans : plan[p].state = "closed" => plan'[p].state = "closed"

LEMMA NextClosed == BaseInv /\ [Next]_vars => [ClosedStay]_vars
  <1> SUFFICES ASSUME BaseInv, Next, NEW p \in Plans, plan[p].state = "closed"
               PROVE  plan'[p].state = "closed"
    BY DEF ClosedStay
  <1>1. ASSUME NEW r \in Requests, Write(r) \/ Commit(r) PROVE plan'[p].state = "closed"
    <2>1. PICK keep \in Keeps(r) : WritePlan(r, keep)
      BY <1>1 DEF Write, Commit
    <2>2. p # keep
      <3>1. CASE keep \in Locked(r)
        BY <3>1 DEF Locked
      <3>2. CASE keep > made
        BY <3>2 DEF BaseInv, MadeInOrder
      <3> QED
        BY <2>1, <3>1, <3>2, KeptPlan
    <2> QED
      BY <2>1, <2>2, WritePlanEffect
  <1>2. ASSUME NEW r \in Requests, Begin(r) \/ Work(r) \/ Die(r) PROVE plan'[p].state = "closed"
    BY <1>1, <1>2, StatesKept
  <1>3. CASE Toggle
    BY <1>3 DEF Toggle, rows
  <1> QED
    BY <1>2, <1>3 DEF Next

\* A replaced plan is never active again: FOR UPDATE looks at each plan of its snapshot
\* again, and a patch saves only the meta of its copy.
THEOREM ClosedStayClosed == Spec => ClosedPlansStayClosed
  <1> QED
    BY NextClosed, BaseCorrect, PTL DEF Spec, ClosedPlansStayClosed, ClosedStay

\* One active plan, which is what every request found that is about to write.
OneInv ==
    /\ Cardinality(Active) = 1
    /\ ~NewCycles
    /\ \A r \in Requests : pc[r] \in {"lock", "write", "commit"} => mem[r].live = Active

LEMMA OneKept ==
    ASSUME BaseInv, OneInv, NEW r \in Requests, kind' = kind, NEW l, NEW m,
           pc' = [pc EXCEPT ![r] = l], mem' = [mem EXCEPT ![r] = m],
           l \in {"lock", "write", "commit"} => m.live = Active,
           Active' = Active
    PROVE  OneInv'
  <1>1. ASSUME NEW q \in Requests, pc'[q] \in {"lock", "write", "commit"}
        PROVE  mem'[q].live = Active'
    <2>1. CASE q = r
      BY <1>1, <2>1 DEF BaseInv, TypeOK
    <2>2. CASE q # r
      BY <1>1, <2>2 DEF BaseInv, TypeOK, OneInv
    <2> QED
      BY <2>1, <2>2
  <1> QED
    BY <1>1 DEF OneInv, NewCycles

LEMMA WriteOne ==
    ASSUME BaseInv, OneInv, NEW r \in Requests, pc[r] \in {"write", "commit"},
           NEW keep \in Keeps(r), WritePlan(r, keep)
    PROVE  Active' = Active
  <1>1. Locked(r) = Active
    BY DEF Locked, Awaited, OneInv, Active
  <1>2. IsFiniteSet(Active)
    BY TypesAreFinite, FS_Subset DEF Active
  <1>3. PICK q : Active = {q}
    BY <1>2, FS_Singleton DEF OneInv
  <1>4. keep = q
    BY <1>1, <1>3 DEF Keeps, OneInv, NewCycles
  <1>5. plan'[q].state = "active"
        /\ \A p \in Plans \ {q} : plan'[p].state = plan[p].state
    BY <1>1, <1>3, <1>4, WritePlanEffect
  <1>6. q \in Plans
    BY <1>3 DEF Active
  <1> QED
    BY <1>3, <1>5, <1>6 DEF Active

LEMMA NextOne == BaseInv /\ BaseInv' /\ OneInv /\ [Next]_vars => OneInv'
  <1> SUFFICES ASSUME BaseInv, BaseInv', OneInv, [Next]_vars PROVE OneInv'
    OBVIOUS
  <1>1. ASSUME NEW r \in Requests, Begin(r) \/ Work(r) \/ Die(r) PROVE OneInv'
    <2>0. kind' = kind
      BY <1>1
      DEF Begin, Work, Die, Pay, Show, Look, Own, Find, Write, Lock, List, Award, AwardNone,
          Commit, CommitAlone, Read, NotFound, Mark, MarkGone, Bonus, NextOpen,
          Choose, Select, Delete, Meta, Redeem
    <2>1. Active' = Active
      <3>1. CASE Write(r) \/ Commit(r)
        BY <3>1, WriteOne DEF Write, Commit
      <3>2. CASE ~Write(r) /\ ~Commit(r)
        BY <1>1, <3>2, StatesKept DEF Active
      <3> QED
        BY <3>1, <3>2
    <2>2. CASE Find(r)
      <3> DEFINE m == [mem[r] EXCEPT !.live = Active]
                 l == IF kind[r] = "buy" THEN "lock" ELSE "write"
      <3>1. m.live = Active
        BY MemoryFields DEF BaseInv, Memory
      <3>2. pc' = [pc EXCEPT ![r] = l] /\ mem' = [mem EXCEPT ![r] = m]
        BY <2>2 DEF Find, Goto, Remember
      <3> HIDE DEF m, l
      <3> QED
        BY <2>0, <2>1, <3>1, <3>2, OneKept
    <2>3. CASE Lock(r)
      <3> DEFINE m == [mem[r] EXCEPT !.live = Locked(r)]
      <3>1. Locked(r) = Active
        BY <2>3 DEF Lock, Locked, Awaited, OneInv, Active
      <3>2. m.live = Active
        BY <3>1, MemoryFields DEF BaseInv, Memory
      <3>3. pc' = [pc EXCEPT ![r] = "commit"] /\ mem' = [mem EXCEPT ![r] = m]
        BY <2>3 DEF Lock, Goto, Remember
      <3> HIDE DEF m
      <3> QED
        BY <2>0, <2>1, <3>2, <3>3, OneKept
    <2>4. CASE ~Find(r) /\ ~Lock(r)
      <3>1. \A q \in Requests \ {r} : pc'[q] = pc[q] /\ mem'[q] = mem[q]
        BY <1>1 DEF Begin, Work, Die, Goto, Remember, Finish, Pay, Show, Look, Own, Find,
             Write, Lock, List, Award, AwardNone, Commit, CommitAlone, Read, NotFound, Mark,
             MarkGone, Bonus, NextOpen, Choose, Select, Delete, Meta, Redeem, BaseInv, TypeOK
      <3>2. pc' = [pc EXCEPT ![r] = pc'[r]] /\ mem' = [mem EXCEPT ![r] = mem'[r]]
        BY <3>1 DEF BaseInv, TypeOK
      <3>3. pc'[r] \notin {"lock", "write", "commit"}
        <4>1. CASE Begin(r)
          <5>1. kind[r] \in AllKinds /\ pc'[r] = FirstStep[kind[r]]
            BY <4>1 DEF Begin, Goto, BaseInv, TypeOK
          <5> QED
            BY <5>1 DEF FirstStep, AllKinds
        <4>2. CASE ~Begin(r)
          <5>1. pc'[r] \in {"look", "own", "find", "list", "award", "mark", "bonus", "next",
                            "meta", "rule", "select", "delete", "redeem", "done"}
            BY <1>1, <2>4, <4>2
            DEF Work, Die, Goto, Finish, Pay, Show, Look, Own, Write, List, Award,
                AwardNone, Commit, CommitAlone, Read, NotFound, Mark, MarkGone, Bonus,
                NextOpen, Choose, Select, Delete, Meta, Redeem, BaseInv, TypeOK
          <5> QED
            BY <5>1
        <4> QED
          BY <4>1, <4>2
      <3> QED
        BY <2>0, <2>1, <3>2, <3>3, OneKept
    <2> QED
      BY <2>2, <2>3, <2>4
  <1>2. CASE Toggle \/ UNCHANGED vars
    <2>1. plan' = plan /\ kind' = kind /\ pc' = pc /\ mem' = mem
      BY <1>2 DEF Toggle, vars, rows
    <2>2. Active' = Active
      BY <2>1 DEF Active
    <2> QED
      BY <2>1, <2>2 DEF OneInv, NewCycles
  <1> QED
    BY <1>1, <1>2 DEF Next

\* Whoever starts with one plan, and asks for no new cycle, keeps one plan: every
\* request that rewrites found that one, and none makes another.
THEOREM OneStays == Spec => OnePlanStays
  <1>1. Init /\ Cardinality(Active) = 1 /\ ~NewCycles => OneInv
    <2>1. Init => \A r \in Requests : pc[r] = "start"
      BY DEF Init
    <2> QED
      BY <2>1 DEF OneInv
  <1>2. OneInv => Cardinality(Active) = 1
    BY DEF OneInv
  <1> QED
    BY <1>1, <1>2, NextOne, BaseCorrect, PTL DEF Spec, OnePlanStays

-----------------------------------------------------------------------------
\* Who holds the lock of the account.

InCheckout == {"look", "own", "find", "lock", "commit"}

\* What a request of kind k that stands at l has locked.
Locks(r, k, l) ==
    /\ l \in InCheckout /\ k = "buy" => wallet = r
    /\ l \in {"pay", "lock", "commit"} => k = "buy"
    /\ l = "write" => k # "buy"

\* Only checkouts hold locks: the account from their first step on, plans only while
\* they hold the account, and then they wait for nothing more.
LockInv ==
    /\ \A r \in Requests : Locks(r, kind[r], pc[r])
    /\ wallet # NoRequest => pc[wallet] \in InCheckout /\ kind[wallet] = "buy"
    /\ \A p \in Plans :
         holder[p] # NoRequest => holder[p] = wallet /\ pc[wallet] = "commit"

\* A request that moves on and takes or frees no lock.
LEMMA LockKept ==
    ASSUME BaseInv, LockInv, NEW r \in Requests, kind' = kind,
           wallet' = wallet, holder' = holder, NEW l, pc' = [pc EXCEPT ![r] = l],
           wallet = r => pc[r] # "commit" /\ l \in InCheckout,
           Locks(r, kind[r], l)
    PROVE  LockInv'
  <1>1. pc'[r] = l /\ \A q \in Requests \ {r} : pc'[q] = pc[q]
    BY DEF BaseInv, TypeOK
  <1>2. wallet # NoRequest => wallet \in Requests
    BY DEF BaseInv, TypeOK
  <1>3. \A q \in Requests : Locks(q, kind[q], pc'[q])
    BY <1>1 DEF LockInv
  <1>4. wallet # NoRequest => pc'[wallet] \in InCheckout /\ kind[wallet] = "buy"
    BY <1>1, <1>2 DEF LockInv
  <1>5. \A p \in Plans :
         holder[p] # NoRequest => holder[p] = wallet /\ pc'[wallet] = "commit"
    <2> SUFFICES ASSUME NEW p \in Plans, holder[p] # NoRequest
                 PROVE  holder[p] = wallet /\ pc'[wallet] = "commit"
      OBVIOUS
    <2>1. holder[p] = wallet /\ pc[wallet] = "commit" /\ holder[p] \in Requests
      BY DEF LockInv, BaseInv, TypeOK
    <2>2. wallet # r
      BY <2>1
    <2> QED
      BY <1>1, <2>1, <2>2
  <1> QED
    BY <1>3, <1>4, <1>5 DEF LockInv, Locks

\* One that ends and frees all it holds.
LEMMA LockEnds ==
    ASSUME BaseInv, LockInv, NEW r \in Requests, kind' = kind, Release(r), Finish(r)
    PROVE  LockInv'
  <1>1. pc'[r] = "done" /\ \A q \in Requests \ {r} : pc'[q] = pc[q]
    BY DEF Finish, Goto, BaseInv, TypeOK
  <1>2. wallet' = IF wallet = r THEN NoRequest ELSE wallet
    BY DEF Release
  <1>3. \A q \in Requests : Locks(q, kind[q], pc[q])'
    BY <1>1, <1>2 DEF LockInv, Locks, InCheckout
  <1>4. wallet' # NoRequest => pc'[wallet'] \in InCheckout /\ kind[wallet'] = "buy"
    BY <1>1, <1>2 DEF LockInv, BaseInv, TypeOK
  <1>5. \A p \in Plans :
         holder'[p] # NoRequest => holder'[p] = wallet' /\ pc'[wallet'] = "commit"
    <2> SUFFICES ASSUME NEW p \in Plans, holder'[p] # NoRequest
                 PROVE  holder'[p] = wallet' /\ pc'[wallet'] = "commit"
      OBVIOUS
    <2>1. holder'[p] = holder[p] /\ holder[p] # r /\ holder[p] \in Requests
      BY DEF Release, Released, BaseInv, TypeOK
    <2> QED
      BY <1>1, <1>2, <2>1 DEF LockInv
  <1> QED
    BY <1>3, <1>4, <1>5 DEF LockInv

LEMMA PayLocks ==
    ASSUME BaseInv, LockInv, NEW r \in Requests, Pay(r)
    PROVE  LockInv'
  <1>1. pc'[r] = "look" /\ \A q \in Requests \ {r} : pc'[q] = pc[q]
    BY DEF Pay, Goto, BaseInv, TypeOK
  <1>2. wallet = NoRequest /\ wallet' = r /\ holder' = holder /\ kind' = kind
    BY DEF Pay
  <1>3. r # NoRequest /\ \A p \in Plans : holder[p] = NoRequest
    <2>1. \A p \in Plans : holder[p] = NoRequest \/ holder[p] = wallet
      BY DEF LockInv
    <2> QED
      BY <1>2, <2>1
  <1>4. kind[r] = "buy"
    BY DEF Pay, LockInv, Locks
  <1> QED
    BY <1>1, <1>2, <1>3, <1>4 DEF LockInv, Locks, InCheckout

LEMMA LockLocks ==
    ASSUME BaseInv, LockInv, NEW r \in Requests, Lock(r)
    PROVE  LockInv'
  <1>1. pc'[r] = "commit" /\ \A q \in Requests \ {r} : pc'[q] = pc[q]
    BY DEF Lock, Goto, BaseInv, TypeOK
  <1>2. wallet = r /\ wallet' = r /\ kind' = kind /\ kind[r] = "buy"
    BY DEF Lock, LockInv, Locks, InCheckout
  <1>3. \A p \in Plans : holder'[p] = r \/ holder'[p] = holder[p]
    BY DEF Lock, BaseInv, TypeOK
  <1>4. \A p \in Plans : holder'[p] # NoRequest => holder'[p] = r
    BY <1>2, <1>3 DEF LockInv
  <1> QED
    BY <1>1, <1>2, <1>4 DEF LockInv, Locks, InCheckout

LEMMA NextLocks == BaseInv /\ LockInv /\ [Next]_vars => LockInv'
  <1> SUFFICES ASSUME BaseInv, LockInv, [Next]_vars PROVE LockInv'
    OBVIOUS
  <1>1. ASSUME NEW r \in Requests, Begin(r) \/ Work(r) \/ Die(r) PROVE LockInv'
    <2>0. wallet = r => pc[r] \in InCheckout /\ kind[r] = "buy"
      BY DEF LockInv
    <2>1. CASE Begin(r)
      <3> DEFINE l == FirstStep[kind[r]]
      <3>1. kind[r] \in AllKinds
        BY DEF BaseInv, TypeOK
      <3>2. l \in {"look", "pay", "read", "redeem"} /\ (kind[r] = "buy" <=> l = "pay")
        BY <3>1 DEF FirstStep, AllKinds
      <3>3. pc' = [pc EXCEPT ![r] = l] /\ wallet # r
        BY <2>0, <2>1 DEF Begin, Goto, InCheckout
      <3> HIDE DEF l
      <3>4. Locks(r, kind[r], l)
        BY <3>2 DEF Locks, InCheckout
      <3> QED
        BY <2>1, <3>3, <3>4, LockKept DEF Begin
    <2>2. CASE Look(r) \/ Own(r) \/ Find(r)
      <3>1. kind[r] = "buy" => wallet = r
        BY <2>2 DEF Look, Own, Find, LockInv, Locks, InCheckout
      <3>2. PICK l \in {"own", "find", "lock", "write"} :
               /\ pc' = [pc EXCEPT ![r] = l]
               /\ l = "lock" => kind[r] = "buy"
               /\ l = "write" => kind[r] # "buy"
        BY <2>2 DEF Look, Own, Find, Goto
      <3>3. Locks(r, kind[r], l)
        BY <3>1, <3>2 DEF Locks
      <3>4. wallet = r => pc[r] # "commit" /\ l \in InCheckout
        BY <2>0, <2>2, <3>2 DEF Look, Own, Find, InCheckout
      <3> QED
        BY <2>2, <3>2, <3>3, <3>4, LockKept DEF Look, Own, Find
    <2>3. CASE Show(r) \/ Write(r) \/ List(r) \/ Award(r) \/ AwardNone(r) \/ Read(r)
               \/ NotFound(r) \/ Mark(r) \/ MarkGone(r) \/ Bonus(r) \/ NextOpen(r) \/ Choose(r)
               \/ Select(r) \/ Delete(r) \/ Meta(r) \/ Redeem(r)
      <3>1. wallet # r
        BY <2>0, <2>3
        DEF Show, Write, List, Award, AwardNone, Read, NotFound, Mark, MarkGone, Bonus,
            NextOpen, Choose, Select, Delete, Meta, Redeem, InCheckout, LockInv, Locks
      <3>2. wallet' = wallet /\ holder' = holder /\ kind' = kind
        BY <2>3
        DEF Show, Write, List, Award, AwardNone, Read, NotFound, Mark, MarkGone, Bonus,
            NextOpen, Choose, Select, Delete, Meta, Redeem
      <3>3. PICK l \in {"done", "list", "award", "mark", "bonus", "next", "rule", "select",
                     "delete", "meta"} :
               pc' = [pc EXCEPT ![r] = l]
        BY <2>3
        DEF Show, Write, List, Award, AwardNone, Read, NotFound, Mark, MarkGone, Bonus,
            NextOpen, Choose, Select, Delete, Meta, Redeem, Finish, Goto, BaseInv, TypeOK
      <3>4. Locks(r, kind[r], l)
        BY <3>3 DEF Locks, InCheckout
      <3> QED
        BY <3>1, <3>2, <3>3, <3>4, LockKept
    <2>4. CASE Commit(r) \/ CommitAlone(r) \/ Die(r)
      BY <2>4, LockEnds DEF Commit, CommitAlone, Die
    <2> QED
      BY <1>1, <2>1, <2>2, <2>3, <2>4, PayLocks, LockLocks DEF Work
  <1>2. CASE Toggle \/ UNCHANGED vars
    <2>1. wallet' = wallet /\ holder' = holder /\ kind' = kind /\ pc' = pc
      BY <1>2 DEF Toggle, vars
    <2> QED
      BY <2>1 DEF LockInv, Locks
  <1> QED
    BY <1>1, <1>2 DEF Next

LEMMA InitLocks == Init => LockInv
  BY DEF Init, LockInv, Locks, InCheckout

-----------------------------------------------------------------------------
\* What Checkout takes for granted.

PostingStep ==
    \A s \in Step : credits'[s] # credits[s] =>
        /\ credits[s] = 0 /\ credits'[s] = 1 /\ s \in done'
        /\ s \notin redeemed' /\ wallet' = NoRequest

LEMMA NewCredits ==
    ASSUME BaseInv, CreditInv, NEW S, credits' = Credited(S), NEW s \in Step,
           credits'[s] # credits[s]
    PROVE  credits[s] = 0 /\ credits'[s] = 1 /\ s \notin redeemed
  <1>1. credits'[s] = IF s \in S /\ ~Referred(s) THEN 1 ELSE credits[s]
    BY CreditedType
  <1>2. credits[s] \in Nat
    BY DEF BaseInv, TypeOK
  <1> QED
    BY <1>1, <1>2 DEF Referred

LEMMA NextPosts == BaseInv /\ CreditInv /\ CreditInv' /\ LockInv /\ [Next]_vars
                   => [PostingStep]_vars
  <1> SUFFICES ASSUME BaseInv, CreditInv, CreditInv', LockInv, Next, NEW s \in Step,
                      credits'[s] # credits[s]
               PROVE  /\ credits[s] = 0 /\ credits'[s] = 1 /\ s \in done'
                      /\ s \notin redeemed' /\ wallet' = NoRequest
    BY DEF PostingStep
  <1>1. PICK r \in Requests : Award(r) \/ Bonus(r) \/ Commit(r)
    BY DEF Next, Begin, Work, Die, Toggle, Pay, Show, Look, Own, Find, Write, Lock, List,
           AwardNone, CommitAlone, Read, NotFound, Mark, MarkGone, NextOpen, Choose, Select, Delete,
           Meta, Redeem, rows
  <1>2. redeemed' = redeemed /\ \E S : credits' = Credited(S)
    BY <1>1 DEF Award, Bonus, Commit
  <1>3. credits[s] = 0 /\ credits'[s] = 1 /\ s \notin redeemed'
    BY <1>2, NewCredits
  <1>4. s \in done'
    BY <1>3 DEF CreditInv, CreditsAreEarned
  <1>5. wallet' = NoRequest
    <2>1. CASE Award(r) \/ Bonus(r)
      BY <2>1 DEF Award, Bonus, AccountFree
    <2>2. CASE Commit(r)
      BY <2>2 DEF Commit, Release, LockInv, Locks, InCheckout
    <2> QED
      BY <1>1, <2>1, <2>2
  <1> QED
    BY <1>3, <1>4, <1>5

\* The roadmap keeps what Checkout supposes of it ("any set of references not yet
\* credited"): it pays a row at most once, and never between another checkout's
\* reading of the balance and its commit.
THEOREM PostsLikeTheLedger == Spec => CreditsArePostings
  BY InitLocks, NextLocks, NextPosts, BaseCorrect, CreditCorrect, PTL
  DEF Spec, CreditsArePostings, PostingStep
=============================================================================
