------------------------------ MODULE RoadmapPlan ------------------------------
(***************************************************************************)
(* The roadmap plans of one user in one category, with the models frozen   *)
(* as the settings ship them (module roadmap_app):                         *)
(*   get      GET /api/me/roadmap, which refreshes if there is no plan     *)
(*   refresh  POST /api/me/roadmap/refresh                                 *)
(*   cycle    the same with force_new, which starts a new cycle            *)
(*   buy      POST /api/checkout, whose last part refreshes the plan       *)
(*   patch    PATCH /api/me/roadmap/steps/<id>                             *)
(*   redeem   POST /api/loyalty/redeem-points, under a reference that the  *)
(*            client chooses, here that of a step's bonus                  *)
(* A refresh looks at the active plan, reads what the user owns, makes up  *)
(* its mind, locks the active plans, rewrites one and pays the steps that  *)
(* are done; every step is a transaction of its own, except in a checkout, *)
(* which does it all in its own and under the lock of the account.         *)
(***************************************************************************)
EXTENDS Integers, FiniteSets, Sequences, Functions

CONSTANTS
    RuleChain,    \* the product types of the category, base before optional
    BaseTypes,    \* the base ones
    MinSteps,     \* min_steps of the category
    MaxSteps,     \* max_steps of the category
    Requests,     \* HTTP requests
    NoRequest,    \* null value of Requests
    Kinds,        \* the requests a run considers
    References,   \* bound: the steps whose references redemptions carry
    MaxPlans,     \* bound: no more plans are created
    MaxLives      \* bound: a position is not filled with a new row more often

AllKinds == {"get", "refresh", "cycle", "buy", "patch", "redeem"}

ASSUME RoadmapAssumption ==
    /\ RuleChain \in Seq(Range(RuleChain))
    /\ BaseTypes \subseteq Range(RuleChain)
    /\ {MinSteps, MaxSteps, MaxPlans, MaxLives} \subseteq Nat \ {0}
    /\ MinSteps <= MaxSteps
    /\ MaxSteps <= Len(RuleChain)
    /\ NoRequest \notin Requests
    /\ Kinds \subseteq AllKinds
    /\ References \subseteq (1..MaxPlans) \X (1..MaxSteps) \X (1..MaxLives)

VARIABLES
    owned,      \* the types of the OwnedProduct rows that are current
    made,       \* how many plans there are
    plan,       \* the RoadmapPlan rows: is_active, and meta.cycle
    step,       \* the RoadmapStep row at each position of each plan
    credits,    \* the bonuses of each step in the ledger
    redeemed,   \* the steps whose reference a redemption in the ledger carries
    done,       \* history: the steps that were ever completed or owned
    unpaid,     \* history: plans whose last payer died before it had paid
    wallet,     \* who holds the row lock of the loyalty account
    holder,     \* who holds the row lock of each plan
    kind, pc,   \* what each request is, and where its worker is
    mem         \* what it remembers

rows == <<made, plan, step, credits, redeemed, done, unpaid>>
vars == <<owned, rows, wallet, holder, kind, pc, mem>>

Types == Range(RuleChain)
Plans == 1..MaxPlans
Indexes == 1..MaxSteps
Lives == 0..MaxLives
Labels == {"start", "pay", "look", "own", "find", "lock", "write", "commit",
           "list", "award", "read", "mark", "bonus", "next", "rule", "select", "delete",
           "meta", "redeem", "done"}

\* Positions are unique in a plan.  `life` counts the rows a position has had,
\* so that plan, index and life name a row, as its id does.
Statuses == {"none", "open", "owned", "completed", "skipped"}
StepRow == [life : Lives, type : Types, status : Statuses]
PlanRow == [state : {"none", "active", "closed"}, cycle : BOOLEAN]
Step == Plans \X Indexes \X (Lives \ {0})

\* seen: the plan it looked at or whose step it patches, 0 for none
\* cycle: the mode it read there        todo: the steps it goes on to pay or delete
\* bought: the type a checkout buys
\* payload: the steps it writes         live: the plans it found active or keeps
\* index, life, base: the step it patches, then the next one; to: what it sets
\* end: where the steps that it takes away end
Memory == [seen : 0..MaxPlans, cycle : BOOLEAN, bought : SUBSET Types,
           live : SUBSET Plans, todo : SUBSET Step,
           payload : Seq([type : Types, status : Statuses]),
           index : 0..MaxSteps, life : Lives, base : BOOLEAN, to : Statuses,
           end : 0..(MaxSteps + 1)]

Blank == [seen |-> 0, cycle |-> FALSE, bought |-> {}, live |-> {}, todo |-> {},
          payload |-> <<>>, index |-> 0, life |-> 0, base |-> FALSE, to |-> "none",
          end |-> 0]

DoneStatuses == {"completed", "owned"}
Active == {p \in Plans : plan[p].state = "active"}
Present(p) == {i \in Indexes : step[p][i].status # "none"}
OpenAt(p) == {i \in Indexes : step[p][i].status = "open"}

Id(table, p, i) == <<p, i, table[p][i].life>>
DoneIn(table, p) ==
    {Id(table, p, i) : i \in {j \in Indexes : table[p][j].status \in DoneStatuses}}

NoStep == [life |-> 0, type |-> RuleChain[1], status |-> "none"]
NoPlan == [state |-> "none", cycle |-> FALSE]

\* The user starts without a plan, or with one that some requests have shaped and
\* whose done steps are paid.
Init ==
    /\ owned = {}
    /\ \E n \in {0} \cup MinSteps..MaxSteps, cyclic \in BOOLEAN,
          status \in [Indexes -> {"open", "completed"}] :
         /\ made = IF n = 0 THEN 0 ELSE 1
         /\ plan = [p \in Plans |-> IF p <= made
                                    THEN [state |-> "active", cycle |-> cyclic]
                                    ELSE NoPlan]
         /\ step = [p \in Plans |-> [i \in Indexes |->
                      IF p <= made /\ i <= n
                      THEN [life |-> 1, type |-> RuleChain[i], status |-> status[i]]
                      ELSE NoStep]]
    /\ done = UNION {DoneIn(step, p) : p \in Plans}
    /\ credits = [s \in Step |-> IF s \in done THEN 1 ELSE 0]
    /\ redeemed = {}
    /\ unpaid = {}
    /\ wallet = NoRequest
    /\ holder = [p \in Plans |-> NoRequest]
    /\ kind \in [Requests -> Kinds]
    /\ pc = [r \in Requests |-> "start"]
    /\ mem = [r \in Requests |-> Blank]

Goto(r, label) == pc' = [pc EXCEPT ![r] = label]
Remember(r, m) == mem' = [mem EXCEPT ![r] = m]

\* The end of the request; its objects are garbage then.
Finish(r) == Goto(r, "done") /\ Remember(r, Blank)
Free(p) == holder[p] = NoRequest

-----------------------------------------------------------------------------
\* refresh_roadmap, up to the transaction that writes.

FirstStep == [get |-> "look", refresh |-> "look", cycle |-> "look", buy |-> "pay",
              patch |-> "read", redeem |-> "redeem"]

Begin(r) ==
    /\ pc[r] = "start"
    /\ Goto(r, FirstStep[kind[r]])
    /\ UNCHANGED <<owned, rows, wallet, holder, kind, mem>>

\* A checkout locks the loyalty account first.  It buys a type of this category.
Pay(r) ==
    /\ pc[r] = "pay"
    /\ wallet = NoRequest
    /\ wallet' = r
    /\ \E t \in Types : Remember(r, [mem[r] EXCEPT !.bought = {t}])
    /\ Goto(r, "look")
    /\ UNCHANGED <<owned, rows, holder, kind>>

\* A GET that finds a plan shows it.
Show(r) ==
    /\ pc[r] = "look" /\ kind[r] = "get" /\ Active # {}
    /\ Finish(r)
    /\ UNCHANGED <<owned, rows, wallet, holder, kind>>

\* get_active_plan, without a lock, and the mode of its cycle.
Look(r) ==
    /\ pc[r] = "look"
    /\ kind[r] = "get" => Active = {}
    /\ \E p \in (IF Active = {} THEN {0} ELSE Active) :
         Remember(r, [mem[r] EXCEPT
             !.seen = p,
             !.cycle = kind[r] = "cycle" \/ (p # 0 /\ plan[p].cycle)])
    /\ Goto(r, "own")
    /\ UNCHANGED <<owned, rows, wallet, holder, kind>>

\* min_steps, and one more for each type the user owns.
ChainLength(own) ==
    LET extra == MaxSteps - MinSteps
    IN  MinSteps + (IF Cardinality(own) < extra THEN Cardinality(own) ELSE extra)

\* The members of S in ascending order: the set of that one sequence.
Ascending(S) ==
    {s \in [1..Cardinality(S) -> S] : \A j, k \in DOMAIN s : j < k => s[j] < s[k]}

\* s[:n]
Slice(s, n) == SubSeq(s, 1, IF Len(s) < n THEN Len(s) ELSE n)

\* _build_chain: a purchase follows the rules, a refresh puts what was completed
\* in this cycle first.  One sequence again.
Chains(r, first, own) ==
    {Slice(IF kind[r] = "buy" THEN RuleChain
           ELSE first \o [k \in DOMAIN rest |-> RuleChain[rest[k]]],
           ChainLength(own)) :
        rest \in Ascending({i \in DOMAIN RuleChain : RuleChain[i] \notin Range(first)})}

\* Seeded fault: a new cycle counts what the user already owns.
StatusForType_Recloses(r, t, bought, own) ==
    IF t \in bought THEN "completed" ELSE IF t \in own THEN "owned" ELSE "open"

\* _status_for_type
StatusForType(r, t, bought, own) ==
    IF t \in bought THEN "completed"
    ELSE IF t \in own /\ ~mem[r].cycle THEN "owned" ELSE "open"

\* The types completed in the plan it saw, in their order, if the cycle goes on:
\* the set of one sequence.
CompletedBefore(r) ==
    IF mem[r].cycle /\ kind[r] # "cycle" /\ mem[r].seen # 0
    THEN LET at == step[mem[r].seen]
         IN  {[k \in DOMAIN order |-> at[order[k]].type] :
                 order \in Ascending({i \in Indexes : at[i].status = "completed"})}
    ELSE {<<>>}

\* A finish_date of long ago may hide that the product bought is owned now.
Own(r) ==
    /\ pc[r] = "own"
    /\ \E own \in {owned, owned \cup mem[r].bought}, first \in CompletedBefore(r) :
         \E chain \in Chains(r, first, own) :
            Remember(r, [mem[r] EXCEPT
              !.payload = [k \in DOMAIN chain |->
                 [type |-> chain[k],
                  status |-> StatusForType(r, chain[k], mem[r].bought \cup Range(first),
                                           own)]]])
    /\ Goto(r, "find")
    /\ UNCHANGED <<owned, rows, wallet, holder, kind>>

\* The snapshot of the query for active plans.
Find(r) ==
    /\ pc[r] = "find"
    /\ Remember(r, [mem[r] EXCEPT !.live = Active])
    /\ Goto(r, IF kind[r] = "buy" THEN "lock" ELSE "write")
    /\ UNCHANGED <<owned, rows, wallet, holder, kind>>

-----------------------------------------------------------------------------
\* _upsert_plan_with_steps.

\* Seeded fault: plans that another request has locked are skipped.
Awaited_Skips(r) == {p \in mem[r].live : holder[p] \in {NoRequest, r}}

\* FOR UPDATE waits for every plan of its snapshot, then looks at each again.
Awaited(r) == mem[r].live
CanLock(r) == \A p \in Awaited(r) : holder[p] \in {NoRequest, r}
Locked(r) == {p \in Awaited(r) : plan[p].state = "active"}

\* The plan that is kept, or the next one.
Keeps(r) ==
    IF kind[r] = "cycle" \/ Locked(r) = {} THEN {made + 1} ELSE Locked(r)

\* The others are closed, and meta is overwritten.
WritePlan(r, keep) ==
    /\ keep \in Plans
    /\ made' = IF keep > made THEN keep ELSE made
    /\ plan' = [p \in Plans |->
         IF p = keep THEN [state |-> "active", cycle |-> mem[r].cycle]
         ELSE IF p \in Locked(r) THEN [plan[p] EXCEPT !.state = "closed"]
         ELSE plan[p]]

\* update_or_create by position, and the deletion of the rows beyond.
Upserted(at, payload) ==
    [i \in Indexes |->
       IF i \in DOMAIN payload
       THEN [type |-> payload[i].type, status |-> payload[i].status,
             life |-> at[i].life + (IF at[i].status = "none" THEN 1 ELSE 0)]
       ELSE [at[i] EXCEPT !.status = "none"]]

WriteSteps(r, keep) ==
    /\ step' = [step EXCEPT ![keep] = Upserted(step[keep], mem[r].payload)]
    /\ \A i \in Indexes : step'[keep][i].life <= MaxLives
    /\ done' = done \cup DoneIn(step', keep)

\* One transaction, unless it is part of a checkout.
Write(r) ==
    /\ pc[r] = "write"
    /\ CanLock(r)
    /\ \E keep \in Keeps(r) :
         /\ WritePlan(r, keep)
         /\ WriteSteps(r, keep)
         /\ Remember(r, [Blank EXCEPT !.live = {keep}])
    /\ Goto(r, "list")
    /\ UNCHANGED <<owned, credits, redeemed, unpaid, wallet, holder, kind>>

\* A checkout keeps the locks, and nobody sees what it writes yet.
Lock(r) ==
    /\ pc[r] = "lock"
    /\ CanLock(r)
    /\ holder' = [p \in Plans |-> IF p \in Locked(r) THEN r ELSE holder[p]]
    /\ Remember(r, [mem[r] EXCEPT !.live = Locked(r)])
    /\ Goto(r, "commit")
    /\ UNCHANGED <<owned, rows, wallet, kind>>

-----------------------------------------------------------------------------
\* Step bonuses (step_bonus.py): one ledger entry for each row, however often the
\* row is found done, and none if an entry of any other type has its reference.

\* Seeded fault: the ledger is not searched for the reference.
Credited_Again(S) == [s \in Step |-> credits[s] + (IF s \in S THEN 1 ELSE 0)]

Referred(s) == credits[s] > 0 \/ s \in redeemed
Credited(S) ==
    [s \in Step |-> credits[s] + (IF s \in S /\ ~Referred(s) THEN 1 ELSE 0)]

\* Seeded fault: only what was bought is paid, not what was owned before.
Payable_Bought(p) ==
    {Id(step, p, i) : i \in {j \in Indexes : step[p][j].status = "completed"}}

\* award_completed_steps_for_plan reads the done steps of the plan it has written,
Payable(p) == DoneIn(step, p)

List(r) ==
    /\ pc[r] = "list"
    /\ \E p \in mem[r].live :
         /\ Remember(r, [mem[r] EXCEPT !.todo = Payable(p)])
         /\ unpaid' = unpaid \ {p}
    /\ Goto(r, "award")
    /\ UNCHANGED <<owned, made, plan, step, credits, redeemed, done, wallet, holder, kind>>

\* Seeded fault: a bonus does not wait for the account.
AccountFree_NoWait == TRUE

\* A bonus is paid in a transaction that locks the account.
AccountFree == wallet = NoRequest

\* and pays one after the other.
Award(r) ==
    /\ pc[r] = "award"
    /\ AccountFree
    /\ \E s \in mem[r].todo :
         /\ \A other \in mem[r].todo : s[2] <= other[2]
         /\ credits' = Credited({s})
         /\ Remember(r, [mem[r] EXCEPT !.todo = mem[r].todo \ {s}])
    /\ UNCHANGED <<owned, made, plan, step, redeemed, done, unpaid, wallet, holder, kind,
                   pc>>

AwardNone(r) ==
    /\ pc[r] = "award" /\ mem[r].todo = {}
    /\ Finish(r)
    /\ UNCHANGED <<owned, rows, wallet, holder, kind>>

-----------------------------------------------------------------------------
\* The end of a checkout.

Released(r) == [p \in Plans |-> IF holder[p] = r THEN NoRequest ELSE holder[p]]

\* Seeded fault: a path that keeps the lock of the account.
Release_Kept(r) == holder' = Released(r) /\ wallet' = wallet

Release(r) ==
    /\ holder' = Released(r)
    /\ wallet' = IF wallet = r THEN NoRequest ELSE wallet

\* The plan, the bonuses of its done steps up to a position, for an exception in
\* between is swallowed, and the product the user owns now.
Commit(r) ==
    /\ pc[r] = "commit"
    /\ \E keep \in Keeps(r) :
         /\ WritePlan(r, keep)
         /\ WriteSteps(r, keep)
         /\ \E upto \in 0..MaxSteps :
              LET paid == {s \in DoneIn(step', keep) : s[2] <= upto}
              IN  /\ credits' = Credited(paid)
                  /\ unpaid' = IF paid = DoneIn(step', keep)
                               THEN unpaid \ {keep} ELSE unpaid \cup {keep}
    /\ owned' = owned \cup mem[r].bought
    /\ Release(r)
    /\ Finish(r)
    /\ UNCHANGED <<redeemed, kind>>

\* The roadmap failed before it was written; the purchase stands.
CommitAlone(r) ==
    /\ kind[r] = "buy" /\ pc[r] \in {"look", "own", "find", "lock", "commit"}
    /\ owned' = owned \cup mem[r].bought
    /\ Release(r)
    /\ Finish(r)
    /\ UNCHANGED <<rows, kind>>

-----------------------------------------------------------------------------
\* patch_step_status: single autocommitted statements.

\* The step of an active plan, with that plan.
Read(r) ==
    /\ pc[r] = "read"
    /\ \E p \in Active : \E i \in Present(p), to \in Statuses \ {"none"} :
         Remember(r, [mem[r] EXCEPT
            !.seen = p, !.cycle = plan[p].cycle, !.index = i,
            !.life = step[p][i].life, !.base = step[p][i].type \in BaseTypes,
            !.to = to])
    /\ Goto(r, "mark")
    /\ UNCHANGED <<owned, rows, wallet, holder, kind>>

NotFound(r) ==
    /\ pc[r] = "read"
    /\ Finish(r)
    /\ UNCHANGED <<owned, rows, wallet, holder, kind>>

\* Its row is still there.
Exists(r) ==
    LET at == step[mem[r].seen][mem[r].index]
    IN  at.status # "none" /\ at.life = mem[r].life

\* The UPDATE waits for a checkout that is rewriting the plan.
Mark(r) ==
    /\ pc[r] = "mark"
    /\ Free(mem[r].seen)
    /\ Exists(r)
    /\ step' = [step EXCEPT ![mem[r].seen][mem[r].index].status = mem[r].to]
    /\ done' = done \cup DoneIn(step', mem[r].seen)
    /\ \/ mem[r].to = "open" /\ Finish(r)
       \/ mem[r].to \in DoneStatuses /\ Goto(r, "bonus") /\ mem' = mem
       \/ mem[r].to = "skipped" /\ Goto(r, "next") /\ mem' = mem
    /\ UNCHANGED <<owned, made, plan, credits, redeemed, unpaid, wallet, holder, kind>>

\* Save with update_fields fails when no row is affected.
MarkGone(r) ==
    /\ pc[r] = "mark"
    /\ Free(mem[r].seen)
    /\ ~Exists(r)
    /\ Finish(r)
    /\ UNCHANGED <<owned, rows, wallet, holder, kind>>

Bonus(r) ==
    /\ pc[r] = "bonus"
    /\ AccountFree
    /\ credits' = Credited({<<mem[r].seen, mem[r].index, mem[r].life>>})
    /\ Finish(r)
    /\ UNCHANGED <<owned, made, plan, step, redeemed, done, unpaid, wallet, holder,
                   kind>>

\* What it remembers at the end: the plan, with the mode of its cycle.
ItsPlan(r) == [Blank EXCEPT !.seen = mem[r].seen, !.cycle = mem[r].cycle]

\* get_next_missing_step
NextOpen(r) ==
    LET open == OpenAt(mem[r].seen)
    IN  /\ pc[r] = "next"
        /\ IF open = {}
           THEN Goto(r, "meta") /\ Remember(r, ItsPlan(r))
           ELSE /\ \E i \in open : /\ \A j \in open : i <= j
                                   /\ Remember(r, [mem[r] EXCEPT !.index = i])
                /\ Goto(r, "rule")
        /\ UNCHANGED <<owned, rows, wallet, holder, kind>>

\* The continuation rule goes on with the next step, or with a later one that is
\* open, or it stops, which ends the plan unless a base step was skipped.
Choose(r) ==
    /\ pc[r] = "rule"
    /\ \/ Goto(r, "meta") /\ Remember(r, ItsPlan(r))
       \/ \E end \in OpenAt(mem[r].seen) \cup (IF mem[r].base THEN {} ELSE {MaxSteps + 1}) :
            /\ end > mem[r].index
            /\ Remember(r, [mem[r] EXCEPT !.end = end])
            /\ Goto(r, "select")
    /\ UNCHANGED <<owned, rows, wallet, holder, kind>>

\* delete() reads the ids of the open steps up to that one, not including it,
Select(r) ==
    /\ pc[r] = "select"
    /\ Remember(r, [ItsPlan(r) EXCEPT !.todo =
         {Id(step, mem[r].seen, i) :
            i \in {j \in OpenAt(mem[r].seen) : mem[r].index <= j /\ j < mem[r].end}}])
    /\ Goto(r, "delete")
    /\ UNCHANGED <<owned, rows, wallet, holder, kind>>

\* and deletes the rows that have them, whatever has become of these.
Delete(r) ==
    /\ pc[r] = "delete"
    /\ Free(mem[r].seen)
    /\ step' = [step EXCEPT ![mem[r].seen] =
         [i \in Indexes |-> IF Id(step, mem[r].seen, i) \in mem[r].todo
                            THEN [step[mem[r].seen][i] EXCEPT !.status = "none"]
                            ELSE step[mem[r].seen][i]]]
    /\ Remember(r, ItsPlan(r))
    /\ Goto(r, "meta")
    /\ UNCHANGED <<owned, made, plan, credits, redeemed, done, unpaid, wallet, holder,
                   kind>>

\* Seeded fault: the whole row is saved, is_active too.
SavedMeta_Whole(r) == [state |-> "active", cycle |-> mem[r].cycle]

\* meta is saved from the copy that came with the step.
SavedMeta(r) == [plan[mem[r].seen] EXCEPT !.cycle = mem[r].cycle]

Meta(r) ==
    /\ pc[r] = "meta"
    /\ Free(mem[r].seen)
    /\ plan' = [plan EXCEPT ![mem[r].seen] = SavedMeta(r)]
    /\ Finish(r)
    /\ UNCHANGED <<owned, made, step, credits, redeemed, done, unpaid, wallet, holder,
                   kind>>

-----------------------------------------------------------------------------
\* RedeemPointsView, under the reference of a step, perhaps of one that does not
\* exist yet: one transaction under the lock of the account.
Redeem(r) ==
    /\ pc[r] = "redeem"
    /\ AccountFree
    /\ \E s \in References : redeemed' = redeemed \cup {s}
    /\ Finish(r)
    /\ UNCHANGED <<owned, made, plan, step, credits, done, unpaid, wallet, holder, kind>>

-----------------------------------------------------------------------------
\* The plans a worker that dies leaves unpaid.
Owes(r) ==
    CASE pc[r] \in {"list", "award"} -> mem[r].live
      [] pc[r] = "bonus" -> {mem[r].seen}
      [] OTHER -> {}

\* An error or the death of the worker: a checkout is rolled back.
Die(r) ==
    /\ pc[r] \notin {"start", "done"}
    /\ unpaid' = unpaid \cup Owes(r)
    /\ Release(r)
    /\ Finish(r)
    /\ UNCHANGED <<owned, made, plan, step, credits, redeemed, done, kind>>

\* The user activates or deactivates a product, or time makes it old.
Toggle ==
    /\ \E t \in Types : owned' \in {owned \cup {t}, owned \ {t}}
    /\ UNCHANGED <<rows, wallet, holder, kind, pc, mem>>

Work(r) ==
    \/ Pay(r) \/ Show(r) \/ Look(r) \/ Own(r) \/ Find(r) \/ Write(r) \/ Lock(r)
    \/ List(r) \/ Award(r) \/ AwardNone(r) \/ Commit(r) \/ CommitAlone(r)
    \/ Read(r) \/ NotFound(r) \/ Mark(r) \/ MarkGone(r) \/ Bonus(r)
    \/ NextOpen(r) \/ Choose(r) \/ Select(r) \/ Delete(r) \/ Meta(r)
    \/ Redeem(r)

Next == (\E r \in Requests : Begin(r) \/ Work(r) \/ Die(r)) \/ Toggle

Spec == Init /\ [][Next]_vars
FairSpec == Spec /\ \A r \in Requests : WF_vars(Work(r))

-----------------------------------------------------------------------------
\* Properties.

\* Types of all variables (roadmap_app/models.py).
TypeOK ==
    /\ owned \subseteq Types
    /\ made \in 0..MaxPlans
    /\ plan \in [Plans -> PlanRow]
    /\ step \in [Plans -> [Indexes -> StepRow]]
    /\ credits \in [Step -> Nat]
    /\ redeemed \subseteq Step
    /\ done \subseteq Step
    /\ unpaid \subseteq Plans
    /\ wallet \in Requests \cup {NoRequest}
    /\ holder \in [Plans -> Requests \cup {NoRequest}]
    /\ kind \in [Requests -> Kinds]
    /\ pc \in [Requests -> Labels]
    /\ mem \in [Requests -> Memory]

\* A plan that another one has replaced is never active again, although patches
\* save its row from a copy they read while it was.
ClosedPlansStayClosed ==
    [][\A p \in Plans : plan[p].state = "closed" => plan'[p].state = "closed"]_vars

\* A step row earns its bonus at most once, and only if it was completed or owned
\* at some time: refreshes, checkouts and patches may find it done together.
CreditsAreEarned ==
    \A s \in Step : credits[s] <= 1 /\ (credits[s] = 1 => s \in done)

\* When all requests are over, every step that is done is paid, in active plans
\* and in closed ones, unless points were redeemed under its reference, which the
\* code takes for the payment, or the last payer of that plan died in between.
DoneStepsArePaid ==
    (\A r \in Requests : pc[r] \in {"start", "done"})
    => \A p \in Plans \ unpaid : \A s \in DoneIn(step, p) \ redeemed : credits[s] = 1

\* A user who has one active plan, and starts no new cycle, keeps exactly that
\* one, whatever refreshes, purchases and patches run together.
NewCycles == \E r \in Requests : kind[r] = "cycle"
OnePlanStays ==
    (Cardinality(Active) = 1 /\ ~NewCycles) => [](Cardinality(Active) = 1)

\* In a plan that is marked as a new cycle nothing is closed for being owned
\* already, unless the user says so with a patch.
CycleIsHonoured ==
    (\A r \in Requests : kind[r] # "patch")
    => \A p \in Active : plan[p].cycle
         => \A i \in Indexes : step[p][i].status # "owned"

\* What Checkout takes for granted of the roadmap: bonuses are paid whose reference
\* no entry carries, and while no other checkout computes with the balance.
CreditsArePostings ==
    [][\A s \in Step : credits'[s] # credits[s] =>
          /\ credits[s] = 0 /\ credits'[s] = 1 /\ s \in done'
          /\ s \notin redeemed' /\ wallet' = NoRequest]_vars

\* Every request that has begun ends.
EveryRequestEnds == \A r \in Requests : pc[r] # "start" ~> pc[r] = "done"
=============================================================================
