------------------------------ MODULE Spawning ------------------------------
(* From orders to units: an operator's runs and retries, the analyzer's     *)
(* rolling batch task, the planner that splits a task and the settlement    *)
(* that closes it. Orders are looked up first and written later, by several *)
(* callers at once. A unit holds one subject (ENRICHMENT_UNIT_SIZE 1).      *)
EXTENDS Naturals, Sequences, FiniteSets

CONSTANTS Refs,         \* the subjects of a list scope
          Callers,      \* spawn requests under way
          NowMax,       \* ENRICHMENT_RUN_NOW_MAX_SUBJECTS
          QueueMax,     \* ENRICHMENT_QUEUE_MAX_SUBJECTS
          MaxOrders,    \* bound on the tasks
          MaxBatches,   \* bound on the batch tasks among them
          Lanes         \* lanes an order may ask for, "" to be sized

ASSUME SpawningAssumption ==
    /\ IsFiniteSet(Refs) /\ NowMax \in Nat /\ QueueMax \in Nat \ {0} /\ MaxOrders \in Nat /\ MaxBatches \in Nat /\ Lanes \subseteq {"", "now", "queue"}

VARIABLES orders,   \* the tasks, in the order they were created
          plans,    \* tasks with a plan_task message in the queue
          failing,  \* tasks whose plan failed and which are about to be closed
          caller    \* Callers -> the request between its lookup and its write

spawnVars == <<orders, plans, failing, caller>>

UnitStates == {"none", "queued", "leased", "done", "failed", "cancelled"}
Idle == [does |-> "nothing"]
LaneAsked == Lanes \cup {""}   \* a retry asks for no lane
TaskStates == {"open", "in_progress", "done", "failed", "cancelled"}
\* failedBy (ghost): what failed it, its units, its plan or a request
Order == [batch : BOOLEAN, lane : {"now", "queue"}, refs : SUBSET Refs, origin : Nat,
          status : TaskStates, failedBy : {"none", "units", "plan", "hand"}, unit : [Refs -> UnitStates], beside : SUBSET Nat]
RunCall == [does : {"run"}, lane : LaneAsked, refs : SUBSET Refs, origin : 0..Len(orders), known : 0..Len(orders)]
BatchCall == [does : {"batch"}, refs : SUBSET Refs, known : 0..Len(orders)]
AppendCall == [does : {"append"}, task : DOMAIN orders, refs : SUBSET Refs]
OrderTypeOK ==
    /\ orders \in Seq(Order) /\ Len(orders) <= MaxOrders /\ plans \cup failing \subseteq DOMAIN orders
    /\ \A t \in DOMAIN orders :
          /\ orders[t].origin \in 0..(t - 1) /\ orders[t].beside \subseteq 1..(t - 1)
          /\ orders[t].origin # 0 => ~orders[t].batch
          /\ orders[t].failedBy # "none" <=> orders[t].status = "failed"
    /\ caller \in [Callers -> {Idle} \cup RunCall \cup BatchCall \cup AppendCall]
    /\ \A c \in Callers : caller[c].does = "append" => orders[caller[c].task].batch

OrdersInit == orders = <<>> /\ plans = {} /\ failing = {} /\ caller = [c \in Callers |-> Idle]

-----------------------------------------------------------------------------
Flying == {t \in DOMAIN orders : orders[t].status \in {"open", "in_progress"}}
\* Deviation: a task a worker has claimed is not in flight
FlyingOpen == {t \in DOMAIN orders : orders[t].status = "open"}
Ended(t) == orders[t].status \in {"done", "failed", "cancelled"}

BusyRefsOfOpen == UNION {orders[t].refs : t \in FlyingOpen}
BusyRefs == UNION {orders[t].refs : t \in Flying}
\* the subjects of an order that no task in flight has; none: already running
DropInFlight(refs) == refs \ BusyRefs

LaneFor(lane, refs) ==
    IF lane = "" THEN IF Cardinality(refs) = 1 THEN "now" ELSE "queue" ELSE lane
LaneAccepts(lane, refs) ==
    /\ lane = "now" => Cardinality(refs) <= NowMax
    /\ LaneFor(lane, refs) = "queue" => Cardinality(refs) <= QueueMax

\* beside (ghost): the tasks in flight that the request's lookup did not see
Create(c, batch, lane, refs, origin, known) ==
    /\ Len(orders) < MaxOrders
    /\ orders' = Append(orders,
          [batch |-> batch, lane |-> LaneFor(lane, refs), refs |-> refs, origin |-> origin, status |-> "open", failedBy |-> "none",
           unit |-> [r \in Refs |-> "none"], beside |-> {t \in DOMAIN orders : t > known}])
    /\ plans' = plans \cup {Len(orders) + 1} /\ UNCHANGED failing
    /\ caller' = [caller EXCEPT ![c] = Idle]

\* run_service.spawn up to its lookup
OrderRun(c, lane, refs, origin) ==
    /\ caller[c] = Idle /\ Len(orders) < MaxOrders
    /\ DropInFlight(refs) # {} /\ LaneAccepts(lane, DropInFlight(refs))
    /\ caller' = [caller EXCEPT ![c] = [does |-> "run", lane |-> lane, refs |-> DropInFlight(refs),
                                         origin |-> origin, known |-> Len(orders)]]
    /\ UNCHANGED <<orders, plans, failing>>
FailedRefs(t) == {r \in Refs : orders[t].unit[r] = "failed"}
RetryScope(t) ==
    IF FailedRefs(t) # {} THEN FailedRefs(t)
    ELSE IF orders[t].status = "failed" THEN orders[t].refs ELSE {}
Retryable(t) == Ended(t) /\ RetryScope(t) # {}
OrderRetry(c, t) == Retryable(t) /\ OrderRun(c, "", RetryScope(t), t)
FinishRun(c) ==
    /\ caller[c].does = "run"
    /\ Create(c, FALSE, caller[c].lane, caller[c].refs, caller[c].origin, caller[c].known)

\* an analyzer's order, which coalesces into the open task of its batch key
OpenBatch == {t \in DOMAIN orders : orders[t].batch /\ orders[t].status = "open"}
OrderBatch(c, refs) ==
    /\ caller[c] = Idle /\ refs # {} /\ LaneAccepts("", refs)
    /\ OpenBatch # {} \/ Cardinality({t \in DOMAIN orders : orders[t].batch}) < MaxBatches
    /\ caller' = [caller EXCEPT ![c] =
          IF OpenBatch = {} THEN [does |-> "batch", refs |-> refs, known |-> Len(orders)]
          ELSE LET t == CHOOSE t \in OpenBatch : \A u \in OpenBatch : t <= u
               IN [does |-> "append", task |-> t, refs |-> orders[t].refs \cup refs]]
    /\ UNCHANGED <<orders, plans, failing>>
FinishBatch(c) ==
    /\ caller[c].does = "batch" /\ Cardinality({t \in DOMAIN orders : orders[t].batch}) < MaxBatches
    /\ Create(c, TRUE, "", caller[c].refs, 0, caller[c].known)
\* saves the list it read plus its own, and plans again
AppendRefs(c) ==
    /\ caller[c].does = "append"
    /\ orders' = [orders EXCEPT ![caller[c].task].refs = caller[c].refs]
    /\ plans' = plans \cup {caller[c].task} /\ UNCHANGED failing
    /\ caller' = [caller EXCEPT ![c] = Idle]

-----------------------------------------------------------------------------
Planned(o) == {r \in Refs : o.unit[r] # "none"}
Unplanned(o) == o.refs \ Planned(o)
CancelUnits(o) == [o EXCEPT !.unit = [r \in Refs |-> IF @[r] = "queued" THEN "cancelled" ELSE @[r]]]
Close(o, status, by) == [CancelUnits(o) EXCEPT !.status = status, !.failedBy = IF status = "failed" THEN by ELSE "none"]
\* done with a success or without a problem
Verdict(o) ==
    IF \E r \in Refs : o.unit[r] = "failed" /\ \A q \in Refs : o.unit[q] # "done" THEN "failed" ELSE "done"
\* once nothing is queued or leased
Settled(o) ==
    IF o.status \notin {"open", "in_progress"} \/ \E r \in Refs : o.unit[r] \in {"queued", "leased"} THEN o
    ELSE Close(o, Verdict(o), "units")

Plannable(o) == o.status = "open" /\ (Planned(o) = {} \/ o.batch)
RoomOf(o) == IF QueueMax > Cardinality(Planned(o)) THEN QueueMax - Cardinality(Planned(o)) ELSE 0
\* all that is left, or the first of it, as far as there is room
NewUnits(o) ==
    {new \in SUBSET Unplanned(o) : Cardinality(new) <= RoomOf(o) /\ (new = Unplanned(o) \/ Cardinality(new) = RoomOf(o))}
Queue(o, new) == [o EXCEPT !.unit = [r \in Refs |-> IF r \in new THEN "queued" ELSE @[r]]]
\* with nothing to plan the task is done
PlanUnits(o, new) == IF Planned(Queue(o, new)) = {} THEN Settled(Queue(o, new)) ELSE Queue(o, new)
PlanTask(t) ==
    /\ t \in plans /\ plans' = plans \ {t} /\ UNCHANGED <<failing, caller>>
    /\ \/ ~Plannable(orders[t]) /\ UNCHANGED orders
       \/ Plannable(orders[t]) /\ \E new \in NewUnits(orders[t]) : orders' = [orders EXCEPT ![t] = PlanUnits(@, new)]
Started(o) == [o EXCEPT !.status = IF @ = "open" THEN "in_progress" ELSE @]
\* the targets cannot be resolved: the open run is marked started, then failed
\* unless it was closed in between; its error names no subject
PlanFails(t) ==
    /\ t \in plans /\ Plannable(orders[t]) /\ plans' = plans \ {t} /\ failing' = failing \cup {t}
    /\ orders' = [orders EXCEPT ![t] = Started(@)]
    /\ UNCHANGED caller
FailTask(t) ==
    /\ t \in failing /\ failing' = failing \ {t} /\ UNCHANGED <<plans, caller>>
    /\ orders' = IF orders[t].status = "in_progress" THEN [orders EXCEPT ![t] = Close(@, "failed", "plan")] ELSE orders

Claim(o, r) == Started([o EXCEPT !.unit[r] = "leased"])
ClaimUnit(t, r) ==
    /\ orders[t].unit[r] = "queued" /\ orders' = [orders EXCEPT ![t] = Claim(@, r)]
    /\ UNCHANGED <<plans, failing, caller>>
Report(o, r, works) == Settled([o EXCEPT !.unit[r] = IF works THEN "done" ELSE "failed"])
WorkUnit(t, r, works) ==
    /\ orders[t].unit[r] = "leased" /\ orders' = [orders EXCEPT ![t] = Report(@, r, works)]
    /\ UNCHANGED <<plans, failing, caller>>
\* a request sets the status: what is queued is cancelled with a closed task,
\* a leased unit finishes on its own
StepsFrom == [open |-> {"in_progress", "cancelled"}, in_progress |-> {"done", "failed", "cancelled"},
              done |-> {}, failed |-> {}, cancelled |-> {}]
SetTaskStatus(t, status) ==
    /\ status \in StepsFrom[orders[t].status]
    /\ orders' = [orders EXCEPT ![t] = IF status = "in_progress" THEN Started(@) ELSE Close(@, status, "hand")]
    /\ UNCHANGED <<plans, failing, caller>>

WorkOrders ==
    \/ \E t \in DOMAIN orders : PlanTask(t) \/ PlanFails(t) \/ FailTask(t)
    \/ \E t \in DOMAIN orders, status \in TaskStates : SetTaskStatus(t, status)
    \/ \E t \in DOMAIN orders, r \in Refs : ClaimUnit(t, r) \/ \E works \in BOOLEAN : WorkUnit(t, r, works)
RunsNext ==
    \/ \E c \in Callers, lane \in Lanes, refs \in SUBSET Refs : OrderRun(c, lane, refs, 0)
    \/ \E c \in Callers, t \in DOMAIN orders : OrderRetry(c, t)
    \/ \E c \in Callers : FinishRun(c)
    \/ WorkOrders
BatchNext ==
    \/ \E c \in Callers, refs \in SUBSET Refs : OrderBatch(c, refs)
    \/ \E c \in Callers : FinishBatch(c) \/ AppendRefs(c)
    \/ WorkOrders
OrdersNext == RunsNext \/ BatchNext

OrdersSpec == OrdersInit /\ [][OrdersNext]_spawnVars

-----------------------------------------------------------------------------
\* An open task with no plan message left has a unit for every subject of
\* its list, or as many units as a task may have: what is appended to a
\* batch task while nobody works it is planned. A run is planned in one go.
IsPlanned(o) == Unplanned(o) = {} \/ Cardinality(Planned(o)) >= QueueMax
OpenIsPlanned ==
    \A t \in DOMAIN orders : orders[t].status = "open" /\ (t \notin plans \/ (~orders[t].batch /\ Planned(orders[t]) # {}))
        => IsPlanned(orders[t])
\* Two runs of the same order work one subject at once only when the second
\* was looked up before the first was created: the lookup is not locked.
RunsDisjoint ==
    /\ \A t \in Flying : \A u \in Flying :
          u < t /\ ~orders[u].batch /\ ~orders[t].batch /\ orders[u].refs \cap orders[t].refs # {}
              => u \in orders[t].beside
    /\ \A c \in Callers : caller[c].does = "run" =>
          \A u \in Flying : u <= caller[c].known /\ ~orders[u].batch => orders[u].refs \cap caller[c].refs = {}
\* A retry works no subject that its original finished or still may finish,
\* although a failed run whose errors name nobody is retried over its whole
\* scope and the order is looked up before its task is created. The exception:
\* an original failed over the head of its units, by a request or by a later
\* plan of a batch task, repeats what it finished or is still working.
Lost(o, r) ==
    o.unit[r] = "failed" \/ (o.status \in {"done", "failed", "cancelled"} /\ o.unit[r] \in {"none", "cancelled"})
FailedOver(o) == o.failedBy = "hand" \/ (o.failedBy = "plan" /\ o.batch)
MayRepeat(o, r) == Lost(o, r) \/ FailedOver(o)
RetriesFailures ==
    /\ \A t \in DOMAIN orders : orders[t].origin # 0
          => \A r \in orders[t].refs : MayRepeat(orders[orders[t].origin], r)
    /\ \A c \in Callers : caller[c].does = "run" /\ caller[c].origin # 0
          => \A r \in caller[c].refs : MayRepeat(orders[caller[c].origin], r)
\* A task is open until its first unit is claimed; one that its units failed has
\* nothing done and nothing under way, and a run whose plan failed has no unit
\* at all, though units are claimed and reported while it is being closed.
StatusOfUnits ==
    \A t \in DOMAIN orders :
        /\ t \in failing => orders[t].status # "open"
        /\ \A r \in Refs :
              /\ orders[t].status = "open" => orders[t].unit[r] \in {"none", "queued"}
              /\ orders[t].failedBy = "units" => orders[t].unit[r] \in {"none", "cancelled", "failed"}
              /\ (t \in failing \/ orders[t].failedBy = "plan") /\ ~orders[t].batch => orders[t].unit[r] = "none"

\* Orders are served: what an open task has is planned, runs share no subject
\* they could have known of, and a retry repeats only what its original lost,
\* unless the original was failed over the head of its units.
OrdersServed == OrderTypeOK /\ OpenIsPlanned /\ RunsDisjoint /\ RetriesFailures /\ StatusOfUnits
=============================================================================
