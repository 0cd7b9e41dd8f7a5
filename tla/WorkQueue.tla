------------------------------ MODULE WorkQueue ------------------------------
(***************************************************************************)
(* The work queue of one worker key: tasks are planned into units, units   *)
(* are claimed under a lease, completed, failed, expired and reaped, and    *)
(* each task is closed once its units have settled.                         *)
(*                                                                          *)
(* Processes are the consumers (Celery processes of an internal worker and  *)
(* pulling instances of an external one) and the reaper beat.  One action   *)
(* is one database transaction: row locks make a transaction atomic, and a  *)
(* handler that commits several times is several actions, with pc naming    *)
(* the transaction that comes next.  The one transaction that is split is   *)
(* "complete": it reads the task unlocked, then takes in the results while   *)
(* it holds the unit's row lock.                                            *)
(***************************************************************************)
EXTENDS Integers, FiniteSets, FiniteSetsExt

CONSTANTS
    Task, Unit,            \* the work orders and the units they may be split into
    TaskOf,                \* [Unit -> Task]
    LaneOf,                \* [Task -> Lane], copied to the units by the planner
    Lane, NowLane,         \* Celery lanes; NowLane is the interactive one
    AnyLane,               \* a claim that names no lane
    GapTask,               \* tasks whose scope_spec.mode is "gap"
    Costly,                \* tasks whose runs may reach ENRICHMENT_TASK_MAX_COST_USD
    Internal, External,    \* the worker instances
    Reaper,                \* the beat process
    None,                  \* no unit, no task, no lane
    Size,                  \* subjects per unit (ENRICHMENT_UNIT_SIZE)
    Lease, Backoff,        \* ENRICHMENT_LEASE_S, ENRICHMENT_RETRY_BACKOFF_S, in ticks
    MaxAttempts,           \* ENRICHMENT_MAX_ATTEMPTS
    MaxInFlight,           \* ENRICHMENT_MAX_INFLIGHT_PER_WORKER
    PauseAfter, AutoPause, \* ENRICHMENT_PAUSE_AFTER_FAILURES, ENRICHMENT_AUTO_PAUSE
    ConsumeMax,            \* ENRICHMENT_CONSUME_MAX_UNITS
    PatchTargets,          \* statuses PATCH tasks/{id}/ is used with
    FaultKinds, MaxFaults  \* which faults happen, and the bound on how many

Instance == Internal \cup External
Process == Instance \cup {Reaper}

ASSUME QueueAssumption ==
    /\ TaskOf \in [Unit -> Task]
    /\ LaneOf \in [Task -> Lane]
    /\ NowLane \in Lane /\ AnyLane \notin Lane
    /\ GapTask \subseteq Task /\ Costly \subseteq Task
    /\ Internal \cap External = {} /\ Reaper \notin Instance
    /\ None \notin Unit \cup Task \cup Lane \cup Process
    /\ Size \in Nat \ {0} /\ MaxAttempts \in Nat \ {0} /\ MaxInFlight \in Nat \ {0}
    /\ PauseAfter \in Nat /\ (AutoPause => PauseAfter > 0) /\ ConsumeMax \in Nat \ {0}
    /\ Lease \in Nat /\ Backoff \in Nat /\ MaxFaults \in Nat
    /\ PatchTargets \subseteq {"in_progress", "done", "failed", "cancelled"}
    /\ FaultKinds \subseteq {"process", "message", "intake", "plan"} /\ AutoPause \in BOOLEAN

\* A task is split into finitely many units.
ASSUME UnitsAssumption == \A t \in Task : IsFiniteSet({u \in Unit : TaskOf[u] = t})

VARIABLES
    task,       \* [Task -> status, failed (counts.failed), over (cost at the limit)]
    unit,       \* [Unit -> the WorkUnit row], see UnitRow
    closing,    \* tasks whose status update committed and whose cancel_units did not run yet
    planError,  \* [Task -> how far _fail_task got]
    planMsg,    \* tasks with a plan_task message in Celery
    kicks,      \* lanes with a consume message in Celery
    worker,     \* the Worker row and its instances: paused, resuming, streak
    proc,       \* [Process -> what the process is in the middle of]
    faults      \* faults so far

vars == <<task, unit, closing, planError, planMsg, kicks, worker, proc, faults>>

OpenStatus == {"open", "in_progress"}
ClosedStatus == {"done", "failed", "cancelled"}
TerminalUnit == {"done", "failed", "cancelled"}

\* TASK_STATUS_TRANSITIONS
Transitions == [open |-> {"in_progress", "cancelled"}, in_progress |-> ClosedStatus,
                done |-> {}, failed |-> {}, cancelled |-> {}]

\* A unit row.  ttl = lease_until - now (negative: expired) and wait = not_before - now
\* (0: due) stand for the two timestamps; both are 0 where no code reads them.  A lease
\* token is the number of the lease, unique per unit like the uuid4 of the code; 0 is NULL.
\* taken is a history variable: the tokens whose results reached the intake.
UnitRow == [status : {"absent", "queued", "leased"} \cup TerminalUnit,
            token : 0..MaxAttempts, attempts : 0..MaxAttempts,
            ttl : -1..Lease, wait : Nat,
            holder : Instance \cup {None}, good : 0..Size, taken : SUBSET Nat]

AbsentUnit == [status |-> "absent", token |-> 0, attempts |-> 0, ttl |-> 0, wait |-> 0,
               holder |-> None, good |-> 0, taken |-> {}]

Idle == [pc |-> "idle", unit |-> None, token |-> 0, task |-> None, todo |-> {},
         lane |-> None, handled |-> 0, discard |-> FALSE]

Init ==
    /\ task = [t \in Task |-> [status |-> "open", failed |-> 0, over |-> FALSE]]
    /\ unit = [u \in Unit |-> AbsentUnit]
    /\ closing = {}
    /\ planError = [t \in Task |-> "no"]
    /\ planMsg = Task
    /\ kicks = {}
    /\ worker = [paused |-> FALSE, resuming |-> FALSE, streak |-> [i \in Instance |-> 0]]
    /\ proc = [p \in Process |-> Idle]
    /\ faults = 0

-----------------------------------------------------------------------------
(* Helpers *)

UnitsOf(t) == {u \in Unit : TaskOf[u] = t /\ unit[u].status # "absent"}
Unplanned(t) == {u \in Unit : TaskOf[u] = t /\ unit[u].status = "absent"}
WithStatus(S, s) == {u \in S : unit[u].status = s}
Running(t) == {u \in UnitsOf(t) : unit[u].status \in {"queued", "leased"}}
InLane(u, l) == l = AnyLane \/ LaneOf[TaskOf[u]] = l
Queued(l) == {u \in WithStatus(Unit, "queued") : InLane(u, l)}
Leased(l) == {u \in WithStatus(Unit, "leased") : InLane(u, l)}

\* Deviation: the reaper does not skip locked rows.
NeverLocked(u) == FALSE

\* The row lock "complete" holds between reading the task and its commit.
Locked(u) == \E p \in Process : proc[p].pc = "store" /\ proc[p].unit = u

\* The unit with all of S set to another status.
SetStatus(S, s) == [u \in Unit |-> IF u \in S THEN [unit[u] EXCEPT !.status = s, !.wait = 0] ELSE unit[u]]

\* cancel_units: one UPDATE over the queued units of t.
CancelUnits(t) == unit' = SetStatus(WithStatus(UnitsOf(t), "queued"), "cancelled")

\* The status a task whose units have settled gets (_totals and finish_if_settled).
Succeeded(t) == \E u \in WithStatus(UnitsOf(t), "done") : unit[u].good > 0
Problems(t) == \E u \in UnitsOf(t) :
                  \/ unit[u].status = "failed"
                  \/ unit[u].status = "done" /\ unit[u].good < Size
Verdict(t) == IF Succeeded(t) \/ ~Problems(t) THEN "done" ELSE "failed"

\* p's row, and u's row, become row.
Becomes(p, row) == proc' = [proc EXCEPT ![p] = row]
SetUnit(u, row) == unit' = [unit EXCEPT ![u] = row]
Goto(p, pc) == Becomes(p, [proc[p] EXCEPT !.pc = pc])
SetTask(t, s) == task' = [task EXCEPT ![t].status = s]

-----------------------------------------------------------------------------
(* Planning: unit_planner *)

\* One of the at most MaxFaults faults happens.
Fault(kind) == kind \in FaultKinds /\ faults < MaxFaults /\ faults' = faults + 1

\* Deviation: finish_if_settled waits for queued units only.
FinishUnlessQueued(t) ==
    \/ WithStatus(UnitsOf(t), "queued") # {} /\ UNCHANGED <<task, unit, kicks>>
    \/ WithStatus(UnitsOf(t), "queued") = {} /\ SetTask(t, Verdict(t)) /\ UNCHANGED <<unit, kicks>>

\* finish_if_settled(t), under the task's row lock: nothing while a unit runs; a gap task that
\* has units first asks the planner for new subjects; else the task closes.
FinishIfSettled(t) ==
    \/ /\ Running(t) # {}
       /\ UNCHANGED <<task, unit, kicks>>
    \/ /\ Running(t) = {} /\ t \in GapTask /\ UnitsOf(t) # {}
       /\ \E S \in SUBSET Unplanned(t) \ {{}} : unit' = SetStatus(S, "queued")
       /\ kicks' = kicks \cup {LaneOf[t]}
       /\ UNCHANGED task
    \/ /\ Running(t) = {}
       /\ SetTask(t, Verdict(t))
       /\ UNCHANGED <<unit, kicks>>

\* Deviation: refresh does not look at the task's status.
RefreshUnchecked(t) == FinishIfSettled(t)

\* refresh(t)
Refresh(t) ==
    \/ task[t].status \in OpenStatus /\ FinishIfSettled(t)
    \/ task[t].status \in ClosedStatus /\ UNCHANGED <<task, unit, kicks>>

\* _plan refuses a task that is no longer open or already has units (no batch_key).
Plannable(t) == task[t].status = "open" /\ UnitsOf(t) = {}

\* plan_task: the targets resolve to some subjects (or none: the task closes at once).
PlanTask(t) ==
    /\ t \in planMsg
    /\ planMsg' = planMsg \ {t}
    /\ \/ /\ Plannable(t)
          /\ \E S \in SUBSET Unplanned(t) \ {{}} : unit' = SetStatus(S, "queued")
          /\ kicks' = IF Internal # {} THEN kicks \cup {LaneOf[t]} ELSE kicks
          /\ UNCHANGED task
       \/ /\ Plannable(t)
          /\ FinishIfSettled(t)
       \/ /\ ~Plannable(t)
          /\ UNCHANGED <<task, unit, kicks>>
    /\ UNCHANGED <<closing, planError, worker, proc, faults>>

\* plan_task: resolving the targets raises, the planning transaction is rolled back.
PlanRaises(t) ==
    /\ Fault("plan")
    /\ t \in planMsg /\ Plannable(t)
    /\ planMsg' = planMsg \ {t}
    /\ planError' = [planError EXCEPT ![t] = "raised"]
    /\ UNCHANGED <<task, unit, closing, kicks, worker, proc>>

\* _fail_task, first transaction: open -> in_progress, if the task is still open.
PlanFailMark(t) ==
    /\ planError[t] = "raised"
    /\ \/ /\ task[t].status = "open"
          /\ SetTask(t, "in_progress")
          /\ planError' = [planError EXCEPT ![t] = "marked"]
       \/ /\ task[t].status # "open"
          /\ planError' = [planError EXCEPT ![t] = "no"]
          /\ UNCHANGED task
    /\ UNCHANGED <<unit, closing, planMsg, kicks, worker, proc, faults>>

\* _fail_task, second transaction: in_progress -> failed unless somebody changed the task;
\* the cancelling of its queued units (CloseUnits) is a third.
PlanFailClose(t) ==
    /\ planError[t] = "marked"
    /\ planError' = [planError EXCEPT ![t] = "no"]
    /\ \/ /\ task[t].status = "in_progress"
          /\ SetTask(t, "failed")
          /\ closing' = closing \cup {t}
       \/ /\ task[t].status # "in_progress"
          /\ UNCHANGED <<task, closing>>
    /\ UNCHANGED <<unit, planMsg, kicks, worker, proc, faults>>

-----------------------------------------------------------------------------
(* The operator: PATCH tasks/{id}/ and workers/{key}/resume/ *)

\* transition_status: the conditional update commits, then cancel_units runs (CloseUnits).
PatchTask(t, s) ==
    /\ s \in PatchTargets \cap Transitions[task[t].status]
    /\ SetTask(t, s)
    /\ closing' = IF s \in ClosedStatus THEN closing \cup {t} ELSE closing
    /\ UNCHANGED <<unit, planError, planMsg, kicks, worker, proc, faults>>

CloseUnits(t) ==
    /\ t \in closing
    /\ closing' = closing \ {t}
    /\ CancelUnits(t)
    /\ UNCHANGED <<task, planError, planMsg, kicks, worker, proc, faults>>

\* resume clears the pause, then in a second statement the streaks, and restarts consumers.
ResumeWorker ==
    /\ worker.paused /\ ~worker.resuming
    /\ worker' = [worker EXCEPT !.paused = FALSE, !.resuming = TRUE]
    /\ UNCHANGED <<task, unit, closing, planError, planMsg, kicks, proc, faults>>

\* Deviation: resume clears the pause and leaves the streaks.
ResumeWithoutStreaks ==
    /\ worker.resuming
    /\ worker' = [worker EXCEPT !.resuming = FALSE]
    /\ UNCHANGED <<task, unit, closing, planError, planMsg, kicks, proc, faults>>

ResumeStreaks ==
    /\ worker.resuming
    /\ worker' = [worker EXCEPT !.resuming = FALSE, !.streak = [i \in Instance |-> 0]]
    /\ kicks' = kicks \cup {l \in Lane : Internal # {} /\ Queued(l) # {}}
    /\ UNCHANGED <<task, unit, closing, planError, planMsg, proc, faults>>

-----------------------------------------------------------------------------
(* Claiming: consumer_service.consume, work_queue_service.claim, cost_guard_service *)

\* Open tasks at the cost limit that still have queued units.
OverCost == {t \in Task : /\ task[t].over /\ task[t].status \in OpenStatus
                          /\ WithStatus(UnitsOf(t), "queued") # {}}

\* The tasks still to stop, then back to where stop_over_cost was called.
ToGuard(p, tasks) == IF tasks # {} THEN "guard" ELSE IF p = Reaper THEN "kick" ELSE "claim"

\* A consume message starts a consumer on its lane; an external instance asks when it likes.
StartConsume(p) ==
    /\ proc[p].pc = "idle"
    /\ \/ /\ p \in Internal
          /\ \E l \in kicks : /\ kicks' = kicks \ {l}
                              /\ Becomes(p, [Idle EXCEPT !.pc = "poll", !.lane = l])
       \/ /\ p \in External
          /\ \E l \in Lane \cup {AnyLane} : Becomes(p, [Idle EXCEPT !.pc = "poll", !.lane = l])
          /\ UNCHANGED kicks
    /\ UNCHANGED <<task, unit, closing, planError, planMsg, worker, faults>>

\* stop_over_cost reads the tasks to stop once, then stops them one by one.
ReadOverCost(p) ==
    /\ proc[p].pc = "poll"
    /\ Becomes(p, [proc[p] EXCEPT !.pc = ToGuard(p, OverCost), !.todo = OverCost])
    /\ UNCHANGED <<task, unit, closing, planError, planMsg, kicks, worker, faults>>

\* _stop(t): cancel the queued units; when there were any, refresh(t) follows.
StopOverCost(p) ==
    /\ proc[p].pc = "guard"
    /\ \E t \in proc[p].todo :
          LET rest == proc[p].todo \ {t}
          IN  /\ CancelUnits(t)
              /\ \/ /\ WithStatus(UnitsOf(t), "queued") # {}
                    /\ Becomes(p, [proc[p] EXCEPT !.pc = "settle", !.todo = rest, !.task = t])
                 \/ /\ WithStatus(UnitsOf(t), "queued") = {}
                    /\ Becomes(p, [proc[p] EXCEPT !.pc = ToGuard(p, rest), !.todo = rest])
    /\ UNCHANGED <<task, closing, planError, planMsg, kicks, worker, faults>>

SettleStopped(p) ==
    /\ proc[p].pc = "settle"
    /\ Refresh(proc[p].task)
    /\ Becomes(p, [proc[p] EXCEPT !.pc = ToGuard(p, proc[p].todo), !.task = None])
    /\ UNCHANGED <<closing, planError, planMsg, worker, faults>>

\* _next_unit: queued, due, in the lane, its task neither closed nor at the cost limit;
\* interactive units first.  Ties by created_at are left open: rows locked by others are skipped.
Eligible(l) == {u \in Queued(l) : /\ unit[u].wait = 0 /\ ~task[TaskOf[u]].over
                                  /\ task[TaskOf[u]].status \in OpenStatus}
NextUnits(l) == IF Eligible(l) \cap Queued(NowLane) # {} THEN Eligible(l) \cap Queued(NowLane) ELSE Eligible(l)

\* Deviation: one lease above the cap.
ClaimableOffByOne(l) == ~worker.paused /\ Cardinality(Leased(l)) <= MaxInFlight

\* _claimable: the worker row is locked, so pause and in-flight cap hold until the commit.
Claimable(l) == ~worker.paused /\ Cardinality(Leased(l)) < MaxInFlight

\* Deviation: attempts are not counted when the lease is granted.
LeasedRowUncounted(u, p) == [unit[u] EXCEPT !.status = "leased", !.token = unit[u].attempts + 1,
                                            !.ttl = Lease, !.wait = 0, !.holder = p]

\* _lease
LeasedRow(u, p) == [unit[u] EXCEPT !.status = "leased", !.token = unit[u].attempts + 1,
                                   !.attempts = unit[u].attempts + 1,
                                   !.ttl = Lease, !.wait = 0, !.holder = p]

\* What the consume loop of an internal worker remembers from unit to unit.
Loop(p) == IF p \in Internal THEN [lane |-> proc[p].lane, handled |-> proc[p].handled]
                             ELSE [lane |-> None, handled |-> 0]

Claim(p) ==
    /\ proc[p].pc = "claim"
    /\ \/ /\ Claimable(proc[p].lane)
          /\ \E u \in NextUnits(proc[p].lane) :
                /\ SetUnit(u, LeasedRow(u, p))
                /\ Becomes(p, [Idle EXCEPT !.pc = "start", !.unit = u, !.task = TaskOf[u],
                                           !.token = unit[u].attempts + 1, !.lane = Loop(p).lane,
                                           !.handled = Loop(p).handled + 1])
       \/ /\ ~Claimable(proc[p].lane) \/ NextUnits(proc[p].lane) = {}
          /\ Goto(p, "end")
          /\ UNCHANGED unit
    /\ UNCHANGED <<task, closing, planError, planMsg, kicks, worker, faults>>

\* mark_started, after the claim's commit: only an open task moves.
MarkStarted(p) ==
    /\ proc[p].pc = "start"
    /\ Goto(p, "work")
    /\ task' = IF task[proc[p].task].status = "open"
               THEN [task EXCEPT ![proc[p].task].status = "in_progress"] ELSE task
    /\ UNCHANGED <<unit, closing, planError, planMsg, kicks, worker, faults>>

\* The consumer ends; it re-queues itself when it handled something and its lane has more.
EndConsume(p) ==
    /\ proc[p].pc = "end"
    /\ Becomes(p, Idle)
    /\ kicks' = IF p \in Internal /\ proc[p].handled > 0 /\ Queued(proc[p].lane) # {}
                THEN kicks \cup {proc[p].lane} ELSE kicks
    /\ UNCHANGED <<task, unit, closing, planError, planMsg, worker, faults>>

-----------------------------------------------------------------------------
(* Working: heartbeat, complete, fail *)

Row(p) == unit[proc[p].unit]
HoldsToken(p) == Row(p).token = proc[p].token
\* Deviation: the token is not compared.
HoldsAnyLease(p) == Row(p).status = "leased"

HoldsLease(p) == HoldsToken(p) /\ Row(p).status = "leased"

\* Drop the unit; an internal consumer goes on with its loop at pc.
Leave(p, pc) ==
    Becomes(p, [Idle EXCEPT !.pc = IF p \in Internal THEN pc ELSE "idle",
                            !.lane = Loop(p).lane, !.handled = Loop(p).handled])

\* After a unit: an internal consumer claims again until ConsumeMax, an external instance is
\* done, or missed the answer and repeats its call.
NextUnit(p) ==
    \/ Leave(p, IF proc[p].handled < ConsumeMax THEN "poll" ELSE "end")
    \/ p \in External /\ Goto(p, "work")

\* heartbeat: extends a lease that is still held and not expired; else the worker stops.
Heartbeat(p) ==
    /\ proc[p].pc = "work"
    /\ \/ /\ HoldsLease(p) /\ Row(p).ttl >= 0
          /\ SetUnit(proc[p].unit, [Row(p) EXCEPT !.ttl = Lease])
          /\ UNCHANGED proc
       \/ /\ ~HoldsLease(p) \/ Row(p).ttl < 0
          /\ Leave(p, "end")
          /\ UNCHANGED unit
    /\ UNCHANGED <<task, closing, planError, planMsg, kicks, worker, faults>>

\* charge: a paid call of the running unit brings the task to its cost limit.
Charge(p) ==
    /\ proc[p].pc = "work" /\ p \in Internal /\ proc[p].task \in Costly
    /\ task' = [task EXCEPT ![proc[p].task].over = TRUE]
    /\ UNCHANGED <<unit, closing, planError, planMsg, kicks, worker, proc, faults>>

\* complete, up to the read of the task: a done unit answers its stored outcome, any other
\* unit that is not leased under this token answers LeaseLost.
Complete(p) ==
    /\ proc[p].pc = "work"
    /\ \/ /\ HoldsLease(p)
          /\ Becomes(p, [proc[p] EXCEPT !.pc = "store", !.discard = task[proc[p].task].status = "cancelled"])
       \/ /\ HoldsToken(p) /\ Row(p).status = "done"
          /\ NextUnit(p)
       \/ /\ ~HoldsToken(p) \/ Row(p).status \notin {"leased", "done"}
          /\ Leave(p, "end")
    /\ UNCHANGED <<task, unit, closing, planError, planMsg, kicks, worker, faults>>

\* complete, the rest of its transaction (_settle): discard, or take in the results; the
\* subjects that failed are counted in the task and the instance's streak ends.
StoreResults(p) ==
    /\ proc[p].pc = "store"
    /\ \/ /\ proc[p].discard
          /\ SetUnit(proc[p].unit, [Row(p) EXCEPT !.status = "cancelled", !.ttl = 0])
          /\ UNCHANGED <<task, worker>>
       \/ /\ ~proc[p].discard
          /\ \E good \in 0..Size :
                /\ SetUnit(proc[p].unit, [Row(p) EXCEPT !.status = "done", !.ttl = 0, !.good = good,
                                                        !.taken = @ \cup {proc[p].token}])
                /\ task' = [task EXCEPT ![proc[p].task].failed = @ + Size - good]
          /\ worker' = [worker EXCEPT !.streak[Row(p).holder] = 0]
    /\ Goto(p, "refresh")
    /\ UNCHANGED <<closing, planError, planMsg, kicks, faults>>

\* The intake raises outside the per-subject savepoints: rolled back, the worker still holds the lease.
StoreAborts(p) ==
    /\ Fault("intake")
    /\ proc[p].pc = "store"
    /\ Goto(p, "work")
    /\ UNCHANGED <<task, unit, closing, planError, planMsg, kicks, worker>>

\* Deviations: the token survives the requeue; one attempt too many; a requeue counts as a failure.
RequeueKeepsToken(u, retryable) ==
    IF retryable /\ unit[u].attempts < MaxAttempts
    THEN SetUnit(u, [unit[u] EXCEPT !.status = "queued", !.holder = None, !.ttl = 0,
                                    !.wait = Backoff * unit[u].attempts]) /\ UNCHANGED task
    ELSE SetUnit(u, [unit[u] EXCEPT !.status = "failed", !.ttl = 0])
         /\ task' = [task EXCEPT ![TaskOf[u]].failed = @ + Size]

RequeueOffByOne(u, retryable) ==
    IF retryable /\ unit[u].attempts <= MaxAttempts
    THEN SetUnit(u, [unit[u] EXCEPT !.status = "queued", !.token = 0, !.holder = None, !.ttl = 0,
                                    !.wait = Backoff * unit[u].attempts]) /\ UNCHANGED task
    ELSE SetUnit(u, [unit[u] EXCEPT !.status = "failed", !.ttl = 0])
         /\ task' = [task EXCEPT ![TaskOf[u]].failed = @ + Size]

RequeueCounts(u, retryable) ==
    /\ SetUnit(u, [unit[u] EXCEPT !.status = IF retryable /\ unit[u].attempts < MaxAttempts THEN "queued" ELSE "failed",
                                  !.token = 0, !.holder = None, !.ttl = 0])
    /\ task' = [task EXCEPT ![TaskOf[u]].failed = @ + Size]

\* requeue_or_fail of a leased unit: back in the queue after a backoff, without token and holder,
\* or failed for good with its subjects counted in the task (record_unit_failure).
RequeueOrFail(u, retryable) ==
    IF retryable /\ unit[u].attempts < MaxAttempts
    THEN /\ SetUnit(u, [unit[u] EXCEPT !.status = "queued", !.token = 0, !.holder = None, !.ttl = 0,
                                       !.wait = Backoff * unit[u].attempts])
         /\ UNCHANGED task
    ELSE /\ SetUnit(u, [unit[u] EXCEPT !.status = "failed", !.ttl = 0])
         /\ task' = [task EXCEPT ![TaskOf[u]].failed = @ + Size]

\* _count_failure on the instance that held the unit, and after_failure: a budget code, or
\* PauseAfter failures in a row, pauses the worker.  Failures beyond PauseAfter change nothing: the
\* count stops there.
CountFailure(i, budget) ==
    LET streak == IF worker.streak[i] < PauseAfter THEN worker.streak[i] + 1 ELSE PauseAfter
    IN  worker' = [worker EXCEPT !.streak[i] = streak,
                                 !.paused = worker.paused \/ (AutoPause /\ (budget \/ streak = PauseAfter))]

\* fail; the consumer always says retryable.  A LeaseLost from here ends a consumer unhandled.
Fail(p) ==
    /\ proc[p].pc = "work"
    /\ \/ /\ HoldsLease(p)
          /\ \E retryable, budget \in BOOLEAN :
                /\ p \in Internal => retryable
                /\ RequeueOrFail(proc[p].unit, retryable)
                /\ CountFailure(Row(p).holder, budget)
          /\ Goto(p, "refresh")
       \/ /\ HoldsToken(p) /\ Row(p).status = "failed"
          /\ NextUnit(p)
          /\ UNCHANGED <<task, unit, worker>>
       \/ /\ ~HoldsToken(p) \/ Row(p).status \notin {"leased", "failed"}
          /\ Becomes(p, Idle)
          /\ UNCHANGED <<task, unit, worker>>
    /\ UNCHANGED <<closing, planError, planMsg, kicks, faults>>

\* refresh(task), the transaction after the commit of complete or fail.
RefreshAfter(p) ==
    /\ proc[p].pc = "refresh"
    /\ Refresh(proc[p].task)
    /\ NextUnit(p)
    /\ UNCHANGED <<closing, planError, planMsg, worker, faults>>

-----------------------------------------------------------------------------
(* The reaper beat: queue_reaper.reap *)

\* Deviation: only leases of units that may be retried are reaped.
ExpiredRetryable(u) == unit[u].status = "leased" /\ unit[u].ttl < 0 /\ unit[u].attempts < MaxAttempts

Expired(u) == unit[u].status = "leased" /\ unit[u].ttl < 0

\* reap starts with the list of expired leases; stop_over_cost follows when it is worked off.
ToExpire(units) == IF units = {} THEN "poll" ELSE "expire"

ReadExpired ==
    /\ proc[Reaper].pc = "idle"
    /\ LET units == {u \in Unit : Expired(u)}
       IN  Becomes(Reaper, [proc[Reaper] EXCEPT !.pc = ToExpire(units), !.todo = units])
    /\ UNCHANGED <<task, unit, closing, planError, planMsg, kicks, worker, faults>>

\* One unit of the list: skipped when locked, re-checked, requeued or failed; refresh follows.
ExpireLease ==
    /\ proc[Reaper].pc = "expire"
    /\ \E u \in proc[Reaper].todo :
          LET rest == proc[Reaper].todo \ {u}
          IN  \/ /\ Expired(u) /\ ~Locked(u)
                 /\ RequeueOrFail(u, TRUE)
                 /\ Becomes(Reaper, [proc[Reaper] EXCEPT !.pc = "expired", !.task = TaskOf[u], !.todo = rest])
              \/ /\ ~Expired(u) \/ Locked(u)
                 /\ Becomes(Reaper, [proc[Reaper] EXCEPT !.pc = ToExpire(rest), !.todo = rest])
                 /\ UNCHANGED <<task, unit>>
    /\ UNCHANGED <<closing, planError, planMsg, kicks, worker, faults>>

RefreshExpired ==
    /\ proc[Reaper].pc = "expired"
    /\ Refresh(proc[Reaper].task)
    /\ Becomes(Reaper, [proc[Reaper] EXCEPT !.pc = ToExpire(proc[Reaper].todo), !.task = None])
    /\ UNCHANGED <<closing, planError, planMsg, worker, faults>>

\* Deviations: the beat re-sends only one of the two kinds of message.
KickOf(lanes, tasks) ==
    /\ proc[Reaper].pc = "kick"
    /\ Becomes(Reaper, Idle)
    /\ kicks' = kicks \cup lanes /\ planMsg' = planMsg \cup tasks
    /\ UNCHANGED <<task, unit, closing, planError, worker, faults>>
KickConsumersOnly == KickOf({l \in Lane : Internal # {} /\ ~worker.paused /\ Queued(l) # {} /\ Leased(l) = {}}, {})
KickUnplannedOnly == KickOf({}, {t \in Task : Plannable(t)})

\* _kick_consumers: lanes with queued and without leased units, unless the worker is paused;
\* _kick_unplanned: open tasks without units (their age is abstracted).
Kick ==
    /\ proc[Reaper].pc = "kick"
    /\ Becomes(Reaper, Idle)
    /\ kicks' = kicks \cup {l \in Lane : /\ Internal # {} /\ ~worker.paused
                                         /\ Queued(l) # {} /\ Leased(l) = {}}
    /\ planMsg' = planMsg \cup {t \in Task : Plannable(t)}
    /\ UNCHANGED <<task, unit, closing, planError, worker, faults>>

-----------------------------------------------------------------------------
(* Time and faults *)

\* One tick: leases run down to expired, backoffs run down to due.
Tick ==
    /\ unit' = [u \in Unit |->
                  [unit[u] EXCEPT !.ttl = IF unit[u].status = "leased" /\ @ >= 0 THEN @ - 1 ELSE @,
                                  !.wait = IF unit[u].status = "queued" /\ @ > 0 THEN @ - 1 ELSE @]]
    /\ unit' # unit
    /\ UNCHANGED <<task, closing, planError, planMsg, kicks, worker, proc, faults>>

\* A process dies between two transactions (a transaction in flight is rolled back).  An external
\* worker whose call died on the server still has its token and can repeat the call.
Crash(p) ==
    /\ Fault("process")
    /\ proc[p].pc # "idle"
    /\ \/ Becomes(p, Idle)
       \/ /\ p \in External /\ proc[p].pc \in {"store", "refresh"}
          /\ Goto(p, "work")
    /\ UNCHANGED <<task, unit, closing, planError, planMsg, kicks, worker>>

\* The planner dies inside _fail_task, or a request dies before cancel_units.
CrashRequest(t) ==
    /\ Fault("process")
    /\ planError[t] # "no" \/ t \in closing
    /\ planError' = [planError EXCEPT ![t] = "no"]
    /\ closing' = closing \ {t}
    /\ UNCHANGED <<task, unit, planMsg, kicks, worker, proc>>

\* Celery loses a message.
LoseMessage ==
    /\ Fault("message")
    /\ \/ \E t \in planMsg : planMsg' = planMsg \ {t} /\ UNCHANGED kicks
       \/ \E l \in kicks : kicks' = kicks \ {l} /\ UNCHANGED planMsg
    /\ UNCHANGED <<task, unit, closing, planError, worker, proc>>

-----------------------------------------------------------------------------

PlanStep(t) == PlanTask(t) \/ PlanRaises(t)
PlanFailStep(t) == PlanFailMark(t) \/ PlanFailClose(t)
GuardStep(p) == ReadOverCost(p) \/ StopOverCost(p) \/ SettleStopped(p)
Report(p) == Complete(p) \/ Fail(p)
ConsumeStep(p) == GuardStep(p) \/ Claim(p) \/ MarkStarted(p) \/ StoreResults(p) \/ RefreshAfter(p) \/ EndConsume(p)
ReapStep == ReadExpired \/ ExpireLease \/ RefreshExpired \/ GuardStep(Reaper) \/ Kick

Next ==
    \/ \E t \in Task : PlanStep(t) \/ PlanFailStep(t) \/ CloseUnits(t) \/ CrashRequest(t)
    \/ \E t \in Task, s \in PatchTargets : PatchTask(t, s)
    \/ ResumeWorker \/ ResumeStreaks
    \/ \E p \in Instance : StartConsume(p) \/ ConsumeStep(p) \/ Report(p) \/ Heartbeat(p) \/ Charge(p) \/ StoreAborts(p)
    \/ ReapStep
    \/ \E p \in Process : Crash(p)
    \/ Tick \/ LoseMessage

Spec == Init /\ [][Next]_vars

\* Celery delivers the messages it did not lose, a started handler goes on unless it crashes, a
\* worker reports its unit sooner or later, the beat fires and the clock runs.  Nothing obliges
\* the operator, a paid call, a heartbeat, an external instance's next claim or a fault.
Fairness ==
    /\ \A t \in Task : WF_vars(PlanStep(t)) /\ WF_vars(PlanFailStep(t)) /\ WF_vars(CloseUnits(t))
    /\ \A p \in Instance : WF_vars(ConsumeStep(p)) /\ WF_vars(Report(p))
    /\ \A p \in Internal : WF_vars(StartConsume(p))
    /\ WF_vars(ReapStep) /\ WF_vars(Tick) /\ WF_vars(ResumeStreaks)

FairSpec == Spec /\ Fairness

-----------------------------------------------------------------------------
(* Properties *)

InstancePc == {"idle", "poll", "guard", "settle", "claim", "start", "work", "store", "refresh", "end"}
ReaperPc == {"idle", "expire", "expired", "poll", "guard", "settle", "kick"}

\* p has a token it may report under.
Carries(p) == proc[p].pc \in {"start", "work", "store", "refresh"}

ProcRow == [pc : InstancePc \cup ReaperPc, unit : Unit \cup {None}, token : 0..MaxAttempts,
            task : Task \cup {None}, todo : SUBSET (Task \cup Unit),
            lane : Lane \cup {AnyLane, None}, handled : Nat, discard : BOOLEAN]

\* The type of every variable.
TypeOK ==
    /\ task \in [Task -> [status : OpenStatus \cup ClosedStatus, failed : Nat, over : BOOLEAN]]
    /\ unit \in [Unit -> UnitRow]
    /\ closing \subseteq Task
    /\ planError \in [Task -> {"no", "raised", "marked"}]
    /\ planMsg \subseteq Task
    /\ kicks \subseteq Lane
    /\ worker \in [paused : BOOLEAN, resuming : BOOLEAN, streak : [Instance -> 0..PauseAfter]]
    /\ proc \in [Process -> ProcRow]
    /\ faults \in 0..MaxFaults

\* Two instances never hold the same lease, however late a stalled one wakes up: whoever
\* still carries a token after its lease was reaped and granted again carries an old one.
NoSharedLease ==
    \A p, q \in Instance :
        (Carries(p) /\ Carries(q) /\ proc[p].unit = proc[q].unit /\ proc[p].token = proc[q].token) => p = q

\* Results of a unit are taken in at most once, from the lease the row names, and exactly the
\* done units have been taken in: no failed, requeued or cancelled unit has left results behind.
ResultsCountOnce ==
    \A u \in Unit : unit[u].taken = IF unit[u].status = "done" THEN {unit[u].token} ELSE {}

\* What every unit row satisfies: a token means a lease and the latest one, and a unit that may
\* still be handed out has attempts left.
UnitInv ==
    \A u \in Unit :
        /\ unit[u].status \in {"absent", "queued"} => unit[u].token = 0 /\ unit[u].attempts < MaxAttempts
        /\ unit[u].status = "leased" => unit[u].token = unit[u].attempts /\ unit[u].token > 0
        /\ unit[u].token <= unit[u].attempts

\* What a process is in the middle of: a carried token was issued for the unit carried, the
\* transaction that stores results holds the lease it checked, lists hold what they are lists of.
ProcRowInv(p) ==
    /\ proc[p].pc \in IF p = Reaper THEN ReaperPc ELSE InstancePc
    /\ Carries(p) => /\ proc[p].unit \in Unit /\ proc[p].task = TaskOf[proc[p].unit]
                     /\ proc[p].token \in 1..unit[proc[p].unit].attempts
    /\ proc[p].pc = "store" => HoldsLease(p)
    /\ p \in Internal /\ proc[p].pc # "idle" => proc[p].lane \in Lane
    /\ proc[p].pc \in {"settle", "expired"} => proc[p].task \in Task
    /\ proc[p].pc \in {"guard", "settle"} => proc[p].todo \subseteq Task
    /\ proc[p].pc \in {"expire", "expired"} => proc[p].todo \subseteq Unit
ProcInv == \A p \in Process : ProcRowInv(p)

\* The inductive invariant behind NoSharedLease and ResultsCountOnce.
LeaseInv == TypeOK /\ UnitInv /\ ProcInv /\ NoSharedLease /\ ResultsCountOnce

\* The failed subjects of a unit: all of a unit that failed for good, the rest of a done unit.
FailedIn(u) == CASE unit[u].status = "failed" -> Size
                 [] unit[u].status = "done" -> Size - unit[u].good
                 [] OTHER -> 0

\* counts.failed of a task is the number of the failed subjects of its units, each counted
\* once, whatever was retried, expired or repeated.
FailedCountExact ==
    \A t \in Task :
        task[t].failed = SumFunctionOnSet([u \in Unit |-> FailedIn(u)], {u \in Unit : TaskOf[u] = t})

\* No lane ever holds more leases than the in-flight cap, although claims of one lane, claims of
\* any lane and late requeues interleave.
LaneInFlightCap == \A l \in Lane : Cardinality(Leased(l)) <= MaxInFlight

\* An instance that failed PauseAfter units in a row has paused the worker, also when a resume
\* is clearing the pause and the streaks in two statements.
PauseSticks == AutoPause => \A i \in Instance : worker.streak[i] = PauseAfter => worker.paused \/ worker.resuming

\* Nothing that was settled starts again: a unit that is done, failed or cancelled keeps its
\* status and a closed task stays closed as it is, whatever late calls and stale readers do.
SettledStays ==
    [][/\ \A u \in Unit : unit[u].status \in TerminalUnit => unit'[u].status = unit[u].status
       /\ \A t \in Task : task[t].status \in ClosedStatus => task'[t].status = task[t].status]_vars

\* The queue closes a task by itself (not by an operator or the failing planner, which pass
\* through closing) only when none of its units is queued or leased, and as failed only when a
\* subject failed and none succeeded.
SettlesWhenQuiet ==
    [][\A t \in Task :
          (task[t].status \in OpenStatus /\ task'[t].status \in ClosedStatus /\ t \notin closing') =>
              /\ Running(t) = {}
              /\ task'[t].status = "failed" => task[t].failed > 0 /\ ~Succeeded(t)]_vars

\* Every task is closed in the end, unless its worker gets paused.
TasksSettle == \A t \in Task : task[t].status \in OpenStatus ~> task[t].status \in ClosedStatus \/ worker.paused

\* Every lease ends: its holder reports, or it expires and the reaper takes the unit back, also
\* when the holder died.
LeasesEnd == \A u \in Unit : unit[u].status = "leased" ~> unit[u].status # "leased"

\* Queued work of an open task is taken up (or cancelled by the cost guard) unless its worker is
\* paused, also when consume messages are lost or consumers die.
QueuedWorkMoves ==
    \A u \in Unit : (unit[u].status = "queued" /\ task[TaskOf[u]].status \in OpenStatus)
                       ~> (unit[u].status # "queued" \/ task[TaskOf[u]].status \in ClosedStatus \/ worker.paused)

\* The phase of UnitLease each unit status stands for.
PhaseOf == [absent |-> "absent", queued |-> "waiting", leased |-> "held", done |-> "taken",
            failed |-> "dropped", cancelled |-> "dropped"]

\* The abstract promise about each unit, and what of a unit's row it is about.
UnitLease == INSTANCE UnitLease WITH
    phase <- [u \in Unit |-> PhaseOf[unit[u].status]],
    lease <- [u \in Unit |-> unit[u].attempts],
    delivered <- [u \in Unit |-> unit[u].taken]

\* The work queue implements UnitLease.
UnitLeaseSpec == UnitLease!Spec

=============================================================================
