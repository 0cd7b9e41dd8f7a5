------------------------------ MODULE Workflow ------------------------------
(* One workflow run: its steps, the task of every attempt at a step, and    *)
(* the proposal an attempt produces. The run's row lock makes each of start,*)
(* task hook, approval, regeneration and cancel one step; what works        *)
(* outside of that lock (claims, results, edits, rejections, an operator's  *)
(* accept that loaded its proposal long ago) goes on in between.            *)
EXTENDS Naturals, FiniteSets

CONSTANTS Steps,       \* the steps of the definition, frozen at start
          Needs,       \* Steps -> the steps whose output a step takes
          AutoGates,   \* the steps behind an "auto" gate
          Documents,   \* the steps that write to the target module
          WorkerOf,    \* Steps -> the worker key of the step's template
          Attempts,    \* how often one step may be spawned (bound)
          MaxTasks,    \* how many tasks the run may spawn in all (bound)
          Reviewers    \* requests that accept a proposal

ASSUME WorkflowAssumption ==
    /\ IsFiniteSet(Steps) /\ Needs \in [Steps -> SUBSET Steps]
    /\ AutoGates \subseteq Steps /\ Documents \subseteq Steps /\ Attempts \in Nat \ {0} /\ MaxTasks \in Nat
\* a definition names earlier steps only
ASSUME NeedsEarlier ==
    \E rank \in [Steps -> 1..Cardinality(Steps)] : \A s \in Steps : \A n \in Needs[s] : rank[n] < rank[s]

VARIABLES run,      \* the status of the run, "none" before it is started
          step,     \* Steps -> [status, task, proposal]: attempts, 0 for none
          task,     \* Steps -> attempt -> [status, unit, inputs]
          prop,     \* Steps -> attempt -> [status, value]
          accept    \* Reviewers -> the proposal loaded, with its status then

vars == <<run, step, task, prop, accept>>

Closed == {"done", "cancelled"}
Reviewable == {"review", "failed"}
InFlight == {"open", "in_progress"}
Values == {"draft", "edited"}
NoTask == [status |-> "absent", unit |-> "none", inputs |-> <<>>]
NoProposal == [status |-> "absent", value |-> "draft"]
NoAccept == [step |-> "none", attempt |-> 0, status |-> "absent"]

StepRow == [status : {"waiting", "running", "approved"} \cup Reviewable, task : 0..Attempts, proposal : 0..Attempts]
TaskRow == [status : {"absent", "done", "failed", "cancelled"} \cup InFlight,
            unit : {"none", "queued", "leased", "storing", "done", "failed", "cancelled"},
            inputs : {<<>>} \cup UNION {[Needs[s] -> Values \cup {"none"}] : s \in Steps}]
ProposalRow == [status : {"absent", "pending", "drifted", "applied", "reverted", "rejected", "superseded"},
                value : Values]
AcceptRow == [step : Steps, attempt : 1..Attempts, status : {"pending", "drifted"}]
TypeOK ==
    /\ run \in {"none", "running", "waiting", "failed"} \cup Closed
    /\ step \in [Steps -> StepRow]
    /\ task \in [Steps -> [1..Attempts -> TaskRow]]
    /\ prop \in [Steps -> [1..Attempts -> ProposalRow]]
    /\ accept \in [Reviewers -> {NoAccept} \cup AcceptRow]

InitialState == [s \in Steps |-> [status |-> "waiting", task |-> 0, proposal |-> 0]]
Init ==
    /\ run = "none" /\ step = InitialState
    /\ task = [s \in Steps |-> [a \in 1..Attempts |-> NoTask]]
    /\ prop = [s \in Steps |-> [a \in 1..Attempts |-> NoProposal]]
    /\ accept = [r \in Reviewers |-> NoAccept]

-----------------------------------------------------------------------------
(* workflow_steps                                                           *)
\* Deviation: one approved input is enough
ReadyOnAny(st) ==
    {s \in Steps : /\ st[s].status = "waiting"
                   /\ Needs[s] # {} => \E n \in Needs[s] : st[n].status = "approved"}
Ready(st) ==
    {s \in Steps : st[s].status = "waiting" /\ \A n \in Needs[s] : st[n].status = "approved"}
\* the value of each needed step's output, as the proposals have it now
Inputs(s, st, pr) == [n \in Needs[s] |-> IF st[n].proposal = 0 THEN "none" ELSE pr[n][st[n].proposal].value]
\* the task of the next attempt at s, its step marked running
NewTask(s, st, pr) == [status |-> "open", unit |-> "queued", inputs |-> Inputs(s, st, pr)]
Spawned == {t \in Steps \X (1..Attempts) : task[t[1]][t[2]].status # "absent"}
HasAttempts(S) ==
    (\A s \in S : step[s].task < Attempts) /\ Cardinality(Spawned) + Cardinality(S) <= MaxTasks
SpawnedTasks(S, st, pr) ==
    [s \in Steps |-> IF s \in S THEN [task[s] EXCEPT ![st[s].task + 1] = NewTask(s, st, pr)] ELSE task[s]]
SpawnedSteps(S, st) ==
    [s \in Steps |-> IF s \in S THEN [status |-> "running", task |-> st[s].task + 1, proposal |-> 0] ELSE st[s]]
\* Deviation: a run with waiting steps counts as running
DeriveStatusWaitingFirst(now, st) ==
    IF now = "cancelled" THEN now
    ELSE IF \A s \in Steps : st[s].status = "approved" THEN "done"
    ELSE IF \E s \in Steps : st[s].status \in {"running", "waiting"} THEN "running"
    ELSE IF \E s \in Steps : st[s].status = "failed" THEN "failed" ELSE "waiting"
DeriveStatus(now, st) ==
    LET some(status) == \E s \in Steps : st[s].status = status
    IN CASE now = "cancelled" -> now
         [] now # "cancelled" /\ (\A s \in Steps : st[s].status = "approved") -> "done"
         [] OTHER -> IF some("running") THEN "running" ELSE IF some("failed") THEN "failed"
                     ELSE IF some("review") THEN "waiting" ELSE now
\* _spawn_ready and _save on the steps st and proposals pr
SpawnReady(st, pr) ==
    /\ task' = SpawnedTasks(Ready(st), st, pr)
    /\ step' = SpawnedSteps(Ready(st), st)
    /\ run' = DeriveStatus(run, step')

-----------------------------------------------------------------------------
(* the operator's requests on the run                                       *)
Start == run = "none" /\ SpawnReady(step, prop) /\ UNCHANGED <<prop, accept>>

\* the run is locked and still open
Locked == run \notin Closed \cup {"none"}
\* Deviation: a running step may be regenerated whatever its task does
RegenerableRunning(s) == step[s].status \in Reviewable \cup {"running"}
\* Deviation: a step left on a closed task is not regenerated
RegenerableAtRest(s) == step[s].status \in Reviewable
\* Deviation: an approved step may be regenerated
RegenerableApproved(s) == step[s].status \in Reviewable \cup {"approved"}
Regenerable(s) ==
    IF step[s].status = "running" THEN task[s][step[s].task].status \in {"done", "failed", "cancelled"}
    ELSE step[s].status \in Reviewable
\* only a pending proposal is retired; a drifted one stays, without a step
Superseded(pr, s, a) ==
    IF a # 0 /\ pr[s][a].status = "pending" THEN [pr EXCEPT ![s][a].status = "superseded"] ELSE pr
Regenerate(s) ==
    /\ Locked /\ Regenerable(s) /\ HasAttempts({s})
    /\ prop' = Superseded(prop, s, step[s].proposal)
    /\ task' = SpawnedTasks({s}, step, prop)
    /\ step' = SpawnedSteps({s}, step)
    /\ run' = DeriveStatus(run, step')
    /\ UNCHANGED accept

\* the task is read and then updated if it still has that status: a claim in
\* between (claimed) makes the update miss, which is taken for "finished"
CancelTask(t, claimed) ==
    IF t.status \notin InFlight THEN t
    ELSE IF claimed /\ t.unit = "queued" THEN [t EXCEPT !.status = "in_progress", !.unit = "leased"]
    ELSE [t EXCEPT !.status = "cancelled", !.unit = IF @ = "queued" THEN "cancelled" ELSE @]
\* cancel and the bulk reject of the run's pending proposals
Cancel(claimed) ==
    /\ Locked
    /\ task' = [s \in Steps |-> [a \in 1..Attempts |->
                  IF step[s].status = "running" /\ step[s].task = a
                  THEN CancelTask(task[s][a], s \in claimed /\ task[s][a].status = "open") ELSE task[s][a]]]
    /\ prop' = [s \in Steps |-> [a \in 1..Attempts |->
                  IF prop[s][a].status = "pending" THEN [prop[s][a] EXCEPT !.status = "rejected"] ELSE prop[s][a]]]
    /\ run' = "cancelled"
    /\ UNCHANGED <<step, accept>>

-----------------------------------------------------------------------------
(* the queue below: an attempt's task has one unit                          *)
SetUnit(s, a, unit) == task' = [task EXCEPT ![s][a].unit = unit]
Claim(s, a) ==
    /\ task[s][a].status \in InFlight /\ task[s][a].unit = "queued"
    /\ task' = [task EXCEPT ![s][a].status = "in_progress", ![s][a].unit = "leased"]
    /\ UNCHANGED <<run, step, prop, accept>>
\* a requeue is the same unit, leased again; this one has failed for good
UnitFails(s, a) ==
    /\ task[s][a].unit = "leased" /\ SetUnit(s, a, "failed")
    /\ UNCHANGED <<run, step, prop, accept>>
EditedPending(s) == \E a \in 1..Attempts : prop[s][a] = [status |-> "pending", value |-> "edited"]
\* complete reads the task and stores the results of one that is not cancelled;
\* the runner makes none for a run with an edited proposal of the same worker
Deliver(s, a) ==
    /\ task[s][a].unit = "leased"
    /\ SetUnit(s, a, IF task[s][a].status = "cancelled" THEN "cancelled"
                     ELSE IF \E t \in Steps : WorkerOf[t] = WorkerOf[s] /\ EditedPending(t) THEN "done"
                     ELSE "storing")
    /\ UNCHANGED <<run, step, prop, accept>>
\* the intake retires every pending proposal for the step's target, whichever
\* attempt it is from
Store(s, a) ==
    /\ task[s][a].unit = "storing" /\ SetUnit(s, a, "done")
    /\ IF EditedPending(s) THEN UNCHANGED prop
       ELSE prop' = [prop EXCEPT ![s] = [b \in 1..Attempts |->
                       IF b = a THEN [status |-> "pending", value |-> "draft"]
                       ELSE IF @[b].status = "pending" THEN [@[b] EXCEPT !.status = "superseded"] ELSE @[b]]]
    /\ UNCHANGED <<run, step, accept>>
\* an intake that raises: the unit is done, its subject failed
StoreFails(s, a) ==
    /\ task[s][a].unit = "storing" /\ SetUnit(s, a, "failed")
    /\ UNCHANGED <<run, step, prop, accept>>
\* the operator closes the task, or the planner fails it: no hook
CloseTask(s, a) ==
    /\ task[s][a].status \in InFlight
    /\ \E status \in {"cancelled", "failed"} :
          task' = [task EXCEPT ![s][a].status = status, ![s][a].unit = IF @ = "queued" THEN "cancelled" ELSE @]
    /\ UNCHANGED <<run, step, prop, accept>>

-----------------------------------------------------------------------------
(* on_task_finished, in the transaction that closes the task                *)
Output(s, a) == task[s][a].unit = "done" /\ prop[s][a].status = "pending"
Outcome(s, a) ==
    [step EXCEPT ![s].status = IF Output(s, a) THEN "review" ELSE "failed",
                 ![s].proposal = IF Output(s, a) THEN a ELSE 0]
Approve(st, s) == [st EXCEPT ![s].status = "approved"]
Decide(s, a, status) == [prop EXCEPT ![s][a].status = status]
Move(st) == step' = st /\ run' = DeriveStatus(run, st)
\* an auto gate applies at once: the write goes through, the target has
\* diverged (a document), or the adapter refuses and the step fails
AutoApprove(s, a) ==
    \/ /\ HasAttempts(Ready(Approve(Outcome(s, a), s)))
       /\ prop' = Decide(s, a, "applied")
       /\ LET spawned == Ready(Approve(Outcome(s, a), s)) IN
            /\ task' = [SpawnedTasks(spawned, Approve(Outcome(s, a), s), prop')
                          EXCEPT ![s][a].status = "done"]
            /\ Move(SpawnedSteps(spawned, Approve(Outcome(s, a), s)))
    \/ /\ s \in Documents /\ prop' = Decide(s, a, "drifted") /\ Move(Outcome(s, a))
       /\ task' = [task EXCEPT ![s][a].status = "done"]
    \/ /\ Move([Outcome(s, a) EXCEPT ![s].status = "failed"]) /\ UNCHANGED prop
       /\ task' = [task EXCEPT ![s][a].status = "done"]
\* Deviation: a task that ends after the run was cancelled moves its step
HookAppliesAlways(s, a) == step[s].task = a
\* the run is not cancelled and the task is its step's current one
HookApplies(s, a) == run # "cancelled" /\ step[s].task = a
\* the units have settled: a task with a result is done, else it failed
Finish(s, a) ==
    /\ task[s][a].status = "in_progress" /\ task[s][a].unit \in {"done", "failed"}
    /\ IF HookApplies(s, a) /\ Output(s, a) /\ s \in AutoGates THEN AutoApprove(s, a)
       ELSE /\ task' = [task EXCEPT ![s][a].status = IF task[s][a].unit = "done" THEN "done" ELSE "failed"]
            /\ IF HookApplies(s, a) THEN Move(Outcome(s, a)) ELSE UNCHANGED <<run, step>>
            /\ UNCHANGED prop
    /\ UNCHANGED accept
\* an error in the hook is logged and undone, the task stays closed
FinishHookFails(s, a) ==
    /\ task[s][a].status = "in_progress" /\ task[s][a].unit \in {"done", "failed"}
    /\ task' = [task EXCEPT ![s][a].status = IF task[s][a].unit = "done" THEN "done" ELSE "failed"]
    /\ UNCHANGED <<run, step, prop, accept>>

-----------------------------------------------------------------------------
(* what happens to a proposal outside of the run's lock                     *)
Open(s, a) == prop[s][a].status \in {"pending", "drifted"}
Edit(s, a) ==
    /\ Open(s, a) /\ prop' = [prop EXCEPT ![s][a].value = "edited"]
    /\ UNCHANGED <<run, step, task, accept>>
Reject(s, a) ==
    Open(s, a) /\ prop' = Decide(s, a, "rejected") /\ UNCHANGED <<run, step, task, accept>>
\* artifacts refuse an undo
Undo(s, a) ==
    /\ s \in Documents /\ prop[s][a].status = "applied" /\ prop' = Decide(s, a, "reverted")
    /\ UNCHANGED <<run, step, task, accept>>

\* apply: the proposal is loaded ...
LoadAccept(r, s, a) ==
    /\ accept[r] = NoAccept /\ Open(s, a)
    /\ accept' = [accept EXCEPT ![r] = [step |-> s, attempt |-> a, status |-> prop[s][a].status]]
    /\ UNCHANGED <<run, step, task, prop>>
Unchanged(r) == prop[accept[r].step][accept[r].attempt].status = accept[r].status
Answer(r) == accept' = [accept EXCEPT ![r] = NoAccept]
\* Deviation: any output of the step may be approved
ApprovableAny(s, a) == Locked /\ step[s].status \in Reviewable
Approvable(s, a) == Locked /\ step[s].proposal = a /\ step[s].status \in Reviewable
\* ... and written under the run's lock: guard_apply, the status check of the
\* transition, on_proposal_applied
CommitAccept(r) ==
    LET s == accept[r].step  a == accept[r].attempt IN
    /\ accept[r] # NoAccept /\ Approvable(s, a) /\ Unchanged(r)
    /\ HasAttempts(Ready(Approve(step, s)))
    /\ prop' = Decide(s, a, "applied")
    /\ SpawnReady(Approve(step, s), prop') /\ Answer(r)
\* the live document diverged from the snapshot: nothing is written
DriftAccept(r) ==
    /\ accept[r] # NoAccept /\ accept[r].step \in Documents /\ accept[r].status = "pending" /\ Unchanged(r)
    /\ prop' = Decide(accept[r].step, accept[r].attempt, "drifted") /\ Answer(r)
    /\ UNCHANGED <<run, step, task>>
\* any refusal, adapter error or crash rolls back
AbandonAccept(r) == accept[r] # NoAccept /\ Answer(r) /\ UNCHANGED <<run, step, task, prop>>

-----------------------------------------------------------------------------
QueueStep(s, a) ==
    Claim(s, a) \/ UnitFails(s, a) \/ Deliver(s, a) \/ Store(s, a) \/ StoreFails(s, a) \/ Finish(s, a)
ReviewStep(s, a) == Edit(s, a) \/ Reject(s, a) \/ Undo(s, a) \/ CloseTask(s, a) \/ FinishHookFails(s, a)
Next ==
    \/ Start
    \/ \E claimed \in SUBSET Steps : Cancel(claimed)
    \/ \E s \in Steps : Regenerate(s)
    \/ \E s \in Steps, a \in 1..Attempts : QueueStep(s, a) \/ ReviewStep(s, a)
    \/ \E s \in Steps, a \in 1..Attempts, r \in Reviewers : LoadAccept(r, s, a)
    \/ \E r \in Reviewers : CommitAccept(r) \/ DriftAccept(r) \/ AbandonAccept(r)

Spec == Init /\ [][Next]_vars
\* a unit that was planned is claimed, reported and its task refreshed
Fairness == \A s \in Steps, a \in 1..Attempts : WF_vars(QueueStep(s, a))
FairSpec == Spec /\ Fairness

-----------------------------------------------------------------------------
\* A step is spawned only when the outputs it needs are approved, and its task
\* carries their approved values for good: approval and spawn are one
\* transaction, and what was approved is neither edited nor replaced (_inputs).
InputsApproved ==
    \A s \in Steps, a \in 1..Attempts : task[s][a].status # "absent" =>
        \A n \in Needs[s] :
            /\ step[n].status = "approved" /\ step[n].proposal # 0
            /\ task[s][a].inputs[n] = prop[n][step[n].proposal].value

\* A proposal of the run was written if and only if it is the output of an
\* approved step: no accept of a retired or late output gets through, and no
\* step is approved without its write (guard_apply, on_proposal_applied).
ApprovedIffApplied ==
    \A s \in Steps, a \in 1..Attempts :
        prop[s][a].status \in {"applied", "reverted"} <=> step[s].status = "approved" /\ step[s].proposal = a

\* An open task of an open run is the current attempt at a running step: a step
\* has one open task at a time (_regenerable). The unit of a task that was closed
\* by hand may still be leased, and paid for, when the step is generated again.
OneLiveAttempt ==
    \A s \in Steps, a \in 1..Attempts :
        task[s][a].status \in InFlight /\ run # "cancelled" => step[s].status = "running" /\ step[s].task = a

\* The attempts at a step were made one after the other, and every step that
\* has begun counts them: the number of its task is the last one (spawn).
AttemptsInOrder ==
    \A s \in Steps :
        /\ step[s].status = "waiting" <=> step[s].task = 0
        /\ step[s].status \in {"review", "approved"} => step[s].proposal # 0
        /\ \A a \in 1..Attempts : task[s][a].status = "absent" <=> step[s].task < a
\* A proposal comes from a unit that was worked to the end (_intake_one).
WorkedOnce ==
    \A s \in Steps, a \in 1..Attempts :
        /\ prop[s][a].status # "absent" => task[s][a].unit = "done"
        /\ task[s][a].status = "absent" => task[s][a].unit = "none"
\* The status of a run that was started is the one its steps give it, and no
\* step of it waits for what is already approved (derive_status, ready).
StatusDerived ==
    /\ run = "none" => step = InitialState
    /\ run # "none" => Ready(step) = {}
    /\ run = "running" => \E s \in Steps : step[s].status = "running"
    /\ run = "failed" => \E s \in Steps : step[s].status = "failed"
    /\ run = "waiting" => \E s \in Steps : step[s].status = "review"

\* What holds between any two steps of a run, all of it together: one attempt
\* at a time, each counted and worked once, on inputs that stay approved, and a
\* status that says what the steps are waiting for.
RunInv ==
    /\ TypeOK /\ OneLiveAttempt /\ AttemptsInOrder /\ WorkedOnce /\ StatusDerived
    /\ InputsApproved /\ ApprovedIffApplied

\* An open run always has a task in flight or a step the operator can review or
\* regenerate: no order of failures, rejections and late results wedges it.
NeverWedged ==
    Locked => \E s \in Steps : \/ step[s].status = "running" /\ task[s][step[s].task].status \in InFlight
                               \/ Regenerable(s)

\* A cancelled run starts no step, moves none and writes no output, whatever
\* accept, hook or result was under way when it was cancelled.
CancelledRunStands ==
    [][run = "cancelled" =>
         /\ UNCHANGED <<run, step>>
         /\ \A s \in Steps, a \in 1..Attempts :
               /\ task[s][a].status = "absent" => UNCHANGED task[s][a]
               /\ prop'[s][a].status = "applied" => prop[s][a].status = "applied"]_vars

\* The run keeps the promise about its steps: see RunLife.
Phase(s) == IF step[s].status \in Reviewable THEN "settled" ELSE step[s].status
Life == INSTANCE RunLife WITH phase <- [s \in Steps |-> Phase(s)], open <- run # "cancelled"
LifeSpec == Life!Spec

\* A running run comes to rest: every step ends up in review, approved or
\* failed, or is left on a closed task, from where it can be regenerated.
Stuck(s) == step[s].status = "running" /\ task[s][step[s].task].status \notin InFlight
ComesToRest == run = "running" ~> (run # "running" \/ \E s \in Steps : Stuck(s))
=============================================================================
