---------------------------- MODULE WorkflowProofs ----------------------------
(***************************************************************************)
(* Theorems about Workflow for every definition, every number of attempts  *)
(* and every number of requests.                                           *)
(***************************************************************************)
EXTENDS Workflow, FiniteSetTheorems, WellFoundedInduction, TLAPS

Written == {"applied", "reverted"}

-----------------------------------------------------------------------------
(* What a step does to tasks and proposals when it moves no step of the run *)

TasksQuiet ==
    \A s \in Steps, a \in 1..Attempts :
        /\ task'[s][a].inputs = task[s][a].inputs
        /\ task'[s][a].status = "absent" <=> task[s][a].status = "absent"
        /\ task[s][a].status = "absent" => task'[s][a] = task[s][a]
        /\ task'[s][a].status \in InFlight => task[s][a].status \in InFlight
        /\ task[s][a].unit = "done" => task'[s][a].unit = "done"

\* nothing is written or undone but what was, and what was written is not edited
PropsQuiet ==
    \A s \in Steps, a \in 1..Attempts :
        /\ prop'[s][a].status \in Written <=> prop[s][a].status \in Written
        /\ prop[s][a].status \in Written => prop'[s][a].value = prop[s][a].value
        /\ prop'[s][a].status = "applied" => prop[s][a].status = "applied"
        /\ prop[s][a].status = "absent" /\ prop'[s][a].status # "absent" => task'[s][a].unit = "done"

Quiet == UNCHANGED <<run, step>> /\ TasksQuiet /\ PropsQuiet
Cancels == Locked /\ run' = "cancelled" /\ UNCHANGED step /\ TasksQuiet /\ PropsQuiet

(* What a step does that moves the run: the steps become st, those in S are *)
(* spawned.                                                                 *)
NewCell(s, a, st, S) == s \in S /\ a = st[s].task + 1

\* what st may be: nothing approved is touched, and the approvals in st are the writes
Moved(st) ==
    /\ st \in [Steps -> StepRow]
    /\ \A s \in Steps :
          /\ st[s].task = step[s].task
          /\ st[s].status = "waiting" <=> step[s].status = "waiting"
          /\ step[s].status = "approved" => st[s] = step[s]
          /\ st[s].status \in {"review", "approved"} => st[s].proposal # 0
    /\ \A s \in Steps, a \in 1..Attempts :
          /\ prop'[s][a].status \in Written <=> st[s].status = "approved" /\ st[s].proposal = a
          /\ prop[s][a].status \in Written => prop'[s][a].value = prop[s][a].value
          /\ prop'[s][a].status # "absent" => prop[s][a].status # "absent"

TasksMoved(st, S) ==
    \A s \in Steps, a \in 1..Attempts :
        /\ NewCell(s, a, st, S) =>
              /\ task'[s][a].status = "open"
              /\ \A n \in Needs[s] :
                    st[n].proposal # 0 => task'[s][a].inputs[n] = prop'[n][st[n].proposal].value
        /\ ~NewCell(s, a, st, S) =>
              /\ task'[s][a].inputs = task[s][a].inputs
              /\ task'[s][a].unit = task[s][a].unit
              /\ task'[s][a].status = "absent" <=> task[s][a].status = "absent"
              /\ task'[s][a].status \in InFlight =>
                    task[s][a].status \in InFlight /\ s \notin S /\ st[s].status = "running"

Moves(st, S) ==
    /\ run # "cancelled" /\ Moved(st) /\ TasksMoved(st, S)
    /\ \A s \in S : st[s].task < Attempts /\ \A n \in Needs[s] : st[n].status = "approved"
    /\ \A s \in S : st[s].status # "approved"
    /\ Ready(st) \subseteq S
    /\ step' = SpawnedSteps(S, st) /\ run' = DeriveStatus(run, step')

\* The effect of any step of the specification.
Begins == run = "none" /\ Moves(step, Ready(step))
Repeats(s) == step[s].status \in Reviewable \cup {"running"} /\ Moves(step, {s})
Settles(s, row) == step[s].status = "running" /\ row.status \in Reviewable /\ Moves([step EXCEPT ![s] = row], {})
Approves(s, row) ==
    LET st == [step EXCEPT ![s] = row]
    IN step[s].status \in Reviewable \cup {"running"} /\ row.status = "approved" /\ Moves(st, Ready(st))
Effect ==
    \/ Quiet \/ Cancels \/ Begins
    \/ \E s \in Steps : Repeats(s)
    \/ \E s \in Steps, row \in StepRow : Settles(s, row) \/ Approves(s, row)

-----------------------------------------------------------------------------
(* The order of the steps *)

\* Of any steps one needs none of the others: a definition names earlier steps only.
LEMMA FirstOfSteps ==
  ASSUME NEW W \in SUBSET Steps, W # {}
  PROVE  \E m \in W : Needs[m] \cap W = {}
<1> DEFINE Below(rank, n) == {k \in W : rank[k] < rank[n]}
<1>1. PICK rank \in [Steps -> 1..Cardinality(Steps)] : \A s \in Steps : \A n \in Needs[s] : rank[n] < rank[s]
  BY NeedsEarlier
<1>2. IsFiniteSet(W) /\ Needs \in [Steps -> SUBSET Steps]  BY WorkflowAssumption, FS_Subset DEF WorkflowAssumption
<1>3. Cardinality(Steps) \in Nat  BY WorkflowAssumption, FS_CardinalityType DEF WorkflowAssumption
<1>4. \A s \in Steps : rank[s] \in Int  BY <1>1, <1>3
<1> DEFINE T == {Below(rank, n) : n \in W}
<1>5. T \subseteq FiniteSubsetsOf(W) /\ T # {}
  <2>1. FiniteSubsetsOf(W) = SUBSET W  BY <1>2, FS_FiniteSubsetsOfFinite
  <2>2. T \subseteq SUBSET W  OBVIOUS
  <2>3. PICK w \in W : TRUE  OBVIOUS
  <2>4. Below(rank, w) \in T  OBVIOUS
  <2> QED  BY <2>1, <2>2, <2>4
<1>6. \E x \in T : \A y \in T : ~(<<y, x>> \in StrictSubsetOrdering(W))
  <2>1. IsWellFoundedOn(StrictSubsetOrdering(W), FiniteSubsetsOf(W))  BY FS_StrictSubsetOrderingWellFounded
  <2> QED  BY <1>5, <2>1, WFMin
<1>7. PICK m \in W : \A n \in W : ~(<<Below(rank, n), Below(rank, m)>> \in StrictSubsetOrdering(W))
  BY <1>6
<1>8. ASSUME NEW n \in Needs[m], n \in W  PROVE FALSE
  <2>1. rank[n] < rank[m] /\ rank[n] \in Int /\ rank[m] \in Int  BY <1>1, <1>2, <1>4, <1>8
  <2>2. n \in Below(rank, m) /\ n \notin Below(rank, n)  BY <1>8, <2>1
  <2>3. Below(rank, n) \subseteq Below(rank, m)  BY <1>4, <1>8, <2>1
  <2>4. <<Below(rank, n), Below(rank, m)>> \in StrictSubsetOrdering(W)
    BY <2>2, <2>3 DEF StrictSubsetOrdering
  <2> QED  BY <1>7, <1>8, <2>4
<1> QED  BY <1>2, <1>8

-----------------------------------------------------------------------------
(* The status of a run *)

\* Where nothing is ready, a step that is not approved is in hand.
LEMMA SomethingInHand ==
  ASSUME NEW st \in [Steps -> StepRow], Ready(st) = {}, \E s \in Steps : st[s].status # "approved"
  PROVE  \E s \in Steps : st[s].status \in Reviewable \cup {"running"}
<1> DEFINE W == {s \in Steps : st[s].status # "approved"}
<1>1. PICK m \in W : Needs[m] \cap W = {}  BY FirstOfSteps
<1>2. Needs[m] \subseteq Steps  BY WorkflowAssumption DEF WorkflowAssumption
<1>3. \A n \in Needs[m] : st[n].status = "approved"  BY <1>1, <1>2
<1>4. st[m].status # "waiting"  BY <1>3 DEF Ready
<1>5. st[m].status \in {"waiting", "running", "approved"} \cup Reviewable  BY DEF StepRow
<1> QED  BY <1>4, <1>5

LEMMA Derived ==
  ASSUME NEW st \in [Steps -> StepRow], Ready(st) = {}, run # "cancelled"
  PROVE  LET now == DeriveStatus(run, st)
         IN  /\ now \in {"done", "running", "failed", "waiting"}
             /\ now = "running" => \E s \in Steps : st[s].status = "running"
             /\ now = "failed" => \E s \in Steps : st[s].status = "failed"
             /\ now = "waiting" => \E s \in Steps : st[s].status = "review"
<1>1. CASE \A s \in Steps : st[s].status = "approved"  BY <1>1 DEF DeriveStatus
<1>2. CASE ~(\A s \in Steps : st[s].status = "approved")
  <2>1. \E s \in Steps : st[s].status \in {"running", "failed", "review"}  BY <1>2, SomethingInHand DEF Reviewable
  <2> QED  BY <1>2, <2>1 DEF DeriveStatus
<1> QED  BY <1>1, <1>2

-----------------------------------------------------------------------------
(* The invariant is kept by each kind of effect *)

LEMMA RowTypes ==
  /\ InitialState \in [Steps -> StepRow] /\ NoTask \in TaskRow /\ NoProposal \in ProposalRow
  /\ \A s \in Steps : Needs[s] \subseteq Steps
  BY WorkflowAssumption DEF WorkflowAssumption, InitialState, StepRow, NoTask, TaskRow, NoProposal, ProposalRow, Values

\* A step whose type is known, and which moves no step of the run.
LEMMA QuietKeeps ==
  ASSUME RunInv, TypeOK', UNCHANGED step, run' = run \/ (run # "none" /\ run' = "cancelled"), TasksQuiet, PropsQuiet
  PROVE  RunInv'
<1>1. /\ step \in [Steps -> StepRow] /\ prop \in [Steps -> [1..Attempts -> ProposalRow]]
      /\ prop' \in [Steps -> [1..Attempts -> ProposalRow]]
  BY DEF RunInv, TypeOK
<1>2. OneLiveAttempt'  BY DEF RunInv, OneLiveAttempt, TasksQuiet
<1>3. AttemptsInOrder'  BY DEF RunInv, AttemptsInOrder, TasksQuiet
<1>4. WorkedOnce'  BY DEF RunInv, WorkedOnce, TasksQuiet, PropsQuiet
<1>5. StatusDerived'  BY DEF RunInv, StatusDerived, Ready
<1>6. ApprovedIffApplied'  BY DEF RunInv, ApprovedIffApplied, PropsQuiet, Written
<1>7. InputsApproved'
  <2> SUFFICES ASSUME NEW s \in Steps, NEW a \in 1..Attempts, task'[s][a].status # "absent", NEW n \in Needs[s]
               PROVE  /\ step[n].status = "approved" /\ step[n].proposal # 0
                      /\ task'[s][a].inputs[n] = prop'[n][step[n].proposal].value
    BY DEF InputsApproved
  <2>1. n \in Steps  BY RowTypes
  <2>2. /\ step[n].status = "approved" /\ step[n].proposal # 0
        /\ task[s][a].inputs[n] = prop[n][step[n].proposal].value
    BY DEF RunInv, InputsApproved, TasksQuiet
  <2>3. step[n].proposal \in 1..Attempts  BY <1>1, <2>1, <2>2, WorkflowAssumption DEF StepRow, WorkflowAssumption
  <2>4. prop[n][step[n].proposal].status \in Written
    BY <2>1, <2>2, <2>3 DEF RunInv, ApprovedIffApplied, Written
  <2>5. prop'[n][step[n].proposal].value = prop[n][step[n].proposal].value  BY <2>1, <2>3, <2>4 DEF PropsQuiet
  <2> QED  BY <2>2, <2>5 DEF TasksQuiet
<1> QED  BY <1>2, <1>3, <1>4, <1>5, <1>6, <1>7 DEF RunInv

\* After the spawn nothing is ready, and what was approved still is.
LEMMA Spawns ==
  ASSUME NEW st \in [Steps -> StepRow], NEW S \in SUBSET Steps, NEW new, Ready(st) \subseteq S,
         \A s \in S : st[s].status # "approved" /\ st[s].task < Attempts, new = SpawnedSteps(S, st)
  PROVE  /\ new \in [Steps -> StepRow] /\ Ready(new) = {}
         /\ \A s \in Steps :
               /\ s \notin S => new[s] = st[s]
               /\ s \in S => new[s].status = "running" /\ new[s].task = st[s].task + 1 /\ new[s].proposal = 0
               /\ new[s].status = "approved" <=> st[s].status = "approved"
<1>1. \A s \in Steps : s \notin S => new[s] = st[s]  BY DEF SpawnedSteps
<1>2. \A s \in Steps : s \in S => new[s] = [status |-> "running", task |-> st[s].task + 1, proposal |-> 0]
  BY DEF SpawnedSteps
<1>3. ASSUME NEW s \in S  PROVE [status |-> "running", task |-> st[s].task + 1, proposal |-> 0] \in StepRow
  <2>1. st[s].task \in 0..Attempts /\ st[s].task < Attempts  BY DEF StepRow
  <2>2. st[s].task + 1 \in 0..Attempts /\ 0 \in 0..Attempts
    BY <2>1, WorkflowAssumption DEF WorkflowAssumption
  <2> QED  BY <2>2 DEF StepRow
<1>4. new = [s \in Steps |-> new[s]]  BY DEF SpawnedSteps
<1>5. new \in [Steps -> StepRow]  BY <1>1, <1>2, <1>3, <1>4
<1>6. ASSUME NEW s \in Steps, s \in S
      PROVE  new[s].status = "running" /\ new[s].task = st[s].task + 1 /\ new[s].proposal = 0
  <2>1. new[s] = [status |-> "running", task |-> st[s].task + 1, proposal |-> 0]  BY <1>2, <1>6
  <2> QED  BY <2>1
<1>7. \A s \in Steps : new[s].status = "approved" <=> st[s].status = "approved"  BY <1>1, <1>6
<1>8. Ready(new) = {}
  <2>1. ASSUME NEW s \in Steps, new[s].status = "waiting", \A n \in Needs[s] : new[n].status = "approved"
        PROVE  FALSE
    <3>1. s \notin S /\ st[s].status = "waiting"  BY <1>1, <1>6, <2>1
    <3>2. \A n \in Needs[s] : st[n].status = "approved"  BY <1>7, <2>1, RowTypes
    <3> QED  BY <3>1, <3>2 DEF Ready
  <2> QED  BY <2>1 DEF Ready
<1> QED  BY <1>1, <1>5, <1>6, <1>7, <1>8

LEMMA MovesKeeps ==
  ASSUME RunInv, TypeOK', NEW st, NEW S \in SUBSET Steps, Moves(st, S)
  PROVE  RunInv'
<1>1. /\ step \in [Steps -> StepRow] /\ prop \in [Steps -> [1..Attempts -> ProposalRow]]
      /\ step' \in [Steps -> StepRow] /\ prop' \in [Steps -> [1..Attempts -> ProposalRow]]
      /\ st \in [Steps -> StepRow] /\ Attempts \in Nat \ {0}
  BY WorkflowAssumption DEF RunInv, TypeOK, Moves, Moved, WorkflowAssumption
<1>2. /\ Ready(step') = {} /\ run' = DeriveStatus(run, step') /\ run # "cancelled"
      /\ \A s \in Steps : s \notin S => step'[s] = st[s]
      /\ \A s \in Steps : s \in S =>
            /\ step'[s].status = "running" /\ step'[s].task = st[s].task + 1 /\ step'[s].proposal = 0
            /\ st[s].status # "approved" /\ st[s].task < Attempts
      /\ \A s \in Steps : step'[s].status = "approved" <=> st[s].status = "approved"
  <2>1. \A s \in S : st[s].status # "approved" /\ st[s].task < Attempts  BY DEF Moves
  <2>2. Ready(st) \subseteq S /\ step' = SpawnedSteps(S, st) /\ run' = DeriveStatus(run, step') /\ run # "cancelled"
    BY DEF Moves
  <2>3. PICK new : new = step'  OBVIOUS
  <2>4. new = SpawnedSteps(S, st)  BY <2>2, <2>3
  <2>5. /\ Ready(new) = {}
        /\ \A s \in Steps :
              /\ s \notin S => new[s] = st[s]
              /\ s \in S => new[s].status = "running" /\ new[s].task = st[s].task + 1 /\ new[s].proposal = 0
              /\ new[s].status = "approved" <=> st[s].status = "approved"
    <3>1. st \in [Steps -> StepRow] /\ Ready(st) \subseteq S  BY <1>1, <2>2
    <3>2. S \in SUBSET Steps  OBVIOUS
    <3>3. new \in [Steps -> StepRow] /\ Ready(new) = {}  BY <2>1, <2>4, <3>1, <3>2, Spawns
    <3> QED  BY <2>1, <2>4, <3>1, <3>2, Spawns
  <2> QED  BY <2>1, <2>2, <2>3, <2>5 DEF Ready
<1>3. \A s \in Steps : /\ st[s].task = step[s].task /\ st[s].task \in 0..Attempts /\ st[s].proposal \in 0..Attempts
                       /\ step[s].status = "approved" => s \notin S /\ st[s] = step[s] /\ step'[s] = step[s]
  BY <1>1, <1>2 DEF Moves, Moved, StepRow
<1>4. OneLiveAttempt'
  <2> SUFFICES ASSUME NEW s \in Steps, NEW a \in 1..Attempts, task'[s][a].status \in InFlight
               PROVE  step'[s].status = "running" /\ step'[s].task = a
    BY DEF OneLiveAttempt
  <2>1. CASE NewCell(s, a, st, S)  BY <1>2, <2>1 DEF NewCell
  <2>2. CASE ~NewCell(s, a, st, S)
    <3>1. task[s][a].status \in InFlight /\ s \notin S /\ st[s].status = "running"
      BY <2>2 DEF Moves, TasksMoved
    <3> QED  BY <1>2, <1>3, <3>1 DEF RunInv, OneLiveAttempt
  <2> QED  BY <2>1, <2>2
<1>5. AttemptsInOrder'
  <2>1. ASSUME NEW s \in Steps  PROVE step'[s].status = "waiting" <=> step'[s].task = 0
    BY <1>1, <1>2, <1>3 DEF Moves, Moved, RunInv, AttemptsInOrder
  <2>2. ASSUME NEW s \in Steps, step'[s].status \in {"review", "approved"}  PROVE step'[s].proposal # 0
    BY <1>2, <2>2 DEF Moves, Moved
  <2>3. ASSUME NEW s \in Steps, NEW a \in 1..Attempts
        PROVE  task'[s][a].status = "absent" <=> step'[s].task < a
    <3>0. task[s][a].status = "absent" <=> st[s].task < a  BY <1>3 DEF RunInv, AttemptsInOrder
    <3>1. CASE NewCell(s, a, st, S)
      <4>1. task'[s][a].status = "open" /\ step'[s].task = a  BY <1>2, <3>1 DEF Moves, TasksMoved, NewCell
      <4> QED  BY <4>1
    <3>2. CASE ~NewCell(s, a, st, S)
      <4>1. task'[s][a].status = "absent" <=> task[s][a].status = "absent"  BY <3>2 DEF Moves, TasksMoved
      <4>2. CASE s \in S
        <5>1. step'[s].task = st[s].task + 1 /\ a # st[s].task + 1  BY <1>2, <3>2, <4>2 DEF NewCell
        <5> QED  BY <1>3, <3>0, <4>1, <5>1
      <4>3. CASE s \notin S  BY <1>2, <3>0, <4>1, <4>3
      <4> QED  BY <4>2, <4>3
    <3> QED  BY <3>1, <3>2
  <2> QED  BY <2>1, <2>2, <2>3 DEF AttemptsInOrder
<1>6. WorkedOnce'
  <2> SUFFICES ASSUME NEW s \in Steps, NEW a \in 1..Attempts
               PROVE  /\ prop'[s][a].status # "absent" => task'[s][a].unit = "done"
                      /\ task'[s][a].status = "absent" => task'[s][a].unit = "none"
    BY DEF WorkedOnce
  <2>1. prop'[s][a].status # "absent" => prop[s][a].status # "absent" /\ task[s][a].unit = "done"
    BY DEF Moves, Moved, RunInv, WorkedOnce
  <2>2. CASE NewCell(s, a, st, S)
    <3>1. task[s][a].status = "absent"  BY <1>3, <2>2 DEF NewCell, RunInv, AttemptsInOrder
    <3>2. task[s][a].unit = "none"  BY <3>1 DEF RunInv, WorkedOnce
    <3> QED  BY <2>1, <2>2, <3>2 DEF Moves, TasksMoved
  <2>3. CASE ~NewCell(s, a, st, S)
    BY <2>1, <2>3 DEF Moves, TasksMoved, RunInv, WorkedOnce
  <2> QED  BY <2>2, <2>3
<1>7. StatusDerived'  BY <1>1, <1>2, Derived DEF StatusDerived
<1>8. ApprovedIffApplied'
  <2> SUFFICES ASSUME NEW s \in Steps, NEW a \in 1..Attempts
               PROVE  prop'[s][a].status \in {"applied", "reverted"} <=>
                        step'[s].status = "approved" /\ step'[s].proposal = a
    BY DEF ApprovedIffApplied
  <2>1. prop'[s][a].status \in Written <=> st[s].status = "approved" /\ st[s].proposal = a
    BY DEF Moves, Moved
  <2> QED  BY <1>2, <2>1 DEF Written
<1>9. InputsApproved'
  <2> SUFFICES ASSUME NEW s \in Steps, NEW a \in 1..Attempts, task'[s][a].status # "absent", NEW n \in Needs[s]
               PROVE  /\ step'[n].status = "approved" /\ step'[n].proposal # 0
                      /\ task'[s][a].inputs[n] = prop'[n][step'[n].proposal].value
    BY DEF InputsApproved
  <2>1. n \in Steps  BY RowTypes
  <2>2. CASE NewCell(s, a, st, S)
    <3>1. st[n].status = "approved"  BY <2>2 DEF Moves, NewCell
    <3>2. st[n].proposal # 0 /\ step'[n] = st[n] /\ step'[n].status = "approved"
      BY <1>2, <2>1, <3>1 DEF Moves, Moved
    <3>3. task'[s][a].inputs[n] = prop'[n][st[n].proposal].value
      BY <2>2, <3>2 DEF Moves, TasksMoved
    <3> QED  BY <3>2, <3>3
  <2>3. CASE ~NewCell(s, a, st, S)
    <3>1. task'[s][a].inputs = task[s][a].inputs /\ task[s][a].status # "absent"
      BY <2>3 DEF Moves, TasksMoved
    <3>2. /\ step[n].status = "approved" /\ step[n].proposal # 0
          /\ task[s][a].inputs[n] = prop[n][step[n].proposal].value
      BY <3>1 DEF RunInv, InputsApproved
    <3>3. step'[n] = step[n] /\ step[n].proposal \in 1..Attempts
      <4>1. step[n].proposal \in 0..Attempts  BY <1>1, <2>1 DEF StepRow
      <4> QED  BY <1>1, <1>3, <2>1, <3>2, <4>1
    <3>4. prop[n][step[n].proposal].status \in Written
      BY <2>1, <3>2, <3>3 DEF RunInv, ApprovedIffApplied, Written
    <3>5. prop'[n][step[n].proposal].value = prop[n][step[n].proposal].value
      BY <2>1, <3>3, <3>4 DEF Moves, Moved
    <3> QED  BY <3>1, <3>2, <3>3, <3>5
  <2> QED  BY <2>2, <2>3
<1> QED  BY <1>4, <1>5, <1>6, <1>7, <1>8, <1>9 DEF RunInv

-----------------------------------------------------------------------------
(* The steps of the queue and of the review: no step of the run moves *)

Rows ==
    /\ \A s \in Steps : step[s] \in StepRow
    /\ \A s \in Steps, a \in 1..Attempts : task[s][a] \in TaskRow /\ prop[s][a] \in ProposalRow

LEMMA RowsTyped == ASSUME RunInv PROVE Rows  BY DEF RunInv, TypeOK, Rows

\* One task gets another status or unit.
LEMMA OneTask ==
  ASSUME RunInv, NEW s \in Steps, NEW a \in 1..Attempts, NEW row \in TaskRow,
         task' = [task EXCEPT ![s][a] = row], UNCHANGED <<run, step, prop, accept>>,
         task[s][a].status # "absent", row.status # "absent", row.inputs = task[s][a].inputs,
         row.status \in InFlight => task[s][a].status \in InFlight,
         task[s][a].unit = "done" => row.unit = "done"
  PROVE  Quiet /\ TypeOK'
<1>1. task \in [Steps -> [1..Attempts -> TaskRow]]  BY DEF RunInv, TypeOK
<1>2. task' \in [Steps -> [1..Attempts -> TaskRow]]  BY <1>1
<1>3. \A t \in Steps, b \in 1..Attempts : task'[t][b] = IF t = s /\ b = a THEN row ELSE task[t][b]  BY <1>1
<1>4. TasksQuiet  BY <1>3 DEF TasksQuiet
<1>5. PropsQuiet  BY DEF PropsQuiet
<1> QED  BY <1>2, <1>4, <1>5 DEF Quiet, RunInv, TypeOK

LEMMA WorkedRow ==
  ASSUME RunInv, NEW s \in Steps, NEW a \in 1..Attempts, task[s][a].unit # "none"
  PROVE  task[s][a].status # "absent"
  BY DEF RunInv, WorkedOnce

LEMMA ClaimQuiet ==
  ASSUME RunInv, NEW s \in Steps, NEW a \in 1..Attempts, Claim(s, a)
  PROVE  Quiet /\ TypeOK'
<1> DEFINE row == [task[s][a] EXCEPT !.status = "in_progress", !.unit = "leased"]
<1>1. task \in [Steps -> [1..Attempts -> TaskRow]] /\ task[s][a] \in TaskRow  BY DEF RunInv, TypeOK
<1>2. row \in TaskRow /\ row.status = "in_progress" /\ row.unit = "leased" /\ row.inputs = task[s][a].inputs
  BY <1>1 DEF TaskRow, InFlight
<1>3. task' = [task EXCEPT ![s][a] = row]  BY <1>1 DEF Claim
<1>4. task[s][a].status \in InFlight /\ task[s][a].unit = "queued" /\ UNCHANGED <<run, step, prop, accept>>
  BY DEF Claim
<1> HIDE DEF row
<1> QED  BY <1>2, <1>3, <1>4, OneTask, WorkedRow DEF InFlight

\* Every change of a unit alone.
LEMMA UnitQuiet ==
  ASSUME RunInv, NEW s \in Steps, NEW a \in 1..Attempts,
         NEW unit \in {"storing", "done", "failed", "cancelled"}, SetUnit(s, a, unit),
         task[s][a].unit \in {"leased", "storing"}, UNCHANGED <<run, step, prop, accept>>
  PROVE  Quiet /\ TypeOK'
<1> DEFINE row == [task[s][a] EXCEPT !.unit = unit]
<1>1. task \in [Steps -> [1..Attempts -> TaskRow]] /\ task[s][a] \in TaskRow  BY DEF RunInv, TypeOK
<1>2. row \in TaskRow /\ row.status = task[s][a].status /\ row.inputs = task[s][a].inputs
  BY <1>1 DEF TaskRow
<1>3. task' = [task EXCEPT ![s][a] = row]  BY <1>1 DEF SetUnit
<1> HIDE DEF row
<1> QED  BY <1>2, <1>3, OneTask, WorkedRow

\* Every change of a status alone, and a cancelled unit that waited.
LEMMA StatusQuiet ==
  ASSUME RunInv, NEW s \in Steps, NEW a \in 1..Attempts, task[s][a].status \in InFlight,
         NEW status \in {"done", "failed", "cancelled"}, NEW unit,
         unit = task[s][a].unit \/ (task[s][a].unit = "queued" /\ unit = "cancelled"),
         task' = [task EXCEPT ![s][a].status = status, ![s][a].unit = unit],
         UNCHANGED <<run, step, prop, accept>>
  PROVE  Quiet /\ TypeOK'
<1> DEFINE row == [task[s][a] EXCEPT !.status = status, !.unit = unit]
<1>1. task \in [Steps -> [1..Attempts -> TaskRow]] /\ task[s][a] \in TaskRow  BY DEF RunInv, TypeOK
<1>2. unit \in {"none", "queued", "leased", "storing", "done", "failed", "cancelled"}  BY <1>1 DEF TaskRow
<1>3. row \in TaskRow /\ row.status = status /\ row.unit = unit /\ row.inputs = task[s][a].inputs
  BY <1>1, <1>2 DEF TaskRow
<1>4. task' = [task EXCEPT ![s][a] = row]  BY <1>1
<1> HIDE DEF row
<1> QED  BY <1>3, <1>4, OneTask DEF InFlight

LEMMA CloseQuiet ==
  ASSUME RunInv, NEW s \in Steps, NEW a \in 1..Attempts, CloseTask(s, a)
  PROVE  Quiet /\ TypeOK'
<1>1. task \in [Steps -> [1..Attempts -> TaskRow]] /\ task[s][a] \in TaskRow  BY DEF RunInv, TypeOK
<1>2. PICK status \in {"cancelled", "failed"} :
         task' = [task EXCEPT ![s][a].status = status, ![s][a].unit = IF @ = "queued" THEN "cancelled" ELSE @]
  BY DEF CloseTask
<1> DEFINE unit == IF task[s][a].unit = "queued" THEN "cancelled" ELSE task[s][a].unit
<1>3. task' = [task EXCEPT ![s][a].status = status, ![s][a].unit = unit]  BY <1>1, <1>2 DEF TaskRow
<1>4. unit = task[s][a].unit \/ (task[s][a].unit = "queued" /\ unit = "cancelled")  OBVIOUS
<1> HIDE DEF unit
<1>5. task[s][a].status \in InFlight /\ UNCHANGED <<run, step, prop, accept>>  BY DEF CloseTask
<1> QED  BY <1>3, <1>4, <1>5, StatusQuiet

\* A task that closes without moving its step.
LEMMA ClosedQuiet ==
  ASSUME RunInv, NEW s \in Steps, NEW a \in 1..Attempts, task[s][a].status = "in_progress",
         NEW status \in {"done", "failed"}, task' = [task EXCEPT ![s][a].status = status],
         UNCHANGED <<run, step, prop, accept>>
  PROVE  Quiet /\ TypeOK'
<1> DEFINE row == [task[s][a] EXCEPT !.status = status]
<1>1. task \in [Steps -> [1..Attempts -> TaskRow]] /\ task[s][a] \in TaskRow  BY DEF RunInv, TypeOK
<1>2. row \in TaskRow /\ row.status = status /\ row.unit = task[s][a].unit /\ row.inputs = task[s][a].inputs
  BY <1>1 DEF TaskRow
<1>3. task' = [task EXCEPT ![s][a] = row]  BY <1>1
<1> HIDE DEF row
<1> QED  BY <1>2, <1>3, OneTask DEF InFlight

LEMMA DeliverQuiet ==
  ASSUME RunInv, NEW s \in Steps, NEW a \in 1..Attempts, Deliver(s, a)
  PROVE  Quiet /\ TypeOK'
<1>1. PICK unit \in {"storing", "done", "failed", "cancelled"} : SetUnit(s, a, unit)  BY Zenon DEF Deliver
<1>2. task[s][a].unit \in {"leased", "storing"} /\ UNCHANGED <<run, step, prop, accept>>  BY DEF Deliver
<1> QED  BY <1>1, <1>2, UnitQuiet

\* The result of a unit is the first proposal of its attempt.
LEMMA StoreQuiet ==
  ASSUME RunInv, NEW s \in Steps, NEW a \in 1..Attempts, Store(s, a)
  PROVE  Quiet /\ TypeOK'
<1> DEFINE row == [task[s][a] EXCEPT !.unit = "done"]
<1>1. /\ task \in [Steps -> [1..Attempts -> TaskRow]] /\ task[s][a] \in TaskRow
      /\ prop \in [Steps -> [1..Attempts -> ProposalRow]]
  BY DEF RunInv, TypeOK
<1>2. /\ task[s][a].unit = "storing" /\ task' = [task EXCEPT ![s][a].unit = "done"]
      /\ UNCHANGED <<run, step, accept>>
  BY DEF Store, SetUnit
<1>3. row \in TaskRow /\ row.status = task[s][a].status /\ row.unit = "done" /\ row.inputs = task[s][a].inputs
  BY <1>1 DEF TaskRow
<1>4. task' = [task EXCEPT ![s][a] = row]  BY <1>1, <1>2
<1> HIDE DEF row
<1>5. /\ task' \in [Steps -> [1..Attempts -> TaskRow]]
      /\ \A t \in Steps, b \in 1..Attempts : task'[t][b] = IF t = s /\ b = a THEN row ELSE task[t][b]
  BY <1>1, <1>3, <1>4
<1>6. task[s][a].status # "absent" /\ prop[s][a].status = "absent" /\ task'[s][a].unit = "done"
  BY <1>2, <1>3, <1>5 DEF RunInv, WorkedOnce
<1>7. TasksQuiet  BY <1>3, <1>5, <1>6 DEF TasksQuiet
<1>8. prop' \in [Steps -> [1..Attempts -> ProposalRow]] /\ PropsQuiet
  <2>1. CASE UNCHANGED prop  BY <1>1, <2>1 DEF PropsQuiet
  <2>2. CASE prop' = [prop EXCEPT ![s] = [b \in 1..Attempts |->
                       IF b = a THEN [status |-> "pending", value |-> "draft"]
                       ELSE IF @[b].status = "pending" THEN [@[b] EXCEPT !.status = "superseded"] ELSE @[b]]]
    <3>1. \A t \in Steps, b \in 1..Attempts : t # s => prop'[t][b] = prop[t][b]  BY <1>1, <2>2
    <3>2. ASSUME NEW b \in 1..Attempts, b # a
          PROVE  /\ prop'[s][b] \in ProposalRow /\ prop'[s][b].value = prop[s][b].value
                 /\ prop[s][b].status = "pending" => prop'[s][b].status = "superseded"
                 /\ prop[s][b].status # "pending" => prop'[s][b].status = prop[s][b].status
      <4>1. prop'[s][b] = IF prop[s][b].status = "pending" THEN [prop[s][b] EXCEPT !.status = "superseded"]
                          ELSE prop[s][b]
        BY <1>1, <2>2, <3>2
      <4>2. prop[s][b] \in ProposalRow  BY <1>1
      <4> QED  BY <4>1, <4>2 DEF ProposalRow
    <3>3. prop'[s][a] = [status |-> "pending", value |-> "draft"]  BY <1>1, <2>2
    <3>4. prop'[s][a].status = "pending" /\ prop'[s][a] \in ProposalRow  BY <3>3 DEF ProposalRow, Values
    <3>5. prop' \in [Steps -> [1..Attempts -> ProposalRow]]
      <4>1. prop' = [prop EXCEPT ![s] = prop'[s]] /\ prop'[s] = [b \in 1..Attempts |-> prop'[s][b]]
        BY <1>1, <2>2
      <4>2. prop'[s] \in [1..Attempts -> ProposalRow]  BY <3>2, <3>4, <4>1
      <4> QED  BY <1>1, <4>1, <4>2
    <3>6. PropsQuiet  BY <1>6, <3>1, <3>2, <3>4 DEF PropsQuiet, Written
    <3> QED  BY <3>5, <3>6
  <2> QED  BY <2>1, <2>2 DEF Store
<1> QED  BY <1>2, <1>5, <1>7, <1>8 DEF Quiet, RunInv, TypeOK

\* One proposal gets another status or value, none that a step of the run was written with.
LEMMA OneProposal ==
  ASSUME RunInv, NEW s \in Steps, NEW a \in 1..Attempts, NEW row \in ProposalRow,
         prop' = [prop EXCEPT ![s][a] = row], UNCHANGED <<run, step, task>>,
         accept' \in [Reviewers -> {NoAccept} \cup AcceptRow],
         prop[s][a].status # "absent", row.status # "applied",
         row.status \in Written <=> prop[s][a].status \in Written,
         prop[s][a].status \in Written => row.value = prop[s][a].value
  PROVE  Quiet /\ TypeOK'
<1>1. prop \in [Steps -> [1..Attempts -> ProposalRow]]  BY DEF RunInv, TypeOK
<1>2. prop' \in [Steps -> [1..Attempts -> ProposalRow]]  BY <1>1
<1>3. \A t \in Steps, b \in 1..Attempts : prop'[t][b] = IF t = s /\ b = a THEN row ELSE prop[t][b]  BY <1>1
<1>4. PropsQuiet  BY <1>3 DEF PropsQuiet
<1>5. TasksQuiet  BY DEF TasksQuiet
<1> QED  BY <1>2, <1>4, <1>5 DEF Quiet, RunInv, TypeOK

LEMMA ReviewQuiet ==
  ASSUME RunInv, NEW s \in Steps, NEW a \in 1..Attempts, Edit(s, a) \/ Reject(s, a) \/ Undo(s, a)
  PROVE  Quiet /\ TypeOK'
<1>1. prop \in [Steps -> [1..Attempts -> ProposalRow]] /\ prop[s][a] \in ProposalRow  BY DEF RunInv, TypeOK
<1>2. accept' \in [Reviewers -> {NoAccept} \cup AcceptRow] /\ UNCHANGED <<run, step, task>>
  BY DEF RunInv, TypeOK, Edit, Reject, Undo
<1>3. CASE Edit(s, a)
  <2> DEFINE row == [prop[s][a] EXCEPT !.value = "edited"]
  <2>1. row \in ProposalRow /\ row.status = prop[s][a].status  BY <1>1 DEF ProposalRow, Values
  <2>2. prop' = [prop EXCEPT ![s][a] = row]  BY <1>1, <1>3 DEF Edit
  <2>3. prop[s][a].status \in {"pending", "drifted"}  BY <1>3 DEF Edit, Open
  <2> HIDE DEF row
  <2> QED  BY <1>2, <2>1, <2>2, <2>3, OneProposal DEF Written
<1>4. ASSUME NEW status \in {"rejected", "reverted"}, prop' = Decide(s, a, status), prop[s][a].status # "absent",
             status \in Written <=> prop[s][a].status \in Written
      PROVE  Quiet /\ TypeOK'
  <2> DEFINE row == [prop[s][a] EXCEPT !.status = status]
  <2>1. row \in ProposalRow /\ row.status = status /\ row.value = prop[s][a].value  BY <1>1 DEF ProposalRow
  <2>2. prop' = [prop EXCEPT ![s][a] = row]  BY <1>1, <1>4 DEF Decide
  <2> HIDE DEF row
  <2> QED  BY <1>2, <1>4, <2>1, <2>2, OneProposal
<1>5. CASE Reject(s, a)  BY <1>4, <1>5 DEF Reject, Open, Written
<1>6. CASE Undo(s, a)  BY <1>4, <1>6 DEF Undo, Written
<1> QED  BY <1>3, <1>5, <1>6

LEMMA AcceptQuiet ==
  ASSUME RunInv, NEW r \in Reviewers,
         \/ DriftAccept(r) \/ AbandonAccept(r)
         \/ \E s \in Steps, a \in 1..Attempts : LoadAccept(r, s, a)
  PROVE  Quiet /\ TypeOK'
<1>1. /\ prop \in [Steps -> [1..Attempts -> ProposalRow]]
      /\ accept \in [Reviewers -> {NoAccept} \cup AcceptRow] /\ accept[r] \in {NoAccept} \cup AcceptRow
  BY DEF RunInv, TypeOK
<1>2. ASSUME Answer(r)  PROVE accept' \in [Reviewers -> {NoAccept} \cup AcceptRow]  BY <1>1, <1>2 DEF Answer
<1>3. CASE AbandonAccept(r)
  BY <1>2, <1>3 DEF AbandonAccept, Quiet, TasksQuiet, PropsQuiet, RunInv, TypeOK
<1>4. CASE \E s \in Steps, a \in 1..Attempts : LoadAccept(r, s, a)
  <2>1. PICK s \in Steps, a \in 1..Attempts : LoadAccept(r, s, a)  BY <1>4
  <2>2. [step |-> s, attempt |-> a, status |-> prop[s][a].status] \in AcceptRow
    BY <2>1 DEF LoadAccept, Open, AcceptRow
  <2>3. accept' \in [Reviewers -> {NoAccept} \cup AcceptRow] /\ UNCHANGED <<run, step, task, prop>>
    BY <1>1, <2>1, <2>2 DEF LoadAccept
  <2> QED  BY <2>3 DEF Quiet, TasksQuiet, PropsQuiet, RunInv, TypeOK
<1>5. CASE DriftAccept(r)
  <2> DEFINE s == accept[r].step
             a == accept[r].attempt
             row == [prop[s][a] EXCEPT !.status = "drifted"]
  <2>1. s \in Steps /\ a \in 1..Attempts  BY <1>1, <1>5 DEF DriftAccept, AcceptRow
  <2>2. prop[s][a] \in ProposalRow /\ prop[s][a].status = "pending"
    BY <1>1, <1>5, <2>1 DEF DriftAccept, Unchanged
  <2>3. prop' = [prop EXCEPT ![s][a].status = "drifted"] /\ UNCHANGED <<run, step, task>> /\ Answer(r)
    BY <1>5 DEF DriftAccept, Decide
  <2>4. row \in ProposalRow /\ row.status = "drifted"  BY <2>2 DEF ProposalRow
  <2>5. prop' = [prop EXCEPT ![s][a] = row]  BY <1>1, <2>1, <2>3
  <2> HIDE DEF row, s, a
  <2> QED  BY <1>2, <2>1, <2>2, <2>3, <2>4, <2>5, OneProposal DEF Written
<1> QED  BY <1>3, <1>4, <1>5

\* The cancel closes the tasks of the running steps, or finds them just claimed.
LEMMA CancelCancels ==
  ASSUME RunInv, NEW claimed, Cancel(claimed)
  PROVE  Cancels /\ TypeOK'
<1>1. /\ task \in [Steps -> [1..Attempts -> TaskRow]] /\ prop \in [Steps -> [1..Attempts -> ProposalRow]]
      /\ Locked /\ run' = "cancelled" /\ UNCHANGED <<step, accept>>
  BY DEF RunInv, TypeOK, Cancel
<1>2. ASSUME NEW t \in TaskRow, NEW c
      PROVE  /\ CancelTask(t, c) \in TaskRow /\ CancelTask(t, c).inputs = t.inputs
             /\ CancelTask(t, c).status = "absent" <=> t.status = "absent"
             /\ t.status = "absent" => CancelTask(t, c) = t
             /\ CancelTask(t, c).status \in InFlight => t.status \in InFlight
             /\ t.unit = "done" => CancelTask(t, c).unit = "done"
  <2>1. CASE t.status \notin InFlight  BY <2>1 DEF CancelTask, InFlight
  <2>2. CASE t.status \in InFlight /\ c /\ t.unit = "queued"
    <3>1. CancelTask(t, c) = [t EXCEPT !.status = "in_progress", !.unit = "leased"]  BY <2>2 DEF CancelTask
    <3> QED  BY <2>2, <3>1 DEF TaskRow, InFlight
  <2>3. CASE t.status \in InFlight /\ ~(c /\ t.unit = "queued")
    <3>1. CancelTask(t, c) = [t EXCEPT !.status = "cancelled", !.unit = IF @ = "queued" THEN "cancelled" ELSE @]
      BY <2>3 DEF CancelTask
    <3>2. CASE t.unit = "queued"
      <4>1. CancelTask(t, c) = [t EXCEPT !.status = "cancelled", !.unit = "cancelled"]  BY <3>1, <3>2 DEF TaskRow
      <4> QED  BY <2>3, <3>2, <4>1 DEF TaskRow, InFlight
    <3>3. CASE t.unit # "queued"
      <4>1. CancelTask(t, c) = [t EXCEPT !.status = "cancelled"]  BY <3>1, <3>3 DEF TaskRow
      <4> QED  BY <2>3, <3>3, <4>1 DEF TaskRow, InFlight
    <3> QED  BY <3>2, <3>3
  <2> QED  BY <2>1, <2>2, <2>3
<1> DEFINE At(s, a) == step[s].status = "running" /\ step[s].task = a
           Late(s, a) == s \in claimed /\ task[s][a].status = "open"
<1>3. task' = [s \in Steps |-> [a \in 1..Attempts |->
                 IF At(s, a) THEN CancelTask(task[s][a], Late(s, a)) ELSE task[s][a]]]
  BY DEF Cancel
<1> HIDE DEF At, Late
<1>4. ASSUME NEW s \in Steps, NEW a \in 1..Attempts
      PROVE  task'[s][a] = task[s][a] \/ \E c : task'[s][a] = CancelTask(task[s][a], c)
  BY <1>3
<1>5. \A s \in Steps, a \in 1..Attempts : task[s][a] \in TaskRow  BY <1>1
<1>6. TasksQuiet
  <2> SUFFICES ASSUME NEW s \in Steps, NEW a \in 1..Attempts
               PROVE  /\ task'[s][a].inputs = task[s][a].inputs
                      /\ task'[s][a].status = "absent" <=> task[s][a].status = "absent"
                      /\ task[s][a].status = "absent" => task'[s][a] = task[s][a]
                      /\ task'[s][a].status \in InFlight => task[s][a].status \in InFlight
                      /\ task[s][a].unit = "done" => task'[s][a].unit = "done"
    BY DEF TasksQuiet
  <2>1. CASE task'[s][a] = task[s][a]  BY <2>1
  <2>2. CASE \E c : task'[s][a] = CancelTask(task[s][a], c)
    <3>1. PICK c : task'[s][a] = CancelTask(task[s][a], c)  BY <2>2
    <3> QED  BY <1>2, <1>5, <3>1
  <2> QED  BY <1>4, <2>1, <2>2
<1>7. task' \in [Steps -> [1..Attempts -> TaskRow]]
  <2>1. \A s \in Steps, a \in 1..Attempts :
           (IF At(s, a) THEN CancelTask(task[s][a], Late(s, a)) ELSE task[s][a]) \in TaskRow
    BY <1>2, <1>5
  <2> QED  BY <1>3, <2>1
<1>8. prop' = [s \in Steps |-> [a \in 1..Attempts |->
                 IF prop[s][a].status = "pending" THEN [prop[s][a] EXCEPT !.status = "rejected"] ELSE prop[s][a]]]
  BY DEF Cancel
<1>9. ASSUME NEW s \in Steps, NEW a \in 1..Attempts
      PROVE  /\ prop'[s][a] \in ProposalRow /\ prop'[s][a].value = prop[s][a].value
             /\ prop[s][a].status = "pending" => prop'[s][a].status = "rejected"
             /\ prop[s][a].status # "pending" => prop'[s][a].status = prop[s][a].status
  <2>1. prop'[s][a] = IF prop[s][a].status = "pending" THEN [prop[s][a] EXCEPT !.status = "rejected"]
                      ELSE prop[s][a]
    BY <1>8
  <2>2. prop[s][a] \in ProposalRow  BY <1>1
  <2> QED  BY <2>1, <2>2 DEF ProposalRow
<1>10. prop' \in [Steps -> [1..Attempts -> ProposalRow]]
  <2>1. /\ prop' = [s \in Steps |-> prop'[s]]
        /\ \A s \in Steps : prop'[s] = [a \in 1..Attempts |-> prop'[s][a]]
    BY <1>8
  <2>2. \A s \in Steps : prop'[s] \in [1..Attempts -> ProposalRow]  BY <1>9, <2>1
  <2> QED  BY <2>1, <2>2
<1>11. PropsQuiet  BY <1>9 DEF PropsQuiet, Written
<1> QED  BY <1>1, <1>6, <1>7, <1>10, <1>11 DEF Cancels, RunInv, TypeOK, Closed

-----------------------------------------------------------------------------
(* The steps that move the run *)

LEMMA StatusTyped ==
  ASSUME RunInv, NEW st
  PROVE  DeriveStatus(run, st) \in {"none", "running", "waiting", "failed"} \cup Closed
  BY DEF RunInv, TypeOK, DeriveStatus, Closed

\* What a step carries of an attempt is one of its attempts.
LEMMA RowBounds ==
  ASSUME NEW row \in StepRow
  PROVE  /\ row.task \in 0..Attempts /\ row.proposal \in 0..Attempts
         /\ row.task # 0 => row.task \in 1..Attempts
         /\ row.proposal # 0 => row.proposal \in 1..Attempts
         /\ row.task < Attempts => row.task + 1 \in 1..Attempts
  BY WorkflowAssumption DEF StepRow, WorkflowAssumption

\* The tasks new after a spawn of the steps S on the proposals pr.
SpawnedCells(new, st, S, pr) ==
    \A s \in Steps, a \in 1..Attempts :
        /\ NewCell(s, a, st, S) =>
              /\ new[s][a].status = "open"
              /\ \A n \in Needs[s] :
                    st[n].proposal # 0 => new[s][a].inputs[n] = pr[n][st[n].proposal].value
        /\ ~NewCell(s, a, st, S) => new[s][a] = task[s][a]

LEMMA SpawnsTasks ==
  ASSUME RunInv, NEW st \in [Steps -> StepRow], NEW S \in SUBSET Steps, NEW pr, NEW new,
         pr \in [Steps -> [1..Attempts -> ProposalRow]],
         \A s \in S : st[s].task < Attempts, new = SpawnedTasks(S, st, pr)
  PROVE  new \in [Steps -> [1..Attempts -> TaskRow]] /\ SpawnedCells(new, st, S, pr)
<1>1. task \in [Steps -> [1..Attempts -> TaskRow]]  BY DEF RunInv, TypeOK
<1>2. ASSUME NEW s \in Steps
      PROVE  /\ NewTask(s, st, pr) \in TaskRow /\ NewTask(s, st, pr).status = "open"
             /\ \A n \in Needs[s] :
                   st[n].proposal # 0 => NewTask(s, st, pr).inputs[n] = pr[n][st[n].proposal].value
  <2>1. ASSUME NEW n \in Needs[s], st[n].proposal # 0  PROVE pr[n][st[n].proposal].value \in Values
    <3>1. n \in Steps  BY RowTypes
    <3>2. st[n].proposal \in 1..Attempts  BY <2>1, <3>1, RowBounds
    <3> QED  BY <3>1, <3>2 DEF ProposalRow
  <2>2. Inputs(s, st, pr) \in [Needs[s] -> Values \cup {"none"}]  BY <2>1 DEF Inputs
  <2>3. NewTask(s, st, pr) \in TaskRow  BY <2>2 DEF NewTask, TaskRow, InFlight
  <2> QED  BY <2>3 DEF NewTask, Inputs
<1>3. ASSUME NEW s \in Steps, s \in S
      PROVE  new[s] = [task[s] EXCEPT ![st[s].task + 1] = NewTask(s, st, pr)] /\ st[s].task + 1 \in 1..Attempts
  BY <1>3, RowBounds DEF SpawnedTasks
<1>4. ASSUME NEW s \in Steps, s \notin S  PROVE new[s] = task[s]  BY <1>4 DEF SpawnedTasks
<1>5. new \in [Steps -> [1..Attempts -> TaskRow]]
  <2>1. \A s \in Steps : new[s] \in [1..Attempts -> TaskRow]
    <3>1. ASSUME NEW s \in Steps, s \in S  PROVE new[s] \in [1..Attempts -> TaskRow]
      <4>1. /\ task[s] \in [1..Attempts -> TaskRow] /\ NewTask(s, st, pr) \in TaskRow
            /\ new[s] = [task[s] EXCEPT ![st[s].task + 1] = NewTask(s, st, pr)]
        BY <1>1, <1>2, <1>3, <3>1
      <4> QED  BY <4>1
    <3> QED  BY <1>1, <1>4, <3>1
  <2> QED  BY <2>1 DEF SpawnedTasks
<1>6. ASSUME NEW s \in Steps, NEW a \in 1..Attempts, NewCell(s, a, st, S)  PROVE new[s][a] = NewTask(s, st, pr)
  BY <1>1, <1>3, <1>6 DEF NewCell
<1>7. ASSUME NEW s \in Steps, NEW a \in 1..Attempts, ~NewCell(s, a, st, S)  PROVE new[s][a] = task[s][a]
  <2>1. task[s] \in [1..Attempts -> TaskRow]  BY <1>1
  <2>2. CASE s \in S
    <3>1. a # st[s].task + 1  BY <1>7, <2>2 DEF NewCell
    <3>2. new[s] = [task[s] EXCEPT ![st[s].task + 1] = NewTask(s, st, pr)]  BY <1>3, <2>2
    <3> QED  BY <2>1, <3>1, <3>2
  <2>3. CASE s \notin S  BY <1>4, <2>3
  <2> QED  BY <2>2, <2>3
<1>8. SpawnedCells(new, st, S, pr)  BY <1>2, <1>6, <1>7 DEF SpawnedCells
<1> QED  BY <1>5, <1>8

\* One task of those spawned as mid may have been closed as well.
MidClosed(mid, st, S, pr) ==
    \A s \in Steps, a \in 1..Attempts :
        /\ pr[s][a].value = prop'[s][a].value
        /\ task'[s][a].inputs = mid[s][a].inputs /\ task'[s][a].unit = mid[s][a].unit
        /\ \/ task'[s][a].status = mid[s][a].status
           \/ task[s][a].status # "absent" /\ task'[s][a].status = "done" /\ ~NewCell(s, a, st, S)
        /\ task[s][a].status \in InFlight /\ task'[s][a].status \in InFlight =>
              s \notin S /\ st[s].status = "running"

\* The tasks after a move: the spawned ones are new, at most one other was closed.
LEMMA SpawnMoves ==
  ASSUME RunInv, NEW st \in [Steps -> StepRow], NEW S \in SUBSET Steps, NEW pr, NEW mid,
         SpawnedCells(mid, st, S, pr), MidClosed(mid, st, S, pr)
  PROVE  TasksMoved(st, S)
<1> SUFFICES ASSUME NEW s \in Steps, NEW a \in 1..Attempts
             PROVE  /\ NewCell(s, a, st, S) =>
                         /\ task'[s][a].status = "open"
                         /\ \A n \in Needs[s] :
                               st[n].proposal # 0 => task'[s][a].inputs[n] = prop'[n][st[n].proposal].value
                    /\ ~NewCell(s, a, st, S) =>
                         /\ task'[s][a].inputs = task[s][a].inputs
                         /\ task'[s][a].unit = task[s][a].unit
                         /\ task'[s][a].status = "absent" <=> task[s][a].status = "absent"
                         /\ task'[s][a].status \in InFlight =>
                               task[s][a].status \in InFlight /\ s \notin S /\ st[s].status = "running"
  BY DEF TasksMoved
<1>1. CASE NewCell(s, a, st, S)
  <2>1. task'[s][a].status = "open" /\ task'[s][a].inputs = mid[s][a].inputs  BY <1>1 DEF SpawnedCells, MidClosed
  <2>2. ASSUME NEW n \in Needs[s], st[n].proposal # 0
        PROVE  task'[s][a].inputs[n] = prop'[n][st[n].proposal].value
    <3>1. n \in Steps  BY RowTypes
    <3>2. st[n].proposal \in 1..Attempts  BY <2>2, <3>1, RowBounds
    <3>3. mid[s][a].inputs[n] = pr[n][st[n].proposal].value  BY <1>1, <2>2 DEF SpawnedCells
    <3>4. pr[n][st[n].proposal].value = prop'[n][st[n].proposal].value  BY <3>1, <3>2 DEF MidClosed
    <3> QED  BY <2>1, <3>3, <3>4
  <2> QED  BY <1>1, <2>1, <2>2
<1>2. CASE ~NewCell(s, a, st, S)
  <2>1. mid[s][a] = task[s][a]  BY <1>2 DEF SpawnedCells
  <2>2. \/ task'[s][a].status = task[s][a].status
        \/ task[s][a].status # "absent" /\ task'[s][a].status = "done"
    BY <2>1 DEF MidClosed
  <2>3. task'[s][a].status \in InFlight =>
           task[s][a].status \in InFlight /\ s \notin S /\ st[s].status = "running"
    BY <2>2 DEF InFlight, MidClosed
  <2> QED  BY <1>2, <2>1, <2>2, <2>3 DEF MidClosed
<1> QED  BY <1>1, <1>2

\* A step in the rows st of the run, all but one of them as they were.
LEMMA MovedOne ==
  ASSUME RunInv, NEW s \in Steps, NEW row \in StepRow, row.task = step[s].task,
         step[s].status \in Reviewable \cup {"running"}, row.status \in Reviewable \cup {"approved"},
         row.status \in {"review", "approved"} => row.proposal # 0,
         \A t \in Steps, b \in 1..Attempts :
            /\ prop'[t][b].status \in Written <=>
                  \/ prop[t][b].status \in Written
                  \/ t = s /\ row.status = "approved" /\ row.proposal = b
            /\ prop'[t][b].value = prop[t][b].value
            /\ prop'[t][b].status # "absent" => prop[t][b].status # "absent"
  PROVE  Moved([step EXCEPT ![s] = row])
<1>1. PICK st : st = [step EXCEPT ![s] = row]  OBVIOUS
<1>2. step \in [Steps -> StepRow]  BY DEF RunInv, TypeOK
<1>3. st \in [Steps -> StepRow] /\ \A t \in Steps : st[t] = IF t = s THEN row ELSE step[t]  BY <1>1, <1>2
<1>4. ASSUME NEW t \in Steps
      PROVE  /\ st[t].task = step[t].task
             /\ st[t].status = "waiting" <=> step[t].status = "waiting"
             /\ step[t].status = "approved" => st[t] = step[t]
             /\ st[t].status \in {"review", "approved"} => st[t].proposal # 0
  <2>1. CASE t = s  BY <1>3, <2>1 DEF Reviewable
  <2>2. CASE t # s  BY <1>3, <2>2 DEF RunInv, AttemptsInOrder
  <2> QED  BY <2>1, <2>2
<1>5. ASSUME NEW t \in Steps, NEW b \in 1..Attempts
      PROVE  prop'[t][b].status \in Written <=> st[t].status = "approved" /\ st[t].proposal = b
  <2>1. prop[t][b].status \in Written <=> step[t].status = "approved" /\ step[t].proposal = b
    BY DEF RunInv, ApprovedIffApplied, Written
  <2>2. CASE t = s  BY <1>3, <2>1, <2>2 DEF Reviewable
  <2>3. CASE t # s  BY <1>3, <2>1, <2>3
  <2> QED  BY <2>2, <2>3
<1>6. Moved(st)  BY <1>3, <1>4, <1>5 DEF Moved
<1> QED  BY <1>1, <1>6

\* What a step that moves leaves behind is of its type.
LEMMA MovesTyped ==
  ASSUME RunInv, NEW st, NEW S \in SUBSET Steps, Moves(st, S), task' \in [Steps -> [1..Attempts -> TaskRow]],
         prop' \in [Steps -> [1..Attempts -> ProposalRow]], accept' \in [Reviewers -> {NoAccept} \cup AcceptRow]
  PROVE  TypeOK'
<1>1. st \in [Steps -> StepRow]  BY DEF Moves, Moved
<1>2. Ready(st) \subseteq S /\ \A s \in S : st[s].status # "approved" /\ st[s].task < Attempts  BY DEF Moves
<1>3. PICK new : new = step'  OBVIOUS
<1>4. new = SpawnedSteps(S, st)  BY <1>3 DEF Moves
<1>5. new \in [Steps -> StepRow]
  <2>1. S \in SUBSET Steps  OBVIOUS
  <2> QED  BY <1>1, <1>2, <1>4, <2>1, Spawns
<1>6. run' = DeriveStatus(run, new)  BY <1>3 DEF Moves
<1>7. run' \in {"none", "running", "waiting", "failed"} \cup Closed  BY <1>6, StatusTyped
<1> QED  BY <1>3, <1>5, <1>7 DEF TypeOK

LEMMA LiveTask ==
  ASSUME RunInv, run # "cancelled", NEW s \in Steps, NEW a \in 1..Attempts, task[s][a].status \in InFlight
  PROVE  step[s].status = "running" /\ step[s].task = a
  BY DEF RunInv, OneLiveAttempt

\* A move that closes no task: a start, another attempt, an approval.
LEMMA SpawnOnly ==
  ASSUME RunInv, NEW st \in [Steps -> StepRow], NEW S \in SUBSET Steps, NEW pr,
         pr \in [Steps -> [1..Attempts -> ProposalRow]], task' = SpawnedTasks(S, st, pr),
         \A s \in S : st[s].task < Attempts,
         \A s \in Steps, a \in 1..Attempts : pr[s][a].value = prop'[s][a].value,
         \A s \in Steps, a \in 1..Attempts :
            task[s][a].status \in InFlight => s \notin S /\ st[s].status = "running"
  PROVE  TasksMoved(st, S) /\ task' \in [Steps -> [1..Attempts -> TaskRow]]
<1>1. PICK mid : mid = task'  OBVIOUS
<1>2. mid = SpawnedTasks(S, st, pr)  BY <1>1
<1>3. S \in SUBSET Steps /\ \A s \in S : st[s].task < Attempts  OBVIOUS
<1>4. mid \in [Steps -> [1..Attempts -> TaskRow]] /\ SpawnedCells(mid, st, S, pr)  BY <1>2, <1>3, SpawnsTasks
<1>5. MidClosed(mid, st, S, pr)  BY <1>1 DEF MidClosed
<1>6. TasksMoved(st, S)  BY <1>3, <1>4, <1>5, SpawnMoves
<1> QED  BY <1>1, <1>4, <1>6

LEMMA StartBegins ==
  ASSUME RunInv, Start
  PROVE  Begins /\ TypeOK'
<1>1. /\ step \in [Steps -> StepRow] /\ prop \in [Steps -> [1..Attempts -> ProposalRow]]
      /\ accept \in [Reviewers -> {NoAccept} \cup AcceptRow] /\ Attempts \in Nat \ {0}
  BY WorkflowAssumption DEF RunInv, TypeOK, WorkflowAssumption
<1>2. /\ run = "none" /\ step = InitialState /\ UNCHANGED <<prop, accept>>
      /\ task' = SpawnedTasks(Ready(step), step, prop) /\ step' = SpawnedSteps(Ready(step), step)
      /\ run' = DeriveStatus(run, step')
  BY DEF Start, SpawnReady, RunInv, StatusDerived
<1>3. \A s \in Steps : step[s].status = "waiting" /\ step[s].task = 0  BY <1>2 DEF InitialState
<1>4. PICK S \in SUBSET Steps : S = Ready(step)  BY DEF Ready
<1>5. Moved(step)
  BY <1>1, <1>2 DEF Moved, RunInv, AttemptsInOrder, ApprovedIffApplied, Written
<1>6. TasksMoved(step, S) /\ task' \in [Steps -> [1..Attempts -> TaskRow]]
  <2>1. ASSUME NEW s \in Steps, NEW a \in 1..Attempts  PROVE task[s][a].status \notin InFlight
    BY <1>2, <1>3, LiveTask
  <2>2. \A s \in S : step[s].task < Attempts  BY <1>1, <1>3
  <2>3. \A s \in Steps, a \in 1..Attempts : prop[s][a].value = prop'[s][a].value  BY <1>2
  <2> QED  BY <1>1, <1>2, <1>4, <2>1, <2>2, <2>3, SpawnOnly
<1>7. Moves(step, S)
  <2>1. \A s \in S : \A n \in Needs[s] : step[n].status = "approved"  BY <1>4 DEF Ready
  <2>2. \A s \in S : step[s].task < Attempts /\ step[s].status # "approved"  BY <1>1, <1>3
  <2> QED  BY <1>2, <1>4, <1>5, <1>6, <2>1, <2>2 DEF Moves
<1>8. TypeOK'  BY <1>1, <1>2, <1>6, <1>7, MovesTyped
<1> QED  BY <1>2, <1>4, <1>7, <1>8 DEF Begins

LEMMA RegenerateRepeats ==
  ASSUME RunInv, NEW s \in Steps, Regenerate(s)
  PROVE  Repeats(s) /\ TypeOK'
<1>1. /\ step \in [Steps -> StepRow] /\ prop \in [Steps -> [1..Attempts -> ProposalRow]]
      /\ accept' \in [Reviewers -> {NoAccept} \cup AcceptRow] /\ Attempts \in Nat \ {0}
  BY WorkflowAssumption DEF RunInv, TypeOK, WorkflowAssumption, Regenerate
<1>2. /\ Regenerable(s) /\ run # "cancelled" /\ run # "none" /\ step[s].task < Attempts
      /\ prop' = Superseded(prop, s, step[s].proposal)
      /\ task' = SpawnedTasks({s}, step, prop) /\ step' = SpawnedSteps({s}, step)
      /\ run' = DeriveStatus(run, step')
  BY DEF Regenerate, Locked, Closed, HasAttempts
<1>3. step[s].status \in Reviewable \cup {"running"}  BY <1>2 DEF Regenerable
<1>4. \A t \in Steps, b \in 1..Attempts :
         /\ prop'[t][b].value = prop[t][b].value
         /\ prop'[t][b].status \in Written <=> prop[t][b].status \in Written
         /\ prop'[t][b].status # "absent" => prop[t][b].status # "absent"
  <2>1. CASE UNCHANGED prop  BY <2>1
  <2>2. CASE prop' # prop
    <3> DEFINE p == step[s].proposal
               row == [prop[s][p] EXCEPT !.status = "superseded"]
    <3>1. p # 0 /\ prop[s][p].status = "pending" /\ prop' = [prop EXCEPT ![s][p].status = "superseded"]
      BY <1>2, <2>2 DEF Superseded
    <3>2. p \in 1..Attempts  BY <1>1, <3>1, RowBounds
    <3>3. prop[s][p] \in ProposalRow  BY <1>1, <3>2
    <3>4. row.status = "superseded" /\ row.value = prop[s][p].value  BY <3>3 DEF ProposalRow
    <3>5. \A t \in Steps, b \in 1..Attempts : prop'[t][b] = IF t = s /\ b = p THEN row ELSE prop[t][b]
      BY <1>1, <3>1, <3>2
    <3> HIDE DEF p, row
    <3> QED  BY <3>1, <3>4, <3>5 DEF Written
  <2> QED  BY <2>1, <2>2
<1>5. prop' \in [Steps -> [1..Attempts -> ProposalRow]]
  <2> DEFINE p == step[s].proposal
             row == [prop[s][p] EXCEPT !.status = "superseded"]
  <2>1. CASE UNCHANGED prop  BY <1>1, <2>1
  <2>2. CASE prop' # prop
    <3>1. p # 0 /\ prop' = [prop EXCEPT ![s][p].status = "superseded"]  BY <1>2, <2>2 DEF Superseded
    <3>2. p \in 1..Attempts  BY <1>1, <3>1, RowBounds
    <3>3. row \in ProposalRow
      <4>1. prop[s][p] \in ProposalRow  BY <1>1, <3>2
      <4> QED  BY <4>1 DEF ProposalRow
    <3>4. prop' = [prop EXCEPT ![s][p] = row]  BY <1>1, <3>1, <3>2
    <3> HIDE DEF row
    <3> QED  BY <1>1, <3>2, <3>3, <3>4
  <2> QED  BY <2>1, <2>2
<1>6. Moved(step)
  <2>1. \A t \in Steps : step[t].status \in {"review", "approved"} => step[t].proposal # 0
    BY DEF RunInv, AttemptsInOrder
  <2>2. \A t \in Steps, b \in 1..Attempts :
           prop[t][b].status \in Written <=> step[t].status = "approved" /\ step[t].proposal = b
    BY DEF RunInv, ApprovedIffApplied, Written
  <2> QED  BY <1>1, <1>4, <2>1, <2>2 DEF Moved
<1>7. PICK S \in SUBSET Steps : S = {s}  OBVIOUS
<1>8. ASSUME NEW t \in Steps, NEW b \in 1..Attempts, task[t][b].status \in InFlight
      PROVE  t \notin S /\ step[t].status = "running"
  <2>1. step[t].status = "running" /\ step[t].task = b  BY <1>2, <1>8, LiveTask
  <2>2. ASSUME t = s  PROVE FALSE
    BY <1>2, <1>8, <2>1, <2>2 DEF Regenerable, InFlight
  <2> QED  BY <1>7, <2>1, <2>2
<1>9. TasksMoved(step, S) /\ task' \in [Steps -> [1..Attempts -> TaskRow]]
  <2>1. \A t \in S : step[t].task < Attempts  BY <1>2, <1>7
  <2>2. \A t \in Steps, b \in 1..Attempts : prop[t][b].value = prop'[t][b].value  BY <1>4
  <2>3. task' = SpawnedTasks(S, step, prop) /\ S \in SUBSET Steps  BY <1>2, <1>7
  <2>4. \A t \in Steps, b \in 1..Attempts : task[t][b].status \in InFlight => t \notin S /\ step[t].status = "running"
    BY <1>8
  <2>5. step \in [Steps -> StepRow] /\ prop \in [Steps -> [1..Attempts -> ProposalRow]]  BY <1>1
  <2>6. TasksMoved(step, S)  BY <2>1, <2>2, <2>3, <2>4, <2>5, SpawnOnly
  <2>7. task' \in [Steps -> [1..Attempts -> TaskRow]]  BY <2>1, <2>3, <2>5, SpawnsTasks
  <2> QED  BY <2>6, <2>7
<1>10. Moves(step, S)
  <2>1. \A n \in Needs[s] : step[n].status = "approved"
    <3>1. step[s].task # 0  BY <1>3 DEF RunInv, AttemptsInOrder, Reviewable
    <3>2. step[s].task \in 1..Attempts  BY <1>1, <3>1, RowBounds
    <3>3. task[s][step[s].task].status # "absent"  BY <3>2 DEF RunInv, AttemptsInOrder
    <3> QED  BY <3>2, <3>3 DEF RunInv, InputsApproved
  <2>2. Ready(step) \subseteq S  BY <1>2 DEF RunInv, StatusDerived
  <2>3. \A t \in S : step[t].task < Attempts /\ step[t].status # "approved" /\ \A n \in Needs[t] : step[n].status = "approved"
    BY <1>2, <1>3, <1>7, <2>1 DEF Reviewable
  <2> QED  BY <1>2, <1>6, <1>7, <1>9, <2>2, <2>3 DEF Moves
<1>11. TypeOK'  BY <1>1, <1>5, <1>9, <1>10, MovesTyped
<1> QED  BY <1>3, <1>7, <1>10, <1>11 DEF Repeats

\* The hook of the current attempt finds its step running.
LEMMA HookFinds ==
  ASSUME RunInv, NEW s \in Steps, NEW a \in 1..Attempts, task[s][a].status = "in_progress", HookApplies(s, a)
  PROVE  /\ step[s].status = "running" /\ step[s].task = a /\ run # "cancelled" /\ Ready(step) = {}
         /\ \A t \in Steps, b \in 1..Attempts :
               task[t][b].status \in InFlight => step[t].status = "running" /\ step[t].task = b
<1>1. run # "cancelled" /\ step[s].task = a /\ step[s].status = "running"
  BY LiveTask DEF HookApplies, InFlight
<1>2. run # "none"
  BY <1>1 DEF RunInv, StatusDerived, InitialState
<1> QED  BY <1>1, <1>2, LiveTask DEF RunInv, StatusDerived

\* No proposal is written, edited or made.
PropsStand ==
    \A t \in Steps, b \in 1..Attempts :
        /\ prop'[t][b].status \in Written <=> prop[t][b].status \in Written
        /\ prop'[t][b].value = prop[t][b].value
        /\ prop'[t][b].status # "absent" => prop[t][b].status # "absent"

\* Its step goes into review or fails, and nothing is spawned.
LEMMA HookSettles ==
  ASSUME RunInv, NEW s \in Steps, NEW a \in 1..Attempts, task[s][a].status = "in_progress", HookApplies(s, a),
         NEW row \in StepRow, row.status \in Reviewable, row.task = a, row.status = "review" => row.proposal # 0,
         NEW status \in {"done", "failed"}, task' = [task EXCEPT ![s][a].status = status],
         step' = [step EXCEPT ![s] = row], run' = DeriveStatus(run, step'), UNCHANGED accept,
         prop' \in [Steps -> [1..Attempts -> ProposalRow]],
         PropsStand
  PROVE  Settles(s, row) /\ TypeOK'
<1>1. /\ step \in [Steps -> StepRow] /\ task \in [Steps -> [1..Attempts -> TaskRow]]
      /\ accept' \in [Reviewers -> {NoAccept} \cup AcceptRow]
  BY DEF RunInv, TypeOK
<1>2. /\ step[s].status = "running" /\ step[s].task = a /\ run # "cancelled" /\ Ready(step) = {}
      /\ \A t \in Steps, b \in 1..Attempts :
            task[t][b].status \in InFlight => step[t].status = "running" /\ step[t].task = b
  BY HookFinds
<1>3. PICK st : st = [step EXCEPT ![s] = row]  OBVIOUS
<1>4. /\ st \in [Steps -> StepRow] /\ \A t \in Steps : st[t] = IF t = s THEN row ELSE step[t]
      /\ step' = st
  BY <1>1, <1>3
<1>5. Moved(st)
  <2>1. row.status \in {"review", "approved"} => row.proposal # 0  BY DEF Reviewable
  <2>2. row.status # "approved"  BY DEF Reviewable
  <2>3. row.status \in Reviewable \cup {"approved"} /\ step[s].status \in Reviewable \cup {"running"}
    BY <1>2
  <2>4. row.task = step[s].task  BY <1>2
  <2>5. \A t \in Steps, b \in 1..Attempts :
           /\ prop'[t][b].status \in Written <=>
                 prop[t][b].status \in Written \/ (t = s /\ row.status = "approved" /\ row.proposal = b)
           /\ prop'[t][b].value = prop[t][b].value
           /\ prop'[t][b].status # "absent" => prop[t][b].status # "absent"
    BY <2>2 DEF PropsStand
  <2> QED  BY <1>3, <2>1, <2>3, <2>4, <2>5, MovedOne
<1>6. PICK new : new = [task[s][a] EXCEPT !.status = status]  OBVIOUS
<1>7. /\ new \in TaskRow /\ new.status = status /\ new.unit = task[s][a].unit
      /\ new.inputs = task[s][a].inputs
      /\ task' \in [Steps -> [1..Attempts -> TaskRow]]
      /\ \A t \in Steps, b \in 1..Attempts : task'[t][b] = IF t = s /\ b = a THEN new ELSE task[t][b]
  <2>0. PICK tasks : tasks = task'  OBVIOUS
  <2>1. task[s][a] \in TaskRow  BY <1>1
  <2>2. tasks = [task EXCEPT ![s][a] = new]  BY <1>1, <1>6, <2>0
  <2>3. \A t \in Steps, b \in 1..Attempts : tasks[t][b] = IF t = s /\ b = a THEN new ELSE task[t][b]
    BY <1>1, <2>2
  <2>4. new \in TaskRow /\ new.status = status /\ new.unit = task[s][a].unit /\ new.inputs = task[s][a].inputs
    BY <1>6, <2>1 DEF TaskRow
  <2>5. tasks \in [Steps -> [1..Attempts -> TaskRow]]  BY <1>1, <2>2, <2>4
  <2> QED  BY <2>0, <2>3, <2>4, <2>5
<1>8. TasksMoved(st, {})
  <2> SUFFICES ASSUME NEW t \in Steps, NEW b \in 1..Attempts
               PROVE  /\ task'[t][b].inputs = task[t][b].inputs
                      /\ task'[t][b].unit = task[t][b].unit
                      /\ task'[t][b].status = "absent" <=> task[t][b].status = "absent"
                      /\ task'[t][b].status \in InFlight =>
                            task[t][b].status \in InFlight /\ st[t].status = "running"
    BY DEF TasksMoved, NewCell
  <2>1. CASE t = s /\ b = a
    <3>1. /\ task'[t][b].status = status /\ task'[t][b].unit = task[t][b].unit
          /\ task'[t][b].inputs = task[t][b].inputs
      <4>1. task'[t][b] = new  BY <1>7, <2>1
      <4> QED  BY <1>7, <2>1, <4>1
    <3>2. status \notin InFlight /\ status # "absent" /\ task[t][b].status # "absent"  BY <2>1 DEF InFlight
    <3> QED  BY <3>1, <3>2
  <2>2. CASE ~(t = s /\ b = a)
    <3>1. task'[t][b] = task[t][b]  BY <1>7, <2>2
    <3>2. ASSUME task[t][b].status \in InFlight  PROVE st[t].status = "running"
      BY <1>2, <1>4, <2>2, <3>2
    <3> QED  BY <3>1, <3>2
  <2> QED  BY <2>1, <2>2
<1>9. task' \in [Steps -> [1..Attempts -> TaskRow]]  BY <1>7
<1>10. Moves(st, {})
  <2>1. Ready(st) = {}
    <3>1. ASSUME NEW t \in Ready(st)  PROVE FALSE
      <4>1. t \in Steps /\ st[t].status = "waiting" /\ \A n \in Needs[t] : st[n].status = "approved"
        BY <3>1 DEF Ready
      <4>2. t # s /\ step[t].status = "waiting"  BY <1>4, <4>1 DEF Reviewable
      <4>3. ASSUME NEW n \in Needs[t]  PROVE step[n].status = "approved"
        <5>1. n \in Steps /\ st[n].status = "approved"  BY <4>1, RowTypes
        <5>2. n # s  BY <1>4, <5>1 DEF Reviewable
        <5> QED  BY <1>4, <5>1, <5>2
      <4>4. t \in Ready(step)  BY <4>1, <4>2, <4>3 DEF Ready
      <4> QED  BY <1>2, <4>4
    <3> QED  BY <3>1
  <2>2. st = SpawnedSteps({}, st)
    <3>1. st = [t \in Steps |-> st[t]]  BY <1>4
    <3> QED  BY <3>1 DEF SpawnedSteps
  <2> QED  BY <1>2, <1>4, <1>5, <1>8, <2>1, <2>2 DEF Moves
<1>11. TypeOK'
  <2>1. {} \in SUBSET Steps  OBVIOUS
  <2> QED  BY <1>1, <1>9, <1>10, <2>1, MovesTyped
<1>12. Settles(s, row)  BY <1>2, <1>3, <1>10 DEF Settles
<1> QED  BY <1>11, <1>12

\* An approval, of the hook or of the operator: the write and what it spawns.
LEMMA ApprovalMoves ==
  ASSUME RunInv, NEW s \in Steps, NEW a \in 1..Attempts, run # "cancelled",
         step[s].status \in Reviewable \cup {"running"}, prop[s][a].status \in {"pending", "drifted"},
         NEW row \in StepRow, row.status = "approved", row.task = step[s].task, row.proposal = a,
         NEW st, st = [step EXCEPT ![s] = row], HasAttempts(Ready(st)), prop' = Decide(s, a, "applied"),
         TasksMoved(st, Ready(st)), task' \in [Steps -> [1..Attempts -> TaskRow]],
         step' = SpawnedSteps(Ready(st), st), run' = DeriveStatus(run, step'),
         accept' \in [Reviewers -> {NoAccept} \cup AcceptRow]
  PROVE  Approves(s, row) /\ TypeOK'
<1>1. step \in [Steps -> StepRow] /\ prop \in [Steps -> [1..Attempts -> ProposalRow]]
  BY DEF RunInv, TypeOK
<1>2. st \in [Steps -> StepRow] /\ \A t \in Steps : st[t] = IF t = s THEN row ELSE step[t]  BY <1>1
<1> DEFINE new == [prop[s][a] EXCEPT !.status = "applied"]
<1>3. new \in ProposalRow /\ new.status = "applied" /\ new.value = prop[s][a].value
  <2>1. prop[s][a] \in ProposalRow  BY <1>1
  <2> QED  BY <2>1 DEF ProposalRow
<1>4. prop' = [prop EXCEPT ![s][a] = new]  BY <1>1 DEF Decide
<1> HIDE DEF new
<1>5. /\ prop' \in [Steps -> [1..Attempts -> ProposalRow]]
      /\ \A t \in Steps, b \in 1..Attempts : prop'[t][b] = IF t = s /\ b = a THEN new ELSE prop[t][b]
  <2>1. PICK pr : pr = prop'  OBVIOUS
  <2>2. pr = [prop EXCEPT ![s][a] = new]  BY <1>4, <2>1
  <2>3. pr \in [Steps -> [1..Attempts -> ProposalRow]]  BY <1>1, <1>3, <2>2
  <2>4. \A t \in Steps, b \in 1..Attempts : pr[t][b] = IF t = s /\ b = a THEN new ELSE prop[t][b]
    BY <1>1, <2>2
  <2> QED  BY <2>1, <2>3, <2>4
<1>6. ASSUME NEW t \in Steps, NEW b \in 1..Attempts
      PROVE  /\ prop'[t][b].status \in Written <=>
                   prop[t][b].status \in Written \/ (t = s /\ row.status = "approved" /\ row.proposal = b)
             /\ prop'[t][b].value = prop[t][b].value
             /\ prop'[t][b].status # "absent" => prop[t][b].status # "absent"
  <2>1. CASE t = s /\ b = a  BY <1>3, <1>5, <2>1 DEF Written
  <2>2. CASE ~(t = s /\ b = a)  BY <1>5, <2>2
  <2> QED  BY <2>1, <2>2
<1>7. Moved(st)
  <2>1. row.proposal # 0  BY WorkflowAssumption DEF WorkflowAssumption
  <2> QED  BY <1>6, <2>1, MovedOne
<1>8. \A t \in Ready(st) : t \in Steps /\ st[t].status = "waiting" /\ \A n \in Needs[t] : st[n].status = "approved"
  BY DEF Ready
<1>9. \A t \in Ready(st) : st[t].task < Attempts  BY <1>2, <1>8 DEF HasAttempts
<1>10. Moves(st, Ready(st))  BY <1>7, <1>8, <1>9 DEF Moves
<1>11. TypeOK'
  <2>1. PICK S \in SUBSET Steps : S = Ready(st)  BY <1>8
  <2> QED  BY <1>5, <1>10, <2>1, MovesTyped
<1> QED  BY <1>10, <1>11 DEF Approves

\* The row of a step whose task has ended.
EndedRow(s, a, status) ==
    [status |-> status, task |-> step[s].task, proposal |-> IF Output(s, a) THEN a ELSE 0]

LEMMA OutcomeRow ==
  ASSUME RunInv, NEW s \in Steps, NEW a \in 1..Attempts, NEW status \in {"review", "failed", "approved"}
  PROVE  /\ EndedRow(s, a, status) \in StepRow /\ EndedRow(s, a, status).status = status
         /\ EndedRow(s, a, status).task = step[s].task
         /\ Output(s, a) => EndedRow(s, a, status).proposal = a
         /\ [Outcome(s, a) EXCEPT ![s].status = status] = [step EXCEPT ![s] = EndedRow(s, a, status)]
         /\ status = (IF Output(s, a) THEN "review" ELSE "failed") =>
               Outcome(s, a) = [step EXCEPT ![s] = EndedRow(s, a, status)]
<1>1. step \in [Steps -> StepRow] /\ step[s] \in StepRow  BY DEF RunInv, TypeOK
<1>2. step[s] = [status |-> step[s].status, task |-> step[s].task, proposal |-> step[s].proposal]
  BY <1>1 DEF StepRow
<1>3. PICK p \in 0..Attempts : p = IF Output(s, a) THEN a ELSE 0  BY WorkflowAssumption DEF WorkflowAssumption
<1>4. PICK row : row = [status |-> status, task |-> step[s].task, proposal |-> p]  OBVIOUS
<1>5. row \in StepRow /\ row.status = status /\ row.task = step[s].task /\ row.proposal = p
  BY <1>1, <1>4 DEF StepRow, Reviewable
<1>6. EndedRow(s, a, status) = row  BY <1>3, <1>4 DEF EndedRow
<1>7. PICK first : first = IF Output(s, a) THEN "review" ELSE "failed"  OBVIOUS
<1>8. Outcome(s, a) = [step EXCEPT ![s] = [status |-> first, task |-> step[s].task, proposal |-> p]]
  <2>1. Outcome(s, a) = [step EXCEPT ![s].status = first, ![s].proposal = p]  BY <1>3, <1>7 DEF Outcome
  <2>2. Outcome(s, a) = [step EXCEPT ![s] = [step[s] EXCEPT !.status = first, !.proposal = p]]  BY <1>1, <2>1
  <2>3. [step[s] EXCEPT !.status = first, !.proposal = p] =
           [status |-> first, task |-> step[s].task, proposal |-> p]
    <3>1. PICK old \in StepRow : old = step[s]  BY <1>1
    <3>2. PICK new : new = [old EXCEPT !.status = first, !.proposal = p]  OBVIOUS
    <3>3. new \in StepRow /\ new.status = first /\ new.task = old.task /\ new.proposal = p
      BY <1>7, <3>2 DEF StepRow, Reviewable
    <3>4. new = [status |-> new.status, task |-> new.task, proposal |-> new.proposal]  BY <3>3 DEF StepRow
    <3> QED  BY <3>1, <3>2, <3>3, <3>4
  <2> QED  BY <2>2, <2>3
<1>9. [Outcome(s, a) EXCEPT ![s].status = status] = [step EXCEPT ![s] = row]
  <2> DEFINE out == [status |-> first, task |-> step[s].task, proposal |-> p]
             st == [step EXCEPT ![s] = out]
  <2>1. st[s] = out /\ st \in [Steps -> {st[t] : t \in Steps}]  BY <1>1
  <2>2. [st EXCEPT ![s].status = status] = [st EXCEPT ![s] = [out EXCEPT !.status = status]]  BY <2>1
  <2>3. [out EXCEPT !.status = status] = row  BY <1>4
  <2>4. [st EXCEPT ![s] = row] = [step EXCEPT ![s] = row]  BY <1>1
  <2> QED  BY <1>8, <2>2, <2>3, <2>4
<1>10. first = status => Outcome(s, a) = [step EXCEPT ![s] = row]  BY <1>4, <1>8
<1> QED  BY <1>3, <1>5, <1>6, <1>7, <1>9, <1>10

\* What a decision with the given status leaves of the proposals.
Decided(new, status) ==
    \A t \in Steps, b \in 1..Attempts :
        /\ new[t][b].value = prop[t][b].value
        /\ new[t][b].status # "absent" => prop[t][b].status # "absent"
        /\ status = "drifted" => (new[t][b].status \in Written <=> prop[t][b].status \in Written)

\* A decision about an open proposal.
LEMMA DecidedQuietly ==
  ASSUME RunInv, NEW s \in Steps, NEW a \in 1..Attempts, prop[s][a].status \in {"pending", "drifted"},
         NEW status \in {"drifted", "applied"}, NEW new, new = [prop EXCEPT ![s][a].status = status]
  PROVE  new \in [Steps -> [1..Attempts -> ProposalRow]] /\ Decided(new, status)
<1>1. prop \in [Steps -> [1..Attempts -> ProposalRow]] /\ prop[s][a] \in ProposalRow  BY DEF RunInv, TypeOK
<1>2. PICK row : row = [prop[s][a] EXCEPT !.status = status]  OBVIOUS
<1>3. row \in ProposalRow /\ row.status = status /\ row.value = prop[s][a].value  BY <1>1, <1>2 DEF ProposalRow
<1>4. PICK pr : pr = new  OBVIOUS
<1>5. pr = [prop EXCEPT ![s][a] = row]  BY <1>1, <1>2, <1>4
<1>6. pr \in [Steps -> [1..Attempts -> ProposalRow]]  BY <1>1, <1>3, <1>5
<1>7. \A t \in Steps, b \in 1..Attempts : pr[t][b] = IF t = s /\ b = a THEN row ELSE prop[t][b]
  BY <1>1, <1>5
<1>8. ASSUME NEW t \in Steps, NEW b \in 1..Attempts
      PROVE  /\ pr[t][b].value = prop[t][b].value
             /\ pr[t][b].status # "absent" => prop[t][b].status # "absent"
             /\ status = "drifted" => (pr[t][b].status \in Written <=> prop[t][b].status \in Written)
  <2>1. CASE t = s /\ b = a  BY <1>3, <1>7, <2>1 DEF Written
  <2>2. CASE ~(t = s /\ b = a)  BY <1>7, <2>2
  <2> QED  BY <2>1, <2>2
<1>9. Decided(pr, status)  BY <1>8 DEF Decided
<1> QED  BY <1>4, <1>6, <1>9

\* An auto gate that writes: the task is closed, and what became ready is spawned.
LEMMA AutoApproves ==
  ASSUME RunInv, NEW s \in Steps, NEW a \in 1..Attempts, task[s][a].status = "in_progress",
         HookApplies(s, a), Output(s, a), NEW st, st = Approve(Outcome(s, a), s), HasAttempts(Ready(st)),
         prop' = Decide(s, a, "applied"),
         task' = [SpawnedTasks(Ready(st), st, prop') EXCEPT ![s][a].status = "done"],
         Move(SpawnedSteps(Ready(st), st)), UNCHANGED accept
  PROVE  Approves(s, EndedRow(s, a, "approved")) /\ TypeOK'
<1> DEFINE row == EndedRow(s, a, "approved")
<1>1. /\ step \in [Steps -> StepRow] /\ accept' \in [Reviewers -> {NoAccept} \cup AcceptRow]
      /\ \A t \in Steps, b \in 1..Attempts : task[t][b] \in TaskRow
  BY DEF RunInv, TypeOK
<1>2. /\ step[s].status = "running" /\ step[s].task = a /\ run # "cancelled"
      /\ \A t \in Steps, b \in 1..Attempts :
            task[t][b].status \in InFlight => step[t].status = "running" /\ step[t].task = b
  BY HookFinds
<1>3. row \in StepRow /\ row.status = "approved" /\ row.task = step[s].task /\ row.proposal = a
  BY OutcomeRow
<1>4. st = [step EXCEPT ![s] = row]
  <2>1. st = [Outcome(s, a) EXCEPT ![s].status = "approved"]  BY DEF Approve
  <2> QED  BY <2>1, OutcomeRow
<1> HIDE DEF row
<1>5. st \in [Steps -> StepRow] /\ \A t \in Steps : st[t] = IF t = s THEN row ELSE step[t]  BY <1>1, <1>3, <1>4
<1>6. PICK S \in SUBSET Steps : S = Ready(st)  BY DEF Ready
<1>7. \A t \in S : st[t].status = "waiting" /\ st[t].task < Attempts
  <2>1. \A t \in S : st[t].status = "waiting" /\ t \in Steps  BY <1>6 DEF Ready
  <2>2. \A t \in S : step[t].task < Attempts  BY <1>6 DEF HasAttempts
  <2> QED  BY <1>3, <1>5, <2>1, <2>2
<1>8. s \notin S  BY <1>3, <1>5, <1>7
<1>9. PICK pr : pr = prop'  OBVIOUS
<1>10. pr \in [Steps -> [1..Attempts -> ProposalRow]]
  <2>1. pr = [prop EXCEPT ![s][a].status = "applied"]  BY <1>9 DEF Decide
  <2>2. prop[s][a].status \in {"pending", "drifted"}  BY DEF Output
  <2> QED  BY <2>1, <2>2, DecidedQuietly
<1>11. PICK mid : mid = SpawnedTasks(S, st, pr)  OBVIOUS
<1>12. mid \in [Steps -> [1..Attempts -> TaskRow]] /\ SpawnedCells(mid, st, S, pr)
  <2>1. S \in SUBSET Steps /\ \A t \in S : st[t].task < Attempts  BY <1>7
  <2> QED  BY <1>5, <1>10, <1>11, <2>1, SpawnsTasks
<1>13. PICK tasks : tasks = task'  OBVIOUS
<1>14. tasks = [mid EXCEPT ![s][a].status = "done"]  BY <1>6, <1>9, <1>11, <1>13
<1>15. PICK cell : cell = [mid[s][a] EXCEPT !.status = "done"]  OBVIOUS
<1>16. /\ cell \in TaskRow /\ cell.status = "done" /\ cell.unit = mid[s][a].unit
       /\ cell.inputs = mid[s][a].inputs
  <2>1. mid[s][a] \in TaskRow  BY <1>12
  <2> QED  BY <1>15, <2>1 DEF TaskRow
<1>17. tasks = [mid EXCEPT ![s][a] = cell]  BY <1>12, <1>14, <1>15
<1>18. /\ tasks \in [Steps -> [1..Attempts -> TaskRow]]
       /\ \A t \in Steps, b \in 1..Attempts : tasks[t][b] = IF t = s /\ b = a THEN cell ELSE mid[t][b]
  BY <1>12, <1>16, <1>17
<1>19. ASSUME NEW t \in Steps, NEW b \in 1..Attempts
       PROVE  /\ pr[t][b].value = prop'[t][b].value
              /\ task'[t][b].inputs = mid[t][b].inputs /\ task'[t][b].unit = mid[t][b].unit
              /\ \/ task'[t][b].status = mid[t][b].status
                 \/ task[t][b].status # "absent" /\ task'[t][b].status = "done" /\ ~NewCell(t, b, st, S)
              /\ task[t][b].status \in InFlight /\ task'[t][b].status \in InFlight =>
                    t \notin S /\ st[t].status = "running"
  <2>1. CASE t = s /\ b = a
    <3>1. task'[t][b] = cell  BY <1>13, <1>18, <2>1
    <3>2. ~NewCell(t, b, st, S) /\ task[t][b].status # "absent"  BY <1>8, <2>1 DEF NewCell
    <3> QED  BY <1>9, <1>16, <2>1, <3>1, <3>2 DEF InFlight
  <2>2. CASE ~(t = s /\ b = a)
    <3>1. task'[t][b] = mid[t][b]  BY <1>13, <1>18, <2>2
    <3>2. ASSUME task[t][b].status \in InFlight  PROVE t \notin S /\ st[t].status = "running"
      <4>1. step[t].status = "running" /\ step[t].task = b  BY <1>2, <3>2
      <4>2. t # s  BY <1>2, <2>2, <4>1
      <4>3. st[t].status = "running"  BY <1>5, <4>1, <4>2
      <4> QED  BY <1>7, <4>3
    <3> QED  BY <1>9, <3>1, <3>2
  <2> QED  BY <2>1, <2>2
<1>20. TasksMoved(st, S)
  <2>1. S \in SUBSET Steps  OBVIOUS
  <2>2. MidClosed(mid, st, S, pr)  BY <1>19 DEF MidClosed
  <2> QED  BY <1>5, <1>12, <2>1, <2>2, SpawnMoves
<1>21. step' = SpawnedSteps(Ready(st), st) /\ run' = DeriveStatus(run, step')  BY DEF Move
<1>22. task' \in [Steps -> [1..Attempts -> TaskRow]]  BY <1>13, <1>18
<1>23. prop[s][a].status \in {"pending", "drifted"} /\ step[s].status \in Reviewable \cup {"running"}
  BY <1>2 DEF Output
<1>24. Approves(s, row) /\ TypeOK'
  BY <1>1, <1>2, <1>3, <1>4, <1>6, <1>20, <1>21, <1>22, <1>23, ApprovalMoves
<1> QED  BY <1>24 DEF row

LEMMA FinishEffect ==
  ASSUME RunInv, NEW s \in Steps, NEW a \in 1..Attempts, Finish(s, a)
  PROVE  Effect /\ TypeOK'
<1>1. task[s][a].status = "in_progress" /\ UNCHANGED accept  BY DEF Finish
<1>2. step \in [Steps -> StepRow] /\ prop \in [Steps -> [1..Attempts -> ProposalRow]]  BY DEF RunInv, TypeOK
<1>3. ASSUME NEW row \in StepRow, Settles(s, row), TypeOK'  PROVE Effect /\ TypeOK'  BY <1>3 DEF Effect
<1>4. CASE HookApplies(s, a) /\ Output(s, a) /\ s \in AutoGates
  <2>1. step[s].task = a  BY <1>1, <1>4, HookFinds
  <2>2. AutoApprove(s, a)  BY <1>4, Zenon DEF Finish
  <2>3. CASE /\ HasAttempts(Ready(Approve(Outcome(s, a), s)))
             /\ prop' = Decide(s, a, "applied")
             /\ task' = [SpawnedTasks(Ready(Approve(Outcome(s, a), s)), Approve(Outcome(s, a), s), prop')
                           EXCEPT ![s][a].status = "done"]
             /\ Move(SpawnedSteps(Ready(Approve(Outcome(s, a), s)), Approve(Outcome(s, a), s)))
    <3>1. PICK st : st = Approve(Outcome(s, a), s)  OBVIOUS
    <3>2. /\ HasAttempts(Ready(st)) /\ prop' = Decide(s, a, "applied")
          /\ task' = [SpawnedTasks(Ready(st), st, prop') EXCEPT ![s][a].status = "done"]
          /\ Move(SpawnedSteps(Ready(st), st))
      BY <2>3, <3>1
    <3>3. Approves(s, EndedRow(s, a, "approved")) /\ TypeOK'  BY <1>1, <1>4, <3>1, <3>2, AutoApproves
    <3>4. PICK row \in StepRow : row = EndedRow(s, a, "approved")  BY OutcomeRow
    <3> QED  BY <3>3, <3>4 DEF Effect
  <2>4. CASE /\ prop' = Decide(s, a, "drifted") /\ Move(Outcome(s, a))
             /\ task' = [task EXCEPT ![s][a].status = "done"]
    <3>1. PICK row \in StepRow : row = EndedRow(s, a, "review")  BY OutcomeRow
    <3>2. row.status = "review" /\ row.task = a /\ row.proposal # 0 /\ Outcome(s, a) = [step EXCEPT ![s] = row]
      <4>1. a # 0  BY WorkflowAssumption DEF WorkflowAssumption
      <4> QED  BY <1>4, <2>1, <3>1, <4>1, OutcomeRow
    <3>3. step' = [step EXCEPT ![s] = row] /\ run' = DeriveStatus(run, step')  BY <2>4, <3>2 DEF Move
    <3>4. PICK pr : pr = prop'  OBVIOUS
    <3>5. pr = [prop EXCEPT ![s][a].status = "drifted"]  BY <2>4, <3>4 DEF Decide
    <3>6. prop[s][a].status \in {"pending", "drifted"}  BY <1>4 DEF Output
    <3>7. /\ pr \in [Steps -> [1..Attempts -> ProposalRow]]
          /\ \A t \in Steps, b \in 1..Attempts :
                /\ pr[t][b].status \in Written <=> prop[t][b].status \in Written
                /\ pr[t][b].value = prop[t][b].value
                /\ pr[t][b].status # "absent" => prop[t][b].status # "absent"
      <4>1. PICK status \in {"drifted", "applied"} : status = "drifted"  OBVIOUS
      <4>2. pr = [prop EXCEPT ![s][a].status = status]  BY <3>5, <4>1
      <4>3. pr \in [Steps -> [1..Attempts -> ProposalRow]]  BY <3>6, <4>2, DecidedQuietly
      <4>4. Decided(pr, status)  BY <3>6, <4>2, DecidedQuietly
      <4> QED  BY <4>1, <4>3, <4>4 DEF Decided
    <3>8. row.status \in Reviewable  BY <3>2 DEF Reviewable
    <3>9. PropsStand /\ prop' \in [Steps -> [1..Attempts -> ProposalRow]]  BY <3>4, <3>7 DEF PropsStand
    <3>10. PICK status \in {"done", "failed"} : task' = [task EXCEPT ![s][a].status = status]  BY <2>4
    <3>11. Settles(s, row) /\ TypeOK'
      BY <1>1, <1>4, <3>2, <3>3, <3>8, <3>9, <3>10, HookSettles
    <3> QED  BY <1>3, <3>11
  <2>5. CASE /\ Move([Outcome(s, a) EXCEPT ![s].status = "failed"]) /\ UNCHANGED prop
             /\ task' = [task EXCEPT ![s][a].status = "done"]
    <3>1. PICK row \in StepRow : row = EndedRow(s, a, "failed")  BY OutcomeRow
    <3>2. /\ row.status = "failed" /\ row.task = a
          /\ [Outcome(s, a) EXCEPT ![s].status = "failed"] = [step EXCEPT ![s] = row]
      BY <2>1, <3>1, OutcomeRow
    <3>3. step' = [step EXCEPT ![s] = row] /\ run' = DeriveStatus(run, step')  BY <2>5, <3>2 DEF Move
    <3>4. row.status \in Reviewable /\ row.status # "review"  BY <3>2 DEF Reviewable
    <3>5. PICK status \in {"done", "failed"} : task' = [task EXCEPT ![s][a].status = status]  BY <2>5
    <3>6. PropsStand /\ prop' \in [Steps -> [1..Attempts -> ProposalRow]]  BY <1>2, <2>5 DEF PropsStand
    <3>7. Settles(s, row) /\ TypeOK'
      BY <1>1, <1>4, <3>2, <3>3, <3>4, <3>5, <3>6, HookSettles
    <3> QED  BY <1>3, <3>7
  <2> QED  BY <2>2, <2>3, <2>4, <2>5 DEF AutoApprove
<1>5. CASE ~(HookApplies(s, a) /\ Output(s, a) /\ s \in AutoGates)
  <2>1. /\ task' = [task EXCEPT ![s][a].status = IF task[s][a].unit = "done" THEN "done" ELSE "failed"]
        /\ IF HookApplies(s, a) THEN Move(Outcome(s, a)) ELSE UNCHANGED <<run, step>>
        /\ UNCHANGED prop
    BY <1>5, Zenon DEF Finish
  <2>2. PICK status \in {"done", "failed"} : task' = [task EXCEPT ![s][a].status = status]  BY <2>1
  <2>3. CASE ~HookApplies(s, a)
    <3>1. UNCHANGED <<run, step, prop, accept>>  BY <1>1, <2>1, <2>3
    <3> QED  BY <1>1, <2>2, <3>1, ClosedQuiet DEF Effect
  <2>4. CASE HookApplies(s, a)
    <3>1. PICK first \in {"review", "failed", "approved"} : first = IF Output(s, a) THEN "review" ELSE "failed"
      OBVIOUS
    <3>2. PICK row \in StepRow : row = EndedRow(s, a, first)  BY OutcomeRow
    <3>3. /\ row.status = first /\ row.task = step[s].task /\ (Output(s, a) => row.proposal = a)
          /\ Outcome(s, a) = [step EXCEPT ![s] = row]
      BY <3>1, <3>2, OutcomeRow
    <3>4. row.status \in Reviewable /\ row.task = a /\ (row.status = "review" => row.proposal # 0)
      <4>1. a # 0  BY WorkflowAssumption DEF WorkflowAssumption
      <4>2. step[s].task = a  BY <1>1, <2>4, HookFinds
      <4>3. first \in Reviewable /\ (first = "review" => Output(s, a))  BY <3>1, Zenon DEF Reviewable
      <4> QED  BY <3>3, <4>1, <4>2, <4>3
    <3>5. step' = [step EXCEPT ![s] = row] /\ run' = DeriveStatus(run, step')  BY <2>1, <2>4, <3>3 DEF Move
    <3>6. PropsStand /\ prop' \in [Steps -> [1..Attempts -> ProposalRow]]  BY <1>2, <2>1 DEF PropsStand
    <3>7. Settles(s, row) /\ TypeOK'
      BY <1>1, <2>2, <2>4, <3>4, <3>5, <3>6, HookSettles
    <3> QED  BY <1>3, <3>7
  <2> QED  BY <2>3, <2>4
<1> QED  BY <1>4, <1>5

\* The operator's accept, under the lock of the run.
LEMMA CommitApproves ==
  ASSUME RunInv, NEW r \in Reviewers, CommitAccept(r)
  PROVE  Effect /\ TypeOK'
<1>1. /\ step \in [Steps -> StepRow] /\ prop \in [Steps -> [1..Attempts -> ProposalRow]]
      /\ accept \in [Reviewers -> {NoAccept} \cup AcceptRow]
  BY DEF RunInv, TypeOK
<1>2. accept[r] \in AcceptRow  BY <1>1 DEF CommitAccept
<1>3. PICK s \in Steps, a \in 1..Attempts : s = accept[r].step /\ a = accept[r].attempt  BY <1>2 DEF AcceptRow
<1>4. /\ Approvable(s, a) /\ HasAttempts(Ready(Approve(step, s))) /\ prop' = Decide(s, a, "applied")
      /\ SpawnReady(Approve(step, s), prop') /\ Answer(r) /\ Unchanged(r)
  BY <1>3 DEF CommitAccept
<1>5. /\ step[s].proposal = a /\ step[s].status \in Reviewable /\ run # "cancelled"
      /\ prop[s][a].status \in {"pending", "drifted"}
      /\ accept' \in [Reviewers -> {NoAccept} \cup AcceptRow]
  BY <1>1, <1>2, <1>3, <1>4 DEF Approvable, Locked, Closed, Unchanged, AcceptRow, Answer
<1>6. PICK row : row = [step[s] EXCEPT !.status = "approved"]  OBVIOUS
<1>7. row \in StepRow /\ row.status = "approved" /\ row.task = step[s].task /\ row.proposal = a
  <2>1. step[s] \in StepRow  BY <1>1
  <2> QED  BY <1>5, <1>6, <2>1 DEF StepRow
<1>8. PICK st : st = Approve(step, s)  OBVIOUS
<1>9. st = [step EXCEPT ![s] = row]  BY <1>1, <1>6, <1>8 DEF Approve
<1>10. st \in [Steps -> StepRow] /\ \A t \in Steps : st[t] = IF t = s THEN row ELSE step[t]  BY <1>1, <1>7, <1>9
<1>11. PICK S \in SUBSET Steps : S = Ready(st)  BY DEF Ready
<1>12. \A t \in S : st[t].status = "waiting" /\ st[t].task < Attempts
  <2>1. \A t \in S : st[t].status = "waiting" /\ t \in Steps  BY <1>11 DEF Ready
  <2>2. \A t \in S : step[t].task < Attempts  BY <1>4, <1>8, <1>11 DEF HasAttempts
  <2> QED  BY <1>7, <1>10, <2>1, <2>2
<1>13. PICK pr : pr = prop'  OBVIOUS
<1>14. pr \in [Steps -> [1..Attempts -> ProposalRow]]
  <2>1. pr = [prop EXCEPT ![s][a].status = "applied"]  BY <1>4, <1>13 DEF Decide
  <2> QED  BY <1>5, <2>1, DecidedQuietly
<1>15. ASSUME NEW t \in Steps, NEW b \in 1..Attempts, task[t][b].status \in InFlight
       PROVE  t \notin S /\ st[t].status = "running"
  <2>1. step[t].status = "running"  BY <1>5, <1>15, LiveTask
  <2>2. t # s  BY <1>5, <2>1 DEF Reviewable
  <2>3. st[t].status = "running"  BY <1>10, <2>1, <2>2
  <2> QED  BY <1>12, <2>3
<1>16. /\ task' = SpawnedTasks(S, st, pr) /\ step' = SpawnedSteps(Ready(st), st)
       /\ run' = DeriveStatus(run, step')
  BY <1>4, <1>8, <1>11, <1>13 DEF SpawnReady
<1>17. TasksMoved(st, S) /\ task' \in [Steps -> [1..Attempts -> TaskRow]]
  <2>1. S \in SUBSET Steps /\ \A t \in S : st[t].task < Attempts  BY <1>12
  <2>2. \A t \in Steps, b \in 1..Attempts : pr[t][b].value = prop'[t][b].value  BY <1>13
  <2>3. \A t \in Steps, b \in 1..Attempts : task[t][b].status \in InFlight => t \notin S /\ st[t].status = "running"
    BY <1>15
  <2>4. task' \in [Steps -> [1..Attempts -> TaskRow]]  BY <1>10, <1>14, <1>16, <2>1, SpawnsTasks
  <2>5. TasksMoved(st, S)  BY <1>10, <1>14, <1>16, <2>1, <2>2, <2>3, SpawnOnly
  <2> QED  BY <2>4, <2>5
<1>18. HasAttempts(Ready(st)) /\ prop' = Decide(s, a, "applied")  BY <1>4, <1>8
<1>19. Approves(s, row) /\ TypeOK'
  BY <1>5, <1>7, <1>9, <1>11, <1>16, <1>17, <1>18, ApprovalMoves
<1> QED  BY <1>7, <1>19 DEF Effect

-----------------------------------------------------------------------------
(* Every step, and the theorems *)

LEMMA StepEffect ==
  ASSUME RunInv, [Next]_vars
  PROVE  Effect /\ TypeOK'
<1>1. CASE UNCHANGED vars
  BY <1>1 DEF vars, Effect, Quiet, TasksQuiet, PropsQuiet, RunInv, TypeOK
<1>2. CASE Start  BY <1>2, StartBegins DEF Effect
<1>3. CASE \E claimed \in SUBSET Steps : Cancel(claimed)  BY <1>3, CancelCancels DEF Effect
<1>4. CASE \E s \in Steps : Regenerate(s)  BY <1>4, RegenerateRepeats DEF Effect
<1>5. CASE \E s \in Steps, a \in 1..Attempts : QueueStep(s, a) \/ ReviewStep(s, a)
  <2>1. PICK s \in Steps, a \in 1..Attempts : QueueStep(s, a) \/ ReviewStep(s, a)  BY <1>5
  <2>2. CASE Claim(s, a)  BY <2>2, ClaimQuiet DEF Effect
  <2>3. CASE UnitFails(s, a) \/ StoreFails(s, a)
    <3>1. SetUnit(s, a, "failed") /\ task[s][a].unit \in {"leased", "storing"} /\ UNCHANGED <<run, step, prop, accept>>
      BY <2>3 DEF UnitFails, StoreFails
    <3> QED  BY <3>1, UnitQuiet DEF Effect
  <2>4. CASE Deliver(s, a)  BY <2>4, DeliverQuiet DEF Effect
  <2>5. CASE Store(s, a)  BY <2>5, StoreQuiet DEF Effect
  <2>6. CASE Finish(s, a)  BY <2>6, FinishEffect
  <2>7. CASE Edit(s, a) \/ Reject(s, a) \/ Undo(s, a)  BY <2>7, ReviewQuiet DEF Effect
  <2>8. CASE CloseTask(s, a)  BY <2>8, CloseQuiet DEF Effect
  <2>9. CASE FinishHookFails(s, a)
    <3>1. PICK status \in {"done", "failed"} : task' = [task EXCEPT ![s][a].status = status]
      BY <2>9 DEF FinishHookFails
    <3>2. task[s][a].status = "in_progress" /\ UNCHANGED <<run, step, prop, accept>>  BY <2>9 DEF FinishHookFails
    <3> QED  BY <3>1, <3>2, ClosedQuiet DEF Effect
  <2> QED  BY <2>1, <2>2, <2>3, <2>4, <2>5, <2>6, <2>7, <2>8, <2>9 DEF QueueStep, ReviewStep
<1>6. CASE \E s \in Steps, a \in 1..Attempts, r \in Reviewers : LoadAccept(r, s, a)
  BY <1>6, AcceptQuiet DEF Effect
<1>7. CASE \E r \in Reviewers : DriftAccept(r) \/ AbandonAccept(r)  BY <1>7, AcceptQuiet DEF Effect
<1>8. CASE \E r \in Reviewers : CommitAccept(r)  BY <1>8, CommitApproves
<1> QED  BY <1>1, <1>2, <1>3, <1>4, <1>5, <1>6, <1>7, <1>8 DEF Next

LEMMA EffectKeeps ==
  ASSUME RunInv, TypeOK', Effect
  PROVE  RunInv'
<1>1. CASE Quiet \/ Cancels  BY <1>1, QuietKeeps DEF Quiet, Cancels, Locked
<1>2. CASE Begins
  <2>1. PICK S \in SUBSET Steps : S = Ready(step)  BY DEF Ready
  <2>2. PICK st : st = step  OBVIOUS
  <2> QED  BY <1>2, <2>1, <2>2, MovesKeeps DEF Begins
<1>3. CASE \E s \in Steps : Repeats(s)
  <2>1. PICK s \in Steps : Repeats(s)  BY <1>3
  <2>2. PICK S \in SUBSET Steps : S = {s}  OBVIOUS
  <2>3. PICK st : st = step  OBVIOUS
  <2> QED  BY <2>1, <2>2, <2>3, MovesKeeps DEF Repeats
<1>4. CASE \E s \in Steps, row \in StepRow : Settles(s, row)
  <2>1. PICK s \in Steps, row \in StepRow : Settles(s, row)  BY <1>4
  <2>2. PICK S \in SUBSET Steps : S = {}  OBVIOUS
  <2>3. PICK st : st = [step EXCEPT ![s] = row]  OBVIOUS
  <2> QED  BY <2>1, <2>2, <2>3, MovesKeeps DEF Settles
<1>5. CASE \E s \in Steps, row \in StepRow : Approves(s, row)
  <2>1. PICK s \in Steps, row \in StepRow : Approves(s, row)  BY <1>5
  <2>2. PICK st : st = [step EXCEPT ![s] = row]  OBVIOUS
  <2>3. PICK S \in SUBSET Steps : S = Ready(st)  BY DEF Ready
  <2> QED  BY <2>1, <2>2, <2>3, MovesKeeps DEF Approves
<1> QED  BY <1>1, <1>2, <1>3, <1>4, <1>5 DEF Effect

\* A run is sound between any two steps: one attempt at a step at a time,
\* counted and worked once, and a status its steps account for (RunInv).
THEOREM RunIsSound == Spec => []RunInv
<1>1. Init => RunInv
  <2> SUFFICES ASSUME Init  PROVE RunInv
    OBVIOUS
  <2>1. /\ run = "none" /\ step = InitialState /\ accept = [r \in Reviewers |-> NoAccept]
        /\ \A s \in Steps : step[s].status = "waiting" /\ step[s].task = 0 /\ step[s].proposal = 0
        /\ \A s \in Steps, a \in 1..Attempts : task[s][a] = NoTask /\ prop[s][a] = NoProposal
    BY DEF Init, InitialState
  <2>2. TypeOK
    <3>1. task \in [Steps -> [1..Attempts -> TaskRow]] /\ prop \in [Steps -> [1..Attempts -> ProposalRow]]
      BY RowTypes DEF Init
    <3> QED  BY <2>1, <3>1, RowTypes DEF TypeOK
  <2>3. \A s \in Steps, a \in 1..Attempts :
           task[s][a].status = "absent" /\ task[s][a].unit = "none" /\ prop[s][a].status = "absent"
    BY <2>1 DEF NoTask, NoProposal
  <2>4. AttemptsInOrder  BY <2>1, <2>3, WorkflowAssumption DEF AttemptsInOrder, WorkflowAssumption
  <2>5. OneLiveAttempt /\ WorkedOnce /\ StatusDerived
    BY <2>1, <2>3 DEF OneLiveAttempt, WorkedOnce, StatusDerived, InFlight
  <2>6. InputsApproved /\ ApprovedIffApplied  BY <2>1, <2>3 DEF InputsApproved, ApprovedIffApplied
  <2> QED  BY <2>2, <2>4, <2>5, <2>6 DEF RunInv
<1>2. RunInv /\ [Next]_vars => RunInv'  BY StepEffect, EffectKeeps
<1> QED  BY <1>1, <1>2, PTL DEF Spec

\* A step works on the outputs that were approved for it, and they stay what
\* they were (_spawn_ready, _inputs).
THEOREM InputsStayApproved == Spec => []InputsApproved
<1>1. RunInv => InputsApproved  BY DEF RunInv
<1> QED  BY <1>1, RunIsSound, PTL

\* The writes of a run are the outputs of its approved steps, no more and no
\* less (guard_apply, on_proposal_applied).
THEOREM WritesAreApprovals == Spec => []ApprovedIffApplied
<1>1. RunInv => ApprovedIffApplied  BY DEF RunInv
<1> QED  BY <1>1, RunIsSound, PTL

\* An open run has something in flight or something to decide: nothing wedges
\* it (derive_status, _regenerable).
THEOREM RunNeverWedged == Spec => []NeverWedged
<1>1. RunInv => NeverWedged
  <2> SUFFICES ASSUME RunInv, Locked
               PROVE  \E s \in Steps : \/ step[s].status = "running" /\ task[s][step[s].task].status \in InFlight
                                       \/ Regenerable(s)
    BY DEF NeverWedged
  <2>1. run \in {"running", "failed", "waiting"}  BY DEF Locked, Closed, RunInv, TypeOK
  <2>2. step \in [Steps -> StepRow] /\ task \in [Steps -> [1..Attempts -> TaskRow]]  BY DEF RunInv, TypeOK
  <2>3. PICK s \in Steps : step[s].status \in {"running", "failed", "review"}
    BY <2>1 DEF RunInv, StatusDerived
  <2>4. CASE step[s].status = "running"
    <3>1. step[s].task # 0  BY <2>4 DEF RunInv, AttemptsInOrder
    <3>2. step[s].task \in 1..Attempts  BY <2>2, <3>1, RowBounds
    <3>3. task[s][step[s].task].status # "absent"  BY <3>2 DEF RunInv, AttemptsInOrder
    <3>4. task[s][step[s].task] \in TaskRow  BY <2>2, <3>2
    <3> QED  BY <2>4, <3>3, <3>4 DEF TaskRow, Regenerable
  <2>5. CASE step[s].status # "running"  BY <2>3, <2>5 DEF Regenerable, Reviewable
  <2> QED  BY <2>4, <2>5
<1> QED  BY <1>1, RunIsSound, PTL

\* After a cancel no step of the run moves, none is spawned and nothing is
\* written, in whatever order what was under way arrives (cancel).
THEOREM CancelIsFinal == Spec => CancelledRunStands
<1>1. RunInv /\ [Next]_vars =>
        [run = "cancelled" =>
           /\ UNCHANGED <<run, step>>
           /\ \A s \in Steps, a \in 1..Attempts :
                 /\ task[s][a].status = "absent" => UNCHANGED task[s][a]
                 /\ prop'[s][a].status = "applied" => prop[s][a].status = "applied"]_vars
  <2> SUFFICES ASSUME RunInv, [Next]_vars, run = "cancelled"
               PROVE  /\ UNCHANGED <<run, step>>
                      /\ \A s \in Steps, a \in 1..Attempts :
                            /\ task[s][a].status = "absent" => UNCHANGED task[s][a]
                            /\ prop'[s][a].status = "applied" => prop[s][a].status = "applied"
    OBVIOUS
  <2>1. Effect  BY StepEffect
  <2>2. Quiet
    BY <2>1 DEF Effect, Cancels, Locked, Closed, Begins, Repeats, Settles, Approves, Moves
  <2> QED  BY <2>2 DEF Quiet, TasksQuiet, PropsQuiet
<1> QED  BY <1>1, RunIsSound, PTL DEF Spec, CancelledRunStands

-----------------------------------------------------------------------------
(* A run keeps the promise of RunLife *)

\* The phases of any rows, and those of the run's.
PhaseOf(st) == [s \in Steps |-> IF st[s].status \in Reviewable THEN "settled" ELSE st[s].status]
Phases == [s \in Steps |-> Phase(s)]

\* What is spawned when everything ready is: RunLife's Begun.
LEMMA SpawnBegins ==
  ASSUME NEW st \in [Steps -> StepRow]
  PROVE  PhaseOf(SpawnedSteps(Ready(st), st)) = Life!Begun(PhaseOf(st))
<1>1. PICK new : new = SpawnedSteps(Ready(st), st)  OBVIOUS
<1>2. \A s \in Steps : s \in Ready(st) => new[s].status = "running"  BY <1>1 DEF SpawnedSteps
<1>3. \A s \in Steps : s \notin Ready(st) => new[s] = st[s]  BY <1>1 DEF SpawnedSteps
<1>4. PICK p : p = PhaseOf(st)  OBVIOUS
<1>5. \A s \in Steps : p[s] = IF st[s].status \in Reviewable THEN "settled" ELSE st[s].status
  BY <1>4 DEF PhaseOf
<1>6. ASSUME NEW s \in Steps
      PROVE  s \in Ready(st) <=> p[s] = "waiting" /\ Needs[s] \subseteq Life!Approved(p)
  <2>1. st[s].status = "waiting" <=> p[s] = "waiting"  BY <1>5 DEF Reviewable
  <2>2. \A n \in Steps : st[n].status = "approved" <=> p[n] = "approved"  BY <1>5 DEF Reviewable
  <2>3. Needs[s] \subseteq Steps  BY RowTypes
  <2>4. (\A n \in Needs[s] : st[n].status = "approved") <=> Needs[s] \subseteq Life!Approved(p)
    BY <2>2, <2>3 DEF Life!Approved
  <2> QED  BY <2>1, <2>4 DEF Ready
<1>7. ASSUME NEW s \in Steps
      PROVE  (IF new[s].status \in Reviewable THEN "settled" ELSE new[s].status) =
             (IF p[s] = "waiting" /\ Needs[s] \subseteq Life!Approved(p) THEN "running" ELSE p[s])
  <2>1. CASE s \in Ready(st)
    <3>1. new[s].status = "running"  BY <1>2, <2>1
    <3>2. p[s] = "waiting" /\ Needs[s] \subseteq Life!Approved(p)  BY <1>6, <2>1
    <3> QED  BY <3>1, <3>2 DEF Reviewable
  <2>2. CASE s \notin Ready(st)
    <3>1. new[s] = st[s]  BY <1>3, <2>2
    <3>2. ~(p[s] = "waiting" /\ Needs[s] \subseteq Life!Approved(p))  BY <1>6, <2>2
    <3> QED  BY <1>5, <3>1, <3>2
  <2> QED  BY <2>1, <2>2
<1>8. PhaseOf(new) = Life!Begun(p)  BY <1>7 DEF PhaseOf, Life!Begun
<1> QED  BY <1>1, <1>4, <1>8

\* A run that is not cancelled is not cancelled by a move.
LEMMA MovesOpen ==
  ASSUME NEW st, NEW S, Moves(st, S)
  PROVE  run # "cancelled" /\ run' # "cancelled"
<1>1. run # "cancelled"  BY DEF Moves
<1>2. PICK new : run' = DeriveStatus(run, new)  BY DEF Moves
<1> QED  BY <1>1, <1>2 DEF DeriveStatus

LEMMA MovesPhases ==
  ASSUME RunInv, NEW st, NEW S, Moves(st, S)
  PROVE  /\ st \in [Steps -> StepRow] /\ step' = SpawnedSteps(S, st)
         /\ Phases = PhaseOf(step) /\ Phases' = PhaseOf(step')
  BY DEF Moves, Moved, Phases, Phase, PhaseOf

\* Every effect is a step of RunLife, or none.
LEMMA EffectIsLife ==
  ASSUME RunInv, Effect
  PROVE  Life!Next \/ (Phases' = Phases /\ (run' # "cancelled") = (run # "cancelled"))
<1>1. CASE Quiet
  BY <1>1 DEF Quiet, Phases, Phase
<1>2. CASE Cancels
  <2>1. Phases' = Phases  BY <1>2 DEF Cancels, Phases, Phase
  <2>2. (run # "cancelled") = TRUE /\ (run' # "cancelled") = FALSE  BY <1>2 DEF Cancels, Locked, Closed
  <2>3. Life!Close  BY <2>1, <2>2 DEF Life!Close, Phases
  <2> QED  BY <2>3 DEF Life!Next
<1>3. ASSUME NEW st, NEW S, Moves(st, S)
      PROVE  (run # "cancelled") = TRUE /\ (run' # "cancelled") = TRUE
  BY <1>3, MovesOpen
<1>4. CASE Begins
  <2>1. Moves(step, Ready(step)) /\ run = "none"  BY <1>4 DEF Begins
  <2>2. /\ step \in [Steps -> StepRow] /\ step' = SpawnedSteps(Ready(step), step)
        /\ Phases = PhaseOf(step) /\ Phases' = PhaseOf(step')
    BY <2>1, MovesPhases
  <2>3. Phases' = Life!Begun(Phases)  BY <2>2, SpawnBegins
  <2>4. Life!Approved(Phases) = {}
    <3>1. \A s \in Steps : step[s].status = "waiting"  BY <2>1 DEF RunInv, StatusDerived, InitialState
    <3> QED  BY <3>1 DEF Life!Approved, Phases, Phase, Reviewable
  <2>5. Life!Begin  BY <1>3, <2>1, <2>3, <2>4 DEF Life!Begin, Phases
  <2> QED  BY <2>5 DEF Life!Next
<1>5. CASE \E s \in Steps : Repeats(s)
  <2>1. PICK s \in Steps : Repeats(s)  BY <1>5
  <2>2. Moves(step, {s}) /\ step[s].status \in Reviewable \cup {"running"}  BY <2>1 DEF Repeats
  <2>3. /\ step \in [Steps -> StepRow] /\ step' = SpawnedSteps({s}, step)
        /\ Phases = PhaseOf(step) /\ Phases' = PhaseOf(step')
    BY <2>2, MovesPhases
  <2>4. PICK new : new = step'  OBVIOUS
  <2>5. new[s].status = "running" /\ \A t \in Steps : t # s => new[t] = step[t]
    BY <2>3, <2>4 DEF SpawnedSteps
  <2>6. PhaseOf(new) = [PhaseOf(step) EXCEPT ![s] = "running"]  BY <2>5 DEF PhaseOf, Reviewable
  <2>7. CASE step[s].status \in Reviewable
    <3>1. Phases[s] = "settled"  BY <2>7 DEF Phases, Phase
    <3>2. Phases' = [Phases EXCEPT ![s] = "running"]  BY <2>3, <2>4, <2>6
    <3>3. Life!Repeat(s)  BY <1>3, <2>2, <3>1, <3>2 DEF Life!Repeat, Phases
    <3> QED  BY <3>3 DEF Life!Next
  <2>8. CASE step[s].status = "running"
    <3>1. [PhaseOf(step) EXCEPT ![s] = "running"] = PhaseOf(step)  BY <2>8 DEF PhaseOf, Reviewable
    <3> QED  BY <1>3, <2>2, <2>3, <2>4, <2>6, <3>1
  <2> QED  BY <2>2, <2>7, <2>8
<1>6. CASE \E s \in Steps, row \in StepRow : Settles(s, row)
  <2>1. PICK s \in Steps, row \in StepRow : Settles(s, row)  BY <1>6
  <2>2. PICK st : st = [step EXCEPT ![s] = row]  OBVIOUS
  <2>3. step[s].status = "running" /\ row.status \in Reviewable /\ Moves(st, {})  BY <2>1, <2>2 DEF Settles
  <2>4. /\ st \in [Steps -> StepRow] /\ step' = SpawnedSteps({}, st)
        /\ Phases = PhaseOf(step) /\ Phases' = PhaseOf(step')
    BY <2>3, MovesPhases
  <2>5. SpawnedSteps({}, st) = st
    <3>1. st = [t \in Steps |-> st[t]]  BY <2>4
    <3> QED  BY <3>1 DEF SpawnedSteps
  <2>6. step \in [Steps -> StepRow]  BY DEF RunInv, TypeOK
  <2>7. PhaseOf(st) = [PhaseOf(step) EXCEPT ![s] = "settled"]  BY <2>2, <2>3, <2>6 DEF PhaseOf
  <2>8. Phases' = [Phases EXCEPT ![s] = "settled"]  BY <2>4, <2>5, <2>7
  <2>9. Phases[s] = "running"  BY <2>3 DEF Phases, Phase, Reviewable
  <2>10. Life!Settle(s)  BY <1>3, <2>3, <2>8, <2>9 DEF Life!Settle, Phases
  <2> QED  BY <2>10 DEF Life!Next
<1>7. CASE \E s \in Steps, row \in StepRow : Approves(s, row)
  <2>1. PICK s \in Steps, row \in StepRow : Approves(s, row)  BY <1>7
  <2>2. PICK st : st = [step EXCEPT ![s] = row]  OBVIOUS
  <2>3. /\ step[s].status \in Reviewable \cup {"running"} /\ row.status = "approved" /\ Moves(st, Ready(st))
    BY <2>1, <2>2 DEF Approves
  <2>4. /\ st \in [Steps -> StepRow] /\ step' = SpawnedSteps(Ready(st), st)
        /\ Phases = PhaseOf(step) /\ Phases' = PhaseOf(step')
    BY <2>3, MovesPhases
  <2>5. step \in [Steps -> StepRow]  BY DEF RunInv, TypeOK
  <2>6. PhaseOf(st) = [PhaseOf(step) EXCEPT ![s] = "approved"]
    BY <2>2, <2>3, <2>5 DEF PhaseOf, Reviewable
  <2>7. Phases' = Life!Begun([Phases EXCEPT ![s] = "approved"])  BY <2>4, <2>6, SpawnBegins
  <2>8. Phases[s] \in {"running", "settled"}  BY <2>3 DEF Phases, Phase, Reviewable
  <2>9. Life!Approve(s)  BY <1>3, <2>3, <2>7, <2>8 DEF Life!Approve, Phases
  <2> QED  BY <2>9 DEF Life!Next
<1> QED  BY <1>1, <1>2, <1>4, <1>5, <1>6, <1>7 DEF Effect

\* The run, its tasks and proposals do to the steps what RunLife allows and
\* nothing else: start, settle, repeat, approve and cancel are its actions.
THEOREM RunKeepsLife == Spec => LifeSpec
<1>1. Init => Life!Init
  <2> SUFFICES ASSUME Init  PROVE Life!Init
    OBVIOUS
  <2>1. \A s \in Steps : Phase(s) = "waiting"  BY DEF Init, InitialState, Phase, Reviewable
  <2>2. (run # "cancelled") = TRUE  BY DEF Init
  <2> QED  BY <2>1, <2>2 DEF Life!Init
<1>2. RunInv /\ [Next]_vars => [Life!Next]_<<Phases, run # "cancelled">>
  <2> SUFFICES ASSUME RunInv, [Next]_vars
               PROVE  Life!Next \/ (Phases' = Phases /\ (run' # "cancelled") = (run # "cancelled"))
    OBVIOUS
  <2> QED  BY StepEffect, EffectIsLife
<1> QED  BY <1>1, <1>2, RunIsSound, PTL DEF Spec, LifeSpec, Life!Spec, Phases

=============================================================================
