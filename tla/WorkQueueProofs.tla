--------------------------- MODULE WorkQueueProofs ---------------------------
(***************************************************************************)
(* Theorems about WorkQueue for every value of its constants.              *)
(***************************************************************************)
EXTENDS WorkQueue, FiniteInduction, FiniteSetTheorems, TLAPS

-----------------------------------------------------------------------------
(* Rows and how the actions change them *)

\* A process row with some of its fields replaced is a process row.
LEMMA IdleType == QueueAssumption => Idle \in ProcRow
  BY DEF QueueAssumption, Idle, ProcRow, InstancePc

\* The initial state satisfies the invariant.
LEMMA InitInv == Init => LeaseInv
<1> SUFFICES ASSUME Init PROVE LeaseInv  OBVIOUS
<1>1. \A p \in Process : proc[p] = Idle  BY DEF Init
<1>2. \A u \in Unit : unit[u] = AbsentUnit  BY DEF Init
<1>3. AbsentUnit \in UnitRow  BY QueueAssumption DEF QueueAssumption, AbsentUnit, UnitRow, TerminalUnit
<1>4. TypeOK
  <2>1. task \in [Task -> [status : OpenStatus \cup ClosedStatus, failed : Nat, over : BOOLEAN]]
    BY DEF Init, OpenStatus
  <2>2. worker \in [paused : BOOLEAN, resuming : BOOLEAN, streak : [Instance -> 0..PauseAfter]]
    BY QueueAssumption DEF Init, QueueAssumption
  <2>3. unit \in [Unit -> UnitRow] /\ proc \in [Process -> ProcRow]
    BY <1>3, IdleType, QueueAssumption DEF Init
  <2> QED  BY <2>1, <2>2, <2>3, QueueAssumption DEF Init, TypeOK, QueueAssumption
<1>5. UnitInv /\ ResultsCountOnce
  <2>1. MaxAttempts \in Nat /\ MaxAttempts > 0  BY QueueAssumption DEF QueueAssumption
  <2>2. \A u \in Unit : /\ unit[u].status = "absent" /\ unit[u].token = 0
                        /\ unit[u].attempts = 0 /\ unit[u].taken = {}
    BY <1>2 DEF AbsentUnit
  <2>3. UnitInv  BY <2>1, <2>2 DEF UnitInv
  <2>4. ResultsCountOnce  BY <2>2 DEF ResultsCountOnce
  <2> QED  BY <2>3, <2>4
<1>6. ProcInv /\ NoSharedLease
  BY <1>1 DEF ProcInv, ProcRowInv, NoSharedLease, Carries, Idle, InstancePc, ReaperPc, Process
<1> QED  BY <1>4, <1>5, <1>6 DEF LeaseInv

\* Queueing or cancelling the units of S.
LEMMA SetStatusRows ==
  ASSUME unit \in [Unit -> UnitRow], NEW S \in SUBSET Unit,
         NEW s \in {"queued", "cancelled"}, unit' = SetStatus(S, s)
  PROVE  /\ unit' \in [Unit -> UnitRow]
         /\ \A u \in Unit : /\ unit'[u].token = unit[u].token
                            /\ unit'[u].attempts = unit[u].attempts
                            /\ unit'[u].taken = unit[u].taken
                            /\ unit'[u].status = IF u \in S THEN s ELSE unit[u].status
<1>1. ASSUME NEW u \in Unit
      PROVE  /\ unit'[u] \in UnitRow
             /\ unit'[u].token = unit[u].token
             /\ unit'[u].attempts = unit[u].attempts
             /\ unit'[u].taken = unit[u].taken
             /\ unit'[u].status = IF u \in S THEN s ELSE unit[u].status
  <2>1. CASE u \in S
    <3>1. unit'[u] = [unit[u] EXCEPT !.status = s, !.wait = 0]  BY <2>1 DEF SetStatus
    <3>2. unit[u] \in UnitRow  OBVIOUS
    <3> HIDE DEF SetStatus
    <3>3. unit'[u] = [status |-> s, token |-> unit[u].token, attempts |-> unit[u].attempts,
                      ttl |-> unit[u].ttl, wait |-> 0, holder |-> unit[u].holder,
                      good |-> unit[u].good, taken |-> unit[u].taken]
      BY <3>1, <3>2 DEF UnitRow
    <3> QED  BY <3>2, <3>3, <2>1 DEF UnitRow, TerminalUnit
  <2>2. CASE u \notin S
    <3>1. unit'[u] = unit[u]  BY <2>2 DEF SetStatus
    <3> QED  BY <3>1, <2>2
  <2> QED  BY <2>1, <2>2
<1> QED  BY <1>1 DEF SetStatus

-----------------------------------------------------------------------------
(* The invariant of the processes: one actor moves, the others stand still *)

\* When only p moves, the invariant of the processes is kept if p's own row satisfies it, no unit
\* loses attempts, no transaction of another process loses the lease it checked, and p carries no
\* token another process carries.
LEMMA ProcStep ==
  ASSUME ProcInv, NoSharedLease, unit \in [Unit -> UnitRow], unit' \in [Unit -> UnitRow],
         NEW p \in Process,
         \A q \in Process : q # p => proc'[q] = proc[q],
         \A u \in Unit : unit'[u].attempts >= unit[u].attempts,
         \A q \in Instance : (q # p /\ proc[q].pc = "store") => HoldsLease(q)',
         ProcRowInv(p)',
         \A q \in Instance : (p \in Instance /\ q # p /\ Carries(p)' /\ Carries(q)) =>
             ~(proc'[p].unit = proc[q].unit /\ proc'[p].token = proc[q].token)
  PROVE  ProcInv' /\ NoSharedLease'
<1>1. ASSUME NEW q \in Process, q # p  PROVE ProcRowInv(q)'
  <2>1. ProcRowInv(q) /\ proc'[q] = proc[q]  BY <1>1 DEF ProcInv
  <2>2. ASSUME Carries(q)
        PROVE  proc[q].token \in 1..unit'[proc[q].unit].attempts
    BY <2>1, <2>2 DEF ProcRowInv, UnitRow
  <2>3. proc[q].pc = "store" => q \in Instance  BY <2>1 DEF ProcRowInv, ReaperPc, Process
  <2> QED  BY <2>1, <2>2, <2>3, <1>1 DEF ProcRowInv, Carries
<1>2. NoSharedLease'
  BY DEF NoSharedLease, Carries, Process
<1> QED  BY <1>1, <1>2 DEF ProcInv

-----------------------------------------------------------------------------
(* What the actions do to the units *)

\* The part of the invariant that is about units, after a step.
UnitsFine ==
    /\ unit' \in [Unit -> UnitRow] /\ UnitInv' /\ ResultsCountOnce'
    /\ \A u \in Unit : unit'[u].attempts >= unit[u].attempts

\* No lease ends in the step.
LeasesStay ==
    \A u \in Unit : unit[u].status = "leased" =>
        unit'[u].status = "leased" /\ unit'[u].token = unit[u].token

\* What a step may do to the units: nothing but deadlines, queue new ones, cancel queued ones,
\* hand one out, or end one lease.
Alike(u) == /\ unit'[u].status = unit[u].status
            /\ unit'[u].attempts = unit[u].attempts /\ unit'[u].taken = unit[u].taken
MoveAll(S, from, to) ==
    /\ \A u \in S : /\ unit[u].status = from /\ unit'[u].status = to
                    /\ unit'[u].attempts = unit[u].attempts /\ unit'[u].taken = unit[u].taken
    /\ \A u \in Unit \ S : Alike(u)
HandedOut(u) ==
    /\ unit[u].status = "queued" /\ unit'[u].status = "leased" /\ unit[u].attempts < MaxAttempts
    /\ unit'[u].attempts = unit[u].attempts + 1 /\ unit'[u].taken = unit[u].taken
    /\ \E l \in Lane \cup {AnyLane, None} : Claimable(l) /\ InLane(u, l)
LeaseEnded(u) ==
    /\ unit[u].status = "leased" /\ unit'[u].attempts = unit[u].attempts
    /\ \/ unit'[u].status = "queued" /\ unit[u].attempts < MaxAttempts /\ unit'[u].taken = unit[u].taken
       \/ unit'[u].status \in {"failed", "cancelled"} /\ unit'[u].taken = unit[u].taken
       \/ unit'[u].status = "done" /\ unit'[u].taken = unit[u].taken \cup {unit[u].attempts}
UnitMove ==
    \/ \A u \in Unit : Alike(u)
    \/ \E S \in SUBSET Unit : MoveAll(S, "absent", "queued") \/ MoveAll(S, "queued", "cancelled")
    \/ \E u \in Unit : (HandedOut(u) \/ LeaseEnded(u)) /\ \A v \in Unit \ {u} : Alike(v)

\* A process that holds a lease it checked still holds it when no lease ends.
LEMMA StillHeld ==
  ASSUME ProcInv, LeasesStay, NEW q \in Instance, proc[q].pc = "store", proc'[q] = proc[q]
  PROVE  HoldsLease(q)'
<1>1. ProcRowInv(q)  BY DEF ProcInv, Process
<1>2. proc[q].unit \in Unit /\ HoldsLease(q)  BY <1>1 DEF ProcRowInv, Carries
<1> QED  BY <1>2 DEF LeasesStay, HoldsLease, HoldsToken, Row

LEMMA UnitsUnchanged ==
  ASSUME TypeOK, UnitInv, ResultsCountOnce, UNCHANGED unit
  PROVE  UnitsFine /\ LeasesStay /\ UnitMove
<1>1. unit \in [Unit -> UnitRow] /\ unit' \in [Unit -> UnitRow]  BY DEF TypeOK
<1>2. UnitInv' /\ ResultsCountOnce'  BY DEF UnitInv, ResultsCountOnce
<1>3. \A u \in Unit : unit'[u].attempts >= unit[u].attempts  BY <1>1 DEF UnitRow
<1>4. UnitMove  BY DEF UnitMove, Alike
<1> QED  BY <1>1, <1>2, <1>3, <1>4 DEF UnitsFine, LeasesStay

\* Planned units are queued without a lease.
LEMMA QueueUnits ==
  ASSUME TypeOK, UnitInv, ResultsCountOnce, NEW t, NEW S \in SUBSET Unplanned(t),
         unit' = SetStatus(S, "queued")
  PROVE  UnitsFine /\ LeasesStay /\ UnitMove
<1>1. S \subseteq Unit /\ \A u \in S : unit[u].status = "absent"  BY DEF Unplanned
<1>2. unit \in [Unit -> UnitRow]  BY DEF TypeOK
<1>3. /\ unit' \in [Unit -> UnitRow]
      /\ \A u \in Unit : /\ unit'[u].token = unit[u].token
                         /\ unit'[u].attempts = unit[u].attempts
                         /\ unit'[u].taken = unit[u].taken
                         /\ unit'[u].status = IF u \in S THEN "queued" ELSE unit[u].status
  BY <1>1, <1>2, SetStatusRows
<1>4. UnitInv'  BY <1>1, <1>3 DEF UnitInv
<1>5. ResultsCountOnce'  BY <1>1, <1>3 DEF ResultsCountOnce
<1>6. \A u \in Unit : unit'[u].attempts >= unit[u].attempts  BY <1>2, <1>3 DEF UnitRow
<1>7. MoveAll(S, "absent", "queued")  BY <1>1, <1>3 DEF MoveAll, Alike
<1>8. UnitMove  BY <1>1, <1>7 DEF UnitMove
<1> QED  BY <1>1, <1>3, <1>4, <1>5, <1>6, <1>8 DEF UnitsFine, LeasesStay

\* Only queued units are cancelled with their task.
LEMMA CancelledUnits ==
  ASSUME TypeOK, UnitInv, ResultsCountOnce, NEW t, CancelUnits(t)
  PROVE  UnitsFine /\ LeasesStay /\ UnitMove
<1> DEFINE S == WithStatus(UnitsOf(t), "queued")
<1>1. S \subseteq Unit /\ \A u \in S : unit[u].status = "queued"  BY DEF WithStatus, UnitsOf
<1>2. unit \in [Unit -> UnitRow] /\ unit' = SetStatus(S, "cancelled")  BY DEF TypeOK, CancelUnits
<1> HIDE DEF S
<1>3. /\ unit' \in [Unit -> UnitRow]
      /\ \A u \in Unit : /\ unit'[u].token = unit[u].token
                         /\ unit'[u].attempts = unit[u].attempts
                         /\ unit'[u].taken = unit[u].taken
                         /\ unit'[u].status = IF u \in S THEN "cancelled" ELSE unit[u].status
  BY <1>1, <1>2, SetStatusRows
<1>4. UnitInv'  BY <1>1, <1>3 DEF UnitInv
<1>5. ResultsCountOnce'  BY <1>1, <1>3 DEF ResultsCountOnce
<1>6. \A u \in Unit : unit'[u].attempts >= unit[u].attempts  BY <1>2, <1>3 DEF UnitRow
<1>7. MoveAll(S, "queued", "cancelled")  BY <1>1, <1>3 DEF MoveAll, Alike
<1>8. UnitMove  BY <1>1, <1>7 DEF UnitMove
<1> QED  BY <1>1, <1>3, <1>4, <1>5, <1>6, <1>8 DEF UnitsFine, LeasesStay

\* Rewriting one unit's row keeps the units' invariant when the new row satisfies it.
LEMMA SetUnitRow ==
  ASSUME TypeOK, UnitInv, ResultsCountOnce, NEW u \in Unit, NEW row, SetUnit(u, row),
         unit'[u] \in UnitRow,
         unit'[u].status \in {"absent", "queued"} => unit'[u].token = 0 /\ unit'[u].attempts < MaxAttempts,
         unit'[u].status = "leased" => unit'[u].token = unit'[u].attempts /\ unit'[u].token > 0,
         unit'[u].token <= unit'[u].attempts, unit'[u].attempts >= unit[u].attempts,
         unit'[u].taken = IF unit'[u].status = "done" THEN {unit'[u].token} ELSE {}
  PROVE  UnitsFine /\ \A v \in Unit : v # u => unit'[v] = unit[v]
<1>1. unit \in [Unit -> UnitRow]  BY DEF TypeOK
<1>2. unit' = [v \in Unit |-> IF v = u THEN row ELSE unit[v]]  BY <1>1 DEF SetUnit
<1>3. \A v \in Unit : v # u => unit'[v] = unit[v]  BY <1>2
<1>7. unit' \in [Unit -> UnitRow]
  <2>1. \A v \in Unit : unit'[v] \in UnitRow  BY <1>1, <1>3
  <2> QED  BY <1>2, <2>1
<1>4. UnitInv'  BY <1>3 DEF UnitInv
<1>5. ResultsCountOnce'  BY <1>3 DEF ResultsCountOnce
<1>6. \A v \in Unit : unit'[v].attempts >= unit[v].attempts
  <2>1. ASSUME NEW v \in Unit  PROVE unit'[v].attempts >= unit[v].attempts
    <3>1. CASE v = u  BY <3>1, <1>3
    <3>2. CASE v # u
      <4>1. unit'[v].attempts = unit[v].attempts  BY <3>2, <1>3
      <4>2. unit[v].attempts \in 0..MaxAttempts  BY <1>1 DEF UnitRow
      <4> QED  BY <4>1, <4>2
    <3> QED  BY <3>1, <3>2
  <2> QED  BY <2>1
<1> QED  BY <1>7, <1>3, <1>4, <1>5, <1>6 DEF UnitsFine

\* A leased unit goes back into the queue or fails; its lease is the only one that ends.
LEMMA RequeuedOrFailed ==
  ASSUME TypeOK, UnitInv, ResultsCountOnce, NEW u \in Unit, unit[u].status = "leased",
         NEW retryable, RequeueOrFail(u, retryable)
  PROVE  /\ UnitsFine /\ UnitMove /\ \A v \in Unit : v # u => unit'[v] = unit[v]
         /\ task' \in [Task -> [status : OpenStatus \cup ClosedStatus, failed : Nat, over : BOOLEAN]]
<1>1. unit[u] \in UnitRow  BY DEF TypeOK
<1>2. unit[u].token = unit[u].attempts /\ unit[u].token > 0 /\ unit[u].taken = {}
  BY DEF UnitInv, ResultsCountOnce
<1>3. CASE retryable /\ unit[u].attempts < MaxAttempts
  <2> DEFINE row == [unit[u] EXCEPT !.status = "queued", !.token = 0, !.holder = None, !.ttl = 0,
                                    !.wait = Backoff * unit[u].attempts]
  <2>1. SetUnit(u, row) /\ UNCHANGED task  BY <1>3 DEF RequeueOrFail
  <2>9. unit'[u] = row  BY <1>1, <2>1 DEF SetUnit, TypeOK
  <2>2. unit'[u] = [status |-> "queued", token |-> 0, attempts |-> unit[u].attempts, ttl |-> 0,
               wait |-> Backoff * unit[u].attempts, holder |-> None,
               good |-> unit[u].good, taken |-> unit[u].taken]
    BY <1>1, <2>9 DEF UnitRow
  <2>3. Backoff * unit[u].attempts \in Nat
    BY <1>1, QueueAssumption DEF UnitRow, QueueAssumption
  <2> HIDE DEF row
  <2>4. unit'[u] \in UnitRow
    BY <1>1, <2>2, <2>3, QueueAssumption DEF UnitRow, QueueAssumption
  <2>5. /\ unit'[u].status = "queued" /\ unit'[u].token = 0 /\ unit'[u].attempts = unit[u].attempts
        /\ unit'[u].taken = {}
    BY <2>2, <1>2
  <2>6. unit'[u].token <= unit'[u].attempts /\ unit'[u].attempts >= unit[u].attempts
    BY <1>1, <2>5 DEF UnitRow
  <2>7. UnitsFine /\ \A v \in Unit : v # u => unit'[v] = unit[v]
    BY <1>3, <2>1, <2>4, <2>5, <2>6, SetUnitRow
  <2>8. LeaseEnded(u)  BY <1>2, <1>3, <2>5 DEF LeaseEnded
  <2>10. UnitMove  BY <2>7, <2>8 DEF UnitMove, Alike
  <2> QED  BY <2>1, <2>7, <2>10 DEF TypeOK
<1>4. CASE ~(retryable /\ unit[u].attempts < MaxAttempts)
  <2> DEFINE row == [unit[u] EXCEPT !.status = "failed", !.ttl = 0]
  <2>1. /\ SetUnit(u, row)
        /\ task' = [task EXCEPT ![TaskOf[u]].failed = @ + Size]
    BY <1>4 DEF RequeueOrFail
  <2>9. unit'[u] = row  BY <1>1, <2>1 DEF SetUnit, TypeOK
  <2>2. unit'[u] = [status |-> "failed", token |-> unit[u].token, attempts |-> unit[u].attempts, ttl |-> 0,
               wait |-> unit[u].wait, holder |-> unit[u].holder,
               good |-> unit[u].good, taken |-> unit[u].taken]
    BY <1>1, <2>9 DEF UnitRow
  <2> HIDE DEF row
  <2>4. unit'[u] \in UnitRow
    BY <1>1, <2>2, QueueAssumption DEF UnitRow, TerminalUnit, QueueAssumption
  <2>5. /\ unit'[u].status = "failed" /\ unit'[u].token = unit[u].token /\ unit'[u].attempts = unit[u].attempts
        /\ unit'[u].taken = {}
    BY <2>2, <1>2
  <2>6. unit'[u].token <= unit'[u].attempts /\ unit'[u].attempts >= unit[u].attempts
    BY <1>1, <1>2, <2>5 DEF UnitRow
  <2>7. UnitsFine /\ \A v \in Unit : v # u => unit'[v] = unit[v]
    BY <2>1, <2>4, <2>5, <2>6, SetUnitRow
  <2>8. TaskOf[u] \in Task /\ Size \in Nat  BY QueueAssumption DEF QueueAssumption
  <2>10. LeaseEnded(u)  BY <1>2, <2>5 DEF LeaseEnded
  <2>11. UnitMove  BY <2>7, <2>10 DEF UnitMove, Alike
  <2> QED  BY <2>1, <2>7, <2>8, <2>11 DEF TypeOK
<1> QED  BY <1>3, <1>4

\* A queued unit is handed out under a new lease.
LEMMA LeasedUnit ==
  ASSUME TypeOK, UnitInv, ResultsCountOnce, NEW p \in Instance, NEW u \in Unit,
         unit[u].status = "queued", SetUnit(u, LeasedRow(u, p)),
         NEW l \in Lane \cup {AnyLane, None}, Claimable(l), InLane(u, l)
  PROVE  /\ UnitsFine /\ LeasesStay /\ UnitMove /\ unit'[u].status = "leased"
         /\ unit'[u].attempts = unit[u].attempts + 1 /\ unit'[u].token = unit'[u].attempts
<1>1. unit[u] \in UnitRow  BY DEF TypeOK
<1>2. unit[u].attempts < MaxAttempts /\ unit[u].taken = {}  BY DEF UnitInv, ResultsCountOnce
<1>3. unit'[u] = [unit[u] EXCEPT !.status = "leased", !.token = unit[u].attempts + 1,
                                 !.attempts = unit[u].attempts + 1, !.ttl = Lease, !.wait = 0, !.holder = p]
  BY DEF SetUnit, LeasedRow, TypeOK
<1>4. unit'[u] = [status |-> "leased", token |-> unit[u].attempts + 1, attempts |-> unit[u].attempts + 1,
                  ttl |-> Lease, wait |-> 0, holder |-> p, good |-> unit[u].good, taken |-> unit[u].taken]
  BY <1>1, <1>3 DEF UnitRow
<1>5. unit[u].attempts + 1 \in 0..MaxAttempts /\ unit[u].attempts + 1 > 0
  BY <1>1, <1>2, QueueAssumption DEF UnitRow, QueueAssumption
<1>6. unit'[u] \in UnitRow
  BY <1>1, <1>4, <1>5, QueueAssumption DEF UnitRow, QueueAssumption
<1>7. /\ unit'[u].status = "leased" /\ unit'[u].token = unit[u].attempts + 1
      /\ unit'[u].attempts = unit[u].attempts + 1 /\ unit'[u].taken = {}
  BY <1>4, <1>2
<1>8. unit'[u].token <= unit'[u].attempts /\ unit'[u].attempts >= unit[u].attempts
  BY <1>1, <1>7 DEF UnitRow
<1>9. UnitsFine /\ \A v \in Unit : v # u => unit'[v] = unit[v]
  BY <1>5, <1>6, <1>7, <1>8, SetUnitRow
<1>10. HandedOut(u)  BY <1>2, <1>7 DEF HandedOut
<1>11. UnitMove  BY <1>9, <1>10 DEF UnitMove, Alike
<1> QED  BY <1>7, <1>9, <1>11 DEF LeasesStay

\* Extending a lease changes its deadline only.
LEMMA ExtendedUnit ==
  ASSUME TypeOK, UnitInv, ResultsCountOnce, NEW u \in Unit,
         unit[u].status = "leased", SetUnit(u, [unit[u] EXCEPT !.ttl = Lease])
  PROVE  UnitsFine /\ LeasesStay /\ UnitMove
<1>1. unit[u] \in UnitRow  BY DEF TypeOK
<1>2. /\ unit[u].token = unit[u].attempts /\ unit[u].token > 0 /\ unit[u].taken = {}
  BY DEF UnitInv, ResultsCountOnce
<1>3. unit'[u] = [unit[u] EXCEPT !.ttl = Lease]  BY DEF SetUnit, TypeOK
<1>4. unit'[u] \in UnitRow  BY <1>1, <1>3, QueueAssumption DEF UnitRow, QueueAssumption
<1>5. /\ unit'[u].status = "leased" /\ unit'[u].token = unit[u].token
      /\ unit'[u].attempts = unit[u].attempts /\ unit'[u].taken = unit[u].taken
  BY <1>1, <1>3 DEF UnitRow
<1>6. unit'[u].token <= unit'[u].attempts /\ unit'[u].attempts >= unit[u].attempts
  BY <1>1, <1>2, <1>5 DEF UnitRow
<1>7. UnitsFine /\ \A v \in Unit : v # u => unit'[v] = unit[v]
  BY <1>2, <1>4, <1>5, <1>6, SetUnitRow
<1>8. UnitMove  BY <1>5, <1>7 DEF UnitMove, Alike
<1> QED  BY <1>5, <1>7, <1>8 DEF LeasesStay

\* A tick changes deadlines only.
LEMMA TickedUnits ==
  ASSUME TypeOK, UnitInv, ResultsCountOnce, Tick
  PROVE  UnitsFine /\ LeasesStay /\ UnitMove
<1>1. unit \in [Unit -> UnitRow]  BY DEF TypeOK
<1>2. ASSUME NEW u \in Unit
      PROVE  /\ unit'[u] \in UnitRow
             /\ unit'[u].status = unit[u].status /\ unit'[u].token = unit[u].token
             /\ unit'[u].attempts = unit[u].attempts /\ unit'[u].taken = unit[u].taken
  <2> DEFINE ttl == IF unit[u].status = "leased" /\ unit[u].ttl >= 0 THEN unit[u].ttl - 1 ELSE unit[u].ttl
             wait == IF unit[u].status = "queued" /\ unit[u].wait > 0 THEN unit[u].wait - 1 ELSE unit[u].wait
  <2>1. unit[u] \in UnitRow  BY <1>1
  <2>2. ttl \in -1..Lease /\ wait \in Nat
    BY <2>1, QueueAssumption DEF UnitRow, QueueAssumption
  <2>3. unit'[u] = [unit[u] EXCEPT !.ttl = ttl, !.wait = wait]  BY DEF Tick
  <2> HIDE DEF ttl, wait
  <2>4. unit'[u] = [status |-> unit[u].status, token |-> unit[u].token, attempts |-> unit[u].attempts,
                    ttl |-> ttl, wait |-> wait, holder |-> unit[u].holder,
                    good |-> unit[u].good, taken |-> unit[u].taken]
    BY <2>1, <2>3 DEF UnitRow
  <2> QED  BY <2>1, <2>2, <2>4 DEF UnitRow
<1>3. unit' \in [Unit -> UnitRow]  BY <1>2 DEF Tick
<1>4. UnitInv'  BY <1>2 DEF UnitInv
<1>5. ResultsCountOnce'  BY <1>2 DEF ResultsCountOnce
<1>6. \A u \in Unit : unit'[u].attempts >= unit[u].attempts  BY <1>1, <1>2 DEF UnitRow
<1>7. UnitMove  BY <1>2 DEF UnitMove, Alike
<1> QED  BY <1>2, <1>3, <1>4, <1>5, <1>6, <1>7 DEF UnitsFine, LeasesStay

\* refresh: new units of a gap task are queued, or the task closes, or nothing happens.
LEMMA Refreshed ==
  ASSUME TypeOK, UnitInv, ResultsCountOnce, NEW t \in Task, Refresh(t) \/ FinishIfSettled(t)
  PROVE  /\ UnitsFine /\ LeasesStay /\ UnitMove /\ kicks' \subseteq Lane
         /\ task' \in [Task -> [status : OpenStatus \cup ClosedStatus, failed : Nat, over : BOOLEAN]]
<1>1. CASE UNCHANGED <<task, unit, kicks>>
  BY <1>1, UnitsUnchanged DEF TypeOK
<1>2. CASE \E S \in SUBSET Unplanned(t) \ {{}} : unit' = SetStatus(S, "queued") /\ UNCHANGED task
                                                 /\ kicks' = kicks \cup {LaneOf[t]}
  <2>1. UnitsFine /\ LeasesStay /\ UnitMove  BY <1>2, QueueUnits
  <2> QED  BY <1>2, <2>1, QueueAssumption DEF TypeOK, QueueAssumption
<1>3. CASE SetTask(t, Verdict(t)) /\ UNCHANGED <<unit, kicks>>
  <2>1. Verdict(t) \in ClosedStatus  BY DEF Verdict, ClosedStatus
  <2>2. task' = [task EXCEPT ![t].status = Verdict(t)]  BY <1>3 DEF SetTask
  <2> HIDE DEF SetTask
  <2>3. task' \in [Task -> [status : OpenStatus \cup ClosedStatus, failed : Nat, over : BOOLEAN]]
    BY <2>1, <2>2 DEF TypeOK
  <2> QED  BY <1>3, <2>3, UnitsUnchanged DEF TypeOK
<1> QED  BY <1>1, <1>2, <1>3 DEF Refresh, FinishIfSettled

-----------------------------------------------------------------------------
(* Actions that leave the processes alone *)

\* When no lease ends and no process moves, the processes' invariant is kept.
LEMMA NobodyMoves ==
  ASSUME LeaseInv, UnitsFine, LeasesStay, UNCHANGED proc
  PROVE  proc' \in [Process -> ProcRow] /\ ProcInv' /\ NoSharedLease'
<1>1. ASSUME NEW q \in Process  PROVE ProcRowInv(q)'
  <2>1. ProcRowInv(q)  BY DEF LeaseInv, ProcInv
  <2>2. Carries(q) => proc[q].token \in 1..unit'[proc[q].unit].attempts
    BY <2>1 DEF ProcRowInv, UnitsFine, UnitRow, LeaseInv, TypeOK
  <2>3. proc[q].pc = "store" => q \in Instance  BY <2>1 DEF ProcRowInv, ReaperPc, Process
  <2>4. proc[q].pc = "store" => HoldsLease(q)'  BY <2>3, StillHeld DEF LeaseInv
  <2> QED  BY <2>1, <2>2, <2>4 DEF ProcRowInv, Carries
<1>2. NoSharedLease'  BY DEF LeaseInv, NoSharedLease, Carries
<1> QED  BY <1>1, <1>2 DEF ProcInv, LeaseInv, TypeOK

\* The planner: planning, and failing a task that could not be planned.
LEMMA PlannerInv ==
  ASSUME LeaseInv, NEW t \in Task, PlanStep(t) \/ PlanFailStep(t)
  PROVE  LeaseInv'
<1> USE DEF LeaseInv
<1>1. CASE PlanTask(t)
  <2>1. UnitsFine /\ LeasesStay /\ kicks' \subseteq Lane
        /\ task' \in [Task -> [status : OpenStatus \cup ClosedStatus, failed : Nat, over : BOOLEAN]]
    <3>1. CASE \E S \in SUBSET Unplanned(t) \ {{}} : unit' = SetStatus(S, "queued") /\ UNCHANGED task
                  /\ kicks' = IF Internal # {} THEN kicks \cup {LaneOf[t]} ELSE kicks
      <4>1. UnitsFine /\ LeasesStay  BY <3>1, QueueUnits
      <4> QED  BY <4>1, <3>1, QueueAssumption DEF TypeOK, QueueAssumption
    <3>2. CASE FinishIfSettled(t)  BY <3>2, Refreshed
    <3>3. CASE UNCHANGED <<task, unit, kicks>>  BY <3>3, UnitsUnchanged DEF TypeOK
    <3> QED  BY <1>1, <3>1, <3>2, <3>3 DEF PlanTask
  <2>2. proc' \in [Process -> ProcRow] /\ ProcInv' /\ NoSharedLease'  BY <1>1, <2>1, NobodyMoves DEF PlanTask
  <2>3. TypeOK'  BY <1>1, <2>1, <2>2 DEF PlanTask, TypeOK, UnitsFine
  <2> QED  BY <2>1, <2>2, <2>3 DEF UnitsFine
<1>2. CASE PlanRaises(t)
  <2>1. UnitsFine /\ LeasesStay  BY <1>2, UnitsUnchanged DEF PlanRaises
  <2>2. proc' \in [Process -> ProcRow] /\ ProcInv' /\ NoSharedLease'  BY <1>2, <2>1, NobodyMoves DEF PlanRaises
  <2>3. faults' \in 0..MaxFaults  BY <1>2, QueueAssumption DEF PlanRaises, Fault, TypeOK, QueueAssumption
  <2>4. TypeOK'  BY <1>2, <2>1, <2>2, <2>3 DEF PlanRaises, TypeOK, UnitsFine
  <2> QED  BY <2>1, <2>2, <2>4 DEF UnitsFine
<1>3. CASE PlanFailMark(t)
  <2>1. UnitsFine /\ LeasesStay  BY <1>3, UnitsUnchanged DEF PlanFailMark
  <2>2. proc' \in [Process -> ProcRow] /\ ProcInv' /\ NoSharedLease'  BY <1>3, <2>1, NobodyMoves DEF PlanFailMark
  <2>3. task' \in [Task -> [status : OpenStatus \cup ClosedStatus, failed : Nat, over : BOOLEAN]]
    BY <1>3 DEF PlanFailMark, SetTask, TypeOK, OpenStatus
  <2>4. TypeOK'  BY <1>3, <2>1, <2>2, <2>3 DEF PlanFailMark, TypeOK, UnitsFine
  <2> QED  BY <2>1, <2>2, <2>4 DEF UnitsFine
<1>4. CASE PlanFailClose(t)
  <2>1. UnitsFine /\ LeasesStay  BY <1>4, UnitsUnchanged DEF PlanFailClose
  <2>2. proc' \in [Process -> ProcRow] /\ ProcInv' /\ NoSharedLease'  BY <1>4, <2>1, NobodyMoves DEF PlanFailClose
  <2>3. task' \in [Task -> [status : OpenStatus \cup ClosedStatus, failed : Nat, over : BOOLEAN]]
    BY <1>4 DEF PlanFailClose, SetTask, TypeOK, ClosedStatus
  <2>4. TypeOK'  BY <1>4, <2>1, <2>2, <2>3 DEF PlanFailClose, TypeOK, UnitsFine
  <2> QED  BY <2>1, <2>2, <2>4 DEF UnitsFine
<1> QED  BY <1>1, <1>2, <1>3, <1>4 DEF PlanStep, PlanFailStep

\* The operator: PATCH, the cancelling that follows it, resume.
LEMMA OperatorInv ==
  ASSUME LeaseInv,
         \/ \E t \in Task, s \in PatchTargets : PatchTask(t, s)
         \/ \E t \in Task : CloseUnits(t)
         \/ ResumeWorker \/ ResumeStreaks
  PROVE  LeaseInv'
<1> USE DEF LeaseInv
<1>1. ASSUME NEW t \in Task, NEW s \in PatchTargets, PatchTask(t, s)  PROVE LeaseInv'
  <2>1. UnitsFine /\ LeasesStay  BY <1>1, UnitsUnchanged DEF PatchTask
  <2>2. proc' \in [Process -> ProcRow] /\ ProcInv' /\ NoSharedLease'  BY <1>1, <2>1, NobodyMoves DEF PatchTask
  <2>3. s \in OpenStatus \cup ClosedStatus
    BY QueueAssumption DEF QueueAssumption, OpenStatus, ClosedStatus
  <2>4. task' \in [Task -> [status : OpenStatus \cup ClosedStatus, failed : Nat, over : BOOLEAN]]
    BY <1>1, <2>3 DEF PatchTask, SetTask, TypeOK
  <2>5. TypeOK'  BY <1>1, <2>1, <2>2, <2>4 DEF PatchTask, TypeOK, UnitsFine
  <2> QED  BY <2>1, <2>2, <2>5 DEF UnitsFine
<1>2. ASSUME NEW t \in Task, CloseUnits(t)  PROVE LeaseInv'
  <2>1. UnitsFine /\ LeasesStay  BY <1>2, CancelledUnits DEF CloseUnits
  <2>2. proc' \in [Process -> ProcRow] /\ ProcInv' /\ NoSharedLease'  BY <1>2, <2>1, NobodyMoves DEF CloseUnits
  <2>3. TypeOK'  BY <1>2, <2>1, <2>2 DEF CloseUnits, TypeOK, UnitsFine
  <2> QED  BY <2>1, <2>2, <2>3 DEF UnitsFine
<1>3. ASSUME ResumeWorker \/ ResumeStreaks  PROVE LeaseInv'
  <2>1. UnitsFine /\ LeasesStay  BY <1>3, UnitsUnchanged DEF ResumeWorker, ResumeStreaks
  <2>2. proc' \in [Process -> ProcRow] /\ ProcInv' /\ NoSharedLease'
    BY <1>3, <2>1, NobodyMoves DEF ResumeWorker, ResumeStreaks
  <2>3. worker' \in [paused : BOOLEAN, resuming : BOOLEAN, streak : [Instance -> 0..PauseAfter]]
    <3>1. CASE ResumeWorker  BY <3>1 DEF ResumeWorker, TypeOK
    <3>2. CASE ResumeStreaks
      <4>1. [i \in Instance |-> 0] \in [Instance -> 0..PauseAfter]
        BY QueueAssumption DEF QueueAssumption
      <4> QED  BY <3>2, <4>1 DEF ResumeStreaks, TypeOK
    <3> QED  BY <1>3, <3>1, <3>2
  <2>4. TypeOK'  BY <1>3, <2>1, <2>2, <2>3 DEF ResumeWorker, ResumeStreaks, TypeOK, UnitsFine
  <2> QED  BY <2>1, <2>2, <2>4 DEF UnitsFine
<1> QED  BY <1>1, <1>2, <1>3

\* A paid call, the clock, a request that dies and a lost message.
LEMMA EnvironmentInv ==
  ASSUME LeaseInv,
         \/ \E p \in Instance : Charge(p)
         \/ Tick \/ LoseMessage \/ \E t \in Task : CrashRequest(t)
  PROVE  LeaseInv'
<1> USE DEF LeaseInv
<1>1. ASSUME NEW p \in Instance, Charge(p)  PROVE LeaseInv'
  <2>1. UnitsFine /\ LeasesStay  BY <1>1, UnitsUnchanged DEF Charge
  <2>2. proc' \in [Process -> ProcRow] /\ ProcInv' /\ NoSharedLease'  BY <1>1, <2>1, NobodyMoves DEF Charge
  <2>3. task' \in [Task -> [status : OpenStatus \cup ClosedStatus, failed : Nat, over : BOOLEAN]]
    BY <1>1 DEF Charge, TypeOK
  <2>4. TypeOK'  BY <1>1, <2>1, <2>2, <2>3 DEF Charge, TypeOK, UnitsFine
  <2> QED  BY <2>1, <2>2, <2>4 DEF UnitsFine
<1>2. ASSUME Tick  PROVE LeaseInv'
  <2>1. UnitsFine /\ LeasesStay  BY <1>2, TickedUnits
  <2>2. proc' \in [Process -> ProcRow] /\ ProcInv' /\ NoSharedLease'  BY <1>2, <2>1, NobodyMoves DEF Tick
  <2>3. TypeOK'  BY <1>2, <2>1, <2>2 DEF Tick, TypeOK, UnitsFine
  <2> QED  BY <2>1, <2>2, <2>3 DEF UnitsFine
<1>3. ASSUME LoseMessage \/ \E t \in Task : CrashRequest(t)  PROVE LeaseInv'
  <2>1. UnitsFine /\ LeasesStay  BY <1>3, UnitsUnchanged DEF LoseMessage, CrashRequest
  <2>2. proc' \in [Process -> ProcRow] /\ ProcInv' /\ NoSharedLease'
    BY <1>3, <2>1, NobodyMoves DEF LoseMessage, CrashRequest
  <2>3. faults' \in 0..MaxFaults
    BY <1>3, QueueAssumption DEF LoseMessage, CrashRequest, Fault, TypeOK, QueueAssumption
  <2>4. TypeOK'
    <3>1. CASE LoseMessage  BY <3>1, <2>1, <2>2, <2>3 DEF LoseMessage, TypeOK, UnitsFine
    <3>2. CASE \E t \in Task : CrashRequest(t)
      BY <3>2, <2>1, <2>2, <2>3 DEF CrashRequest, TypeOK, UnitsFine
    <3> QED  BY <1>3, <3>1, <3>2
  <2> QED  BY <2>1, <2>2, <2>4 DEF UnitsFine
<1> QED  BY <1>1, <1>2, <1>3

-----------------------------------------------------------------------------
(* Actions in which one process moves *)

\* p's new row is in place, everybody else's stays.
LEMMA RowMoves ==
  ASSUME TypeOK, NEW p \in Process, NEW row, Becomes(p, row), row \in ProcRow
  PROVE  /\ proc' \in [Process -> ProcRow] /\ proc'[p] = row
         /\ \A q \in Process : q # p => proc'[q] = proc[q]
  BY DEF TypeOK, Becomes

\* A process that moves without ending a lease, and carries no token, or the one it carried.
LEMMA OneMoves ==
  ASSUME LeaseInv, UnitsFine, LeasesStay, NEW p \in Process, NEW row \in ProcRow, Becomes(p, row),
         ProcRowInv(p)',
         Carries(p)' => Carries(p) /\ row.unit = proc[p].unit /\ row.token = proc[p].token
  PROVE  proc' \in [Process -> ProcRow] /\ ProcInv' /\ NoSharedLease'
<1>1. /\ proc' \in [Process -> ProcRow] /\ proc'[p] = row
      /\ \A q \in Process : q # p => proc'[q] = proc[q]
  BY RowMoves DEF LeaseInv
<1>2. ASSUME NEW q \in Instance, q # p, proc[q].pc = "store"  PROVE HoldsLease(q)'
  <2>1. q \in Process  BY DEF Process
  <2> QED  BY <1>1, <1>2, <2>1, StillHeld DEF LeaseInv
<1>3. ASSUME NEW q \in Instance, p \in Instance, q # p, Carries(p)', Carries(q),
             proc'[p].unit = proc[q].unit, proc'[p].token = proc[q].token
      PROVE  FALSE
  BY <1>1, <1>3 DEF LeaseInv, NoSharedLease
<1> QED  BY <1>1, <1>2, <1>3, ProcStep DEF LeaseInv, UnitsFine, TypeOK

\* The field updates of process rows.
LEMMA ProcRowFields ==
  ASSUME NEW r \in ProcRow
  PROVE  /\ \A pc \in InstancePc \cup ReaperPc : [r EXCEPT !.pc = pc] \in ProcRow
         /\ \A pc \in InstancePc \cup ReaperPc, S \in SUBSET (Task \cup Unit) :
               /\ [r EXCEPT !.pc = pc, !.todo = S] \in ProcRow
               /\ \A t \in Task \cup {None} : [r EXCEPT !.pc = pc, !.todo = S, !.task = t] \in ProcRow
         /\ \A pc \in InstancePc \cup ReaperPc, t \in Task \cup {None} :
               [r EXCEPT !.pc = pc, !.task = t] \in ProcRow
  BY DEF ProcRow

\* Moving to a point where no token is carried.
LEMMA FreeMoves ==
  ASSUME LeaseInv, UnitsFine, LeasesStay, NEW p \in Process, NEW row \in ProcRow, Becomes(p, row),
         row.pc \in IF p = Reaper THEN ReaperPc ELSE InstancePc,
         row.pc \notin {"start", "work", "store", "refresh"},
         p \in Internal /\ row.pc # "idle" => row.lane \in Lane,
         row.pc \in {"settle", "expired"} => row.task \in Task,
         row.pc \in {"guard", "settle"} => row.todo \subseteq Task,
         row.pc \in {"expire", "expired"} => row.todo \subseteq Unit
  PROVE  proc' \in [Process -> ProcRow] /\ ProcInv' /\ NoSharedLease'
<1>1. proc'[p] = row  BY RowMoves DEF LeaseInv
<1>2. ProcRowInv(p)'  BY <1>1 DEF ProcRowInv, Carries
<1>3. ~Carries(p)'  BY <1>1 DEF Carries
<1> QED  BY <1>2, <1>3, OneMoves

\* Moving on with the token carried so far.
LEMMA CarrierMoves ==
  ASSUME LeaseInv, UnitsFine, LeasesStay, NEW p \in Instance, NEW row \in ProcRow, Becomes(p, row),
         Carries(p), row.pc \in {"start", "work", "refresh"},
         row.unit = proc[p].unit, row.token = proc[p].token, row.task = proc[p].task,
         row.lane = proc[p].lane
  PROVE  proc' \in [Process -> ProcRow] /\ ProcInv' /\ NoSharedLease'
<1>1. p \in Process /\ p # Reaper  BY QueueAssumption DEF Process, QueueAssumption
<1>2. proc'[p] = row  BY <1>1, RowMoves DEF LeaseInv
<1>3. ProcRowInv(p)  BY <1>1 DEF LeaseInv, ProcInv
<1>4. proc[p].token \in 1..unit'[proc[p].unit].attempts
  BY <1>3 DEF ProcRowInv, UnitsFine, UnitRow, LeaseInv, TypeOK
<1>5. ProcRowInv(p)'  BY <1>1, <1>2, <1>3, <1>4 DEF ProcRowInv, Carries, InstancePc
<1> QED  BY <1>1, <1>2, <1>5, OneMoves

\* A consumer or an external instance leaves its unit.
LEMMA Leaves ==
  ASSUME LeaseInv, UnitsFine, LeasesStay, NEW p \in Instance, NEW pc \in {"poll", "end"}, Carries(p), Leave(p, pc)
  PROVE  proc' \in [Process -> ProcRow] /\ ProcInv' /\ NoSharedLease'
<1> DEFINE row == [Idle EXCEPT !.pc = IF p \in Internal THEN pc ELSE "idle",
                               !.lane = Loop(p).lane, !.handled = Loop(p).handled]
<1>1. p \in Process /\ p # Reaper  BY QueueAssumption DEF Process, QueueAssumption
<1>2. proc[p] \in ProcRow /\ ProcRowInv(p)  BY <1>1 DEF LeaseInv, TypeOK, ProcInv
<1>3. /\ Loop(p).lane \in Lane \cup {AnyLane, None} /\ Loop(p).handled \in Nat
      /\ p \in Internal => Loop(p).lane \in Lane
  BY <1>2 DEF Loop, ProcRow, ProcRowInv, Carries
<1>4. row \in ProcRow  BY <1>3, IdleType, QueueAssumption DEF ProcRow, InstancePc
<1>5. row.pc \in {"poll", "end", "idle"} /\ row.lane = Loop(p).lane  BY DEF Idle
<1>6. Becomes(p, row)  BY DEF Leave
<1> HIDE DEF row
<1> QED  BY <1>1, <1>3, <1>4, <1>5, <1>6, FreeMoves DEF InstancePc

\* After its unit, a process claims again, ends, or repeats its call.
LEMMA GoesOn ==
  ASSUME LeaseInv, UnitsFine, LeasesStay, NEW p \in Instance, Carries(p), NextUnit(p)
  PROVE  proc' \in [Process -> ProcRow] /\ ProcInv' /\ NoSharedLease'
<1>1. CASE \E pc \in {"poll", "end"} : Leave(p, pc)
  BY <1>1, Leaves
<1>2. CASE Goto(p, "work")
  <2> DEFINE row == [proc[p] EXCEPT !.pc = "work"]
  <2>1. proc[p] \in ProcRow  BY DEF LeaseInv, TypeOK, Process
  <2>2. row \in ProcRow  BY <2>1, ProcRowFields DEF InstancePc
  <2>3. /\ row.pc = "work" /\ row.unit = proc[p].unit
        /\ row.token = proc[p].token /\ row.task = proc[p].task /\ row.lane = proc[p].lane
    BY <2>1 DEF ProcRow
  <2>4. Becomes(p, row)  BY <1>2 DEF Goto
  <2> HIDE DEF row
  <2> QED  BY <2>2, <2>3, <2>4, CarrierMoves
<1> QED  BY <1>1, <1>2 DEF NextUnit

\* The holder of a unit's lease is the only process whose transaction holds that unit.
LEMMA HolderAlone ==
  ASSUME LeaseInv, NEW p \in Instance, NEW q \in Instance, p # q,
         Carries(p), HoldsLease(p), proc[q].pc = "store"
  PROVE  proc[q].unit # proc[p].unit
<1>1. HoldsLease(q) /\ Carries(q)  BY DEF LeaseInv, ProcInv, ProcRowInv, Carries, Process
<1> QED  BY <1>1 DEF LeaseInv, NoSharedLease, HoldsLease, HoldsToken, Row

\* The holder p ends its lease and moves on to refresh the task.
LEMMA HolderReports ==
  ASSUME LeaseInv, UnitsFine, NEW p \in Instance, Carries(p), HoldsLease(p),
         \A v \in Unit : v # proc[p].unit => unit'[v] = unit[v], Goto(p, "refresh")
  PROVE  proc' \in [Process -> ProcRow] /\ ProcInv' /\ NoSharedLease'
<1> DEFINE row == [proc[p] EXCEPT !.pc = "refresh"]
<1>1. p \in Process /\ p # Reaper  BY QueueAssumption DEF Process, QueueAssumption
<1>2. proc[p] \in ProcRow  BY <1>1 DEF LeaseInv, TypeOK
<1>3. row \in ProcRow  BY <1>2, ProcRowFields DEF InstancePc
<1>4. /\ row.pc = "refresh" /\ row.unit = proc[p].unit
      /\ row.token = proc[p].token /\ row.task = proc[p].task /\ row.lane = proc[p].lane
  BY <1>2 DEF ProcRow
<1>5. Becomes(p, row)  BY DEF Goto
<1> HIDE DEF row
<1>6. /\ proc' \in [Process -> ProcRow] /\ proc'[p] = row
      /\ \A q \in Process : q # p => proc'[q] = proc[q]
  BY <1>1, <1>3, <1>5, RowMoves DEF LeaseInv
<1>7. ProcRowInv(p)  BY <1>1 DEF LeaseInv, ProcInv
<1>8. proc[p].token \in 1..unit'[proc[p].unit].attempts
  BY <1>7 DEF ProcRowInv, UnitsFine, UnitRow, LeaseInv, TypeOK
<1>9. ProcRowInv(p)'  BY <1>1, <1>4, <1>6, <1>7, <1>8 DEF ProcRowInv, Carries, InstancePc
<1>10. ASSUME NEW q \in Instance, q # p, proc[q].pc = "store"  PROVE HoldsLease(q)'
  <2>1. q \in Process  BY DEF Process
  <2>2. proc[q].unit # proc[p].unit  BY <1>10, HolderAlone
  <2>3. ProcRowInv(q)  BY <2>1 DEF LeaseInv, ProcInv
  <2>4. proc[q].unit \in Unit /\ HoldsLease(q)  BY <1>10, <2>3 DEF ProcRowInv, Carries
  <2>5. unit'[proc[q].unit] = unit[proc[q].unit] /\ proc'[q] = proc[q]  BY <1>6, <1>10, <2>1, <2>2, <2>4
  <2> QED  BY <2>4, <2>5 DEF HoldsLease, HoldsToken, Row
<1>11. ASSUME NEW q \in Instance, q # p, Carries(q),
              proc'[p].unit = proc[q].unit, proc'[p].token = proc[q].token
       PROVE  FALSE
  BY <1>4, <1>6, <1>11 DEF LeaseInv, NoSharedLease
<1> QED  BY <1>1, <1>6, <1>9, <1>10, <1>11, ProcStep DEF LeaseInv, UnitsFine, TypeOK

\* The cost guard, in a consumer or in the beat.
LEMMA GuardInv ==
  ASSUME LeaseInv, NEW p \in Process, GuardStep(p)
  PROVE  LeaseInv'
<1>1. proc[p] \in ProcRow /\ ProcRowInv(p)  BY DEF LeaseInv, TypeOK, ProcInv
<1>2. ASSUME NEW S \in SUBSET Task
      PROVE  /\ ToGuard(p, S) \in IF p = Reaper THEN ReaperPc ELSE InstancePc
             /\ ToGuard(p, S) \in InstancePc \cup ReaperPc
             /\ ToGuard(p, S) \notin {"start", "work", "store", "refresh", "settle", "expired", "expire"}
             /\ S \in SUBSET (Task \cup Unit)
  BY DEF ToGuard, InstancePc, ReaperPc
<1>6. p \in Internal => proc[p].lane \in Lane
  BY <1>1, QueueAssumption
  DEF GuardStep, ReadOverCost, StopOverCost, SettleStopped, ProcRowInv
<1>3. CASE ReadOverCost(p)
  <2> DEFINE row == [proc[p] EXCEPT !.pc = ToGuard(p, OverCost), !.todo = OverCost]
  <2>1. OverCost \in SUBSET Task  BY DEF OverCost
  <2>2. row \in ProcRow /\ row.pc = ToGuard(p, OverCost) /\ row.todo = OverCost /\ row.lane = proc[p].lane
    BY <1>1, <1>2, <2>1, ProcRowFields DEF ProcRow
  <2>3. Becomes(p, row)  BY <1>3 DEF ReadOverCost
  <2> HIDE DEF row
  <2>4. UnitsFine /\ LeasesStay  BY <1>3, UnitsUnchanged DEF ReadOverCost, LeaseInv
  <2>5. proc' \in [Process -> ProcRow] /\ ProcInv' /\ NoSharedLease'
    BY <1>2, <1>6, <2>1, <2>2, <2>3, <2>4, FreeMoves
  <2>6. TypeOK'  BY <1>3, <2>4, <2>5 DEF ReadOverCost, LeaseInv, TypeOK, UnitsFine
  <2> QED  BY <2>4, <2>5, <2>6 DEF UnitsFine, LeaseInv
<1>4. CASE StopOverCost(p)
  <2>1. PICK t \in proc[p].todo :
           /\ CancelUnits(t)
           /\ \/ Becomes(p, [proc[p] EXCEPT !.pc = "settle", !.todo = proc[p].todo \ {t}, !.task = t])
              \/ Becomes(p, [proc[p] EXCEPT !.pc = ToGuard(p, proc[p].todo \ {t}), !.todo = proc[p].todo \ {t}])
    BY <1>4 DEF StopOverCost
  <2> DEFINE rest == proc[p].todo \ {t}
  <2>2. t \in Task /\ rest \in SUBSET Task  BY <1>1, <1>4 DEF StopOverCost, ProcRowInv
  <2>3. UnitsFine /\ LeasesStay  BY <2>1, CancelledUnits DEF LeaseInv
  <2>4. ASSUME Becomes(p, [proc[p] EXCEPT !.pc = "settle", !.todo = rest, !.task = t])
        PROVE  proc' \in [Process -> ProcRow] /\ ProcInv' /\ NoSharedLease'
    <3> DEFINE row == [proc[p] EXCEPT !.pc = "settle", !.todo = rest, !.task = t]
    <3>1. /\ row \in ProcRow /\ row.pc = "settle" /\ row.todo = rest /\ row.task = t
          /\ row.lane = proc[p].lane
      BY <1>1, <2>2, ProcRowFields DEF ProcRow, InstancePc
    <3>2. Becomes(p, row)  BY <2>4
    <3> HIDE DEF row, rest
    <3> QED  BY <1>6, <2>2, <2>3, <3>1, <3>2, FreeMoves DEF InstancePc, ReaperPc
  <2>5. ASSUME Becomes(p, [proc[p] EXCEPT !.pc = ToGuard(p, rest), !.todo = rest])
        PROVE  proc' \in [Process -> ProcRow] /\ ProcInv' /\ NoSharedLease'
    <3> DEFINE row == [proc[p] EXCEPT !.pc = ToGuard(p, rest), !.todo = rest]
    <3>1. row \in ProcRow /\ row.pc = ToGuard(p, rest) /\ row.todo = rest /\ row.lane = proc[p].lane
      BY <1>1, <1>2, <2>2, ProcRowFields DEF ProcRow
    <3>2. Becomes(p, row)  BY <2>5
    <3> HIDE DEF row, rest
    <3> QED  BY <1>2, <1>6, <2>2, <2>3, <3>1, <3>2, FreeMoves
  <2>6. proc' \in [Process -> ProcRow] /\ ProcInv' /\ NoSharedLease'  BY <2>1, <2>4, <2>5
  <2>7. TypeOK'  BY <1>4, <2>3, <2>6 DEF StopOverCost, LeaseInv, TypeOK, UnitsFine
  <2> QED  BY <2>3, <2>6, <2>7 DEF UnitsFine, LeaseInv
<1>5. CASE SettleStopped(p)
  <2> DEFINE todo == proc[p].todo
             row == [proc[p] EXCEPT !.pc = ToGuard(p, todo), !.task = None]
  <2>1. proc[p].task \in Task /\ todo \in SUBSET Task  BY <1>1, <1>5 DEF SettleStopped, ProcRowInv
  <2>2. row \in ProcRow /\ row.pc = ToGuard(p, todo) /\ row.todo = todo /\ row.lane = proc[p].lane
    BY <1>1, <1>2, <2>1, ProcRowFields DEF ProcRow
  <2>3. Becomes(p, row)  BY <1>5 DEF SettleStopped
  <2> HIDE DEF row, todo
  <2>4. /\ UnitsFine /\ LeasesStay /\ kicks' \subseteq Lane
        /\ task' \in [Task -> [status : OpenStatus \cup ClosedStatus, failed : Nat, over : BOOLEAN]]
    BY <1>5, <2>1, Refreshed DEF SettleStopped, LeaseInv
  <2>5. proc' \in [Process -> ProcRow] /\ ProcInv' /\ NoSharedLease'
    BY <1>2, <1>6, <2>1, <2>2, <2>3, <2>4, FreeMoves
  <2>6. TypeOK'  BY <1>5, <2>4, <2>5 DEF SettleStopped, LeaseInv, TypeOK, UnitsFine
  <2> QED  BY <2>4, <2>5, <2>6 DEF UnitsFine, LeaseInv
<1> QED  BY <1>3, <1>4, <1>5 DEF GuardStep

\* A consumer starts on a message, an external instance asks for work; a consumer ends.
LEMMA StartEndInv ==
  ASSUME LeaseInv, NEW p \in Instance, StartConsume(p) \/ EndConsume(p)
  PROVE  LeaseInv'
<1>1. p \in Process /\ p # Reaper  BY QueueAssumption DEF Process, QueueAssumption
<1>2. proc[p] \in ProcRow  BY <1>1 DEF LeaseInv, TypeOK
<1>3. UnitsFine /\ LeasesStay  BY UnitsUnchanged DEF StartConsume, EndConsume, LeaseInv
<1>4. kicks' \subseteq Lane
  <2>1. CASE StartConsume(p)  BY <2>1 DEF StartConsume, LeaseInv, TypeOK
  <2>2. CASE EndConsume(p)
    <3>1. p \in Internal => proc[p].lane \in Lane
      BY <1>1, <2>2 DEF EndConsume, LeaseInv, ProcInv, ProcRowInv
    <3> QED  BY <2>2, <3>1 DEF EndConsume, LeaseInv, TypeOK
  <2> QED  BY <2>1, <2>2
<1>5. proc' \in [Process -> ProcRow] /\ ProcInv' /\ NoSharedLease'
  <2>1. CASE StartConsume(p)
    <3>1. PICK l \in Lane \cup {AnyLane} : /\ Becomes(p, [Idle EXCEPT !.pc = "poll", !.lane = l])
                                           /\ p \in Internal => l \in Lane
      BY <2>1, QueueAssumption DEF StartConsume, LeaseInv, TypeOK, QueueAssumption
    <3> DEFINE row == [Idle EXCEPT !.pc = "poll", !.lane = l]
    <3>2. row \in ProcRow /\ row.pc = "poll" /\ row.lane = l
      BY IdleType, QueueAssumption DEF ProcRow, InstancePc
    <3>3. Becomes(p, row)  BY <3>1
    <3> HIDE DEF row
    <3> QED  BY <1>1, <1>3, <3>1, <3>2, <3>3, FreeMoves DEF InstancePc
  <2>2. CASE EndConsume(p)
    <3>1. Becomes(p, Idle) /\ Idle.pc = "idle"  BY <2>2 DEF EndConsume, Idle
    <3> QED  BY <1>1, <1>3, <3>1, IdleType, QueueAssumption, FreeMoves DEF InstancePc
  <2> QED  BY <2>1, <2>2
<1>6. TypeOK'  BY <1>3, <1>4, <1>5 DEF StartConsume, EndConsume, LeaseInv, TypeOK, UnitsFine
<1> QED  BY <1>3, <1>5, <1>6 DEF UnitsFine, LeaseInv

\* A claim issues a token nobody carries: it is larger than every token issued for the unit.
LEMMA ClaimInv ==
  ASSUME LeaseInv, NEW p \in Instance, Claim(p)
  PROVE  LeaseInv'
<1>1. p \in Process /\ p # Reaper  BY QueueAssumption DEF Process, QueueAssumption
<1>2. proc[p] \in ProcRow /\ ProcRowInv(p)  BY <1>1 DEF LeaseInv, TypeOK, ProcInv
<1>3. p \in Internal => proc[p].lane \in Lane  BY <1>2 DEF Claim, ProcRowInv
<1>4. CASE Goto(p, "end") /\ UNCHANGED unit
  <2> DEFINE row == [proc[p] EXCEPT !.pc = "end"]
  <2>1. row \in ProcRow /\ row.pc = "end" /\ row.lane = proc[p].lane
    BY <1>2, ProcRowFields DEF ProcRow, InstancePc
  <2>2. Becomes(p, row)  BY <1>4 DEF Goto
  <2> HIDE DEF row
  <2>3. UnitsFine /\ LeasesStay  BY <1>4, UnitsUnchanged DEF LeaseInv
  <2>4. proc' \in [Process -> ProcRow] /\ ProcInv' /\ NoSharedLease'
    BY <1>1, <1>3, <2>1, <2>2, <2>3, FreeMoves DEF InstancePc
  <2>5. TypeOK'  BY <2>3, <2>4 DEF Claim, LeaseInv, TypeOK, UnitsFine
  <2> QED  BY <2>3, <2>4, <2>5 DEF UnitsFine, LeaseInv
<1>5. ASSUME NEW u \in NextUnits(proc[p].lane), SetUnit(u, LeasedRow(u, p)),
             Becomes(p, [Idle EXCEPT !.pc = "start", !.unit = u, !.task = TaskOf[u],
                                     !.token = unit[u].attempts + 1, !.lane = Loop(p).lane,
                                     !.handled = Loop(p).handled + 1]),
             Claimable(proc[p].lane)
      PROVE  LeaseInv'
  <2> DEFINE row == [Idle EXCEPT !.pc = "start", !.unit = u, !.task = TaskOf[u],
                                 !.token = unit[u].attempts + 1, !.lane = Loop(p).lane,
                                 !.handled = Loop(p).handled + 1]
  <2>1. /\ u \in Unit /\ unit[u].status = "queued" /\ InLane(u, proc[p].lane)
        /\ proc[p].lane \in Lane \cup {AnyLane, None}
    BY <1>2, <1>5 DEF NextUnits, Eligible, Queued, WithStatus, ProcRow
  <2>2. /\ UnitsFine /\ LeasesStay /\ unit'[u].status = "leased"
        /\ unit'[u].attempts = unit[u].attempts + 1 /\ unit'[u].token = unit'[u].attempts
    BY <1>5, <2>1, LeasedUnit DEF LeaseInv
  <2>3. /\ Loop(p).lane \in Lane \cup {AnyLane, None} /\ Loop(p).handled \in Nat
        /\ p \in Internal => Loop(p).lane \in Lane
    BY <1>2, <1>3 DEF Loop, ProcRow
  <2>4. /\ unit[u].attempts \in Nat /\ unit'[u].attempts \in 0..MaxAttempts
    BY <2>1, <2>2 DEF LeaseInv, TypeOK, UnitRow, UnitsFine
  <2>5. TaskOf[u] \in Task  BY <2>1, QueueAssumption DEF QueueAssumption
  <2>7. Becomes(p, row)  BY <1>5
  <2>15. proc'[p] = row  BY <1>1, <2>7 DEF Becomes, LeaseInv, TypeOK
  <2>6. proc'[p] = [pc |-> "start", unit |-> u, token |-> unit[u].attempts + 1, task |-> TaskOf[u],
                    todo |-> {}, lane |-> Loop(p).lane, handled |-> Loop(p).handled + 1, discard |-> FALSE]
    BY <2>15 DEF Idle
  <2> HIDE DEF row
  <2>16. unit[u].attempts + 1 \in 0..MaxAttempts /\ Loop(p).handled + 1 \in Nat  BY <2>2, <2>3, <2>4
  <2>17. proc'[p] \in ProcRow
    <3>1. "start" \in InstancePc \cup ReaperPc /\ FALSE \in BOOLEAN  BY DEF InstancePc
    <3>2. {} \in SUBSET (Task \cup Unit)  OBVIOUS
    <3> QED  BY <2>1, <2>3, <2>5, <2>6, <2>16, <3>1, <3>2 DEF ProcRow
  <2>8. row \in ProcRow  BY <2>15, <2>17
  <2>9. /\ proc' \in [Process -> ProcRow] /\ proc'[p] = row
        /\ \A q \in Process : q # p => proc'[q] = proc[q]
    BY <1>1, <2>7, <2>8, RowMoves DEF LeaseInv
  <2>10. ProcRowInv(p)'
    <3>1. proc'[p].token \in 1..unit'[u].attempts  BY <2>2, <2>4, <2>6
    <3> QED  BY <1>1, <2>1, <2>3, <2>6, <2>9, <3>1 DEF ProcRowInv, InstancePc
  <2>11. ASSUME NEW q \in Instance, q # p, proc[q].pc = "store"  PROVE HoldsLease(q)'
    <3>1. q \in Process  BY DEF Process
    <3> QED  BY <2>2, <2>9, <2>11, <3>1, StillHeld DEF LeaseInv
  <2>12. ASSUME NEW q \in Instance, q # p, Carries(q),
                proc'[p].unit = proc[q].unit, proc'[p].token = proc[q].token
         PROVE  FALSE
    <3>1. ProcRowInv(q)  BY DEF LeaseInv, ProcInv, Process
    <3>2. proc[q].unit = u /\ proc[q].token = unit[u].attempts + 1  BY <2>6, <2>9, <2>12
    <3> QED  BY <2>4, <2>12, <3>1, <3>2 DEF ProcRowInv
  <2>13. ProcInv' /\ NoSharedLease'
    BY <1>1, <2>2, <2>9, <2>10, <2>11, <2>12, ProcStep DEF LeaseInv, UnitsFine, TypeOK
  <2>14. TypeOK'  BY <2>2, <2>9 DEF Claim, LeaseInv, TypeOK, UnitsFine
  <2> QED  BY <2>2, <2>13, <2>14 DEF UnitsFine, LeaseInv
<1> QED  BY <1>4, <1>5 DEF Claim

\* mark_started, a heartbeat, an intake that raises: nothing about the lease changes but its deadline.
LEMMA WorkInv ==
  ASSUME LeaseInv, NEW p \in Instance, MarkStarted(p) \/ Heartbeat(p) \/ StoreAborts(p)
  PROVE  LeaseInv'
<1> DEFINE row == [proc[p] EXCEPT !.pc = "work"]
<1>1. p \in Process /\ p # Reaper /\ Carries(p)
  BY QueueAssumption DEF Process, QueueAssumption, MarkStarted, Heartbeat, StoreAborts, Carries
<1>2. proc[p] \in ProcRow /\ ProcRowInv(p)  BY <1>1 DEF LeaseInv, TypeOK, ProcInv
<1>3. row \in ProcRow  BY <1>2, ProcRowFields DEF InstancePc
<1>4. /\ row.pc = "work" /\ row.unit = proc[p].unit
      /\ row.token = proc[p].token /\ row.task = proc[p].task /\ row.lane = proc[p].lane
  BY <1>2 DEF ProcRow
<1>5. Goto(p, "work") => Becomes(p, row)  BY DEF Goto
<1> HIDE DEF row
<1>6. CASE MarkStarted(p)
  <2>1. UnitsFine /\ LeasesStay  BY <1>6, UnitsUnchanged DEF MarkStarted, LeaseInv
  <2>2. proc' \in [Process -> ProcRow] /\ ProcInv' /\ NoSharedLease'
    BY <1>1, <1>3, <1>4, <1>5, <1>6, <2>1, CarrierMoves DEF MarkStarted
  <2>3. task' \in [Task -> [status : OpenStatus \cup ClosedStatus, failed : Nat, over : BOOLEAN]]
    <3>1. CASE UNCHANGED task  BY <3>1 DEF LeaseInv, TypeOK
    <3>2. CASE task' = [task EXCEPT ![proc[p].task].status = "in_progress"]
      <4>1. task \in [Task -> [status : OpenStatus \cup ClosedStatus, failed : Nat, over : BOOLEAN]]
        BY DEF LeaseInv, TypeOK
      <4> QED  BY <3>2, <4>1 DEF OpenStatus
    <3> QED  BY <1>6, <3>1, <3>2 DEF MarkStarted
  <2>4. TypeOK'  BY <1>6, <2>1, <2>2, <2>3 DEF MarkStarted, LeaseInv, TypeOK, UnitsFine
  <2> QED  BY <2>1, <2>2, <2>4 DEF UnitsFine, LeaseInv
<1>7. CASE StoreAborts(p)
  <2>1. UnitsFine /\ LeasesStay  BY <1>7, UnitsUnchanged DEF StoreAborts, LeaseInv
  <2>2. proc' \in [Process -> ProcRow] /\ ProcInv' /\ NoSharedLease'
    BY <1>1, <1>3, <1>4, <1>5, <1>7, <2>1, CarrierMoves DEF StoreAborts
  <2>3. faults' \in 0..MaxFaults
    BY <1>7, QueueAssumption DEF StoreAborts, Fault, LeaseInv, TypeOK, QueueAssumption
  <2>4. TypeOK'  BY <1>7, <2>1, <2>2, <2>3 DEF StoreAborts, LeaseInv, TypeOK, UnitsFine
  <2> QED  BY <2>1, <2>2, <2>4 DEF UnitsFine, LeaseInv
<1>8. CASE Heartbeat(p)
  <2>1. UnitsFine /\ LeasesStay /\ proc' \in [Process -> ProcRow] /\ ProcInv' /\ NoSharedLease'
    <3>1. ASSUME HoldsLease(p), SetUnit(proc[p].unit, [Row(p) EXCEPT !.ttl = Lease]), UNCHANGED proc
          PROVE  UnitsFine /\ LeasesStay /\ proc' \in [Process -> ProcRow] /\ ProcInv' /\ NoSharedLease'
      <4>1. proc[p].unit \in Unit /\ unit[proc[p].unit].status = "leased"
        BY <1>1, <1>2, <3>1 DEF ProcRowInv, HoldsLease, Row
      <4>2. UnitsFine /\ LeasesStay  BY <3>1, <4>1, ExtendedUnit DEF Row, LeaseInv
      <4> QED  BY <3>1, <4>2, NobodyMoves
    <3>2. ASSUME Leave(p, "end"), UNCHANGED unit
          PROVE  UnitsFine /\ LeasesStay /\ proc' \in [Process -> ProcRow] /\ ProcInv' /\ NoSharedLease'
      <4>1. UnitsFine /\ LeasesStay  BY <3>2, UnitsUnchanged DEF LeaseInv
      <4> QED  BY <1>1, <3>2, <4>1, Leaves
    <3> QED  BY <1>8, <3>1, <3>2 DEF Heartbeat
  <2>2. TypeOK'  BY <1>8, <2>1 DEF Heartbeat, LeaseInv, TypeOK, UnitsFine
  <2> QED  BY <2>1, <2>2 DEF UnitsFine, LeaseInv
<1> QED  BY <1>6, <1>7, <1>8

\* The streak of one instance and the pause change.
LEMMA StreakChanges ==
  ASSUME TypeOK, NEW i, NEW n, i \in Instance => n \in 0..PauseAfter, NEW b \in BOOLEAN,
         worker' = [worker EXCEPT !.streak[i] = n, !.paused = b]
  PROVE  worker' \in [paused : BOOLEAN, resuming : BOOLEAN, streak : [Instance -> 0..PauseAfter]]
<1>1. worker \in [paused : BOOLEAN, resuming : BOOLEAN, streak : [Instance -> 0..PauseAfter]]
  BY DEF TypeOK
<1>2. [worker.streak EXCEPT ![i] = n] \in [Instance -> 0..PauseAfter]  BY <1>1
<1>3. worker' = [paused |-> b, resuming |-> worker.resuming, streak |-> [worker.streak EXCEPT ![i] = n]]
  BY <1>1
<1> QED  BY <1>1, <1>2, <1>3

\* complete, up to the read of the task: the transaction that stores results holds the lease.
LEMMA CompleteInv ==
  ASSUME LeaseInv, NEW p \in Instance, Complete(p)
  PROVE  LeaseInv'
<1>1. p \in Process /\ p # Reaper /\ Carries(p)
  BY QueueAssumption DEF Process, QueueAssumption, Complete, Carries
<1>2. proc[p] \in ProcRow /\ ProcRowInv(p)  BY <1>1 DEF LeaseInv, TypeOK, ProcInv
<1>3. UnitsFine /\ LeasesStay  BY UnitsUnchanged DEF Complete, LeaseInv
<1>4. ASSUME HoldsLease(p),
             Becomes(p, [proc[p] EXCEPT !.pc = "store", !.discard = task[proc[p].task].status = "cancelled"])
      PROVE  proc' \in [Process -> ProcRow] /\ ProcInv' /\ NoSharedLease'
  <2> DEFINE discard == task[proc[p].task].status = "cancelled"
             row == [proc[p] EXCEPT !.pc = "store", !.discard = discard]
  <2>1. discard \in BOOLEAN  OBVIOUS
  <2> HIDE DEF discard
  <2>2. row \in ProcRow  BY <1>2, <2>1 DEF ProcRow, InstancePc
  <2>3. /\ row.pc = "store" /\ row.unit = proc[p].unit
        /\ row.token = proc[p].token /\ row.task = proc[p].task /\ row.lane = proc[p].lane
    BY <1>2 DEF ProcRow
  <2>4. Becomes(p, row)  BY <1>4 DEF discard
  <2> HIDE DEF row
  <2>5. proc'[p] = row  BY <1>1, <2>2, <2>4, RowMoves DEF LeaseInv
  <2>6. HoldsLease(p)'  BY <1>4, <2>3, <2>5 DEF HoldsLease, HoldsToken, Row, Complete
  <2>7. proc[p].token \in 1..unit'[proc[p].unit].attempts
    BY <1>1, <1>2 DEF ProcRowInv, Complete
  <2>8. ProcRowInv(p)'  BY <1>1, <1>2, <2>3, <2>5, <2>6, <2>7 DEF ProcRowInv, Carries, InstancePc
  <2> QED  BY <1>1, <1>3, <2>2, <2>3, <2>4, <2>8, OneMoves
<1>5. ASSUME NextUnit(p) \/ Leave(p, "end")
      PROVE  proc' \in [Process -> ProcRow] /\ ProcInv' /\ NoSharedLease'
  BY <1>1, <1>3, <1>5, GoesOn, Leaves
<1>6. proc' \in [Process -> ProcRow] /\ ProcInv' /\ NoSharedLease'  BY <1>4, <1>5 DEF Complete
<1>7. TypeOK'  BY <1>3, <1>6 DEF Complete, LeaseInv, TypeOK, UnitsFine
<1> QED  BY <1>3, <1>6, <1>7 DEF UnitsFine, LeaseInv

\* The results are stored, or discarded: the lease that is checked ends, and nothing else.
LEMMA StoredUnit ==
  ASSUME LeaseInv, NEW p \in Instance, StoreResults(p)
  PROVE  /\ UnitsFine /\ UnitMove /\ \A v \in Unit : v # proc[p].unit => unit'[v] = unit[v]
         /\ Carries(p) /\ HoldsLease(p) /\ proc[p].task \in Task
<1> DEFINE u == proc[p].unit
<1>1. p \in Process /\ p # Reaper /\ Carries(p)
  BY QueueAssumption DEF Process, QueueAssumption, StoreResults, Carries
<1>2. proc[p] \in ProcRow /\ ProcRowInv(p)  BY <1>1 DEF LeaseInv, TypeOK, ProcInv
<1>3. u \in Unit /\ HoldsLease(p) /\ proc[p].task \in Task
  BY <1>1, <1>2, QueueAssumption DEF StoreResults, ProcRowInv, QueueAssumption
<1>4. unit[u] \in UnitRow  BY <1>3 DEF LeaseInv, TypeOK
<1>5. /\ unit[u].status = "leased" /\ unit[u].token = proc[p].token /\ unit[u].taken = {}
      /\ unit[u].token = unit[u].attempts /\ unit[u].token > 0
  BY <1>3 DEF HoldsLease, HoldsToken, Row, LeaseInv, UnitInv, ResultsCountOnce
<1>6. UnitsFine /\ UnitMove /\ \A v \in Unit : v # u => unit'[v] = unit[v]
  <2>1. ASSUME SetUnit(u, [unit[u] EXCEPT !.status = "cancelled", !.ttl = 0])
        PROVE  UnitsFine /\ UnitMove /\ \A v \in Unit : v # u => unit'[v] = unit[v]
    <3>1. unit'[u] = [unit[u] EXCEPT !.status = "cancelled", !.ttl = 0]
      BY <1>3, <2>1 DEF SetUnit, LeaseInv, TypeOK
    <3>2. unit'[u] = [status |-> "cancelled", token |-> unit[u].token, attempts |-> unit[u].attempts,
                      ttl |-> 0, wait |-> unit[u].wait, holder |-> unit[u].holder,
                      good |-> unit[u].good, taken |-> unit[u].taken]
      BY <1>4, <3>1 DEF UnitRow
    <3>3. unit'[u] \in UnitRow  BY <1>4, <3>2, QueueAssumption DEF UnitRow, TerminalUnit, QueueAssumption
    <3>4. /\ unit'[u].status = "cancelled" /\ unit'[u].token = unit[u].token
          /\ unit'[u].attempts = unit[u].attempts /\ unit'[u].taken = {}
      BY <3>2, <1>5
    <3>5. unit'[u].token <= unit'[u].attempts /\ unit'[u].attempts >= unit[u].attempts
      BY <1>4, <1>5, <3>4 DEF UnitRow
    <3>6. LeaseEnded(u)  BY <1>5, <3>4 DEF LeaseEnded
    <3> HIDE DEF u
    <3>7. UnitsFine /\ \A v \in Unit : v # u => unit'[v] = unit[v]
      BY <1>3, <2>1, <3>3, <3>4, <3>5, SetUnitRow DEF LeaseInv
    <3>8. UnitMove  BY <1>3, <3>6, <3>7 DEF UnitMove, Alike
    <3> QED  BY <3>7, <3>8
  <2>2. ASSUME NEW good \in 0..Size,
               SetUnit(u, [unit[u] EXCEPT !.status = "done", !.ttl = 0, !.good = good,
                                          !.taken = @ \cup {proc[p].token}])
        PROVE  UnitsFine /\ UnitMove /\ \A v \in Unit : v # u => unit'[v] = unit[v]
    <3>1. unit'[u] = [unit[u] EXCEPT !.status = "done", !.ttl = 0, !.good = good,
                                     !.taken = unit[u].taken \cup {proc[p].token}]
      BY <1>3, <2>2 DEF SetUnit, LeaseInv, TypeOK
    <3>2. unit'[u] = [status |-> "done", token |-> unit[u].token, attempts |-> unit[u].attempts,
                      ttl |-> 0, wait |-> unit[u].wait, holder |-> unit[u].holder,
                      good |-> good, taken |-> unit[u].taken \cup {proc[p].token}]
      BY <1>4, <3>1 DEF UnitRow
    <3>3. unit[u].taken \cup {proc[p].token} = {unit[u].token}  BY <1>5
    <3>4. unit'[u] \in UnitRow
      BY <1>4, <3>2, <3>3, QueueAssumption DEF UnitRow, TerminalUnit, QueueAssumption
    <3>5. /\ unit'[u].status = "done" /\ unit'[u].token = unit[u].token
          /\ unit'[u].attempts = unit[u].attempts /\ unit'[u].taken = {unit[u].token}
      BY <3>2, <3>3
    <3>6. unit'[u].token <= unit'[u].attempts /\ unit'[u].attempts >= unit[u].attempts
      BY <1>4, <1>5, <3>5 DEF UnitRow
    <3>7. LeaseEnded(u)  BY <1>5, <3>5 DEF LeaseEnded
    <3> HIDE DEF u
    <3>8. UnitsFine /\ \A v \in Unit : v # u => unit'[v] = unit[v]
      BY <1>3, <2>2, <3>4, <3>5, <3>6, SetUnitRow DEF LeaseInv
    <3>9. UnitMove  BY <1>3, <3>7, <3>8 DEF UnitMove, Alike
    <3> QED  BY <3>8, <3>9
  <2> QED  BY <2>1, <2>2 DEF StoreResults, Row
<1> QED  BY <1>1, <1>3, <1>6

\* complete, from the read of the task to its commit.
LEMMA StoreInv ==
  ASSUME LeaseInv, NEW p \in Instance, StoreResults(p)
  PROVE  LeaseInv'
<1>1. Carries(p) /\ HoldsLease(p) /\ proc[p].task \in Task  BY StoredUnit
<1>2. UnitsFine /\ \A v \in Unit : v # proc[p].unit => unit'[v] = unit[v]  BY StoredUnit
<1>3. proc' \in [Process -> ProcRow] /\ ProcInv' /\ NoSharedLease'
  BY <1>1, <1>2, HolderReports DEF StoreResults
<1>4. task' \in [Task -> [status : OpenStatus \cup ClosedStatus, failed : Nat, over : BOOLEAN]]
  <2>1. ASSUME NEW good \in 0..Size, task' = [task EXCEPT ![proc[p].task].failed = @ + Size - good]
        PROVE  task' \in [Task -> [status : OpenStatus \cup ClosedStatus, failed : Nat, over : BOOLEAN]]
    <3>1. task[proc[p].task].failed + Size - good \in Nat
      BY <1>1, QueueAssumption DEF LeaseInv, TypeOK, QueueAssumption
    <3> QED  BY <1>1, <2>1, <3>1 DEF LeaseInv, TypeOK
  <2>2. CASE UNCHANGED task  BY <2>2 DEF LeaseInv, TypeOK
  <2> QED  BY <2>1, <2>2 DEF StoreResults
<1>5. worker' \in [paused : BOOLEAN, resuming : BOOLEAN, streak : [Instance -> 0..PauseAfter]]
  <2>1. CASE UNCHANGED worker  BY <2>1 DEF LeaseInv, TypeOK
  <2>2. CASE worker' = [worker EXCEPT !.streak[Row(p).holder] = 0]
    <3>1. worker' = [worker EXCEPT !.streak[Row(p).holder] = 0, !.paused = worker.paused]
      BY <2>2 DEF LeaseInv, TypeOK
    <3>2. 0 \in 0..PauseAfter /\ worker.paused \in BOOLEAN
      BY QueueAssumption DEF LeaseInv, TypeOK, QueueAssumption
    <3> QED  BY <3>1, <3>2, StreakChanges DEF LeaseInv
  <2> QED  BY <2>1, <2>2 DEF StoreResults
<1>6. TypeOK'  BY <1>2, <1>3, <1>4, <1>5 DEF StoreResults, LeaseInv, TypeOK, UnitsFine
<1> QED  BY <1>2, <1>3, <1>6 DEF UnitsFine, LeaseInv

\* A unit reported as failed is requeued or failed for good by the process that holds its lease.
LEMMA FailInv ==
  ASSUME LeaseInv, NEW p \in Instance, Fail(p)
  PROVE  LeaseInv'
<1>1. p \in Process /\ p # Reaper /\ Carries(p)
  BY QueueAssumption DEF Process, QueueAssumption, Fail, Carries
<1>2. proc[p] \in ProcRow /\ ProcRowInv(p)  BY <1>1 DEF LeaseInv, TypeOK, ProcInv
<1>3. CASE UNCHANGED <<task, unit, worker>> /\ (NextUnit(p) \/ Becomes(p, Idle))
  <2>1. UnitsFine /\ LeasesStay  BY <1>3, UnitsUnchanged DEF LeaseInv
  <2>2. ASSUME Becomes(p, Idle)  PROVE proc' \in [Process -> ProcRow] /\ ProcInv' /\ NoSharedLease'
    <3>1. Idle.pc = "idle"  BY DEF Idle
    <3> QED  BY <1>1, <2>1, <2>2, <3>1, IdleType, QueueAssumption, FreeMoves DEF InstancePc
  <2>3. proc' \in [Process -> ProcRow] /\ ProcInv' /\ NoSharedLease'  BY <1>1, <1>3, <2>1, <2>2, GoesOn
  <2>4. TypeOK'  BY <1>3, <2>1, <2>3 DEF Fail, LeaseInv, TypeOK, UnitsFine
  <2> QED  BY <2>1, <2>3, <2>4 DEF UnitsFine, LeaseInv
<1>4. ASSUME HoldsLease(p), NEW retryable \in BOOLEAN, NEW budget \in BOOLEAN,
             RequeueOrFail(proc[p].unit, retryable), CountFailure(Row(p).holder, budget), Goto(p, "refresh")
      PROVE  LeaseInv'
  <2>1. proc[p].unit \in Unit /\ unit[proc[p].unit].status = "leased"
    BY <1>1, <1>2, <1>4 DEF ProcRowInv, HoldsLease, Row
  <2>2. /\ UnitsFine /\ \A v \in Unit : v # proc[p].unit => unit'[v] = unit[v]
        /\ task' \in [Task -> [status : OpenStatus \cup ClosedStatus, failed : Nat, over : BOOLEAN]]
    BY <1>4, <2>1, RequeuedOrFailed DEF LeaseInv
  <2>3. proc' \in [Process -> ProcRow] /\ ProcInv' /\ NoSharedLease'
    BY <1>1, <1>4, <2>2, HolderReports
  <2>4. worker' \in [paused : BOOLEAN, resuming : BOOLEAN, streak : [Instance -> 0..PauseAfter]]
    <3> DEFINE i == Row(p).holder
               n == IF worker.streak[i] < PauseAfter THEN worker.streak[i] + 1 ELSE PauseAfter
               b == worker.paused \/ (AutoPause /\ (budget \/ n = PauseAfter))
    <3>1. i \in Instance => n \in 0..PauseAfter
      BY QueueAssumption DEF LeaseInv, TypeOK, QueueAssumption
    <3>2. b \in BOOLEAN  BY QueueAssumption DEF LeaseInv, TypeOK, QueueAssumption
    <3>3. worker' = [worker EXCEPT !.streak[i] = n, !.paused = b]  BY <1>4 DEF CountFailure
    <3> HIDE DEF i, n, b
    <3> QED  BY <3>1, <3>2, <3>3, StreakChanges DEF LeaseInv
  <2>5. TypeOK'  BY <2>2, <2>3, <2>4 DEF Fail, LeaseInv, TypeOK, UnitsFine
  <2> QED  BY <2>2, <2>3, <2>5 DEF UnitsFine, LeaseInv
<1> QED  BY <1>3, <1>4 DEF Fail

\* refresh after complete or fail.
LEMMA RefreshInv ==
  ASSUME LeaseInv, NEW p \in Instance, RefreshAfter(p)
  PROVE  LeaseInv'
<1>1. p \in Process /\ Carries(p)  BY DEF Process, RefreshAfter, Carries
<1>2. ProcRowInv(p)  BY <1>1 DEF LeaseInv, ProcInv
<1>3. proc[p].task \in Task  BY <1>1, <1>2, QueueAssumption DEF ProcRowInv, QueueAssumption
<1>4. /\ UnitsFine /\ LeasesStay /\ kicks' \subseteq Lane
      /\ task' \in [Task -> [status : OpenStatus \cup ClosedStatus, failed : Nat, over : BOOLEAN]]
  BY <1>3, Refreshed DEF RefreshAfter, LeaseInv
<1>5. proc' \in [Process -> ProcRow] /\ ProcInv' /\ NoSharedLease'
  BY <1>1, <1>4, GoesOn DEF RefreshAfter
<1>6. TypeOK'  BY <1>4, <1>5 DEF RefreshAfter, LeaseInv, TypeOK, UnitsFine
<1> QED  BY <1>4, <1>5, <1>6 DEF UnitsFine, LeaseInv

\* The beat requeues a unit only when no transaction holds its row, so no lease that was checked ends.
LEMMA ReaperInv ==
  ASSUME LeaseInv, ReadExpired \/ ExpireLease \/ RefreshExpired \/ Kick
  PROVE  LeaseInv'
<1> DEFINE p == Reaper
<1>1. p \in Process /\ p \notin Instance /\ p \notin Internal
  BY QueueAssumption DEF Process, QueueAssumption, Instance
<1>2. proc[p] \in ProcRow /\ ProcRowInv(p)  BY <1>1 DEF LeaseInv, TypeOK, ProcInv
<1>3. ASSUME NEW S \in SUBSET Unit
      PROVE  /\ ToExpire(S) \in ReaperPc \cap {"poll", "expire"} /\ ToExpire(S) \in InstancePc \cup ReaperPc
             /\ S \in SUBSET (Task \cup Unit)
  BY DEF ToExpire, InstancePc, ReaperPc
<1>4. CASE ReadExpired
  <2> DEFINE S == {u \in Unit : Expired(u)}
             row == [proc[p] EXCEPT !.pc = ToExpire(S), !.todo = S]
  <2>1. S \in SUBSET Unit  OBVIOUS
  <2>2. row \in ProcRow /\ row.pc = ToExpire(S) /\ row.todo = S
    BY <1>2, <1>3, <2>1, ProcRowFields DEF ProcRow
  <2>3. Becomes(p, row)  BY <1>4 DEF ReadExpired
  <2>4. UnitsFine /\ LeasesStay  BY <1>4, UnitsUnchanged DEF ReadExpired, LeaseInv
  <2> HIDE DEF row, S
  <2>5. proc' \in [Process -> ProcRow] /\ ProcInv' /\ NoSharedLease'
    BY <1>1, <1>3, <2>1, <2>2, <2>3, <2>4, FreeMoves
  <2>6. TypeOK'  BY <1>4, <2>4, <2>5 DEF ReadExpired, LeaseInv, TypeOK, UnitsFine
  <2> QED  BY <2>4, <2>5, <2>6 DEF UnitsFine, LeaseInv
<1>5. CASE ExpireLease
  <2>1. PICK u \in proc[p].todo :
           \/ /\ Expired(u) /\ ~Locked(u) /\ RequeueOrFail(u, TRUE)
              /\ Becomes(p, [proc[p] EXCEPT !.pc = "expired", !.task = TaskOf[u], !.todo = proc[p].todo \ {u}])
           \/ /\ Becomes(p, [proc[p] EXCEPT !.pc = ToExpire(proc[p].todo \ {u}), !.todo = proc[p].todo \ {u}])
              /\ UNCHANGED <<task, unit>>
    BY <1>5 DEF ExpireLease
  <2> DEFINE rest == proc[p].todo \ {u}
  <2>2. u \in Unit /\ rest \in SUBSET Unit /\ TaskOf[u] \in Task
    BY <1>2, <1>5, QueueAssumption DEF ExpireLease, ProcRowInv, QueueAssumption
  <2>3. ASSUME UNCHANGED <<task, unit>>,
               Becomes(p, [proc[p] EXCEPT !.pc = ToExpire(rest), !.todo = rest])
        PROVE  LeaseInv'
    <3> DEFINE row == [proc[p] EXCEPT !.pc = ToExpire(rest), !.todo = rest]
    <3>1. row \in ProcRow /\ row.pc = ToExpire(rest) /\ row.todo = rest
      BY <1>2, <1>3, <2>2, ProcRowFields DEF ProcRow
    <3>2. Becomes(p, row)  BY <2>3
    <3>3. UnitsFine /\ LeasesStay  BY <2>3, UnitsUnchanged DEF LeaseInv
    <3> HIDE DEF row, rest
    <3>4. proc' \in [Process -> ProcRow] /\ ProcInv' /\ NoSharedLease'
      BY <1>1, <1>3, <2>2, <3>1, <3>2, <3>3, FreeMoves
    <3>5. TypeOK'  BY <1>5, <2>3, <3>3, <3>4 DEF ExpireLease, LeaseInv, TypeOK, UnitsFine
    <3> QED  BY <3>3, <3>4, <3>5 DEF UnitsFine, LeaseInv
  <2>4. ASSUME Expired(u), ~Locked(u), RequeueOrFail(u, TRUE),
               Becomes(p, [proc[p] EXCEPT !.pc = "expired", !.task = TaskOf[u], !.todo = rest])
        PROVE  LeaseInv'
    <3> DEFINE row == [proc[p] EXCEPT !.pc = "expired", !.task = TaskOf[u], !.todo = rest]
    <3>1. Becomes(p, row)  BY <2>4
    <3>2. "expired" \in InstancePc \cup ReaperPc /\ rest \in SUBSET (Task \cup Unit)
      BY <2>2 DEF ReaperPc
    <3>3. row \in ProcRow /\ row.pc = "expired" /\ row.todo = rest /\ row.task = TaskOf[u]
      BY <1>2, <2>2, <3>2 DEF ProcRow
    <3> HIDE DEF row, rest
    <3>4. /\ UnitsFine /\ \A v \in Unit : v # u => unit'[v] = unit[v]
          /\ task' \in [Task -> [status : OpenStatus \cup ClosedStatus, failed : Nat, over : BOOLEAN]]
      BY <2>2, <2>4, RequeuedOrFailed DEF Expired, LeaseInv
    <3>5. /\ proc' \in [Process -> ProcRow] /\ proc'[p] = row
          /\ \A q \in Process : q # p => proc'[q] = proc[q]
      BY <1>1, <3>1, <3>3, RowMoves DEF LeaseInv
    <3>6. ProcRowInv(p)'  BY <1>1, <2>2, <3>3, <3>5 DEF ProcRowInv, Carries, ReaperPc
    <3>7. ASSUME NEW q \in Instance, q # p, proc[q].pc = "store"  PROVE HoldsLease(q)'
      <4>1. q \in Process /\ proc[q].unit # u  BY <2>4, <3>7 DEF Process, Locked
      <4>2. ProcRowInv(q)  BY <4>1 DEF LeaseInv, ProcInv
      <4>3. proc[q].unit \in Unit /\ HoldsLease(q)  BY <3>7, <4>2 DEF ProcRowInv, Carries
      <4>4. unit'[proc[q].unit] = unit[proc[q].unit] /\ proc'[q] = proc[q]  BY <3>4, <3>5, <3>7, <4>1, <4>3
      <4> QED  BY <4>3, <4>4 DEF HoldsLease, HoldsToken, Row
    <3>8. ProcInv' /\ NoSharedLease'
      BY <1>1, <3>4, <3>5, <3>6, <3>7, ProcStep DEF LeaseInv, UnitsFine, TypeOK
    <3>9. TypeOK'  BY <1>5, <3>4, <3>5 DEF ExpireLease, LeaseInv, TypeOK, UnitsFine
    <3> QED  BY <3>4, <3>8, <3>9 DEF UnitsFine, LeaseInv
  <2> QED  BY <2>1, <2>3, <2>4
<1>6. CASE RefreshExpired
  <2> DEFINE todo == proc[p].todo
             row == [proc[p] EXCEPT !.pc = ToExpire(todo), !.task = None]
  <2>1. proc[p].task \in Task /\ todo \in SUBSET Unit  BY <1>2, <1>6 DEF RefreshExpired, ProcRowInv
  <2>2. row \in ProcRow /\ row.pc = ToExpire(todo) /\ row.todo = todo
    BY <1>2, <1>3, <2>1, ProcRowFields DEF ProcRow
  <2>3. Becomes(p, row)  BY <1>6 DEF RefreshExpired
  <2> HIDE DEF row, todo
  <2>4. /\ UnitsFine /\ LeasesStay /\ kicks' \subseteq Lane
        /\ task' \in [Task -> [status : OpenStatus \cup ClosedStatus, failed : Nat, over : BOOLEAN]]
    BY <1>6, <2>1, Refreshed DEF RefreshExpired, LeaseInv
  <2>5. proc' \in [Process -> ProcRow] /\ ProcInv' /\ NoSharedLease'
    BY <1>1, <1>3, <2>1, <2>2, <2>3, <2>4, FreeMoves
  <2>6. TypeOK'  BY <1>6, <2>4, <2>5 DEF RefreshExpired, LeaseInv, TypeOK, UnitsFine
  <2> QED  BY <2>4, <2>5, <2>6 DEF UnitsFine, LeaseInv
<1>7. CASE Kick
  <2>1. Becomes(p, Idle) /\ Idle.pc = "idle"  BY <1>7 DEF Kick, Idle
  <2>2. UnitsFine /\ LeasesStay  BY <1>7, UnitsUnchanged DEF Kick, LeaseInv
  <2>3. proc' \in [Process -> ProcRow] /\ ProcInv' /\ NoSharedLease'
    BY <1>1, <2>1, <2>2, IdleType, QueueAssumption, FreeMoves DEF ReaperPc
  <2>4. TypeOK'  BY <1>7, <2>2, <2>3 DEF Kick, LeaseInv, TypeOK, UnitsFine
  <2> QED  BY <2>2, <2>3, <2>4 DEF UnitsFine, LeaseInv
<1> QED  BY <1>4, <1>5, <1>6, <1>7

\* A process dies; an external worker whose call died keeps its token.
LEMMA CrashInv ==
  ASSUME LeaseInv, NEW p \in Process, Crash(p)
  PROVE  LeaseInv'
<1>1. UnitsFine /\ LeasesStay  BY UnitsUnchanged DEF Crash, LeaseInv
<1>2. faults' \in 0..MaxFaults
  BY QueueAssumption DEF Crash, Fault, LeaseInv, TypeOK, QueueAssumption
<1>3. proc' \in [Process -> ProcRow] /\ ProcInv' /\ NoSharedLease'
  <2>1. ASSUME Becomes(p, Idle)  PROVE proc' \in [Process -> ProcRow] /\ ProcInv' /\ NoSharedLease'
    <3>1. Idle.pc = "idle"  BY DEF Idle
    <3> QED  BY <1>1, <2>1, <3>1, IdleType, QueueAssumption, FreeMoves DEF InstancePc, ReaperPc
  <2>2. ASSUME p \in External, Carries(p), Goto(p, "work")
        PROVE  proc' \in [Process -> ProcRow] /\ ProcInv' /\ NoSharedLease'
    <3> DEFINE row == [proc[p] EXCEPT !.pc = "work"]
    <3>1. p \in Instance /\ proc[p] \in ProcRow  BY <2>2 DEF LeaseInv, TypeOK, Instance
    <3>2. row \in ProcRow  BY <3>1, ProcRowFields DEF InstancePc
    <3>3. /\ row.pc = "work" /\ row.unit = proc[p].unit
          /\ row.token = proc[p].token /\ row.task = proc[p].task /\ row.lane = proc[p].lane
      BY <3>1 DEF ProcRow
    <3>4. Becomes(p, row)  BY <2>2 DEF Goto
    <3> HIDE DEF row
    <3> QED  BY <1>1, <2>2, <3>1, <3>2, <3>3, <3>4, CarrierMoves
  <2> QED  BY <2>1, <2>2 DEF Crash, Carries
<1>4. TypeOK'  BY <1>1, <1>2, <1>3 DEF Crash, LeaseInv, TypeOK, UnitsFine
<1> QED  BY <1>1, <1>3, <1>4 DEF UnitsFine, LeaseInv

-----------------------------------------------------------------------------
(* The theorems *)

\* Every step keeps the invariant.
LEMMA StepInv == LeaseInv /\ [Next]_vars => LeaseInv'
<1> SUFFICES ASSUME LeaseInv, [Next]_vars PROVE LeaseInv'  OBVIOUS
<1>1. ASSUME NEW t \in Task, PlanStep(t) \/ PlanFailStep(t)  PROVE LeaseInv'  BY <1>1, PlannerInv
<1>2. CASE \/ \E t \in Task, s \in PatchTargets : PatchTask(t, s)
           \/ \E t \in Task : CloseUnits(t)
           \/ ResumeWorker \/ ResumeStreaks
  BY <1>2, OperatorInv
<1>3. CASE \/ \E p \in Instance : Charge(p)
           \/ Tick \/ LoseMessage \/ \E t \in Task : CrashRequest(t)
  BY <1>3, EnvironmentInv
<1>4. ASSUME NEW p \in Process, GuardStep(p)  PROVE LeaseInv'  BY <1>4, GuardInv
<1>5. ASSUME NEW p \in Instance, \/ StartConsume(p) \/ EndConsume(p) \/ Claim(p) \/ RefreshAfter(p)
                                 \/ MarkStarted(p) \/ Heartbeat(p) \/ StoreAborts(p)
      PROVE  LeaseInv'
  BY <1>5, StartEndInv, ClaimInv, RefreshInv, WorkInv
<1>6. ASSUME NEW p \in Instance, Complete(p) \/ StoreResults(p) \/ Fail(p)  PROVE LeaseInv'
  BY <1>6, CompleteInv, StoreInv, FailInv
<1>7. CASE ReadExpired \/ ExpireLease \/ RefreshExpired \/ Kick  BY <1>7, ReaperInv
<1>8. ASSUME NEW p \in Process, Crash(p)  PROVE LeaseInv'  BY <1>8, CrashInv
<1>9. CASE UNCHANGED vars
  BY <1>9 DEF vars, LeaseInv, TypeOK, UnitInv, ProcInv, ProcRowInv, NoSharedLease, ResultsCountOnce,
              Carries, HoldsLease, HoldsToken, Row
<1>10. Reaper \in Process /\ Instance \subseteq Process  BY DEF Process
<1> QED
  BY <1>1, <1>2, <1>3, <1>4, <1>5, <1>6, <1>7, <1>8, <1>9, <1>10
  DEF Next, ConsumeStep, Report, ReapStep

\* Every reachable state satisfies the invariant of leases, tokens and results, for any number of
\* tasks, units, consumers, external instances and faults.
THEOREM LeasesAreSound == Spec => []LeaseInv
<1>1. Init => LeaseInv  BY InitInv
<1>2. LeaseInv /\ [Next]_vars => LeaseInv'  BY StepInv
<1> QED  BY <1>1, <1>2, PTL DEF Spec


\* What every step does to the units.
LEMMA UnitMoves == LeaseInv /\ [Next]_vars => UnitMove
<1> SUFFICES ASSUME LeaseInv, [Next]_vars PROVE UnitMove  OBVIOUS
<1>1. TypeOK /\ UnitInv /\ ResultsCountOnce  BY DEF LeaseInv
<1>2. CASE UNCHANGED unit  BY <1>1, <1>2, UnitsUnchanged
<1>3. ASSUME NEW t \in Task, Refresh(t) \/ FinishIfSettled(t)  PROVE UnitMove  BY <1>1, <1>3, Refreshed
<1>4. ASSUME NEW t \in Task, CancelUnits(t)  PROVE UnitMove  BY <1>1, <1>4, CancelledUnits
<1>5. ASSUME NEW t \in Task, PlanTask(t)  PROVE UnitMove
  BY <1>1, <1>2, <1>3, <1>5, QueueUnits DEF PlanTask
<1>6. ASSUME NEW p \in Process, GuardStep(p)  PROVE UnitMove
  <2>1. ProcRowInv(p)  BY DEF LeaseInv, ProcInv
  <2>2. CASE ReadOverCost(p)  BY <1>2, <2>2 DEF ReadOverCost
  <2>3. CASE StopOverCost(p)  BY <1>4, <2>1, <2>3 DEF StopOverCost, ProcRowInv
  <2>4. CASE SettleStopped(p)  BY <1>3, <2>1, <2>4 DEF SettleStopped, ProcRowInv
  <2> QED  BY <1>6, <2>2, <2>3, <2>4 DEF GuardStep
<1>7. ASSUME NEW p \in Instance, Claim(p)  PROVE UnitMove
  <2>1. ASSUME NEW u \in NextUnits(proc[p].lane), SetUnit(u, LeasedRow(u, p)), Claimable(proc[p].lane)
        PROVE  UnitMove
    <3>1. /\ u \in Unit /\ unit[u].status = "queued" /\ InLane(u, proc[p].lane)
          /\ proc[p].lane \in Lane \cup {AnyLane, None}
      BY <1>1, <2>1 DEF NextUnits, Eligible, Queued, WithStatus, ProcRow, TypeOK, Process
    <3> QED  BY <1>1, <2>1, <3>1, LeasedUnit
  <2> QED  BY <1>2, <1>7, <2>1 DEF Claim
<1>8. ASSUME NEW p \in Instance, Heartbeat(p) \/ Fail(p) \/ RefreshAfter(p)  PROVE UnitMove
  <2>1. Carries(p) /\ ProcRowInv(p)
    BY <1>8 DEF LeaseInv, ProcInv, Process, Heartbeat, Fail, RefreshAfter, Carries
  <2>2. proc[p].unit \in Unit /\ proc[p].task \in Task
    BY <2>1, QueueAssumption DEF ProcRowInv, QueueAssumption
  <2>3. CASE Heartbeat(p)
    BY <1>1, <1>2, <2>2, <2>3, ExtendedUnit DEF Heartbeat, HoldsLease, Row
  <2>4. CASE Fail(p)
    BY <1>1, <1>2, <2>2, <2>4, RequeuedOrFailed DEF Fail, HoldsLease, Row
  <2>5. CASE RefreshAfter(p)  BY <1>3, <2>2, <2>5 DEF RefreshAfter
  <2> QED  BY <1>8, <2>3, <2>4, <2>5
<1>9. ASSUME NEW p \in Instance, StoreResults(p)  PROVE UnitMove  BY <1>9, StoredUnit
<1>10. CASE ExpireLease
  <2>1. ProcRowInv(Reaper)  BY DEF LeaseInv, ProcInv, Process
  <2>2. PICK u \in proc[Reaper].todo : (Expired(u) /\ RequeueOrFail(u, TRUE)) \/ UNCHANGED unit
    BY <1>10 DEF ExpireLease
  <2>3. u \in Unit  BY <1>10, <2>1 DEF ExpireLease, ProcRowInv
  <2> QED  BY <1>1, <1>2, <2>2, <2>3, RequeuedOrFailed DEF Expired
<1>11. CASE RefreshExpired
  <2>1. ProcRowInv(Reaper)  BY DEF LeaseInv, ProcInv, Process
  <2> QED  BY <1>3, <1>11, <2>1 DEF RefreshExpired, ProcRowInv
<1>12. CASE Tick  BY <1>1, <1>12, TickedUnits
<1>13. ASSUME NEW t \in Task, CloseUnits(t)  PROVE UnitMove  BY <1>4, <1>13 DEF CloseUnits
<1>14. ASSUME NEW t \in Task, PlanRaises(t) \/ PlanFailStep(t) \/ CrashRequest(t)  PROVE UnitMove
  BY <1>2, <1>14 DEF PlanRaises, PlanFailStep, PlanFailMark, PlanFailClose, CrashRequest
<1>16. ASSUME NEW t \in Task, NEW s \in PatchTargets, PatchTask(t, s)  PROVE UnitMove
  BY <1>2, <1>16 DEF PatchTask
<1>17. CASE ResumeWorker \/ ResumeStreaks \/ ReadExpired \/ Kick \/ LoseMessage \/ UNCHANGED vars
  BY <1>2, <1>17 DEF ResumeWorker, ResumeStreaks, ReadExpired, Kick, LoseMessage, vars
<1>18. ASSUME NEW p \in Instance, \/ StartConsume(p) \/ EndConsume(p) \/ MarkStarted(p) \/ Charge(p)
                                  \/ Complete(p) \/ StoreAborts(p)
       PROVE  UnitMove
  BY <1>2, <1>18 DEF StartConsume, EndConsume, MarkStarted, Charge, Complete, StoreAborts
<1>19. ASSUME NEW p \in Process, Crash(p)  PROVE UnitMove  BY <1>2, <1>19 DEF Crash
<1>15. Reaper \in Process /\ Instance \subseteq Process  BY DEF Process
<1> QED
  BY <1>5, <1>6, <1>7, <1>8, <1>9, <1>10, <1>11, <1>12, <1>13, <1>14, <1>15, <1>16, <1>17, <1>18, <1>19
  DEF Next, PlanStep, ConsumeStep, Report, ReapStep

\* No step changes the status of a closed task.
LEMMA TasksStay == LeaseInv /\ [Next]_vars => \A t \in Task : task[t].status \in ClosedStatus => task'[t].status = task[t].status
<1> SUFFICES ASSUME LeaseInv, [Next]_vars, NEW t \in Task, task[t].status \in ClosedStatus
             PROVE  task'[t].status = task[t].status
  OBVIOUS
<1>1. /\ task \in [Task -> [status : OpenStatus \cup ClosedStatus, failed : Nat, over : BOOLEAN]]
      /\ task[t].status \notin OpenStatus
  BY DEF LeaseInv, TypeOK, OpenStatus, ClosedStatus
<1>2. CASE UNCHANGED task  BY <1>2
<1>3. ASSUME NEW s \in Task, NEW to, task[s].status \in OpenStatus, SetTask(s, to)
      PROVE  task'[t].status = task[t].status
  <2>1. s # t  BY <1>1, <1>3
  <2> QED  BY <1>1, <1>3, <2>1 DEF SetTask
<1>4. ASSUME NEW s \in Task, Refresh(s) \/ (FinishIfSettled(s) /\ task[s].status \in OpenStatus)
      PROVE  task'[t].status = task[t].status
  BY <1>2, <1>3, <1>4 DEF Refresh, FinishIfSettled
<1>5. ASSUME NEW s, NEW n, task' = [task EXCEPT ![s].failed = n]  PROVE task'[t].status = task[t].status
  BY <1>1, <1>5
<1>6. ASSUME NEW s \in Task, PlanStep(s) \/ PlanFailStep(s) \/ CloseUnits(s) \/ CrashRequest(s)
      PROVE  task'[t].status = task[t].status
  <2>1. "open" \in OpenStatus /\ "in_progress" \in OpenStatus  BY DEF OpenStatus
  <2>2. CASE PlanTask(s)  BY <1>2, <1>4, <2>1, <2>2 DEF PlanTask, Plannable
  <2>3. CASE PlanFailMark(s) \/ PlanFailClose(s)
    BY <1>2, <1>3, <2>1, <2>3 DEF PlanFailMark, PlanFailClose
  <2>4. CASE PlanRaises(s) \/ CloseUnits(s) \/ CrashRequest(s)
    BY <1>2, <2>4 DEF PlanRaises, CloseUnits, CrashRequest
  <2> QED  BY <1>6, <2>2, <2>3, <2>4 DEF PlanStep, PlanFailStep
<1>7. ASSUME NEW r \in Task, NEW s \in PatchTargets, PatchTask(r, s)  PROVE task'[t].status = task[t].status
  <2>1. Transitions[task[r].status] # {}  BY <1>7 DEF PatchTask
  <2>2. task[r].status \in OpenStatus \cup ClosedStatus  BY <1>1
  <2>3. task[r].status \in OpenStatus  BY <2>1, <2>2 DEF Transitions, OpenStatus, ClosedStatus
  <2> QED  BY <1>3, <1>7, <2>3 DEF PatchTask
<1>8. CASE ResumeWorker \/ ResumeStreaks \/ Tick \/ LoseMessage \/ UNCHANGED vars
  BY <1>2, <1>8 DEF ResumeWorker, ResumeStreaks, Tick, LoseMessage, vars
<1>9. ASSUME NEW p \in Instance, \/ StartConsume(p) \/ EndConsume(p) \/ Claim(p) \/ Heartbeat(p)
                                 \/ Complete(p) \/ StoreAborts(p)
      PROVE  task'[t].status = task[t].status
  BY <1>2, <1>9 DEF StartConsume, EndConsume, Claim, Heartbeat, Complete, StoreAborts
<1>10. ASSUME NEW p \in Instance, MarkStarted(p)  PROVE task'[t].status = task[t].status
  <2>1. proc[p].task \in Task
    BY <1>10, QueueAssumption
    DEF LeaseInv, ProcInv, ProcRowInv, Process, MarkStarted, Carries, QueueAssumption
  <2>2. task[proc[p].task].status = "open" => SetTask(proc[p].task, "in_progress")
    BY <1>10 DEF MarkStarted, SetTask
  <2> QED  BY <1>2, <1>3, <1>10, <2>1, <2>2 DEF MarkStarted, OpenStatus
<1>11. ASSUME NEW p \in Instance, Charge(p) \/ StoreResults(p)  PROVE task'[t].status = task[t].status
  <2>1. CASE Charge(p)  BY <1>1, <2>1 DEF Charge
  <2>2. CASE StoreResults(p)  BY <1>2, <1>5, <2>2 DEF StoreResults
  <2> QED  BY <1>11, <2>1, <2>2
<1>12. ASSUME NEW u, NEW r, RequeueOrFail(u, r)  PROVE task'[t].status = task[t].status
  BY <1>2, <1>5, <1>12 DEF RequeueOrFail
<1>13. ASSUME NEW p \in Instance, Fail(p)  PROVE task'[t].status = task[t].status
  BY <1>2, <1>12, <1>13 DEF Fail
<1>14. ASSUME NEW p \in Instance, RefreshAfter(p)  PROVE task'[t].status = task[t].status
  <2>1. proc[p].task \in Task
    BY <1>14, QueueAssumption
    DEF LeaseInv, ProcInv, ProcRowInv, Process, RefreshAfter, Carries, QueueAssumption
  <2> QED  BY <1>4, <1>14, <2>1 DEF RefreshAfter
<1>15. ASSUME NEW p \in Process, GuardStep(p)  PROVE task'[t].status = task[t].status
  <2>1. ProcRowInv(p)  BY DEF LeaseInv, ProcInv
  <2>2. CASE ReadOverCost(p) \/ StopOverCost(p)  BY <1>2, <2>2 DEF ReadOverCost, StopOverCost
  <2>3. CASE SettleStopped(p)  BY <1>4, <2>1, <2>3 DEF SettleStopped, ProcRowInv
  <2> QED  BY <1>15, <2>2, <2>3 DEF GuardStep
<1>16. CASE ReadExpired \/ ExpireLease \/ RefreshExpired \/ Kick
  <2>1. ProcRowInv(Reaper)  BY DEF LeaseInv, ProcInv, Process
  <2>2. CASE ReadExpired \/ Kick  BY <1>2, <2>2 DEF ReadExpired, Kick
  <2>3. CASE ExpireLease  BY <1>2, <1>12, <2>3 DEF ExpireLease
  <2>4. CASE RefreshExpired  BY <1>4, <2>1, <2>4 DEF RefreshExpired, ProcRowInv
  <2> QED  BY <1>16, <2>2, <2>3, <2>4
<1>17. ASSUME NEW p \in Process, Crash(p)  PROVE task'[t].status = task[t].status  BY <1>2, <1>17 DEF Crash
<1>18. Reaper \in Process /\ Instance \subseteq Process  BY DEF Process
<1> QED
  BY <1>6, <1>7, <1>8, <1>9, <1>10, <1>11, <1>13, <1>14, <1>15, <1>16, <1>17, <1>18
  DEF Next, ConsumeStep, Report, ReapStep

-----------------------------------------------------------------------------
(* Consequences of the invariant *)

\* Two instances never hold the same lease.
THEOREM LeasesAreExclusive == Spec => []NoSharedLease
<1>1. LeaseInv => NoSharedLease  BY DEF LeaseInv
<1> QED  BY <1>1, LeasesAreSound, PTL

\* Results of a unit count once, and only those of a done unit.
THEOREM ResultsAreCountedOnce == Spec => []ResultsCountOnce
<1>1. LeaseInv => ResultsCountOnce  BY DEF LeaseInv
<1> QED  BY <1>1, LeasesAreSound, PTL

\* Every variable keeps its type.
THEOREM TypesAreKept == Spec => []TypeOK
<1>1. LeaseInv => TypeOK  BY DEF LeaseInv
<1> QED  BY <1>1, LeasesAreSound, PTL

\* A settled unit and a closed task stay as they are.
THEOREM SettledStaysSettled == Spec => SettledStays
<1>1. LeaseInv /\ [Next]_vars =>
        [/\ \A u \in Unit : unit[u].status \in TerminalUnit => unit'[u].status = unit[u].status
         /\ \A t \in Task : task[t].status \in ClosedStatus => task'[t].status = task[t].status]_vars
  <2> SUFFICES ASSUME LeaseInv, [Next]_vars, NEW u \in Unit, unit[u].status \in TerminalUnit
               PROVE  unit'[u].status = unit[u].status
    BY TasksStay
  <2>1. unit[u].status \notin {"absent", "queued", "leased"}  BY DEF TerminalUnit
  <2>2. UnitMove  BY UnitMoves
  <2> QED  BY <2>1, <2>2 DEF UnitMove, MoveAll, HandedOut, LeaseEnded, Alike
<1> QED  BY <1>1, LeasesAreSound, PTL DEF Spec, SettledStays

\* The work queue implements UnitLease: every step maps to one of its steps or to none.
THEOREM ImplementsUnitLease == Spec => UnitLeaseSpec
<1>1. Init => UnitLease!Init
  BY DEF Init, UnitLease!Init, AbsentUnit, PhaseOf
<1>2. LeaseInv /\ [Next]_vars => [UnitLease!Next]_UnitLease!vars
  <2> SUFFICES ASSUME LeaseInv, [Next]_vars PROVE [UnitLease!Next]_UnitLease!vars  OBVIOUS
  <2>1. UnitMove  BY UnitMoves
  <2>2. CASE \A u \in Unit : Alike(u)
    BY <2>2 DEF Alike, UnitLease!vars
  <2>3. ASSUME NEW S \in SUBSET Unit, MoveAll(S, "absent", "queued")  PROVE UnitLease!Create(S)
    BY <2>3 DEF MoveAll, Alike, UnitLease!Create, UnitLease!Move, PhaseOf
  <2>4. ASSUME NEW S \in SUBSET Unit, MoveAll(S, "queued", "cancelled")  PROVE UnitLease!Cancel(S)
    BY <2>4 DEF MoveAll, Alike, UnitLease!Cancel, UnitLease!Move, PhaseOf
  <2>5. ASSUME NEW u \in Unit, HandedOut(u), \A v \in Unit \ {u} : Alike(v)  PROVE UnitLease!Grant(u)
    <3>1. \A v \in Unit : v # u => Alike(v)  BY <2>5
    <3>2. UnitLease!Move({u}, "waiting", "held")
      BY <2>5, <3>1 DEF HandedOut, Alike, UnitLease!Move, PhaseOf
    <3>3. [v \in Unit |-> unit'[v].attempts] = [[v \in Unit |-> unit[v].attempts] EXCEPT ![u] = @ + 1]
      BY <2>5, <3>1 DEF HandedOut, Alike
    <3>4. [v \in Unit |-> unit'[v].taken] = [v \in Unit |-> unit[v].taken]
      BY <2>5, <3>1 DEF HandedOut, Alike
    <3> QED  BY <2>5, <3>2, <3>3, <3>4 DEF HandedOut, UnitLease!Grant
  <2>6. ASSUME NEW u \in Unit, LeaseEnded(u), \A v \in Unit \ {u} : Alike(v)
        PROVE  UnitLease!Return(u) \/ UnitLease!Take(u) \/ UnitLease!Drop(u)
    <3>1. \A v \in Unit : v # u => Alike(v)  BY <2>6
    <3>2. [v \in Unit |-> unit'[v].attempts] = [v \in Unit |-> unit[v].attempts]
      BY <2>6, <3>1 DEF LeaseEnded, Alike
    <3>3. unit'[u].taken = unit[u].taken =>
            [v \in Unit |-> unit'[v].taken] = [v \in Unit |-> unit[v].taken]
      BY <3>1 DEF Alike
    <3>4. CASE unit'[u].status = "queued" /\ unit[u].attempts < MaxAttempts /\ unit'[u].taken = unit[u].taken
      <4>1. UnitLease!Move({u}, "held", "waiting")
        BY <2>6, <3>1, <3>4 DEF LeaseEnded, Alike, UnitLease!Move, PhaseOf
      <4> QED  BY <3>2, <3>3, <3>4, <4>1 DEF UnitLease!Return
    <3>5. CASE unit'[u].status \in {"failed", "cancelled"} /\ unit'[u].taken = unit[u].taken
      <4>1. UnitLease!Move({u}, "held", "dropped")
        BY <2>6, <3>1, <3>5 DEF LeaseEnded, Alike, UnitLease!Move, PhaseOf
      <4> QED  BY <3>2, <3>3, <3>5, <4>1 DEF UnitLease!Drop
    <3>6. CASE unit'[u].status = "done" /\ unit'[u].taken = unit[u].taken \cup {unit[u].attempts}
      <4>1. UnitLease!Move({u}, "held", "taken")
        BY <2>6, <3>1, <3>6 DEF LeaseEnded, Alike, UnitLease!Move, PhaseOf
      <4>2. [v \in Unit |-> unit'[v].taken]
              = [[v \in Unit |-> unit[v].taken] EXCEPT ![u] = @ \cup {[v \in Unit |-> unit[v].attempts][u]}]
        BY <3>1, <3>6 DEF Alike
      <4> QED  BY <3>2, <4>1, <4>2 DEF UnitLease!Take
    <3> QED  BY <2>6, <3>4, <3>5, <3>6 DEF LeaseEnded
  <2> QED  BY <2>1, <2>2, <2>3, <2>4, <2>5, <2>6 DEF UnitMove, UnitLease!Next
<1> QED  BY <1>1, <1>2, LeasesAreSound, PTL DEF Spec, UnitLeaseSpec, UnitLease!Spec


\* The leases of every lane, and of all lanes together, are finitely many; those of a lane at most
\* the cap.
LaneInv ==
    \A l \in Lane \cup {AnyLane} :
        /\ IsFiniteSet(Leased(l))
        /\ l \in Lane => Cardinality(Leased(l)) <= MaxInFlight

\* A lane never holds more leases than the in-flight cap.
THEOREM LanesAreCapped == Spec => []LaneInFlightCap
<1>1. Init => LaneInv
  <2> SUFFICES ASSUME Init, NEW l \in Lane \cup {AnyLane}
               PROVE  IsFiniteSet(Leased(l)) /\ Cardinality(Leased(l)) <= MaxInFlight
    BY DEF LaneInv
  <2>1. Leased(l) = {}  BY DEF Init, Leased, WithStatus, AbsentUnit
  <2> QED  BY <2>1, FS_EmptySet, QueueAssumption DEF QueueAssumption
<1>2. LeaseInv /\ LaneInv /\ [Next]_vars => LaneInv'
  <2> SUFFICES ASSUME LeaseInv, LaneInv, [Next]_vars, NEW k \in Lane \cup {AnyLane}
               PROVE  IsFiniteSet(Leased(k)') /\ (k \in Lane => Cardinality(Leased(k)') <= MaxInFlight)
    BY DEF LaneInv
  <2>1. IsFiniteSet(Leased(k)) /\ (k \in Lane => Cardinality(Leased(k)) <= MaxInFlight)  BY DEF LaneInv
  <2>2. UnitMove  BY UnitMoves
  <2>3. ASSUME Leased(k)' \subseteq Leased(k)
        PROVE  IsFiniteSet(Leased(k)') /\ (k \in Lane => Cardinality(Leased(k)') <= MaxInFlight)
    <3>1. /\ IsFiniteSet(Leased(k)') /\ Cardinality(Leased(k)') <= Cardinality(Leased(k))
          /\ Cardinality(Leased(k)) \in Nat /\ Cardinality(Leased(k)') \in Nat
      BY <2>1, <2>3, FS_Subset, FS_CardinalityType
    <3> QED  BY <2>1, <3>1, QueueAssumption DEF QueueAssumption
  <2>4. CASE \A u \in Unit : Alike(u)
    <3>1. Leased(k)' \subseteq Leased(k)  BY <2>4 DEF Leased, WithStatus, Alike, InLane
    <3> QED  BY <2>3, <3>1
  <2>5. CASE \E S \in SUBSET Unit : MoveAll(S, "absent", "queued") \/ MoveAll(S, "queued", "cancelled")
    <3>1. Leased(k)' \subseteq Leased(k)  BY <2>5 DEF Leased, WithStatus, MoveAll, Alike, InLane
    <3> QED  BY <2>3, <3>1
  <2>6. CASE \E u \in Unit : LeaseEnded(u) /\ \A v \in Unit \ {u} : Alike(v)
    <3>1. Leased(k)' \subseteq Leased(k)  BY <2>6 DEF Leased, WithStatus, LeaseEnded, Alike, InLane
    <3> QED  BY <2>3, <3>1
  <2>7. ASSUME NEW u \in Unit, HandedOut(u), \A v \in Unit \ {u} : Alike(v)
        PROVE  IsFiniteSet(Leased(k)') /\ (k \in Lane => Cardinality(Leased(k)') <= MaxInFlight)
    <3>1. CASE ~InLane(u, k)
      <4>1. Leased(k)' \subseteq Leased(k)  BY <2>7, <3>1 DEF Leased, WithStatus, HandedOut, Alike, InLane
      <4> QED  BY <2>3, <4>1
    <3>2. CASE InLane(u, k)
      <4>1. PICK l \in Lane \cup {AnyLane, None} : Claimable(l) /\ InLane(u, l)  BY <2>7 DEF HandedOut
      <4>2. /\ Leased(k)' = Leased(k) \cup {u} /\ u \notin Leased(k)
        BY <2>7, <3>2 DEF Leased, WithStatus, HandedOut, Alike, InLane
      <4>3. /\ IsFiniteSet(Leased(k)') /\ Cardinality(Leased(k)') = Cardinality(Leased(k)) + 1
        BY <2>1, <4>2, FS_AddElement
      <4>4. ASSUME k \in Lane  PROVE Cardinality(Leased(k)) < MaxInFlight
        <5>1. k # AnyLane /\ LaneOf[TaskOf[u]] = k
          BY <3>2, <4>4, QueueAssumption DEF InLane, QueueAssumption
        <5>2. l \in {k, AnyLane}  BY <4>1, <5>1 DEF InLane
        <5>3. Leased(k) \subseteq Leased(l)  BY <5>2 DEF Leased, InLane
        <5>4. IsFiniteSet(Leased(l))  BY <4>4, <5>2 DEF LaneInv
        <5>5. /\ Cardinality(Leased(k)) <= Cardinality(Leased(l)) /\ Cardinality(Leased(l)) < MaxInFlight
              /\ Cardinality(Leased(k)) \in Nat /\ Cardinality(Leased(l)) \in Nat
          BY <2>1, <4>1, <5>3, <5>4, FS_Subset, FS_CardinalityType DEF Claimable
        <5> QED  BY <5>5, QueueAssumption DEF QueueAssumption
      <4>5. Cardinality(Leased(k)) \in Nat  BY <2>1, FS_CardinalityType
      <4> QED  BY <4>3, <4>4, <4>5, QueueAssumption DEF QueueAssumption
    <3> QED  BY <3>1, <3>2
  <2> QED  BY <2>2, <2>4, <2>5, <2>6, <2>7 DEF UnitMove
<1>3. LaneInv => LaneInFlightCap  BY DEF LaneInv, LaneInFlightCap
<1> QED  BY <1>1, <1>2, <1>3, LeasesAreSound, PTL DEF Spec

\* The pause of a failing worker sticks, however failures, successes and the two statements of
\* resume interleave.
THEOREM PauseIsKept == Spec => []PauseSticks
<1>1. Init => PauseSticks
  BY QueueAssumption DEF Init, PauseSticks, QueueAssumption
<1>2. LeaseInv /\ PauseSticks /\ [Next]_vars => PauseSticks'
  <2> SUFFICES ASSUME LeaseInv, PauseSticks, [Next]_vars, AutoPause, NEW i \in Instance,
                      worker'.streak[i] = PauseAfter
               PROVE  worker'.paused \/ worker'.resuming
    BY DEF PauseSticks
  <2>1. /\ worker \in [paused : BOOLEAN, resuming : BOOLEAN, streak : [Instance -> 0..PauseAfter]]
        /\ worker.streak[i] = PauseAfter => worker.paused \/ worker.resuming
        /\ PauseAfter # 0
    BY QueueAssumption DEF LeaseInv, TypeOK, PauseSticks, QueueAssumption
  <2>2. CASE UNCHANGED worker  BY <2>1, <2>2
  <2>3. CASE ResumeWorker  BY <2>1, <2>3 DEF ResumeWorker
  <2>4. CASE ResumeStreaks  BY <2>1, <2>4 DEF ResumeStreaks
  <2>5. ASSUME NEW p \in Instance, StoreResults(p)  PROVE worker'.paused \/ worker'.resuming
    <3>1. CASE worker' = [worker EXCEPT !.streak[Row(p).holder] = 0]  BY <2>1, <3>1
    <3> QED  BY <2>2, <2>5, <3>1 DEF StoreResults
  <2>6. ASSUME NEW p \in Instance, Fail(p)  PROVE worker'.paused \/ worker'.resuming
    <3>1. ASSUME NEW h, NEW budget \in BOOLEAN, CountFailure(h, budget)
          PROVE  worker'.paused \/ worker'.resuming
      <4> DEFINE n == IF worker.streak[h] < PauseAfter THEN worker.streak[h] + 1 ELSE PauseAfter
      <4>1. worker' = [worker EXCEPT !.streak[h] = n,
                                     !.paused = worker.paused \/ (AutoPause /\ (budget \/ n = PauseAfter))]
        BY <3>1 DEF CountFailure
      <4> HIDE DEF n
      <4>2. /\ worker'.paused = (worker.paused \/ (AutoPause /\ (budget \/ n = PauseAfter)))
            /\ worker'.resuming = worker.resuming
            /\ worker'.streak[i] = IF h = i THEN n ELSE worker.streak[i]
        BY <2>1, <4>1
      <4> QED  BY <2>1, <4>2
    <3> QED  BY <2>2, <2>6, <3>1 DEF Fail
  <2>7. ASSUME NEW t \in Task, PlanStep(t) \/ PlanFailStep(t) \/ CloseUnits(t) \/ CrashRequest(t)
        PROVE  worker'.paused \/ worker'.resuming
    BY <2>2, <2>7 DEF PlanStep, PlanFailStep, PlanTask, PlanRaises, PlanFailMark, PlanFailClose, CloseUnits,
                      CrashRequest
  <2>8. ASSUME NEW r \in Task, NEW s \in PatchTargets, PatchTask(r, s)  PROVE worker'.paused \/ worker'.resuming
    BY <2>2, <2>8 DEF PatchTask
  <2>9. ASSUME NEW p \in Instance, \/ StartConsume(p) \/ EndConsume(p) \/ Claim(p) \/ Heartbeat(p) \/ Complete(p)
                                   \/ StoreAborts(p) \/ MarkStarted(p) \/ Charge(p) \/ RefreshAfter(p)
        PROVE  worker'.paused \/ worker'.resuming
    BY <2>2, <2>9 DEF StartConsume, EndConsume, Claim, Heartbeat, Complete, StoreAborts, MarkStarted, Charge,
                      RefreshAfter
  <2>10. ASSUME NEW p, GuardStep(p) \/ Crash(p)  PROVE worker'.paused \/ worker'.resuming
    BY <2>2, <2>10 DEF GuardStep, ReadOverCost, StopOverCost, SettleStopped, Crash
  <2>11. CASE ReadExpired \/ ExpireLease \/ RefreshExpired \/ Kick \/ Tick \/ LoseMessage \/ UNCHANGED vars
    BY <2>2, <2>11 DEF ReadExpired, ExpireLease, RefreshExpired, Kick, Tick, LoseMessage, vars
  <2> QED
    BY <2>3, <2>4, <2>5, <2>6, <2>7, <2>8, <2>9, <2>10, <2>11 DEF Next, ConsumeStep, Report, ReapStep
<1> QED  BY <1>1, <1>2, LeasesAreSound, PTL DEF Spec

-----------------------------------------------------------------------------
(* Failed subjects are counted exactly *)

\* A unit has at most Size failed subjects, and one that is new, queued or cancelled has none.
LEMMA FailedIsNumber ==
  ASSUME TypeOK, NEW u \in Unit
  PROVE  FailedIn(u) \in Nat
<1>1. unit[u].good \in 0..Size /\ Size \in Nat  BY QueueAssumption DEF QueueAssumption, TypeOK, UnitRow
<1> QED  BY <1>1 DEF FailedIn

\* What a step may do to the counts: nothing, or one unit that had no failed subjects settles
\* and its failed subjects are added to the count of its task.
CountsStay ==
    /\ \A t \in Task : task'[t].failed = task[t].failed
    /\ \A u \in Unit : FailedIn(u)' = FailedIn(u)
OneCounts(u) ==
    /\ FailedIn(u) = 0 /\ \A v \in Unit \ {u} : FailedIn(v)' = FailedIn(v)
    /\ \A t \in Task : task'[t].failed = IF t = TaskOf[u] THEN task[t].failed + FailedIn(u)' ELSE task[t].failed
CountMove == CountsStay \/ \E u \in Unit : OneCounts(u)

\* Units that keep their good subjects and that neither settle nor were settled.
LEMMA OpenUnitsCountNothing ==
  ASSUME \A u \in Unit : \/ unit'[u].status = unit[u].status /\ unit'[u].good = unit[u].good
                         \/ /\ unit[u].status \in {"absent", "queued", "leased"}
                            /\ unit'[u].status \in {"queued", "leased", "cancelled"}
  PROVE  \A u \in Unit : FailedIn(u)' = FailedIn(u)
  BY DEF FailedIn

\* Queueing new units or cancelling queued ones counts nothing.
LEMMA SetStatusCountsNothing ==
  ASSUME TypeOK, NEW S \in SUBSET Unit, \A u \in S : unit[u].status \in {"absent", "queued"},
         NEW s \in {"queued", "cancelled"}, unit' = SetStatus(S, s)
  PROVE  \A u \in Unit : FailedIn(u)' = FailedIn(u)
<1>1. ASSUME NEW u \in S  PROVE unit'[u].status = s
  <2>1. unit'[u] = [unit[u] EXCEPT !.status = s, !.wait = 0]  BY <1>1 DEF SetStatus
  <2>2. unit[u] \in UnitRow  BY DEF TypeOK
  <2> QED  BY <2>1, <2>2 DEF UnitRow
<1>2. \A u \in Unit \ S : unit'[u] = unit[u]  BY DEF SetStatus
<1> QED  BY <1>1, <1>2, OpenUnitsCountNothing

\* Nor does a refresh of a task.
LEMMA RefreshCountsNothing ==
  ASSUME TypeOK, NEW t \in Task, Refresh(t) \/ FinishIfSettled(t)
  PROVE  CountsStay
<1>1. CASE FinishIfSettled(t)
  <2>1. CASE UNCHANGED <<task, unit>>  BY <2>1 DEF CountsStay, FailedIn
  <2>2. CASE (\E S \in SUBSET Unplanned(t) \ {{}} : unit' = SetStatus(S, "queued")) /\ UNCHANGED task
    <3>1. PICK S \in SUBSET Unplanned(t) : unit' = SetStatus(S, "queued")  BY <2>2
    <3>2. S \in SUBSET Unit /\ \A u \in S : unit[u].status \in {"absent", "queued"}  BY <3>1 DEF Unplanned
    <3>3. \A u \in Unit : FailedIn(u)' = FailedIn(u)  BY <3>1, <3>2, SetStatusCountsNothing
    <3> QED  BY <2>2, <3>3 DEF CountsStay
  <2>3. CASE SetTask(t, Verdict(t)) /\ UNCHANGED unit  BY <2>3 DEF CountsStay, SetTask, TypeOK, FailedIn
  <2> QED  BY <1>1, <2>1, <2>2, <2>3 DEF FinishIfSettled
<1>2. CASE UNCHANGED <<task, unit>>  BY <1>2 DEF CountsStay, FailedIn
<1> QED  BY <1>1, <1>2 DEF Refresh

\* Nor does cancelling the queued units of a task.
LEMMA CancelCountsNothing ==
  ASSUME TypeOK, NEW t, CancelUnits(t)
  PROVE  \A u \in Unit : FailedIn(u)' = FailedIn(u)
<1> DEFINE S == WithStatus(UnitsOf(t), "queued")
<1>1. S \in SUBSET Unit /\ (\A u \in S : unit[u].status \in {"absent", "queued"})
      /\ unit' = SetStatus(S, "cancelled")
  BY DEF CancelUnits, WithStatus, UnitsOf
<1> HIDE DEF S
<1> QED  BY <1>1, SetStatusCountsNothing

\* A leased unit that is requeued counts nothing, one that fails for good counts all it has.
LEMMA RequeueCountsUnit ==
  ASSUME TypeOK, NEW u \in Unit, unit[u].status = "leased", NEW retryable, RequeueOrFail(u, retryable)
  PROVE  CountMove
<1>1. /\ unit[u] \in UnitRow /\ TaskOf[u] \in Task /\ Size \in Nat
      /\ task \in [Task -> [status : OpenStatus \cup ClosedStatus, failed : Nat, over : BOOLEAN]]
  BY QueueAssumption DEF TypeOK, QueueAssumption
<1>2. FailedIn(u) = 0  BY DEF FailedIn
<1>3. CASE retryable /\ unit[u].attempts < MaxAttempts
  <2> DEFINE row == [unit[u] EXCEPT !.status = "queued", !.token = 0, !.holder = None, !.ttl = 0,
                                    !.wait = Backoff * unit[u].attempts]
  <2>1. SetUnit(u, row) /\ UNCHANGED task  BY <1>3 DEF RequeueOrFail
  <2>2. row.status = "queued"  BY <1>1 DEF UnitRow
  <2> HIDE DEF row
  <2>3. unit'[u] = row /\ \A v \in Unit \ {u} : unit'[v] = unit[v]  BY <2>1 DEF SetUnit, TypeOK
  <2>4. \A v \in Unit : FailedIn(v)' = FailedIn(v)  BY <2>2, <2>3, OpenUnitsCountNothing
  <2> QED  BY <2>1, <2>4 DEF CountMove, CountsStay
<1>4. CASE ~(retryable /\ unit[u].attempts < MaxAttempts)
  <2> DEFINE row == [unit[u] EXCEPT !.status = "failed", !.ttl = 0]
  <2>1. SetUnit(u, row) /\ task' = [task EXCEPT ![TaskOf[u]].failed = @ + Size]  BY <1>4 DEF RequeueOrFail
  <2>2. row.status = "failed"  BY <1>1 DEF UnitRow
  <2> HIDE DEF row
  <2>3. unit'[u] = row /\ \A v \in Unit \ {u} : unit'[v] = unit[v]  BY <2>1 DEF SetUnit, TypeOK
  <2>4. FailedIn(u)' = Size  BY <2>2, <2>3 DEF FailedIn
  <2>5. \A v \in Unit \ {u} : FailedIn(v)' = FailedIn(v)  BY <2>3 DEF FailedIn
  <2>6. \A t \in Task : task'[t].failed = IF t = TaskOf[u] THEN task[t].failed + Size ELSE task[t].failed
    BY <1>1, <2>1
  <2> QED  BY <1>2, <2>4, <2>5, <2>6 DEF CountMove, OneCounts
<1> QED  BY <1>3, <1>4

\* Results that are taken in count the subjects that failed, discarded ones nothing.
LEMMA StoreCountsUnit ==
  ASSUME LeaseInv, NEW p \in Instance, StoreResults(p)
  PROVE  CountMove
<1>1. p \in Process /\ Carries(p) /\ HoldsLease(p)  BY StoredUnit DEF Process
<1>2. PICK u \in Unit : u = proc[p].unit  BY <1>1 DEF LeaseInv, ProcInv, ProcRowInv
<1>3. u \in Unit /\ proc[p].task = TaskOf[u] /\ unit[u].status = "leased"
  BY <1>1, <1>2 DEF LeaseInv, ProcInv, ProcRowInv, HoldsLease, Row
<1>4. /\ unit \in [Unit -> UnitRow] /\ TaskOf[u] \in Task /\ Size \in Nat
      /\ task \in [Task -> [status : OpenStatus \cup ClosedStatus, failed : Nat, over : BOOLEAN]]
  BY <1>3, QueueAssumption DEF LeaseInv, TypeOK, QueueAssumption
<1>5. FailedIn(u) = 0  BY <1>3 DEF FailedIn
<1>6. CASE SetUnit(u, [unit[u] EXCEPT !.status = "cancelled", !.ttl = 0]) /\ UNCHANGED task
  <2>1. unit'[u].status = "cancelled" /\ \A v \in Unit \ {u} : unit'[v] = unit[v]
    BY <1>3, <1>4, <1>6 DEF SetUnit, UnitRow
  <2>2. \A v \in Unit : FailedIn(v)' = FailedIn(v)  BY <1>3, <2>1, OpenUnitsCountNothing
  <2> QED  BY <1>6, <2>2 DEF CountMove, CountsStay
<1>7. ASSUME NEW good \in 0..Size,
             SetUnit(u, [unit[u] EXCEPT !.status = "done", !.ttl = 0, !.good = good,
                                        !.taken = @ \cup {proc[p].token}]),
             task' = [task EXCEPT ![TaskOf[u]].failed = @ + Size - good]
      PROVE  CountMove
  <2> DEFINE row == [unit[u] EXCEPT !.status = "done", !.ttl = 0, !.good = good,
                                    !.taken = @ \cup {proc[p].token}]
  <2>1. row.status = "done" /\ row.good = good  BY <1>3, <1>4 DEF UnitRow
  <2> HIDE DEF row
  <2>2. unit'[u] = row /\ \A v \in Unit \ {u} : unit'[v] = unit[v]  BY <1>3, <1>4, <1>7 DEF SetUnit, row
  <2>3. unit'[u].status = "done" /\ unit'[u].good = good  BY <2>1, <2>2
  <2>4. FailedIn(u)' = Size - good  BY <2>3 DEF FailedIn
  <2>5. \A v \in Unit \ {u} : FailedIn(v)' = FailedIn(v)  BY <2>2 DEF FailedIn
  <2>6. \A t \in Task : task'[t].failed = IF t = TaskOf[u] THEN task[t].failed + (Size - good) ELSE task[t].failed
    BY <1>4, <1>7
  <2> QED  BY <1>3, <1>5, <2>4, <2>5, <2>6 DEF CountMove, OneCounts
<1> QED  BY <1>3, <1>6, <1>7, <1>2 DEF StoreResults, Row

\* What every step does to the counts.
LEMMA CountMoves == LeaseInv /\ [Next]_vars => CountMove
<1> SUFFICES ASSUME LeaseInv, [Next]_vars PROVE CountMove  OBVIOUS
<1>1. TypeOK /\ task \in [Task -> [status : OpenStatus \cup ClosedStatus, failed : Nat, over : BOOLEAN]]
  BY DEF LeaseInv, TypeOK
<1>2. CASE UNCHANGED <<task, unit>>  BY <1>2 DEF CountMove, CountsStay, FailedIn
<1>3. ASSUME NEW t \in Task, Refresh(t) \/ FinishIfSettled(t)  PROVE CountMove
  BY <1>1, <1>3, RefreshCountsNothing DEF CountMove
<1>4. ASSUME NEW t, CancelUnits(t), UNCHANGED task  PROVE CountMove
  BY <1>1, <1>4, CancelCountsNothing DEF CountMove, CountsStay
<1>5. ASSUME NEW t \in Task, NEW s, SetTask(t, s), UNCHANGED unit  PROVE CountMove
  BY <1>1, <1>5 DEF CountMove, CountsStay, SetTask, FailedIn
<1>6. ASSUME NEW t \in Task, PlanStep(t) \/ PlanFailStep(t)  PROVE CountMove
  <2>1. CASE PlanTask(t)
    <3>1. ASSUME NEW S \in SUBSET Unplanned(t), unit' = SetStatus(S, "queued"), UNCHANGED task
          PROVE  CountMove
      <4>1. S \in SUBSET Unit /\ \A u \in S : unit[u].status \in {"absent", "queued"}  BY DEF Unplanned
      <4>2. \A u \in Unit : FailedIn(u)' = FailedIn(u)  BY <1>1, <3>1, <4>1, SetStatusCountsNothing
      <4> QED  BY <3>1, <4>2 DEF CountMove, CountsStay
    <3> QED  BY <1>2, <1>3, <2>1, <3>1 DEF PlanTask
  <2>2. CASE PlanFailMark(t) \/ PlanFailClose(t)  BY <1>2, <1>5, <2>2 DEF PlanFailMark, PlanFailClose
  <2>3. CASE PlanRaises(t)  BY <1>2, <2>3 DEF PlanRaises
  <2> QED  BY <1>6, <2>1, <2>2, <2>3 DEF PlanStep, PlanFailStep
<1>7. ASSUME NEW t \in Task, NEW s \in PatchTargets, PatchTask(t, s)  PROVE CountMove
  BY <1>5, <1>7 DEF PatchTask
<1>8. ASSUME NEW t \in Task, CloseUnits(t) \/ CrashRequest(t)  PROVE CountMove
  BY <1>2, <1>4, <1>8 DEF CloseUnits, CrashRequest
<1>9. ASSUME NEW p \in Process, GuardStep(p)  PROVE CountMove
  <2>1. ProcRowInv(p)  BY DEF LeaseInv, ProcInv
  <2>2. CASE ReadOverCost(p)  BY <1>2, <2>2 DEF ReadOverCost
  <2>3. CASE StopOverCost(p)  BY <1>4, <2>3 DEF StopOverCost
  <2>4. CASE SettleStopped(p)  BY <1>3, <2>1, <2>4 DEF SettleStopped, ProcRowInv
  <2> QED  BY <1>9, <2>2, <2>3, <2>4 DEF GuardStep
<1>10. ASSUME NEW p \in Instance, Claim(p)  PROVE CountMove
  <2>1. ASSUME NEW u \in NextUnits(proc[p].lane), SetUnit(u, LeasedRow(u, p)), UNCHANGED task
        PROVE  CountMove
    <3>1. u \in Unit /\ unit[u].status = "queued" /\ unit[u] \in UnitRow
      BY <1>1, <2>1 DEF NextUnits, Eligible, Queued, WithStatus, TypeOK
    <3>2. unit'[u].status = "leased" /\ \A v \in Unit \ {u} : unit'[v] = unit[v]
      BY <1>1, <2>1, <3>1 DEF SetUnit, LeasedRow, UnitRow, TypeOK
    <3>3. \A v \in Unit : FailedIn(v)' = FailedIn(v)  BY <3>1, <3>2, OpenUnitsCountNothing
    <3> QED  BY <2>1, <3>3 DEF CountMove, CountsStay
  <2> QED  BY <1>2, <1>10, <2>1 DEF Claim
<1>11. ASSUME NEW p \in Instance, Heartbeat(p)  PROVE CountMove
  <2>1. ASSUME SetUnit(proc[p].unit, [Row(p) EXCEPT !.ttl = Lease]), UNCHANGED task  PROVE CountMove
    <3>1. /\ \A v \in Unit : unit'[v].status = unit[v].status /\ unit'[v].good = unit[v].good
      BY <1>1, <2>1 DEF SetUnit, Row, UnitRow, TypeOK
    <3>2. \A v \in Unit : FailedIn(v)' = FailedIn(v)  BY <3>1, OpenUnitsCountNothing
    <3> QED  BY <2>1, <3>2 DEF CountMove, CountsStay
  <2> QED  BY <1>2, <1>11, <2>1 DEF Heartbeat
<1>12. ASSUME NEW p \in Instance, MarkStarted(p) \/ Charge(p)  PROVE CountMove
  <2>1. UNCHANGED unit  BY <1>12 DEF MarkStarted, Charge
  <2>2. \A t \in Task : task'[t].failed = task[t].failed  BY <1>1, <1>12 DEF MarkStarted, Charge
  <2> QED  BY <2>1, <2>2 DEF CountMove, CountsStay, FailedIn
<1>13. ASSUME NEW p \in Instance, Fail(p) \/ RefreshAfter(p)  PROVE CountMove
  <2>1. Carries(p) /\ ProcRowInv(p)
    BY <1>13 DEF LeaseInv, ProcInv, Process, Fail, RefreshAfter, Carries
  <2>2. proc[p].unit \in Unit /\ proc[p].task \in Task
    BY <2>1, QueueAssumption DEF ProcRowInv, QueueAssumption
  <2>3. CASE Fail(p)
    BY <1>1, <1>2, <2>2, <2>3, RequeueCountsUnit DEF Fail, HoldsLease, Row
  <2>4. CASE RefreshAfter(p)  BY <1>3, <2>2, <2>4 DEF RefreshAfter
  <2> QED  BY <1>13, <2>3, <2>4
<1>14. ASSUME NEW p \in Instance, StoreResults(p)  PROVE CountMove  BY <1>14, StoreCountsUnit
<1>15. CASE ExpireLease
  <2>1. ProcRowInv(Reaper)  BY DEF LeaseInv, ProcInv, Process
  <2>2. PICK u \in proc[Reaper].todo : (Expired(u) /\ RequeueOrFail(u, TRUE)) \/ UNCHANGED <<task, unit>>
    BY <1>15 DEF ExpireLease
  <2>3. u \in Unit  BY <1>15, <2>1 DEF ExpireLease, ProcRowInv
  <2> QED  BY <1>1, <1>2, <2>2, <2>3, RequeueCountsUnit DEF Expired
<1>16. CASE RefreshExpired
  <2>1. ProcRowInv(Reaper)  BY DEF LeaseInv, ProcInv, Process
  <2> QED  BY <1>3, <1>16, <2>1 DEF RefreshExpired, ProcRowInv
<1>17. CASE Tick
  <2>1. ASSUME NEW u \in Unit  PROVE unit'[u].status = unit[u].status /\ unit'[u].good = unit[u].good
    <3>1. unit[u] \in UnitRow  BY <1>1 DEF TypeOK
    <3> DEFINE a == IF unit[u].status = "leased" /\ unit[u].ttl >= 0 THEN unit[u].ttl - 1 ELSE unit[u].ttl
               b == IF unit[u].status = "queued" /\ unit[u].wait > 0 THEN unit[u].wait - 1 ELSE unit[u].wait
    <3>2. unit'[u] = [unit[u] EXCEPT !.ttl = a, !.wait = b]  BY <1>17 DEF Tick
    <3> HIDE DEF a, b
    <3> QED  BY <3>1, <3>2 DEF UnitRow
  <2>2. \A u \in Unit : FailedIn(u)' = FailedIn(u)  BY <2>1, OpenUnitsCountNothing
  <2>3. UNCHANGED task  BY <1>17 DEF Tick
  <2> QED  BY <2>2, <2>3 DEF CountMove, CountsStay
<1>18. CASE ResumeWorker \/ ResumeStreaks \/ ReadExpired \/ Kick \/ LoseMessage \/ UNCHANGED vars
  BY <1>2, <1>18 DEF ResumeWorker, ResumeStreaks, ReadExpired, Kick, LoseMessage, vars
<1>19. ASSUME NEW p \in Instance, \/ StartConsume(p) \/ EndConsume(p) \/ Complete(p) \/ StoreAborts(p)
       PROVE  CountMove
  BY <1>2, <1>19 DEF StartConsume, EndConsume, Complete, StoreAborts
<1>20. ASSUME NEW p \in Process, Crash(p)  PROVE CountMove  BY <1>2, <1>20 DEF Crash
<1>21. Reaper \in Process /\ Instance \subseteq Process  BY DEF Process
<1> QED
  BY <1>6, <1>7, <1>8, <1>9, <1>10, <1>11, <1>12, <1>13, <1>14, <1>15, <1>16, <1>17, <1>18, <1>19, <1>20, <1>21
  DEF Next, ConsumeStep, Report, ReapStep

\* The failed subjects of a task are counted exactly: the count moves by what one unit that
\* settles adds to the sum, and by nothing else.
THEOREM FailuresAreCounted == Spec => []FailedCountExact
<1> DEFINE Of(t) == {u \in Unit : TaskOf[u] = t}
           f == [u \in Unit |-> FailedIn(u)]
<1>1. Init => FailedCountExact
  <2> SUFFICES ASSUME Init, NEW t \in Task  PROVE task[t].failed = SumFunctionOnSet(f, Of(t))
    BY DEF FailedCountExact
  <2>1. task[t].failed = 0  BY DEF Init
  <2>2. \A u \in Of(t) : f[u] = 0  BY DEF Init, AbsentUnit, FailedIn
  <2>3. IsFiniteSet(Of(t))  BY UnitsAssumption
  <2> HIDE DEF Of, f
  <2>4. SumFunctionOnSet(f, Of(t)) = 0  BY <2>2, <2>3, SumZero
  <2> QED  BY <2>1, <2>4
<1>2. LeaseInv /\ FailedCountExact /\ [Next]_vars => FailedCountExact'
  <2> SUFFICES ASSUME LeaseInv, FailedCountExact, [Next]_vars, NEW t \in Task
               PROVE  task'[t].failed = SumFunctionOnSet(f', Of(t))
    BY DEF FailedCountExact
  <2>1. task[t].failed = SumFunctionOnSet(f, Of(t)) /\ IsFiniteSet(Of(t))
    BY UnitsAssumption DEF FailedCountExact
  <2>2. CountMove  BY CountMoves
  <2>3. \A u \in Of(t) : f[u] = FailedIn(u) /\ f'[u] = FailedIn(u)'  OBVIOUS
  <2>4. TypeOK /\ TypeOK'  BY StepInv DEF LeaseInv
  <2>5. NatOn(f, Of(t)) /\ NatOn(f', Of(t))
    <3>1. \A u \in Unit : FailedIn(u) \in Nat  BY <2>4, FailedIsNumber
    <3>2. ASSUME NEW u \in Unit  PROVE FailedIn(u)' \in Nat
      <4>1. unit'[u].good \in 0..Size /\ Size \in Nat
        BY <2>4, QueueAssumption DEF QueueAssumption, TypeOK, UnitRow
      <4> QED  BY <4>1 DEF FailedIn
    <3> QED  BY <3>1, <3>2 DEF NatOn
  <2>6. CASE CountsStay
    <3>1. SameOn(f, f', Of(t))  BY <2>6 DEF CountsStay, SameOn
    <3>2. task'[t].failed = task[t].failed  BY <2>6 DEF CountsStay
    <3> HIDE DEF f, Of
    <3>3. SumFunctionOnSet(f, Of(t)) = SumFunctionOnSet(f', Of(t))  BY <2>1, <3>1, SumSame
    <3> QED  BY <2>1, <3>2, <3>3
  <2>7. ASSUME NEW u \in Unit, OneCounts(u)  PROVE task'[t].failed = SumFunctionOnSet(f', Of(t))
    <3>1. CASE u \notin Of(t)
      <4>1. SameOn(f, f', Of(t))  BY <2>7, <3>1 DEF OneCounts, SameOn
      <4>2. task'[t].failed = task[t].failed  BY <2>7, <3>1 DEF OneCounts
      <4> HIDE DEF f, Of
      <4>3. SumFunctionOnSet(f, Of(t)) = SumFunctionOnSet(f', Of(t))  BY <2>1, <4>1, SumSame
      <4> QED  BY <2>1, <4>2, <4>3
    <3>2. CASE u \in Of(t)
      <4>1. SameOn(f, f', Of(t) \ {u})  BY <2>7 DEF OneCounts, SameOn
      <4>2. task'[t].failed = task[t].failed + f'[u] /\ f[u] = 0  BY <2>7, <3>2 DEF OneCounts
      <4>3. f'[u] \in Nat  BY <2>5, <3>2 DEF NatOn
      <4> HIDE DEF f, Of
      <4>4. SumFunctionOnSet(f', Of(t)) = SumFunctionOnSet(f, Of(t)) + f'[u] - f[u]
        BY <2>1, <2>5, <3>2, <4>1, SumChange
      <4>5. SumFunctionOnSet(f, Of(t)) \in Nat  BY <2>1, <2>5, SumOfTerms
      <4> QED  BY <2>1, <4>2, <4>3, <4>4, <4>5
    <3> QED  BY <3>1, <3>2
  <2> QED  BY <2>2, <2>6, <2>7 DEF CountMove
<1> QED  BY <1>1, <1>2, LeasesAreSound, PTL DEF Spec

\* A task that is judged failed has counted a failed subject: the unit that makes the problem is
\* one of the terms of the count.
LEMMA ProblemsAreCounted ==
  ASSUME TypeOK, FailedCountExact, NEW t \in Task, Problems(t)
  PROVE  task[t].failed > 0
<1> DEFINE S == {u \in Unit : TaskOf[u] = t}
           f == [u \in Unit |-> FailedIn(u)]
<1>1. PICK u \in UnitsOf(t) : unit[u].status = "failed" \/ (unit[u].status = "done" /\ unit[u].good < Size)
  BY DEF Problems
<1>2. u \in S /\ unit[u].good \in 0..Size /\ Size \in Nat \ {0}
  BY <1>1, QueueAssumption DEF UnitsOf, TypeOK, UnitRow, QueueAssumption
<1>3. f[u] > 0 /\ f[u] \in Nat  BY <1>1, <1>2 DEF FailedIn
<1>4. IsFiniteSet(S) /\ task[t].failed = SumFunctionOnSet(f, S)  BY UnitsAssumption DEF FailedCountExact
<1>5. NatOn(f, S)  BY FailedIsNumber DEF NatOn
<1> HIDE DEF f, S
<1>6. f[u] <= SumFunctionOnSet(f, S) /\ SumFunctionOnSet(f, S) \in Nat  BY <1>2, <1>4, <1>5, SumOfTerms
<1> QED  BY <1>3, <1>4, <1>6

\* What the queue closes by itself is quiet, and failed only with a counted failure.
ClosedQuietly(t) ==
    (task[t].status \in OpenStatus /\ task'[t].status \in ClosedStatus /\ t \notin closing') =>
        /\ Running(t) = {}
        /\ task'[t].status = "failed" => task[t].failed > 0 /\ ~Succeeded(t)

LEMMA QuietSteps == LeaseInv /\ FailedCountExact /\ [Next]_vars => \A t \in Task : ClosedQuietly(t)
<1> SUFFICES ASSUME LeaseInv, FailedCountExact, [Next]_vars, NEW t \in Task  PROVE ClosedQuietly(t)
  OBVIOUS
<1>1. /\ TypeOK /\ OpenStatus \cap ClosedStatus = {}
      /\ task \in [Task -> [status : OpenStatus \cup ClosedStatus, failed : Nat, over : BOOLEAN]]
  BY DEF LeaseInv, TypeOK, OpenStatus, ClosedStatus
<1>2. CASE task'[t].status = task[t].status \/ t \in closing'  BY <1>1, <1>2 DEF ClosedQuietly
<1>3. ASSUME NEW s \in Task, NEW to, SetTask(s, to), s # t \/ to \notin ClosedStatus \/ t \in closing'
      PROVE  ClosedQuietly(t)
  BY <1>1, <1>3 DEF SetTask, ClosedQuietly
<1>4. ASSUME NEW s \in Task, Refresh(s) \/ FinishIfSettled(s)  PROVE ClosedQuietly(t)
  <2>1. CASE UNCHANGED task  BY <1>2, <2>1
  <2>2. CASE Running(s) = {} /\ SetTask(s, Verdict(s))
    <3>1. CASE s # t  BY <1>3, <2>2, <3>1
    <3>2. CASE s = t
      <4>1. task'[t].status = Verdict(t)  BY <1>1, <2>2, <3>2 DEF SetTask
      <4>2. Verdict(t) = "failed" => Problems(t) /\ ~Succeeded(t)  BY DEF Verdict
      <4>3. Problems(t) => task[t].failed > 0  BY <1>1, ProblemsAreCounted
      <4> QED  BY <2>2, <3>2, <4>1, <4>2, <4>3 DEF ClosedQuietly
    <3> QED  BY <3>1, <3>2
  <2> QED  BY <1>4, <2>1, <2>2 DEF Refresh, FinishIfSettled
<1>5. ASSUME NEW s, NEW n, task' = [task EXCEPT ![s].failed = n]  PROVE ClosedQuietly(t)
  <2>1. task'[t].status = task[t].status  BY <1>1, <1>5
  <2> QED  BY <1>2, <2>1
<1>6. ASSUME NEW s \in Task, PlanStep(s) \/ PlanFailStep(s) \/ CloseUnits(s) \/ CrashRequest(s)
      PROVE  ClosedQuietly(t)
  <2>1. "in_progress" \notin ClosedStatus  BY DEF ClosedStatus
  <2>2. CASE PlanTask(s)  BY <1>2, <1>4, <2>2 DEF PlanTask
  <2>3. CASE PlanFailMark(s)  BY <1>2, <1>3, <2>1, <2>3 DEF PlanFailMark
  <2>4. CASE PlanFailClose(s)
    <3>1. (SetTask(s, "failed") /\ closing' = closing \cup {s}) \/ UNCHANGED task  BY <2>4 DEF PlanFailClose
    <3> QED  BY <1>2, <1>3, <3>1
  <2>5. CASE PlanRaises(s) \/ CloseUnits(s) \/ CrashRequest(s)
    BY <1>2, <2>5 DEF PlanRaises, CloseUnits, CrashRequest
  <2> QED  BY <1>6, <2>2, <2>3, <2>4, <2>5 DEF PlanStep, PlanFailStep
<1>7. ASSUME NEW r \in Task, NEW s \in PatchTargets, PatchTask(r, s)  PROVE ClosedQuietly(t)
  BY <1>3, <1>7 DEF PatchTask
<1>8. CASE ResumeWorker \/ ResumeStreaks \/ Tick \/ LoseMessage \/ UNCHANGED vars
  BY <1>2, <1>8 DEF ResumeWorker, ResumeStreaks, Tick, LoseMessage, vars
<1>9. ASSUME NEW p \in Instance, \/ StartConsume(p) \/ EndConsume(p) \/ Claim(p) \/ Heartbeat(p)
                                 \/ Complete(p) \/ StoreAborts(p)
      PROVE  ClosedQuietly(t)
  BY <1>2, <1>9 DEF StartConsume, EndConsume, Claim, Heartbeat, Complete, StoreAborts
<1>10. ASSUME NEW p \in Instance, MarkStarted(p)  PROVE ClosedQuietly(t)
  <2>1. task'[t].status \in {task[t].status, "in_progress"}  BY <1>1, <1>10 DEF MarkStarted
  <2>2. "in_progress" \notin ClosedStatus  BY DEF ClosedStatus
  <2> QED  BY <1>2, <2>1, <2>2 DEF ClosedQuietly
<1>11. ASSUME NEW p \in Instance, Charge(p) \/ StoreResults(p)  PROVE ClosedQuietly(t)
  <2>1. CASE Charge(p)
    <3>1. task'[t].status = task[t].status  BY <1>1, <2>1 DEF Charge
    <3> QED  BY <1>2, <3>1
  <2>2. CASE StoreResults(p)  BY <1>2, <1>5, <2>2 DEF StoreResults
  <2> QED  BY <1>11, <2>1, <2>2
<1>12. ASSUME NEW u, NEW r, RequeueOrFail(u, r)  PROVE ClosedQuietly(t)
  BY <1>2, <1>5, <1>12 DEF RequeueOrFail
<1>13. ASSUME NEW p \in Instance, Fail(p)  PROVE ClosedQuietly(t)
  BY <1>2, <1>12, <1>13 DEF Fail
<1>14. ASSUME NEW p \in Instance, RefreshAfter(p)  PROVE ClosedQuietly(t)
  <2>1. proc[p].task \in Task
    BY <1>14, QueueAssumption
    DEF LeaseInv, ProcInv, ProcRowInv, Process, RefreshAfter, Carries, QueueAssumption
  <2> QED  BY <1>4, <1>14, <2>1 DEF RefreshAfter
<1>15. ASSUME NEW p \in Process, GuardStep(p)  PROVE ClosedQuietly(t)
  <2>1. ProcRowInv(p)  BY DEF LeaseInv, ProcInv
  <2>2. CASE ReadOverCost(p) \/ StopOverCost(p)  BY <1>2, <2>2 DEF ReadOverCost, StopOverCost
  <2>3. CASE SettleStopped(p)  BY <1>4, <2>1, <2>3 DEF SettleStopped, ProcRowInv
  <2> QED  BY <1>15, <2>2, <2>3 DEF GuardStep
<1>16. CASE ReadExpired \/ ExpireLease \/ RefreshExpired \/ Kick
  <2>1. ProcRowInv(Reaper)  BY DEF LeaseInv, ProcInv, Process
  <2>2. CASE ReadExpired \/ Kick  BY <1>2, <2>2 DEF ReadExpired, Kick
  <2>3. CASE ExpireLease  BY <1>2, <1>12, <2>3 DEF ExpireLease
  <2>4. CASE RefreshExpired  BY <1>4, <2>1, <2>4 DEF RefreshExpired, ProcRowInv
  <2> QED  BY <1>16, <2>2, <2>3, <2>4
<1>17. ASSUME NEW p \in Process, Crash(p)  PROVE ClosedQuietly(t)  BY <1>2, <1>17 DEF Crash
<1>18. Reaper \in Process /\ Instance \subseteq Process  BY DEF Process
<1> QED
  BY <1>6, <1>7, <1>8, <1>9, <1>10, <1>11, <1>13, <1>14, <1>15, <1>16, <1>17, <1>18
  DEF Next, ConsumeStep, Report, ReapStep

\* The queue closes a task by itself only when no unit of it is queued or leased, and as failed
\* only when a failed subject was counted and none succeeded.
THEOREM TasksSettleQuietly == Spec => SettlesWhenQuiet
<1>1. LeaseInv /\ FailedCountExact /\ [Next]_vars =>
        [\A t \in Task :
            (task[t].status \in OpenStatus /\ task'[t].status \in ClosedStatus /\ t \notin closing') =>
                /\ Running(t) = {}
                /\ task'[t].status = "failed" => task[t].failed > 0 /\ ~Succeeded(t)]_vars
  BY QuietSteps DEF ClosedQuietly
<1> QED  BY <1>1, LeasesAreSound, FailuresAreCounted, PTL DEF Spec, SettlesWhenQuiet

=============================================================================
