------------------------------ MODULE UnitLease ------------------------------
(***************************************************************************)
(* What the work queue promises about one unit of work, whatever the       *)
(* consumers, the reaper, the operator and the clock do:                    *)
(*                                                                          *)
(*   - a unit is handed out at most MaxAttempts times, one lease at a time; *)
(*   - results count only when the holder of the latest lease delivers      *)
(*     them, and they count once;                                           *)
(*   - a unit that was taken or dropped is never handed out again.          *)
(*                                                                          *)
(* WorkQueue implements this specification (WorkQueue!UnitLeaseSpec).       *)
(***************************************************************************)
EXTENDS Naturals

CONSTANTS Unit,        \* the units of work
          MaxAttempts  \* leases one unit may get (ENRICHMENT_MAX_ATTEMPTS)

VARIABLES phase,      \* where each unit stands
          lease,      \* how many leases it was given
          delivered   \* the leases whose results counted

vars == <<phase, lease, delivered>>

Phase == {"absent", "waiting", "held", "taken", "dropped"}

Init ==
    /\ phase = [u \in Unit |-> "absent"]
    /\ lease = [u \in Unit |-> 0]
    /\ delivered = [u \in Unit |-> {}]

\* Every unit of S moves from one phase to another.
Move(S, from, to) ==
    /\ \A u \in S : phase[u] = from
    /\ phase' = [u \in Unit |-> IF u \in S THEN to ELSE phase[u]]

\* A task is split into units.
Create(S) == Move(S, "absent", "waiting") /\ UNCHANGED <<lease, delivered>>

\* A waiting unit is handed out under a new lease.
Grant(u) ==
    /\ lease[u] < MaxAttempts
    /\ Move({u}, "waiting", "held")
    /\ lease' = [lease EXCEPT ![u] = @ + 1]
    /\ UNCHANGED delivered

\* A lease ends without results and the unit may be handed out again.
Return(u) ==
    /\ lease[u] < MaxAttempts
    /\ Move({u}, "held", "waiting")
    /\ UNCHANGED <<lease, delivered>>

\* The holder of the latest lease delivers.
Take(u) ==
    /\ Move({u}, "held", "taken")
    /\ delivered' = [delivered EXCEPT ![u] = @ \cup {lease[u]}]
    /\ UNCHANGED lease

\* A held unit fails for good, or its results are discarded.
Drop(u) == Move({u}, "held", "dropped") /\ UNCHANGED <<lease, delivered>>

\* The units of a closed task that nobody holds are cancelled together.
Cancel(S) == Move(S, "waiting", "dropped") /\ UNCHANGED <<lease, delivered>>

Next ==
    \/ \E S \in SUBSET Unit : Create(S) \/ Cancel(S)
    \/ \E u \in Unit : Grant(u) \/ Return(u) \/ Take(u) \/ Drop(u)

Spec == Init /\ [][Next]_vars

=============================================================================
