-------------------------------- MODULE Review --------------------------------
(***************************************************************************)
(* What the review of proposals promises, whatever requests run at the     *)
(* same time:                                                               *)
(*                                                                          *)
(*   - a proposal is decided once (applied, rejected or superseded) and an  *)
(*     applied one is undone at most once;                                  *)
(*   - the catalogue is written for a proposal only in the step that        *)
(*     applies or undoes it, so who wrote a target last is applied or       *)
(*     undone.                                                              *)
(*                                                                          *)
(* Proposals implements this specification (Proposals!ReviewSpec).          *)
(***************************************************************************)

CONSTANTS Proposal, Target,
          TargetOf,  \* [Proposal -> Target]
          None       \* nobody: a target last written from outside

VARIABLES status,    \* where each proposal stands
          writer     \* the proposal whose apply or undo wrote a target last

vars == <<status, writer>>

Init ==
    /\ status = [p \in Proposal |-> "absent"]
    /\ writer = [t \in Target |-> None]

Becomes(p, s) == status' = [status EXCEPT ![p] = s]

\* A new proposal takes the place of undecided ones.
Offer(p, S) ==
    /\ status[p] = "absent" /\ \A q \in S : status[q] = "pending"
    /\ status' = [q \in Proposal |-> IF q = p THEN "pending" ELSE IF q \in S THEN "superseded" ELSE status[q]]
    /\ UNCHANGED writer

\* The catalogue moved: the operator has to look again.
Drift(p) == status[p] = "pending" /\ Becomes(p, "drifted") /\ UNCHANGED writer

Reject(p) == status[p] \in {"pending", "drifted"} /\ Becomes(p, "rejected") /\ UNCHANGED writer

\* The catalogue is written together with the decision.  Intermediate results have no target to write.
Writes(p) == UNCHANGED writer \/ writer' = [writer EXCEPT ![TargetOf[p]] = p]
Apply(p) == status[p] \in {"pending", "drifted"} /\ Becomes(p, "applied") /\ Writes(p)
Undo(p) == status[p] = "applied" /\ Becomes(p, "reverted") /\ Writes(p)

\* Retention forgets what is not pending.
Forget(S) ==
    /\ \A p \in S : status[p] \notin {"absent", "pending"}
    /\ status' = [p \in Proposal |-> IF p \in S THEN "deleted" ELSE status[p]]
    /\ UNCHANGED writer

\* Somebody else edits the catalogue.
Outside(t) == writer' = [writer EXCEPT ![t] = None] /\ UNCHANGED status

Next ==
    \/ \E p \in Proposal, S \in SUBSET Proposal : Offer(p, S)
    \/ \E p \in Proposal : Drift(p) \/ Reject(p) \/ Apply(p) \/ Undo(p)
    \/ \E S \in SUBSET Proposal : Forget(S)
    \/ \E t \in Target : Outside(t)

Spec == Init /\ [][Next]_vars

=============================================================================
