---------------------------- MODULE MCProposals ----------------------------
(***************************************************************************)
(* Instances of Proposals for TLC: all proposals are for one target, those  *)
(* of SameRef are posted with one external_ref.                             *)
(***************************************************************************)
EXTENDS Proposals, TLC

CONSTANTS SameRef, TheTarget, TheRef

MCTarget == {TheTarget}
MCTargetOf == [p \in Proposal |-> TheTarget]
MCRef == Proposal \cup {TheRef}
MCRefOf == [p \in Proposal |-> IF p \in SameRef THEN TheRef ELSE p]

\* Interchangeable requests and values, for the safety runs.
Alike == Permutations(Request) \cup Permutations(Value)

=============================================================================
