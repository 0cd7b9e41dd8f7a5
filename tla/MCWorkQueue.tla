---------------------------- MODULE MCWorkQueue ----------------------------
(***************************************************************************)
(* Instances of WorkQueue for TLC: every task may be split into            *)
(* UnitsPerTask units, and the tasks of NowTasks run on the interactive     *)
(* lane.                                                                    *)
(***************************************************************************)
EXTENDS WorkQueue, TLC

CONSTANTS UnitsPerTask, NowTasks, BulkLane

MCUnit == Task \X (1..UnitsPerTask)
MCTaskOf == [u \in MCUnit |-> u[1]]
MCLaneOf == [t \in Task |-> IF t \in NowTasks THEN NowLane ELSE BulkLane]
MCLane == {NowLane, BulkLane}

\* Interchangeable instances and tasks: sound for the safety runs that use them.
Instances == Permutations(Internal) \cup Permutations(External)

=============================================================================
