--------------------------- MODULE MCSnapshotStore ---------------------------
(***************************************************************************)
(* TLC instances of SnapshotStore.                                         *)
(***************************************************************************)
EXTENDS SnapshotStore, TLC

CONSTANTS i1, i2, stageA, stageB, turn

\* Two instances; the two stagings exclude each other, as stageBooking does.
TwoInstances == (stageA :> i1) @@ (turn :> i1) @@ (stageB :> i2)
Exclusion    == [o \in Ops |-> IF o \in {stageA, stageB}
                               THEN {stageA, stageB} \ {o} ELSE {}]

=============================================================================
