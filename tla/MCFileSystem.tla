---------------------------- MODULE MCFileSystem ----------------------------
(* Small instances of FileSystem for TLC.                                   *)
EXTENDS FileSystem, TLC

CONSTANTS fileA, fileB,               \* two names
          textX, textY, textShort,    \* two full texts and a short one
          MaxTroubles                 \* bound: how many commands of TroubleNext may run

VARIABLE troubles

OneOfEach == {<<textShort>>, <<textX, textY>>}

(* The first four characters of a name are no pointer to a block.           *)
FourCharacters == [n \in Names |-> [w \in 1 .. PointersPerCell - 1 |-> BadPtr]]

TwoDirect == {<<textShort>>, <<textX, textY, textX>>}
Swap      == Permutations({fileA, fileB})

(* Spec with at most MaxTroubles crashes, failures, repairs and relocations. *)
MCInit == Init /\ troubles = 0
MCNext == \/ FileNext /\ UNCHANGED troubles
          \/ TroubleNext /\ troubles < MaxTroubles /\ troubles' = troubles + 1
MCSpec == MCInit /\ [][MCNext]_<<vars, troubles>>

(* HealthySpec has none. *)
MCHealthySpec == MCInit /\ [][HealthyNext /\ UNCHANGED troubles]_<<vars, troubles>>

=============================================================================
