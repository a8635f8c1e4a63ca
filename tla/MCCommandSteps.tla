--------------------------- MODULE MCCommandSteps ---------------------------
(* Small instances of CommandSteps for TLC.  A behaviour has at most        *)
(* MaxMishaps mishaps, then at most one fsck, or write or delete that      *)
(* throws, cut or not, and after that the disk is only mounted.            *)
EXTENDS CommandSteps, TLC

CONSTANTS fileA, fileB, textX, textY, textShort,
          MaxMishaps     \* bound: crashes, failed writes and cuts

VARIABLES mishaps, over

OneOfEach == {<<textShort>>, <<textX, textY>>}

(* The first four characters of a name are no pointer to a block.           *)
FourCharacters == [n \in Names |-> [w \in 1 .. PointersPerCell - 1 |-> BadPtr]]

Swap      == Permutations({fileA, fileB})

MCInit == StepsInit /\ mishaps = 0 /\ over = FALSE

Mishap ==
  /\ ~ over /\ mishaps < MaxMishaps
  /\ TroubleCommand \/ Cut
  /\ mishaps' = mishaps + 1 /\ UNCHANGED over

MCNext ==
  \/ Proceed /\ UNCHANGED <<mishaps, over>>
  \/ ~ over /\ FileCommand /\ UNCHANGED <<mishaps, over>>
  \/ Mishap
  \/ ~ over /\ RepairOrThrow /\ over' = TRUE /\ UNCHANGED mishaps
  \/ over /\ Cut /\ UNCHANGED <<mishaps, over>>
MCSpec == MCInit /\ [][MCNext]_<<stepVars, mishaps, over>>

=============================================================================
