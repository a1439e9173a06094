--------------------------- MODULE MCInstanceFiles ---------------------------
(* Instances of InstanceFiles for TLC.                                      *)
EXTENDS InstanceFiles, TLC

CONSTANTS n1, n2, short, long

MCSizeOf == short :> 1 @@ long :> 2
\* Every step but those of two disagreements: a transaction that fails after the
\* data file was compacted, and an index that is left without its header.
MCSafeSteps == Steps \ (Compacting \cup {"headIndex"})
\* The compaction of the index file fails.
MCCompactIndex == {"compactIndex"}
==============================================================================
