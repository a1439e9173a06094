------------------------- MODULE MCDestinationQueues -------------------------
(* Small instances of DestinationQueues for TLC.                            *)
EXTENDS DestinationQueues, TLC

CONSTANTS d1, d2, s1, s2

\* Workers and delivery threads are interchangeable.
Interchangeable == Permutations(Workers) \cup Permutations(DeliveryThreads)

\* Two subscriptions of one destination.
SameDestination == [s \in Subscriptions |-> d1]

\* A destination for each subscription.
OwnDestination == [s \in Subscriptions |-> IF s = s1 THEN d1 ELSE d2]
=============================================================================
