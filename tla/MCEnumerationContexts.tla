------------------------ MODULE MCEnumerationContexts ------------------------
(* Small instances of EnumerationContexts for TLC.                          *)
EXTENDS EnumerationContexts, TLC

\* Context ids and clients are interchangeable.
Interchangeable == Permutations(Contexts) \cup Permutations(Clients)

PullOnly == {"open", "pull"}
PullAndClose == {"open", "pull", "close"}
NoWrongPull == AllRequestKinds \ {"wrongPull"}
EveryRequest == AllRequestKinds

ObjectsOnly == {"objects"}
ObjectsAndErrors == {"objects", "error"}
EveryChunk == AllChunkKinds
=============================================================================
