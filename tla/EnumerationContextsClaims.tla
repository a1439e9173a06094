---------------------- MODULE EnumerationContextsClaims ----------------------
(****************************************************************************)
(* What comments and documentation in the repository say of pull            *)
(* enumerations, and the code does not do.  Each is checked by a run of its *)
(* own, which finds the behaviour that contradicts it.                      *)
(****************************************************************************)
EXTENDS EnumerationContexts

\* CIMOperationRequestDispatcher.cpp:3600-3602: a pull need not lock the
\* context when it finds it "because not closed (if closed, it would be
\* invalid)".  So no thread goes on with a context that is deleted.
FoundContextStaysValid ==
    \A k \in Clients : client[k].pc # "undefined"

\* EnumerationContextTable.cpp:139-140: the timeout thread runs "until no more
\* contexts or stop flag set".  So while there is none, no timer is set.
TimersAreWatched ==
    timer.pc = "off" => \A c \in table : en[c].timer = "off"
=============================================================================
