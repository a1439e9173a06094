------------------------- MODULE ServiceQueuesClaims -------------------------
(* What a comment of the code says of closed services (with MCServiceQueues's
   constants). *)
EXTENDS MCServiceQueues

\* No thread handles an operation of a service whose derived class is destroyed:
\* "if we don't  wait for all threads to terminate here, deletion of this service
\* later may destruct derived class members while still running threads in this
\* service trying to access them" (MessageQueueService.cpp:542).
DestroyedIsNotRun ==
    \A w \in Workers :
        worker[w].pc = "handle" /\ worker[w].op \in Operations
            => svc[worker[w].svc].phase = "up"
==============================================================================
