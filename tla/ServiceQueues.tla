---------------------------- MODULE ServiceQueues ----------------------------
(***************************************************************************)
(* The services of the server and the operations they send each other      *)
(* (Common/MessageQueueService.cpp, Common/Cimom.cpp), up to their close   *)
(* and deletion (Server/ShutdownService.cpp, Server/CIMServer.cpp).  An    *)
(* operation goes through the queue of the router (cimom), which puts it   *)
(* into the queue of its service; the poller looks for services with       *)
(* something to do and gives each a thread of the pool; that thread        *)
(* handles what is in the queue.  A step is what one thread does between   *)
(* two accesses to what it shares with others.                             *)
(***************************************************************************)
EXTENDS Integers, FiniteSets, Sequences, Functions

CONSTANTS Services,
          Operations,   \* the requests that services and other threads send
          Workers,      \* the threads the pool has or can make
          MaxThreads,   \* max_threads_per_svc_queue
          Flags,        \* how each operation is sent
          To, From,     \* the service it goes to, the service that sends it
          Closing,      \* the services ShutdownService closes, in its order
          Deletion,     \* all services, in the order ~CIMServer deletes them
          PlaceInList,  \* their place in the polling list
          NoOne

Control == [kind : {"stop", "start", "close"}, to : Services]
CimomClose == [kind |-> "close", to |-> "cimom"]
Ops == Operations \cup Control \cup {CimomClose}

ASSUME ThreadsForService == MaxThreads \in Nat \ {0} /\ IsFiniteSet(Workers)
ASSUME OperationsAreSent ==
    /\ Flags \in [Operations -> {"callback", "wait", "forget"}]
    /\ To \in [Operations -> Services]
    /\ From \in [Operations -> Services]
ASSUME ServicesEndInOrder ==
    /\ Deletion \in Seq(Services) /\ Range(Deletion) = Services
    /\ IsInjective(Deletion)
    /\ PlaceInList \in [Services -> Nat] /\ IsInjective(PlaceInList)
    /\ Closing \in Seq(Services) /\ Len(Closing) = Cardinality(Range(Closing))
ASSUME NothingIsNoOne ==
    /\ NoOne \notin Services \cup Ops /\ "cimom" \notin Services
    /\ Operations \cap (Control \cup {CimomClose}) = {}

VARIABLES svc,      \* the services
          op,       \* the operation nodes
          routed,   \* cimom::_routed_ops
          router,   \* the thread of _routing_proc
          poller,   \* the thread of polling_routine
          polls,    \* _polling_sem
          stopped,  \* _stop_polling
          worker,   \* the threads of the pool
          control   \* the thread that shuts the server down

vars == <<svc, op, routed, router, poller, polls, stopped, worker, control>>

-----------------------------------------------------------------------------
(* Services, operations and threads.                                       *)

\* phase: "deleting" from the destructor of the derived class on; registered:
\* its entry in the table of cimom, with the flag that keeps it there.
Service == [phase : {"up", "deleting", "gone"},
            running : BOOLEAN, closed : BOOLEAN, die : BOOLEAN,
            threads : Nat, incoming : Seq(Ops),
            registered : {"yes", "monitored", "no"}, listed : BOOLEAN]
NewService == [phase |-> "up", running |-> TRUE, closed |-> FALSE, die |-> FALSE,
               threads |-> 0, incoming |-> <<>>, registered |-> "yes", listed |-> TRUE]

\* handled and taken: how often the operation was handled, and its answer
\* taken by its sender (history).
OpNode == [at : {"unsent", "under way", "complete", "freed"},
           reply : {"none", "ok", "nak"}, handled : Nat, taken : Nat]
NewOp == [at |-> "unsent", reply |-> "none", handled |-> 0, taken |-> 0]

IdleRouter == [pc |-> "wait", op |-> NoOne, svc |-> NoOne]
IdleWorker == [pc |-> "idle", svc |-> NoOne, op |-> NoOne, sub |-> NoOne]
WorkerPcs == {"idle", "start", "loop", "handle", "waiting", "closing", "leave",
              "signal", "undefined"}

FlagOf(o) == IF o \in Operations THEN Flags[o]
             ELSE IF o \in Control /\ o.to \in Range(Closing) THEN "wait" ELSE "forget"
ServiceOf(o) == IF o \in Operations THEN To[o] ELSE o.to

\* _op_dest: the service, or for an answer the one that gets the callback.
Destination(o) == IF op[o].at = "complete" /\ FlagOf(o) = "callback" THEN From[o]
                  ELSE ServiceOf(o)

\* cimom::_completeAsyncResponse: an answer to a callback is routed back, a
\* waiting sender is woken, and an operation nobody waits for is deleted.
Answered(node, o, reply) ==
    IF FlagOf(o) = "forget" THEN [node EXCEPT !.at = "freed"]
    ELSE [node EXCEPT !.at = "complete", !.reply = reply]
Complete(o, reply) ==
    /\ op' = [op EXCEPT ![o] = Answered(@, o, reply)]
    /\ routed' = IF FlagOf(o) = "callback" THEN Append(routed, o) ELSE routed

Free(node) == [node EXCEPT !.at = "freed"]
Taken(node) == [node EXCEPT !.at = "freed", !.taken = node.taken + 1]

\* _sendAsync and SendForget.  To a service that is gone nothing is sent: the
\* node of SendForget is deleted, SendWait goes on to wait.
Send(o) ==
    IF o # CimomClose /\ svc[ServiceOf(o)].phase = "gone"
    THEN /\ op' = [op EXCEPT ![o].at = IF FlagOf(o) = "forget" THEN "freed"
                                       ELSE "under way"]
         /\ UNCHANGED routed
    ELSE /\ op' = [op EXCEPT ![o].at = "under way"]
         /\ routed' = Append(routed, o)

-----------------------------------------------------------------------------
Init ==
    /\ svc = [s \in Services |-> NewService]
    /\ op = [o \in Ops |-> NewOp]
    /\ routed = <<>>
    /\ router = IdleRouter
    /\ poller = [pc |-> "wait", toScan |-> {}] /\ polls = 0 /\ stopped = FALSE
    /\ worker = [w \in Workers |-> IdleWorker]
    /\ control = [pc |-> "serving", svc |-> NoOne, todo |-> <<>>]

(* SendAsync and SendForget of a service.                                   *)

SendOperation(o) ==
    /\ op[o].at = "unsent" /\ Flags[o] # "wait"
    /\ svc[From[o]].phase = "up"
    /\ Send(o)
    /\ UNCHANGED <<svc, router, poller, polls, stopped, worker, control>>

(* cimom::_routing_proc.                                                    *)

RouterGoes(pc) == router' = [router EXCEPT !.pc = pc]

\* dequeue_wait and _monitorCIMService.  The destination is looked at first: a
\* service that is gone is used after its end.
RouteOperation ==
    /\ router.pc = "wait" /\ routed # <<>> /\ Head(routed) # CimomClose
    /\ LET o == Head(routed)
           s == Destination(o)
       IN  /\ router' = [pc |-> IF svc[s].phase = "gone" THEN "undefined"
                                ELSE IF svc[s].registered = "yes" THEN "check"
                                ELSE "refuse",
                         op |-> o, svc |-> s]
           /\ svc' = IF svc[s].registered = "yes"
                     THEN [svc EXCEPT ![s].registered = "monitored"] ELSE svc
    /\ routed' = Tail(routed)
    /\ UNCHANGED <<op, poller, polls, stopped, worker, control>>

\* accept_async, the tests before the queue is used.
Accepts(s, o) == (s.running \/ o \in [kind : {"start"}, to : Services]) /\ ~s.closed

CheckService ==
    /\ router.pc = "check"
    /\ RouterGoes(IF Accepts(svc[router.svc], router.op) THEN "enqueue" ELSE "refuse")
    /\ UNCHANGED <<svc, op, routed, poller, polls, stopped, worker, control>>

\* Variant: the result of accept_async is not looked at.
EnqueueUnaccepted ==
    /\ router.pc = "enqueue"
    /\ LET s == router.svc
       IN  IF svc[s].die THEN UNCHANGED <<svc, polls>>
           ELSE /\ svc' = [svc EXCEPT ![s].incoming = Append(@, router.op)]
                /\ polls' = polls + 1
    /\ RouterGoes("refuse")
    /\ UNCHANGED <<op, routed, poller, stopped, worker, control>>

EnqueueOperation ==
    /\ router.pc = "enqueue"
    /\ LET s == router.svc
       IN  IF svc[s].die THEN RouterGoes("refuse") /\ UNCHANGED <<svc, polls>>
           ELSE /\ svc' = [svc EXCEPT ![s].incoming = Append(@, router.op),
                                      ![s].registered = "yes"]
                /\ polls' = polls + 1
                /\ router' = IdleRouter
    /\ UNCHANGED <<op, routed, poller, stopped, worker, control>>

\* Variant: an answer that is not accepted is dropped, its node left behind.
DropAnswer ==
    /\ router.pc = "refuse"
    /\ svc' = [svc EXCEPT ![router.svc].registered =
                  IF @ = "monitored" THEN "yes" ELSE @]
    /\ IF op[router.op].at = "complete" THEN UNCHANGED <<op, routed>>
       ELSE Complete(router.op, "nak")
    /\ router' = IdleRouter
    /\ UNCHANGED <<poller, polls, stopped, worker, control>>

\* _releaseCIMService and _make_response: an answer that is not accepted is deleted.
RefuseOperation ==
    /\ router.pc = "refuse"
    /\ svc' = [svc EXCEPT ![router.svc].registered =
                  IF @ = "monitored" THEN "yes" ELSE @]
    /\ IF op[router.op].at = "complete"
       THEN op' = [op EXCEPT ![router.op] = Free(@)] /\ UNCHANGED routed
       ELSE Complete(router.op, "nak")
    /\ router' = IdleRouter
    /\ UNCHANGED <<poller, polls, stopped, worker, control>>

\* _handle_cimom_op: what is in the queue is deleted, the thread ends.
CloseCimom ==
    /\ router.pc = "wait" /\ routed # <<>> /\ Head(routed) = CimomClose
    /\ op' = [o \in Ops |-> IF \E i \in DOMAIN routed : routed[i] = o
                            THEN Free(op[o]) ELSE op[o]]
    /\ routed' = <<>>
    /\ RouterGoes("ended")
    /\ UNCHANGED <<svc, poller, polls, stopped, worker, control>>

(* MessageQueueService::polling_routine.                                    *)

\* _polling_list_mutex is held until the last service of the list was looked at.
Scanning(S) == [pc |-> IF S = {} THEN "wait" ELSE "scan", toScan |-> S]

PollerWakes ==
    /\ poller.pc = "wait" /\ polls > 0
    /\ polls' = polls - 1
    /\ poller' = IF stopped THEN [pc |-> "ended", toScan |-> {}]
                 ELSE Scanning({s \in Services : svc[s].listed})
    /\ UNCHANGED <<svc, op, routed, router, stopped, worker, control>>

HasWork(s) == svc[s].incoming # <<>> /\ ~svc[s].die /\ svc[s].threads < MaxThreads
IsNext(s) ==
    s \in poller.toScan /\ \A t \in poller.toScan : PlaceInList[s] <= PlaceInList[t]
Scanned(s) == IsNext(s) /\ poller' = Scanning(poller.toScan \ {s})

SkipService(s) ==
    /\ ~HasWork(s)
    /\ Scanned(s)
    /\ UNCHANGED <<svc, op, routed, router, polls, stopped, worker, control>>

\* Variant: the thread is not counted by the poller.
StartWorkerUncounted(s, w) ==
    /\ HasWork(s) /\ worker[w].pc = "idle"
    /\ worker' = [worker EXCEPT ![w] = [IdleWorker EXCEPT !.pc = "start", !.svc = s]]
    /\ Scanned(s)
    /\ UNCHANGED <<svc, op, routed, router, polls, stopped, control>>

StartWorker(s, w) ==
    /\ HasWork(s) /\ worker[w].pc = "idle"
    /\ svc' = [svc EXCEPT ![s].threads = @ + 1]
    /\ worker' = [worker EXCEPT ![w] = [IdleWorker EXCEPT !.pc = "start", !.svc = s]]
    /\ Scanned(s)
    /\ UNCHANGED <<op, routed, router, polls, stopped, control>>

\* No thread can be had: the rest of the services is not looked at.
NoWorkerLeft(s) ==
    /\ IsNext(s) /\ HasWork(s)
    /\ \A w \in Workers : worker[w].pc # "idle"
    /\ poller' = Scanning({})
    /\ UNCHANGED <<svc, op, routed, router, polls, stopped, worker, control>>

(* MessageQueueService::_req_proc and the handlers it calls.                *)

WorkerGoes(w, pc) == worker' = [worker EXCEPT ![w].pc = pc]
\* The loop of _req_proc ends after the operation that closed the service.
EndOperation(w) ==
    worker' = [worker EXCEPT ![w].op = NoOne,
                             ![w].pc = IF svc[worker[w].svc].closed THEN "leave"
                                       ELSE "loop"]

\* Variant: the end of the service is left to the exit that all threads take.
BeginAndLeave(w) ==
    /\ worker[w].pc = "start"
    /\ IF svc[worker[w].svc].die
       THEN /\ svc' = [svc EXCEPT ![worker[w].svc].threads = @ - 1]
            /\ WorkerGoes(w, "leave")
       ELSE WorkerGoes(w, "loop") /\ UNCHANGED svc
    /\ UNCHANGED <<op, routed, router, poller, polls, stopped, control>>

BeginWork(w) ==
    /\ worker[w].pc = "start"
    /\ IF svc[worker[w].svc].die
       THEN /\ svc' = [svc EXCEPT ![worker[w].svc].threads = @ - 1]
            /\ worker' = [worker EXCEPT ![w] = [IdleWorker EXCEPT !.pc = "signal"]]
       ELSE WorkerGoes(w, "loop") /\ UNCHANGED svc
    /\ UNCHANGED <<op, routed, router, poller, polls, stopped, control>>

DequeueOperation(w) ==
    /\ worker[w].pc = "loop"
    /\ LET s == worker[w].svc
           q == svc[s].incoming
       IN  IF q = <<>> THEN WorkerGoes(w, "leave") /\ UNCHANGED <<svc, op>>
           ELSE /\ svc' = [svc EXCEPT ![s].incoming = Tail(@)]
                /\ worker' = [worker EXCEPT ![w].pc = "handle", ![w].op = Head(q)]
                /\ op' = [op EXCEPT ![Head(q)].handled =
                             IF op[Head(q)].at = "complete" THEN @ ELSE @ + 1]
    /\ UNCHANGED <<routed, router, poller, polls, stopped, control>>

Handles(w) ==
    /\ worker[w].pc = "handle"
    /\ UNCHANGED <<router, poller, polls, stopped, control>>
HandlesRequest(w) ==
    /\ Handles(w)
    /\ worker[w].op \in Operations
    /\ svc[worker[w].svc].phase = "up"

\* The handler of a derived class answers.
AnswerRequest(w) ==
    LET o == worker[w].op
    IN  /\ HandlesRequest(w) /\ op[o].at = "under way"
        /\ Complete(o, "ok")
        /\ EndOperation(w)
        /\ UNCHANGED svc

\* The handler sends an operation of its own and waits for the answer.
SendAndWait(w, o) ==
    /\ HandlesRequest(w) /\ op[worker[w].op].at = "under way"
    /\ Flags[o] = "wait" /\ From[o] = worker[w].svc /\ op[o].at = "unsent"
    /\ Send(o)
    /\ worker' = [worker EXCEPT ![w].pc = "waiting", ![w].sub = o]
    /\ UNCHANGED svc

WakeHandler(w) ==
    /\ worker[w].pc = "waiting" /\ op[worker[w].sub].at = "complete"
    /\ op' = [op EXCEPT ![worker[w].sub] = Taken(@)]
    /\ worker' = [worker EXCEPT ![w].pc = "handle", ![w].sub = NoOne]
    /\ UNCHANGED <<svc, routed, router, poller, polls, stopped, control>>

\* _handle_async_callback.
RunCallback(w) ==
    LET o == worker[w].op
    IN  /\ HandlesRequest(w) /\ op[o].at = "complete"
        /\ op' = [op EXCEPT ![o] = Taken(@)]
        /\ EndOperation(w)
        /\ UNCHANGED <<svc, routed>>

\* A handler or callback of a derived class that was destroyed.
UseDeletedService(w) ==
    /\ Handles(w)
    /\ worker[w].op \in Operations /\ svc[worker[w].svc].phase # "up"
    /\ WorkerGoes(w, "undefined")
    /\ UNCHANGED <<svc, op, routed>>

\* handle_CimServiceStop and handle_CimServiceStart.
StopOrStartService(w) ==
    LET o == worker[w].op
    IN  /\ Handles(w) /\ o \in Control /\ o.kind # "close"
        /\ svc' = [svc EXCEPT ![worker[w].svc].running = (o.kind = "start")]
        /\ Complete(o, "ok")
        /\ EndOperation(w)

\* handle_AsyncIoClose.
CloseService(w) ==
    LET o == worker[w].op
    IN  /\ Handles(w) /\ o \in Control /\ o.kind = "close"
        /\ svc' = [svc EXCEPT ![worker[w].svc].closed = TRUE]
        /\ WorkerGoes(w, "closing")
        /\ UNCHANGED <<op, routed>>

AnswerClose(w) ==
    /\ worker[w].pc = "closing" /\ svc[worker[w].svc].threads <= 1
    /\ Complete(worker[w].op, "ok")
    /\ EndOperation(w)
    /\ UNCHANGED <<svc, router, poller, polls, stopped, control>>

LeaveService(w) ==
    /\ worker[w].pc = "leave"
    /\ svc' = [svc EXCEPT ![worker[w].svc].threads = @ - 1]
    /\ worker' = [worker EXCEPT ![w] = [IdleWorker EXCEPT !.pc = "signal"]]
    /\ UNCHANGED <<op, routed, router, poller, polls, stopped, control>>

\* Variant: the thread ends without a signal.
EndSilently(w) ==
    /\ worker[w].pc = "signal"
    /\ worker' = [worker EXCEPT ![w] = IdleWorker]
    /\ UNCHANGED <<svc, op, routed, router, poller, polls, stopped, control>>

\* ThreadPool::_loop.  The thread is idle only after this; a thread that has
\* signalled and is not yet in the list counts as idle, for the pool makes one.
SignalPoller(w) ==
    /\ worker[w].pc = "signal"
    /\ polls' = polls + 1
    /\ worker' = [worker EXCEPT ![w] = IdleWorker]
    /\ UNCHANGED <<svc, op, routed, router, poller, stopped, control>>

(* ShutdownService::shutdownCimomServices and ~CIMServer.                   *)

ControlGoes(pc, s) == control' = [control EXCEPT !.pc = pc, !.svc = s]

BeginShutdown ==
    /\ control.pc = "serving"
    /\ control' = [pc |-> "closing", svc |-> NoOne, todo |-> Closing]
    /\ UNCHANGED <<svc, op, routed, router, poller, polls, stopped, worker>>

\* Stop, start and close, each sent when the one before was answered.
Sequel == [stop |-> "start", start |-> "close"]
ControlOp(kind, s) == [kind |-> kind, to |-> s]

StopService ==
    /\ control.pc = "closing" /\ control.todo # <<>>
    /\ Send(ControlOp("stop", Head(control.todo)))
    /\ ControlGoes("stop", Head(control.todo))
    /\ UNCHANGED <<svc, router, poller, polls, stopped, worker>>

SendNext ==
    /\ control.pc \in {"stop", "start"}
    /\ op[ControlOp(control.pc, control.svc)].at = "complete"
    /\ LET o == ControlOp(Sequel[control.pc], control.svc)
       IN  /\ op' = [op EXCEPT ![ControlOp(control.pc, control.svc)] = Taken(@),
                               ![o].at = "under way"]
           /\ routed' = Append(routed, o)
    /\ ControlGoes(Sequel[control.pc], control.svc)
    /\ UNCHANGED <<svc, router, poller, polls, stopped, worker>>

ServiceClosed ==
    /\ control.pc = "close"
    /\ op[ControlOp("close", control.svc)].at = "complete"
    /\ op' = [op EXCEPT ![ControlOp("close", control.svc)] = Taken(@)]
    /\ control' = [pc |-> "closing", svc |-> NoOne, todo |-> Tail(control.todo)]
    /\ UNCHANGED <<svc, routed, router, poller, polls, stopped, worker>>

BeginDeletion ==
    /\ control.pc = "closing" /\ control.todo = <<>>
    /\ control' = [pc |-> "deleting", svc |-> NoOne, todo |-> Deletion]
    /\ UNCHANGED <<svc, op, routed, router, poller, polls, stopped, worker>>

\* ~MessageQueueService, from the end of the derived class on.
DeleteService ==
    /\ control.pc = "deleting" /\ control.todo # <<>>
    /\ LET s == Head(control.todo)
       IN  /\ svc' = [svc EXCEPT ![s].phase = "deleting"]
           /\ IF svc[s].closed THEN UNCHANGED <<op, routed>>
              ELSE Send(ControlOp("close", s))
           /\ ControlGoes("awaitClosed", s)
    /\ UNCHANGED <<router, poller, polls, stopped, worker>>

DieNow ==
    /\ control.pc = "awaitClosed" /\ svc[control.svc].closed
    /\ svc' = [svc EXCEPT ![control.svc].die = TRUE]
    /\ ControlGoes("deregister", control.svc)
    /\ UNCHANGED <<op, routed, router, poller, polls, stopped, worker>>

\* Variant: deregisterCIMService does not look at the flag.
DeregisterMonitored ==
    /\ control.pc = "deregister"
    /\ svc' = [svc EXCEPT ![control.svc].registered = "no"]
    /\ ControlGoes("awaitThreads", control.svc)
    /\ UNCHANGED <<op, routed, router, poller, polls, stopped, worker>>

DeregisterService ==
    /\ control.pc = "deregister" /\ svc[control.svc].registered # "monitored"
    /\ svc' = [svc EXCEPT ![control.svc].registered = "no"]
    /\ ControlGoes("awaitThreads", control.svc)
    /\ UNCHANGED <<op, routed, router, poller, polls, stopped, worker>>

AwaitThreads ==
    /\ control.pc = "awaitThreads" /\ svc[control.svc].threads = 0
    /\ ControlGoes("unlist", control.svc)
    /\ UNCHANGED <<svc, op, routed, router, poller, polls, stopped, worker>>

\* _removeFromPollingList waits for the end of a scan.  The last service then
\* stops the poller.
UnlistService ==
    /\ control.pc = "unlist" /\ poller.pc # "scan"
    /\ svc' = [svc EXCEPT ![control.svc].listed = FALSE]
    /\ IF Len(control.todo) = 1
       THEN stopped' = TRUE /\ polls' = polls + 1 /\ ControlGoes("join", control.svc)
       ELSE ControlGoes("clear", control.svc) /\ UNCHANGED <<stopped, polls>>
    /\ UNCHANGED <<op, routed, router, poller, worker>>

\* delete _meta_dispatcher, once the poller has ended.
CloseRouter ==
    /\ control.pc = "join" /\ poller.pc = "ended"
    /\ Send(CimomClose)
    /\ ControlGoes("joinRouter", control.svc)
    /\ UNCHANGED <<svc, router, poller, polls, stopped, worker>>

\* delete _thread_pool, once the router has ended.
DeletePool ==
    /\ control.pc = "joinRouter" /\ router.pc = "ended"
    /\ \A w \in Workers : worker[w].pc = "idle"
    /\ ControlGoes("clear", control.svc)
    /\ UNCHANGED <<svc, op, routed, router, poller, polls, stopped, worker>>

\* What is left in the queue is deleted, and with it the service.
ClearService ==
    /\ control.pc = "clear"
    /\ LET q == svc[control.svc].incoming
       IN  op' = [o \in Ops |-> IF \E i \in DOMAIN q : q[i] = o THEN Free(op[o])
                                ELSE op[o]]
    /\ svc' = [svc EXCEPT ![control.svc].phase = "gone", ![control.svc].incoming = <<>>]
    /\ control' = [pc |-> IF Len(control.todo) = 1 THEN "done" ELSE "deleting",
                   svc |-> NoOne, todo |-> Tail(control.todo)]
    /\ UNCHANGED <<routed, router, poller, polls, stopped, worker>>

-----------------------------------------------------------------------------
Router == RouteOperation \/ CheckService \/ EnqueueOperation \/ RefuseOperation
               \/ CloseCimom

Poller == \/ PollerWakes
          \/ \E s \in Services : SkipService(s) \/ NoWorkerLeft(s)
          \/ \E s \in Services, w \in Workers : StartWorker(s, w)

Work(w) == \/ BeginWork(w)
           \/ DequeueOperation(w)
           \/ AnswerRequest(w)
           \/ \E o \in Operations : SendAndWait(w, o)
           \/ WakeHandler(w)
           \/ RunCallback(w)
           \/ UseDeletedService(w)
           \/ StopOrStartService(w)
           \/ CloseService(w)
           \/ AnswerClose(w)
           \/ LeaveService(w)
           \/ SignalPoller(w)

Shutdown == StopService \/ SendNext \/ ServiceClosed \/ BeginDeletion \/ DeleteService
                \/ DieNow \/ DeregisterService \/ AwaitThreads \/ UnlistService
                \/ CloseRouter \/ DeletePool \/ ClearService

Next == \/ \E o \in Operations : SendOperation(o)
        \/ Router
        \/ Poller
        \/ \E w \in Workers : Work(w)
        \/ BeginShutdown
        \/ Shutdown

Spec == Init /\ [][Next]_vars

\* Every thread of the server goes on; nobody has to send or to shut down.
FairSpec == Spec /\ WF_vars(Router) /\ WF_vars(Poller) /\ WF_vars(Shutdown)
                 /\ \A w \in Workers : WF_vars(Work(w))

-----------------------------------------------------------------------------
TypeOK ==
    /\ svc \in [Services -> Service]
    /\ op \in [Ops -> OpNode]
    /\ routed \in Seq(Ops)
    /\ router \in [pc : {"wait", "check", "enqueue", "refuse", "ended",
                         "undefined"}, op : Ops \cup {NoOne}, svc : Services \cup {NoOne}]
    /\ poller \in [pc : {"wait", "scan", "ended"}, toScan : SUBSET Services]
    /\ polls \in Nat /\ stopped \in BOOLEAN
    /\ worker \in [Workers -> [pc : WorkerPcs, svc : Services \cup {NoOne},
                               op : Ops \cup {NoOne}, sub : Ops \cup {NoOne}]]
    /\ control \in [pc : {"serving", "closing", "stop", "start", "close", "deleting",
                        "awaitClosed", "deregister", "awaitThreads", "unlist", "join",
                        "joinRouter", "clear", "done"},
                    svc : Services \cup {NoOne}, todo : Seq(Services)]

\* Who has o: the queues, by place, and the threads.
Places(o, q) == {i \in DOMAIN q : q[i] = o}
Owners(o) ==
    {<<"routed", i>> : i \in Places(o, routed)}
        \cup (UNION {{<<"incoming", s, i>> : i \in Places(o, svc[s].incoming)} : s \in Services})
        \cup {<<"worker", w>> : w \in {v \in Workers : worker[v].op = o}}
        \cup (IF router.op = o THEN {<<"router">>} ELSE {})

\* An operation node has one owner at a time: while it is under way, or comes
\* back to a callback, it is in one queue or with one thread, and nobody holds
\* a node that was deleted or handed to its sender (the node is passed by a
\* bare pointer from the sender over two queues and three threads).
OneOwner ==
    \A o \in Ops :
        IF \/ op[o].at = "under way"
           \/ op[o].at = "complete" /\ FlagOf(o) = "callback"
        THEN \/ \E p \in Owners(o) : Owners(o) = {p}
             \/ Owners(o) = {} /\ o # CimomClose /\ svc[Destination(o)].phase = "gone"
        ELSE Owners(o) = {}

\* _threads counts the threads that are in a service, and never more than the
\* maximum (the poller counts up, the threads count down without the lock; the
\* close and the destructor of a service wait for this number).
ThreadsCounted ==
    \A s \in Services :
        /\ svc[s].threads = Cardinality({w \in Workers : worker[w].svc = s})
        /\ svc[s].threads <= MaxThreads

\* When a service is deleted no thread is in it, the router does not hold it and
\* the poller does not look at it (its destructor waits for each of these in
\* turn, while requests for it still arrive).
GoneIsUnused ==
    \A s \in Services :
        svc[s].phase = "gone" =>
            /\ \A w \in Workers : worker[w].svc # s
            /\ ~(router.pc \in {"check", "enqueue"} /\ router.svc = s)
            /\ s \notin poller.toScan

AsyncOp(n) ==
    [status |-> CASE n.at = "unsent" -> "unsent"
                  [] n.at = "under way" -> "sent"
                  [] n.at = "complete" -> IF n.reply = "nak" THEN "refused" ELSE "replied"
                  [] n.at = "freed" -> "over",
     handled |-> n.handled, taken |-> n.taken]

AsyncOperationsSpec ==
    INSTANCE AsyncOperations WITH
        Sendable <- Operations, operation <- [o \in Operations |-> AsyncOp(op[o])]

\* Every operation goes as AsyncOperations promises: handled at most once, answered
\* by its handler or refused unhandled, and its answer taken once.
ImplementsAsyncOperations == AsyncOperationsSpec!Spec

\* Again and again the server has answered every request that was sent, or its
\* shutdown has ended, unless a thread got into a service that was deleted (the
\* poller is woken for every operation, and by every thread that leaves a service,
\* since it may have found the service full; each wait of the shutdown is for
\* threads that other waits may hold).
Undefined == router.pc = "undefined" \/ \E w \in Workers : worker[w].pc = "undefined"
AllAnswered == \A o \in Operations : op[o].at \in {"unsent", "freed"}
ComesToRest ==
    []<>(\/ control.pc = "serving" /\ AllAnswered
         \/ control.pc = "done"
         \/ Undefined)
==============================================================================
