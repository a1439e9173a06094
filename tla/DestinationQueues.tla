-------------------------- MODULE DestinationQueues --------------------------
(****************************************************************************)
(* Reliable indications: the queues of the listener destinations            *)
(* (HandlerService/DestinationQueue.cpp) and the handler service that fills *)
(* and empties them (HandlerService/IndicationHandlerService.cpp).          *)
(*                                                                          *)
(* Three kinds of threads share the queues: the workers of the message      *)
(* service, which bring indications and the news that a subscription or a   *)
(* listener is gone; the dispatcher, which passes over all queues and hands *)
(* out at most one indication of each; and the delivery threads.  A step is *)
(* what a thread does under the mutex of one queue (_queueMutex).  The lock *)
(* of the table of queues is held across steps by the dispatcher (to read)  *)
(* and by a worker that cleans up (to write); the other workers take and    *)
(* give it up within a step.                                                *)
(****************************************************************************)
EXTENDS Integers, Sequences, FiniteSets

CONSTANTS
    Destinations,     \* the names of the queues (_getQueueName)
    Subscriptions,    \* the subscriptions of all destinations
    DestinationOf,    \* the destination of each subscription
    Workers,          \* threads that handle the requests to the service
    DeliveryThreads,  \* as many as _maxDeliveryThreads
    NoOne,            \* no worker
    RetryAttempts,    \* values of maxIndicationDeliveryRetryAttempts
    RetryInterval,    \* _minDeliveryRetryIntervalUsec, in ticks of the clock
    LifetimeFactor,   \* 10: retries that the sequence identifier lives for
    MinQueueSize,     \* 200
    MaxQueueSize,     \* 2400
    MaxArrivals,      \* bound: indications that arrive
    MaxListeners,     \* bound: times a listener is registered under one name
    MaxAge,           \* bound: longer times are not told apart
    Prompt            \* no thread keeps an indication waiting

ASSUME NamesAssumption ==
    /\ NoOne \notin Workers
    /\ DestinationOf \in [Subscriptions -> Destinations]
    /\ Destinations \cap {"off", "fetching", "ending"} = {}
    /\ Prompt \in BOOLEAN

ASSUME LimitsAssumption ==
    /\ RetryAttempts \subseteq Nat
    /\ {RetryInterval, LifetimeFactor, MinQueueSize} \subseteq Nat \ {0}
    /\ MaxQueueSize \in Nat /\ MinQueueSize <= MaxQueueSize
    /\ {MaxArrivals, MaxListeners, MaxAge} \subseteq Nat

VARIABLES
    table,          \* _destinationQueueTable: the destinations with a queue
    queue,          \* queue[d]: the DestinationQueue of d
    deliveryQueue,  \* _deliveryQueue: destinations with an indication handed out
    thread,         \* thread[t]: what the delivery thread t does
    dispatcher,     \* the dispatcher thread
    worker,         \* worker[w]: the request that w handles
    writer,         \* the worker that holds the table lock to write
    attempts,       \* _maxDeliveryRetryAttempts and _maxDeliveryRetry
    needCleanup,    \* _needDestinationQueueCleanup
    listener,       \* how many listeners were deleted under each name
    arrivals        \* indications that arrived

vars == <<table, queue, deliveryQueue, thread, dispatcher, worker, writer,
          attempts, needCleanup, listener, arrivals>>

-----------------------------------------------------------------------------
(* State.                                                                   *)

\* "age" and "idle" are the times since arrivalTimeUsec and, once "tried",
\* since lastDeliveryRetryTimeUsec; "tries" is deliveryRetryAttemptsMade.
Indication ==
    [seq : Nat, sub : Subscriptions, age : Nat, idle : Nat,
     tried : BOOLEAN, tries : Nat]

\* "handed" is the indication that is out of the queue while the status is
\* "pending".  "context" stands for the creation time of the listener in the
\* sequence context; "acked" are the numbers that were delivered.
DestinationQueue ==
    [waiting : Seq(Indication), status : {"pending", "fail", "success"},
     handed : Seq(Indication), next : Nat, max : Nat, calcMax : BOOLEAN,
     age : Nat, context : Nat, acked : SUBSET Nat,
     full : Nat, expired : Nat, exceeded : Nat, unsubscribed : Nat]

NewQueue(context) ==
    [waiting |-> <<>>, status |-> "fail", handed |-> <<>>, next |-> 0,
     max |-> MaxQueueSize, calcMax |-> TRUE, age |-> 0, context |-> context,
     acked |-> {}, full |-> 0, expired |-> 0, exceeded |-> 0,
     unsubscribed |-> 0]

WorkerStates ==
    [pc : {"idle", "enqueueing", "creating", "marking", "direct", "sweepWait",
           "sweeping", "dropping", "closing"},
     sub : Subscriptions \cup {NoOne}, dest : Destinations \cup {NoOne},
     context : Nat]

IdleWorker == [pc |-> "idle", sub |-> NoOne, dest |-> NoOne, context |-> 0]

Init ==
    /\ table = {}
    /\ queue = [d \in Destinations |-> NewQueue(0)]
    /\ deliveryQueue = <<>>
    /\ thread = [t \in DeliveryThreads |-> "off"]
    /\ dispatcher = [pc |-> "waiting", toScan |-> {}]
    /\ worker = [w \in Workers |-> IdleWorker]
    /\ writer = NoOne
    /\ attempts \in RetryAttempts
    /\ needCleanup = FALSE
    /\ listener = [d \in Destinations |-> 0]
    /\ arrivals = 0

-----------------------------------------------------------------------------
(* What happens to one queue under its mutex.                               *)

\* _sequenceIdentifierLifetimeUsec
Lifetime == attempts * RetryInterval * LifetimeFactor

Within(n) ==
    IF n < MinQueueSize THEN MinQueueSize
    ELSE IF n > MaxQueueSize THEN MaxQueueSize ELSE n

\* getSequenceNumber: after one lifetime the limit becomes the number of the
\* indications that arrived in it.
Numbered(q) ==
    IF q.calcMax /\ q.age >= Lifetime
    THEN [q EXCEPT !.next = @ + 1, !.max = Within(q.next), !.calcMax = FALSE]
    ELSE [q EXCEPT !.next = @ + 1]

\* Variant: looks at the size before the indication is in.
EnqueuedLate(q, s) ==
    LET all == Append(q.waiting,
                      [seq |-> q.next, sub |-> s, age |-> 0, idle |-> 0,
                       tried |-> FALSE, tries |-> 0])
        n == Numbered(q)
    IN IF Len(q.waiting) > n.max
       THEN [n EXCEPT !.waiting = Tail(all), !.full = @ + 1]
       ELSE [n EXCEPT !.waiting = all]

\* enqueue: the newest goes in, the oldest goes out if there are too many.
Enqueued(q, s) ==
    LET all == Append(q.waiting,
                      [seq |-> q.next, sub |-> s, age |-> 0, idle |-> 0,
                       tried |-> FALSE, tries |-> 0])
        n == Numbered(q)
    IN IF Len(all) > n.max
       THEN [n EXCEPT !.waiting = Tail(all), !.full = @ + 1]
       ELSE [n EXCEPT !.waiting = all]

Expired(i) == i.age >= Lifetime

Due(i) == i.tried => i.idle >= RetryInterval

\* Variant: the time in the queue is no try.
HandedOutFresh(i) == i

\* Intervals that went by while older indications were tried count as tries,
\* but for the last of them, which is the try that begins.
HandedOut(i) ==
    LET elapsed == (IF i.tried THEN i.idle ELSE i.age) \div RetryInterval
    IN [i EXCEPT !.tries = IF elapsed > 0 THEN @ + elapsed - 1 ELSE @]

\* The first k indications are the ones that expired at the front of s.
ExpiredAtFront(s, k) ==
    /\ \A j \in 1..k : Expired(s[j])
    /\ k < Len(s) => ~Expired(s[k + 1])

WithoutFront(q, k) ==
    [q EXCEPT !.waiting = SubSeq(@, k + 1, Len(@)), !.expired = @ + k]

HandOut(q) ==
    [q EXCEPT !.status = "pending", !.handed = <<HandedOut(Head(q.waiting))>>,
              !.waiting = Tail(@)]

\* updateDeliveryRetrySuccess
Delivered(q) ==
    [q EXCEPT !.status = "success", !.handed = <<>>,
              !.acked = @ \cup {q.handed[1].seq}]

\* Variants: puts the indication at the end; forgets to count; forgets the
\* status.
NotDeliveredToTheEnd(q) ==
    LET i == [q.handed[1] EXCEPT !.tries = @ + 1, !.tried = TRUE, !.idle = 0]
        f == [q EXCEPT !.status = "fail", !.handed = <<>>]
    IN IF i.tries >= attempts + 1 THEN [f EXCEPT !.exceeded = @ + 1]
       ELSE IF Len(q.waiting) >= q.max THEN [f EXCEPT !.full = @ + 1]
       ELSE [f EXCEPT !.waiting = Append(@, i)]

NotDeliveredUncounted(q) ==
    LET i == [q.handed[1] EXCEPT !.tries = @ + 1, !.tried = TRUE, !.idle = 0]
        f == [q EXCEPT !.status = "fail", !.handed = <<>>]
    IN IF i.tries >= attempts + 1 THEN [f EXCEPT !.exceeded = @ + 1]
       ELSE IF Len(q.waiting) >= q.max THEN f
       ELSE [f EXCEPT !.waiting = <<i>> \o @]

NotDeliveredStillPending(q) ==
    LET i == [q.handed[1] EXCEPT !.tries = @ + 1, !.tried = TRUE, !.idle = 0]
        f == [q EXCEPT !.handed = <<>>]
    IN IF i.tries >= attempts + 1 THEN [f EXCEPT !.exceeded = @ + 1]
       ELSE IF Len(q.waiting) >= q.max THEN [f EXCEPT !.full = @ + 1]
       ELSE [f EXCEPT !.waiting = <<i>> \o @]

\* updateDeliveryRetryFailure
NotDelivered(q) ==
    LET i == [q.handed[1] EXCEPT !.tries = @ + 1, !.tried = TRUE, !.idle = 0]
        f == [q EXCEPT !.status = "fail", !.handed = <<>>]
    IN IF i.tries >= attempts + 1 THEN [f EXCEPT !.exceeded = @ + 1]
       ELSE IF Len(q.waiting) >= q.max THEN [f EXCEPT !.full = @ + 1]
       ELSE [f EXCEPT !.waiting = <<i>> \o @]

\* deleteMatchedIndications: f goes through the positions of the indications
\* of the other subscriptions, which stay in their order.
KeepsOthers(q, sub, f) ==
    /\ \A j, k \in DOMAIN f : j < k => f[j] < f[k]
    /\ {f[j] : j \in DOMAIN f} =
           {j \in 1..Len(q.waiting) : q.waiting[j].sub # sub}

\* Variant: counts the indications that stay.
WithoutMiscounted(q, f) ==
    [q EXCEPT !.waiting = [j \in DOMAIN f |-> q.waiting[f[j]]],
              !.unsubscribed = @ + Len(f) - Len(q.waiting)]

Without(q, f) ==
    [q EXCEPT !.waiting = [j \in DOMAIN f |-> q.waiting[f[j]]],
              !.unsubscribed = @ + Len(q.waiting) - Len(f)]

\* Variant: does not wait.
SettledAtOnce(d) == TRUE

\* The queue is not waiting for the result of a delivery.
Settled(d) == d \in table => queue[d].status # "pending"

-----------------------------------------------------------------------------
(* The workers.                                                             *)

Alive == dispatcher.pc # "gone"

NoReader == dispatcher.pc # "scanning"

\* _handleIndication for a listener that is reached by CIM-XML.
HandleIndication(w, s) ==
    LET d == DestinationOf[s]
    IN /\ Alive /\ worker[w].pc = "idle" /\ arrivals < MaxArrivals
       /\ arrivals' = arrivals + 1
       /\ worker' = [worker EXCEPT ![w] =
              [pc |-> IF attempts > 0 THEN "enqueueing" ELSE "direct",
               sub |-> s, dest |-> d, context |-> listener[d]]]
       /\ UNCHANGED <<table, queue, deliveryQueue, thread, dispatcher, writer,
                      attempts, needCleanup, listener>>

\* _setSequenceIdentifierAndEnqueue with the lock to read.
Enqueue(w) ==
    LET d == worker[w].dest
    IN /\ worker[w].pc = "enqueueing" /\ writer = NoOne
       /\ IF d \in table
          THEN /\ queue' = [queue EXCEPT ![d] = Enqueued(@, worker[w].sub)]
               /\ worker' = [worker EXCEPT ![w].pc = "marking"]
          ELSE /\ worker' = [worker EXCEPT ![w].pc = "creating"]
               /\ UNCHANGED queue
       /\ UNCHANGED <<table, deliveryQueue, thread, dispatcher, writer,
                      attempts, needCleanup, listener, arrivals>>

\* Variant: the new queue is not marked.
CreateUnmarked(w) ==
    LET d == worker[w].dest
        q == IF d \in table THEN queue[d] ELSE NewQueue(worker[w].context)
    IN /\ worker[w].pc = "creating" /\ writer = NoOne /\ NoReader
       /\ table' = table \cup {d}
       /\ queue' = [queue EXCEPT ![d] = Enqueued(q, worker[w].sub)]
       /\ worker' = [worker EXCEPT ![w] = IdleWorker]
       /\ UNCHANGED <<deliveryQueue, thread, dispatcher, writer, attempts,
                      needCleanup, listener, arrivals>>

\* ... and with the lock to write, where another worker may have been faster.
CreateAndEnqueue(w) ==
    LET d == worker[w].dest
        q == IF d \in table THEN queue[d] ELSE NewQueue(worker[w].context)
    IN /\ worker[w].pc = "creating" /\ writer = NoOne /\ NoReader
       /\ table' = table \cup {d}
       /\ queue' = [queue EXCEPT ![d] = Enqueued(q, worker[w].sub)]
       /\ worker' = [worker EXCEPT ![w].pc = "marking"]
       /\ UNCHANGED <<deliveryQueue, thread, dispatcher, writer, attempts,
                      needCleanup, listener, arrivals>>

MarkForCleanup(w) ==
    /\ worker[w].pc = "marking"
    /\ needCleanup' = TRUE
    /\ worker' = [worker EXCEPT ![w] = IdleWorker]
    /\ UNCHANGED <<table, queue, deliveryQueue, thread, dispatcher, writer,
                   attempts, listener, arrivals>>

\* Without retries the indication is delivered at once, and the queues of the
\* time before are cleaned up.
DeliverDirectly(w) ==
    /\ worker[w].pc = "direct"
    /\ worker' = [worker EXCEPT ![w] =
           IF needCleanup THEN [IdleWorker EXCEPT !.pc = "sweepWait"]
           ELSE IdleWorker]
    /\ UNCHANGED <<table, queue, deliveryQueue, thread, dispatcher, writer,
                   attempts, needCleanup, listener, arrivals>>

\* _destinationQueuesCleanup
BeginSweep(w) ==
    /\ worker[w].pc = "sweepWait" /\ writer = NoOne /\ NoReader
    /\ writer' = w
    /\ needCleanup' = FALSE
    /\ worker' = [worker EXCEPT ![w].pc = "sweeping"]
    /\ UNCHANGED <<table, queue, deliveryQueue, thread, dispatcher, attempts,
                   listener, arrivals>>

\* The queue of d is emptied and deleted.
DeleteQueue(d) ==
    /\ table' = table \ {d}
    /\ queue' = [queue EXCEPT ![d] = NewQueue(0)]

SweepQueue(w, d) ==
    /\ worker[w].pc = "sweeping" /\ writer = w
    /\ d \in table /\ Settled(d)
    /\ DeleteQueue(d)
    /\ UNCHANGED <<deliveryQueue, thread, dispatcher, worker, writer,
                   attempts, needCleanup, listener, arrivals>>

\* Variant: keeps the lock.
EndSweepLocked(w) ==
    /\ worker[w].pc = "sweeping" /\ writer = w /\ table = {}
    /\ worker' = [worker EXCEPT ![w] = IdleWorker]
    /\ UNCHANGED <<table, queue, deliveryQueue, thread, dispatcher, writer,
                   attempts, needCleanup, listener, arrivals>>

EndSweep(w) ==
    /\ worker[w].pc = "sweeping" /\ writer = w /\ table = {}
    /\ writer' = NoOne
    /\ worker' = [worker EXCEPT ![w] = IdleWorker]
    /\ UNCHANGED <<table, queue, deliveryQueue, thread, dispatcher, attempts,
                   needCleanup, listener, arrivals>>

\* _handleSubscriptionNotActiveRequest takes the lock ...
SubscriptionNotActive(w, s) ==
    /\ Alive /\ worker[w].pc = "idle" /\ writer = NoOne /\ NoReader
    /\ writer' = w
    /\ worker' = [worker EXCEPT ![w] =
           [pc |-> "dropping", sub |-> s, dest |-> DestinationOf[s],
            context |-> 0]]
    /\ UNCHANGED <<table, queue, deliveryQueue, thread, dispatcher, attempts,
                   needCleanup, listener, arrivals>>

\* ... and deletes the indications that nobody delivers.
DeleteMatchedIndications(w) ==
    LET d == worker[w].dest
    IN /\ worker[w].pc = "dropping" /\ writer = w /\ Settled(d)
       /\ IF d \in table
          THEN \E n \in 0..Len(queue[d].waiting) :
               \E f \in [1..n -> 1..Len(queue[d].waiting)] :
                   /\ KeepsOthers(queue[d], worker[w].sub, f)
                   /\ queue' = [queue EXCEPT ![d] = Without(queue[d], f)]
          ELSE UNCHANGED queue
       /\ writer' = NoOne
       /\ worker' = [worker EXCEPT ![w] = IdleWorker]
       /\ UNCHANGED <<table, deliveryQueue, thread, dispatcher, attempts,
                      needCleanup, listener, arrivals>>

\* _handleListenerNotActiveRequest: likewise for the whole queue.  The name of
\* the listener may then be used again.
ListenerNotActive(w, d) ==
    /\ Alive /\ worker[w].pc = "idle" /\ writer = NoOne /\ NoReader
    /\ listener[d] < MaxListeners
    /\ writer' = w
    /\ worker' = [worker EXCEPT ![w] =
           [pc |-> "closing", sub |-> NoOne, dest |-> d, context |-> 0]]
    /\ UNCHANGED <<table, queue, deliveryQueue, thread, dispatcher, attempts,
                   needCleanup, listener, arrivals>>

CloseQueue(w) ==
    LET d == worker[w].dest
    IN /\ worker[w].pc = "closing" /\ writer = w /\ Settled(d)
       /\ IF d \in table THEN DeleteQueue(d)
          ELSE UNCHANGED <<table, queue>>
       /\ writer' = NoOne
       /\ worker' = [worker EXCEPT ![w] = IdleWorker]
       /\ listener' = [listener EXCEPT ![d] = @ + 1]
       /\ UNCHANGED <<deliveryQueue, thread, dispatcher, attempts,
                      needCleanup, arrivals>>

\* _handlePropertyUpdateRequest
SetRetryAttempts(w, n) ==
    /\ Alive /\ worker[w].pc = "idle"
    /\ attempts' = n
    /\ UNCHANGED <<table, queue, deliveryQueue, thread, dispatcher, worker,
                   writer, needCleanup, listener, arrivals>>

\* The service is deleted, after its last request.
DeleteService(w) ==
    /\ dispatcher.pc = "stopped" /\ \A v \in Workers : worker[v].pc = "idle"
    /\ dispatcher' = [dispatcher EXCEPT !.pc = "gone"]
    /\ worker' = [worker EXCEPT ![w] =
           IF needCleanup THEN [IdleWorker EXCEPT !.pc = "sweepWait"]
           ELSE IdleWorker]
    /\ UNCHANGED <<table, queue, deliveryQueue, thread, writer, attempts,
                   needCleanup, listener, arrivals>>

-----------------------------------------------------------------------------
(* The dispatcher and the delivery threads.                                 *)

\* Variant: does not take the lock.
BeginPassUnlocked ==
    /\ dispatcher.pc = "waiting"
    /\ dispatcher' = [pc |-> "scanning", toScan |-> table]
    /\ UNCHANGED <<table, queue, deliveryQueue, thread, worker, writer,
                   attempts, needCleanup, listener, arrivals>>

\* _dispatcherRoutine: woken by a signal or after at most one interval, it
\* goes through the table of queues.
BeginPass ==
    /\ dispatcher.pc = "waiting" /\ writer = NoOne
    /\ dispatcher' = [pc |-> "scanning", toScan |-> table]
    /\ UNCHANGED <<table, queue, deliveryQueue, thread, worker, writer,
                   attempts, needCleanup, listener, arrivals>>

\* A thread is started, unless all are running or none can be had.
MayStartThread ==
    \/ \E t \in DeliveryThreads :
           /\ thread[t] = "off"
           /\ thread' = [thread EXCEPT ![t] = "fetching"]
    \/ UNCHANGED thread

\* getNextIndicationForDelivery, and what it returns is handed out.
ScanQueue(d) ==
    /\ dispatcher.pc = "scanning" /\ d \in dispatcher.toScan
    /\ dispatcher' = [dispatcher EXCEPT !.toScan = @ \ {d}]
    /\ IF queue[d].status = "pending"
       THEN UNCHANGED <<queue, deliveryQueue, thread>>
       ELSE \E k \in 0..Len(queue[d].waiting) :
            LET q == WithoutFront(queue[d], k)
            IN /\ ExpiredAtFront(queue[d].waiting, k)
               /\ IF q.waiting # <<>> /\ Due(Head(q.waiting))
                  THEN /\ queue' = [queue EXCEPT ![d] = HandOut(q)]
                       /\ deliveryQueue' = Append(deliveryQueue, d)
                       /\ MayStartThread
                  ELSE /\ queue' = [queue EXCEPT ![d] = q]
                       /\ UNCHANGED <<deliveryQueue, thread>>
    /\ UNCHANGED <<table, worker, writer, attempts, needCleanup, listener,
                   arrivals>>

EndPass ==
    /\ dispatcher.pc = "scanning" /\ dispatcher.toScan = {}
    /\ dispatcher' = [dispatcher EXCEPT !.pc = "waiting"]
    /\ UNCHANGED <<table, queue, deliveryQueue, thread, worker, writer,
                   attempts, needCleanup, listener, arrivals>>

\* _stopDispatcher
StopDispatcher ==
    /\ dispatcher.pc = "waiting"
    /\ dispatcher' = [dispatcher EXCEPT !.pc = "stopped"]
    /\ UNCHANGED <<table, queue, deliveryQueue, thread, worker, writer,
                   attempts, needCleanup, listener, arrivals>>

\* _deliveryRoutine: the next indication, or the end of the thread, which
\* leaves the number of running threads one step later.
FetchIndication(t) ==
    /\ thread[t] = "fetching"
    /\ IF deliveryQueue = <<>>
       THEN /\ thread' = [thread EXCEPT ![t] = "ending"]
            /\ UNCHANGED deliveryQueue
       ELSE /\ thread' = [thread EXCEPT ![t] = Head(deliveryQueue)]
            /\ deliveryQueue' = Tail(deliveryQueue)
    /\ UNCHANGED <<table, queue, dispatcher, worker, writer, attempts,
                   needCleanup, listener, arrivals>>

DeliverIndication(t) ==
    LET d == thread[t]
    IN /\ d \in Destinations
       /\ \/ queue' = [queue EXCEPT ![d] = Delivered(@)]
          \/ queue' = [queue EXCEPT ![d] = NotDelivered(@)]
       /\ thread' = [thread EXCEPT ![t] = "fetching"]
       /\ UNCHANGED <<table, deliveryQueue, dispatcher, worker, writer,
                      attempts, needCleanup, listener, arrivals>>

EndThread(t) ==
    /\ thread[t] = "ending"
    /\ thread' = [thread EXCEPT ![t] = "off"]
    /\ UNCHANGED <<table, queue, deliveryQueue, dispatcher, worker, writer,
                   attempts, needCleanup, listener, arrivals>>

-----------------------------------------------------------------------------
(* The clock.                                                               *)

Later(n) == IF n < MaxAge THEN n + 1 ELSE n

Aged(s) ==
    [j \in DOMAIN s |-> [s[j] EXCEPT !.age = Later(@), !.idle = Later(@)]]

AgedQueue(q) ==
    [q EXCEPT !.waiting = Aged(@), !.handed = Aged(@), !.age = Later(@)]

\* Nobody has anything to do before the clock goes on.
Quiet ==
    /\ dispatcher.pc = "waiting" /\ deliveryQueue = <<>>
    /\ \A t \in DeliveryThreads : thread[t] = "off"
    /\ \A w \in Workers : worker[w].pc = "idle"
    /\ \A d \in table : queue[d].waiting # <<>> =>
           ~Due(queue[d].waiting[1]) /\ ~Expired(queue[d].waiting[1])

Tick ==
    /\ Prompt => Quiet
    /\ queue' = [d \in Destinations |->
                    IF d \in table THEN AgedQueue(queue[d]) ELSE queue[d]]
    /\ UNCHANGED <<table, deliveryQueue, thread, dispatcher, worker, writer,
                   attempts, needCleanup, listener, arrivals>>

-----------------------------------------------------------------------------
(* The specification.                                                       *)

Work(w) ==
    \/ Enqueue(w) \/ CreateAndEnqueue(w) \/ MarkForCleanup(w)
    \/ DeliverDirectly(w) \/ BeginSweep(w) \/ EndSweep(w)
    \/ \E d \in Destinations : SweepQueue(w, d)
    \/ DeleteMatchedIndications(w) \/ CloseQueue(w)

Request(w) ==
    \/ \E s \in Subscriptions : HandleIndication(w, s)
    \/ \E s \in Subscriptions : SubscriptionNotActive(w, s)
    \/ \E d \in Destinations : ListenerNotActive(w, d)
    \/ \E n \in RetryAttempts : SetRetryAttempts(w, n)
    \/ DeleteService(w)

Dispatch == BeginPass \/ EndPass \/ \E d \in Destinations : ScanQueue(d)

Deliver(t) == FetchIndication(t) \/ DeliverIndication(t) \/ EndThread(t)

Next ==
    \/ \E w \in Workers : Work(w) \/ Request(w)
    \/ Dispatch \/ StopDispatcher
    \/ \E t \in DeliveryThreads : Deliver(t)
    \/ Tick

Spec == Init /\ [][Next]_vars

\* The clock goes on, a lock that changes hands is got by everybody who waits
\* for it, the dispatcher makes its passes and the threads do their work.  The
\* dispatcher may stop, requests and results of deliveries are arbitrary.
Fairness ==
    /\ \A w \in Workers : SF_vars(Work(w))
    /\ SF_vars(Dispatch)
    /\ \A t \in DeliveryThreads : WF_vars(Deliver(t))

FairSpec == Spec /\ Fairness

-----------------------------------------------------------------------------
(* Properties.                                                              *)

TypeOK ==
    /\ table \subseteq Destinations
    /\ queue \in [Destinations -> DestinationQueue]
    /\ deliveryQueue \in Seq(Destinations)
    /\ thread \in [DeliveryThreads ->
                       Destinations \cup {"off", "fetching", "ending"}]
    /\ dispatcher \in [pc : {"waiting", "scanning", "stopped", "gone"},
                       toScan : SUBSET Destinations]
    /\ worker \in [Workers -> WorkerStates]
    /\ writer \in Workers \cup {NoOne}
    /\ attempts \in RetryAttempts
    /\ needCleanup \in BOOLEAN
    /\ listener \in [Destinations -> Nat]
    /\ arrivals \in Nat

\* The indications of a queue that are still to be delivered, oldest first.
Undelivered(q) == q.handed \o q.waiting

\* Every number that a queue gave to an indication belongs to one that was
\* delivered once, was dropped for one of the four reasons the queue counts
\* (getInfo), or is still to be delivered.
EveryIndicationAccounted ==
    \A d \in Destinations :
        LET q == queue[d]
        IN q.next = Cardinality(q.acked) + Len(Undelivered(q))
                    + q.full + q.expired + q.exceeded + q.unsubscribed

\* Indications are delivered in the order of their arrival: retries, expiry
\* and the deletion of subscriptions never let one overtake another.
DeliveredInOrder ==
    \A d \in Destinations :
        LET s == Undelivered(queue[d])
        IN /\ \A j, k \in 1..Len(s) : j < k => s[j].seq < s[k].seq
           /\ \A n \in queue[d].acked, j \in 1..Len(s) : n < s[j].seq

\* A queue holds no more than its limit, even when getSequenceNumber has just
\* lowered the limit or a failed delivery brings an indication back.
WithinLimit == \A d \in Destinations : Len(queue[d].waiting) <= queue[d].max

\* A queue of which an indication is handed out is in the table, and the
\* indication is in one place, in the delivery queue or with one thread: the
\* destructor of a queue and a second delivery both wait.
HandedOutOnce ==
    \A d \in Destinations :
        LET places == {j \in 1..Len(deliveryQueue) : deliveryQueue[j] = d}
            threads == {t \in DeliveryThreads : thread[t] = d}
        IN /\ Cardinality(places) + Cardinality(threads)
                  = Len(queue[d].handed)
           /\ queue[d].status = "pending" <=> queue[d].handed # <<>>
           /\ queue[d].handed # <<>> => d \in table /\ Len(queue[d].handed) = 1

\* No queue is missed by the clean-up when retries are switched off or the
\* service is deleted: while there are queues, the flag is set, or about to be
\* set, or the clean-up is under way.
QueuesAreSwept ==
    table # {} =>
        \/ needCleanup
        \/ \E w \in Workers : worker[w].pc \in {"marking", "sweeping"}

\* The table of queues does not change and no indication is handed out under
\* a worker that holds the lock of the table to clean up.
WriterAlone ==
    writer # NoOne =>
        /\ NoReader
        /\ \A w \in Workers :
               worker[w].pc \in {"sweeping", "dropping", "closing"}
                   <=> w = writer

\* An indication of d was handed out, but no thread is there to deliver it:
\* the dispatcher saw all threads running, but they had found nothing to do
\* and were about to end, or no thread could be started.
Stranded(d) ==
    /\ \E j \in 1..Len(deliveryQueue) : deliveryQueue[j] = d
    /\ \A t \in DeliveryThreads : thread[t] \in {"off", "ending"}

\* Every indication that is handed out is delivered, or fails, or is stranded.
PendingSettles ==
    \A d \in Destinations :
        queue[d].status = "pending" ~>
            queue[d].status # "pending" \/ Stranded(d)

\* Every request to the service returns, although clean-up waits for deliveries
\* with the table locked, unless a delivery is stranded.
RequestsReturn ==
    \A w \in Workers :
        worker[w].pc # "idle" ~>
            worker[w].pc = "idle" \/ \E d \in Destinations : Stranded(d)

\* With prompt threads an indication waits for less than two intervals more
\* than the retries take at the highest setting, and is never tried more than
\* once too often.
WaitsBounded ==
    Prompt => \A most \in RetryAttempts : \A d \in Destinations :
        (\A n \in RetryAttempts : n <= most) =>
            \A j \in 1..Len(Undelivered(queue[d])) :
                LET i == Undelivered(queue[d])[j]
                IN /\ i.age < RetryInterval * (most + 2)
                   /\ i.tries <= most

=============================================================================
