------------------------- MODULE EnumerationContexts -------------------------
(****************************************************************************)
(* Pull enumerations of the CIM server: the table of enumeration contexts   *)
(* (Server/EnumerationContextTable.cpp), the contexts themselves            *)
(* (Server/EnumerationContext.cpp) and the handlers of the operation        *)
(* dispatcher that use them (Server/CIMOperationRequestDispatcher.cpp).     *)
(*                                                                          *)
(* Four kinds of threads share a context: the threads that handle the       *)
(* requests of clients (open, pull, close), the chain of providers that     *)
(* delivers objects into the cache of the context, and the timeout thread   *)
(* of the table.  A step of the model is what a thread does between two     *)
(* lock operations.  The context lock is the field "lock"; the table lock   *)
(* is held across steps by the timeout thread only, while it scans.         *)
(****************************************************************************)
EXTENDS Integers, FiniteSets

CONSTANTS
    Contexts,         \* the context ids that can be handed out, each once
    Clients,          \* request threads, each with one request at a time
    NoOne,            \* no client, no context
    ChunkSizes,       \* objects in a provider response
    MaxObjects,       \* bound: objects the providers of a context deliver
    MaxObjectCounts,  \* maxObjectCount values of open and pull requests
    MaxCache,         \* PEGASUS_PULL_RESPONSE_CACHE_DEFAULT_MAX_SIZE
    MaxOpenContexts,  \* PEGASUS_MAX_OPEN_ENUMERATE_CONTEXTS
    MaxZeroPulls,     \* MAX_ZERO_PULL_OPERATIONS
    FinalCount,       \* PEGASUS_MAX_CONSECUTIVE_WAITS_BEFORE_ERR + 3
    RequestKinds,     \* the kinds of requests the clients send
    ChunkKinds        \* the kinds of responses the providers send

AllRequestKinds == {"open", "openQueryFails", "pull", "wrongPull", "close"}
AllChunkKinds == {"objects", "error", "mismatch"}

ASSUME DomainAssumption ==
    /\ NoOne \notin Clients \cup Contexts
    /\ Clients \cap {"free", "provider", "timer"} = {}
    /\ RequestKinds \subseteq AllRequestKinds
    /\ ChunkKinds \subseteq AllChunkKinds

ASSUME NumbersAssumption ==
    /\ ChunkSizes \subseteq Nat \ {0}
    /\ MaxObjectCounts \subseteq Nat
    /\ {MaxObjects, MaxCache, MaxOpenContexts, MaxZeroPulls} \subseteq Nat
    /\ FinalCount \in Nat \ {0}

VARIABLES
    table,    \* the contexts in the hash table
    en,       \* en[c]: the context c, with the thread of its providers
    client,   \* client[k]: the request thread of client k
    timer,    \* the timeout thread and its two lists
    running   \* _timeoutThreadRunningFlag

vars == <<table, en, client, timer, running>>

-----------------------------------------------------------------------------
(* State.                                                                   *)

\* "outcome", "sent" and "returned" record what the client and the providers
\* have seen: how the enumeration ended, the objects its providers delivered
\* and the objects it returned (_responseObjectsCount).
Chunks ==
    [size : ChunkSizes \cup {0}, final : BOOLEAN, kind : AllChunkKinds]

NoChunk == [size |-> 0, final |-> FALSE, kind |-> "objects"]

EnumerationContext ==
    [closed : BOOLEAN, complete : BOOLEAN, processing : BOOLEAN,
     error : BOOLEAN, timer : {"off", "armed", "expired"}, cache : Nat,
     saved : Clients \cup {NoOne}, want : Nat,
     zeroLen : Nat, zeroPulls : Nat,
     lock : Clients \cup {"free", "provider", "timer"},
     provider : {"none", "idle", "sending", "locked", "waiting", "asleep",
                 "done", "undefined"},
     chunk : Chunks,
     outcome : {"none", "open", "finished", "failed", "abandoned"},
     sent : Nat, returned : Nat]

NewContext(provider, outcome) ==
    [closed |-> FALSE, complete |-> FALSE, processing |-> TRUE,
     error |-> FALSE, timer |-> "off", cache |-> 0,
     saved |-> NoOne, want |-> 0, zeroLen |-> 0, zeroPulls |-> 0,
     lock |-> "free", provider |-> provider, chunk |-> NoChunk,
     outcome |-> outcome, sent |-> 0, returned |-> 0]

ClientThread ==
    [pc : {"idle", "found", "marked", "locked", "releasing", "saved",
           "dropped", "undefined"},
     ctx : Contexts \cup {NoOne},
     kind : AllRequestKinds \cup {"none"},
     count : Nat]

Idle == [pc |-> "idle", ctx |-> NoOne, kind |-> "none", count |-> 0]

TimerThread ==
    [pc : {"off", "waiting", "scan", "clean", "exiting"},
     toScan : SUBSET Contexts, toClean : SUBSET Contexts]

Init ==
    /\ table = {}
    /\ en = [c \in Contexts |-> NewContext("none", "none")]
    /\ client = [k \in Clients |-> Idle]
    /\ timer = [pc |-> "off", toScan |-> {}, toClean |-> {}]
    /\ running = FALSE

-----------------------------------------------------------------------------
(* Operations of a context, as functions of its state.                      *)

Least(a, b) == IF a <= b THEN a ELSE b

\* Variant: forgets to signal the condition.
SignalProviderNever(e) == e

\* Wakes the provider thread that sleeps in waitCacheSize.
SignalProvider(e) ==
    IF e.provider = "asleep" THEN [e EXCEPT !.provider = "waiting"] ELSE e

\* Drops the cache.  No signal once the providers are complete.
SetClientClosed(e, why) ==
    LET f == [e EXCEPT !.closed = TRUE, !.processing = FALSE, !.cache = 0,
                       !.outcome = IF @ = "open" THEN why ELSE @]
    IN  IF f.complete THEN f ELSE SignalProvider(f)

\* Variant: without the test for the providers' end.
TestCacheForResponsesNoEnd(e, count) == e.error \/ count = 0 \/ e.cache > 0

\* requireCompleteResponses is the static FALSE of the dispatcher.
TestCacheForResponses(e, count) ==
    \/ e.error
    \/ count = 0
    \/ e.cache > 0
    \/ e.complete

\* Variants: takes what was asked for, whatever the cache holds; returns
\* objects in spite of an error.
GetCacheUnbounded(e, count) ==
    IF e.error THEN e
    ELSE SignalProvider([e EXCEPT !.cache = @ - count, !.returned = @ + count])

GetCacheDespiteError(e, count) ==
    LET n == Least(count, e.cache)
    IN  SignalProvider([e EXCEPT !.cache = @ - n, !.returned = @ + n])

GetCache(e, count) ==
    LET n == Least(count, e.cache)
    IN  IF e.error THEN e
        ELSE SignalProvider([e EXCEPT !.cache = @ - n, !.returned = @ + n])

\* Variant: the end of the providers is the end of the sequence.
EndsEnumerationEarly(e) == e.complete \/ e.error

\* continueOnError is FALSE: the dispatcher rejects requests that set it.
EndsEnumeration(e) == (e.complete /\ e.cache = 0) \/ e.error

\* Variant: does not start the inter-operation timer.
SetNextEnumerationStateUntimed(e) ==
    IF EndsEnumeration(e)
    THEN SetClientClosed(e, IF e.error THEN "failed" ELSE "finished")
    ELSE [e EXCEPT !.processing = FALSE]

SetNextEnumerationState(e) ==
    IF EndsEnumeration(e)
    THEN SetClientClosed(e, IF e.error THEN "failed" ELSE "finished")
    ELSE [e EXCEPT !.processing = FALSE, !.timer = "armed"]

IssueImmediateResponse(e, count) ==
    SetNextEnumerationState(GetCache(e, count))

\* Variant: does not start the timer.
SetupDelayedResponseUntimed(e, k, count) ==
    [e EXCEPT !.saved = k, !.want = count]

\* The request of client k waits for the providers.
SetupDelayedResponse(e, k, count) ==
    [e EXCEPT !.saved = k, !.want = count, !.timer = "armed"]

\* The response restarts the inter-operation timer.
RestartsTimer(e, count) == ~EndsEnumeration(GetCache(e, count))

\* Variant: replaces the cached objects.
PutCacheReplaces(e) ==
    CASE e.chunk.kind = "mismatch" -> [e EXCEPT !.error = TRUE]
      [] e.chunk.kind # "mismatch" /\ e.closed -> e
      [] OTHER -> [e EXCEPT !.cache = e.chunk.size, !.complete = e.chunk.final]

PutCache(e) ==
    CASE e.chunk.kind = "mismatch" -> [e EXCEPT !.error = TRUE]
      [] e.chunk.kind # "mismatch" /\ e.closed -> e
      [] OTHER -> [e EXCEPT !.cache = @ + e.chunk.size,
                            !.complete = e.chunk.final]

\* What putCache returns.
PutCacheAccepts(e) ==
    IF e.chunk.kind = "mismatch" THEN e.closed ELSE ~e.closed

Unlocked(e) == [e EXCEPT !.lock = "free"]

-----------------------------------------------------------------------------
(* The table and its timeout thread.                                        *)

TableFree == timer.pc # "scan"

\* Variant: sets the flag and leaves the thread alone.
DispatchTimerThreadNever == running' = TRUE /\ UNCHANGED timer

DispatchTimerThread ==
    /\ running' = TRUE
    /\ timer' = IF running THEN timer ELSE [timer EXCEPT !.pc = "waiting"]

\* Variant: removes without the test.
TableAfterAlways(c, finished) == table \ {c}

\* releaseContext and _removeContext, for a context that may be finished.
TableAfter(c, finished) == IF finished THEN table \ {c} ELSE table

-----------------------------------------------------------------------------
(* Request threads.                                                         *)

\* createContext refuses once size() > _maxOpenContextsLimit.
ContextCreated(c) ==
    /\ TableFree
    /\ en[c].outcome = "none"
    /\ Cardinality(table) <= MaxOpenContexts
    /\ table' = table \cup {c}

\* The open handlers create the context, start the providers and go on to
\* answer the request.
OpenEnumeration(k, c) ==
    /\ "open" \in RequestKinds
    /\ client[k] = Idle
    /\ ContextCreated(c)
    /\ en' = [en EXCEPT ![c] = NewContext("idle", "open")]
    /\ \E count \in MaxObjectCounts :
          client' = [client EXCEPT ![k] = [pc |-> "marked", ctx |-> c,
                                           kind |-> "open", count |-> count]]
    /\ UNCHANGED <<timer, running>>

\* handleOpenQueryInstancesRequest when the query cannot be routed: the
\* request is answered with the exception and the context stays behind.
OpenQueryFails(k, c) ==
    /\ "openQueryFails" \in RequestKinds
    /\ client[k] = Idle
    /\ ContextCreated(c)
    /\ en' = [en EXCEPT ![c] = NewContext("none", "open")]
    /\ UNCHANGED <<client, timer, running>>

\* A client knows the context id once its open request is answered.
Known(c) ==
    /\ en[c].outcome # "none"
    /\ \A k \in Clients : client[k].kind = "open" => client[k].ctx # c

\* find() and the check that the context is not closed: no context lock.
FindContext(k, c) ==
    /\ client[k] = Idle
    /\ TableFree
    /\ Known(c)
    /\ c \in table
    /\ ~en[c].closed
    /\ \E kind \in RequestKinds \cap {"pull", "wrongPull", "close"},
          count \in MaxObjectCounts :
          client' = [client EXCEPT ![k] = [pc |-> "found", ctx |-> c,
                                           kind |-> kind, count |-> count]]
    /\ UNCHANGED <<table, en, timer, running>>

\* An unknown or closed context id, or a full table: the request is answered
\* with an error before anything changes.
RejectRequest ==
    /\ TableFree
    /\ UNCHANGED vars

\* The thread goes on with a context deleted since it was found.
UseReleasedContext(k) ==
    /\ client[k].pc \in {"found", "marked"}
    /\ client[k].ctx \notin table
    /\ client' = [client EXCEPT ![k].pc = "undefined"]
    /\ UNCHANGED <<table, en, timer, running>>

\* The thread is about to lock the context it found, and can.
AtContextLock(k, pc) ==
    /\ client[k].pc = pc
    /\ client[k].ctx \in table
    /\ en[client[k].ctx].lock = "free"

RejectWrongPull(k) ==
    LET c == client[k].ctx IN
    /\ AtContextLock(k, "found")
    /\ client[k].kind = "wrongPull"
    /\ en' = [en EXCEPT ![c] = SetClientClosed(@, "abandoned")]
    /\ client' = [client EXCEPT ![k] = Idle]
    /\ UNCHANGED <<table, timer, running>>

\* A close tests the timer before it tests for another operation, a pull
\* after it.
RejectBusy(k) ==
    LET e == en[client[k].ctx] IN
    /\ AtContextLock(k, "found")
    /\ client[k].kind \in {"pull", "close"}
    /\ e.processing
    /\ client[k].kind = "close" => e.timer # "expired"
    /\ client' = [client EXCEPT ![k] = Idle]
    /\ UNCHANGED <<table, en, timer, running>>

\* isTimedOut resets an expired timer.  The pull closes the context.
RejectTimedOutPull(k) ==
    LET c == client[k].ctx IN
    /\ AtContextLock(k, "found")
    /\ client[k].kind = "pull"
    /\ ~en[c].processing
    /\ en[c].timer = "expired"
    /\ en' = [en EXCEPT ![c] =
                 SetClientClosed([@ EXCEPT !.timer = "off"], "abandoned")]
    /\ client' = [client EXCEPT ![k] = Idle]
    /\ UNCHANGED <<table, timer, running>>

\* The close leaves the context as it is, but for the timer.
RejectTimedOutClose(k) ==
    LET c == client[k].ctx IN
    /\ AtContextLock(k, "found")
    /\ client[k].kind = "close"
    /\ en[c].timer = "expired"
    /\ en' = [en EXCEPT ![c].timer = "off"]
    /\ client' = [client EXCEPT ![k] = Idle]
    /\ UNCHANGED <<table, timer, running>>

\* Variant: does not test for another operation.
StartPullWhenBusy(k) ==
    LET c == client[k].ctx IN
    /\ AtContextLock(k, "found")
    /\ client[k].kind = "pull"
    /\ en[c].timer # "expired"
    /\ en' = [en EXCEPT ![c].processing = TRUE, ![c].timer = "off"]
    /\ client' = [client EXCEPT ![k].pc = "marked"]
    /\ UNCHANGED <<table, timer, running>>

\* setProcessingState(true), which stops the timer.
StartPull(k) ==
    LET c == client[k].ctx IN
    /\ AtContextLock(k, "found")
    /\ client[k].kind = "pull"
    /\ ~en[c].processing
    /\ en[c].timer # "expired"
    /\ en' = [en EXCEPT ![c].processing = TRUE, ![c].timer = "off"]
    /\ client' = [client EXCEPT ![k].pc = "marked"]
    /\ UNCHANGED <<table, timer, running>>

\* incAndTestPullCounters: too many pulls for no objects are an error.
CountPull(e, kind, count) ==
    LET zeroPulls == IF count = 0 THEN e.zeroPulls + 1 ELSE 0
    IN  IF kind # "pull" THEN e
        ELSE [e EXCEPT !.zeroPulls = zeroPulls,
                       !.error = @ \/ zeroPulls > MaxZeroPulls]

LockToIssue(k) ==
    LET c == client[k].ctx IN
    /\ AtContextLock(k, "marked")
    /\ en' = [en EXCEPT ![c] =
                 [CountPull(@, client[k].kind, client[k].count)
                     EXCEPT !.lock = k]]
    /\ client' = [client EXCEPT ![k].pc = "locked"]
    /\ UNCHANGED <<table, timer, running>>

\* The response goes out at once; a finished enumeration is released.
IssueResponse(k) ==
    LET c == client[k].ctx
        e == en[c]
        f == IssueImmediateResponse(e, client[k].count)
    IN
    /\ client[k].pc = "locked"
    /\ TableFree
    /\ TestCacheForResponses(e, client[k].count)
    /\ en' = [en EXCEPT ![c] = Unlocked(f)]
    /\ table' = TableAfter(c, f.closed /\ f.complete)
    /\ client' = [client EXCEPT ![k] = Idle]
    /\ IF RestartsTimer(e, client[k].count)
       THEN DispatchTimerThread ELSE UNCHANGED <<timer, running>>

\* Nothing to return yet.
DelayResponse(k) ==
    LET c == client[k].ctx IN
    /\ client[k].pc = "locked"
    /\ TableFree
    /\ ~TestCacheForResponses(en[c], client[k].count)
    /\ en' = [en EXCEPT ![c] =
                 Unlocked(SetupDelayedResponse(@, k, client[k].count))]
    /\ client' = [client EXCEPT ![k].pc = "saved"]
    /\ DispatchTimerThread
    /\ UNCHANGED table

\* The lock is kept for releaseContext when the providers are complete.
CloseEnumeration(k) ==
    LET c == client[k].ctx
        e == SetClientClosed([en[c] EXCEPT !.timer = "off"], "abandoned")
    IN
    /\ AtContextLock(k, "found")
    /\ client[k].kind = "close"
    /\ ~en[c].processing
    /\ en[c].timer # "expired"
    /\ en' = [en EXCEPT ![c] =
                 IF e.complete THEN [e EXCEPT !.lock = k] ELSE e]
    /\ client' = [client EXCEPT ![k] =
                     IF e.complete THEN [@ EXCEPT !.pc = "releasing"] ELSE Idle]
    /\ UNCHANGED <<table, timer, running>>

ReleaseClosed(k) ==
    LET c == client[k].ctx IN
    /\ client[k].pc = "releasing"
    /\ TableFree
    /\ en' = [en EXCEPT ![c] = Unlocked(@)]
    /\ table' = table \ {c}
    /\ client' = [client EXCEPT ![k] = Idle]
    /\ UNCHANGED <<timer, running>>

-----------------------------------------------------------------------------
(* The provider chain of a context: its responses are serialized by         *)
(* _enqueueResponseMutex, and only the last one is final.                   *)

\* A response without objects is the last one or the first with an error;
\* the bound MaxObjects ends the chain.
ProviderResponses(e) ==
    {chunk \in Chunks :
        /\ chunk.kind \in ChunkKinds
        /\ chunk.kind = "error" => chunk.size = 0
        /\ chunk.size = 0 => chunk.final \/ (chunk.kind = "error" /\ ~e.error)
        /\ e.sent + chunk.size <= MaxObjects}

\* The counter and the error are written before the context is locked.
ProviderResponds(c) ==
    LET e == en[c] IN
    /\ e.provider = "idle"
    /\ c \in table
    /\ \E chunk \in ProviderResponses(e) :
          en' = [en EXCEPT ![c] =
                    [e EXCEPT !.provider = "sending", !.chunk = chunk,
                              !.zeroLen = 0,
                              !.error = @ \/ chunk.kind = "error"]]
    /\ UNCHANGED <<table, client, timer, running>>

ProviderLocks(c) ==
    /\ en[c].provider = "sending"
    /\ c \in table
    /\ en[c].lock = "free"
    /\ en' = [en EXCEPT ![c].lock = "provider", ![c].provider = "locked"]
    /\ UNCHANGED <<table, client, timer, running>>

\* The providers go on with a context deleted since the request was sent.
ProviderUsesReleased(c) ==
    /\ en[c].provider \in {"idle", "sending", "waiting"}
    /\ c \notin table
    /\ en' = [en EXCEPT ![c].provider = "undefined"]
    /\ UNCHANGED <<table, client, timer, running>>

\* The context after the response is put into the cache and after the delayed
\* request, if there is one, is answered from it or deleted.
AfterPut(e) ==
    LET p == [PutCache(e) EXCEPT !.sent = @ + e.chunk.size]
    IN  IF p.saved = NoOne THEN p
        ELSE IF ~PutCacheAccepts(e) THEN [p EXCEPT !.saved = NoOne]
        ELSE IF TestCacheForResponses(p, p.want)
        THEN [IssueImmediateResponse(p, p.want)
                 EXCEPT !.saved = NoOne, !.want = 0]
        ELSE p

\* The delayed request is answered and the timer started again.
PutRestartsTimer(e) ==
    LET p == PutCache(e)
    IN  /\ p.saved # NoOne
        /\ PutCacheAccepts(e)
        /\ TestCacheForResponses(p, p.want)
        /\ RestartsTimer(p, p.want)

ProviderPuts(c) ==
    LET e == en[c]
        f == AfterPut(e)
        final == e.chunk.final
    IN
    /\ e.provider = "locked"
    /\ TableFree
    /\ en' = [en EXCEPT ![c] =
                 [f EXCEPT !.lock = "free",
                           !.chunk = NoChunk,
                           !.complete = @ \/ final,
                           !.provider = IF final THEN "done"
                                        ELSE IF f.closed THEN "idle"
                                        ELSE "waiting"]]
    /\ table' = TableAfter(c, f.closed /\ final)
    /\ client' = IF e.saved = NoOne \/ f.saved # NoOne THEN client
                 ELSE [client EXCEPT ![e.saved] =
                          IF PutCacheAccepts(e) THEN Idle
                          ELSE [@ EXCEPT !.pc = "dropped"]]
    /\ IF PutRestartsTimer(e)
       THEN DispatchTimerThread ELSE UNCHANGED <<timer, running>>

\* Variant: off by one.
CacheOverfullLate(e) == ~e.closed /\ e.cache > MaxCache + 1 /\ ~e.complete

CacheOverfull(e) == ~e.closed /\ e.cache > MaxCache /\ ~e.complete

\* One test of the loop in waitCacheSize, under the mutex of the condition.
ProviderWaits(c) ==
    /\ en[c].provider = "waiting"
    /\ c \in table
    /\ en' = [en EXCEPT ![c].provider =
                 IF CacheOverfull(en[c]) THEN "asleep" ELSE "idle"]
    /\ UNCHANGED <<table, client, timer, running>>

-----------------------------------------------------------------------------
(* The timeout thread.                                                      *)

TimePasses(c) ==
    /\ c \in table
    /\ en[c].timer = "armed"
    /\ en' = [en EXCEPT ![c].timer = "expired"]
    /\ UNCHANGED <<table, client, timer, running>>

TimerWakes ==
    /\ timer.pc = "waiting"
    /\ timer' = IF table = {} THEN [timer EXCEPT !.pc = "exiting"]
                ELSE [timer EXCEPT !.pc = "scan", !.toScan = table]
    /\ UNCHANGED <<table, en, client, running>>

\* Variant: waits for the lock instead of passing over.
ScanSkipsNot(c) ==
    /\ timer.pc = "scan"
    /\ c \in timer.toScan
    /\ en[c].timer # "expired" \/ en[c].lock # "free"
    /\ timer' = IF en[c].timer # "expired"
                THEN [timer EXCEPT !.toScan = @ \ {c}] ELSE timer
    /\ UNCHANGED <<table, en, client, running>>

\* A context whose lock is held is passed over until the next scan.
ScanSkips(c) ==
    /\ timer.pc = "scan"
    /\ c \in timer.toScan
    /\ en[c].timer # "expired" \/ en[c].lock # "free"
    /\ timer' = [timer EXCEPT !.toScan = @ \ {c}]
    /\ UNCHANGED <<table, en, client, running>>

\* tryLockContext succeeds and the timer has expired.
ScanFindsExpired(c) ==
    /\ timer.pc = "scan"
    /\ c \in timer.toScan
    /\ en[c].timer = "expired"
    /\ en[c].lock = "free"

\* A request waits for the providers: it is answered after the scan.
ScanExpiresRequest(c) ==
    /\ ScanFindsExpired(c)
    /\ en[c].processing
    /\ en' = [en EXCEPT ![c].timer = "off", ![c].lock = "timer"]
    /\ timer' = [timer EXCEPT !.toScan = @ \ {c}, !.toClean = @ \cup {c}]
    /\ UNCHANGED <<table, client, running>>

\* The inter-operation timeout closes the context; it is removed, or kept
\* locked for the clean-up when its providers are not complete.
ScanExpiresContext(c) ==
    LET e == SetClientClosed([en[c] EXCEPT !.timer = "off"], "abandoned") IN
    /\ ScanFindsExpired(c)
    /\ ~en[c].processing
    /\ en' = [en EXCEPT ![c] =
                 IF e.complete THEN e
                 ELSE SignalProvider([e EXCEPT !.lock = "timer"])]
    /\ table' = TableAfter(c, e.complete)
    /\ timer' = [timer EXCEPT !.toScan = @ \ {c},
                              !.toClean = IF e.complete THEN @ ELSE @ \cup {c}]
    /\ UNCHANGED <<client, running>>

ScanEnds ==
    /\ timer.pc = "scan"
    /\ timer.toScan = {}
    /\ timer' = [timer EXCEPT !.pc = "clean"]
    /\ UNCHANGED <<table, en, client, running>>

\* Too many timeouts in a row without a response of the providers.
GivesUp(e) == e.zeroLen + 1 >= FinalCount

AnswersDelayed(e) == ~e.closed /\ e.saved # NoOne

\* The context that _cleanActiveContext leaves: a delayed request is answered
\* without objects, or the timer of a closed context started again.
Cleaned(e) ==
    LET a == [e EXCEPT !.zeroLen = @ + 1, !.want = 0,
                       !.complete = @ \/ GivesUp(e), !.error = @ \/ GivesUp(e)]
        b == IF AnswersDelayed(e)
             THEN [IssueImmediateResponse(a, 0) EXCEPT !.saved = NoOne]
             ELSE IF a.closed /\ ~a.complete THEN [a EXCEPT !.timer = "armed"]
             ELSE a
    IN  Unlocked(IF GivesUp(e) THEN SetClientClosed(b, "failed") ELSE b)

\* The call to enumerationContextCleanup asks the provider manager for a final
\* error response: ProviderResponds covers it.
CleanContext(c) ==
    LET e == en[c] IN
    /\ timer.pc = "clean"
    /\ c \in timer.toClean
    /\ en' = [en EXCEPT ![c] = Cleaned(@)]
    /\ table' = TableAfter(c, GivesUp(e))
    /\ client' = IF AnswersDelayed(e)
                 THEN [client EXCEPT ![e.saved] = Idle] ELSE client
    /\ timer' = [timer EXCEPT !.toClean = @ \ {c}]
    /\ UNCHANGED running

TimerLoops ==
    /\ timer.pc = "clean"
    /\ timer.toClean = {}
    /\ timer' = [timer EXCEPT !.pc = IF table = {} THEN "exiting" ELSE "waiting"]
    /\ UNCHANGED <<table, en, client, running>>

\* The flag is reset after the last size(), with no lock held.
TimerExits ==
    /\ timer.pc = "exiting"
    /\ timer' = [timer EXCEPT !.pc = "off"]
    /\ running' = FALSE
    /\ UNCHANGED <<table, en, client>>

-----------------------------------------------------------------------------
(* Specification.                                                           *)

ClientBegins(k) ==
    \E c \in Contexts :
        OpenEnumeration(k, c) \/ OpenQueryFails(k, c) \/ FindContext(k, c)

ClientContinues(k) ==
    \/ UseReleasedContext(k)
    \/ RejectWrongPull(k)
    \/ RejectBusy(k)
    \/ RejectTimedOutPull(k)
    \/ RejectTimedOutClose(k)
    \/ StartPull(k)
    \/ LockToIssue(k)
    \/ IssueResponse(k)
    \/ DelayResponse(k)
    \/ CloseEnumeration(k)
    \/ ReleaseClosed(k)

\* The thread of a response, once the providers have responded.
ProviderContinues(c) ==
    \/ ProviderLocks(c)
    \/ ProviderPuts(c)
    \/ ProviderWaits(c)
    \/ ProviderUsesReleased(c)

TimerSteps ==
    \/ TimerWakes
    \/ ScanEnds
    \/ TimerLoops
    \/ TimerExits
    \/ \E c \in Contexts :
          \/ ScanSkips(c)
          \/ ScanExpiresRequest(c)
          \/ ScanExpiresContext(c)
          \/ CleanContext(c)

Next ==
    \/ RejectRequest
    \/ \E k \in Clients : ClientBegins(k) \/ ClientContinues(k)
    \/ \E c \in Contexts :
          ProviderResponds(c) \/ ProviderContinues(c) \/ TimePasses(c)
    \/ TimerSteps

Spec == Init /\ [][Next]_vars
-----------------------------------------------------------------------------
(* Fairness: a thread that waits for a lock gets it, since every holder     *)
(* gives it up and the timeout thread sleeps between its scans; and time    *)
(* passes.  Clients need not send another request.                          *)

ThreadFairness ==
    /\ \A k \in Clients : SF_vars(ClientContinues(k))
    /\ \A c \in Contexts : SF_vars(ProviderContinues(c))
    /\ \A c \in Contexts : WF_vars(TimePasses(c))
    /\ WF_vars(TimerSteps)

\* The providers of a context may stop responding for good.
FairSpec == Spec /\ ThreadFairness

-----------------------------------------------------------------------------
(* What clients see of the contexts.                                        *)

\* The enumeration that the context c stands for.
View(c) ==
    [status |-> en[c].outcome,
     busy |-> en[c].outcome = "open" /\ en[c].processing,
     produced |-> en[c].sent,
     done |-> en[c].provider = "done",
     returned |-> en[c].returned]

Promise == INSTANCE PullEnumerations WITH
    Enumerations <- Contexts,
    enumeration <- [c \in Contexts |-> View(c)]

-----------------------------------------------------------------------------
(* Properties.                                                              *)

\* Every variable has its type.
TypeOK ==
    /\ table \subseteq Contexts
    /\ en \in [Contexts -> EnumerationContext]
    /\ client \in [Clients -> ClientThread]
    /\ timer \in TimerThread
    /\ running \in BOOLEAN

\* The client works on the context: its request has been accepted and is not
\* answered yet.
Serves(k, c) ==
    client[k].ctx = c /\ client[k].pc \in {"marked", "locked", "saved"}

\* While an enumeration is open, at most one open or pull request is being
\* processed for it, and only while the context says so: the "processing"
\* test keeps a second pull or a close out until the response is issued, be
\* it at once, by the provider thread or by the timeout thread.
OneRequestAtATime ==
    \A c \in Contexts : en[c].outcome = "open" =>
        \A k \in Clients : Serves(k, c) =>
            /\ en[c].processing
            /\ \A j \in Clients : Serves(j, c) => j = k

\* While an enumeration is open and without error, each object its providers
\* have delivered was returned to the client or is in the cache: no response
\* to a delayed, a forced or an ordinary request loses one or returns it twice.
NothingLostWhileOpen ==
    \A c \in Contexts :
        en[c].outcome = "open" /\ ~en[c].error =>
            en[c].sent = en[c].returned + en[c].cache

\* An enumeration that ends with endOfSequence and no error has returned all
\* that its providers will ever deliver.
FinishedMeansAllReturned ==
    \A c \in Contexts : en[c].outcome = "finished" =>
        en[c].provider = "done" /\ en[c].returned = en[c].sent

\* The cache holds at most its limit and the one response that passed it:
\* no response is put while the provider thread has to wait.
CacheBounded ==
    \A c \in Contexts : \E last \in ChunkSizes \cup {0} :
        en[c].cache <= MaxCache + last

\* A request is delayed only while there is nothing to tell the client: the
\* cache is empty and the providers go on.
DelayedOnlyForProviders ==
    \A c \in Contexts : LET e == en[c] IN
        e.saved # NoOne /\ e.outcome = "open" =>
            /\ e.cache = 0 /\ ~e.complete /\ e.processing
            /\ Serves(e.saved, c)

\* A context is deleted only when its client side is closed, and before its
\* providers are done only if they were given up: FinalCount timeouts in a row.
ReleasedWhenOver ==
    \A c \in Contexts :
        en[c].outcome # "none" /\ c \notin table =>
            /\ en[c].closed /\ en[c].complete
            /\ en[c].provider = "done" \/ en[c].zeroLen >= FinalCount

\* While a request is delayed its timer runs, or the timeout thread holds the
\* context to answer it.  (A close that finds the timer expired resets it, so
\* this holds without close requests only.)
DelayedRequestWatched ==
    \A c \in Contexts :
        en[c].saved # NoOne /\ en[c].outcome = "open" =>
            en[c].timer # "off" \/ c \in timer.toClean

\* A delayed request of an open enumeration is answered, even if the providers
\* never respond again: by the next provider response or by the timeout.
DelayedRequestAnswered ==
    \A k \in Clients, c \in Contexts :
        (en[c].saved = k /\ en[c].outcome = "open") ~> client[k] = Idle

\* A provider thread that sleeps because the cache is full is woken: by pulls
\* that empty the cache, or when the client goes away by the timeout.
SleepingProviderWoken ==
    \A c \in Contexts :
        (en[c].provider = "asleep") ~> (en[c].provider # "asleep")

\* An enumeration that its client abandons does not stay open for good.
AbandonedIsClosed ==
    \A c \in Contexts :
        (en[c].outcome = "open" /\ ~en[c].processing)
            ~> (en[c].closed \/ en[c].processing)

\* A scan of the table ends: the timeout thread, which holds the table lock,
\* never waits for a context lock, whose holder may need the table lock.
ScanTerminates == (timer.pc = "scan") ~> (timer.pc # "scan")

\* Without pulls of the wrong type, contexts implement pull enumerations: each
\* ends once, abandoned only between two requests, finished only when all that
\* its providers delivered was returned, and no error comes with objects.
ImplementsPullEnumerations == Promise!Spec
=============================================================================
