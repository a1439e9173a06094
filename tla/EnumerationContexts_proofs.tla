---------------------- MODULE EnumerationContexts_proofs ----------------------
(****************************************************************************)
(* Proofs about EnumerationContexts.  The inductive invariant Inv relates   *)
(* the locks to the threads that hold them, and the flags of a context to   *)
(* how its enumeration stands.                                              *)
(****************************************************************************)
EXTENDS EnumerationContexts, TLAPS

-----------------------------------------------------------------------------
(* The inductive invariant.                                                 *)

\* How the flags, the cache and the history of a context e go together, where
\* "in" says that e is in the table.
ContextInv(e, in) ==
    /\ e.outcome = "none" => ~in /\ e.provider = "none"
    /\ e.outcome = "open" => in /\ ~e.closed
    /\ e.outcome # "open" => e.cache = 0
    /\ e.outcome \in {"finished", "failed", "abandoned"} => e.closed
    /\ in /\ e.complete => e.provider = "done"
    /\ e.provider = "locked" => e.lock = "provider"
    /\ e.lock # "free" => in
    /\ e.outcome = "open" /\ ~e.error => e.sent = e.returned + e.cache
    /\ e.outcome = "finished" => e.provider = "done" /\ e.returned = e.sent
    /\ e.outcome # "none" /\ ~in =>
          /\ e.closed /\ e.complete
          /\ e.provider = "done" \/ e.zeroLen >= FinalCount
    /\ e.provider \in {"idle", "sending", "locked"} => e.cache <= MaxCache
    /\ \E last \in ChunkSizes \cup {0} : e.cache <= MaxCache + last

ContextsInv == \A c \in Contexts : ContextInv(en[c], c \in table)

\* A request thread past a lock operation holds the lock of its context.
ClientHolds ==
    \A k \in Clients : client[k].pc \in {"locked", "releasing"} =>
        /\ client[k].ctx \in Contexts
        /\ en[client[k].ctx].lock = k
        /\ client[k].pc = "releasing" =>
              en[client[k].ctx].closed /\ en[client[k].ctx].complete

\* The timeout thread holds the locks of the contexts it cleans up; it cleans
\* up an open one only while a request is processed.
TimerHolds ==
    /\ \A c \in timer.toClean :
          /\ en[c].lock = "timer"
          /\ en[c].outcome = "open" => en[c].processing
    /\ timer.pc = "scan" => timer.toScan \subseteq table

\* Request threads work on contexts that have been created.
RequestsKnown ==
    \A k \in Clients :
        /\ client[k].kind \in RequestKinds \cup {"none"}
        /\ client[k].pc # "idle" =>
              /\ client[k].ctx \in Contexts
              /\ en[client[k].ctx].outcome # "none"

\* The client of a delayed request waits.
DelayedWaits ==
    \A c \in Contexts : en[c].saved # NoOne =>
        client[en[c].saved].pc = "saved" /\ client[en[c].saved].ctx = c

Inv ==
    /\ TypeOK
    /\ ContextsInv
    /\ ClientHolds
    /\ TimerHolds
    /\ RequestsKnown
    /\ DelayedWaits
    /\ OneRequestAtATime

\* The limits are natural numbers.
LEMMA Numbers ==
    /\ MaxCache \in Nat /\ FinalCount \in Nat
    /\ \A size \in ChunkSizes \cup {0} : size \in Nat
    /\ \A count \in MaxObjectCounts : count \in Nat
BY NumbersAssumption

\* No client is mistaken for another owner of a lock.
LEMMA Domains ==
    /\ NoOne \notin Clients /\ NoOne \notin Contexts
    /\ \A k \in Clients : k # "free" /\ k # "provider" /\ k # "timer"
BY DomainAssumption

\* The context that ProviderPuts leaves of e.
PutAndUnlocked(e) ==
    LET f == AfterPut(e)
        final == e.chunk.final
    IN  [f EXCEPT !.lock = "free",
                  !.chunk = NoChunk,
                  !.complete = @ \/ final,
                  !.provider = IF final THEN "done"
                               ELSE IF f.closed THEN "idle" ELSE "waiting"]

-----------------------------------------------------------------------------
(* What the operations of a context do.                                     *)

\* What issuing a response or closing the client side leaves alone.
Frame(e, f) ==
    /\ f \in EnumerationContext
    /\ f.lock = e.lock /\ f.saved = e.saved /\ f.sent = e.sent
    /\ f.error = e.error /\ f.complete = e.complete
    /\ f.zeroLen = e.zeroLen /\ f.chunk = e.chunk
    /\ f.provider = e.provider \/ (e.provider = "asleep" /\ f.provider = "waiting")

\* signalProviderWaitCondition changes nothing but the thread of the providers.
LEMMA SignalProviderEffect ==
    ASSUME NEW e \in EnumerationContext
    PROVE  LET f == SignalProvider(e) IN
           /\ Frame(e, f)
           /\ f.closed = e.closed /\ f.processing = e.processing
           /\ f.cache = e.cache /\ f.outcome = e.outcome
           /\ f.returned = e.returned
BY DEF SignalProvider, EnumerationContext, Frame

\* setClientClosed closes the client side and empties the cache.
LEMMA SetClientClosedEffect ==
    ASSUME NEW e \in EnumerationContext,
           NEW why \in {"finished", "failed", "abandoned"}
    PROVE  LET f == SetClientClosed(e, why) IN
           /\ Frame(e, f)
           /\ f.closed /\ ~f.processing /\ f.cache = 0
           /\ f.outcome = IF e.outcome = "open" THEN why ELSE e.outcome
           /\ f.returned = e.returned
<1> DEFINE o == IF e.outcome = "open" THEN why ELSE e.outcome
           g == [e EXCEPT !.closed = TRUE, !.processing = FALSE, !.cache = 0,
                       !.outcome = o]
<1>2. SetClientClosed(e, why) = IF g.complete THEN g ELSE SignalProvider(g)
  BY DEF SetClientClosed
<1>1. /\ Frame(e, g) /\ g \in EnumerationContext
      /\ g.closed /\ ~g.processing /\ g.cache = 0
      /\ g.outcome = IF e.outcome = "open" THEN why ELSE e.outcome
      /\ g.returned = e.returned
  <2>1. o \in {"none", "open", "finished", "failed", "abandoned"}
    BY DEF EnumerationContext
  <2>2. o = IF e.outcome = "open" THEN why ELSE e.outcome
    OBVIOUS
  <2> HIDE DEF o
  <2>3. g \in EnumerationContext
    BY <2>1 DEF EnumerationContext
  <2>4. /\ g.closed = TRUE /\ g.processing = FALSE /\ g.cache = 0
        /\ g.outcome = o
    BY DEF EnumerationContext
  <2>5. /\ g.lock = e.lock /\ g.saved = e.saved /\ g.sent = e.sent
        /\ g.error = e.error /\ g.complete = e.complete
        /\ g.zeroLen = e.zeroLen /\ g.chunk = e.chunk
        /\ g.provider = e.provider /\ g.returned = e.returned
    BY DEF EnumerationContext
  <2> HIDE DEF g
  <2> QED
    BY <2>2, <2>3, <2>4, <2>5 DEF Frame
<1> HIDE DEF g
<1> QED
  BY <1>1, <1>2, SignalProviderEffect DEF Frame

\* getCache moves objects from the cache to the client, none when there is an
\* error.
LEMMA GetCacheEffect ==
    ASSUME NEW e \in EnumerationContext, NEW count \in Nat
    PROVE  LET f == GetCache(e, count) IN
           /\ Frame(e, f)
           /\ f.closed = e.closed /\ f.processing = e.processing
           /\ f.outcome = e.outcome
           /\ e.error => f = e
           /\ f.cache <= e.cache
           /\ f.returned + f.cache = e.returned + e.cache
<1>1. PICK n \in 0 .. e.cache : n = Least(count, e.cache)
  BY DEF Least, EnumerationContext
<1> DEFINE g == [e EXCEPT !.cache = @ - n, !.returned = @ + n]
<1>2. /\ Frame(e, g) /\ g \in EnumerationContext
      /\ g.closed = e.closed /\ g.processing = e.processing
      /\ g.outcome = e.outcome
      /\ g.cache <= e.cache
      /\ g.returned + g.cache = e.returned + e.cache
  <2>1. e.cache - n \in Nat /\ e.returned + n \in Nat /\ e.cache \in Nat /\ e.returned \in Nat
    BY DEF EnumerationContext
  <2>2. g \in EnumerationContext
    BY <2>1 DEF EnumerationContext
  <2>3. g.cache = e.cache - n /\ g.returned = e.returned + n
    BY DEF EnumerationContext
  <2>4. g.cache <= e.cache /\ g.returned + g.cache = e.returned + e.cache
    BY <2>1, <2>3
  <2> QED
    BY <2>2, <2>4 DEF EnumerationContext, Frame
<1>3. GetCache(e, count) = IF e.error THEN e ELSE SignalProvider(g)
  BY <1>1 DEF GetCache
<1> HIDE DEF g
<1>4. CASE e.error
  <2>1. GetCache(e, count) = e
    BY <1>3, <1>4
  <2>2. Frame(e, e) /\ e.cache <= e.cache
    BY DEF Frame, EnumerationContext
  <2> QED
    BY <2>1, <2>2
<1>5. CASE ~e.error
  BY <1>2, <1>3, <1>5, SignalProviderEffect DEF Frame
<1> QED
  BY <1>4, <1>5

\* setNextEnumerationState ends the processing, and the enumeration when the
\* cache is empty after the providers' end, or there is an error.
LEMMA SetNextEnumerationStateEffect ==
    ASSUME NEW e \in EnumerationContext
    PROVE  LET f == SetNextEnumerationState(e) IN
           /\ Frame(e, f)
           /\ ~f.processing
           /\ f.returned = e.returned
           /\ IF EndsEnumeration(e)
              THEN /\ f.closed /\ f.cache = 0
                   /\ f.outcome = IF e.outcome # "open" THEN e.outcome
                                  ELSE IF e.error THEN "failed" ELSE "finished"
              ELSE /\ f.closed = e.closed /\ f.outcome = e.outcome
                   /\ f.cache = e.cache
<1>1. CASE EndsEnumeration(e)
  BY <1>1, SetClientClosedEffect DEF SetNextEnumerationState
<1>2. CASE ~EndsEnumeration(e)
  BY <1>2 DEF SetNextEnumerationState, EnumerationContext, Frame
<1> QED
  BY <1>1, <1>2

\* The context f that a response leaves of e.
Issued(e, f) ==
    /\ Frame(e, f)
    /\ ~f.processing
    /\ f.cache <= e.cache
    /\ e.error => f.returned = e.returned
    /\ \/ \* more may follow
          /\ ~e.error /\ f.closed = e.closed /\ f.outcome = e.outcome
          /\ f.returned + f.cache = e.returned + e.cache
       \/ \* the end
          /\ f.closed /\ f.cache = 0
          /\ f.outcome = IF e.outcome # "open" THEN e.outcome
                         ELSE IF e.error THEN "failed" ELSE "finished"
          /\ ~e.error => e.complete /\ f.returned = e.returned + e.cache

\* A response is issued as Issued says, whatever was asked for.
LEMMA IssueImmediateResponseEffect ==
    ASSUME NEW e \in EnumerationContext, NEW count \in Nat
    PROVE  Issued(e, IssueImmediateResponse(e, count))
<1> DEFINE g == GetCache(e, count)
           f == SetNextEnumerationState(g)
<1>1. /\ Frame(e, g) /\ g \in EnumerationContext
      /\ g.closed = e.closed /\ g.processing = e.processing
      /\ g.outcome = e.outcome
      /\ e.error => g = e
      /\ g.cache <= e.cache
      /\ g.returned + g.cache = e.returned + e.cache
  BY GetCacheEffect DEF Frame
<1> HIDE DEF g
<1>2. /\ Frame(g, f)
      /\ ~f.processing
      /\ f.returned = g.returned
      /\ IF EndsEnumeration(g)
              THEN /\ f.closed /\ f.cache = 0
                   /\ f.outcome = IF g.outcome # "open" THEN g.outcome
                                  ELSE IF g.error THEN "failed" ELSE "finished"
              ELSE /\ f.closed = g.closed /\ f.outcome = g.outcome
                   /\ f.cache = g.cache
  BY <1>1, SetNextEnumerationStateEffect
<1>3. f = IssueImmediateResponse(e, count)
  BY DEF IssueImmediateResponse, g
<1> HIDE DEF f
<1>4. e.cache \in Nat /\ g.cache \in Nat /\ e.returned \in Nat /\ g.returned \in Nat
      /\ e.error \in BOOLEAN /\ e.complete \in BOOLEAN
  BY <1>1 DEF EnumerationContext
<1>5. Frame(e, f)
  BY <1>1, <1>2 DEF Frame
<1>6. Issued(e, f)
  BY <1>1, <1>2, <1>4, <1>5 DEF Issued, Frame, EndsEnumeration
<1> QED
  BY <1>3, <1>6

\* The context with a response put into its cache.
Put(e) == [PutCache(e) EXCEPT !.sent = @ + e.chunk.size]

\* putCache adds the objects of a response, drops them when the client is
\* closed, or sets the error.
LEMMA PutEffect ==
    ASSUME NEW e \in EnumerationContext
    PROVE  LET p == Put(e) IN
           /\ p \in EnumerationContext
           /\ p.sent = e.sent + e.chunk.size
           /\ p.lock = e.lock /\ p.saved = e.saved /\ p.chunk = e.chunk
           /\ p.provider = e.provider /\ p.zeroLen = e.zeroLen
           /\ p.closed = e.closed /\ p.outcome = e.outcome
           /\ p.processing = e.processing /\ p.returned = e.returned
           /\ e.error => p.error
           /\ e.complete /\ e.closed => p.complete
           /\ p.complete => e.complete \/ e.chunk.final
           /\ e.chunk.kind # "mismatch" =>
                 IF e.closed THEN p.cache = e.cache
                 ELSE p.cache = e.cache + e.chunk.size
           /\ e.chunk.kind = "mismatch" => p.cache = e.cache /\ p.error
<1>1. e.chunk \in Chunks /\ e.chunk.size \in Nat /\ e.chunk.final \in BOOLEAN
  <2>1. e.chunk \in Chunks
    BY DEF EnumerationContext
  <2>2. e.chunk.size \in ChunkSizes \cup {0} /\ e.chunk.final \in BOOLEAN
    BY <2>1 DEF Chunks
  <2>3. e.chunk.size \in Nat
    BY <2>2, Numbers
  <2> QED
    BY <2>1, <2>2, <2>3
<1>2. e.sent \in Nat /\ e.cache \in Nat
  BY DEF EnumerationContext
<1>3. e.sent + e.chunk.size \in Nat /\ e.cache + e.chunk.size \in Nat
  BY <1>1, <1>2
<1>4. CASE e.chunk.kind = "mismatch"
  BY <1>1, <1>2, <1>3, <1>4 DEF Put, PutCache, EnumerationContext
<1>5. CASE e.chunk.kind # "mismatch" /\ e.closed
  BY <1>1, <1>2, <1>3, <1>5 DEF Put, PutCache, EnumerationContext
<1>6. CASE e.chunk.kind # "mismatch" /\ ~e.closed
  BY <1>1, <1>2, <1>3, <1>6 DEF Put, PutCache, EnumerationContext
<1> QED
  BY <1>4, <1>5, <1>6

\* f is e, but for a request it no longer remembers.
SameButSaved(e, f) ==
    /\ f \in EnumerationContext
    /\ f.lock = e.lock /\ f.sent = e.sent
    /\ f.error = e.error /\ f.complete = e.complete
    /\ f.zeroLen = e.zeroLen /\ f.chunk = e.chunk
    /\ f.provider = e.provider /\ f.outcome = e.outcome
    /\ f.closed = e.closed /\ f.processing = e.processing
    /\ f.cache = e.cache /\ f.returned = e.returned

\* The delayed request, if there is one, stays, is deleted or is answered.
LEMMA AfterPutEffect ==
    ASSUME NEW e \in EnumerationContext
    PROVE  LET p == Put(e)
               f == AfterPut(e)
           IN  \/ f = p /\ (e.saved = NoOne \/ PutCacheAccepts(e))
               \/ /\ e.saved # NoOne /\ ~PutCacheAccepts(e)
                  /\ SameButSaved(p, f) /\ f.saved = NoOne
               \/ /\ e.saved # NoOne /\ PutCacheAccepts(e)
                  /\ f.saved = NoOne
                  /\ \E g \in EnumerationContext :
                        Issued(p, g) /\ SameButSaved(g, f)
<1> DEFINE p == Put(e)
<1>1. p \in EnumerationContext /\ p.saved = e.saved /\ p.want \in Nat
  BY PutEffect DEF EnumerationContext
<1>2. AfterPut(e) =
        IF p.saved = NoOne THEN p
        ELSE IF ~PutCacheAccepts(e) THEN [p EXCEPT !.saved = NoOne]
        ELSE IF TestCacheForResponses(p, p.want)
        THEN [IssueImmediateResponse(p, p.want)
                 EXCEPT !.saved = NoOne, !.want = 0]
        ELSE p
  BY DEF AfterPut, Put
<1> HIDE DEF p
<1>3. SameButSaved(p, [p EXCEPT !.saved = NoOne])
      /\ [p EXCEPT !.saved = NoOne].saved = NoOne
  BY <1>1 DEF SameButSaved, EnumerationContext
<1> DEFINE g == IssueImmediateResponse(p, p.want)
           f == [g EXCEPT !.saved = NoOne, !.want = 0]
<1>4. Issued(p, g) /\ g \in EnumerationContext
  BY <1>1, IssueImmediateResponseEffect DEF Issued, Frame
<1> HIDE DEF g
<1>5. SameButSaved(g, f) /\ f.saved = NoOne
  BY <1>4 DEF SameButSaved, EnumerationContext
<1> HIDE DEF f
<1>6. AfterPut(e) =
        IF p.saved = NoOne THEN p
        ELSE IF ~PutCacheAccepts(e) THEN [p EXCEPT !.saved = NoOne]
        ELSE IF TestCacheForResponses(p, p.want) THEN f ELSE p
  BY <1>2 DEF f, g
<1>7. CASE e.saved = NoOne
  BY <1>1, <1>6, <1>7 DEF p
<1>8. CASE e.saved # NoOne /\ ~PutCacheAccepts(e)
  BY <1>1, <1>3, <1>6, <1>8 DEF p
<1>9. CASE e.saved # NoOne /\ PutCacheAccepts(e)
  BY <1>1, <1>4, <1>5, <1>6, <1>9 DEF p
<1> QED
  BY <1>7, <1>8, <1>9

-----------------------------------------------------------------------------
(* What the operations keep of ContextInv.                                  *)

\* Closing the client side for a failure or a timeout, or by the client.
LEMMA ClosingKeeps ==
    ASSUME NEW e \in EnumerationContext, NEW in \in BOOLEAN,
           NEW why \in {"failed", "abandoned"},
           ContextInv(e, in), e.outcome # "none"
    PROVE  ContextInv(SetClientClosed(e, why), in)
<1> DEFINE f == SetClientClosed(e, why)
<1>1. /\ Frame(e, f)
      /\ f.closed /\ ~f.processing /\ f.cache = 0
      /\ f.outcome = IF e.outcome = "open" THEN why ELSE e.outcome
      /\ f.returned = e.returned
  BY SetClientClosedEffect
<1> HIDE DEF f
<1>2. f.cache <= MaxCache + 0
  BY <1>1, Numbers
<1>3. \E last \in ChunkSizes \cup {0} : f.cache <= MaxCache + last
  BY <1>2
<1>4. ContextInv(f, in)
  BY <1>1, <1>3, Numbers DEF ContextInv, Frame, EnumerationContext
<1> QED
  BY <1>4 DEF f

\* Issuing a response.
LEMMA IssuedKeeps ==
    ASSUME NEW e \in EnumerationContext, NEW f, ContextInv(e, TRUE), Issued(e, f)
    PROVE  ContextInv(f, TRUE)
<1>1. /\ e.cache \in Nat /\ e.sent \in Nat /\ e.returned \in Nat
      /\ e.error \in BOOLEAN /\ e.complete \in BOOLEAN
      /\ f.cache \in Nat /\ f.returned \in Nat /\ f.cache <= e.cache
  BY DEF EnumerationContext, Issued, Frame
<1>2. \E last \in ChunkSizes \cup {0} : f.cache <= MaxCache + last
  <2>1. PICK last \in ChunkSizes \cup {0} : e.cache <= MaxCache + last
    BY DEF ContextInv
  <2>2. f.cache <= MaxCache + last
    BY <1>1, <2>1, Numbers
  <2> QED
    BY <2>1, <2>2
<1>3. f.provider \in {"idle", "sending", "locked"} => f.cache <= MaxCache
  BY <1>1, Numbers DEF ContextInv, Issued, Frame
<1> QED
  BY <1>1, <1>2, <1>3 DEF ContextInv, Issued, Frame

\* Giving up the lock, and with it a context that is over.
LEMMA UnlockedKeeps ==
    ASSUME NEW e \in EnumerationContext, NEW in \in BOOLEAN,
           ContextInv(e, in), e.provider # "locked"
    PROVE  /\ Unlocked(e) \in EnumerationContext
           /\ ContextInv(Unlocked(e), in)
           /\ in /\ e.closed /\ e.complete => ContextInv(Unlocked(e), FALSE)
BY DEF ContextInv, Unlocked, EnumerationContext

\* A change of nothing but timer, lock, saved request and counters.
LEMMA LesserChangeKeeps ==
    ASSUME NEW e, NEW f, NEW in \in BOOLEAN, ContextInv(e, in),
           f.closed = e.closed, f.complete = e.complete, f.cache = e.cache,
           f.outcome = e.outcome, f.sent = e.sent, f.returned = e.returned,
           f.provider = e.provider, e.error => f.error,
           in \/ f.zeroLen = e.zeroLen,
           f.provider = "locked" => f.lock = "provider",
           f.lock # "free" => in
    PROVE  ContextInv(f, in)
BY DEF ContextInv

\* The thread of the providers goes on after a response.
LEMMA GoesOnType ==
    ASSUME NEW f \in EnumerationContext, NEW n \in Chunks, NEW b \in BOOLEAN,
           NEW p \in {"done", "idle", "waiting"}
    PROVE  [f EXCEPT !.lock = "free", !.chunk = n, !.complete = b,
                     !.provider = p] \in EnumerationContext
<1> DEFINE h == [f EXCEPT !.chunk = n, !.complete = b]
<1>1. h \in EnumerationContext
  BY DEF EnumerationContext
<1>2. [f EXCEPT !.lock = "free", !.chunk = n, !.complete = b, !.provider = p]
          = [h EXCEPT !.lock = "free", !.provider = p]
  BY DEF EnumerationContext
<1> HIDE DEF h
<1>3. [h EXCEPT !.lock = "free", !.provider = p] \in EnumerationContext
  <2>1. [h EXCEPT !.lock = "free"] \in EnumerationContext
    BY <1>1 DEF EnumerationContext
  <2>2. \A l \in EnumerationContext :
            [l EXCEPT !.provider = p] \in EnumerationContext
    BY DEF EnumerationContext
  <2>3. [h EXCEPT !.lock = "free", !.provider = p]
            = [[h EXCEPT !.lock = "free"] EXCEPT !.provider = p]
    BY <1>1 DEF EnumerationContext
  <2> QED
    BY <2>1, <2>2, <2>3
<1> QED
  BY <1>2, <1>3

\* What a provider thread does while it holds the lock.
LEMMA PutKeeps ==
    ASSUME NEW e \in EnumerationContext, ContextInv(e, TRUE),
           e.provider = "locked"
    PROVE  LET f == AfterPut(e)
               g == PutAndUnlocked(e)
           IN  /\ g \in EnumerationContext
               /\ ContextInv(g, ~(f.closed /\ e.chunk.final))
<1> DEFINE p == Put(e)
           f == AfterPut(e)
           g == PutAndUnlocked(e)
           last == e.chunk.size
<1>1. /\ e.chunk \in Chunks /\ last \in ChunkSizes \cup {0}
      /\ last \in Nat /\ e.chunk.final \in BOOLEAN
  <2>1. e.chunk \in Chunks
    BY DEF EnumerationContext
  <2>2. last \in ChunkSizes \cup {0} /\ e.chunk.final \in BOOLEAN
    BY <2>1 DEF Chunks
  <2> QED
    BY <2>1, <2>2, Numbers
<1>2. /\ e.outcome # "none" /\ ~e.complete /\ e.outcome # "finished"
      /\ e.outcome # "open" => e.closed /\ e.cache = 0
      /\ e.outcome = "open" => ~e.closed
      /\ e.cache <= MaxCache
      /\ e.outcome = "open" /\ ~e.error => e.sent = e.returned + e.cache
      /\ e.cache \in Nat /\ e.sent \in Nat /\ e.returned \in Nat
      /\ e.outcome \in {"none", "open", "finished", "failed", "abandoned"}
      /\ {e.error, e.complete, e.closed} \subseteq BOOLEAN
  BY DEF ContextInv, EnumerationContext
<1>3. /\ p \in EnumerationContext
      /\ p.sent = e.sent + last
      /\ p.provider = "locked" /\ p.closed = e.closed /\ p.outcome = e.outcome
      /\ p.returned = e.returned /\ p.zeroLen = e.zeroLen
      /\ e.error => p.error
      /\ p.complete => e.chunk.final
      /\ p.outcome = "open" /\ ~p.error => p.sent = p.returned + p.cache
      /\ p.outcome # "open" => p.cache = 0
      /\ p.cache <= MaxCache + last
      /\ p.cache \in Nat /\ p.sent \in Nat /\ p.returned \in Nat
      /\ {p.error, p.complete, p.closed} \subseteq BOOLEAN
  <2>1. /\ p \in EnumerationContext
        /\ p.sent = e.sent + last
        /\ p.provider = e.provider /\ p.zeroLen = e.zeroLen
        /\ p.closed = e.closed /\ p.outcome = e.outcome
        /\ p.returned = e.returned
        /\ e.error => p.error
        /\ p.complete => e.complete \/ e.chunk.final
        /\ e.chunk.kind # "mismatch" =>
              IF e.closed THEN p.cache = e.cache ELSE p.cache = e.cache + last
        /\ e.chunk.kind = "mismatch" => p.cache = e.cache /\ p.error
    BY PutEffect
  <2> HIDE DEF p, last
  <2>2. /\ p.cache \in Nat /\ p.sent \in Nat /\ p.returned \in Nat
        /\ {p.error, p.complete, p.closed} \subseteq BOOLEAN
    BY <2>1 DEF EnumerationContext
  <2> QED
    BY <1>1, <1>2, <2>1, <2>2, Numbers
<1>4. \/ f = p
      \/ SameButSaved(p, f)
      \/ \E h \in EnumerationContext : Issued(p, h) /\ SameButSaved(h, f)
  BY AfterPutEffect
<1> HIDE DEF p, f, last
\* What holds of the context whether a delayed request was answered or not.
<1>5. /\ f \in EnumerationContext
      /\ f.sent = p.sent /\ f.provider = "locked"
      /\ f.outcome # "none"
      /\ f.complete => e.chunk.final
      /\ f.outcome = "open" => ~f.closed
      /\ f.outcome # "open" => f.closed /\ f.cache = 0
      /\ f.outcome = "open" /\ ~f.error => f.sent = f.returned + f.cache
      /\ f.outcome = "finished" => e.chunk.final /\ f.returned = f.sent
      /\ f.cache <= MaxCache + last
  <2>1. CASE f = p \/ SameButSaved(p, f)
    BY <1>2, <1>3, <2>1 DEF SameButSaved
  <2>2. CASE \E h \in EnumerationContext : Issued(p, h) /\ SameButSaved(h, f)
    <3>1. PICK h \in EnumerationContext : Issued(p, h) /\ SameButSaved(h, f)
      BY <2>2
    <3>2. h.cache \in Nat /\ h.returned \in Nat /\ h.cache <= MaxCache + last
      BY <1>1, <1>3, <3>1, Numbers DEF EnumerationContext, Issued
    <3> QED
      BY <1>2, <1>3, <3>1, <3>2 DEF Issued, Frame, SameButSaved
  <2> QED
    BY <1>4, <2>1, <2>2
<1>6. g = [f EXCEPT !.lock = "free", !.chunk = NoChunk,
                    !.complete = @ \/ e.chunk.final,
                    !.provider = IF e.chunk.final THEN "done"
                                 ELSE IF f.closed THEN "idle" ELSE "waiting"]
  BY DEF PutAndUnlocked, f
<1> HIDE DEF g
<1>7. NoChunk \in Chunks
  BY DEF NoChunk, Chunks, AllChunkKinds
<1>8. /\ g \in EnumerationContext
      /\ g.lock = "free" /\ g.sent = f.sent /\ g.returned = f.returned
      /\ g.cache = f.cache /\ g.error = f.error /\ g.closed = f.closed
      /\ g.outcome = f.outcome /\ g.zeroLen = f.zeroLen
      /\ g.complete = (f.complete \/ e.chunk.final)
      /\ g.provider = IF e.chunk.final THEN "done"
                      ELSE IF f.closed THEN "idle" ELSE "waiting"
  <2> DEFINE new == f.complete \/ e.chunk.final
             goesOn == IF e.chunk.final THEN "done"
                       ELSE IF f.closed THEN "idle" ELSE "waiting"
  <2>1. goesOn \in {"done", "idle", "waiting"}
    OBVIOUS
  <2>2. new \in BOOLEAN
    OBVIOUS
  <2>3. g = [f EXCEPT !.lock = "free", !.chunk = NoChunk, !.complete = new,
                      !.provider = goesOn]
    BY <1>6, Zenon
  <2> HIDE DEF new, goesOn
  <2>4. g \in EnumerationContext
    BY <1>5, <1>7, <2>1, <2>2, <2>3, GoesOnType, Zenon
  <2>5. /\ g.lock = "free" /\ g.complete = new /\ g.provider = goesOn
        /\ g.sent = f.sent /\ g.returned = f.returned
        /\ g.cache = f.cache /\ g.error = f.error /\ g.closed = f.closed
        /\ g.outcome = f.outcome /\ g.zeroLen = f.zeroLen
    BY <1>5, <2>3 DEF EnumerationContext
  <2> QED
    BY <2>4, <2>5, Zenon DEF new, goesOn
<1>9. ContextInv(g, ~(f.closed /\ e.chunk.final))
  BY <1>1, <1>5, <1>8, Numbers DEF ContextInv
<1> QED
  BY <1>8, <1>9 DEF f, g

\* The timeout thread counts a timeout, and an error when it is the last one.
LEMMA CountedEffect ==
    ASSUME NEW e \in EnumerationContext
    PROVE  LET a == [e EXCEPT !.zeroLen = @ + 1, !.want = 0,
                              !.complete = @ \/ GivesUp(e),
                              !.error = @ \/ GivesUp(e)]
           IN /\ a \in EnumerationContext
              /\ a.zeroLen = e.zeroLen + 1
              /\ a.complete = (e.complete \/ GivesUp(e))
              /\ a.error = (e.error \/ GivesUp(e))
              /\ a.closed = e.closed /\ a.processing = e.processing
              /\ a.saved = e.saved /\ a.provider = e.provider
              /\ a.lock = e.lock /\ a.outcome = e.outcome
              /\ a.cache = e.cache /\ a.sent = e.sent
              /\ a.returned = e.returned
<1> DEFINE x == e.zeroLen + 1
           y == e.complete \/ GivesUp(e)
           z == e.error \/ GivesUp(e)
           a == [e EXCEPT !.zeroLen = x, !.want = 0, !.complete = y, !.error = z]
<1>1. x \in Nat /\ y \in BOOLEAN /\ z \in BOOLEAN
  BY DEF EnumerationContext
<1> HIDE DEF x, y, z
<1>2. a \in EnumerationContext
  BY <1>1 DEF EnumerationContext
<1>3. a.zeroLen = x /\ a.complete = y /\ a.error = z
  BY DEF EnumerationContext
<1>4. /\ a.closed = e.closed /\ a.processing = e.processing
      /\ a.saved = e.saved /\ a.provider = e.provider
      /\ a.lock = e.lock /\ a.outcome = e.outcome
      /\ a.cache = e.cache /\ a.sent = e.sent
      /\ a.returned = e.returned
  BY DEF EnumerationContext
<1> QED
  BY <1>2, <1>3, <1>4, Zenon DEF x, y, z

\* What the timeout thread does while it holds the lock.
LEMMA CleanedKeeps ==
    ASSUME NEW e \in EnumerationContext, ContextInv(e, TRUE), e.lock = "timer"
    PROVE  /\ Cleaned(e) \in EnumerationContext
           /\ ContextInv(Cleaned(e), ~GivesUp(e))
           /\ Cleaned(e).lock = "free"
           /\ Cleaned(e).saved = IF AnswersDelayed(e) THEN NoOne ELSE e.saved
           /\ Cleaned(e).outcome # "none"
<1> DEFINE a == [e EXCEPT !.zeroLen = @ + 1, !.want = 0,
                          !.complete = @ \/ GivesUp(e),
                          !.error = @ \/ GivesUp(e)]
           i == IssueImmediateResponse(a, 0)
           b == IF AnswersDelayed(e) THEN [i EXCEPT !.saved = NoOne]
                ELSE IF a.closed /\ ~a.complete THEN [a EXCEPT !.timer = "armed"]
                ELSE a
           d == IF GivesUp(e) THEN SetClientClosed(b, "failed") ELSE b
<1>1. /\ a \in EnumerationContext
      /\ a.zeroLen = e.zeroLen + 1 /\ a.complete = (e.complete \/ GivesUp(e))
      /\ a.error = (e.error \/ GivesUp(e)) /\ a.closed = e.closed
      /\ a.saved = e.saved /\ a.provider = e.provider /\ a.lock = e.lock
      /\ a.outcome = e.outcome /\ a.cache = e.cache /\ a.sent = e.sent
      /\ a.returned = e.returned
  BY CountedEffect
<1>2. Cleaned(e) = Unlocked(d)
  BY DEF Cleaned
<1> HIDE DEF a
<1>3. Issued(a, i) /\ i \in EnumerationContext
  BY <1>1, IssueImmediateResponseEffect DEF Issued, Frame
<1>4. e.provider # "locked" /\ e.outcome # "none"
  BY DEF ContextInv
<1> HIDE DEF i
\* An answer comes without objects, before the lock is given up.
<1>5. /\ b \in EnumerationContext /\ b.lock = "timer"
      /\ b.provider # "locked" /\ b.outcome # "none"
      /\ b.saved = IF AnswersDelayed(e) THEN NoOne ELSE e.saved
      /\ b.complete = a.complete /\ b.zeroLen = a.zeroLen /\ b.sent = a.sent
  <2>1. CASE AnswersDelayed(e)
    BY <1>1, <1>3, <1>4, <2>1 DEF Issued, Frame, EnumerationContext
  <2>2. CASE ~AnswersDelayed(e)
    BY <1>1, <1>4, <2>2 DEF EnumerationContext
  <2> QED
    BY <2>1, <2>2
<1>6. CASE ~GivesUp(e)
  <2>1. ContextInv(a, TRUE)
    BY <1>1, <1>4, <1>6, LesserChangeKeeps DEF EnumerationContext
  <2>2. ContextInv(i, TRUE)
    BY <1>1, <1>3, <2>1, IssuedKeeps
  <2>3. ContextInv(b, TRUE)
    <3>1. CASE AnswersDelayed(e)
      BY <1>3, <2>2, <3>1 DEF ContextInv, EnumerationContext
    <3>2. CASE ~AnswersDelayed(e)
      BY <1>1, <2>1, <3>2 DEF ContextInv, EnumerationContext
    <3> QED
      BY <3>1, <3>2
  <2>4. d = b
    BY <1>6
  <2> HIDE DEF b, d
  <2>5. ContextInv(Cleaned(e), TRUE)
    BY <1>2, <1>5, <2>3, <2>4, UnlockedKeeps
  <2>6. (~GivesUp(e)) = TRUE
    BY <1>6
  <2>7. Cleaned(e) = [b EXCEPT !.lock = "free"]
    BY <1>2, <2>4 DEF Unlocked
  <2>8. Cleaned(e) \in EnumerationContext
    BY <1>5, <2>7 DEF EnumerationContext
  <2>9. /\ Cleaned(e).lock = "free" /\ Cleaned(e).saved = b.saved
        /\ Cleaned(e).outcome = b.outcome
    BY <1>5, <2>7 DEF EnumerationContext
  <2> QED
    BY <1>5, <2>5, <2>6, <2>8, <2>9, Zenon
<1>7. CASE GivesUp(e)
  <2>1. b.outcome = "finished" => b.provider = "done" /\ b.returned = b.sent
    <3>1. CASE AnswersDelayed(e)
      BY <1>1, <1>3, <1>7, <3>1 DEF Issued, Frame, ContextInv, AnswersDelayed, EnumerationContext
    <3>2. CASE ~AnswersDelayed(e)
      BY <1>1, <3>2 DEF ContextInv, EnumerationContext
    <3> QED
      BY <3>1, <3>2
  <2> HIDE DEF b
  <2>2. /\ Frame(b, d) /\ d.closed /\ d.cache = 0
        /\ d.outcome = IF b.outcome = "open" THEN "failed" ELSE b.outcome
        /\ d.returned = b.returned
    BY <1>5, <1>7, SetClientClosedEffect
  <2> HIDE DEF d
  <2>3. /\ Unlocked(d) \in EnumerationContext
        /\ Unlocked(d).lock = "free" /\ Unlocked(d).saved = d.saved
        /\ Unlocked(d).outcome = d.outcome /\ Unlocked(d).closed
        /\ Unlocked(d).complete = d.complete /\ Unlocked(d).cache = 0
        /\ Unlocked(d).provider = d.provider
        /\ Unlocked(d).zeroLen = d.zeroLen
        /\ Unlocked(d).sent = d.sent /\ Unlocked(d).returned = d.returned
    BY <2>2 DEF Unlocked, EnumerationContext, Frame
  <2>4. d.complete /\ d.zeroLen >= FinalCount
    BY <1>1, <1>5, <1>7, <2>2 DEF Frame, GivesUp
  <2>5. 0 <= MaxCache + 0
    BY Numbers
  <2>6. ContextInv(Unlocked(d), FALSE)
    BY <1>4, <1>5, <2>1, <2>2, <2>3, <2>4, <2>5, Numbers
    DEF ContextInv, Frame, EnumerationContext
  <2>7. (~GivesUp(e)) = FALSE
    BY <1>7
  <2> QED
    BY <1>2, <1>5, <2>2, <2>3, <2>6, <2>7 DEF Frame
<1> QED
  BY <1>6, <1>7

\* Cleaning up opens no context, and answers a delayed request or leaves the
\* processing of an open one alone.
LEMMA CleanedOutcome ==
    ASSUME NEW e \in EnumerationContext
    PROVE  LET f == Cleaned(e) IN
           /\ f.outcome = "open" => e.outcome = "open"
           /\ ~AnswersDelayed(e) /\ f.outcome = "open" =>
                 f.processing = e.processing
<1> DEFINE a == [e EXCEPT !.zeroLen = @ + 1, !.want = 0,
                          !.complete = @ \/ GivesUp(e),
                          !.error = @ \/ GivesUp(e)]
           i == IssueImmediateResponse(a, 0)
           b == IF AnswersDelayed(e) THEN [i EXCEPT !.saved = NoOne]
                ELSE IF a.closed /\ ~a.complete THEN [a EXCEPT !.timer = "armed"]
                ELSE a
           d == IF GivesUp(e) THEN SetClientClosed(b, "failed") ELSE b
<1>1. /\ a \in EnumerationContext
      /\ a.outcome = e.outcome /\ a.processing = e.processing
  BY CountedEffect
<1>2. Cleaned(e) = Unlocked(d)
  BY DEF Cleaned
<1> HIDE DEF a
<1>3. Issued(a, i) /\ i \in EnumerationContext
  BY <1>1, IssueImmediateResponseEffect DEF Issued, Frame
<1> HIDE DEF i
<1>4. /\ b \in EnumerationContext
      /\ b.outcome = "open" => e.outcome = "open"
      /\ ~AnswersDelayed(e) => b.processing = e.processing
  <2>1. CASE AnswersDelayed(e)
    BY <1>1, <1>3, <2>1 DEF Issued, EnumerationContext
  <2>2. CASE ~AnswersDelayed(e)
    BY <1>1, <2>2 DEF EnumerationContext
  <2> QED
    BY <2>1, <2>2
<1> HIDE DEF b
<1>5. /\ d \in EnumerationContext
      /\ d.outcome = "open" => e.outcome = "open" /\ d = b
  BY <1>4, SetClientClosedEffect DEF Frame
<1> HIDE DEF d
<1> QED
  BY <1>2, <1>4, <1>5 DEF Unlocked, EnumerationContext

-----------------------------------------------------------------------------
(* The steps keep the invariant.                                            *)

\* The context c becomes f and all others stay as they are.
LEMMA OneContextChanges ==
    ASSUME Inv, NEW c \in Contexts, NEW f \in EnumerationContext,
           en' = [en EXCEPT ![c] = f], table' \subseteq Contexts,
           \A d \in Contexts \ {c} : (d \in table') = (d \in table),
           ContextInv(f, c \in table')
    PROVE  /\ en' \in [Contexts -> EnumerationContext]
           /\ en'[c] = f
           /\ \A d \in Contexts \ {c} : en'[d] = en[d]
           /\ ContextsInv'
<1>1. en \in [Contexts -> EnumerationContext]
  BY DEF Inv, TypeOK
<1>2. /\ en' \in [Contexts -> EnumerationContext]
      /\ en'[c] = f
      /\ \A d \in Contexts \ {c} : en'[d] = en[d]
  BY <1>1
<1>3. ASSUME NEW d \in Contexts PROVE ContextInv(en'[d], d \in table')
  <2>1. ContextInv(en[d], d \in table)
    BY DEF Inv, ContextsInv
  <2> QED
    BY <1>2, <2>1
<1> QED
  BY <1>2, <1>3 DEF ContextsInv

\* A step of the request thread k on the context c, which becomes f, while the
\* thread becomes g.
RequestStep(k, c, f, g) ==
    /\ en' = [en EXCEPT ![c] = f]
    /\ client' = [client EXCEPT ![k] = g]
    /\ table' \subseteq Contexts
    /\ \A d \in Contexts \ {c} : (d \in table') = (d \in table)
    /\ ContextInv(f, c \in table')
    /\ timer' \in TimerThread /\ running' \in BOOLEAN
    /\ timer'.toClean = timer.toClean
    /\ timer'.pc = "scan" => timer' = timer /\ table \subseteq table'
    /\ en[c].lock \in {"free", k}
    /\ g.pc \in {"locked", "releasing"} => g.ctx = c /\ f.lock = k
    /\ g.pc = "releasing" => f.closed /\ f.complete
    /\ g.kind \in RequestKinds \cup {"none"}
    /\ g.pc # "idle" => g.ctx = c
    /\ f.outcome # "none"
    /\ client[k].pc # "saved"
    /\ \/ f.saved \in {en[c].saved, NoOne}
       \/ f.saved = k /\ g.pc = "saved"
    /\ f.outcome = "open" /\ g.pc \in {"marked", "locked", "saved"} =>
          f.processing /\ \A j \in Clients \ {k} : ~Serves(j, c)
    /\ f.outcome = "open" /\ ~f.processing =>
          \A j \in Clients \ {k} : ~Serves(j, c)
    /\ f.outcome = "open" => en[c].outcome \in {"none", "open"}

\* Such a step keeps the invariant.
LEMMA RequestStepKeeps ==
    ASSUME Inv, NEW k \in Clients, NEW c \in Contexts,
           NEW f \in EnumerationContext, NEW g \in ClientThread,
           RequestStep(k, c, f, g)
    PROVE  Inv'
<1> USE DEF RequestStep
<1>1. /\ en' \in [Contexts -> EnumerationContext] /\ en'[c] = f
      /\ \A d \in Contexts \ {c} : en'[d] = en[d]
      /\ ContextsInv'
  BY OneContextChanges
<1>2. /\ client' \in [Clients -> ClientThread] /\ client'[k] = g
      /\ \A j \in Clients \ {k} : client'[j] = client[j]
  BY DEF Inv, TypeOK
<1>3. TypeOK'
  BY <1>1, <1>2 DEF TypeOK
<1>4. ClientHolds'
  BY <1>1, <1>2, Domains DEF Inv, TypeOK, ClientHolds
<1>5. c \notin timer.toClean
  BY Domains DEF Inv, TimerHolds
<1>6. TimerHolds'
  <2>1. \A d \in timer'.toClean : d \in Contexts \ {c}
    BY <1>5 DEF Inv, TypeOK, TimerThread
  <2> QED
    BY <1>1, <2>1 DEF Inv, TimerHolds
<1>7. RequestsKnown'
  BY <1>1, <1>2 DEF Inv, RequestsKnown
<1>8. DelayedWaits'
  BY <1>1, <1>2 DEF Inv, TypeOK, DelayedWaits, EnumerationContext
<1>9. \A j \in Clients \ {k}, d \in Contexts : Serves(j, d)' = Serves(j, d)
  BY <1>2 DEF Serves
<1>10. \A d \in Contexts \ {c} : Serves(k, d)' = FALSE
  BY <1>2 DEF Serves
<1>11. Serves(k, c)' => g.pc \in {"marked", "locked", "saved"}
  BY <1>2 DEF Serves
<1>12. OneRequestAtATime'
  <2>1. ASSUME NEW d \in Contexts \ {c}, en'[d].outcome = "open",
               NEW j \in Clients, Serves(j, d)'
        PROVE  /\ en'[d].processing
               /\ \A i \in Clients : Serves(i, d)' => i = j
    BY <1>1, <1>9, <1>10, <2>1 DEF Inv, OneRequestAtATime
  <2>2. ASSUME en'[c].outcome = "open", NEW j \in Clients, Serves(j, c)'
        PROVE  /\ en'[c].processing
               /\ \A i \in Clients : Serves(i, c)' => i = j
    <3>1. CASE j = k
      BY <1>1, <1>9, <1>11, <2>2, <3>1
    <3>2. CASE j # k
      <4>1. Serves(j, c) /\ f.processing /\ ~Serves(k, c)'
        BY <1>1, <1>9, <1>11, <2>2, <3>2
      <4>2. en[c].outcome = "open"
        BY <1>1, <2>2, <4>1 DEF Inv, RequestsKnown, Serves
      <4> QED
        BY <1>1, <1>9, <4>1, <4>2 DEF Inv, OneRequestAtATime
    <3> QED
      BY <3>1, <3>2
  <2> QED
    BY <2>1, <2>2 DEF OneRequestAtATime
<1> QED
  BY <1>1, <1>3, <1>4, <1>6, <1>7, <1>8, <1>12 DEF Inv

\* A step on the context c, which becomes f, by its provider thread, the
\* timeout thread or time.
ContextStep(c, f) ==
    /\ en' = [en EXCEPT ![c] = f]
    /\ client' \in [Clients -> ClientThread]
    /\ table' \subseteq Contexts
    /\ \A d \in Contexts \ {c} : (d \in table') = (d \in table)
    /\ ContextInv(f, c \in table')
    /\ timer' \in TimerThread /\ running' \in BOOLEAN
    /\ timer'.toClean \subseteq timer.toClean \cup {c}
    /\ c \in timer'.toClean =>
          f.lock = "timer" /\ (f.outcome = "open" => f.processing)
    /\ timer'.pc = "scan" => timer'.toScan \subseteq table'
    /\ \/ en[c].lock \notin Clients
       \/ /\ f.lock = en[c].lock
          /\ f.closed = en[c].closed /\ f.complete = en[c].complete
    /\ f.outcome # "none"
    /\ \A j \in Clients :
          \/ client'[j] = client[j] /\ (en[c].saved = j => f.saved \in {j, NoOne})
          \/ /\ en[c].saved = j /\ f.saved = NoOne
             /\ client'[j].pc \in {"idle", "dropped"}
             /\ client'[j].pc = "dropped" => client'[j].ctx = c
             /\ client'[j].kind \in RequestKinds \cup {"none"}
    /\ f.saved \in {en[c].saved, NoOne}
    /\ f.outcome = "open" => en[c].outcome = "open"
    /\ f.outcome = "open" /\ f.processing # en[c].processing =>
          \A j \in Clients : ~Serves(j, c)'

\* Such a step keeps the invariant.
LEMMA ContextStepKeeps ==
    ASSUME Inv, NEW c \in Contexts, NEW f \in EnumerationContext,
           ContextStep(c, f)
    PROVE  Inv'
<1> USE DEF ContextStep
<1>1. /\ en' \in [Contexts -> EnumerationContext] /\ en'[c] = f
      /\ \A d \in Contexts \ {c} : en'[d] = en[d]
      /\ ContextsInv'
  BY OneContextChanges
<1>2. ASSUME NEW j \in Clients
      PROVE  \/ client'[j] = client[j]
             \/ /\ client[j].pc = "saved" /\ client[j].ctx = c
                /\ client'[j].pc \in {"idle", "dropped"}
                /\ client'[j].pc = "dropped" => client'[j].ctx = c
                /\ client'[j].kind \in RequestKinds \cup {"none"}
                /\ en[c].saved = j /\ f.saved = NoOne
  BY Domains DEF Inv, DelayedWaits
<1>3. TypeOK'
  BY <1>1 DEF TypeOK
<1>4. ClientHolds'
  BY <1>1, <1>2, Domains DEF Inv, TypeOK, ClientHolds
<1>5. TimerHolds'
  <2>1. \A d \in timer'.toClean : d = c \/ (d \in timer.toClean /\ d \in Contexts \ {c})
    BY DEF Inv, TypeOK, TimerThread
  <2> QED
    BY <1>1, <2>1 DEF Inv, TimerHolds
<1>6. RequestsKnown'
  BY <1>1, <1>2 DEF Inv, RequestsKnown
<1>7. DelayedWaits'
  <2>1. ASSUME NEW d \in Contexts, en'[d].saved # NoOne
        PROVE  client'[en'[d].saved].pc = "saved" /\ client'[en'[d].saved].ctx = d
    <3>1. en'[d].saved = en[d].saved /\ en[d].saved \in Clients
      BY <1>1, <2>1 DEF Inv, TypeOK, EnumerationContext
    <3>2. client[en[d].saved].pc = "saved" /\ client[en[d].saved].ctx = d
      BY <2>1, <3>1 DEF Inv, DelayedWaits
    <3>3. client'[en[d].saved] = client[en[d].saved]
      BY <1>1, <1>2, <2>1, <3>1, <3>2
    <3> QED
      BY <3>1, <3>2, <3>3
  <2> QED
    BY <2>1 DEF DelayedWaits
<1>8. ASSUME NEW j \in Clients, NEW d \in Contexts, Serves(j, d)' PROVE Serves(j, d)
  BY <1>2, <1>8 DEF Serves
<1>9. OneRequestAtATime'
  BY <1>1, <1>8 DEF Inv, OneRequestAtATime
<1> QED
  BY <1>1, <1>3, <1>4, <1>5, <1>6, <1>7, <1>9 DEF Inv

\* A step of the timeout thread that changes no context.
LEMMA TimerStepKeeps ==
    ASSUME Inv, UNCHANGED <<table, en, client>>,
           timer' \in TimerThread, running' \in BOOLEAN,
           timer'.toClean \subseteq timer.toClean,
           timer'.pc = "scan" => timer'.toScan \subseteq table
    PROVE  Inv'
BY DEF Inv, TypeOK, ContextsInv, ClientHolds, TimerHolds, RequestsKnown,
       DelayedWaits, OneRequestAtATime, Serves

-----------------------------------------------------------------------------
(* The steps of request threads.                                            *)

\* What the invariant says of a request thread at work and its context.
LEMMA AtWork ==
    ASSUME Inv, NEW k \in Clients, client[k].pc # "idle"
    PROVE  LET c == client[k].ctx IN
           /\ c \in Contexts /\ en[c] \in EnumerationContext
           /\ client[k] \in ClientThread /\ client[k].count \in Nat
           /\ client[k].kind \in RequestKinds \cup {"none"}
           /\ en[c].outcome # "none" /\ ContextInv(en[c], c \in table)
           /\ table \subseteq Contexts /\ timer \in TimerThread
           /\ running \in BOOLEAN
BY DEF Inv, TypeOK, RequestsKnown, ContextsInv, ClientThread

\* Nobody serves an open enumeration that does not process a request, and
\* nobody else one that k serves.
LEMMA NobodyElseServes ==
    ASSUME Inv, NEW c \in Contexts, en[c].outcome = "open", NEW k \in Clients,
           ~en[c].processing \/ Serves(k, c)
    PROVE  \A j \in Clients \ {k} : ~Serves(j, c)
BY DEF Inv, OneRequestAtATime

\* Starting the timeout thread starts no scan and changes no list.
LEMMA DispatchEffect ==
    ASSUME Inv, DispatchTimerThread \/ UNCHANGED <<timer, running>>
    PROVE  /\ timer' \in TimerThread /\ running' \in BOOLEAN
           /\ timer'.toClean = timer.toClean
           /\ timer'.pc = "scan" => timer' = timer
BY DEF Inv, TypeOK, DispatchTimerThread, TimerThread

\* The thread of an answered request.
LEMMA IdleThread ==
    /\ Idle \in ClientThread /\ Idle.pc = "idle" /\ Idle.kind = "none"
BY DEF Idle, ClientThread

\* A context as createContext leaves it.
LEMMA NewContextEffect ==
    ASSUME NEW provider \in {"none", "idle"}
    PROVE  LET e == NewContext(provider, "open") IN
           /\ e \in EnumerationContext /\ ContextInv(e, TRUE)
           /\ e.saved = NoOne /\ e.processing /\ e.outcome = "open"
           /\ e.lock = "free"
<1> DEFINE e == NewContext(provider, "open")
<1>1. NoChunk \in Chunks
  BY DEF NoChunk, Chunks, AllChunkKinds
<1>2. /\ e \in EnumerationContext
      /\ e.saved = NoOne /\ e.processing /\ e.outcome = "open"
      /\ e.lock = "free" /\ e.cache = 0 /\ ~e.closed /\ ~e.complete
      /\ e.provider # "locked" /\ e.sent = 0 /\ e.returned = 0
  BY <1>1 DEF NewContext, EnumerationContext
<1>3. 0 <= MaxCache + 0 /\ 0 <= MaxCache
  BY Numbers
<1> HIDE DEF e
<1>4. ContextInv(e, TRUE)
  BY <1>2, <1>3 DEF ContextInv
<1> QED
  BY <1>2, <1>4 DEF e

\* A context that is not opened yet is unlocked, and no request is for it.
LEMMA UnopenedContext ==
    ASSUME Inv, NEW c \in Contexts, en[c].outcome = "none"
    PROVE  /\ en[c].lock = "free" /\ c \notin table
           /\ \A j \in Clients : ~Serves(j, c)
BY DEF Inv, ContextsInv, ContextInv, RequestsKnown, Serves

\* Open requests, those that fail included.
LEMMA OpenKeeps ==
    ASSUME Inv, NEW k \in Clients, NEW c \in Contexts,
           OpenEnumeration(k, c) \/ OpenQueryFails(k, c)
    PROVE  Inv'
<1>1. /\ c \notin table /\ en[c].lock = "free" /\ en[c].outcome = "none"
      /\ \A j \in Clients : ~Serves(j, c)
  BY UnopenedContext DEF OpenEnumeration, OpenQueryFails, ContextCreated
<1>2. /\ table' = table \cup {c} /\ UNCHANGED <<timer, running>>
      /\ client[k] = Idle
  BY DEF OpenEnumeration, OpenQueryFails, ContextCreated
<1>3. /\ table' \subseteq Contexts /\ c \in table' /\ table \subseteq table'
      /\ \A d \in Contexts \ {c} : (d \in table') = (d \in table)
      /\ timer' \in TimerThread /\ running' \in BOOLEAN
  BY <1>2 DEF Inv, TypeOK
<1>4. (c \in table') = TRUE
  BY <1>3
<1>5. CASE OpenEnumeration(k, c)
  <2>1. PICK count \in MaxObjectCounts :
           client' = [client EXCEPT ![k] = [pc |-> "marked", ctx |-> c,
                                            kind |-> "open", count |-> count]]
    BY <1>5 DEF OpenEnumeration
  <2> DEFINE f == NewContext("idle", "open")
             g == [pc |-> "marked", ctx |-> c, kind |-> "open", count |-> count]
  <2>2. g \in ClientThread /\ g.pc = "marked" /\ g.ctx = c /\ g.kind = "open"
    BY Numbers DEF ClientThread, AllRequestKinds
  <2>3. "open" \in RequestKinds /\ en' = [en EXCEPT ![c] = f]
    BY <1>5 DEF OpenEnumeration
  <2>4. /\ f \in EnumerationContext /\ ContextInv(f, c \in table')
        /\ f.saved = NoOne /\ f.processing /\ f.outcome = "open"
        /\ f.lock = "free"
    BY <1>4, NewContextEffect
  <2> HIDE DEF f, g
  <2> QED
    BY <1>1, <1>2, <1>3, <2>1, <2>2, <2>3, <2>4, IdleThread, RequestStepKeeps DEF g, RequestStep
<1>6. CASE OpenQueryFails(k, c)
  <2> DEFINE f == NewContext("none", "open")
             g == client[k]
  <2>1. en' = [en EXCEPT ![c] = f] /\ client' = client
    BY <1>6 DEF OpenQueryFails
  <2>2. client' = [client EXCEPT ![k] = g]
    BY <2>1 DEF Inv, TypeOK
  <2>3. /\ f \in EnumerationContext /\ ContextInv(f, c \in table')
        /\ f.saved = NoOne /\ f.processing /\ f.outcome = "open"
        /\ f.lock = "free"
    BY <1>4, NewContextEffect
  <2> HIDE DEF f
  <2> QED
    BY <1>1, <1>2, <1>3, <2>1, <2>2, <2>3, IdleThread, RequestStepKeeps DEF RequestStep
<1> QED
  BY <1>5, <1>6

\* A pull or close request finds its context.
LEMMA FindContextKeeps ==
    ASSUME Inv, NEW k \in Clients, NEW c \in Contexts, FindContext(k, c)
    PROVE  Inv'
<1>1. PICK kind \in RequestKinds \cap {"pull", "wrongPull", "close"},
           count \in MaxObjectCounts :
          client' = [client EXCEPT ![k] = [pc |-> "found", ctx |-> c,
                                           kind |-> kind, count |-> count]]
  BY DEF FindContext
<1> DEFINE g == [pc |-> "found", ctx |-> c, kind |-> kind, count |-> count]
<1>2. /\ g \in ClientThread /\ g.pc = "found" /\ g.ctx = c
      /\ g.kind \in RequestKinds
  BY Numbers DEF ClientThread, AllRequestKinds
<1> HIDE DEF g
<1>3. client' = [client EXCEPT ![k] = g] /\ client[k] = Idle
  BY <1>1 DEF g, FindContext
<1>4. UNCHANGED <<table, en, timer, running>> /\ en[c].outcome # "none"
  BY DEF FindContext, Known
<1>5. TypeOK' /\ ContextsInv'
  BY <1>2, <1>3, <1>4 DEF Inv, TypeOK, ContextsInv
<1>6. ClientHolds' /\ TimerHolds' /\ RequestsKnown'
  BY <1>2, <1>3, <1>4, IdleThread
  DEF Inv, TypeOK, ClientHolds, TimerHolds, RequestsKnown
<1>7. DelayedWaits'
  BY <1>2, <1>3, <1>4, IdleThread DEF Inv, TypeOK, DelayedWaits, EnumerationContext
<1>8. OneRequestAtATime'
  BY <1>2, <1>3, <1>4 DEF Inv, TypeOK, OneRequestAtATime, Serves
<1> QED
  BY <1>5, <1>6, <1>7, <1>8 DEF Inv

\* A request goes on with a deleted context.
LEMMA UseReleasedContextKeeps ==
    ASSUME Inv, NEW k \in Clients, UseReleasedContext(k)
    PROVE  Inv'
<1> DEFINE c == client[k].ctx
           g == [client[k] EXCEPT !.pc = "undefined"]
<1>1. /\ client[k].pc \in {"found", "marked"} /\ c \notin table
      /\ client' = [client EXCEPT ![k] = g]
      /\ UNCHANGED <<table, en, timer, running>>
  BY DEF UseReleasedContext
<1>2. /\ c \in Contexts /\ en[c].outcome # "none" /\ en[c].closed
      /\ client[k] \in ClientThread
      /\ client[k].kind \in RequestKinds \cup {"none"}
  BY <1>1, AtWork DEF ContextInv
<1>3. /\ g \in ClientThread /\ g.pc = "undefined" /\ g.ctx = c
      /\ g.kind = client[k].kind
  BY <1>2 DEF ClientThread
<1> HIDE DEF g
<1>4. TypeOK' /\ ContextsInv'
  BY <1>1, <1>2, <1>3 DEF Inv, TypeOK, ContextsInv
<1>5. ClientHolds' /\ TimerHolds' /\ RequestsKnown'
  BY <1>1, <1>2, <1>3 DEF Inv, TypeOK, ClientHolds, TimerHolds, RequestsKnown
<1>6. DelayedWaits'
  BY <1>1, <1>3 DEF Inv, TypeOK, DelayedWaits, EnumerationContext
<1>7. OneRequestAtATime'
  BY <1>1, <1>2, <1>3 DEF Inv, TypeOK, OneRequestAtATime, Serves
<1> QED
  BY <1>4, <1>5, <1>6, <1>7 DEF Inv

\* The thread k has found the context and locks it.
LEMMA AtLock ==
    ASSUME Inv, NEW k \in Clients, NEW pc \in {"found", "marked"},
           AtContextLock(k, pc)
    PROVE  LET c == client[k].ctx IN
           /\ c \in Contexts /\ c \in table /\ (c \in table) = TRUE
           /\ en[c] \in EnumerationContext /\ ContextInv(en[c], TRUE)
           /\ en[c].outcome # "none" /\ en[c].lock = "free"
           /\ en[c].provider # "locked"
           /\ client[k].pc = pc /\ client[k] \in ClientThread
           /\ client[k].kind \in RequestKinds \cup {"none"}
           /\ table \subseteq Contexts /\ timer \in TimerThread
           /\ running \in BOOLEAN
           /\ ~en[c].closed => en[c].outcome = "open"
           /\ en[c].closed => en[c].outcome # "open"
<1>1. client[k].pc = pc /\ client[k].ctx \in table
      /\ en[client[k].ctx].lock = "free"
  BY DEF AtContextLock
<1> QED
  BY <1>1, AtWork DEF ContextInv, EnumerationContext

\* Stopping the timer changes nothing that the invariant speaks of.
LEMMA TimerOff ==
    ASSUME NEW e \in EnumerationContext, NEW in \in BOOLEAN, ContextInv(e, in)
    PROVE  LET f == [e EXCEPT !.timer = "off"] IN
           /\ f \in EnumerationContext /\ ContextInv(f, in)
           /\ f.outcome = e.outcome /\ f.saved = e.saved /\ f.lock = e.lock
           /\ f.processing = e.processing /\ f.complete = e.complete
           /\ f.closed = e.closed /\ f.provider = e.provider
<1> DEFINE f == [e EXCEPT !.timer = "off"]
<1>1. /\ f \in EnumerationContext
      /\ f.closed = e.closed /\ f.complete = e.complete /\ f.cache = e.cache
      /\ f.outcome = e.outcome /\ f.sent = e.sent /\ f.returned = e.returned
      /\ f.provider = e.provider /\ f.error = e.error /\ f.lock = e.lock
      /\ f.zeroLen = e.zeroLen /\ f.saved = e.saved
      /\ f.processing = e.processing
  BY DEF EnumerationContext
<1> HIDE DEF f
<1>2. ContextInv(f, in)
  BY <1>1, LesserChangeKeeps DEF ContextInv
<1> QED
  BY <1>1, <1>2 DEF f

\* The requests that end with the lock: the client is closed, or the context
\* left as it is but for its timer.
LEMMA RejectKeeps ==
    ASSUME Inv, NEW k \in Clients,
           \/ RejectWrongPull(k) \/ RejectBusy(k)
           \/ RejectTimedOutPull(k) \/ RejectTimedOutClose(k)
    PROVE  Inv'
<1> DEFINE c == client[k].ctx
           e == en[c]
<1>1. AtContextLock(k, "found") /\ client' = [client EXCEPT ![k] = Idle]
      /\ UNCHANGED <<table, timer, running>>
  BY DEF RejectWrongPull, RejectBusy, RejectTimedOutPull, RejectTimedOutClose
<1>2. /\ c \in Contexts /\ c \in table /\ (c \in table) = TRUE
      /\ e \in EnumerationContext /\ ContextInv(e, TRUE)
      /\ e.outcome # "none" /\ e.lock = "free"
      /\ client[k].pc = "found" /\ client[k] \in ClientThread
      /\ table \subseteq Contexts /\ timer \in TimerThread
      /\ running \in BOOLEAN
  BY <1>1, AtLock
<1>3. (c \in table') = TRUE
  BY <1>1, <1>2
<1>4. PICK f \in EnumerationContext :
        /\ en' = [en EXCEPT ![c] = f] /\ ContextInv(f, TRUE)
        /\ f.saved = e.saved /\ f.outcome # "none"
        /\ f.outcome = "open" => e.outcome = "open" /\ f.processing = e.processing
  <2> DEFINE o == [e EXCEPT !.timer = "off"]
  <2>1. /\ o \in EnumerationContext /\ ContextInv(o, TRUE)
        /\ o.outcome = e.outcome /\ o.saved = e.saved
        /\ o.processing = e.processing
    BY <1>2, TimerOff
  <2>2. CASE RejectWrongPull(k)
    <3> DEFINE f == SetClientClosed(e, "abandoned")
    <3>1. en' = [en EXCEPT ![c] = f]
      BY <2>2 DEF RejectWrongPull
    <3>2. /\ f \in EnumerationContext /\ ContextInv(f, TRUE)
          /\ f.saved = e.saved /\ f.outcome # "none" /\ f.outcome # "open"
      <4>1. /\ Frame(e, f)
            /\ f.outcome = IF e.outcome = "open" THEN "abandoned" ELSE e.outcome
        BY <1>2, SetClientClosedEffect
      <4>2. ContextInv(f, TRUE)
        BY <1>2, ClosingKeeps
      <4> HIDE DEF f
      <4> QED
        BY <1>2, <4>1, <4>2 DEF Frame
    <3> HIDE DEF f
    <3> QED
      BY <3>1, <3>2
  <2>3. CASE RejectBusy(k)
    <3>1. en' = [en EXCEPT ![c] = e]
      BY <1>2, <2>3 DEF RejectBusy, Inv, TypeOK
    <3> QED
      BY <1>2, <3>1
  <2>4. CASE RejectTimedOutPull(k)
    <3>1. en' = [en EXCEPT ![c] = SetClientClosed(o, "abandoned")]
      BY <2>4 DEF RejectTimedOutPull
    <3> HIDE DEF o
    <3> DEFINE f == SetClientClosed(o, "abandoned")
    <3>2. /\ f \in EnumerationContext /\ ContextInv(f, TRUE)
          /\ f.saved = e.saved /\ f.outcome # "none" /\ f.outcome # "open"
      <4>1. /\ Frame(o, f)
            /\ f.outcome = IF o.outcome = "open" THEN "abandoned" ELSE o.outcome
        BY <1>2, <2>1, SetClientClosedEffect
      <4>2. ContextInv(f, TRUE)
        BY <1>2, <2>1, ClosingKeeps
      <4> HIDE DEF f
      <4> QED
        BY <1>2, <2>1, <4>1, <4>2 DEF Frame
    <3> HIDE DEF f
    <3> QED
      BY <3>1, <3>2 DEF f
  <2>5. CASE RejectTimedOutClose(k)
    <3>1. en' = [en EXCEPT ![c] = o]
      BY <2>5 DEF RejectTimedOutClose
    <3> HIDE DEF o
    <3> QED
      BY <1>2, <2>1, <3>1
  <2> QED
    BY <2>2, <2>3, <2>4, <2>5
<1>5. f.outcome = "open" /\ ~f.processing => \A j \in Clients \ {k} : ~Serves(j, c)
  BY <1>2, <1>4, NobodyElseServes
<1> HIDE DEF c
<1> QED
  BY <1>1, <1>2, <1>3, <1>4, <1>5, IdleThread, RequestStepKeeps DEF RequestStep

\* A pull is accepted.
LEMMA StartPullKeeps ==
    ASSUME Inv, NEW k \in Clients, StartPull(k)
    PROVE  Inv'
<1> DEFINE c == client[k].ctx
           e == en[c]
           f == [e EXCEPT !.processing = TRUE, !.timer = "off"]
           g == [client[k] EXCEPT !.pc = "marked"]
<1>1. /\ AtContextLock(k, "found") /\ ~e.processing
      /\ en' = [en EXCEPT ![c] = f] /\ client' = [client EXCEPT ![k] = g]
      /\ UNCHANGED <<table, timer, running>>
  BY DEF StartPull
<1>2. /\ c \in Contexts /\ c \in table /\ (c \in table) = TRUE
      /\ e \in EnumerationContext /\ ContextInv(e, TRUE)
      /\ e.outcome # "none" /\ e.lock = "free" /\ e.provider # "locked"
      /\ client[k].pc = "found" /\ client[k] \in ClientThread
      /\ client[k].kind \in RequestKinds \cup {"none"}
      /\ table \subseteq Contexts /\ timer \in TimerThread
      /\ running \in BOOLEAN
  BY <1>1, AtLock
<1>3. /\ g \in ClientThread /\ g.pc = "marked" /\ g.ctx = c
      /\ g.kind = client[k].kind
  BY <1>2 DEF ClientThread
<1>4. /\ f \in EnumerationContext
      /\ f.closed = e.closed /\ f.complete = e.complete /\ f.cache = e.cache
      /\ f.outcome = e.outcome /\ f.sent = e.sent /\ f.returned = e.returned
      /\ f.provider = e.provider /\ f.error = e.error /\ f.lock = "free"
      /\ f.saved = e.saved /\ f.processing
  BY <1>2 DEF EnumerationContext
<1> HIDE DEF f, g
<1>5. ContextInv(f, TRUE)
  BY <1>2, <1>4, LesserChangeKeeps
<1>6. (c \in table') = TRUE
  BY <1>1, <1>2
<1>7. f.outcome = "open" => \A j \in Clients \ {k} : ~Serves(j, c)
  BY <1>1, <1>2, <1>4, NobodyElseServes
<1> HIDE DEF c
<1> QED
  <2>1. f.outcome = "open" => e.outcome = "open"
    BY <1>4
  <2>3. /\ table' = table /\ timer' = timer /\ running' = running
        /\ en[c].lock = "free" /\ client[k].pc = "found"
        /\ f.saved = en[c].saved /\ f.processing /\ g.ctx = c
        /\ g.pc = "marked" /\ g.kind \in RequestKinds \cup {"none"}
    BY <1>1, <1>2, <1>3, <1>4
  <2>4. /\ en' = [en EXCEPT ![c] = f] /\ client' = [client EXCEPT ![k] = g]
        /\ table' \subseteq Contexts /\ ContextInv(f, c \in table')
        /\ timer' \in TimerThread /\ running' \in BOOLEAN /\ f.outcome # "none"
        /\ f.outcome = "open" => en[c].outcome \in {"none", "open"}
    BY <1>1, <1>2, <1>4, <1>5, <1>6, <2>1
  <2>2. RequestStep(k, c, f, g)
    BY <1>7, <2>3, <2>4 DEF RequestStep
  <2> QED
    BY <1>1, <1>2, <1>3, <1>4, <1>5, <1>6, <1>7, <2>1, <2>2, RequestStepKeeps

\* An accepted request locks its context to be answered.
LEMMA LockToIssueKeeps ==
    ASSUME Inv, NEW k \in Clients, LockToIssue(k)
    PROVE  Inv'
<1> DEFINE c == client[k].ctx
           e == en[c]
           h == CountPull(e, client[k].kind, client[k].count)
           f == [h EXCEPT !.lock = k]
           g == [client[k] EXCEPT !.pc = "locked"]
<1>1. /\ AtContextLock(k, "marked")
      /\ en' = [en EXCEPT ![c] = f] /\ client' = [client EXCEPT ![k] = g]
      /\ UNCHANGED <<table, timer, running>>
  BY DEF LockToIssue
<1>2. /\ c \in Contexts /\ c \in table /\ (c \in table) = TRUE
      /\ e \in EnumerationContext /\ ContextInv(e, TRUE)
      /\ e.outcome # "none" /\ e.lock = "free" /\ e.provider # "locked"
      /\ client[k].pc = "marked" /\ client[k] \in ClientThread
      /\ client[k].kind \in RequestKinds \cup {"none"}
      /\ table \subseteq Contexts /\ timer \in TimerThread
      /\ running \in BOOLEAN
  BY <1>1, AtLock
<1>3. /\ g \in ClientThread /\ g.pc = "locked" /\ g.ctx = c
      /\ g.kind = client[k].kind
  BY <1>2 DEF ClientThread
<1>4. /\ h \in EnumerationContext
      /\ h.closed = e.closed /\ h.complete = e.complete /\ h.cache = e.cache
      /\ h.outcome = e.outcome /\ h.sent = e.sent /\ h.returned = e.returned
      /\ h.provider = e.provider /\ h.saved = e.saved
      /\ h.processing = e.processing /\ (e.error => h.error)
  <2> DEFINE zeroPulls == IF client[k].count = 0 THEN e.zeroPulls + 1 ELSE 0
             error == e.error \/ zeroPulls > MaxZeroPulls
  <2>1. zeroPulls \in Nat /\ error \in BOOLEAN
    BY <1>2 DEF EnumerationContext
  <2>2. h = IF client[k].kind # "pull" THEN e
            ELSE [e EXCEPT !.zeroPulls = zeroPulls, !.error = error]
    BY DEF CountPull
  <2>3. e.error => error
    OBVIOUS
  <2> HIDE DEF zeroPulls, error, h
  <2> QED
    BY <1>2, <2>1, <2>2, <2>3 DEF EnumerationContext
<1> HIDE DEF h
<1>5. /\ f \in EnumerationContext
      /\ f.closed = e.closed /\ f.complete = e.complete /\ f.cache = e.cache
      /\ f.outcome = e.outcome /\ f.sent = e.sent /\ f.returned = e.returned
      /\ f.provider = e.provider /\ f.saved = e.saved /\ f.lock = k
      /\ f.processing = e.processing /\ (e.error => f.error)
  BY <1>4 DEF EnumerationContext
<1> HIDE DEF f, g
<1>6. ContextInv(f, TRUE)
  BY <1>2, <1>5, LesserChangeKeeps
<1>7. (c \in table') = TRUE
  BY <1>1, <1>2
<1>8. f.outcome = "open" =>
         f.processing /\ \A j \in Clients \ {k} : ~Serves(j, c)
  <2>1. Serves(k, c)
    BY <1>2 DEF Serves
  <2> QED
    BY <1>2, <1>5, <2>1, NobodyElseServes DEF Inv, OneRequestAtATime
<1>9. /\ \A d \in Contexts \ {c} : (d \in table') = (d \in table)
      /\ table' \subseteq Contexts /\ table \subseteq table'
      /\ timer' = timer /\ timer' \in TimerThread /\ running' \in BOOLEAN
      /\ en[c].lock = "free" /\ f.saved = en[c].saved
      /\ ContextInv(f, c \in table')
  BY <1>1, <1>2, <1>5, <1>6, <1>7
<1>10. /\ f.outcome # "none" /\ f.outcome = en[c].outcome
       /\ g.kind \in RequestKinds \cup {"none"}
       /\ client[k].pc # "saved"
       /\ timer'.toClean = timer.toClean
       /\ timer'.pc = "scan" => timer' = timer /\ table \subseteq table'
  BY <1>1, <1>2, <1>3, <1>5, <1>9
<1>11. RequestStep(k, c, f, g)
  BY <1>1, <1>2, <1>3, <1>5, <1>8, <1>9, <1>10 DEF RequestStep
<1> QED
  BY <1>2, <1>3, <1>5, <1>11, RequestStepKeeps

\* A thread that holds the lock of its context.
LEMMA LockHeld ==
    ASSUME Inv, NEW k \in Clients, client[k].pc \in {"locked", "releasing"}
    PROVE  LET c == client[k].ctx IN
           /\ c \in Contexts /\ c \in table
           /\ en[c] \in EnumerationContext /\ ContextInv(en[c], TRUE)
           /\ en[c].outcome # "none" /\ en[c].lock = k
           /\ en[c].provider # "locked"
           /\ client[k] \in ClientThread /\ client[k].count \in Nat
           /\ client[k].kind \in RequestKinds \cup {"none"}
           /\ table \subseteq Contexts /\ timer \in TimerThread
           /\ running \in BOOLEAN
           /\ client[k].pc = "releasing" => en[c].closed /\ en[c].complete
<1> DEFINE c == client[k].ctx
<1>1. /\ c \in Contexts /\ en[c] \in EnumerationContext
      /\ client[k] \in ClientThread /\ client[k].count \in Nat
      /\ client[k].kind \in RequestKinds \cup {"none"}
      /\ en[c].outcome # "none" /\ ContextInv(en[c], c \in table)
      /\ table \subseteq Contexts /\ timer \in TimerThread
      /\ running \in BOOLEAN
  BY AtWork
<1>2. en[c].lock = k
      /\ (client[k].pc = "releasing" => en[c].closed /\ en[c].complete)
  BY DEF Inv, ClientHolds
<1>3. c \in table /\ (c \in table) = TRUE
  BY <1>1, <1>2, Domains DEF ContextInv
<1>4. en[c].provider # "locked"
  BY <1>1, <1>2, Domains DEF ContextInv
<1> QED
  BY <1>1, <1>2, <1>3, <1>4

\* A request is answered at once.
LEMMA IssueResponseKeeps ==
    ASSUME Inv, NEW k \in Clients, IssueResponse(k)
    PROVE  Inv'
<1> DEFINE c == client[k].ctx
           e == en[c]
           i == IssueImmediateResponse(e, client[k].count)
           f == Unlocked(i)
<1>1. /\ client[k].pc = "locked" /\ TableFree
      /\ en' = [en EXCEPT ![c] = f]
      /\ table' = TableAfter(c, i.closed /\ i.complete)
      /\ client' = [client EXCEPT ![k] = Idle]
      /\ DispatchTimerThread \/ UNCHANGED <<timer, running>>
  BY DEF IssueResponse
<1>2. /\ c \in Contexts /\ c \in table
      /\ e \in EnumerationContext /\ ContextInv(e, TRUE)
      /\ e.outcome # "none" /\ e.lock = k /\ e.provider # "locked"
      /\ client[k].count \in Nat
      /\ table \subseteq Contexts
  BY <1>1, LockHeld
<1>3. /\ timer' \in TimerThread /\ running' \in BOOLEAN
      /\ timer'.toClean = timer.toClean
      /\ timer'.pc = "scan" => timer' = timer
  BY <1>1, DispatchEffect
<1>4. timer'.pc # "scan"
  BY <1>1, <1>3 DEF TableFree
<1>5. Issued(e, i)
  BY <1>2, IssueImmediateResponseEffect
<1> HIDE DEF i
<1>6. /\ i \in EnumerationContext /\ ContextInv(i, TRUE)
      /\ i.provider # "locked" /\ i.outcome # "none"
      /\ i.saved = e.saved /\ ~i.processing
      /\ i.outcome = "open" => e.outcome = "open"
  BY <1>2, <1>5, IssuedKeeps DEF Issued, Frame
<1>7. /\ f \in EnumerationContext /\ ContextInv(f, TRUE)
      /\ i.closed /\ i.complete => ContextInv(f, FALSE)
  BY <1>6, UnlockedKeeps
<1>8. f.saved = e.saved /\ f.outcome = i.outcome /\ f.processing = i.processing
  BY <1>6 DEF Unlocked, EnumerationContext
<1> HIDE DEF f
<1>9. /\ table' \subseteq Contexts
      /\ \A d \in Contexts \ {c} : (d \in table') = (d \in table)
  BY <1>1, <1>2 DEF TableAfter
<1>10. ContextInv(f, c \in table')
  <2>1. CASE i.closed /\ i.complete
    <3>1. (c \in table') = FALSE
      BY <1>1, <2>1 DEF TableAfter
    <3> QED
      BY <1>7, <2>1, <3>1
  <2>2. CASE ~(i.closed /\ i.complete)
    <3>1. (c \in table') = TRUE
      BY <1>1, <1>2, <2>2 DEF TableAfter
    <3> QED
      BY <1>7, <3>1
  <2> QED
    BY <2>1, <2>2
<1>11. f.outcome = "open" => \A j \in Clients \ {k} : ~Serves(j, c)
  <2>1. Serves(k, c)
    BY <1>1 DEF Serves
  <2> QED
    BY <1>2, <1>6, <1>8, <2>1, NobodyElseServes
<1>12. RequestStep(k, c, f, Idle)
  BY <1>1, <1>2, <1>3, <1>4, <1>6, <1>8, <1>9, <1>10, <1>11, IdleThread
  DEF RequestStep
<1> QED
  BY <1>2, <1>7, <1>12, IdleThread, RequestStepKeeps

\* A request waits for the providers.
LEMMA DelayResponseKeeps ==
    ASSUME Inv, NEW k \in Clients, DelayResponse(k)
    PROVE  Inv'
<1> DEFINE c == client[k].ctx
           e == en[c]
           i == SetupDelayedResponse(e, k, client[k].count)
           f == Unlocked(i)
           g == [client[k] EXCEPT !.pc = "saved"]
<1>1. /\ client[k].pc = "locked" /\ TableFree
      /\ en' = [en EXCEPT ![c] = f]
      /\ client' = [client EXCEPT ![k] = g]
      /\ DispatchTimerThread
      /\ UNCHANGED table
  BY DEF DelayResponse
<1>2. /\ c \in Contexts /\ c \in table
      /\ e \in EnumerationContext /\ ContextInv(e, TRUE)
      /\ e.outcome # "none" /\ e.lock = k /\ e.provider # "locked"
      /\ client[k] \in ClientThread /\ client[k].count \in Nat
      /\ client[k].kind \in RequestKinds \cup {"none"}
      /\ table \subseteq Contexts
  BY <1>1, LockHeld
<1>3. /\ timer' \in TimerThread /\ running' \in BOOLEAN
      /\ timer'.toClean = timer.toClean
      /\ timer'.pc = "scan" => timer' = timer
  BY <1>1, DispatchEffect
<1>4. /\ g \in ClientThread /\ g.pc = "saved" /\ g.ctx = c
      /\ g.kind = client[k].kind
  BY <1>2 DEF ClientThread
<1>5. /\ f \in EnumerationContext
      /\ f.closed = e.closed /\ f.complete = e.complete /\ f.cache = e.cache
      /\ f.outcome = e.outcome /\ f.sent = e.sent /\ f.returned = e.returned
      /\ f.provider = e.provider /\ f.error = e.error /\ f.lock = "free"
      /\ f.saved = k /\ f.processing = e.processing
  BY <1>2 DEF Unlocked, SetupDelayedResponse, EnumerationContext
<1> HIDE DEF f, g
<1>6. ContextInv(f, TRUE)
  BY <1>2, <1>5, LesserChangeKeeps
<1>7. /\ ContextInv(f, c \in table') /\ table' \subseteq Contexts
      /\ \A d \in Contexts \ {c} : (d \in table') = (d \in table)
      /\ table \subseteq table'
  <2>1. (c \in table') = TRUE
    BY <1>1, <1>2
  <2> QED
    BY <1>1, <1>2, <1>6, <2>1
<1>8. f.outcome = "open" =>
         f.processing /\ \A j \in Clients \ {k} : ~Serves(j, c)
  <2>1. Serves(k, c)
    BY <1>1 DEF Serves
  <2> QED
    BY <1>2, <1>5, <2>1, NobodyElseServes DEF Inv, OneRequestAtATime
<1>9. RequestStep(k, c, f, g)
  BY <1>1, <1>2, <1>3, <1>4, <1>5, <1>7, <1>8 DEF RequestStep
<1> QED
  BY <1>2, <1>4, <1>5, <1>9, RequestStepKeeps

\* A close is accepted.
LEMMA CloseEnumerationKeeps ==
    ASSUME Inv, NEW k \in Clients, CloseEnumeration(k)
    PROVE  Inv'
<1> DEFINE c == client[k].ctx
           e == en[c]
           o == [e EXCEPT !.timer = "off"]
           i == SetClientClosed(o, "abandoned")
           f == IF i.complete THEN [i EXCEPT !.lock = k] ELSE i
           g == IF i.complete THEN [client[k] EXCEPT !.pc = "releasing"]
                ELSE Idle
<1>1. /\ AtContextLock(k, "found")
      /\ en' = [en EXCEPT ![c] = f] /\ client' = [client EXCEPT ![k] = g]
      /\ UNCHANGED <<table, timer, running>>
  BY DEF CloseEnumeration
<1>2. /\ c \in Contexts /\ c \in table /\ (c \in table) = TRUE
      /\ e \in EnumerationContext /\ ContextInv(e, TRUE)
      /\ e.outcome # "none" /\ e.lock = "free" /\ e.provider # "locked"
      /\ client[k].pc = "found" /\ client[k] \in ClientThread
      /\ client[k].kind \in RequestKinds \cup {"none"}
      /\ table \subseteq Contexts /\ timer \in TimerThread
      /\ running \in BOOLEAN
  BY <1>1, AtLock
<1>3. /\ o \in EnumerationContext /\ ContextInv(o, TRUE)
      /\ o.outcome = e.outcome /\ o.saved = e.saved /\ o.lock = e.lock
      /\ o.provider = e.provider
  BY <1>2, TimerOff
<1> HIDE DEF o
<1>4. /\ Frame(o, i) /\ i.closed
      /\ i.outcome = IF o.outcome = "open" THEN "abandoned" ELSE o.outcome
  BY <1>3, SetClientClosedEffect
<1>5. ContextInv(i, TRUE)
  BY <1>2, <1>3, ClosingKeeps
<1> HIDE DEF i
<1>6. /\ i \in EnumerationContext /\ i.provider # "locked"
      /\ i.saved = e.saved /\ i.outcome \notin {"none", "open"}
  BY <1>2, <1>3, <1>4 DEF Frame
<1>7. /\ f \in EnumerationContext
      /\ f.closed = i.closed /\ f.complete = i.complete /\ f.cache = i.cache
      /\ f.outcome = i.outcome /\ f.sent = i.sent /\ f.returned = i.returned
      /\ f.provider = i.provider /\ f.error = i.error /\ f.saved = i.saved
      /\ f.complete => f.lock = k
  BY <1>6 DEF EnumerationContext
<1>8. ContextInv(f, TRUE)
  BY <1>5, <1>6, <1>7, LesserChangeKeeps
<1>9. /\ g \in ClientThread
      /\ \/ g.pc = "idle" /\ g.kind = "none"
         \/ /\ g.pc = "releasing" /\ g.ctx = c /\ g.kind = client[k].kind
            /\ i.complete
  <2>1. CASE i.complete
    BY <1>2, <2>1 DEF ClientThread
  <2>2. CASE ~i.complete
    BY <2>2, IdleThread
  <2> QED
    BY <2>1, <2>2
<1> HIDE DEF f, g
<1>10. /\ ContextInv(f, c \in table') /\ table' \subseteq Contexts
       /\ \A d \in Contexts \ {c} : (d \in table') = (d \in table)
       /\ table \subseteq table'
  <2>1. (c \in table') = TRUE
    BY <1>1, <1>2
  <2> QED
    BY <1>1, <1>2, <1>8, <2>1
<1>11. RequestStep(k, c, f, g)
  BY <1>1, <1>2, <1>4, <1>6, <1>7, <1>9, <1>10 DEF RequestStep
<1> QED
  BY <1>2, <1>7, <1>9, <1>11, RequestStepKeeps

\* A close releases a context whose providers are complete.
LEMMA ReleaseClosedKeeps ==
    ASSUME Inv, NEW k \in Clients, ReleaseClosed(k)
    PROVE  Inv'
<1> DEFINE c == client[k].ctx
           e == en[c]
           f == Unlocked(e)
<1>1. /\ client[k].pc = "releasing" /\ TableFree
      /\ en' = [en EXCEPT ![c] = f] /\ client' = [client EXCEPT ![k] = Idle]
      /\ table' = table \ {c}
      /\ UNCHANGED <<timer, running>>
  BY DEF ReleaseClosed
<1>2. /\ c \in Contexts /\ c \in table
      /\ e \in EnumerationContext /\ ContextInv(e, TRUE)
      /\ e.outcome # "none" /\ e.lock = k /\ e.provider # "locked"
      /\ table \subseteq Contexts /\ timer \in TimerThread
      /\ running \in BOOLEAN /\ e.closed /\ e.complete
  BY <1>1, LockHeld
<1>3. f \in EnumerationContext /\ ContextInv(f, FALSE)
  BY <1>2, UnlockedKeeps
<1>4. f.saved = e.saved /\ f.outcome = e.outcome /\ f.outcome # "open"
  BY <1>2 DEF Unlocked, EnumerationContext, ContextInv
<1> HIDE DEF f
<1>5. /\ ContextInv(f, c \in table') /\ table' \subseteq Contexts
      /\ \A d \in Contexts \ {c} : (d \in table') = (d \in table)
  <2>1. (c \in table') = FALSE
    BY <1>1
  <2>2. ContextInv(f, c \in table')
    BY <1>3, <2>1
  <2>3. table' \subseteq Contexts
    BY <1>1, <1>2
  <2>4. \A d \in Contexts \ {c} : (d \in table') = (d \in table)
    BY <1>1
  <2> QED
    BY <2>2, <2>3, <2>4
<1>6. RequestStep(k, c, f, Idle)
  BY <1>1, <1>2, <1>4, <1>5, IdleThread DEF RequestStep, TableFree
<1> QED
  BY <1>2, <1>3, <1>6, IdleThread, RequestStepKeeps

-----------------------------------------------------------------------------
(* The steps of providers, of time and of the timeout thread.               *)

\* What the invariant says of one context.
LEMMA ContextKnown ==
    ASSUME Inv, NEW c \in Contexts
    PROVE  /\ en[c] \in EnumerationContext /\ ContextInv(en[c], c \in table)
           /\ (en[c].outcome = "none") => en[c].provider = "none" /\ c \notin table
           /\ en[c].lock # "timer" => c \notin timer.toClean
           /\ en[c].outcome = "open" /\ c \in timer.toClean => en[c].processing
           /\ timer.pc = "scan" => timer.toScan \subseteq table
           /\ c \in timer.toClean =>
                 en[c].lock = "timer" /\ c \in table
           /\ client \in [Clients -> ClientThread]
           /\ table \subseteq Contexts /\ timer \in TimerThread
           /\ running \in BOOLEAN
<1>1. /\ en[c] \in EnumerationContext /\ ContextInv(en[c], c \in table)
      /\ client \in [Clients -> ClientThread]
      /\ table \subseteq Contexts /\ timer \in TimerThread
      /\ running \in BOOLEAN
  BY DEF Inv, TypeOK, ContextsInv
<1>2. /\ (en[c].outcome = "none") => en[c].provider = "none" /\ c \notin table
      /\ en[c].lock # "free" => c \in table
  BY <1>1 DEF ContextInv
<1>3. /\ c \in timer.toClean => en[c].lock = "timer"
      /\ en[c].outcome = "open" /\ c \in timer.toClean => en[c].processing
      /\ timer.pc = "scan" => timer.toScan \subseteq table
  BY DEF Inv, TimerHolds
<1> QED
  BY <1>1, <1>2, <1>3

\* A change of a context alone, of nothing that clients rely on.
LEMMA QuietStepKeeps ==
    ASSUME Inv, NEW c \in Contexts, NEW f \in EnumerationContext,
           en' = [en EXCEPT ![c] = f], UNCHANGED <<table, client, timer, running>>,
           ContextInv(f, c \in table),
           f.saved = en[c].saved, f.outcome = en[c].outcome,
           f.outcome # "none", f.processing = en[c].processing,
           f.closed = en[c].closed, f.complete = en[c].complete,
           \/ f.lock = en[c].lock
           \/ en[c].lock = "free"
    PROVE  Inv'
<1>1. /\ client \in [Clients -> ClientThread]
      /\ table \subseteq Contexts /\ timer \in TimerThread
      /\ running \in BOOLEAN
      /\ timer.pc = "scan" => timer.toScan \subseteq table
      /\ c \in timer.toClean => en[c].lock = "timer"
      /\ en[c].outcome = "open" /\ c \in timer.toClean => en[c].processing
  BY ContextKnown
<1>2. (c \in table') = (c \in table)
  OBVIOUS
<1>3. ContextInv(f, c \in table')
  BY <1>2
<1>4. en[c].lock \notin Clients
      \/ (f.lock = en[c].lock /\ f.closed = en[c].closed
            /\ f.complete = en[c].complete)
  BY Domains
<1>5. \A j \in Clients : f.outcome = "open" /\ f.processing # en[c].processing
                           => ~Serves(j, c)'
  OBVIOUS
<1>6. table' = table /\ client' = client /\ timer' = timer /\ running' = running
  OBVIOUS
<1>7. c \in timer'.toClean =>
         f.lock = "timer" /\ (f.outcome = "open" => f.processing)
  BY <1>1, <1>6
<1>8. \A j \in Clients :
         client'[j] = client[j] /\ (en[c].saved = j => f.saved \in {j, NoOne})
  BY <1>6
<1>9. timer'.toClean \subseteq timer.toClean \cup {c}
  BY <1>6
<1>10. timer'.pc = "scan" => timer'.toScan \subseteq table'
  BY <1>1, <1>6
<1>11. client' \in [Clients -> ClientThread] /\ table' \subseteq Contexts
       /\ timer' \in TimerThread /\ running' \in BOOLEAN
  BY <1>1, <1>6
<1>12. ContextStep(c, f)
  <2>1. /\ f.saved \in {en[c].saved, NoOne}
        /\ f.outcome = "open" => en[c].outcome = "open"
        /\ f.outcome # "none"
    OBVIOUS
  <2>2. \A d \in Contexts \ {c} : (d \in table') = (d \in table)
    BY <1>6
  <2>3. f.outcome = "open" /\ f.processing # en[c].processing =>
          \A j \in Clients : ~Serves(j, c)'
    BY <1>5
  <2> QED
    BY <1>3, <1>4, <1>7, <1>8, <1>9, <1>10, <1>11, <2>1, <2>2, <2>3
    DEF ContextStep
<1> QED
  BY <1>12, ContextStepKeeps

\* A response of the providers arrives.
LEMMA ProviderRespondsKeeps ==
    ASSUME Inv, NEW c \in Contexts, ProviderResponds(c)
    PROVE  Inv'
<1> DEFINE e == en[c]
<1>1. PICK chunk \in ProviderResponses(e) :
        en' = [en EXCEPT ![c] =
                    [e EXCEPT !.provider = "sending", !.chunk = chunk,
                              !.zeroLen = 0,
                              !.error = e.error \/ chunk.kind = "error"]]
  BY DEF ProviderResponds
<1>2. /\ c \in table /\ e.provider = "idle"
      /\ UNCHANGED <<table, client, timer, running>>
  BY DEF ProviderResponds
<1>3. /\ e \in EnumerationContext /\ ContextInv(e, c \in table)
      /\ e.outcome # "none"
  BY <1>2, ContextKnown
<1> DEFINE error == e.error \/ chunk.kind = "error"
           f == [e EXCEPT !.provider = "sending", !.chunk = chunk,
                          !.zeroLen = 0, !.error = error]
<1>4. chunk \in Chunks /\ error \in BOOLEAN /\ (e.error => error)
  BY <1>3 DEF ProviderResponses, EnumerationContext
<1>5. en' = [en EXCEPT ![c] = f]
  BY <1>1
<1> HIDE DEF error
<1>6. /\ f \in EnumerationContext
      /\ f.closed = e.closed /\ f.complete = e.complete /\ f.cache = e.cache
      /\ f.outcome = e.outcome /\ f.sent = e.sent /\ f.returned = e.returned
      /\ f.provider = "sending" /\ f.lock = e.lock /\ f.saved = e.saved
      /\ f.processing = e.processing /\ (e.error => f.error)
  BY <1>3, <1>4 DEF EnumerationContext
<1> HIDE DEF f
<1>7. ContextInv(f, c \in table)
  BY <1>2, <1>3, <1>6 DEF ContextInv
<1> HIDE DEF e
<1> QED
  BY <1>2, <1>3, <1>5, <1>6, <1>7, QuietStepKeeps DEF e

\* The thread of a response locks the context.
LEMMA ProviderLocksKeeps ==
    ASSUME Inv, NEW c \in Contexts, ProviderLocks(c)
    PROVE  Inv'
<1> DEFINE e == en[c]
           f == [e EXCEPT !.lock = "provider", !.provider = "locked"]
<1>1. /\ c \in table /\ e.provider = "sending" /\ e.lock = "free"
      /\ UNCHANGED <<table, client, timer, running>>
      /\ en' = [en EXCEPT ![c].lock = "provider", ![c].provider = "locked"]
  BY DEF ProviderLocks
<1>2. /\ e \in EnumerationContext /\ ContextInv(e, c \in table)
      /\ e.outcome # "none"
  BY <1>1, ContextKnown
<1>3. en' = [en EXCEPT ![c] = f]
  BY <1>1 DEF Inv, TypeOK
<1>4. /\ f \in EnumerationContext
      /\ f.closed = e.closed /\ f.complete = e.complete /\ f.cache = e.cache
      /\ f.outcome = e.outcome /\ f.sent = e.sent /\ f.returned = e.returned
      /\ f.provider = "locked" /\ f.lock = "provider" /\ f.saved = e.saved
      /\ f.processing = e.processing /\ f.error = e.error
      /\ f.zeroLen = e.zeroLen
  BY <1>2 DEF EnumerationContext
<1> HIDE DEF f
<1>5. ContextInv(f, c \in table)
  BY <1>1, <1>2, <1>4 DEF ContextInv
<1> HIDE DEF e
<1> QED
  BY <1>1, <1>2, <1>3, <1>4, <1>5, QuietStepKeeps DEF e

\* A provider thread that leaves the table's context, or tests the cache.
LEMMA ProviderMovesKeeps ==
    ASSUME Inv, NEW c \in Contexts, ProviderWaits(c) \/ ProviderUsesReleased(c)
    PROVE  Inv'
<1> DEFINE e == en[c]
<1>1. PICK p \in {"idle", "asleep", "undefined"} :
        /\ en' = [en EXCEPT ![c].provider = p]
        /\ p = "idle" => ~CacheOverfull(e) /\ c \in table
        /\ p = "asleep" => CacheOverfull(e) /\ c \in table
        /\ p = "undefined" => c \notin table
  BY DEF ProviderWaits, ProviderUsesReleased
<1> DEFINE f == [e EXCEPT !.provider = p]
<1>2. /\ e.provider \in {"idle", "sending", "waiting"}
      /\ UNCHANGED <<table, client, timer, running>>
  BY DEF ProviderWaits, ProviderUsesReleased
<1>3. /\ e \in EnumerationContext /\ ContextInv(e, c \in table)
      /\ e.outcome # "none"
  BY <1>2, ContextKnown
<1>4. en' = [en EXCEPT ![c] = f]
  BY <1>1 DEF Inv, TypeOK
<1>5. /\ f \in EnumerationContext
      /\ f.closed = e.closed /\ f.complete = e.complete /\ f.cache = e.cache
      /\ f.outcome = e.outcome /\ f.sent = e.sent /\ f.returned = e.returned
      /\ f.provider = p /\ f.lock = e.lock /\ f.saved = e.saved
      /\ f.processing = e.processing /\ f.error = e.error
      /\ f.zeroLen = e.zeroLen
  BY <1>3 DEF EnumerationContext
<1> HIDE DEF f
<1>6. ContextInv(f, c \in table)
  <2>1. p = "idle" => e.cache <= MaxCache
    <3>1. ASSUME p = "idle" PROVE e.cache <= MaxCache
      <4>1. e.cache \in Nat /\ MaxCache \in Nat
        BY <1>3, Numbers DEF EnumerationContext
      <4>2. e.complete => FALSE
        BY <1>1, <1>2, <1>3, <3>1 DEF ContextInv
      <4>3. CASE e.closed
        BY <1>3, <4>1, <4>3 DEF ContextInv
      <4>4. CASE ~e.closed
        BY <1>1, <3>1, <4>1, <4>2, <4>4 DEF CacheOverfull
      <4> QED
        BY <4>3, <4>4
    <3> QED
      BY <3>1
  <2>2. e.provider # "done" /\ e.provider # "locked"
    BY <1>2
  <2>3. p = "undefined" \/ c \in table
    BY <1>1
  <2> QED
    BY <1>1, <1>3, <1>5, <2>1, <2>2, <2>3 DEF ContextInv
<1> HIDE DEF e
<1> QED
  BY <1>2, <1>3, <1>4, <1>5, <1>6, QuietStepKeeps DEF e

\* A timer expires.
LEMMA TimePassesKeeps ==
    ASSUME Inv, NEW c \in Contexts, TimePasses(c)
    PROVE  Inv'
<1> DEFINE e == en[c]
           f == [e EXCEPT !.timer = "expired"]
<1>1. /\ c \in table /\ UNCHANGED <<table, client, timer, running>>
      /\ en' = [en EXCEPT ![c] = f]
  BY DEF TimePasses
<1>2. /\ e \in EnumerationContext /\ ContextInv(e, c \in table)
      /\ e.outcome # "none"
  BY <1>1, ContextKnown
<1>3. /\ f \in EnumerationContext
      /\ f.closed = e.closed /\ f.complete = e.complete /\ f.cache = e.cache
      /\ f.outcome = e.outcome /\ f.sent = e.sent /\ f.returned = e.returned
      /\ f.provider = e.provider /\ f.lock = e.lock /\ f.saved = e.saved
      /\ f.processing = e.processing /\ f.error = e.error
      /\ f.zeroLen = e.zeroLen
  BY <1>2 DEF EnumerationContext
<1> HIDE DEF f
<1>4. ContextInv(f, c \in table)
  BY <1>2, <1>3 DEF ContextInv
<1> HIDE DEF e
<1> QED
  BY <1>1, <1>2, <1>3, <1>4, QuietStepKeeps DEF e

\* A response put into the cache: a delayed request stays, is deleted, or is
\* answered, after which no request is processed for the context.
LEMMA PutAnswers ==
    ASSUME NEW e \in EnumerationContext, e.outcome # "none"
    PROVE  LET f == AfterPut(e) IN
           /\ f.outcome # "none" /\ (f.outcome = "open" => e.outcome = "open")
           /\ \/ f.saved = e.saved /\ f.processing = e.processing
              \/ /\ e.saved # NoOne /\ f.saved = NoOne /\ ~PutCacheAccepts(e)
                 /\ f.processing = e.processing
              \/ e.saved # NoOne /\ f.saved = NoOne /\ PutCacheAccepts(e)
<1> DEFINE p == Put(e)
           f == AfterPut(e)
<1>1. /\ p \in EnumerationContext /\ p.saved = e.saved
      /\ p.outcome = e.outcome /\ p.processing = e.processing
  BY PutEffect
<1>2. \/ f = p /\ (e.saved = NoOne \/ PutCacheAccepts(e))
      \/ /\ e.saved # NoOne /\ ~PutCacheAccepts(e)
         /\ SameButSaved(p, f) /\ f.saved = NoOne
      \/ /\ e.saved # NoOne /\ PutCacheAccepts(e)
         /\ f.saved = NoOne
         /\ \E g \in EnumerationContext : Issued(p, g) /\ SameButSaved(g, f)
  BY AfterPutEffect
<1> HIDE DEF p, f
<1>3. ASSUME NEW g \in EnumerationContext, Issued(p, g), SameButSaved(g, f)
      PROVE  f.outcome # "none" /\ (f.outcome = "open" => e.outcome = "open")
  BY <1>1, <1>3 DEF Issued, SameButSaved
<1>4. f.outcome # "none" /\ (f.outcome = "open" => e.outcome = "open")
  BY <1>1, <1>2, <1>3 DEF SameButSaved
<1>5. \/ f.saved = e.saved /\ f.processing = e.processing
      \/ /\ e.saved # NoOne /\ f.saved = NoOne /\ ~PutCacheAccepts(e)
         /\ f.processing = e.processing
      \/ e.saved # NoOne /\ f.saved = NoOne /\ PutCacheAccepts(e)
  BY <1>1, <1>2 DEF SameButSaved
<1> QED
  BY <1>4, <1>5 DEF f

\* A response is put into the cache, with all that follows under the lock.
LEMMA ProviderPutsKeeps ==
    ASSUME Inv, NEW c \in Contexts, ProviderPuts(c)
    PROVE  Inv'
<1> DEFINE e == en[c]
           f == AfterPut(e)
           g == PutAndUnlocked(e)
           j == e.saved
<1>1. /\ e.provider = "locked" /\ TableFree
      /\ en' = [en EXCEPT ![c] = g]
      /\ table' = TableAfter(c, f.closed /\ e.chunk.final)
      /\ client' = IF e.saved = NoOne \/ f.saved # NoOne THEN client
                   ELSE [client EXCEPT ![j] =
                            IF PutCacheAccepts(e) THEN Idle
                            ELSE [client[j] EXCEPT !.pc = "dropped"]]
      /\ DispatchTimerThread \/ UNCHANGED <<timer, running>>
  BY DEF ProviderPuts, PutAndUnlocked
<1>2. /\ e \in EnumerationContext /\ ContextInv(e, c \in table)
      /\ e.outcome # "none" /\ e.lock = "provider" /\ c \in table
      /\ client \in [Clients -> ClientThread] /\ table \subseteq Contexts
      /\ c \notin timer.toClean /\ ContextInv(e, TRUE)
  <2>1. /\ e \in EnumerationContext /\ ContextInv(e, c \in table)
        /\ (e.outcome = "none") => e.provider = "none"
        /\ e.lock # "timer" => c \notin timer.toClean
        /\ client \in [Clients -> ClientThread] /\ table \subseteq Contexts
    BY ContextKnown
  <2>2. e.lock = "provider" /\ c \in table
    BY <1>1, <2>1 DEF ContextInv
  <2>3. (c \in table) = TRUE
    BY <2>2
  <2>4. ContextInv(e, TRUE)
    BY <2>1, <2>3
  <2> QED
    BY <1>1, <2>1, <2>2, <2>4
<1>3. /\ timer' \in TimerThread /\ running' \in BOOLEAN
      /\ timer'.toClean = timer.toClean /\ timer'.pc # "scan"
  <2>1. /\ timer' \in TimerThread /\ running' \in BOOLEAN
        /\ timer'.toClean = timer.toClean
        /\ timer'.pc = "scan" => timer' = timer
    BY <1>1, DispatchEffect
  <2> QED
    BY <1>1, <2>1 DEF TableFree
<1>4. g \in EnumerationContext /\ ContextInv(g, ~(f.closed /\ e.chunk.final))
  BY <1>1, <1>2, PutKeeps
<1>5. /\ f.outcome # "none" /\ (f.outcome = "open" => e.outcome = "open")
      /\ \/ f.saved = e.saved /\ f.processing = e.processing
         \/ /\ e.saved # NoOne /\ f.saved = NoOne /\ ~PutCacheAccepts(e)
            /\ f.processing = e.processing
         \/ e.saved # NoOne /\ f.saved = NoOne /\ PutCacheAccepts(e)
  BY <1>2, PutAnswers
<1>6. /\ g.outcome = f.outcome /\ g.processing = f.processing
      /\ g.saved = f.saved
  <2>1. f \in EnumerationContext
    <3>1. Put(e) \in EnumerationContext
      BY <1>2, PutEffect
    <3> QED
      BY <1>2, <3>1, AfterPutEffect DEF SameButSaved
  <2> HIDE DEF f
  <2> QED
    BY <2>1 DEF PutAndUnlocked, EnumerationContext, f
<1>7. ContextInv(g, c \in table')
  <2>1. CASE f.closed /\ e.chunk.final
    <3>1. (c \in table') = FALSE /\ (~(f.closed /\ e.chunk.final)) = FALSE
      BY <1>1, <2>1 DEF TableAfter
    <3> QED
      BY <1>4, <3>1
  <2>2. CASE ~(f.closed /\ e.chunk.final)
    <3>1. (c \in table') = TRUE /\ (~(f.closed /\ e.chunk.final)) = TRUE
      BY <1>1, <1>2, <2>2 DEF TableAfter
    <3> QED
      BY <1>4, <3>1
  <2> QED
    BY <2>1, <2>2
<1>8. /\ table' \subseteq Contexts
      /\ \A d \in Contexts \ {c} : (d \in table') = (d \in table)
  BY <1>1, <1>2 DEF TableAfter
<1> HIDE DEF f, g
\* The client of the delayed request, when it is answered or deleted.
<1>9. CASE j # NoOne /\ f.saved = NoOne
  <2>1. j \in Clients /\ client[j].pc = "saved" /\ client[j].ctx = c
        /\ client[j] \in ClientThread
        /\ client[j].kind \in RequestKinds \cup {"none"}
    BY <1>2, <1>9 DEF Inv, DelayedWaits, RequestsKnown, EnumerationContext
  <2> DEFINE h == IF PutCacheAccepts(e) THEN Idle
                  ELSE [client[j] EXCEPT !.pc = "dropped"]
  <2>2. client' = [client EXCEPT ![j] = h]
    BY <1>1, <1>9
  <2>3. /\ h \in ClientThread /\ h.kind \in RequestKinds \cup {"none"}
        /\ IF PutCacheAccepts(e) THEN h.pc = "idle"
           ELSE h.pc = "dropped" /\ h.ctx = c
    <3>1. CASE PutCacheAccepts(e)
      BY <3>1, IdleThread
    <3>2. CASE ~PutCacheAccepts(e)
      BY <2>1, <3>2 DEF ClientThread
    <3> QED
      BY <3>1, <3>2
  <2> HIDE DEF h
  <2>4. /\ client' \in [Clients -> ClientThread] /\ client'[j] = h
        /\ \A i \in Clients \ {j} : client'[i] = client[i]
    BY <1>2, <2>1, <2>2, <2>3
  <2>5. g.outcome = "open" => \A i \in Clients : ~Serves(i, c)'
    <3>1. Serves(j, c)
      BY <2>1 DEF Serves
    <3>2. e.outcome = "open" => \A i \in Clients \ {j} : ~Serves(i, c)
      BY <2>1, <3>1, NobodyElseServes
    <3>3. \A i \in Clients \ {j} : Serves(i, c)' = Serves(i, c)
      BY <2>4 DEF Serves
    <3>4. \A i \in Clients : i = j => ~Serves(i, c)'
      BY <2>3, <2>4 DEF Serves
    <3> QED
      BY <1>5, <1>6, <3>2, <3>3, <3>4
  <2>6. \A i \in Clients :
          \/ client'[i] = client[i] /\ (en[c].saved = i => g.saved \in {i, NoOne})
          \/ /\ en[c].saved = i /\ g.saved = NoOne
             /\ client'[i].pc \in {"idle", "dropped"}
             /\ client'[i].pc = "dropped" => client'[i].ctx = c
             /\ client'[i].kind \in RequestKinds \cup {"none"}
    BY <1>6, <1>9, <2>3, <2>4
  <2>7. ContextStep(c, g)
    BY <1>1, <1>2, <1>3, <1>5, <1>6, <1>7, <1>8, <1>9, <2>4, <2>5, <2>6, Domains
    DEF ContextStep
  <2> QED
    BY <1>4, <2>7, ContextStepKeeps
<1>10. CASE ~(j # NoOne /\ f.saved = NoOne)
  <2>1. client' = client /\ f.saved = e.saved /\ f.processing = e.processing
    BY <1>1, <1>5, <1>10
  <2>2. ContextStep(c, g)
    BY <1>1, <1>2, <1>3, <1>5, <1>6, <1>7, <1>8, <2>1, Domains DEF ContextStep
  <2> QED
    BY <1>4, <2>2, ContextStepKeeps
<1> QED
  BY <1>9, <1>10

\* The scan finds that a request has waited too long.
LEMMA ScanExpiresRequestKeeps ==
    ASSUME Inv, NEW c \in Contexts, ScanExpiresRequest(c)
    PROVE  Inv'
<1> DEFINE e == en[c]
           f == [e EXCEPT !.timer = "off", !.lock = "timer"]
<1>1. /\ timer.pc = "scan" /\ c \in timer.toScan /\ e.lock = "free"
      /\ e.processing /\ UNCHANGED <<table, client, running>>
      /\ en' = [en EXCEPT ![c].timer = "off", ![c].lock = "timer"]
      /\ timer' = [timer EXCEPT !.toScan = @ \ {c}, !.toClean = @ \cup {c}]
  BY DEF ScanExpiresRequest, ScanFindsExpired
<1>2. /\ e \in EnumerationContext /\ ContextInv(e, c \in table)
      /\ e.outcome = "none" => c \notin table
      /\ timer.toScan \subseteq table
      /\ client \in [Clients -> ClientThread]
      /\ table \subseteq Contexts /\ timer \in TimerThread
      /\ running \in BOOLEAN
  BY <1>1, ContextKnown
<1>3. c \in table /\ e.outcome # "none"
  BY <1>1, <1>2
<1>4. en' = [en EXCEPT ![c] = f]
  BY <1>1 DEF Inv, TypeOK
<1>5. /\ f \in EnumerationContext
      /\ f.closed = e.closed /\ f.complete = e.complete /\ f.cache = e.cache
      /\ f.outcome = e.outcome /\ f.sent = e.sent /\ f.returned = e.returned
      /\ f.provider = e.provider /\ f.lock = "timer" /\ f.saved = e.saved
      /\ f.processing /\ e.processing /\ f.error = e.error
      /\ f.zeroLen = e.zeroLen
  BY <1>1, <1>2 DEF EnumerationContext
<1> HIDE DEF f
<1>6. ContextInv(f, c \in table)
  BY <1>1, <1>2, <1>3, <1>5 DEF ContextInv
<1>7. /\ timer' \in TimerThread /\ timer'.toScan \subseteq timer.toScan
      /\ timer'.toClean = timer.toClean \cup {c}
  BY <1>1, <1>2 DEF TimerThread
<1>8. /\ client' \in [Clients -> ClientThread] /\ table' \subseteq Contexts
      /\ \A d \in Contexts \ {c} : (d \in table') = (d \in table)
      /\ running' \in BOOLEAN /\ timer'.toScan \subseteq table'
      /\ \A j \in Clients : client'[j] = client[j]
  BY <1>1, <1>2, <1>7
<1>9. ContextInv(f, c \in table')
  BY <1>1, <1>6
<1>10. ContextStep(c, f)
  BY <1>1, <1>3, <1>4, <1>5, <1>7, <1>8, <1>9, Domains DEF ContextStep
<1> QED
  BY <1>5, <1>10, ContextStepKeeps

\* The scan finds that the client has been silent too long.
LEMMA ScanExpiresContextKeeps ==
    ASSUME Inv, NEW c \in Contexts, ScanExpiresContext(c)
    PROVE  Inv'
<1> DEFINE e == en[c]
           o == [e EXCEPT !.timer = "off"]
           i == SetClientClosed(o, "abandoned")
           m == [i EXCEPT !.lock = "timer"]
           f == IF i.complete THEN i ELSE SignalProvider(m)
<1>1. /\ timer.pc = "scan" /\ c \in timer.toScan /\ e.lock = "free"
      /\ ~e.processing /\ UNCHANGED <<client, running>>
      /\ en' = [en EXCEPT ![c] = f]
      /\ table' = TableAfter(c, i.complete)
      /\ timer' = [timer EXCEPT !.toScan = @ \ {c},
                     !.toClean = IF i.complete THEN @ ELSE @ \cup {c}]
  BY DEF ScanExpiresContext, ScanFindsExpired
<1>2. /\ e \in EnumerationContext /\ ContextInv(e, c \in table)
      /\ e.outcome = "none" => c \notin table
      /\ timer.toScan \subseteq table
      /\ c \notin timer.toClean
      /\ client \in [Clients -> ClientThread]
      /\ table \subseteq Contexts /\ timer \in TimerThread
      /\ running \in BOOLEAN
  BY <1>1, ContextKnown
<1>3. c \in table /\ e.outcome # "none" /\ (c \in table) = TRUE
  BY <1>1, <1>2
<1>4. /\ o \in EnumerationContext /\ ContextInv(o, TRUE)
      /\ o.outcome = e.outcome /\ o.saved = e.saved /\ o.lock = e.lock
      /\ o.provider = e.provider
  BY <1>2, <1>3, TimerOff
<1> HIDE DEF o
<1>5. /\ Frame(o, i) /\ i.closed /\ ~i.processing
      /\ i.outcome = IF o.outcome = "open" THEN "abandoned" ELSE o.outcome
  BY <1>4, SetClientClosedEffect
<1>6. ContextInv(i, TRUE)
  BY <1>3, <1>4, ClosingKeeps
<1> HIDE DEF i
<1>7. /\ i \in EnumerationContext /\ i.outcome \notin {"none", "open"}
      /\ i.saved = e.saved /\ i.lock = "free" /\ i.provider # "locked"
  <2>1. e.provider # "locked"
    BY <1>1, <1>2 DEF ContextInv
  <2> QED
    BY <1>1, <1>3, <1>4, <1>5, <2>1 DEF Frame
<1>8. /\ m \in EnumerationContext
      /\ m.closed = i.closed /\ m.complete = i.complete /\ m.cache = i.cache
      /\ m.outcome = i.outcome /\ m.sent = i.sent /\ m.returned = i.returned
      /\ m.provider = i.provider /\ m.lock = "timer" /\ m.saved = i.saved
      /\ m.error = i.error /\ m.zeroLen = i.zeroLen
  BY <1>7 DEF EnumerationContext
<1> HIDE DEF m
<1>9. /\ f \in EnumerationContext /\ ContextInv(f, TRUE)
      /\ f.saved = e.saved /\ f.outcome \notin {"none", "open"}
      /\ ~i.complete => f.lock = "timer"
      /\ i.complete => ContextInv(f, FALSE)
  <2>1. CASE i.complete
    <3>1. f = i
      BY <2>1
    <3>2. ContextInv(i, FALSE)
      BY <1>5, <1>6, <1>7, <2>1 DEF ContextInv
    <3> QED
      BY <1>6, <1>7, <2>1, <3>1, <3>2
  <2>2. CASE ~i.complete
    <3>1. ContextInv(m, TRUE)
      BY <1>6, <1>7, <1>8, LesserChangeKeeps
    <3>2. /\ Frame(m, f)
          /\ f.closed = m.closed /\ f.processing = m.processing
          /\ f.cache = m.cache /\ f.outcome = m.outcome
          /\ f.returned = m.returned
      BY <1>8, <2>2, SignalProviderEffect
    <3> HIDE DEF f
    <3>3. ContextInv(f, TRUE)
      BY <1>7, <1>8, <3>1, <3>2 DEF ContextInv, Frame
    <3> QED
      BY <1>7, <1>8, <2>2, <3>2, <3>3 DEF Frame
  <2> QED
    BY <2>1, <2>2
<1> HIDE DEF f
<1>10. /\ ContextInv(f, c \in table')
       /\ table' \subseteq Contexts
       /\ \A d \in Contexts \ {c} : (d \in table') = (d \in table)
       /\ timer.toScan \ {c} \subseteq table'
  <2>1. CASE i.complete
    <3>1. (c \in table') = FALSE /\ table' = table \ {c}
      BY <1>1, <2>1 DEF TableAfter
    <3>2. ContextInv(f, c \in table')
      BY <1>9, <2>1, <3>1
    <3> QED
      BY <1>2, <3>1, <3>2
  <2>2. CASE ~i.complete
    <3>1. table' = table
      BY <1>1, <2>2 DEF TableAfter
    <3>2. ContextInv(f, c \in table')
      BY <1>3, <1>9, <3>1
    <3> QED
      BY <1>2, <3>1, <3>2
  <2> QED
    BY <2>1, <2>2
<1>11. /\ timer' \in TimerThread /\ timer'.toScan = timer.toScan \ {c}
       /\ timer'.toClean \subseteq timer.toClean \cup {c}
       /\ c \in timer'.toClean => ~i.complete
  BY <1>1, <1>2 DEF TimerThread
<1>12. /\ client' \in [Clients -> ClientThread] /\ running' \in BOOLEAN
       /\ \A j \in Clients : client'[j] = client[j]
  BY <1>1, <1>2
<1>13. ContextStep(c, f)
  BY <1>1, <1>9, <1>10, <1>11, <1>12, Domains DEF ContextStep
<1> QED
  BY <1>9, <1>13, ContextStepKeeps

\* The timeout thread cleans up a context it kept locked.
LEMMA CleanContextKeeps ==
    ASSUME Inv, NEW c \in Contexts, CleanContext(c)
    PROVE  Inv'
<1> DEFINE e == en[c]
           f == Cleaned(e)
           j == e.saved
<1>1. /\ timer.pc = "clean" /\ c \in timer.toClean
      /\ en' = [en EXCEPT ![c] = f]
      /\ table' = TableAfter(c, GivesUp(e))
      /\ client' = IF AnswersDelayed(e)
                   THEN [client EXCEPT ![j] = Idle] ELSE client
      /\ timer' = [timer EXCEPT !.toClean = @ \ {c}]
      /\ UNCHANGED running
  BY DEF CleanContext
<1>2. /\ e \in EnumerationContext /\ ContextInv(e, c \in table)
      /\ e.lock = "timer" /\ c \in table
      /\ e.outcome = "open" => e.processing
      /\ client \in [Clients -> ClientThread]
      /\ table \subseteq Contexts /\ timer \in TimerThread
      /\ running \in BOOLEAN
  BY <1>1, ContextKnown
<1>3. ContextInv(e, TRUE)
  <2>1. (c \in table) = TRUE
    BY <1>2
  <2> QED
    BY <1>2, <2>1
<1>4. /\ f \in EnumerationContext
      /\ ContextInv(f, ~GivesUp(e))
      /\ f.saved = IF AnswersDelayed(e) THEN NoOne ELSE e.saved
      /\ f.outcome # "none"
  BY <1>2, <1>3, CleanedKeeps
<1>5. /\ f.outcome = "open" => e.outcome = "open"
      /\ ~AnswersDelayed(e) /\ f.outcome = "open" => f.processing = e.processing
  BY <1>2, CleanedOutcome
<1> HIDE DEF f
<1>6. ContextInv(f, c \in table')
  <2>1. (c \in table') = ~GivesUp(e)
    BY <1>1, <1>2 DEF TableAfter
  <2> QED
    BY <1>4, <2>1
<1>7. /\ table' \subseteq Contexts
      /\ \A d \in Contexts \ {c} : (d \in table') = (d \in table)
  BY <1>1, <1>2 DEF TableAfter
<1>8. /\ timer' \in TimerThread /\ timer'.toClean \subseteq timer.toClean
      /\ c \notin timer'.toClean /\ timer'.pc # "scan"
  BY <1>1, <1>2 DEF TimerThread
\* The client of the delayed request is answered.
<1>9. CASE AnswersDelayed(e)
  <2>1. j \in Clients /\ client[j].pc = "saved" /\ client[j].ctx = c
    BY <1>2, <1>9 DEF AnswersDelayed, Inv, DelayedWaits, EnumerationContext
  <2>2. client' = [client EXCEPT ![j] = Idle]
    BY <1>1, <1>9
  <2>3. /\ client' \in [Clients -> ClientThread] /\ client'[j] = Idle
        /\ \A i \in Clients \ {j} : client'[i] = client[i]
    BY <1>2, <2>1, <2>2, IdleThread
  <2>4. f.outcome = "open" => \A i \in Clients : ~Serves(i, c)'
    <3>1. Serves(j, c)
      BY <2>1 DEF Serves
    <3>2. e.outcome = "open" => \A i \in Clients \ {j} : ~Serves(i, c)
      BY <2>1, <3>1, NobodyElseServes
    <3>3. \A i \in Clients \ {j} : Serves(i, c)' = Serves(i, c)
      BY <2>3 DEF Serves
    <3>4. \A i \in Clients : i = j => ~Serves(i, c)'
      BY <2>3, IdleThread DEF Serves
    <3> QED
      BY <1>5, <3>2, <3>3, <3>4
  <2>5. \A i \in Clients :
          \/ client'[i] = client[i] /\ (en[c].saved = i => f.saved \in {i, NoOne})
          \/ /\ en[c].saved = i /\ f.saved = NoOne
             /\ client'[i].pc \in {"idle", "dropped"}
             /\ client'[i].pc = "dropped" => client'[i].ctx = c
             /\ client'[i].kind \in RequestKinds \cup {"none"}
    BY <1>4, <1>9, <2>3, IdleThread
  <2>6. ContextStep(c, f)
    BY <1>1, <1>2, <1>4, <1>5, <1>6, <1>7, <1>8, <1>9, <2>3, <2>4, <2>5, Domains
    DEF ContextStep
  <2> QED
    BY <1>4, <2>6, ContextStepKeeps
<1>10. CASE ~AnswersDelayed(e)
  <2>1. client' = client /\ f.saved = e.saved
    BY <1>1, <1>4, <1>10
  <2>2. ContextStep(c, f)
    BY <1>1, <1>2, <1>4, <1>5, <1>6, <1>7, <1>8, <1>10, <2>1, Domains
    DEF ContextStep
  <2> QED
    BY <1>4, <2>2, ContextStepKeeps
<1> QED
  BY <1>9, <1>10

\* The other steps of the timeout thread.
LEMMA TimerStepsKeep ==
    ASSUME Inv,
           \/ TimerWakes \/ ScanEnds \/ TimerLoops \/ TimerExits
           \/ \E c \in Contexts : ScanSkips(c)
    PROVE  Inv'
<1>1. /\ timer \in TimerThread /\ running \in BOOLEAN /\ table \subseteq Contexts
      /\ timer.pc = "scan" => timer.toScan \subseteq table
  BY DEF Inv, TypeOK, TimerHolds
<1>2. /\ UNCHANGED <<table, en, client>> /\ running' \in BOOLEAN
  BY <1>1 DEF TimerWakes, ScanEnds, TimerLoops, TimerExits, ScanSkips
<1>3. /\ timer' \in TimerThread /\ timer'.toClean = timer.toClean
      /\ timer'.pc = "scan" => timer'.toScan \subseteq table
  BY <1>1 DEF TimerWakes, ScanEnds, TimerLoops, TimerExits, ScanSkips, TimerThread
<1> QED
  BY <1>2, <1>3, TimerStepKeeps

-----------------------------------------------------------------------------
(* The invariant.                                                           *)

\* The invariant holds before the first request.
LEMMA InitInv == Init => Inv
<1> SUFFICES ASSUME Init PROVE Inv
  OBVIOUS
<1> DEFINE e == NewContext("none", "none")
<1>1. /\ table = {} /\ en = [c \in Contexts |-> e]
      /\ client = [k \in Clients |-> Idle]
      /\ timer = [pc |-> "off", toScan |-> {}, toClean |-> {}]
      /\ running = FALSE
  BY DEF Init
<1>2. NoChunk \in Chunks
  BY DEF NoChunk, Chunks, AllChunkKinds
<1>3. /\ e \in EnumerationContext
      /\ e.saved = NoOne /\ e.outcome = "none" /\ e.lock = "free"
      /\ e.cache = 0 /\ e.sent = 0 /\ e.returned = 0 /\ ~e.complete
      /\ e.provider = "none"
  BY <1>2 DEF NewContext, EnumerationContext
<1> HIDE DEF e
<1>4. 0 <= MaxCache + 0 /\ 0 <= MaxCache
  BY Numbers
<1>5. ContextInv(e, FALSE)
  BY <1>3, <1>4 DEF ContextInv
<1>6. \A c \in Contexts : en[c] = e /\ (c \in table) = FALSE
  BY <1>1
<1>7. ContextsInv
  BY <1>5, <1>6 DEF ContextsInv
<1>8. \A k \in Clients : client[k] = Idle
  BY <1>1
<1>9. timer \in TimerThread
  BY <1>1 DEF TimerThread
<1>10. TypeOK
  BY <1>1, <1>3, <1>9, IdleThread DEF TypeOK
<1>11. ClientHolds /\ TimerHolds /\ RequestsKnown
  BY <1>1, <1>8, IdleThread DEF ClientHolds, TimerHolds, RequestsKnown
<1>12. DelayedWaits /\ OneRequestAtATime
  BY <1>3, <1>6 DEF DelayedWaits, OneRequestAtATime
<1> QED
  BY <1>7, <1>10, <1>11, <1>12 DEF Inv

\* A rejected request changes nothing.
LEMMA StutterKeeps ==
    ASSUME Inv, UNCHANGED vars
    PROVE  Inv'
BY DEF Inv, vars, TypeOK, ContextsInv, ClientHolds, TimerHolds, RequestsKnown,
       DelayedWaits, OneRequestAtATime, Serves

\* Every step keeps the invariant.
LEMMA NextInv == Inv /\ [Next]_vars => Inv'
<1> SUFFICES ASSUME Inv, [Next]_vars PROVE Inv'
  OBVIOUS
<1>1. CASE RejectRequest \/ UNCHANGED vars
  BY <1>1, StutterKeeps DEF RejectRequest
<1>2. ASSUME NEW k \in Clients, ClientBegins(k) PROVE Inv'
  BY <1>2, OpenKeeps, FindContextKeeps DEF ClientBegins
<1>3. ASSUME NEW k \in Clients, ClientContinues(k) PROVE Inv'
  BY <1>3, UseReleasedContextKeeps, RejectKeeps, StartPullKeeps,
     LockToIssueKeeps, IssueResponseKeeps, DelayResponseKeeps,
     CloseEnumerationKeeps, ReleaseClosedKeeps
  DEF ClientContinues
<1>4. ASSUME NEW c \in Contexts,
             ProviderResponds(c) \/ ProviderContinues(c) \/ TimePasses(c)
      PROVE  Inv'
  BY <1>4, ProviderRespondsKeeps, ProviderLocksKeeps, ProviderPutsKeeps,
     ProviderMovesKeeps, TimePassesKeeps
  DEF ProviderContinues
<1>5. CASE TimerSteps
  BY <1>5, TimerStepsKeep, ScanExpiresRequestKeeps, ScanExpiresContextKeeps,
     CleanContextKeeps
  DEF TimerSteps
<1> QED
  BY <1>1, <1>2, <1>3, <1>4, <1>5 DEF Next

\* The inductive invariant holds of every behaviour.
THEOREM InvHolds == Spec => []Inv
BY InitInv, NextInv, PTL DEF Spec

-----------------------------------------------------------------------------
(* What it says.                                                            *)

\* Every variable keeps its type: the type invariant of the model, for every
\* number of clients, contexts and limits.
THEOREM TypesHold == Spec => []TypeOK
<1>1. Inv => TypeOK
  BY DEF Inv
<1> QED
  BY <1>1, InvHolds, PTL

\* At most one open or pull request is processed for an open enumeration: the
\* "processing" test of the pull and close handlers.
THEOREM ServesOne == Spec => []OneRequestAtATime
<1>1. Inv => OneRequestAtATime
  BY DEF Inv
<1> QED
  BY <1>1, InvHolds, PTL

\* No response of an open enumeration loses or repeats an object: getCache and
\* putCache account for each of them.
THEOREM LosesNothing == Spec => []NothingLostWhileOpen
<1>1. Inv => NothingLostWhileOpen
  BY DEF Inv, ContextsInv, ContextInv, NothingLostWhileOpen
<1> QED
  BY <1>1, InvHolds, PTL

\* endOfSequence without an error is sent only when the providers are done and
\* all they delivered was returned: setNextEnumerationState.
THEOREM EndsComplete == Spec => []FinishedMeansAllReturned
<1>1. Inv => FinishedMeansAllReturned
  BY DEF Inv, ContextsInv, ContextInv, FinishedMeansAllReturned
<1> QED
  BY <1>1, InvHolds, PTL

\* A context is deleted only when its client side is closed and its providers
\* are complete or given up: releaseContext and _removeContext.
THEOREM ReleasesWhenOver == Spec => []ReleasedWhenOver
<1>1. Inv => ReleasedWhenOver
  BY DEF Inv, ContextsInv, ContextInv, ReleasedWhenOver
<1> QED
  BY <1>1, InvHolds, PTL

\* The cache never holds more than its limit and one response: waitCacheSize.
THEOREM BoundsCache == Spec => []CacheBounded
<1>1. Inv => CacheBounded
  BY DEF Inv, ContextsInv, ContextInv, CacheBounded
<1> QED
  BY <1>1, InvHolds, PTL

-----------------------------------------------------------------------------
(* Delayed requests.                                                        *)

\* The context c becomes f in a step.  If a request waits in f, the step has
\* just made sure that there is nothing to return and that the timer runs, or
\* it waited before and the step left it so.
WaitStep(c, f) ==
    f.saved # NoOne /\ f.outcome = "open" =>
        /\ \/ f.cache = 0 /\ ~f.complete
           \/ /\ f.saved = en[c].saved /\ f.outcome = en[c].outcome
              /\ f.cache = en[c].cache /\ f.complete = en[c].complete
        /\ \/ f.timer # "off" \/ c \in timer'.toClean \/ "close" \in RequestKinds
           \/ /\ f.saved = en[c].saved /\ f.outcome = en[c].outcome
              /\ f.timer = en[c].timer
              /\ c \in timer.toClean => c \in timer'.toClean

WaitSteps == \A c \in Contexts : WaitStep(c, en'[c])

\* A step that changes the context c alone, as WaitStep says.
LEMMA OneWaits ==
    ASSUME Inv, NEW c \in Contexts, NEW f, en' = [en EXCEPT ![c] = f],
           timer.toClean \ {c} \subseteq timer'.toClean, WaitStep(c, f)
    PROVE  WaitSteps
<1>1. en'[c] = f /\ \A d \in Contexts \ {c} : en'[d] = en[d]
  BY DEF Inv, TypeOK
<1>2. \A d \in Contexts \ {c} : d \in timer.toClean => d \in timer'.toClean
  OBVIOUS
<1> QED
  BY <1>1, <1>2 DEF WaitSteps, WaitStep

\* A step that changes no context and cleans none up.
LEMMA NoneWaits ==
    ASSUME Inv, en' = en, timer.toClean \subseteq timer'.toClean
    PROVE  WaitSteps
BY DEF WaitSteps, WaitStep

\* The request of a thread at work is not the delayed one, and none else is.
LEMMA NoOtherWaits ==
    ASSUME Inv, NEW k \in Clients, NEW c \in Contexts, Serves(k, c),
           client[k].pc # "saved", en[c].outcome = "open"
    PROVE  en[c].saved = NoOne
<1>1. CASE en[c].saved # NoOne
  <2>1. PICK j \in Clients : j = en[c].saved
    BY <1>1 DEF Inv, TypeOK, EnumerationContext
  <2>2. client[j].pc = "saved" /\ client[j].ctx = c
    BY <1>1, <2>1 DEF Inv, DelayedWaits
  <2>3. Serves(j, c)
    BY <2>2 DEF Serves
  <2> QED
    BY <2>2, <2>3 DEF Inv, OneRequestAtATime
<1> QED
  BY <1>1

\* A delayed request of an open enumeration is being processed.
LEMMA DelayedIsServed ==
    ASSUME Inv, NEW c \in Contexts, en[c].saved # NoOne, en[c].outcome = "open"
    PROVE  /\ en[c].saved \in Clients /\ Serves(en[c].saved, c)
           /\ en[c].processing /\ ~en[c].closed
<1>1. en[c].saved \in Clients
  BY DEF Inv, TypeOK, EnumerationContext
<1>2. Serves(en[c].saved, c)
  BY <1>1 DEF Inv, DelayedWaits, Serves
<1>3. ~en[c].closed
  BY DEF Inv, ContextsInv, ContextInv
<1> QED
  BY <1>1, <1>2, <1>3 DEF Inv, OneRequestAtATime

\* A closed enumeration is not open.
LEMMA ClosedIsOver ==
    ASSUME NEW e \in EnumerationContext,
           NEW why \in {"finished", "failed", "abandoned"}
    PROVE  SetClientClosed(e, why).outcome # "open"
BY SetClientClosedEffect

\* Opening an enumeration and finding a context.
LEMMA BeginsWaits ==
    ASSUME Inv, NEW k \in Clients, ClientBegins(k)
    PROVE  WaitSteps
<1>1. PICK c \in Contexts :
        OpenEnumeration(k, c) \/ OpenQueryFails(k, c) \/ FindContext(k, c)
  BY DEF ClientBegins
<1>2. timer' = timer
  BY <1>1 DEF OpenEnumeration, OpenQueryFails, FindContext
<1>3. CASE OpenEnumeration(k, c) \/ OpenQueryFails(k, c)
  <2>1. PICK provider \in {"none", "idle"} :
           en' = [en EXCEPT ![c] = NewContext(provider, "open")]
    BY <1>3 DEF OpenEnumeration, OpenQueryFails
  <2>2. NewContext(provider, "open").saved = NoOne
    BY NewContextEffect
  <2>3. WaitStep(c, NewContext(provider, "open"))
    BY <2>2 DEF WaitStep
  <2> QED
    BY <1>2, <2>1, <2>3, OneWaits
<1>4. CASE FindContext(k, c)
  BY <1>2, <1>4, NoneWaits DEF FindContext
<1> QED
  BY <1>1, <1>3, <1>4

\* The requests that are rejected: only a close stops the timer of an open
\* context.
LEMMA RejectWaits ==
    ASSUME Inv, NEW k \in Clients,
           \/ RejectWrongPull(k) \/ RejectBusy(k)
           \/ RejectTimedOutPull(k) \/ RejectTimedOutClose(k)
           \/ CloseEnumeration(k)
    PROVE  WaitSteps
<1> DEFINE c == client[k].ctx
           e == en[c]
           o == [e EXCEPT !.timer = "off"]
<1>1. AtContextLock(k, "found") /\ timer' = timer
  BY DEF RejectWrongPull, RejectBusy, RejectTimedOutPull, RejectTimedOutClose,
         CloseEnumeration
<1>2. /\ c \in Contexts /\ e \in EnumerationContext
      /\ client[k].kind \in RequestKinds \cup {"none"} /\ ContextInv(e, TRUE)
  BY <1>1, AtLock
<1>3. o \in EnumerationContext /\ o.outcome = e.outcome /\ o.saved = e.saved
  BY <1>2, TimerOff
<1>4. CASE RejectWrongPull(k)
  <2>1. en' = [en EXCEPT ![c] = SetClientClosed(e, "abandoned")]
    BY <1>4 DEF RejectWrongPull
  <2>2. WaitStep(c, SetClientClosed(e, "abandoned"))
    BY <1>2, ClosedIsOver DEF WaitStep
  <2> HIDE DEF c, e
  <2> QED
    BY <1>1, <1>2, <2>1, <2>2, OneWaits
<1>5. CASE RejectBusy(k)
  BY <1>1, <1>5, NoneWaits DEF RejectBusy
<1>6. CASE RejectTimedOutPull(k)
  <2>1. en' = [en EXCEPT ![c] = SetClientClosed(o, "abandoned")]
    BY <1>6 DEF RejectTimedOutPull
  <2> HIDE DEF o
  <2>2. WaitStep(c, SetClientClosed(o, "abandoned"))
    BY <1>3, ClosedIsOver DEF WaitStep
  <2> HIDE DEF c, e
  <2> QED
    BY <1>1, <1>2, <2>1, <2>2, OneWaits
<1>7. CASE RejectTimedOutClose(k)
  <2>1. en' = [en EXCEPT ![c] = o] /\ "close" \in RequestKinds
    BY <1>2, <1>7 DEF RejectTimedOutClose
  <2>2. o.cache = e.cache /\ o.complete = e.complete
    BY <1>2 DEF EnumerationContext
  <2> HIDE DEF o
  <2>3. WaitStep(c, o)
    BY <1>3, <2>1, <2>2 DEF WaitStep
  <2> HIDE DEF c, e
  <2> QED
    BY <1>1, <1>2, <2>1, <2>3, OneWaits
<1>8. CASE CloseEnumeration(k)
  <2> DEFINE i == SetClientClosed(o, "abandoned")
             f == IF i.complete THEN [i EXCEPT !.lock = k] ELSE i
  <2>1. en' = [en EXCEPT ![c] = f]
    BY <1>8 DEF CloseEnumeration
  <2> HIDE DEF o
  <2>2. i \in EnumerationContext /\ i.outcome # "open"
    BY <1>3, SetClientClosedEffect, ClosedIsOver DEF Frame
  <2> HIDE DEF i
  <2>3. f.outcome # "open"
    BY <2>2 DEF EnumerationContext
  <2> HIDE DEF f
  <2>4. WaitStep(c, f)
    BY <2>3 DEF WaitStep
  <2> HIDE DEF c, e
  <2> QED
    BY <1>1, <1>2, <2>1, <2>4, OneWaits
<1> QED
  BY <1>4, <1>5, <1>6, <1>7, <1>8

\* The steps of an accepted pull up to the lock.
LEMMA PullWaits ==
    ASSUME Inv, NEW k \in Clients, StartPull(k) \/ LockToIssue(k)
    PROVE  WaitSteps
<1> DEFINE c == client[k].ctx
           e == en[c]
<1>1. CASE StartPull(k)
  <2> DEFINE f == [e EXCEPT !.processing = TRUE, !.timer = "off"]
  <2>1. AtContextLock(k, "found") /\ timer' = timer /\ ~e.processing
    BY <1>1 DEF StartPull
  <2>2. c \in Contexts /\ e \in EnumerationContext
    BY <2>1, AtLock
  <2>3. en' = [en EXCEPT ![c] = f]
    BY <1>1 DEF StartPull, Inv, TypeOK
  <2>4. f.saved = e.saved /\ f.outcome = e.outcome
    BY <2>2 DEF EnumerationContext
  <2> HIDE DEF f
  <2>5. ~(f.saved # NoOne /\ f.outcome = "open")
    BY <2>1, <2>2, <2>4, DelayedIsServed
  <2>6. WaitStep(c, f)
    BY <2>5 DEF WaitStep
  <2> HIDE DEF c, e
  <2> QED
    BY <2>1, <2>2, <2>3, <2>6, OneWaits
<1>2. CASE LockToIssue(k)
  <2> DEFINE i == CountPull(e, client[k].kind, client[k].count)
             f == [i EXCEPT !.lock = k]
  <2>1. /\ AtContextLock(k, "marked") /\ timer' = timer
        /\ en' = [en EXCEPT ![c] = f]
    BY <1>2 DEF LockToIssue
  <2>2. c \in Contexts /\ e \in EnumerationContext /\ client[k].pc = "marked"
    BY <2>1, AtLock
  <2>3. i.outcome = e.outcome /\ i.saved = e.saved /\ f.outcome = i.outcome /\ f.saved = i.saved
    BY <2>2 DEF CountPull, EnumerationContext
  <2> HIDE DEF f
  <2>4. Serves(k, c)
    BY <2>2 DEF Serves
  <2>5. ~(f.saved # NoOne /\ f.outcome = "open")
    BY <2>2, <2>3, <2>4, NoOtherWaits
  <2>6. WaitStep(c, f)
    BY <2>5 DEF WaitStep
  <2> HIDE DEF c, e
  <2> QED
    BY <2>1, <2>2, <2>6, OneWaits
<1> QED
  BY <1>1, <1>2

\* The steps of a request thread that holds the context lock.
LEMMA HolderWaits ==
    ASSUME Inv, NEW k \in Clients,
           IssueResponse(k) \/ DelayResponse(k) \/ ReleaseClosed(k)
    PROVE  WaitSteps
<1> DEFINE c == client[k].ctx
           e == en[c]
<1>1. client[k].pc \in {"locked", "releasing"}
  BY DEF IssueResponse, DelayResponse, ReleaseClosed
<1>2. /\ c \in Contexts /\ e \in EnumerationContext /\ ContextInv(e, TRUE)
      /\ client[k].count \in Nat
      /\ client[k].pc = "releasing" => e.closed
  BY <1>1, LockHeld
<1>3. timer'.toClean = timer.toClean
  BY DispatchEffect DEF IssueResponse, DelayResponse, ReleaseClosed
<1>4. CASE IssueResponse(k)
  <2> DEFINE i == IssueImmediateResponse(e, client[k].count)
             f == Unlocked(i)
  <2>1. client[k].pc = "locked" /\ en' = [en EXCEPT ![c] = f]
    BY <1>4 DEF IssueResponse
  <2>2. Issued(e, i)
    BY <1>2, IssueImmediateResponseEffect
  <2> HIDE DEF i
  <2>3. /\ i \in EnumerationContext /\ i.saved = e.saved
        /\ i.outcome = "open" => e.outcome = "open"
    BY <2>2 DEF Issued, Frame
  <2>4. f.saved = e.saved /\ (f.outcome = "open" => e.outcome = "open")
    BY <2>3 DEF Unlocked, EnumerationContext
  <2> HIDE DEF f
  <2>5. Serves(k, c)
    BY <2>1 DEF Serves
  <2>6. ~(f.saved # NoOne /\ f.outcome = "open")
    BY <1>2, <2>1, <2>4, <2>5, NoOtherWaits
  <2>7. WaitStep(c, f)
    BY <2>6 DEF WaitStep
  <2> HIDE DEF c, e
  <2> QED
    BY <1>2, <1>3, <2>1, <2>7, OneWaits
<1>5. CASE DelayResponse(k)
  <2> DEFINE f == Unlocked(SetupDelayedResponse(e, k, client[k].count))
  <2>1. en' = [en EXCEPT ![c] = f] /\ ~TestCacheForResponses(e, client[k].count)
    BY <1>5 DEF DelayResponse
  <2>2. e.cache = 0 /\ ~e.complete
    BY <1>2, <2>1 DEF TestCacheForResponses, EnumerationContext
  <2>3. f.timer = "armed" /\ f.cache = e.cache /\ f.complete = e.complete
    BY <1>2 DEF Unlocked, SetupDelayedResponse, EnumerationContext
  <2> HIDE DEF f
  <2>4. WaitStep(c, f)
    BY <2>2, <2>3 DEF WaitStep
  <2> HIDE DEF c, e
  <2> QED
    BY <1>2, <1>3, <2>1, <2>4, OneWaits
<1>6. CASE ReleaseClosed(k)
  <2>1. en' = [en EXCEPT ![c] = Unlocked(e)] /\ client[k].pc = "releasing"
    BY <1>6 DEF ReleaseClosed
  <2>2. e.outcome # "open"
    BY <1>2, <2>1 DEF ContextInv
  <2>3. Unlocked(e).outcome # "open"
    BY <1>2, <2>2 DEF Unlocked, EnumerationContext
  <2>4. WaitStep(c, Unlocked(e))
    BY <2>3 DEF WaitStep
  <2> HIDE DEF c, e
  <2> QED
    BY <1>2, <1>3, <2>1, <2>4, OneWaits
<1> QED
  BY <1>4, <1>5, <1>6

\* The thread of a response, but for the response itself, and time.
LEMMA ProviderWaitSteps ==
    ASSUME Inv, NEW c \in Contexts,
           \/ ProviderResponds(c) \/ ProviderLocks(c) \/ ProviderWaits(c)
           \/ ProviderUsesReleased(c) \/ TimePasses(c)
    PROVE  WaitSteps
<1> DEFINE e == en[c]
<1>1. e \in EnumerationContext
  BY ContextKnown
<1>2. timer' = timer
  BY DEF ProviderResponds, ProviderLocks, ProviderWaits, ProviderUsesReleased,
         TimePasses
<1>3. PICK f :
        /\ en' = [en EXCEPT ![c] = f]
        /\ f.saved = e.saved /\ f.outcome = e.outcome /\ f.cache = e.cache
        /\ f.complete = e.complete
        /\ f.timer = e.timer \/ f.timer # "off"
  <2>1. CASE ProviderResponds(c)
    <3>1. PICK chunk \in ProviderResponses(e) :
            en' = [en EXCEPT ![c] =
                    [e EXCEPT !.provider = "sending", !.chunk = chunk,
                              !.zeroLen = 0,
                              !.error = e.error \/ chunk.kind = "error"]]
      BY <2>1 DEF ProviderResponds
    <3> DEFINE f == [e EXCEPT !.provider = "sending", !.chunk = chunk,
                              !.zeroLen = 0,
                              !.error = e.error \/ chunk.kind = "error"]
    <3>2. /\ f.saved = e.saved /\ f.outcome = e.outcome /\ f.cache = e.cache
          /\ f.complete = e.complete /\ f.timer = e.timer
      BY <1>1 DEF EnumerationContext
    <3>3. en' = [en EXCEPT ![c] = f]
      BY <3>1
    <3> HIDE DEF f
    <3> QED
      BY <3>2, <3>3
  <2>2. CASE ProviderLocks(c)
    <3> DEFINE f == [e EXCEPT !.lock = "provider", !.provider = "locked"]
    <3>1. en' = [en EXCEPT ![c] = f]
      BY <2>2 DEF ProviderLocks, Inv, TypeOK
    <3>2. /\ f.saved = e.saved /\ f.outcome = e.outcome /\ f.cache = e.cache
          /\ f.complete = e.complete /\ f.timer = e.timer
      BY <1>1 DEF EnumerationContext
    <3> HIDE DEF f
    <3> QED
      BY <3>1, <3>2
  <2>3. CASE ProviderWaits(c)
    <3> DEFINE f == [e EXCEPT !.provider =
                        IF CacheOverfull(e) THEN "asleep" ELSE "idle"]
    <3>1. en' = [en EXCEPT ![c] = f]
      BY <2>3 DEF ProviderWaits, Inv, TypeOK
    <3>2. /\ f.saved = e.saved /\ f.outcome = e.outcome /\ f.cache = e.cache
          /\ f.complete = e.complete /\ f.timer = e.timer
      BY <1>1 DEF EnumerationContext
    <3> HIDE DEF f
    <3> QED
      BY <3>1, <3>2
  <2>4. CASE ProviderUsesReleased(c)
    <3> DEFINE f == [e EXCEPT !.provider = "undefined"]
    <3>1. en' = [en EXCEPT ![c] = f]
      BY <2>4 DEF ProviderUsesReleased, Inv, TypeOK
    <3>2. /\ f.saved = e.saved /\ f.outcome = e.outcome /\ f.cache = e.cache
          /\ f.complete = e.complete /\ f.timer = e.timer
      BY <1>1 DEF EnumerationContext
    <3> HIDE DEF f
    <3> QED
      BY <3>1, <3>2
  <2>5. CASE TimePasses(c)
    <3> DEFINE f == [e EXCEPT !.timer = "expired"]
    <3>1. en' = [en EXCEPT ![c] = f]
      BY <2>5 DEF TimePasses, Inv, TypeOK
    <3>2. /\ f.saved = e.saved /\ f.outcome = e.outcome /\ f.cache = e.cache
          /\ f.complete = e.complete /\ f.timer # "off"
      BY <1>1 DEF EnumerationContext
    <3> HIDE DEF f
    <3> QED
      BY <3>1, <3>2
  <2> QED
    BY <2>1, <2>2, <2>3, <2>4, <2>5
<1>4. WaitStep(c, f)
  BY <1>2, <1>3 DEF WaitStep
<1> HIDE DEF e
<1> QED
  BY <1>2, <1>3, <1>4, OneWaits

\* A request that still waits after a response found nothing in the cache.
LEMMA PutWaits ==
    ASSUME NEW e \in EnumerationContext, AfterPut(e).saved # NoOne
    PROVE  LET f == AfterPut(e) IN
           /\ f.cache = 0 /\ ~f.complete
           /\ f.saved = e.saved /\ f.outcome = e.outcome /\ f.timer = e.timer
<1> DEFINE p == Put(e)
<1>1. p \in EnumerationContext /\ p.saved = e.saved /\ p.outcome = e.outcome
  BY PutEffect
<1>2. p.timer = e.timer
  BY DEF Put, PutCache, EnumerationContext
<1>3. AfterPut(e) =
        IF p.saved = NoOne THEN p
        ELSE IF ~PutCacheAccepts(e) THEN [p EXCEPT !.saved = NoOne]
        ELSE IF TestCacheForResponses(p, p.want)
        THEN [IssueImmediateResponse(p, p.want)
                 EXCEPT !.saved = NoOne, !.want = 0]
        ELSE p
  BY DEF AfterPut, Put
<1> HIDE DEF p
<1> DEFINE i == IssueImmediateResponse(p, p.want)
<1>4. [p EXCEPT !.saved = NoOne].saved = NoOne
  BY <1>1 DEF EnumerationContext
<1>5. [i EXCEPT !.saved = NoOne, !.want = 0].saved = NoOne
  <2>1. i \in EnumerationContext
    BY <1>1, IssueImmediateResponseEffect DEF Issued, Frame, EnumerationContext
  <2> HIDE DEF i
  <2> QED
    BY <2>1 DEF EnumerationContext
<1> HIDE DEF i
<1>6. AfterPut(e) = p /\ ~TestCacheForResponses(p, p.want)
  BY <1>3, <1>4, <1>5 DEF i
<1>7. p.cache = 0 /\ ~p.complete
  BY <1>1, <1>6 DEF TestCacheForResponses, EnumerationContext
<1> QED
  BY <1>1, <1>2, <1>6, <1>7

\* A response of the providers.
LEMMA PutsWaits ==
    ASSUME Inv, NEW c \in Contexts, ProviderPuts(c)
    PROVE  WaitSteps
<1> DEFINE e == en[c]
           f == AfterPut(e)
           g == PutAndUnlocked(e)
<1>1. e.provider = "locked" /\ en' = [en EXCEPT ![c] = g]
  BY DEF ProviderPuts, PutAndUnlocked
<1>2. e \in EnumerationContext /\ ContextInv(e, c \in table)
  BY ContextKnown
<1>3. timer'.toClean = timer.toClean
  BY DispatchEffect DEF ProviderPuts
<1>4. f \in EnumerationContext
  BY <1>2, PutEffect, AfterPutEffect DEF SameButSaved
<1>5. f.saved # NoOne =>
        /\ f.cache = 0 /\ ~f.complete
        /\ f.saved = e.saved /\ f.outcome = e.outcome /\ f.timer = e.timer
  BY <1>2, PutWaits
\* The last response completes a context that is not closed at once.
<1>6. f.saved # NoOne /\ f.outcome = "open" => ~e.chunk.final
  <2>1. SUFFICES ASSUME f.saved # NoOne, f.outcome = "open", e.chunk.final
                 PROVE  FALSE
    BY <1>2 DEF EnumerationContext, Chunks
  <2>2. e.outcome = "open" /\ ~e.closed /\ ~f.complete /\ e.saved # NoOne
    BY <1>2, <1>5, <2>1 DEF ContextInv
  <2> DEFINE p == Put(e)
  <2>3. p \in EnumerationContext /\ p.saved = e.saved
    BY <1>2, PutEffect
  <2>4. PutCacheAccepts(e) => e.chunk.kind # "mismatch"
    BY <2>2 DEF PutCacheAccepts
  <2>5. f = p /\ PutCacheAccepts(e)
    BY <1>2, <2>1, <2>2, AfterPutEffect
  <2>6. p.complete
    BY <1>2, <2>1, <2>2, <2>4, <2>5 DEF Put, PutCache, EnumerationContext
  <2> QED
    BY <2>2, <2>5, <2>6
<1> HIDE DEF f
<1>7. /\ g.saved = f.saved /\ g.outcome = f.outcome /\ g.cache = f.cache
      /\ g.timer = f.timer /\ g.complete = (f.complete \/ e.chunk.final)
  BY <1>4 DEF PutAndUnlocked, EnumerationContext, f
<1> HIDE DEF g
<1>8. WaitStep(c, g)
  BY <1>3, <1>5, <1>6, <1>7 DEF WaitStep
<1> HIDE DEF e
<1> QED
  BY <1>1, <1>3, <1>8, OneWaits

\* What the scan finds expired: a delayed request goes to the clean-up.
LEMMA ScanWaits ==
    ASSUME Inv, NEW c \in Contexts,
           ScanExpiresRequest(c) \/ ScanExpiresContext(c)
    PROVE  WaitSteps
<1> DEFINE e == en[c]
<1>1. e \in EnumerationContext /\ timer \in TimerThread
  BY ContextKnown
<1>2. CASE ScanExpiresRequest(c)
  <2> DEFINE f == [e EXCEPT !.timer = "off", !.lock = "timer"]
  <2>1. en' = [en EXCEPT ![c] = f]
    BY <1>2 DEF ScanExpiresRequest, Inv, TypeOK
  <2>2. timer'.toClean = timer.toClean \cup {c}
    BY <1>1, <1>2 DEF ScanExpiresRequest, TimerThread
  <2>3. /\ f.saved = e.saved /\ f.outcome = e.outcome /\ f.cache = e.cache
        /\ f.complete = e.complete
    BY <1>1 DEF EnumerationContext
  <2> HIDE DEF f
  <2>4. WaitStep(c, f)
    BY <2>2, <2>3 DEF WaitStep
  <2> HIDE DEF e
  <2> QED
    BY <2>1, <2>2, <2>4, OneWaits
<1>3. CASE ScanExpiresContext(c)
  <2> DEFINE o == [e EXCEPT !.timer = "off"]
             i == SetClientClosed(o, "abandoned")
             m == [i EXCEPT !.lock = "timer"]
             f == IF i.complete THEN i ELSE SignalProvider(m)
  <2>1. en' = [en EXCEPT ![c] = f]
    BY <1>3 DEF ScanExpiresContext
  <2>2. timer.toClean \subseteq timer'.toClean
    BY <1>1, <1>3 DEF ScanExpiresContext, TimerThread
  <2>3. o \in EnumerationContext
    BY <1>1 DEF EnumerationContext
  <2> HIDE DEF o
  <2>4. i \in EnumerationContext /\ i.outcome # "open"
    BY <2>3, SetClientClosedEffect, ClosedIsOver DEF Frame
  <2> HIDE DEF i
  <2>5. m \in EnumerationContext /\ m.outcome = i.outcome
    BY <2>4 DEF EnumerationContext
  <2> HIDE DEF m
  <2>6. f.outcome # "open"
    BY <2>4, <2>5, SignalProviderEffect
  <2> HIDE DEF f
  <2>7. WaitStep(c, f)
    BY <2>6 DEF WaitStep
  <2> HIDE DEF e
  <2> QED
    BY <2>1, <2>2, <2>7, OneWaits
<1> QED
  BY <1>2, <1>3

\* The clean-up leaves no delayed request of an open enumeration.
LEMMA CleanWaits ==
    ASSUME Inv, NEW c \in Contexts, CleanContext(c)
    PROVE  WaitSteps
<1> DEFINE e == en[c]
           f == Cleaned(e)
<1>1. /\ c \in timer.toClean /\ en' = [en EXCEPT ![c] = f]
      /\ timer' = [timer EXCEPT !.toClean = @ \ {c}]
  BY DEF CleanContext
<1>2. /\ e \in EnumerationContext /\ timer \in TimerThread
      /\ ContextInv(e, c \in table) /\ e.lock = "timer" /\ c \in table
  BY <1>1, ContextKnown
<1>3. timer'.toClean = timer.toClean \ {c}
  BY <1>1, <1>2 DEF TimerThread
<1>4. ContextInv(e, TRUE)
  <2>1. (c \in table) = TRUE
    BY <1>2
  <2> QED
    BY <1>2, <2>1
<1>5. f.saved = IF AnswersDelayed(e) THEN NoOne ELSE e.saved
  BY <1>2, <1>4, CleanedKeeps
<1>6. f.outcome = "open" => e.outcome = "open"
  BY <1>2, CleanedOutcome
<1> HIDE DEF f
<1>7. ~(f.saved # NoOne /\ f.outcome = "open")
  BY <1>4, <1>5, <1>6 DEF AnswersDelayed, ContextInv
<1>8. WaitStep(c, f)
  BY <1>7 DEF WaitStep
<1> HIDE DEF e
<1> QED
  BY <1>1, <1>3, <1>8, OneWaits

\* Every step.
LEMMA NextWaits ==
    ASSUME Inv, [Next]_vars
    PROVE  WaitSteps
<1>1. CASE RejectRequest \/ UNCHANGED vars
  BY <1>1, NoneWaits DEF RejectRequest, vars
<1>2. ASSUME NEW k \in Clients, ClientContinues(k) PROVE WaitSteps
  <2>1. CASE UseReleasedContext(k)
    BY <2>1, NoneWaits DEF UseReleasedContext
  <2> QED
    BY <1>2, <2>1, RejectWaits, PullWaits, HolderWaits DEF ClientContinues
<1>3. ASSUME NEW c \in Contexts,
             ProviderResponds(c) \/ ProviderContinues(c) \/ TimePasses(c)
      PROVE  WaitSteps
  BY <1>3, ProviderWaitSteps, PutsWaits DEF ProviderContinues
<1>4. CASE TimerSteps
  <2>1. CASE \/ TimerWakes \/ ScanEnds \/ TimerLoops \/ TimerExits
             \/ \E c \in Contexts : ScanSkips(c)
    <3>1. en' = en /\ timer'.toClean = timer.toClean
      BY <2>1 DEF TimerWakes, ScanEnds, TimerLoops, TimerExits, ScanSkips,
                  Inv, TypeOK, TimerThread
    <3> QED
      BY <3>1, NoneWaits
  <2> QED
    BY <1>4, <2>1, ScanWaits, CleanWaits DEF TimerSteps
<1> QED
  BY <1>1, <1>2, <1>3, <1>4, BeginsWaits DEF Next

\* A request is delayed only while the cache is empty, the providers go on and
\* the request is the one in progress: the delayed branch of the open and pull
\* handlers, and putCache answering the request as soon as it can.
THEOREM DelaysOnlyForProviders == Spec => []DelayedOnlyForProviders
<1> DEFINE Empty == \A c \in Contexts :
                       en[c].saved # NoOne /\ en[c].outcome = "open" =>
                          en[c].cache = 0 /\ ~en[c].complete
<1>1. Init => Empty
  BY DEF Init, NewContext
<1>2. Inv /\ Empty /\ [Next]_vars => Empty'
  BY NextWaits DEF WaitSteps, WaitStep
<1>3. Inv /\ Empty => DelayedOnlyForProviders
  BY DelayedIsServed DEF DelayedOnlyForProviders
<1> QED
  BY <1>1, <1>2, <1>3, InvHolds, PTL DEF Spec

\* As long as no client closes enumerations, a delayed request is watched by
\* its timer or held by the timeout thread: every branch that stops the timer
\* ends the request or puts it into the list of the clean-up.
THEOREM WatchesDelayed ==
    ASSUME "close" \notin RequestKinds
    PROVE  Spec => []DelayedRequestWatched
<1>1. Init => DelayedRequestWatched
  BY DEF Init, NewContext, DelayedRequestWatched
<1>2. Inv /\ DelayedRequestWatched /\ [Next]_vars => DelayedRequestWatched'
  BY NextWaits DEF WaitSteps, WaitStep, DelayedRequestWatched
<1> QED
  BY <1>1, <1>2, InvHolds, PTL DEF Spec
=============================================================================
