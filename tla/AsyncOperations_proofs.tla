------------------------ MODULE AsyncOperations_proofs ------------------------
(***************************************************************************)
(* Proof that ServiceQueues implements AsyncOperations: every step of a    *)
(* thread takes each operation where a step of the abstract operation      *)
(* takes it, or leaves it alone.                                           *)
(***************************************************************************)
EXTENDS ServiceQueuesOwners_proofs

-----------------------------------------------------------------------------
(* The history of a node.                                                   *)

\* A node under way was handled once if a thread has it, and never before.
NodeHistory(n, busy) ==
    /\ n.at = "unsent" => n.handled = 0
    /\ n.at = "under way" => n.handled = IF busy THEN 1 ELSE 0
    /\ n.at # "freed" => n.taken = 0

HistoryEach == \A o \in Operations : NodeHistory(op[o], ~NoWorker(o, worker))
\* A service is closed only by an operation of the control thread.
ClosersInv == \A w \in Workers : worker[w].pc = "closing" => worker[w].op \in Control
HistoryInv == HistoryEach /\ ClosersInv

AsyncStep(m, n) == AsyncOperationsSpec!Step(AsyncOp(m), AsyncOp(n))
NodeSent(m, n) == m.at = "unsent" /\ n = [m EXCEPT !.at = "under way"]
NodeHandled(m, n) ==
    m.at = "under way" /\ m.handled = 0 /\ n = [m EXCEPT !.handled = 1]
NodeAnswered(m, n) ==
    m.at = "under way" /\ m.handled = 1 /\ n = [m EXCEPT !.at = "complete", !.reply = "ok"]
NodeRefused(m, n) ==
    m.at = "under way" /\ m.handled = 0 /\ n = [m EXCEPT !.at = "complete", !.reply = "nak"]
NodeTaken(m, n) == m.at = "complete" /\ m.taken = 0 /\ n = Taken(m)
NodeFreed(m, n) == m.at # "freed" /\ n = Free(m)

Abstract(status, n) == [status |-> status, handled |-> n.handled, taken |-> n.taken]

LEMMA Statuses ==
    ASSUME NEW n \in OpNode
    PROVE  /\ n.at = "unsent" => AsyncOp(n) = Abstract("unsent", n)
           /\ n.at = "under way" => AsyncOp(n) = Abstract("sent", n)
           /\ n.at = "complete" /\ n.reply = "nak" => AsyncOp(n) = Abstract("refused", n)
           /\ n.at = "complete" /\ n.reply # "nak" => AsyncOp(n) = Abstract("replied", n)
           /\ n.at = "freed" => AsyncOp(n) = Abstract("over", n)
<1>1. n.at \in {"unsent", "under way", "complete", "freed"}
  BY DEF OpNode
<1> QED
  BY <1>1 DEF AsyncOp, Abstract

\* What happens to a node is a step of the abstract operation.
LEMMA NodeSteps ==
    ASSUME NEW m \in OpNode, NEW n,
           NodeSent(m, n) \/ NodeHandled(m, n) \/ NodeAnswered(m, n) \/ NodeRefused(m, n)
               \/ NodeTaken(m, n) \/ NodeFreed(m, n)
    PROVE  AsyncStep(m, n)
<1>1. CASE NodeSent(m, n)
  <2>1. n \in OpNode /\ n.at = "under way" /\ n.handled = m.handled /\ n.taken = m.taken
    BY <1>1 DEF NodeSent, OpNode
  <2>2. AsyncOp(m) = Abstract("unsent", m) /\ AsyncOp(n) = Abstract("sent", m)
    BY <1>1, <2>1, Statuses DEF NodeSent, Abstract
  <2>3. AsyncOperationsSpec!Send(AsyncOp(m), AsyncOp(n))
    BY <2>2 DEF Abstract, AsyncOperationsSpec!Send
  <2> QED
    BY <2>3 DEF AsyncStep, AsyncOperationsSpec!Step
<1>2. CASE NodeHandled(m, n)
  <2>0. m.at = "under way" /\ m.handled = 0 /\ n = [m EXCEPT !.handled = 1]
    BY <1>2 DEF NodeHandled
  <2>1. /\ n \in OpNode /\ n.at = "under way" /\ n.handled = 1 /\ n.taken = m.taken
    BY <2>0 DEF OpNode
  <2>2. /\ AsyncOp(m) = [status |-> "sent", handled |-> 0, taken |-> m.taken]
        /\ AsyncOp(n) = [status |-> "sent", handled |-> 1, taken |-> m.taken]
    BY <2>0, <2>1, Statuses DEF Abstract
  <2>3. AsyncOperationsSpec!Handle(AsyncOp(m), AsyncOp(n))
    BY <2>2 DEF AsyncOperationsSpec!Handle
  <2> QED
    BY <2>3 DEF AsyncStep, AsyncOperationsSpec!Step
<1>3. CASE NodeAnswered(m, n)
  <2>1. /\ n \in OpNode /\ n.at = "complete" /\ n.reply = "ok"
        /\ n.handled = m.handled /\ n.taken = m.taken
    BY <1>3 DEF NodeAnswered, OpNode
  <2>2. /\ AsyncOp(m) = [status |-> "sent", handled |-> 1, taken |-> m.taken]
        /\ AsyncOp(n) = [status |-> "replied", handled |-> 1, taken |-> m.taken]
    BY <1>3, <2>1, Statuses DEF NodeAnswered, Abstract
  <2>3. AsyncOperationsSpec!Reply(AsyncOp(m), AsyncOp(n))
    BY <2>2 DEF AsyncOperationsSpec!Reply
  <2> QED
    BY <2>3 DEF AsyncStep, AsyncOperationsSpec!Step
<1>4. CASE NodeRefused(m, n)
  <2>1. /\ n \in OpNode /\ n.at = "complete" /\ n.reply = "nak"
        /\ n.handled = m.handled /\ n.taken = m.taken
    BY <1>4 DEF NodeRefused, OpNode
  <2>2. /\ AsyncOp(m) = [status |-> "sent", handled |-> 0, taken |-> m.taken]
        /\ AsyncOp(n) = [status |-> "refused", handled |-> 0, taken |-> m.taken]
    BY <1>4, <2>1, Statuses DEF NodeRefused, Abstract
  <2>3. AsyncOperationsSpec!Refuse(AsyncOp(m), AsyncOp(n))
    BY <2>2 DEF AsyncOperationsSpec!Refuse
  <2> QED
    BY <2>3 DEF AsyncStep, AsyncOperationsSpec!Step
<1>5. CASE NodeTaken(m, n)
  <2>0. m.at = "complete" /\ m.taken = 0 /\ n = [m EXCEPT !.at = "freed", !.taken = 1]
    BY <1>5 DEF NodeTaken, Taken
  <2>1. /\ n \in OpNode /\ n.at = "freed" /\ n.handled = m.handled /\ n.taken = 1
    BY <2>0 DEF OpNode
  <2> PICK status \in {"replied", "refused"} : AsyncOp(m) = Abstract(status, m)
    BY <2>0, Statuses
  <2>2. /\ AsyncOp(m) = [status |-> status, handled |-> m.handled, taken |-> 0]
        /\ AsyncOp(n) = [status |-> "over", handled |-> m.handled, taken |-> 1]
    BY <2>0, <2>1, Statuses DEF Abstract
  <2>3. AsyncOperationsSpec!Take(AsyncOp(m), AsyncOp(n))
    BY <2>2 DEF AsyncOperationsSpec!Take
  <2> QED
    BY <2>3 DEF AsyncStep, AsyncOperationsSpec!Step
<1>6. CASE NodeFreed(m, n)
  <2>1. /\ n \in OpNode /\ n.at = "freed" /\ n.handled = m.handled /\ n.taken = m.taken
    BY <1>6 DEF NodeFreed, Free, OpNode
  <2> PICK status \in {"unsent", "sent", "replied", "refused"} :
               AsyncOp(m) = Abstract(status, m)
    <3>1. m.at \in {"unsent", "under way", "complete"}
      BY <1>6 DEF NodeFreed, OpNode
    <3> QED
      BY <3>1, Statuses
  <2>2. /\ AsyncOp(m) = [status |-> status, handled |-> m.handled, taken |-> m.taken]
        /\ AsyncOp(n) = [status |-> "over", handled |-> m.handled, taken |-> m.taken]
    BY <2>1, Statuses DEF Abstract
  <2>3. AsyncOperationsSpec!End(AsyncOp(m), AsyncOp(n))
    BY <2>2 DEF AsyncOperationsSpec!End
  <2> QED
    BY <2>3 DEF AsyncStep, AsyncOperationsSpec!Step
<1> QED
  BY <1>1, <1>2, <1>3, <1>4, <1>5, <1>6

-----------------------------------------------------------------------------
(* What a step does to an operation.                                        *)

Follows(o) ==
    /\ op'[o] = op[o] \/ AsyncStep(op[o], op'[o])
    /\ NodeHistory(op'[o], ~NoWorker(o, worker'))
GoesOnAsync == (\A o \in Operations : Follows(o)) /\ ClosersInv'

\* A node that stays, with the thread that has it.
LEMMA NodeStays ==
    ASSUME HistoryInv, NEW o \in Operations, op'[o] = op[o],
           op[o].at # "under way" \/ (NoWorker(o, worker') <=> NoWorker(o, worker))
    PROVE  Follows(o)
<1>1. NodeHistory(op[o], ~NoWorker(o, worker))
  BY DEF HistoryInv, HistoryEach
<1> QED
  BY <1>1 DEF Follows, NodeHistory

LEMMA NothingHappens ==
    ASSUME HistoryInv, \A o \in Operations : op'[o] = op[o], SameWorkerOps
    PROVE  \A o \in Operations : Follows(o)
<1>1. \A o : NoWorker(o, worker') <=> NoWorker(o, worker)
  BY DEF SameWorkerOps, NoWorker
<1> QED
  BY <1>1, NodeStays

\* A node that is sent, to a service that lives or to one that is gone.
LEMMA SendFollows ==
    ASSUME Inv, OwnersInv, HistoryInv, NEW o \in Operations, op[o].at = "unsent", Send(o),
           SameWorkerOps
    PROVE  \A x \in Operations : Follows(x)
<1>0. op \in [Ops -> OpNode] /\ o \in Ops /\ op[o] \in OpNode
  BY TypeParts, OpTypes DEF Inv
<1>1. \A x \in Operations \ {o} : Follows(x)
  <2>1. \A x \in Operations \ {o} : op'[x] = op[x]
    BY <1>0, OpTypes DEF Send
  <2> QED
    BY <2>1, NodeStays DEF SameWorkerOps, NoWorker
<1>2. NodeHistory(op[o], ~NoWorker(o, worker))
  BY DEF HistoryInv, HistoryEach
<1>3. CASE op'[o] = [op[o] EXCEPT !.at = "under way"]
  <2>1. NoWorker(o, worker')
    BY <1>0 DEF OwnersInv, OneOwnerEach, OneOwnerOf, InUse, NoneHas, NoOwner, NoWorker,
                SameWorkerOps
  <2>2. AsyncStep(op[o], op'[o])
    BY <1>0, <1>3, NodeSteps DEF NodeSent
  <2>3. /\ op'[o].at = "under way" /\ op'[o].handled = op[o].handled
        /\ op'[o].taken = op[o].taken
    BY <1>0, <1>3 DEF OpNode
  <2>4. NodeHistory(op'[o], ~NoWorker(o, worker'))
    BY <1>2, <2>1, <2>3 DEF NodeHistory
  <2> QED
    BY <1>1, <2>2, <2>4 DEF Follows
<1>4. CASE op'[o] = [op[o] EXCEPT !.at = "freed"]
  <2>1. AsyncStep(op[o], op'[o])
    BY <1>0, <1>4, NodeSteps DEF NodeFreed, Free
  <2>2. op'[o].at = "freed"
    BY <1>0, <1>4 DEF OpNode
  <2> QED
    BY <1>1, <2>1, <2>2 DEF Follows, NodeHistory
<1> QED
  BY <1>0, <1>3, <1>4 DEF Send

\* A node that is answered by its handler, or refused by the router.
LEMMA CompleteFollows ==
    ASSUME Inv, HistoryInv, NEW o \in Operations, op[o].at = "under way",
           NEW reply \in {"ok", "nak"}, Complete(o, reply),
           reply = "nak" <=> NoWorker(o, worker),
           \A x \in Operations \ {o} : NoWorker(x, worker') <=> NoWorker(x, worker)
    PROVE  \A x \in Operations : Follows(x)
<1>0. op \in [Ops -> OpNode] /\ o \in Ops /\ op[o] \in OpNode
  BY TypeParts, OpTypes DEF Inv
<1>1. \A x \in Operations \ {o} : Follows(x)
  <2>1. \A x \in Operations \ {o} : op'[x] = op[x]
    BY <1>0, OpTypes DEF Complete
  <2> QED
    BY <2>1, NodeStays
<1>2. NodeHistory(op[o], ~NoWorker(o, worker))
  BY DEF HistoryInv, HistoryEach
<1>3. op'[o] = Answered(op[o], o, reply)
  BY <1>0 DEF Complete
<1>4. CASE FlagOf(o) = "forget"
  <2>1. op'[o] = Free(op[o])
    BY <1>3, <1>4 DEF Answered, Free
  <2>2. op'[o].at = "freed"
    BY <1>0, <2>1 DEF Free, OpNode
  <2>3. AsyncStep(op[o], op'[o])
    BY <1>0, <2>1, NodeSteps DEF NodeFreed
  <2> QED
    BY <1>1, <2>2, <2>3 DEF Follows, NodeHistory
<1>5. CASE FlagOf(o) # "forget"
  <2>1. op'[o] = [op[o] EXCEPT !.at = "complete", !.reply = reply]
    BY <1>3, <1>5 DEF Answered
  <2>2. op'[o].at = "complete" /\ op'[o].taken = op[o].taken
    BY <1>0, <2>1 DEF OpNode
  <2>3. NodeAnswered(op[o], op'[o]) \/ NodeRefused(op[o], op'[o])
    <3>1. op[o].handled = IF reply = "nak" THEN 0 ELSE 1
      BY <1>2 DEF NodeHistory
    <3> QED
      BY <2>1, <3>1 DEF NodeAnswered, NodeRefused
  <2>4. AsyncStep(op[o], op'[o])
    BY <1>0, <2>3, NodeSteps
  <2> QED
    BY <1>1, <1>2, <2>2, <2>4 DEF Follows, NodeHistory
<1> QED
  BY <1>4, <1>5

\* A node that is freed, by its sender or by whoever has it at its end.
LEMMA FreeFollows ==
    ASSUME Inv, HistoryInv, NEW o \in Operations,
           \/ op[o].at = "complete" /\ op'[o] = Taken(op[o])
           \/ op[o].at # "freed" /\ op'[o] = Free(op[o])
    PROVE  Follows(o)
<1>0. op[o] \in OpNode
  BY TypeParts, OpTypes DEF Inv
<1>1. NodeTaken(op[o], op'[o]) \/ NodeFreed(op[o], op'[o])
  BY DEF HistoryInv, HistoryEach, NodeHistory, NodeTaken, NodeFreed
<1>2. op'[o].at = "freed"
  BY <1>0 DEF Taken, Free, OpNode
<1> QED
  BY <1>0, <1>1, <1>2, NodeSteps DEF Follows, NodeHistory

-----------------------------------------------------------------------------
(* The steps, by thread.                                                    *)

\* A step after which no thread has begun to close a service leaves the closers.
LEMMA ClosersStay ==
    ASSUME HistoryInv, \A w \in Workers : \/ worker'[w] = worker[w]
                                          \/ worker'[w].pc # "closing"
                                          \/ worker'[w].op \in Control
    PROVE  ClosersInv'
BY DEF HistoryInv, ClosersInv

LEMMA SenderFollows ==
    ASSUME Inv, OwnersInv, HistoryInv, NEW o \in Operations, SendOperation(o)
    PROVE  GoesOnAsync
<1>1. op[o].at = "unsent" /\ Send(o) /\ UNCHANGED worker
  BY DEF SendOperation
<1>2. SameWorkerOps /\ ClosersInv'
  BY <1>1, ClosersStay DEF SameWorkerOps
<1> QED
  BY <1>1, <1>2, SendFollows DEF GoesOnAsync

\* A queue whose nodes are freed with it.
LEMMA FreedFromFollows ==
    ASSUME Inv, OwnersInv, HistoryInv, NEW q \in Seq(Ops), FreedFrom(q), SameWorkerOps,
           \A o \in Ops : ~Empty(o, q) => ~NoneHas(o)
    PROVE  \A o \in Operations : Follows(o)
<1>0. op \in [Ops -> OpNode] /\ Operations \subseteq Ops
  BY TypeParts, OpTypes DEF Inv
<1>1. ASSUME NEW o \in Operations, Empty(o, q)
      PROVE  Follows(o)
  <2>1. op'[o] = op[o]
    BY <1>0, <1>1, Emptied
  <2> QED
    BY <2>1, NodeStays DEF SameWorkerOps, NoWorker
<1>2. ASSUME NEW o \in Operations, ~Empty(o, q)
      PROVE  Follows(o)
  <2>1. op'[o] = Free(op[o])
    BY <1>0, <1>2 DEF FreedFrom, Empty, Places
  <2>2. op[o].at # "freed"
    BY <1>0, <1>2, OwnedInUse DEF OwnersInv, OneOwnerEach, InUse
  <2> QED
    BY <2>1, <2>2, FreeFollows
<1> QED
  BY <1>1, <1>2

LEMMA RouterFollows ==
    ASSUME Inv, OwnersInv, HistoryInv, Router
    PROVE  GoesOnAsync
<1>0. op \in [Ops -> OpNode] /\ routed \in Seq(Ops) /\ UNCHANGED worker
  BY TypeParts DEF Inv, Router, RouteOperation, CheckService, EnqueueOperation,
                   RefuseOperation, CloseCimom
<1>1. SameWorkerOps /\ ClosersInv'
  BY <1>0, ClosersStay DEF SameWorkerOps
<1>2. CASE UNCHANGED op
  BY <1>1, <1>2, NothingHappens DEF GoesOnAsync
<1>3. CASE RefuseOperation
  <2> PICK o : o = router.op
    OBVIOUS
  <2>1. o \in Ops
    BY <1>3 DEF RefuseOperation, Inv, RouterInv
  <2>2. InUse(o) /\ NoWorker(o, worker)
    BY <2>1, RouterHas
  <2>3. \A x : NoWorker(x, worker') <=> NoWorker(x, worker)
    BY <1>0
  <2>4. CASE op[o].at = "complete"
    <3>1. op' = [op EXCEPT ![o] = Free(op[o])]
      BY <1>3, <2>4 DEF RefuseOperation
    <3>2. op'[o] = Free(op[o]) /\ \A x \in Ops \ {o} : op'[x] = op[x]
      BY <1>0, <2>1, <3>1
    <3>3. o \in Operations => Follows(o)
      BY <2>4, <3>2, FreeFollows
    <3>4. \A x \in Operations \ {o} : Follows(x)
      BY <2>3, <3>2, NodeStays, OpTypes
    <3> QED
      BY <1>1, <3>3, <3>4 DEF GoesOnAsync
  <2>5. CASE op[o].at # "complete"
    <3>1. Complete(o, "nak") /\ op[o].at = "under way"
      BY <1>3, <2>2, <2>5 DEF RefuseOperation, InUse
    <3>2. CASE o \in Operations
      BY <1>1, <2>2, <2>3, <3>1, <3>2, CompleteFollows DEF GoesOnAsync
    <3>3. CASE o \notin Operations
      <4>1. \A x \in Operations : op'[x] = op[x]
        BY <1>0, <3>1, <3>3, OpTypes DEF Complete
      <4> QED
        BY <1>1, <4>1, NothingHappens DEF GoesOnAsync
    <3> QED
      BY <3>2, <3>3
  <2> QED
    BY <2>4, <2>5
<1>4. CASE CloseCimom
  <2>1. FreedFrom(routed)
    BY <1>4 DEF CloseCimom, FreedFrom
  <2>2. \A o \in Ops : ~Empty(o, routed) => ~NoneHas(o)
    BY DEF NoneHas, NoOwner
  <2> QED
    BY <1>0, <1>1, <2>1, <2>2, FreedFromFollows DEF GoesOnAsync
<1> QED
  BY <1>2, <1>3, <1>4 DEF Router, RouteOperation, CheckService, EnqueueOperation

LEMMA PollerFollows ==
    ASSUME Inv, OwnersInv, HistoryInv, Poller
    PROVE  GoesOnAsync
<1>0. worker \in [Workers -> WorkerRec] /\ UNCHANGED op
  BY TypeParts DEF Inv, Poller, PollerWakes, SkipService, NoWorkerLeft, StartWorker
<1>1. ASSUME NEW s \in Services, NEW w \in Workers, StartWorker(s, w)
      PROVE  SameWorkerOps /\ ClosersInv'
  <2>1. worker[w].pc = "idle"
        /\ worker' = [worker EXCEPT ![w] = [IdleWorker EXCEPT !.pc = "start", !.svc = s]]
    BY <1>1 DEF StartWorker
  <2>2. /\ worker'[w].pc = "start" /\ worker'[w].op = NoOne
        /\ \A v \in Workers \ {w} : worker'[v] = worker[v]
    BY <1>0, <2>1 DEF IdleWorker
  <2>3. worker[w].op = NoOne
    BY <2>1 DEF OwnersInv, HandsInv
  <2> QED
    BY <2>2, <2>3, ClosersStay DEF SameWorkerOps
<1>2. UNCHANGED worker => SameWorkerOps /\ ClosersInv'
  BY ClosersStay DEF SameWorkerOps
<1>3. SameWorkerOps /\ ClosersInv'
  BY <1>1, <1>2 DEF Poller, PollerWakes, SkipService, NoWorkerLeft
<1> QED
  BY <1>0, <1>3, NothingHappens DEF GoesOnAsync

\* The threads of the pool.
LEMMA GoesOnFollows ==
    ASSUME Inv, OwnersInv, HistoryInv, NEW w \in Workers, GoesOn(w)
    PROVE  GoesOnAsync
<1>1. /\ worker'[w].op = worker[w].op /\ \A v \in Workers \ {w} : worker'[v] = worker[v]
      /\ worker'[w].pc = "closing" => CloseService(w)
  BY ThreadHands
<1>2. UNCHANGED op
  BY DEF GoesOn, BeginWork, LeaveService, SignalPoller, UseDeletedService, CloseService
<1>3. SameWorkerOps
  BY <1>1 DEF SameWorkerOps
<1>4. CloseService(w) => worker[w].op \in Control
  BY DEF CloseService
<1>5. ClosersInv'
  BY <1>1, <1>4, ClosersStay
<1> QED
  BY <1>2, <1>3, <1>5, NothingHappens DEF GoesOnAsync

LEMMA DequeueFollows ==
    ASSUME Inv, OwnersInv, HistoryInv, NEW w \in Workers, DequeueOperation(w)
    PROVE  GoesOnAsync
<1> PICK s : s = worker[w].svc
  OBVIOUS
<1> PICK q : q = svc[s].incoming
  OBVIOUS
<1>0. /\ svc \in [Services -> Service] /\ worker \in [Workers -> WorkerRec]
      /\ op \in [Ops -> OpNode] /\ Operations \subseteq Ops
  BY TypeParts, OpTypes DEF Inv
<1>1. worker[w].pc = "loop"
  BY DEF DequeueOperation
<1>2. s \in Services /\ worker[w].op = NoOne
  BY <1>1 DEF Inv, WorkersInv, OwnersInv, HandsInv
<1>3. CASE q = <<>>
  <2>1. WorkerGoes(w, "leave") /\ UNCHANGED op
    BY <1>3 DEF DequeueOperation
  <2>2. /\ worker'[w].pc = "leave" /\ worker'[w].op = worker[w].op
        /\ \A v \in Workers \ {w} : worker'[v] = worker[v]
    BY <1>0, <2>1, WorkerWent
  <2>3. SameWorkerOps /\ ClosersInv'
    BY <2>2, ClosersStay DEF SameWorkerOps
  <2> QED
    BY <2>1, <2>3, NothingHappens DEF GoesOnAsync
<1>4. CASE q # <<>>
  <2> PICK o : o = Head(q)
    OBVIOUS
  <2>1. q \in Seq(Ops) /\ o \in Ops
    BY <1>0, <1>2, <1>4 DEF Service
  <2>2. /\ worker' = [worker EXCEPT ![w].pc = "handle", ![w].op = o]
        /\ op' = [op EXCEPT ![o].handled = IF op[o].at = "complete" THEN @ ELSE @ + 1]
    BY <1>4 DEF DequeueOperation
  <2>3. /\ worker'[w].pc = "handle" /\ worker'[w].op = o
        /\ \A v \in Workers \ {w} : worker'[v] = worker[v]
    BY <1>0, <2>2 DEF WorkerRec
  <2>4. ClosersInv'
    BY <2>3, ClosersStay
  <2>5. ASSUME NEW x \in Operations \ {o}
        PROVE  Follows(x)
    <3>1. \A v \in Workers : worker'[v].op = x <=> worker[v].op = x
      BY <1>0, <1>2, <2>3, OpTypes
    <3>2. op'[x] = op[x]
      BY <1>0, <2>2
    <3> QED
      BY <3>1, <3>2, NodeStays DEF NoWorker
  <2>6. ASSUME o \in Operations
        PROVE  Follows(o)
    <3>1. ~Empty(o, svc[s].incoming)
      BY <1>4, <2>1, Shifted
    <3>2. ~NoneHas(o)
      BY <1>2, <3>1 DEF NoneHas, NoOwner, NoQueue
    <3>3. InUse(o) /\ OneHas(o)
      BY <2>1, <3>2, OwnedInUse DEF OwnersInv, OneOwnerEach
    <3>4. NoWorker(o, worker)
      BY <1>2, <3>1, <3>3
      DEF OneHas, OneOwnerIn, ByRouted, ByRouter, ByWorker, ByQueue, NoQueue
    <3>5. CASE op[o].at = "complete"
      <4>1. op'[o] = op[o]
        BY <1>0, <2>1, <2>2, <3>5 DEF OpNode
      <4> QED
        BY <2>6, <3>5, <4>1, NodeStays
    <3>6. CASE op[o].at = "under way"
      <4>1. op[o].handled = 0 /\ op[o].taken = 0
        BY <2>6, <3>4, <3>6 DEF HistoryInv, HistoryEach, NodeHistory
      <4>2. op[o].handled + 1 = 1
        BY <4>1
      <4>3. op'[o] = [op[o] EXCEPT !.handled = op[o].handled + 1]
        BY <1>0, <2>1, <2>2, <3>6
      <4>4. op'[o] = [op[o] EXCEPT !.handled = 1]
        BY <4>2, <4>3
      <4>5. AsyncStep(op[o], op'[o])
        BY <1>0, <2>1, <3>6, <4>1, <4>4, NodeSteps DEF NodeHandled
      <4>6. op'[o].at = "under way" /\ op'[o].handled = 1 /\ op'[o].taken = 0
        BY <1>0, <2>1, <3>6, <4>1, <4>4 DEF OpNode
      <4>7. ~NoWorker(o, worker')
        BY <2>3 DEF NoWorker
      <4> QED
        BY <4>5, <4>6, <4>7 DEF Follows, NodeHistory
    <3> QED
      BY <3>3, <3>5, <3>6 DEF InUse
  <2> QED
    BY <2>4, <2>5, <2>6 DEF GoesOnAsync
<1> QED
  BY <1>3, <1>4

LEMMA WaitFollows ==
    ASSUME Inv, OwnersInv, HistoryInv, NEW w \in Workers,
           (\E o \in Operations : SendAndWait(w, o)) \/ WakeHandler(w)
    PROVE  GoesOnAsync
<1>0. worker \in [Workers -> WorkerRec] /\ op \in [Ops -> OpNode] /\ Operations \subseteq Ops
  BY TypeParts, OpTypes DEF Inv
<1>1. ASSUME NEW o \in Operations, SendAndWait(w, o)
      PROVE  GoesOnAsync
  <2>1. /\ op[o].at = "unsent" /\ Send(o)
        /\ worker' = [worker EXCEPT ![w].pc = "waiting", ![w].sub = o]
    BY <1>1 DEF SendAndWait
  <2>2. /\ worker'[w].pc = "waiting" /\ worker'[w].op = worker[w].op
        /\ \A v \in Workers \ {w} : worker'[v] = worker[v]
    BY <1>0, <2>1 DEF WorkerRec
  <2>3. SameWorkerOps /\ ClosersInv'
    BY <2>2, ClosersStay DEF SameWorkerOps
  <2> QED
    BY <2>1, <2>3, SendFollows DEF GoesOnAsync
<1>2. ASSUME WakeHandler(w)
      PROVE  GoesOnAsync
  <2> PICK o : o = worker[w].sub
    OBVIOUS
  <2>1. /\ worker[w].pc = "waiting" /\ op[o].at = "complete"
        /\ op' = [op EXCEPT ![o] = Taken(op[o])]
        /\ worker' = [worker EXCEPT ![w].pc = "handle", ![w].sub = NoOne]
    BY <1>2 DEF WakeHandler
  <2>2. /\ worker'[w].pc = "handle" /\ worker'[w].op = worker[w].op
        /\ \A v \in Workers \ {w} : worker'[v] = worker[v]
    BY <1>0, <2>1 DEF WorkerRec
  <2>3. SameWorkerOps /\ ClosersInv'
    BY <2>2, ClosersStay DEF SameWorkerOps
  <2>4. o \in Operations
    BY <2>1 DEF OwnersInv, HandsInv
  <2>5. op'[o] = Taken(op[o]) /\ \A x \in Operations \ {o} : op'[x] = op[x]
    BY <1>0, <2>1, <2>4
  <2>6. Follows(o)
    <3>1. op[o].at = "complete" /\ op'[o] = Taken(op[o])
      BY <2>1, <2>5
    <3> QED
      BY <2>4, <3>1, FreeFollows, Zenon
  <2>7. \A x \in Operations \ {o} : Follows(x)
    BY <2>3, <2>5, NodeStays DEF SameWorkerOps, NoWorker
  <2> QED
    BY <2>3, <2>6, <2>7 DEF GoesOnAsync
<1> QED
  BY <1>1, <1>2

LEMMA AnswerFollows ==
    ASSUME Inv, OwnersInv, HistoryInv, NEW w \in Workers,
           AnswerRequest(w) \/ RunCallback(w) \/ StopOrStartService(w) \/ AnswerClose(w)
    PROVE  GoesOnAsync
<1> PICK o : o = worker[w].op
  OBVIOUS
<1>0. worker \in [Workers -> WorkerRec] /\ op \in [Ops -> OpNode] /\ Operations \subseteq Ops
  BY TypeParts, OpTypes DEF Inv
<1>1. worker[w].pc \in {"handle", "closing"} /\ EndOperation(w)
  BY DEF AnswerRequest, RunCallback, StopOrStartService, AnswerClose, HandlesRequest, Handles
<1>2. o \in Ops
  BY <1>1 DEF Inv, WorkersInv
<1>3. /\ worker'[w].pc \in {"leave", "loop"} /\ worker'[w].op = NoOne
      /\ \A v \in Workers \ {w} : worker'[v] = worker[v]
  BY <1>0, <1>1, WorkerEnded
<1>4. ClosersInv'
  BY <1>3, ClosersStay
<1>5. \A x \in Operations \ {o} : NoWorker(x, worker') <=> NoWorker(x, worker)
  BY <1>0, <1>3, OpTypes DEF NoWorker
<1>6. CASE AnswerRequest(w)
  <2>1. o \in Operations /\ op[o].at = "under way" /\ Complete(o, "ok")
    BY <1>6 DEF AnswerRequest, HandlesRequest
  <2>2. ~NoWorker(o, worker)
    BY DEF NoWorker
  <2> QED
    BY <1>4, <1>5, <2>1, <2>2, CompleteFollows DEF GoesOnAsync
<1>7. CASE RunCallback(w)
  <2>1. o \in Operations /\ op[o].at = "complete" /\ op' = [op EXCEPT ![o] = Taken(op[o])]
    BY <1>7 DEF RunCallback, HandlesRequest
  <2>2. op'[o] = Taken(op[o]) /\ \A x \in Operations \ {o} : op'[x] = op[x]
    BY <1>0, <2>1
  <2>3. Follows(o)
    <3>1. op[o].at = "complete" /\ op'[o] = Taken(op[o])
      BY <2>1, <2>2
    <3> QED
      BY <2>1, <3>1, FreeFollows, Zenon
  <2>4. \A x \in Operations \ {o} : Follows(x)
    BY <1>5, <2>2, NodeStays
  <2> QED
    BY <1>4, <2>3, <2>4 DEF GoesOnAsync
<1>8. CASE StopOrStartService(w) \/ AnswerClose(w)
  <2>1. o \in Control /\ Complete(o, "ok")
    BY <1>8 DEF StopOrStartService, AnswerClose, HistoryInv, ClosersInv
  <2>2. o \notin Operations
    BY <2>1, NothingIsNoOne
  <2>3. \A x \in Operations : op'[x] = op[x]
    BY <1>0, <2>1, <2>2 DEF Complete
  <2>4. \A x \in Operations : Follows(x)
    BY <1>5, <2>2, <2>3, NodeStays
  <2> QED
    BY <1>4, <2>4 DEF GoesOnAsync
<1> QED
  BY <1>6, <1>7, <1>8

LEMMA WorkFollows ==
    ASSUME Inv, OwnersInv, HistoryInv, NEW w \in Workers, Work(w)
    PROVE  GoesOnAsync
BY GoesOnFollows, DequeueFollows, WaitFollows, AnswerFollows DEF Work, GoesOn

\* The thread that shuts the server down touches no operation of another, but for
\* those it frees with a service.
LEMMA ControlFollows ==
    ASSUME Inv, OwnersInv, HistoryInv, BeginShutdown \/ Shutdown
    PROVE  GoesOnAsync
<1>0. op \in [Ops -> OpNode] /\ Operations \subseteq Ops /\ control.todo \in Seq(Services)
  BY TypeParts, OpTypes DEF Inv, ControlRec
<1>1. UNCHANGED worker
  BY DEF BeginShutdown, Shutdown, StopService, SendNext, ServiceClosed, BeginDeletion,
         DeleteService, DieNow, DeregisterService, AwaitThreads, UnlistService, CloseRouter,
         DeletePool, ClearService
<1>2. SameWorkerOps /\ ClosersInv'
  BY <1>1, ClosersStay DEF SameWorkerOps
<1>3. \A k \in {"stop", "start", "close"}, s \in Services :
          ControlOp(k, s) \notin Operations /\ CimomClose \notin Operations
  BY OpTypes, NothingIsNoOne
<1>4. \A x : x \notin Operations /\ Send(x) => \A o \in Operations : op'[o] = op[o]
  BY <1>0 DEF Send
<1>5. CASE BeginShutdown \/ BeginDeletion \/ DieNow \/ DeregisterService \/ AwaitThreads
               \/ UnlistService \/ DeletePool
  <2>1. UNCHANGED op
    BY <1>5 DEF BeginShutdown, BeginDeletion, DieNow, DeregisterService, AwaitThreads,
                UnlistService, DeletePool
  <2> QED
    BY <1>2, <2>1, NothingHappens DEF GoesOnAsync
<1>6. CASE StopService \/ DeleteService
  <2>1. control.todo # <<>>
    BY <1>6 DEF StopService, DeleteService
  <2>2. Head(control.todo) \in Services
    BY <1>0, <2>1
  <2>3. \A o \in Operations : op'[o] = op[o]
    BY <1>3, <1>4, <1>6, <2>2 DEF StopService, DeleteService
  <2> QED
    BY <1>2, <2>3, NothingHappens DEF GoesOnAsync
<1>7. CASE SendNext
  <2> PICK k : k = control.pc
    OBVIOUS
  <2> PICK s : s = control.svc
    OBVIOUS
  <2>1. /\ k \in {"stop", "start"}
        /\ op' = [op EXCEPT ![ControlOp(k, s)] = Taken(@),
                            ![ControlOp(Sequel[k], s)].at = "under way"]
    BY <1>7 DEF SendNext
  <2>2. s \in Services /\ Sequel[k] \in {"start", "close"}
    <3>1. Sequel["stop"] = "start" /\ Sequel["start"] = "close"
      BY DEF Sequel
    <3> QED
      BY <2>1, <3>1 DEF Inv, ControlInv
  <2>3. ControlOp(k, s) \notin Operations /\ ControlOp(Sequel[k], s) \notin Operations
    BY <1>3, <2>1, <2>2
  <2>4. \A o \in Operations : op'[o] = op[o]
    BY <1>0, <2>1, <2>3
  <2> QED
    BY <1>2, <2>4, NothingHappens DEF GoesOnAsync
<1>8. CASE ServiceClosed
  <2>1. /\ control.svc \in Services
        /\ op' = [op EXCEPT ![ControlOp("close", control.svc)] =
                                Taken(op[ControlOp("close", control.svc)])]
    BY <1>8 DEF ServiceClosed, Inv, ControlInv
  <2>2. ControlOp("close", control.svc) \notin Operations
    BY <1>3, <2>1
  <2>3. \A o \in Operations : op'[o] = op[o]
    BY <1>0, <2>1, <2>2
  <2> QED
    BY <1>2, <2>3, NothingHappens DEF GoesOnAsync
<1>9. CASE CloseRouter
  <2>1. Send(CimomClose) /\ CimomClose \notin Operations
    BY <1>9, OpTypes DEF CloseRouter
  <2>2. \A o \in Operations : op'[o] = op[o]
    BY <1>4, <2>1
  <2> QED
    BY <1>2, <2>2, NothingHappens DEF GoesOnAsync
<1>10. CASE ClearService
  <2> PICK s : s = control.svc
    OBVIOUS
  <2> PICK q : q = svc[s].incoming
    OBVIOUS
  <2>1. FreedFrom(q)
    BY <1>10 DEF ClearService, FreedFrom
  <2>2. s \in Services
    BY <1>10 DEF ClearService, Inv, ControlInv
  <2>3. q \in Seq(Ops)
    BY <2>2, TypeParts DEF Inv, Service
  <2>4. \A o \in Ops : ~Empty(o, q) => ~NoneHas(o)
    BY <2>2 DEF NoneHas, NoOwner, NoQueue
  <2>5. \A o \in Operations : Follows(o)
    BY <1>2, <2>1, <2>3, <2>4, FreedFromFollows
  <2> QED
    BY <1>2, <2>5 DEF GoesOnAsync
<1> QED
  BY <1>5, <1>6, <1>7, <1>8, <1>9, <1>10 DEF Shutdown

-----------------------------------------------------------------------------
(* The implementation.                                                      *)

LEMMA InitHistory ==
    ASSUME Init
    PROVE  HistoryInv /\ AsyncOperationsSpec!Init
<1>1. /\ \A o \in Ops : op[o].at = "unsent" /\ op[o].handled = 0 /\ op[o].taken = 0
      /\ \A w \in Workers : worker[w].pc = "idle"
  BY DEF Init, NewOp, IdleWorker
<1>2. Operations \subseteq Ops
  BY OpTypes
<1>3. HistoryInv
  BY <1>1, <1>2 DEF HistoryInv, HistoryEach, NodeHistory, ClosersInv
<1>4. \A o \in Operations : AsyncOp(op[o]) = [status |-> "unsent", handled |-> 0, taken |-> 0]
  BY <1>1, <1>2 DEF AsyncOp
<1> QED
  BY <1>3, <1>4 DEF AsyncOperationsSpec!Init

LEMMA NextHistory ==
    ASSUME Inv, OwnersInv, HistoryInv, [Next]_vars
    PROVE  /\ HistoryInv'
           /\ AsyncOperationsSpec!Next
                  \/ UNCHANGED [o \in Operations |-> AsyncOp(op[o])]
<1>1. GoesOnAsync
  <2>1. CASE UNCHANGED vars
    <3>1. UNCHANGED <<op, worker>>
      BY <2>1 DEF vars
    <3>2. SameWorkerOps /\ ClosersInv'
      BY <3>1, ClosersStay DEF SameWorkerOps
    <3> QED
      BY <3>1, <3>2, NothingHappens DEF GoesOnAsync
  <2> QED
    BY <2>1, SenderFollows, RouterFollows, PollerFollows, WorkFollows, ControlFollows
    DEF Next
<1>2. HistoryInv'
  BY <1>1 DEF GoesOnAsync, Follows, HistoryInv, HistoryEach
<1> DEFINE S == {o \in Operations : AsyncStep(op[o], op'[o])}
<1>3. /\ S \in SUBSET Operations
      /\ \A o \in S : AsyncOperationsSpec!Step(AsyncOp(op[o]), AsyncOp(op'[o]))
      /\ \A o \in Operations \ S : AsyncOp(op'[o]) = AsyncOp(op[o])
  BY <1>1 DEF GoesOnAsync, Follows, AsyncStep
<1>4. AsyncOperationsSpec!Next
  BY <1>3 DEF AsyncOperationsSpec!Next
<1> QED
  BY <1>2, <1>4

\* Every operation goes as AsyncOperations promises, whatever the services, their
\* threads and the shutdown do: it is handled at most once, answered by its handler
\* or refused without having been handled, and its answer is taken once.
THEOREM AsyncOperationsImplemented == Spec => ImplementsAsyncOperations
<1>1. Init => AsyncOperationsSpec!Init /\ HistoryInv
  BY InitHistory
<1>2. Inv /\ OwnersInv /\ HistoryInv /\ [Next]_vars
          => HistoryInv' /\ [AsyncOperationsSpec!Next]_([o \in Operations |-> AsyncOp(op[o])])
  BY NextHistory
<1> QED
  BY <1>1, <1>2, OwnersHold, PTL
  DEF Spec, ImplementsAsyncOperations, AsyncOperationsSpec!Spec
=============================================================================
