------------------------ MODULE ServiceQueues_proofs ------------------------
(***************************************************************************)
(* Proofs about ServiceQueues.  The inductive invariant says what the end  *)
(* of a service has reached: after each wait of the destructor, what was   *)
(* waited for does not come back.                                          *)
(***************************************************************************)
EXTENDS ServiceQueues, FiniteSetTheorems, SequenceTheorems, TLAPS

-----------------------------------------------------------------------------
(* The inductive invariant.                                                 *)

WorkerRec == [pc : WorkerPcs, svc : Services \cup {NoOne},
              op : Ops \cup {NoOne}, sub : Ops \cup {NoOne}]
RouterRec == [pc : {"wait", "check", "enqueue", "refuse", "ended", "undefined"},
              op : Ops \cup {NoOne}, svc : Services \cup {NoOne}]
PollerRec == [pc : {"wait", "scan", "ended"}, toScan : SUBSET Services]
ControlPcs == {"serving", "closing", "stop", "start", "close", "deleting",
               "awaitClosed", "deregister", "awaitThreads", "unlist", "join",
               "joinRouter", "clear", "done"}
ControlRec == [pc : ControlPcs, svc : Services \cup {NoOne}, todo : Seq(Services)]

\* A thread without a service is idle or about to be; it handles an operation.
WorkersInv ==
    \A w \in Workers :
        /\ worker[w].pc \in {"idle", "signal"} => worker[w].svc = NoOne
        /\ worker[w].pc \notin {"idle", "signal"} => worker[w].svc \in Services
        /\ worker[w].pc \in {"handle", "waiting", "closing"} => worker[w].op \in Ops

\* The router holds a service that it monitors while it looks at it.
RouterInv ==
    /\ router.pc \in {"check", "enqueue", "refuse"} =>
           router.op \in Ops /\ router.svc \in Services
    /\ router.pc \in {"check", "enqueue"} => svc[router.svc].registered = "monitored"

\* The poller looks at services in the list.
PollerInv ==
    /\ poller.pc # "scan" => poller.toScan = {}
    /\ \A s \in poller.toScan : svc[s].listed

\* The control thread is at a service that it closes or deletes.
ControlInv ==
    control.pc \in {"stop", "start", "close"} \cup {"awaitClosed", "deregister",
                   "awaitThreads", "unlist", "join", "joinRouter", "clear"}
        => control.svc \in Services /\ control.todo # <<>>

\* The steps after each wait in the destructor of a service.
AfterUnlist == {"join", "joinRouter", "clear"}
AfterThreads == {"unlist"} \cup AfterUnlist
AfterDeregister == {"awaitThreads"} \cup AfterThreads
AfterDie == {"deregister"} \cup AfterDeregister
Passed(s, steps) == svc[s].phase = "gone" \/ (control.svc = s /\ control.pc \in steps)

EndsInv ==
    \A s \in Services :
        /\ Passed(s, AfterDie) => svc[s].die
        /\ Passed(s, AfterDeregister) => svc[s].registered = "no"
        /\ Passed(s, AfterThreads) => svc[s].threads = 0
        /\ Passed(s, AfterUnlist) => ~svc[s].listed

Inv == /\ TypeOK /\ WorkersInv /\ RouterInv /\ PollerInv /\ ControlInv
       /\ ThreadsCounted /\ EndsInv

-----------------------------------------------------------------------------
(* Types.                                                                   *)

LEMMA TypeParts ==
    TypeOK <=> /\ svc \in [Services -> Service]
               /\ op \in [Ops -> OpNode]
               /\ routed \in Seq(Ops)
               /\ router \in RouterRec
               /\ poller \in PollerRec
               /\ polls \in Nat /\ stopped \in BOOLEAN
               /\ worker \in [Workers -> WorkerRec]
               /\ control \in ControlRec
BY DEF TypeOK, RouterRec, PollerRec, WorkerRec, ControlRec, ControlPcs

\* Operations go to services, and answers to callbacks back to one.
LEMMA OpTypes ==
    /\ \A o \in Ops \ {CimomClose} : ServiceOf(o) \in Services /\ Destination(o) \in Services
    /\ \A o \in Ops : FlagOf(o) = "callback" => o \in Operations
    /\ Control \subseteq Ops /\ Operations \subseteq Ops /\ CimomClose \in Ops
    /\ CimomClose \notin Operations \cup Control
    /\ \A o \in Control : o.to \in Services /\ o.kind \in {"stop", "start", "close"}
    /\ NoOne \notin Ops /\ NoOne \notin Services
    /\ \A k \in {"stop", "start", "close"}, s \in Services : ControlOp(k, s) \in Control
<1>1. CimomClose \notin Control
  BY NothingIsNoOne DEF CimomClose, Control
<1>2. \A o \in Control : o.to \in Services /\ o.kind \in {"stop", "start", "close"}
  BY DEF Control
<1>3. \A k \in {"stop", "start", "close"}, s \in Services : ControlOp(k, s) \in Control
  BY DEF Control, ControlOp
<1>4. ASSUME NEW o \in Ops, FlagOf(o) = "callback"
      PROVE  o \in Operations
  BY <1>4 DEF FlagOf
<1>5. ASSUME NEW o \in Ops \ {CimomClose}
      PROVE  ServiceOf(o) \in Services /\ Destination(o) \in Services
  <2>1. ServiceOf(o) \in Services
    BY <1>2, OperationsAreSent DEF ServiceOf, Ops
  <2>2. FlagOf(o) = "callback" => From[o] \in Services
    BY <1>4, OperationsAreSent
  <2> QED
    BY <2>1, <2>2 DEF Destination
<1> QED
  BY <1>1, <1>2, <1>3, <1>4, <1>5, NothingIsNoOne DEF Ops

\* What an operation node becomes.
LEMMA NodeTypes ==
    ASSUME NEW x \in OpNode, NEW o
    PROVE  /\ \A reply \in {"ok", "nak"} : Answered(x, o, reply) \in OpNode
           /\ Free(x) \in OpNode /\ Taken(x) \in OpNode
           /\ \A at \in {"freed", "under way"} : [x EXCEPT !.at = at] \in OpNode
           /\ [x EXCEPT !.handled = @ + 1] \in OpNode
<1>1. ASSUME NEW at \in {"unsent", "under way", "complete", "freed"}
      PROVE  [x EXCEPT !.at = at] \in OpNode
  BY DEF OpNode
<1>2. ASSUME NEW reply \in {"ok", "nak"}
      PROVE  [x EXCEPT !.at = "complete", !.reply = reply] \in OpNode
  BY DEF OpNode
<1>3. [x EXCEPT !.at = "freed", !.taken = x.taken + 1] \in OpNode
  <2>0. x.taken \in Nat
    BY DEF OpNode
  <2>1. x.taken + 1 \in Nat
    BY <2>0
  <2> DEFINE k == x.taken + 1
  <2> HIDE DEF k
  <2>2. [x EXCEPT !.at = "freed", !.taken = k] \in OpNode
    BY <2>1 DEF OpNode, k
  <2> QED
    BY <2>2 DEF k
<1>4. [x EXCEPT !.handled = @ + 1] \in OpNode
  <2>0. x.handled \in Nat
    BY DEF OpNode
  <2>1. x.handled + 1 \in Nat
    BY <2>0
  <2> DEFINE k == x.handled + 1
  <2> HIDE DEF k
  <2>2. [x EXCEPT !.handled = k] \in OpNode
    BY <2>1 DEF OpNode, k
  <2> QED
    BY <2>2 DEF k
<1> QED
  BY <1>1, <1>2, <1>3, <1>4 DEF Answered, Free, Taken

\* What sending and completing an operation does to nodes and to the router's queue.
LEMMA SendType ==
    ASSUME op \in [Ops -> OpNode], routed \in Seq(Ops), NEW o \in Ops, Send(o)
    PROVE  op' \in [Ops -> OpNode] /\ routed' \in Seq(Ops)
<1> DEFINE at == IF FlagOf(o) = "forget" THEN "freed" ELSE "under way"
<1>1. [op[o] EXCEPT !.at = at] \in OpNode /\ [op[o] EXCEPT !.at = "under way"] \in OpNode
  BY NodeTypes
<1> HIDE DEF at
<1>2. CASE op' = [op EXCEPT ![o].at = at] /\ UNCHANGED routed
  BY <1>1, <1>2
<1>3. CASE op' = [op EXCEPT ![o].at = "under way"] /\ routed' = Append(routed, o)
  <2>1. op' = [op EXCEPT ![o] = [op[o] EXCEPT !.at = "under way"]]
    BY <1>3
  <2>2. op' \in [Ops -> OpNode]
    BY <1>1, <2>1
  <2>3. Append(routed, o) \in Seq(Ops)
    OBVIOUS
  <2> QED
    BY <1>3, <2>2, <2>3
<1> QED
  BY <1>2, <1>3 DEF Send, at

LEMMA CompleteType ==
    ASSUME op \in [Ops -> OpNode], routed \in Seq(Ops), NEW o \in Ops,
           NEW reply \in {"ok", "nak"}, Complete(o, reply)
    PROVE  op' \in [Ops -> OpNode] /\ routed' \in Seq(Ops)
<1>1. Answered(op[o], o, reply) \in OpNode
  BY NodeTypes
<1>2. op' = [op EXCEPT ![o] = Answered(op[o], o, reply)]
  BY DEF Complete
<1>3. routed' \in Seq(Ops)
  BY DEF Complete
<1> HIDE DEF Answered
<1> QED
  BY <1>1, <1>2, <1>3

\* A field of a service or of a thread that is set.
LEMMA ServiceFields ==
    ASSUME NEW f \in [Services -> Service], NEW s \in Services
    PROVE  /\ f[s] \in Service
           /\ \A n \in Nat : [f EXCEPT ![s].threads = n] \in [Services -> Service]
           /\ \A b \in BOOLEAN : /\ [f EXCEPT ![s].running = b] \in [Services -> Service]
                                 /\ [f EXCEPT ![s].closed = b] \in [Services -> Service]
                                 /\ [f EXCEPT ![s].die = b] \in [Services -> Service]
                                 /\ [f EXCEPT ![s].listed = b] \in [Services -> Service]
           /\ \A r \in {"yes", "monitored", "no"} :
                  [f EXCEPT ![s].registered = r] \in [Services -> Service]
           /\ \A q \in Seq(Ops) : [f EXCEPT ![s].incoming = q] \in [Services -> Service]
           /\ \A p \in {"up", "deleting", "gone"} :
                  [f EXCEPT ![s].phase = p] \in [Services -> Service]
<1> DEFINE e == f[s]
<1>0. e \in Service /\ \A r \in Service : [f EXCEPT ![s] = r] \in [Services -> Service]
  OBVIOUS
<1>1. \A n \in Nat : [e EXCEPT !.threads = n] \in Service
  BY <1>0 DEF Service
<1>2. \A b \in BOOLEAN : [e EXCEPT !.running = b] \in Service
  BY <1>0 DEF Service
<1>3. \A b \in BOOLEAN : [e EXCEPT !.closed = b] \in Service
  BY <1>0 DEF Service
<1>4. \A b \in BOOLEAN : [e EXCEPT !.die = b] \in Service
  BY <1>0 DEF Service
<1>5. \A b \in BOOLEAN : [e EXCEPT !.listed = b] \in Service
  BY <1>0 DEF Service
<1>6. \A r \in {"yes", "monitored", "no"} : [e EXCEPT !.registered = r] \in Service
  BY <1>0 DEF Service
<1>7. \A q \in Seq(Ops) : [e EXCEPT !.incoming = q] \in Service
  BY <1>0 DEF Service
<1>8. \A p \in {"up", "deleting", "gone"} : [e EXCEPT !.phase = p] \in Service
  BY <1>0 DEF Service
<1> QED
  BY <1>0, <1>1, <1>2, <1>3, <1>4, <1>5, <1>6, <1>7, <1>8

-----------------------------------------------------------------------------
(* What a step leaves alone.                                                *)

KeepsFields == \A s \in Services : /\ svc'[s].phase = svc[s].phase
                                   /\ svc'[s].die = svc[s].die
                                   /\ svc'[s].listed = svc[s].listed
KeepsThreads == \A s \in Services : svc'[s].threads = svc[s].threads
KeepsRegistered == \A s \in Services : svc'[s].registered = svc[s].registered

LEMMA WorkersKept ==
    ASSUME WorkersInv, ThreadsCounted, UNCHANGED worker, KeepsThreads
    PROVE  WorkersInv' /\ ThreadsCounted'
BY DEF WorkersInv, ThreadsCounted, KeepsThreads

LEMMA PollerKept ==
    ASSUME TypeOK, PollerInv, UNCHANGED poller, KeepsFields
    PROVE  PollerInv'
<1>1. poller.toScan \subseteq Services
  BY TypeParts DEF PollerRec
<1> QED
  BY <1>1 DEF PollerInv, KeepsFields

LEMMA RouterKept ==
    ASSUME RouterInv, UNCHANGED router, KeepsRegistered
    PROVE  RouterInv'
BY DEF RouterInv, KeepsRegistered

\* What was reached in the end of a service stays when nothing of it goes back.
LEMMA EndsKept ==
    ASSUME EndsInv, UNCHANGED control, KeepsFields,
           \A s \in Services : svc[s].registered = "no" => svc'[s].registered = "no",
           \A s \in Services : svc[s].die /\ svc[s].threads = 0 => svc'[s].threads = 0
    PROVE  EndsInv'
<1> SUFFICES ASSUME NEW s \in Services
             PROVE  /\ Passed(s, AfterDie)' => svc'[s].die
                    /\ Passed(s, AfterDeregister)' => svc'[s].registered = "no"
                    /\ Passed(s, AfterThreads)' => svc'[s].threads = 0
                    /\ Passed(s, AfterUnlist)' => ~svc'[s].listed
  BY DEF EndsInv
<1>1. /\ Passed(s, AfterDie)' => Passed(s, AfterDie)
      /\ Passed(s, AfterDeregister)' => Passed(s, AfterDeregister)
      /\ Passed(s, AfterThreads)' => Passed(s, AfterThreads) /\ Passed(s, AfterDie)
      /\ Passed(s, AfterUnlist)' => Passed(s, AfterUnlist)
  BY DEF Passed, KeepsFields, AfterDie, AfterDeregister, AfterThreads, AfterUnlist
<1> QED
  BY <1>1 DEF EndsInv, KeepsFields

-----------------------------------------------------------------------------
(* The router.                                                              *)

\* A step of the router changes of a service its queue and its registration.
LEMMA RegisteredChanged ==
    ASSUME svc \in [Services -> Service], NEW s \in Services,
           NEW r \in {"yes", "monitored", "no"}, svc' = [svc EXCEPT ![s].registered = r]
    PROVE  /\ svc' \in [Services -> Service]
           /\ KeepsFields /\ KeepsThreads
           /\ svc'[s].registered = r
           /\ \A t \in Services \ {s} : svc'[t] = svc[t]
<1>1. svc' \in [Services -> Service]
  BY ServiceFields
<1> QED
  BY <1>1 DEF KeepsFields, KeepsThreads, Service

LEMMA QueueChanged ==
    ASSUME svc \in [Services -> Service], NEW s \in Services,
           NEW r \in {"yes", "monitored", "no"}, NEW q \in Seq(Ops),
           svc' = [svc EXCEPT ![s].incoming = q, ![s].registered = r]
    PROVE  /\ svc' \in [Services -> Service]
           /\ KeepsFields /\ KeepsThreads
           /\ svc'[s].registered = r
           /\ \A t \in Services \ {s} : svc'[t] = svc[t]
<1> DEFINE f == [svc EXCEPT ![s].incoming = q]
<1>1. f \in [Services -> Service]
  BY ServiceFields
<1>2. svc' = [f EXCEPT ![s].registered = r]
  OBVIOUS
<1>3. svc' \in [Services -> Service]
  BY <1>1, <1>2, ServiceFields
<1> QED
  BY <1>3 DEF KeepsFields, KeepsThreads, Service

\* What holds after a step of the router that keeps the rest.
LEMMA AfterRouter ==
    ASSUME Inv, svc' \in [Services -> Service], KeepsFields, KeepsThreads,
           \A t \in Services : svc[t].registered = "no" => svc'[t].registered = "no",
           op' \in [Ops -> OpNode], routed' \in Seq(Ops), router' \in RouterRec,
           RouterInv', polls' \in Nat,
           UNCHANGED <<poller, stopped, worker, control>>
    PROVE  Inv'
<1>1. TypeOK'
  <2>1. /\ poller' \in PollerRec /\ stopped' \in BOOLEAN
        /\ worker' \in [Workers -> WorkerRec] /\ control' \in ControlRec
    BY TypeParts DEF Inv
  <2> QED
    BY <2>1 DEF TypeOK, RouterRec, PollerRec, WorkerRec, ControlRec, ControlPcs
<1>2. WorkersInv' /\ ThreadsCounted'
  BY WorkersKept DEF Inv
<1>3. PollerInv'
  BY PollerKept DEF Inv
<1>4. ControlInv'
  BY DEF Inv, ControlInv
<1>5. EndsInv'
  BY EndsKept DEF Inv, KeepsThreads
<1> QED
  BY <1>1, <1>2, <1>3, <1>4, <1>5 DEF Inv

LEMMA RouterSteps ==
    ASSUME Inv, Router
    PROVE  Inv'
<1>0. /\ svc \in [Services -> Service] /\ op \in [Ops -> OpNode] /\ routed \in Seq(Ops)
      /\ router \in RouterRec /\ polls \in Nat
  BY TypeParts DEF Inv
<1>1. IdleRouter \in RouterRec /\ IdleRouter.pc = "wait"
  BY DEF IdleRouter, RouterRec
<1>2. ASSUME NEW pc \in {"check", "enqueue", "refuse", "ended", "undefined"}
      PROVE  /\ [router EXCEPT !.pc = pc] \in RouterRec
             /\ [router EXCEPT !.pc = pc].pc = pc
             /\ [router EXCEPT !.pc = pc].op = router.op
             /\ [router EXCEPT !.pc = pc].svc = router.svc
  BY <1>0 DEF RouterRec
<1>3. CASE RouteOperation
  <2> DEFINE o == Head(routed)
             s == Destination(o)
             pc == IF svc[s].phase = "gone" THEN "undefined"
                   ELSE IF svc[s].registered = "yes" THEN "check" ELSE "refuse"
  <2>1. o \in Ops /\ Tail(routed) \in Seq(Ops) /\ o # CimomClose
    BY <1>0, <1>3 DEF RouteOperation
  <2>2. s \in Services
    BY <2>1, OpTypes
  <2>3. /\ router' = [pc |-> pc, op |-> o, svc |-> s]
        /\ svc' = IF svc[s].registered = "yes"
                   THEN [svc EXCEPT ![s].registered = "monitored"] ELSE svc
        /\ routed' = Tail(routed) /\ UNCHANGED <<op, poller, polls, stopped, worker, control>>
    BY <1>3 DEF RouteOperation
  <2> HIDE DEF o, s
  <2>4. /\ svc' \in [Services -> Service] /\ KeepsFields /\ KeepsThreads
        /\ svc[s].registered = "yes" => svc'[s].registered = "monitored"
        /\ svc[s].registered # "yes" => svc'[s].registered = svc[s].registered
        /\ \A t \in Services \ {s} : svc'[t] = svc[t]
    <3>1. CASE svc[s].registered = "yes"
      BY <1>0, <2>2, <2>3, <3>1, RegisteredChanged
    <3>2. CASE svc[s].registered # "yes"
      BY <1>0, <2>3, <3>2 DEF KeepsFields, KeepsThreads
    <3> QED
      BY <3>1, <3>2
  <2>5. pc \in {"undefined", "check", "refuse"} /\ (pc = "check" => svc[s].registered = "yes")
    OBVIOUS
  <2>6. \A t \in Services : svc[t].registered = "no" => svc'[t].registered = "no"
    BY <2>2, <2>4
  <2> HIDE DEF pc
  <2>8. router' \in RouterRec /\ RouterInv'
    BY <2>1, <2>2, <2>3, <2>4, <2>5 DEF RouterRec, RouterInv
  <2> QED
    BY <1>0, <2>1, <2>3, <2>4, <2>6, <2>8, AfterRouter
<1>4. CASE CheckService
  <2>1. PICK pc \in {"enqueue", "refuse"} : router' = [router EXCEPT !.pc = pc]
    BY <1>4 DEF CheckService, RouterGoes
  <2>2. router.pc = "check" /\ UNCHANGED <<svc, op, routed, poller, polls, stopped, worker, control>>
    BY <1>4 DEF CheckService
  <2>3. router' \in RouterRec /\ RouterInv'
    BY <1>2, <2>1, <2>2 DEF RouterInv, Inv
  <2>4. svc' \in [Services -> Service] /\ KeepsFields /\ KeepsThreads
    BY <1>0, <2>2 DEF KeepsFields, KeepsThreads
  <2> QED
    BY <1>0, <2>2, <2>3, <2>4, AfterRouter
<1>5. CASE EnqueueOperation
  <2> DEFINE s == router.svc
             q == Append(svc[s].incoming, router.op)
  <2>1. router.pc = "enqueue" /\ s \in Services /\ router.op \in Ops
        /\ svc[s].registered = "monitored"
    BY <1>5 DEF EnqueueOperation, Inv, RouterInv
  <2>2. UNCHANGED <<op, routed, poller, stopped, worker, control>>
    BY <1>5 DEF EnqueueOperation
  <2>3. CASE router' = [router EXCEPT !.pc = "refuse"] /\ UNCHANGED <<svc, polls>>
    <3>1. router' \in RouterRec /\ RouterInv'
      BY <1>2, <2>1, <2>3 DEF RouterInv
    <3>2. svc' \in [Services -> Service] /\ KeepsFields /\ KeepsThreads
      BY <1>0, <2>3 DEF KeepsFields, KeepsThreads
    <3> QED
      BY <1>0, <2>2, <2>3, <3>1, <3>2, AfterRouter
  <2>4. CASE /\ svc' = [svc EXCEPT ![s].incoming = q, ![s].registered = "yes"]
             /\ polls' = polls + 1 /\ router' = IdleRouter
    <3>1. svc[s].incoming \in Seq(Ops)
      BY <1>0, <2>1 DEF Service
    <3>2. q \in Seq(Ops)
      BY <2>1, <3>1
    <3> HIDE DEF q
    <3>3. /\ svc' \in [Services -> Service] /\ KeepsFields /\ KeepsThreads
          /\ svc'[s].registered = "yes" /\ \A t \in Services \ {s} : svc'[t] = svc[t]
      BY <1>0, <2>1, <2>4, <3>2, QueueChanged
    <3>4. \A t \in Services : svc[t].registered = "no" => svc'[t].registered = "no"
      BY <2>1, <3>3
    <3>5. router' \in RouterRec /\ RouterInv'
      BY <1>1, <2>4 DEF RouterInv
    <3> QED
      BY <1>0, <2>2, <2>4, <3>3, <3>4, <3>5, AfterRouter
  <2> QED
    BY <1>5, <2>3, <2>4 DEF EnqueueOperation, RouterGoes
<1>6. CASE RefuseOperation
  <2> DEFINE s == router.svc
  <2>1. router.pc = "refuse" /\ s \in Services /\ router.op \in Ops
    BY <1>6 DEF RefuseOperation, Inv, RouterInv
  <2>2. router' = IdleRouter /\ UNCHANGED <<poller, polls, stopped, worker, control>>
    BY <1>6 DEF RefuseOperation
  <2>3. op' \in [Ops -> OpNode] /\ routed' \in Seq(Ops)
    <3>1. CASE op' = [op EXCEPT ![router.op] = Free(@)] /\ UNCHANGED routed
      <4>1. Free(op[router.op]) \in OpNode
        BY <1>0, <2>1, NodeTypes
      <4> QED
        BY <1>0, <3>1, <4>1
    <3>2. CASE Complete(router.op, "nak")
      BY <1>0, <2>1, <3>2, CompleteType
    <3> QED
      BY <1>6, <3>1, <3>2 DEF RefuseOperation
  <2>4. PICK r \in {"yes", "monitored", "no"} :
            /\ svc' = [svc EXCEPT ![s].registered = r]
            /\ svc[s].registered = "no" => r = "no"
    <3> DEFINE v == IF svc[s].registered = "monitored" THEN "yes" ELSE svc[s].registered
    <3>1. svc' = [svc EXCEPT ![s].registered = v]
      BY <1>6 DEF RefuseOperation
    <3>2. v \in {"yes", "monitored", "no"} /\ (svc[s].registered = "no" => v = "no")
      BY <1>0, <2>1 DEF Service
    <3> HIDE DEF v
    <3> QED
      BY <3>1, <3>2
  <2>5. s \in Services
    BY <2>1
  <2> HIDE DEF s
  <2>6. /\ svc' \in [Services -> Service] /\ KeepsFields /\ KeepsThreads
        /\ svc'[s].registered = r /\ \A t \in Services \ {s} : svc'[t] = svc[t]
    BY <1>0, <2>4, <2>5, RegisteredChanged
  <2>7. \A t \in Services : svc[t].registered = "no" => svc'[t].registered = "no"
    BY <2>4, <2>5, <2>6
  <2>8. router' \in RouterRec /\ RouterInv'
    BY <1>1, <2>2 DEF RouterInv
  <2> QED
    BY <1>0, <2>2, <2>3, <2>6, <2>7, <2>8, AfterRouter
<1>7. CASE CloseCimom
  <2>1. /\ routed' = <<>> /\ router' = [router EXCEPT !.pc = "ended"]
        /\ UNCHANGED <<svc, poller, polls, stopped, worker, control>>
    BY <1>7 DEF CloseCimom, RouterGoes
  <2>2. op' \in [Ops -> OpNode]
    <3>1. \A o \in Ops : op[o] \in OpNode /\ Free(op[o]) \in OpNode
      BY <1>0, NodeTypes
    <3> QED
      BY <1>7, <3>1 DEF CloseCimom
  <2>3. router' \in RouterRec /\ RouterInv'
    BY <1>2, <2>1 DEF RouterInv
  <2>4. svc' \in [Services -> Service] /\ KeepsFields /\ KeepsThreads
    BY <1>0, <2>1 DEF KeepsFields, KeepsThreads
  <2>5. routed' \in Seq(Ops)
    BY <2>1
  <2> QED
    BY <1>0, <2>1, <2>2, <2>3, <2>4, <2>5, AfterRouter
<1> QED
  BY <1>3, <1>4, <1>5, <1>6, <1>7 DEF Router

-----------------------------------------------------------------------------
(* The threads in a service.                                                *)

In(s, f) == {w \in Workers : f[w].svc = s}

\* A thread that enters a service is one more, a thread that leaves one less.
LEMMA Joined ==
    ASSUME worker \in [Workers -> WorkerRec], NEW w \in Workers, NEW r \in WorkerRec,
           NEW s \in Services, worker[w].svc = NoOne, r.svc = s,
           worker' = [worker EXCEPT ![w] = r]
    PROVE  /\ Cardinality(In(s, worker')) = Cardinality(In(s, worker)) + 1
           /\ \A t \in Services \ {s} : In(t, worker') = In(t, worker)
<1>1. worker'[w].svc = s /\ \A v \in Workers \ {w} : worker'[v] = worker[v]
  OBVIOUS
<1>2. In(s, worker') = In(s, worker) \cup {w} /\ w \notin In(s, worker)
  BY <1>1, OpTypes DEF In
<1>3. \A t \in Services \ {s} : In(t, worker') = In(t, worker)
  BY <1>1, OpTypes DEF In
<1>4. IsFiniteSet(In(s, worker))
  <2>1. In(s, worker) \subseteq Workers /\ IsFiniteSet(Workers)
    BY ThreadsForService DEF In
  <2> QED
    BY <2>1, FS_Subset
<1>5. Cardinality(In(s, worker')) = Cardinality(In(s, worker)) + 1
  BY <1>2, <1>4, FS_AddElement
<1> QED
  BY <1>3, <1>5

LEMMA Left ==
    ASSUME worker \in [Workers -> WorkerRec], NEW w \in Workers, NEW r \in WorkerRec,
           NEW s \in Services, worker[w].svc = s, r.svc = NoOne,
           worker' = [worker EXCEPT ![w] = r]
    PROVE  /\ In(s, worker') = In(s, worker) \ {w}
           /\ w \in In(s, worker) /\ IsFiniteSet(In(s, worker))
           /\ \A t \in Services \ {s} : In(t, worker') = In(t, worker)
<1>1. worker'[w].svc = NoOne /\ \A v \in Workers \ {w} : worker'[v] = worker[v]
  OBVIOUS
<1>2. In(s, worker') = In(s, worker) \ {w} /\ w \in In(s, worker)
  BY <1>1, OpTypes DEF In
<1>3. \A t \in Services \ {s} : In(t, worker') = In(t, worker)
  BY <1>1, OpTypes DEF In
<1>4. IsFiniteSet(In(s, worker))
  <2>1. In(s, worker) \subseteq Workers /\ IsFiniteSet(Workers)
    BY ThreadsForService DEF In
  <2> QED
    BY <2>1, FS_Subset
<1> QED
  BY <1>2, <1>3, <1>4

\* A thread that stays where it is changes no number.
LEMMA Stayed ==
    ASSUME worker \in [Workers -> WorkerRec], NEW w \in Workers, NEW r \in WorkerRec,
           worker[w].svc = r.svc, worker' = [worker EXCEPT ![w] = r]
    PROVE  \A s \in Services : In(s, worker') = In(s, worker)
BY DEF In

\* A service with a thread in it counts one, and with none counted is empty.
LEMMA Counted ==
    ASSUME ThreadsCounted, NEW s \in Services, svc[s].threads \in Nat
    PROVE  (svc[s].threads = 0) <=> (\A w \in Workers : worker[w].svc # s)
<1>1. svc[s].threads = Cardinality(In(s, worker))
  BY DEF ThreadsCounted, In
<1>2. IsFiniteSet(In(s, worker))
  <2>1. In(s, worker) \subseteq Workers /\ IsFiniteSet(Workers)
    BY ThreadsForService DEF In
  <2> QED
    BY <2>1, FS_Subset
<1>3. (Cardinality(In(s, worker)) = 0) <=> (In(s, worker) = {})
  BY <1>2, FS_EmptySet
<1> QED
  BY <1>1, <1>3 DEF In

LEMMA ThreadsChanged ==
    ASSUME svc \in [Services -> Service], NEW s \in Services, NEW n \in Nat,
           svc' = [svc EXCEPT ![s].threads = n]
    PROVE  /\ svc' \in [Services -> Service]
           /\ KeepsFields /\ KeepsRegistered
           /\ svc'[s].threads = n
           /\ \A t \in Services \ {s} : svc'[t] = svc[t]
<1>1. svc' \in [Services -> Service]
  BY ServiceFields
<1> QED
  BY <1>1 DEF KeepsFields, KeepsRegistered, Service

LEMMA NothingChanged ==
    ASSUME UNCHANGED svc
    PROVE  KeepsFields /\ KeepsThreads /\ KeepsRegistered
BY DEF KeepsFields, KeepsThreads, KeepsRegistered

-----------------------------------------------------------------------------
(* The poller.                                                              *)

\* What the poller has still to look at.
LEMMA ScanningInv ==
    ASSUME NEW S \in SUBSET Services, poller' = Scanning(S),
           \A s \in S : svc'[s].listed
    PROVE  poller' \in PollerRec /\ PollerInv'
BY DEF Scanning, PollerRec, PollerInv

LEMMA PollerSteps ==
    ASSUME Inv, Poller
    PROVE  Inv'
<1>0. /\ svc \in [Services -> Service] /\ polls \in Nat
      /\ poller \in PollerRec /\ worker \in [Workers -> WorkerRec]
  BY TypeParts DEF Inv
<1>1. poller.toScan \in SUBSET Services /\ \A s \in poller.toScan : svc[s].listed
  BY <1>0 DEF PollerRec, Inv, PollerInv
<1>2. ASSUME UNCHANGED <<svc, op, routed, router, stopped, worker, control>>,
             poller' \in PollerRec, PollerInv', polls' \in Nat
      PROVE  Inv'
  <2>1. KeepsFields /\ KeepsThreads /\ KeepsRegistered
    BY <1>2, NothingChanged
  <2>2. TypeOK'
    <3>1. /\ svc' \in [Services -> Service] /\ op' \in [Ops -> OpNode]
          /\ routed' \in Seq(Ops) /\ router' \in RouterRec /\ stopped' \in BOOLEAN
          /\ worker' \in [Workers -> WorkerRec] /\ control' \in ControlRec
      BY <1>2, TypeParts DEF Inv
    <3> QED
      BY <1>2, <3>1 DEF TypeOK, RouterRec, PollerRec, WorkerRec, ControlRec, ControlPcs
  <2>3. WorkersInv' /\ ThreadsCounted'
    BY <1>2, <2>1, WorkersKept DEF Inv
  <2>4. RouterInv'
    BY <1>2, <2>1, RouterKept DEF Inv
  <2>5. ControlInv'
    BY <1>2 DEF Inv, ControlInv
  <2>6. EndsInv'
    BY <1>2, <2>1, EndsKept DEF Inv
  <2> QED
    BY <1>2, <2>2, <2>3, <2>4, <2>5, <2>6 DEF Inv
<1>3. CASE PollerWakes
  <2>1. UNCHANGED <<svc, op, routed, router, stopped, worker, control>>
    BY <1>3 DEF PollerWakes
  <2>2. polls' \in Nat
    BY <1>0, <1>3 DEF PollerWakes
  <2>3. CASE poller' = [pc |-> "ended", toScan |-> {}]
    BY <1>2, <2>1, <2>2, <2>3 DEF PollerRec, PollerInv
  <2>4. CASE poller' = Scanning({s \in Services : svc[s].listed})
    <3>1. poller' \in PollerRec /\ PollerInv'
      BY <2>1, <2>4, ScanningInv
    <3> QED
      BY <1>2, <2>1, <2>2, <3>1
  <2> QED
    BY <1>3, <2>3, <2>4 DEF PollerWakes
<1>4. ASSUME NEW s \in Services, SkipService(s) \/ NoWorkerLeft(s)
      PROVE  Inv'
  <2>1. /\ UNCHANGED <<svc, op, routed, router, stopped, worker, control>>
        /\ polls' = polls
        /\ poller' = Scanning(poller.toScan \ {s}) \/ poller' = Scanning({})
    BY <1>4 DEF SkipService, NoWorkerLeft, Scanned
  <2>2. poller' \in PollerRec /\ PollerInv'
    BY <1>1, <2>1, ScanningInv
  <2> QED
    BY <1>0, <1>2, <2>1, <2>2
<1>5. ASSUME NEW s \in Services, NEW w \in Workers, StartWorker(s, w)
      PROVE  Inv'
  <2>1. /\ worker[w].pc = "idle" /\ HasWork(s)
        /\ svc' = [svc EXCEPT ![s].threads = svc[s].threads + 1]
        /\ poller' = Scanning(poller.toScan \ {s})
        /\ UNCHANGED <<op, routed, router, polls, stopped, control>>
    BY <1>5 DEF StartWorker, Scanned
  <2>2. PICK new \in WorkerRec : /\ new.svc = s /\ new.pc = "start"
                                 /\ worker' = [worker EXCEPT ![w] = new]
    <3> DEFINE new == [IdleWorker EXCEPT !.pc = "start", !.svc = s]
    <3>1. new \in WorkerRec /\ new.svc = s /\ new.pc = "start"
      BY DEF IdleWorker, WorkerRec, WorkerPcs
    <3>2. worker' = [worker EXCEPT ![w] = new]
      BY <1>5 DEF StartWorker
    <3> QED
      BY <3>1, <3>2
  <2>3. svc[s].threads \in Nat /\ svc[s].threads < MaxThreads /\ ~svc[s].die
    BY <1>0, <2>1 DEF HasWork, Service
  <2>4. svc[s].threads + 1 \in Nat /\ svc[s].threads + 1 <= MaxThreads
    BY <2>3, ThreadsForService
  <2>5. /\ svc' \in [Services -> Service] /\ KeepsFields /\ KeepsRegistered
        /\ svc'[s].threads = svc[s].threads + 1
        /\ \A t \in Services \ {s} : svc'[t] = svc[t]
    <3> DEFINE n == svc[s].threads + 1
    <3> HIDE DEF n
    <3>1. n \in Nat /\ svc' = [svc EXCEPT ![s].threads = n]
      BY <2>1, <2>4 DEF n
    <3>2. /\ svc' \in [Services -> Service] /\ KeepsFields /\ KeepsRegistered
          /\ svc'[s].threads = n /\ \A t \in Services \ {s} : svc'[t] = svc[t]
      BY <1>0, <3>1, ThreadsChanged
    <3> QED
      BY <3>2 DEF n
  <2>6. worker[w].svc = NoOne
    BY <2>1 DEF Inv, WorkersInv
  <2>7. /\ Cardinality(In(s, worker')) = Cardinality(In(s, worker)) + 1
        /\ \A t \in Services \ {s} : In(t, worker') = In(t, worker)
    BY <1>0, <2>2, <2>6, Joined
  <2>8. ThreadsCounted'
    BY <2>4, <2>5, <2>7 DEF Inv, ThreadsCounted, In
  <2>9. worker' \in [Workers -> WorkerRec] /\ WorkersInv'
    <3>1. worker' \in [Workers -> WorkerRec]
      BY <1>0, <2>2
    <3>2. worker'[w] = new /\ \A v \in Workers \ {w} : worker'[v] = worker[v]
      BY <1>0, <2>2
    <3> QED
      BY <2>2, <3>1, <3>2 DEF Inv, WorkersInv
  <2>10. poller' \in PollerRec /\ PollerInv'
    <3> DEFINE S == poller.toScan \ {s}
    <3>1. S \in SUBSET Services /\ \A t \in S : svc[t].listed
      BY <1>1
    <3>2. \A t \in S : svc'[t].listed
      BY <2>5, <3>1 DEF KeepsFields
    <3>3. poller' = Scanning(S)
      BY <2>1
    <3> HIDE DEF S
    <3> QED
      BY <3>1, <3>2, <3>3, ScanningInv
  <2>11. TypeOK'
    <3>1. /\ op' \in [Ops -> OpNode] /\ routed' \in Seq(Ops) /\ router' \in RouterRec
          /\ polls' \in Nat /\ stopped' \in BOOLEAN /\ control' \in ControlRec
      BY <2>1, TypeParts DEF Inv
    <3> QED
      BY <2>5, <2>9, <2>10, <3>1
      DEF TypeOK, RouterRec, PollerRec, WorkerRec, ControlRec, ControlPcs
  <2>12. RouterInv'
    BY <2>1, <2>5, RouterKept DEF Inv
  <2>13. ControlInv'
    BY <2>1 DEF Inv, ControlInv
  <2>14. EndsInv'
    BY <2>1, <2>3, <2>5, EndsKept DEF Inv, KeepsRegistered
  <2> QED
    BY <2>8, <2>9, <2>10, <2>11, <2>12, <2>13, <2>14 DEF Inv
<1> QED
  BY <1>3, <1>4, <1>5 DEF Poller
-----------------------------------------------------------------------------
(* The threads of the pool.                                                 *)

\* What a thread becomes.
LEMMA WorkerFields ==
    ASSUME NEW x \in WorkerRec
    PROVE  /\ \A pc \in WorkerPcs : [x EXCEPT !.pc = pc] \in WorkerRec
           /\ \A pc \in WorkerPcs, o \in Ops \cup {NoOne} :
                  /\ [x EXCEPT !.pc = pc, !.op = o] \in WorkerRec
                  /\ [x EXCEPT !.op = o, !.pc = pc] \in WorkerRec
                  /\ [x EXCEPT !.pc = pc, !.sub = o] \in WorkerRec
BY DEF WorkerRec

\* A change of a service by one of its threads.
LEMMA ServiceChanged ==
    ASSUME svc \in [Services -> Service], NEW s \in Services,
           \/ \E b \in BOOLEAN : svc' = [svc EXCEPT ![s].running = b]
           \/ \E b \in BOOLEAN : svc' = [svc EXCEPT ![s].closed = b]
           \/ \E q \in Seq(Ops) : svc' = [svc EXCEPT ![s].incoming = q]
    PROVE  /\ svc' \in [Services -> Service]
           /\ KeepsFields /\ KeepsThreads /\ KeepsRegistered
<1>1. svc' \in [Services -> Service]
  BY ServiceFields
<1>2. CASE \E b \in BOOLEAN : svc' = [svc EXCEPT ![s].running = b]
  BY <1>1, <1>2 DEF KeepsFields, KeepsThreads, KeepsRegistered, Service
<1>3. CASE \E b \in BOOLEAN : svc' = [svc EXCEPT ![s].closed = b]
  BY <1>1, <1>3 DEF KeepsFields, KeepsThreads, KeepsRegistered, Service
<1>4. CASE \E q \in Seq(Ops) : svc' = [svc EXCEPT ![s].incoming = q]
  BY <1>1, <1>4 DEF KeepsFields, KeepsThreads, KeepsRegistered, Service
<1> QED
  BY <1>1, <1>2, <1>3, <1>4

\* What holds after a step of a thread that stays in its service.
LEMMA AfterWorker ==
    ASSUME Inv, NEW w \in Workers, NEW r \in WorkerRec,
           worker[w].pc \notin {"idle", "signal"}, r.svc = worker[w].svc,
           r.pc \notin {"idle", "signal"},
           r.pc \in {"handle", "waiting", "closing"} => r.op \in Ops,
           worker' = [worker EXCEPT ![w] = r],
           svc' \in [Services -> Service], KeepsFields, KeepsThreads, KeepsRegistered,
           op' \in [Ops -> OpNode], routed' \in Seq(Ops),
           UNCHANGED <<router, poller, polls, stopped, control>>
    PROVE  Inv'
<1>0. worker \in [Workers -> WorkerRec]
  BY TypeParts DEF Inv
<1>1. worker' \in [Workers -> WorkerRec]
  BY <1>0
<1>2. TypeOK'
  <2>1. /\ router' \in RouterRec /\ poller' \in PollerRec /\ polls' \in Nat
        /\ stopped' \in BOOLEAN /\ control' \in ControlRec
    BY TypeParts DEF Inv
  <2> QED
    BY <1>1, <2>1 DEF TypeOK, RouterRec, PollerRec, WorkerRec, ControlRec, ControlPcs
<1>3. WorkersInv'
  <2>1. worker'[w] = r /\ \A v \in Workers \ {w} : worker'[v] = worker[v]
    BY <1>0
  <2>2. r.svc \in Services
    BY DEF Inv, WorkersInv
  <2> QED
    BY <2>1, <2>2 DEF Inv, WorkersInv
<1>4. ThreadsCounted'
  <2>1. \A s \in Services : In(s, worker') = In(s, worker)
    BY <1>0, Stayed
  <2> QED
    BY <2>1 DEF Inv, ThreadsCounted, In, KeepsThreads
<1>5. RouterInv' /\ PollerInv'
  BY RouterKept, PollerKept DEF Inv
<1>6. ControlInv'
  BY DEF Inv, ControlInv
<1>7. EndsInv'
  BY EndsKept DEF Inv, KeepsThreads, KeepsRegistered
<1> QED
  BY <1>2, <1>3, <1>4, <1>5, <1>6, <1>7 DEF Inv

\* What holds when a thread leaves its service.
Leaves(w) ==
    /\ svc' = [svc EXCEPT ![worker[w].svc].threads = @ - 1]
    /\ worker' = [worker EXCEPT ![w] = [IdleWorker EXCEPT !.pc = "signal"]]
    /\ UNCHANGED <<op, routed, router, poller, polls, stopped, control>>

LEMMA AfterLeaving ==
    ASSUME Inv, NEW w \in Workers, worker[w].pc \notin {"idle", "signal"}, Leaves(w)
    PROVE  Inv'
<1>0. svc \in [Services -> Service] /\ worker \in [Workers -> WorkerRec]
  BY TypeParts DEF Inv
<1>1. PICK s \in Services : s = worker[w].svc
  BY DEF Inv, WorkersInv
<1>2. svc[s].threads \in Nat /\ svc[s].threads # 0
  <2>1. svc[s].threads \in Nat
    BY <1>0 DEF Service
  <2> QED
    BY <1>1, <2>1, Counted DEF Inv
<1>3. PICK n \in Nat : n = svc[s].threads - 1
  BY <1>2
<1>4. /\ svc' \in [Services -> Service] /\ KeepsFields /\ KeepsRegistered
      /\ svc'[s].threads = n /\ \A t \in Services \ {s} : svc'[t] = svc[t]
  <2>1. svc' = [svc EXCEPT ![s].threads = n]
    BY <1>1, <1>3 DEF Leaves
  <2> QED
    BY <1>0, <2>1, ThreadsChanged
<1>5. PICK new \in WorkerRec : /\ new.svc = NoOne /\ new.pc = "signal"
                               /\ worker' = [worker EXCEPT ![w] = new]
  BY DEF Leaves, IdleWorker, WorkerRec, WorkerPcs
<1>6. /\ Cardinality(In(s, worker')) = Cardinality(In(s, worker)) - 1
      /\ \A t \in Services \ {s} : In(t, worker') = In(t, worker)
  <2>1. worker[w].svc = s /\ new.svc = NoOne /\ worker' = [worker EXCEPT ![w] = new]
    BY <1>1, <1>5
  <2>2. worker \in [Workers -> WorkerRec]
    BY <1>0
  <2>3. In(s, worker') = In(s, worker) \ {w}
    BY <2>1, <2>2, Left, Zenon
  <2>4. w \in In(s, worker) /\ IsFiniteSet(In(s, worker))
    BY <2>1, <2>2, Left, Zenon
  <2>5. Cardinality(In(s, worker) \ {w}) = Cardinality(In(s, worker)) - 1
    BY <2>4, FS_RemoveElement
  <2>6. \A t \in Services \ {s} : In(t, worker') = In(t, worker)
    BY <2>1, <2>2, Left, Zenon
  <2> QED
    BY <2>3, <2>5, <2>6
<1>7. ThreadsCounted'
  <2>1. svc[s].threads <= MaxThreads /\ n <= MaxThreads
    <3>1. svc[s].threads <= MaxThreads
      BY DEF Inv, ThreadsCounted
    <3> QED
      BY <1>2, <1>3, <3>1, ThreadsForService
  <2>2. svc'[s].threads = Cardinality(In(s, worker'))
    BY <1>3, <1>4, <1>6 DEF Inv, ThreadsCounted, In
  <2>3. \A t \in Services \ {s} : /\ svc'[t].threads = Cardinality(In(t, worker'))
                                  /\ svc'[t].threads <= MaxThreads
    BY <1>4, <1>6 DEF Inv, ThreadsCounted, In
  <2>4. \A t \in Services : /\ svc'[t].threads = Cardinality(In(t, worker'))
                              /\ svc'[t].threads <= MaxThreads
    <3>1. svc'[s].threads <= MaxThreads
      BY <1>4, <2>1
    <3> QED
      BY <2>2, <2>3, <3>1
  <2> QED
    BY <2>4 DEF ThreadsCounted, In
<1>8. worker' \in [Workers -> WorkerRec] /\ WorkersInv'
  <2>1. worker' \in [Workers -> WorkerRec]
    BY <1>0, <1>5
  <2>2. worker'[w] = new /\ \A v \in Workers \ {w} : worker'[v] = worker[v]
    BY <1>0, <1>5
  <2> QED
    BY <1>5, <2>1, <2>2 DEF Inv, WorkersInv
<1>9. TypeOK'
  <2>1. /\ op' \in [Ops -> OpNode] /\ routed' \in Seq(Ops) /\ router' \in RouterRec
        /\ poller' \in PollerRec /\ polls' \in Nat /\ stopped' \in BOOLEAN
        /\ control' \in ControlRec
    BY TypeParts DEF Inv, Leaves
  <2> QED
    BY <1>4, <1>8, <2>1 DEF TypeOK, RouterRec, PollerRec, WorkerRec, ControlRec, ControlPcs
<1>10. RouterInv' /\ PollerInv'
  BY <1>4, RouterKept, PollerKept DEF Inv, Leaves
<1>11. ControlInv'
  BY DEF Inv, ControlInv, Leaves
<1>12. EndsInv'
  <2>1. \A t \in Services : svc[t].threads = 0 => svc'[t].threads = 0
    BY <1>2, <1>4
  <2> QED
    BY <1>4, <2>1, EndsKept DEF Inv, KeepsRegistered, Leaves
<1> QED
  BY <1>7, <1>8, <1>9, <1>10, <1>11, <1>12 DEF Inv

\* A thread at the end of an operation goes on with its service, or leaves it.
LEMMA AfterOperation ==
    ASSUME Inv, NEW w \in Workers, worker[w].pc \notin {"idle", "signal"}, EndOperation(w),
           svc' \in [Services -> Service], KeepsFields, KeepsThreads, KeepsRegistered,
           op' \in [Ops -> OpNode], routed' \in Seq(Ops),
           UNCHANGED <<router, poller, polls, stopped, control>>
    PROVE  Inv'
<1>1. worker[w] \in WorkerRec
  BY TypeParts DEF Inv
<1>2. PICK pc \in {"leave", "loop"} :
          worker' = [worker EXCEPT ![w] = [worker[w] EXCEPT !.op = NoOne, !.pc = pc]]
  BY DEF EndOperation
<1>3. PICK r \in WorkerRec : /\ r = [worker[w] EXCEPT !.op = NoOne, !.pc = pc]
                             /\ r.svc = worker[w].svc /\ r.pc = pc
  <2>1. [worker[w] EXCEPT !.op = NoOne, !.pc = pc] \in WorkerRec
    BY <1>1, WorkerFields DEF WorkerPcs
  <2>2. /\ [worker[w] EXCEPT !.op = NoOne, !.pc = pc].svc = worker[w].svc
        /\ [worker[w] EXCEPT !.op = NoOne, !.pc = pc].pc = pc
    BY <1>1 DEF WorkerRec
  <2> QED
    BY <2>1, <2>2
<1>4. r.pc \notin {"idle", "signal", "handle", "waiting", "closing"}
  BY <1>3
<1>5. worker' = [worker EXCEPT ![w] = r]
  BY <1>2, <1>3
<1> QED
  BY <1>3, <1>4, <1>5, AfterWorker

\* A step that leaves the services alone.
LEMMA ServicesKept ==
    ASSUME Inv, UNCHANGED svc
    PROVE  /\ svc' \in [Services -> Service]
           /\ KeepsFields /\ KeepsThreads /\ KeepsRegistered
BY TypeParts, NothingChanged DEF Inv

\* A thread that stays in its service and goes to another place.
LEMMA AfterGoing ==
    ASSUME Inv, NEW w \in Workers, worker[w].pc \notin {"idle", "signal"},
           NEW pc \in WorkerPcs \ {"idle", "signal"}, WorkerGoes(w, pc),
           pc \in {"handle", "waiting", "closing"} => worker[w].op \in Ops,
           svc' \in [Services -> Service], KeepsFields, KeepsThreads, KeepsRegistered,
           op' \in [Ops -> OpNode], routed' \in Seq(Ops),
           UNCHANGED <<router, poller, polls, stopped, control>>
    PROVE  Inv'
<1>1. worker[w] \in WorkerRec
  BY TypeParts DEF Inv
<1>2. PICK r \in WorkerRec : /\ r = [worker[w] EXCEPT !.pc = pc]
                             /\ r.svc = worker[w].svc /\ r.pc = pc /\ r.op = worker[w].op
  <2>1. [worker[w] EXCEPT !.pc = pc] \in WorkerRec
    BY <1>1, WorkerFields
  <2>2. /\ [worker[w] EXCEPT !.pc = pc].svc = worker[w].svc
        /\ [worker[w] EXCEPT !.pc = pc].pc = pc
        /\ [worker[w] EXCEPT !.pc = pc].op = worker[w].op
    BY <1>1 DEF WorkerRec
  <2> QED
    BY <2>1, <2>2
<1>3. worker' = [worker EXCEPT ![w] = r]
  BY <1>2 DEF WorkerGoes
<1>4. r.pc \notin {"idle", "signal"} /\ (r.pc \in {"handle", "waiting", "closing"} => r.op \in Ops)
  BY <1>2
<1> QED
  BY <1>2, <1>3, <1>4, AfterWorker

LEMMA TakesOperations ==
    ASSUME Inv, NEW w \in Workers, DequeueOperation(w)
    PROVE  Inv'
<1> DEFINE s == worker[w].svc
<1>1. worker[w].pc = "loop" /\ UNCHANGED <<routed, router, poller, polls, stopped, control>>
  BY DEF DequeueOperation
<1>2. s \in Services /\ worker[w] \in WorkerRec /\ op \in [Ops -> OpNode]
      /\ routed \in Seq(Ops) /\ svc \in [Services -> Service]
  BY <1>1, TypeParts DEF Inv, WorkersInv
<1>3. CASE WorkerGoes(w, "leave") /\ UNCHANGED <<svc, op>>
  <2>1. "leave" \in WorkerPcs \ {"idle", "signal"}
    BY DEF WorkerPcs
  <2> QED
    BY <1>1, <1>2, <1>3, <2>1, ServicesKept, AfterGoing
<1>4. CASE svc[s].incoming # <<>>
  <2> DEFINE q == svc[s].incoming
             o == Head(q)
             node == [op[o] EXCEPT !.handled = IF op[o].at = "complete" THEN @ ELSE @ + 1]
             new == [worker[w] EXCEPT !.pc = "handle", !.op = o]
  <2>1. q \in Seq(Ops)
    BY <1>2 DEF Service
  <2>2. o \in Ops /\ Tail(q) \in Seq(Ops)
    BY <1>4, <2>1
  <2>3. /\ svc' = [svc EXCEPT ![s].incoming = Tail(q)]
        /\ worker' = [worker EXCEPT ![w] = new]
        /\ op' = [op EXCEPT ![o] = node]
    BY <1>4 DEF DequeueOperation
  <2>4. node \in OpNode
    <3>1. op[o] \in OpNode
      BY <1>2, <2>2
    <3>2. [op[o] EXCEPT !.handled = @ + 1] \in OpNode
      BY <3>1, NodeTypes
    <3>3. [op[o] EXCEPT !.handled = @] \in OpNode
      BY <3>1 DEF OpNode
    <3> QED
      BY <3>2, <3>3
  <2>5. new \in WorkerRec /\ new.svc = s /\ new.pc = "handle" /\ new.op \in Ops
    <3>1. new \in WorkerRec
      BY <1>2, <2>2, WorkerFields DEF WorkerPcs
    <3>2. new.svc = s /\ new.pc = "handle" /\ new.op = o
      BY <1>2 DEF WorkerRec
    <3> QED
      BY <2>2, <3>1, <3>2
  <2> HIDE DEF node, new, q, o
  <2>6. PICK tail \in Seq(Ops) : svc' = [svc EXCEPT ![s].incoming = tail]
    BY <2>2, <2>3
  <2>7. svc' \in [Services -> Service] /\ KeepsFields /\ KeepsThreads /\ KeepsRegistered
    BY <1>2, <2>6, ServiceChanged
  <2>8. op' \in [Ops -> OpNode]
    BY <1>2, <2>3, <2>4
  <2>9. routed' \in Seq(Ops)
    BY <1>1, <1>2
  <2>10. new.pc \notin {"idle", "signal"} /\ worker[w].pc \notin {"idle", "signal"}
    BY <1>1, <2>5
  <2> QED
    BY <1>1, <2>3, <2>5, <2>7, <2>8, <2>9, <2>10, AfterWorker
<1> QED
  BY <1>3, <1>4 DEF DequeueOperation

LEMMA SendsAndWaits ==
    ASSUME Inv, NEW w \in Workers, NEW o \in Operations, SendAndWait(w, o)
    PROVE  Inv'
<1> DEFINE new == [worker[w] EXCEPT !.pc = "waiting", !.sub = o]
<1>1. /\ worker[w].pc = "handle" /\ worker[w].op \in Operations /\ Send(o) /\ UNCHANGED svc
      /\ UNCHANGED <<router, poller, polls, stopped, control>>
  BY DEF SendAndWait, HandlesRequest, Handles
<1>2. worker' = [worker EXCEPT ![w] = new]
  BY DEF SendAndWait
<1>3. worker[w] \in WorkerRec /\ op \in [Ops -> OpNode] /\ routed \in Seq(Ops)
  BY TypeParts DEF Inv
<1>4. o \in Ops /\ worker[w].op \in Ops
  BY <1>1, OpTypes
<1>5. new \in WorkerRec
  BY <1>3, <1>4, WorkerFields DEF WorkerPcs
<1>6. new.svc = worker[w].svc /\ new.pc = "waiting" /\ new.op = worker[w].op
  BY <1>3 DEF WorkerRec
<1>7. op' \in [Ops -> OpNode] /\ routed' \in Seq(Ops)
  BY <1>1, <1>3, <1>4, SendType
<1> HIDE DEF new
<1>8. new.pc \notin {"idle", "signal"} /\ worker[w].pc \notin {"idle", "signal"}
      /\ (new.pc \in {"handle", "waiting", "closing"} => new.op \in Ops)
  BY <1>1, <1>4, <1>6
<1> QED
  BY <1>1, <1>2, <1>5, <1>6, <1>7, <1>8, ServicesKept, AfterWorker

LEMMA Wakes ==
    ASSUME Inv, NEW w \in Workers, WakeHandler(w)
    PROVE  Inv'
<1> DEFINE new == [worker[w] EXCEPT !.pc = "handle", !.sub = NoOne]
           o == worker[w].sub
<1>1. /\ worker[w].pc = "waiting" /\ op' = [op EXCEPT ![o] = Taken(op[o])]
      /\ UNCHANGED <<svc, routed, router, poller, polls, stopped, control>>
  BY DEF WakeHandler
<1>2. worker' = [worker EXCEPT ![w] = new]
  BY DEF WakeHandler
<1>3. worker[w] \in WorkerRec /\ op \in [Ops -> OpNode] /\ routed \in Seq(Ops)
  BY TypeParts DEF Inv
<1>4. worker[w].op \in Ops
  BY <1>1 DEF Inv, WorkersInv
<1>5. new \in WorkerRec
  BY <1>3, WorkerFields DEF WorkerPcs
<1>6. new.svc = worker[w].svc /\ new.pc = "handle" /\ new.op = worker[w].op
  BY <1>3 DEF WorkerRec
<1>7. op' \in [Ops -> OpNode]
  <2>1. o \in Ops => Taken(op[o]) \in OpNode
    BY <1>3, NodeTypes
  <2> HIDE DEF o
  <2> QED
    BY <1>1, <1>3, <2>1
<1>8. routed' \in Seq(Ops)
  BY <1>1, <1>3
<1> HIDE DEF new
<1>9. new.pc \notin {"idle", "signal"} /\ worker[w].pc \notin {"idle", "signal"}
      /\ (new.pc \in {"handle", "waiting", "closing"} => new.op \in Ops)
  BY <1>1, <1>4, <1>6
<1> QED
  BY <1>1, <1>2, <1>5, <1>6, <1>7, <1>8, <1>9, ServicesKept, AfterWorker

\* Handlers and callbacks, up to the end of their operation.
LEMMA EndsOperations ==
    ASSUME Inv, NEW w \in Workers,
           \/ AnswerRequest(w) \/ RunCallback(w) \/ StopOrStartService(w) \/ AnswerClose(w)
    PROVE  Inv'
<1> DEFINE o == worker[w].op
<1>1. /\ worker[w].pc \in {"handle", "closing"} /\ EndOperation(w)
      /\ UNCHANGED <<router, poller, polls, stopped, control>>
  BY DEF AnswerRequest, RunCallback, StopOrStartService, AnswerClose, HandlesRequest, Handles
<1>2. o \in Ops /\ worker[w].svc \in Services
  BY <1>1 DEF Inv, WorkersInv
<1>3. op \in [Ops -> OpNode] /\ routed \in Seq(Ops) /\ svc \in [Services -> Service]
  BY TypeParts DEF Inv
<1>4. worker[w].pc \notin {"idle", "signal"}
  BY <1>1
<1>5. op' \in [Ops -> OpNode] /\ routed' \in Seq(Ops)
  <2>1. CASE Complete(o, "ok")
    BY <1>2, <1>3, <2>1, CompleteType
  <2>2. CASE op' = [op EXCEPT ![o] = Taken(op[o])] /\ UNCHANGED routed
    <3>1. Taken(op[o]) \in OpNode
      BY <1>2, <1>3, NodeTypes
    <3> HIDE DEF o
    <3> QED
      BY <1>3, <2>2, <3>1
  <2> QED
    BY <2>1, <2>2 DEF AnswerRequest, RunCallback, StopOrStartService, AnswerClose
<1>6. svc' \in [Services -> Service] /\ KeepsFields /\ KeepsThreads /\ KeepsRegistered
  <2>1. CASE UNCHANGED svc
    BY <2>1, ServicesKept
  <2>2. CASE StopOrStartService(w)
    <3>1. PICK b \in BOOLEAN : svc' = [svc EXCEPT ![worker[w].svc].running = b]
      BY <2>2 DEF StopOrStartService
    <3> QED
      BY <1>2, <1>3, <3>1, ServiceChanged
  <2> QED
    BY <2>1, <2>2 DEF AnswerRequest, RunCallback, AnswerClose
<1> QED
  BY <1>1, <1>4, <1>5, <1>6, AfterOperation

LEMMA WorkerSteps ==
    ASSUME Inv, NEW w \in Workers, Work(w)
    PROVE  Inv'
<1>0. /\ worker[w] \in WorkerRec /\ op \in [Ops -> OpNode] /\ routed \in Seq(Ops)
      /\ svc \in [Services -> Service]
  BY TypeParts DEF Inv
<1>1. CASE BeginWork(w)
  <2>1. worker[w].pc = "start" /\ UNCHANGED <<op, routed, router, poller, polls, stopped, control>>
    BY <1>1 DEF BeginWork
  <2>2. CASE WorkerGoes(w, "loop") /\ UNCHANGED svc
    <3>1. "loop" \in WorkerPcs \ {"idle", "signal"}
      BY DEF WorkerPcs
    <3> QED
      BY <1>0, <2>1, <2>2, <3>1, ServicesKept, AfterGoing
  <2>3. CASE svc[worker[w].svc].die
    <3>1. /\ svc' = [svc EXCEPT ![worker[w].svc].threads = @ - 1]
          /\ worker' = [worker EXCEPT ![w] = [IdleWorker EXCEPT !.pc = "signal"]]
      BY <1>1, <2>3 DEF BeginWork
    <3> QED
      BY <2>1, <3>1, AfterLeaving DEF Leaves
  <2> QED
    BY <1>1, <2>2, <2>3 DEF BeginWork
<1>2. CASE LeaveService(w)
  <2>1. worker[w].pc = "leave"
    BY <1>2 DEF LeaveService
  <2> QED
    BY <1>2, <2>1, AfterLeaving DEF LeaveService, Leaves
<1>3. CASE UseDeletedService(w)
  <2>1. /\ worker[w].pc = "handle" /\ WorkerGoes(w, "undefined")
        /\ UNCHANGED <<svc, op, routed, router, poller, polls, stopped, control>>
    BY <1>3 DEF UseDeletedService, Handles
  <2>2. "undefined" \in WorkerPcs \ {"idle", "signal"}
    BY DEF WorkerPcs
  <2> QED
    BY <1>0, <2>1, <2>2, ServicesKept, AfterGoing
<1>4. CASE CloseService(w)
  <2>1. /\ worker[w].pc = "handle" /\ WorkerGoes(w, "closing") /\ worker[w].op \in Control
        /\ svc' = [svc EXCEPT ![worker[w].svc].closed = TRUE]
        /\ UNCHANGED <<op, routed, router, poller, polls, stopped, control>>
    BY <1>4 DEF CloseService, Handles
  <2>2. "closing" \in WorkerPcs \ {"idle", "signal"} /\ worker[w].op \in Ops
    BY <2>1, OpTypes DEF WorkerPcs
  <2>3. worker[w].svc \in Services
    BY <2>1 DEF Inv, WorkersInv
  <2>4. svc' \in [Services -> Service] /\ KeepsFields /\ KeepsThreads /\ KeepsRegistered
    BY <1>0, <2>1, <2>3, ServiceChanged
  <2> QED
    BY <1>0, <2>1, <2>2, <2>4, AfterGoing
<1>5. CASE SignalPoller(w)
  <2>1. /\ worker[w].pc = "signal" /\ polls' = polls + 1
        /\ UNCHANGED <<svc, op, routed, router, poller, stopped, control>>
    BY <1>5 DEF SignalPoller
  <2>2. PICK new \in WorkerRec : /\ new.svc = NoOne /\ new.pc = "idle"
                                 /\ worker' = [worker EXCEPT ![w] = new]
    BY <1>5 DEF SignalPoller, IdleWorker, WorkerRec, WorkerPcs
  <2>3. worker \in [Workers -> WorkerRec] /\ worker[w].svc = NoOne
    BY <2>1, TypeParts DEF Inv, WorkersInv
  <2>4. svc' \in [Services -> Service] /\ KeepsFields /\ KeepsThreads /\ KeepsRegistered
    BY <2>1, ServicesKept
  <2>5. worker' \in [Workers -> WorkerRec] /\ WorkersInv'
    <3>1. worker' \in [Workers -> WorkerRec]
      BY <2>2, <2>3
    <3>2. worker'[w] = new /\ \A v \in Workers \ {w} : worker'[v] = worker[v]
      BY <2>2, <2>3
    <3> QED
      BY <2>2, <3>1, <3>2 DEF Inv, WorkersInv
  <2>6. ThreadsCounted'
    <3>1. \A s \in Services : In(s, worker') = In(s, worker)
      BY <2>2, <2>3, Stayed
    <3> QED
      BY <2>4, <3>1 DEF Inv, ThreadsCounted, In, KeepsThreads
  <2>7. TypeOK'
    <3>1. polls \in Nat
      BY TypeParts DEF Inv
    <3>2. polls' \in Nat
      BY <2>1, <3>1
    <3>3. /\ op' \in [Ops -> OpNode] /\ routed' \in Seq(Ops) /\ router' \in RouterRec
          /\ poller' \in PollerRec /\ stopped' \in BOOLEAN /\ control' \in ControlRec
      BY <2>1, TypeParts DEF Inv
    <3> QED
      BY <2>4, <2>5, <3>2, <3>3
      DEF TypeOK, RouterRec, PollerRec, WorkerRec, ControlRec, ControlPcs
  <2>8. RouterInv' /\ PollerInv'
    BY <2>1, <2>4, RouterKept, PollerKept DEF Inv
  <2>9. ControlInv'
    BY <2>1 DEF Inv, ControlInv
  <2>10. EndsInv'
    BY <2>1, <2>4, EndsKept DEF Inv, KeepsThreads, KeepsRegistered
  <2> QED
    BY <2>5, <2>6, <2>7, <2>8, <2>9, <2>10 DEF Inv
<1>6. CASE \E o \in Operations : SendAndWait(w, o)
  BY <1>6, SendsAndWaits
<1> QED
  BY <1>1, <1>2, <1>3, <1>4, <1>5, <1>6, TakesOperations, Wakes, EndsOperations DEF Work

-----------------------------------------------------------------------------
(* The senders outside the services, and the thread that shuts down.        *)

LEMMA AfterControl ==
    ASSUME Inv, UNCHANGED <<router, poller, worker>>,
           svc' \in [Services -> Service], KeepsThreads,
           op' \in [Ops -> OpNode], routed' \in Seq(Ops), polls' \in Nat,
           stopped' \in BOOLEAN, control' \in ControlRec,
           RouterInv', PollerInv', ControlInv', EndsInv'
    PROVE  Inv'
<1>1. TypeOK'
  <2>1. /\ router' \in RouterRec /\ poller' \in PollerRec
        /\ worker' \in [Workers -> WorkerRec]
    BY TypeParts DEF Inv
  <2> QED
    BY <2>1 DEF TypeOK, RouterRec, PollerRec, WorkerRec, ControlRec, ControlPcs
<1>2. WorkersInv' /\ ThreadsCounted'
  BY WorkersKept DEF Inv
<1> QED
  BY <1>1, <1>2 DEF Inv

LEMMA ControlGone ==
    ASSUME control \in ControlRec, NEW pc \in ControlPcs,
           NEW s \in Services \cup {NoOne}, ControlGoes(pc, s)
    PROVE  /\ control' \in ControlRec
           /\ control'.pc = pc /\ control'.svc = s /\ control'.todo = control.todo
BY DEF ControlGoes, ControlRec

\* What holds when the control thread goes on and leaves the services alone.
LEMMA AfterSending ==
    ASSUME Inv, UNCHANGED <<svc, router, poller, worker>>,
           op' \in [Ops -> OpNode], routed' \in Seq(Ops), polls' \in Nat,
           stopped' \in BOOLEAN, control' \in ControlRec, ControlInv', EndsInv'
    PROVE  Inv'
<1>1. svc' \in [Services -> Service] /\ KeepsFields /\ KeepsThreads /\ KeepsRegistered
  BY ServicesKept
<1>2. RouterInv' /\ PollerInv'
  BY <1>1, RouterKept, PollerKept DEF Inv
<1> QED
  BY <1>1, <1>2, AfterControl

\* The end of no service goes on while the control thread is at another step.
LEMMA EndsOutside ==
    ASSUME EndsInv, control'.pc \notin AfterDie,
           \A s \in Services :
               svc'[s].phase = "gone" => svc[s].phase = "gone" /\ svc'[s] = svc[s]
    PROVE  EndsInv'
<1> SUFFICES ASSUME NEW s \in Services
             PROVE  /\ Passed(s, AfterDie)' => svc'[s].die
                    /\ Passed(s, AfterDeregister)' => svc'[s].registered = "no"
                    /\ Passed(s, AfterThreads)' => svc'[s].threads = 0
                    /\ Passed(s, AfterUnlist)' => ~svc'[s].listed
  BY DEF EndsInv
<1>1. \/ Passed(s, AfterDie)' \/ Passed(s, AfterDeregister)'
      \/ Passed(s, AfterThreads)' \/ Passed(s, AfterUnlist)'
      => svc'[s].phase = "gone"
  BY DEF Passed, AfterDie, AfterDeregister, AfterThreads, AfterUnlist
<1>2. svc[s].phase = "gone" => /\ svc[s].die /\ svc[s].registered = "no"
                               /\ svc[s].threads = 0 /\ ~svc[s].listed
  BY DEF EndsInv, Passed
<1> QED
  BY <1>1, <1>2

LEMMA Sends ==
    ASSUME Inv,
           \/ \E o \in Operations : SendOperation(o)
           \/ BeginShutdown \/ StopService \/ SendNext \/ ServiceClosed \/ BeginDeletion
    PROVE  Inv'
<1>0. /\ svc \in [Services -> Service] /\ op \in [Ops -> OpNode] /\ routed \in Seq(Ops)
      /\ polls \in Nat /\ stopped \in BOOLEAN /\ control \in ControlRec
  BY TypeParts DEF Inv
<1>1. UNCHANGED <<svc, router, poller, polls, stopped, worker>>
  BY DEF SendOperation, BeginShutdown, StopService, SendNext, ServiceClosed, BeginDeletion
<1>2. polls' \in Nat /\ stopped' \in BOOLEAN
  BY <1>0, <1>1
<1>3. ASSUME op' \in [Ops -> OpNode], routed' \in Seq(Ops), control' \in ControlRec,
             control'.pc \notin AfterDie, ControlInv'
      PROVE  Inv'
  <2>1. \A s \in Services : svc'[s] = svc[s]
    BY <1>1
  <2>2. EndsInv'
    BY <1>3, <2>1, EndsOutside DEF Inv
  <2> QED
    BY <1>1, <1>2, <1>3, <2>2, AfterSending
<1>4. CASE \E o \in Operations : SendOperation(o)
  <2>1. PICK o \in Operations : SendOperation(o)
    BY <1>4
  <2>2. Send(o) /\ UNCHANGED control
    BY <2>1 DEF SendOperation
  <2>3. op' \in [Ops -> OpNode] /\ routed' \in Seq(Ops)
    BY <1>0, <2>2, OpTypes, SendType
  <2>4. control' \in ControlRec /\ ControlInv'
    BY <1>0, <2>2 DEF Inv, ControlInv
  <2>5. EndsInv'
    <3>1. KeepsFields /\ KeepsThreads /\ KeepsRegistered
      BY <1>1, NothingChanged
    <3> QED
      BY <2>2, <3>1, EndsKept DEF Inv, KeepsThreads, KeepsRegistered
  <2> QED
    BY <1>1, <1>2, <2>3, <2>4, <2>5, AfterSending
<1>5. ASSUME NEW pc \in {"closing", "deleting"}, NEW todo \in Seq(Services),
             control' = [pc |-> pc, svc |-> NoOne, todo |-> todo]
      PROVE  control' \in ControlRec /\ control'.pc \notin AfterDie /\ ControlInv'
  <2>1. control' \in ControlRec /\ control'.pc = pc
    BY <1>5 DEF ControlRec, ControlPcs
  <2> QED
    BY <1>5, <2>1
    DEF AfterDie, AfterDeregister, AfterThreads, AfterUnlist, ControlInv
<1>6. ASSUME NEW pc \in {"stop", "start", "close"}, NEW s \in Services,
             ControlGoes(pc, s), control.todo # <<>>
      PROVE  control' \in ControlRec /\ control'.pc \notin AfterDie /\ ControlInv'
  <2>1. pc \in ControlPcs
    BY DEF ControlPcs
  <2>2. /\ control' \in ControlRec /\ control'.pc = pc /\ control'.svc = s
        /\ control'.todo = control.todo
    BY <1>0, <1>6, <2>1, ControlGone
  <2> QED
    BY <1>6, <2>2
    DEF AfterDie, AfterDeregister, AfterThreads, AfterUnlist, ControlInv
<1>7. CASE BeginShutdown
  <2>1. /\ control' = [pc |-> "closing", svc |-> NoOne, todo |-> Closing]
        /\ UNCHANGED <<op, routed>>
    BY <1>7 DEF BeginShutdown
  <2>2. control' \in ControlRec /\ control'.pc \notin AfterDie /\ ControlInv'
    BY <1>5, <2>1, ServicesEndInOrder
  <2> QED
    BY <1>0, <1>3, <2>1, <2>2
<1>8. CASE StopService
  <2>1. control.todo # <<>> /\ control.todo \in Seq(Services)
    BY <1>0, <1>8 DEF StopService, ControlRec
  <2>2. Head(control.todo) \in Services
    BY <2>1
  <2>3. Send(ControlOp("stop", Head(control.todo))) /\ ControlGoes("stop", Head(control.todo))
    BY <1>8 DEF StopService
  <2>4. ControlOp("stop", Head(control.todo)) \in Ops
    BY <2>2, OpTypes
  <2>5. op' \in [Ops -> OpNode] /\ routed' \in Seq(Ops)
    BY <1>0, <2>3, <2>4, SendType
  <2>6. control' \in ControlRec /\ control'.pc \notin AfterDie /\ ControlInv'
    BY <1>6, <2>1, <2>2, <2>3
  <2> QED
    BY <1>3, <2>5, <2>6
<1>9. CASE SendNext
  <2>1. control.pc \in {"stop", "start"} /\ control.svc \in Services /\ control.todo # <<>>
    BY <1>9 DEF SendNext, Inv, ControlInv
  <2>2. PICK next \in {"start", "close"} : next = Sequel[control.pc]
    BY <2>1 DEF Sequel
  <2>3. PICK a \in Ops, b \in Ops :
            /\ op' = [op EXCEPT ![a] = Taken(op[a]), ![b].at = "under way"]
            /\ routed' = Append(routed, b)
    <3>1. ControlOp(control.pc, control.svc) \in Ops /\ ControlOp(next, control.svc) \in Ops
      BY <2>1, <2>2, OpTypes
    <3> QED
      BY <1>9, <2>2, <3>1 DEF SendNext
  <2>4. op' \in [Ops -> OpNode]
    <3> DEFINE f == [op EXCEPT ![a] = Taken(op[a])]
    <3>1. Taken(op[a]) \in OpNode
      BY <1>0, NodeTypes
    <3>2. f \in [Ops -> OpNode]
      BY <1>0, <3>1
    <3>3. op' = [f EXCEPT ![b].at = "under way"]
      BY <2>3
    <3> HIDE DEF f
    <3>4. [f[b] EXCEPT !.at = "under way"] \in OpNode
      BY <3>2, NodeTypes
    <3>5. op' = [f EXCEPT ![b] = [f[b] EXCEPT !.at = "under way"]]
      BY <3>3
    <3> QED
      BY <3>2, <3>4, <3>5
  <2>5. routed' \in Seq(Ops)
    <3>1. Append(routed, b) \in Seq(Ops)
      BY <1>0
    <3> QED
      BY <2>3, <3>1
  <2>6. ControlGoes(next, control.svc)
    BY <1>9, <2>2 DEF SendNext
  <2>7. control' \in ControlRec /\ control'.pc \notin AfterDie /\ ControlInv'
    BY <1>6, <2>1, <2>6
  <2> QED
    BY <1>3, <2>4, <2>5, <2>7
<1>10. CASE ServiceClosed
  <2>1. control.pc = "close" /\ control.svc \in Services /\ control.todo # <<>>
        /\ control.todo \in Seq(Services)
    BY <1>0, <1>10 DEF ServiceClosed, Inv, ControlInv, ControlRec
  <2>2. PICK a \in Ops : op' = [op EXCEPT ![a] = Taken(op[a])]
    <3>1. ControlOp("close", control.svc) \in Ops
      BY <2>1, OpTypes
    <3> QED
      BY <1>10, <3>1 DEF ServiceClosed
  <2>3. op' \in [Ops -> OpNode]
    <3>1. Taken(op[a]) \in OpNode
      BY <1>0, NodeTypes
    <3> QED
      BY <1>0, <2>2, <3>1
  <2>4. Tail(control.todo) \in Seq(Services)
    BY <2>1
  <2>5. control' \in ControlRec /\ control'.pc \notin AfterDie /\ ControlInv'
    BY <1>5, <1>10, <2>4 DEF ServiceClosed
  <2>6. routed' \in Seq(Ops)
    BY <1>0, <1>10 DEF ServiceClosed
  <2> QED
    BY <1>3, <2>3, <2>5, <2>6
<1>11. CASE BeginDeletion
  <2>1. /\ control' = [pc |-> "deleting", svc |-> NoOne, todo |-> Deletion]
        /\ UNCHANGED <<op, routed>>
    BY <1>11 DEF BeginDeletion
  <2>2. control' \in ControlRec /\ control'.pc \notin AfterDie /\ ControlInv'
    BY <1>5, <2>1, ServicesEndInOrder
  <2> QED
    BY <1>0, <1>3, <2>1, <2>2
<1> QED
  BY <1>4, <1>7, <1>8, <1>9, <1>10, <1>11

\* A service that the control thread brings to its end.
LEMMA EndChanged ==
    ASSUME svc \in [Services -> Service], NEW s \in Services,
           \/ svc' = [svc EXCEPT ![s].phase = "deleting"]
           \/ svc' = [svc EXCEPT ![s].die = TRUE]
           \/ svc' = [svc EXCEPT ![s].registered = "no"]
           \/ svc' = [svc EXCEPT ![s].listed = FALSE]
    PROVE  svc' \in [Services -> Service] /\ KeepsThreads
<1>1. svc' \in [Services -> Service]
  BY ServiceFields
<1>2. CASE svc' = [svc EXCEPT ![s].phase = "deleting"]
  BY <1>1, <1>2 DEF KeepsThreads, Service
<1>3. CASE svc' = [svc EXCEPT ![s].die = TRUE]
  BY <1>1, <1>3 DEF KeepsThreads, Service
<1>4. CASE svc' = [svc EXCEPT ![s].registered = "no"]
  BY <1>1, <1>4 DEF KeepsThreads, Service
<1>5. CASE svc' = [svc EXCEPT ![s].listed = FALSE]
  BY <1>1, <1>5 DEF KeepsThreads, Service
<1> QED
  BY <1>1, <1>2, <1>3, <1>4, <1>5

\* A step of the destructor at the service it is at.
DestructorSteps == {"awaitClosed", "deregister", "awaitThreads", "unlist", "join",
                    "joinRouter", "clear"}

LEMMA AtService ==
    ASSUME Inv, control.pc \in DestructorSteps, NEW pc \in DestructorSteps,
           ControlGoes(pc, control.svc)
    PROVE  /\ control.svc \in Services /\ control.todo # <<>>
           /\ control' \in ControlRec /\ ControlInv'
           /\ control'.pc = pc /\ control'.svc = control.svc
<1>1. control.svc \in Services /\ control.todo # <<>>
  BY DEF Inv, ControlInv, DestructorSteps
<1>2. control \in ControlRec /\ pc \in ControlPcs
  BY TypeParts DEF Inv, ControlPcs, DestructorSteps
<1>3. /\ control' \in ControlRec /\ control'.pc = pc /\ control'.svc = control.svc
      /\ control'.todo = control.todo
  BY <1>1, <1>2, ControlGone
<1> QED
  BY <1>1, <1>3 DEF ControlInv

LEMMA Deletes ==
    ASSUME Inv, DeleteService
    PROVE  Inv'
<1> DEFINE s == Head(control.todo)
<1>0. /\ svc \in [Services -> Service] /\ op \in [Ops -> OpNode] /\ routed \in Seq(Ops)
      /\ polls \in Nat /\ stopped \in BOOLEAN /\ control \in ControlRec
  BY TypeParts DEF Inv
<1>1. control.todo # <<>> /\ control.todo \in Seq(Services)
  BY <1>0 DEF DeleteService, ControlRec
<1>2. s \in Services
  BY <1>1
<1>3. /\ svc' = [svc EXCEPT ![s].phase = "deleting"] /\ ControlGoes("awaitClosed", s)
      /\ UNCHANGED <<op, routed>> \/ Send(ControlOp("close", s))
      /\ UNCHANGED <<router, poller, polls, stopped, worker>>
  BY DEF DeleteService
<1>4. op' \in [Ops -> OpNode] /\ routed' \in Seq(Ops)
  <2>1. CASE UNCHANGED <<op, routed>>
    BY <1>0, <2>1
  <2>2. CASE Send(ControlOp("close", s))
    <3>1. ControlOp("close", s) \in Ops
      BY <1>2, OpTypes
    <3> QED
      BY <1>0, <2>2, <3>1, SendType
  <2> QED
    BY <1>3, <2>1, <2>2
<1> HIDE DEF s
<1>5. svc' \in [Services -> Service] /\ KeepsThreads
  BY <1>0, <1>2, <1>3, EndChanged
<1>6. /\ \A t \in Services \ {s} : svc'[t] = svc[t]
      /\ svc'[s].phase = "deleting" /\ svc'[s].registered = svc[s].registered
      /\ svc'[s].listed = svc[s].listed
  BY <1>0, <1>2, <1>3 DEF Service
<1>7. RouterInv'
  <2>1. KeepsRegistered
    BY <1>6 DEF KeepsRegistered
  <2> QED
    BY <1>3, <2>1, RouterKept DEF Inv
<1>8. PollerInv'
  <2>1. poller.toScan \subseteq Services
    BY TypeParts DEF Inv, PollerRec
  <2>2. \A t \in Services : svc'[t].listed = svc[t].listed
    BY <1>6
  <2> QED
    BY <1>3, <2>1, <2>2 DEF Inv, PollerInv
<1>9. /\ control' \in ControlRec /\ control'.pc = "awaitClosed" /\ control'.svc = s
      /\ control'.todo = control.todo
  BY <1>0, <1>2, <1>3, ControlGone DEF ControlPcs
<1>10. ControlInv'
  BY <1>1, <1>2, <1>9 DEF ControlInv
<1>11. EndsInv'
  <2>1. control'.pc \notin AfterDie
    BY <1>9 DEF AfterDie, AfterDeregister, AfterThreads, AfterUnlist
  <2>2. \A t \in Services :
            svc'[t].phase = "gone" => svc[t].phase = "gone" /\ svc'[t] = svc[t]
    BY <1>6
  <2> QED
    BY <2>1, <2>2, EndsOutside DEF Inv
<1>12. polls' \in Nat /\ stopped' \in BOOLEAN
  BY <1>0, <1>3
<1> QED
  BY <1>3, <1>4, <1>5, <1>7, <1>8, <1>9, <1>10, <1>11, <1>12, AfterControl

LEMMA Dies ==
    ASSUME Inv, DieNow
    PROVE  Inv'
<1> DEFINE s == control.svc
<1>0. /\ svc \in [Services -> Service] /\ op \in [Ops -> OpNode] /\ routed \in Seq(Ops)
      /\ polls \in Nat /\ stopped \in BOOLEAN
  BY TypeParts DEF Inv
<1>1. /\ control.pc = "awaitClosed" /\ svc' = [svc EXCEPT ![s].die = TRUE]
      /\ ControlGoes("deregister", s)
      /\ UNCHANGED <<op, routed, router, poller, polls, stopped, worker>>
  BY DEF DieNow
<1>2. /\ s \in Services /\ control' \in ControlRec /\ ControlInv'
      /\ control'.pc = "deregister" /\ control'.svc = s
  BY <1>1, AtService DEF DestructorSteps
<1> HIDE DEF s
<1>3. svc' \in [Services -> Service] /\ KeepsThreads
  BY <1>0, <1>1, <1>2, EndChanged
<1>4. /\ \A t \in Services \ {s} : svc'[t] = svc[t]
      /\ svc'[s].die /\ svc'[s].phase = svc[s].phase
      /\ svc'[s].registered = svc[s].registered /\ svc'[s].listed = svc[s].listed
      /\ svc'[s].threads = svc[s].threads
  BY <1>0, <1>1, <1>2 DEF Service
<1>5. RouterInv'
  <2>1. KeepsRegistered
    BY <1>4 DEF KeepsRegistered
  <2> QED
    BY <1>1, <2>1, RouterKept DEF Inv
<1>6. PollerInv'
  <2>1. poller.toScan \subseteq Services
    BY TypeParts DEF Inv, PollerRec
  <2>2. \A t \in Services : svc'[t].listed = svc[t].listed
    BY <1>4
  <2> QED
    BY <1>1, <2>1, <2>2 DEF Inv, PollerInv
<1>7. EndsInv'
  <2> SUFFICES ASSUME NEW t \in Services
               PROVE  /\ Passed(t, AfterDie)' => svc'[t].die
                      /\ Passed(t, AfterDeregister)' => svc'[t].registered = "no"
                      /\ Passed(t, AfterThreads)' => svc'[t].threads = 0
                      /\ Passed(t, AfterUnlist)' => ~svc'[t].listed
    BY DEF EndsInv
  <2>1. /\ Passed(t, AfterDeregister)' => svc[t].phase = "gone"
        /\ Passed(t, AfterThreads)' => svc[t].phase = "gone"
        /\ Passed(t, AfterUnlist)' => svc[t].phase = "gone"
        /\ Passed(t, AfterDie)' => svc[t].phase = "gone" \/ t = s
    BY <1>2, <1>4 DEF Passed, AfterDie, AfterDeregister, AfterThreads, AfterUnlist
  <2>2. svc[t].phase = "gone" => /\ svc[t].die /\ svc[t].registered = "no"
                                 /\ svc[t].threads = 0 /\ ~svc[t].listed
    BY DEF Inv, EndsInv, Passed
  <2> QED
    BY <1>4, <2>1, <2>2
<1>8. op' \in [Ops -> OpNode] /\ routed' \in Seq(Ops) /\ polls' \in Nat /\ stopped' \in BOOLEAN
  BY <1>0, <1>1
<1> QED
  BY <1>1, <1>2, <1>3, <1>5, <1>6, <1>7, <1>8, AfterControl

LEMMA Deregisters ==
    ASSUME Inv, DeregisterService
    PROVE  Inv'
<1> DEFINE s == control.svc
<1>0. /\ svc \in [Services -> Service] /\ op \in [Ops -> OpNode] /\ routed \in Seq(Ops)
      /\ polls \in Nat /\ stopped \in BOOLEAN
  BY TypeParts DEF Inv
<1>1. /\ control.pc = "deregister" /\ svc' = [svc EXCEPT ![s].registered = "no"]
      /\ svc[s].registered # "monitored" /\ ControlGoes("awaitThreads", s)
      /\ UNCHANGED <<op, routed, router, poller, polls, stopped, worker>>
  BY DEF DeregisterService
<1>2. /\ s \in Services /\ control' \in ControlRec /\ ControlInv'
      /\ control'.pc = "awaitThreads" /\ control'.svc = s
  BY <1>1, AtService DEF DestructorSteps
<1> HIDE DEF s
<1>3. svc' \in [Services -> Service] /\ KeepsThreads
  BY <1>0, <1>1, <1>2, EndChanged
<1>4. /\ \A t \in Services \ {s} : svc'[t] = svc[t]
      /\ svc'[s].registered = "no" /\ svc'[s].phase = svc[s].phase
      /\ svc'[s].die = svc[s].die /\ svc'[s].listed = svc[s].listed
      /\ svc'[s].threads = svc[s].threads
  BY <1>0, <1>1, <1>2 DEF Service
<1>5. RouterInv'
  <2>1. router.pc \in {"check", "enqueue"} => router.svc \in Services \ {s}
    BY <1>1, <1>2 DEF Inv, RouterInv
  <2> QED
    BY <1>1, <1>4, <2>1 DEF Inv, RouterInv
<1>6. PollerInv'
  <2>1. poller.toScan \subseteq Services
    BY TypeParts DEF Inv, PollerRec
  <2>2. \A t \in Services : svc'[t].listed = svc[t].listed
    BY <1>4
  <2> QED
    BY <1>1, <2>1, <2>2 DEF Inv, PollerInv
<1>7. EndsInv'
  <2> SUFFICES ASSUME NEW t \in Services
               PROVE  /\ Passed(t, AfterDie)' => svc'[t].die
                      /\ Passed(t, AfterDeregister)' => svc'[t].registered = "no"
                      /\ Passed(t, AfterThreads)' => svc'[t].threads = 0
                      /\ Passed(t, AfterUnlist)' => ~svc'[t].listed
    BY DEF EndsInv
  <2>1. /\ Passed(t, AfterThreads)' => svc[t].phase = "gone"
        /\ Passed(t, AfterUnlist)' => svc[t].phase = "gone"
        /\ Passed(t, AfterDie)' => svc[t].phase = "gone" \/ t = s
        /\ Passed(t, AfterDeregister)' => svc[t].phase = "gone" \/ t = s
    BY <1>2, <1>4 DEF Passed, AfterDie, AfterDeregister, AfterThreads, AfterUnlist
  <2>2. svc[t].phase = "gone" => /\ svc[t].die /\ svc[t].registered = "no"
                                 /\ svc[t].threads = 0 /\ ~svc[t].listed
    BY DEF Inv, EndsInv, Passed
  <2>3. svc[s].die
    BY <1>1, <1>2 DEF Inv, EndsInv, Passed, AfterDie, s
  <2> QED
    BY <1>4, <2>1, <2>2, <2>3
<1>8. op' \in [Ops -> OpNode] /\ routed' \in Seq(Ops) /\ polls' \in Nat /\ stopped' \in BOOLEAN
  BY <1>0, <1>1
<1> QED
  BY <1>1, <1>2, <1>3, <1>5, <1>6, <1>7, <1>8, AfterControl

\* The waits of the control thread at the end of a service.
LEMMA Waits ==
    ASSUME Inv, AwaitThreads \/ CloseRouter \/ DeletePool
    PROVE  Inv'
<1> DEFINE s == control.svc
<1>0. /\ svc \in [Services -> Service] /\ op \in [Ops -> OpNode] /\ routed \in Seq(Ops)
      /\ polls \in Nat /\ stopped \in BOOLEAN
  BY TypeParts DEF Inv
<1>1. UNCHANGED <<svc, router, poller, polls, stopped, worker>>
  BY DEF AwaitThreads, CloseRouter, DeletePool
<1>2. PICK pc \in {"unlist", "joinRouter", "clear"} :
          /\ ControlGoes(pc, s)
          /\ control.pc \in {"awaitThreads", "join", "joinRouter"}
          /\ control.pc = "awaitThreads" => pc = "unlist" /\ svc[s].threads = 0
  BY DEF AwaitThreads, CloseRouter, DeletePool
<1>3. /\ s \in Services /\ control' \in ControlRec /\ ControlInv'
      /\ control'.pc = pc /\ control'.svc = s
  BY <1>2, AtService DEF DestructorSteps
<1>4. op' \in [Ops -> OpNode] /\ routed' \in Seq(Ops)
  <2>1. CASE UNCHANGED <<op, routed>>
    BY <1>0, <2>1
  <2>2. CASE Send(CimomClose)
    BY <1>0, <2>2, OpTypes, SendType
  <2> QED
    BY <2>1, <2>2 DEF AwaitThreads, CloseRouter, DeletePool
<1> HIDE DEF s
<1>5. EndsInv'
  <2> SUFFICES ASSUME NEW t \in Services
               PROVE  /\ Passed(t, AfterDie)' => svc[t].die
                      /\ Passed(t, AfterDeregister)' => svc[t].registered = "no"
                      /\ Passed(t, AfterThreads)' => svc[t].threads = 0
                      /\ Passed(t, AfterUnlist)' => ~svc[t].listed
    BY <1>1 DEF EndsInv
  <2>1. CASE t # s \/ svc[t].phase = "gone"
    <3>1. /\ Passed(t, AfterDie)' => svc[t].phase = "gone"
          /\ Passed(t, AfterDeregister)' => svc[t].phase = "gone"
          /\ Passed(t, AfterThreads)' => svc[t].phase = "gone"
          /\ Passed(t, AfterUnlist)' => svc[t].phase = "gone"
      BY <1>1, <1>3, <2>1 DEF Passed
    <3>2. svc[t].phase = "gone" => /\ svc[t].die /\ svc[t].registered = "no"
                                   /\ svc[t].threads = 0 /\ ~svc[t].listed
      BY DEF Inv, EndsInv, Passed
    <3> QED
      BY <3>1, <3>2
  <2>2. CASE t = s /\ control.pc = "awaitThreads"
    <3>1. svc[t].die /\ svc[t].registered = "no" /\ svc[t].threads = 0
      BY <1>2, <2>2 DEF Inv, EndsInv, Passed, AfterDie, AfterDeregister, s
    <3>2. Passed(t, AfterUnlist)' => svc[t].phase = "gone"
      BY <1>1, <1>2, <1>3, <2>2 DEF Passed, AfterUnlist
    <3>3. svc[t].phase = "gone" => ~svc[t].listed
      BY DEF Inv, EndsInv, Passed
    <3> QED
      BY <3>1, <3>2, <3>3
  <2>3. CASE t = s /\ control.pc \in {"join", "joinRouter"}
    BY <2>3 DEF Inv, EndsInv, Passed, AfterDie, AfterDeregister, AfterThreads,
                AfterUnlist, s
  <2> QED
    BY <1>2, <2>1, <2>2, <2>3
<1>6. polls' \in Nat /\ stopped' \in BOOLEAN
  BY <1>0, <1>1
<1> QED
  BY <1>1, <1>3, <1>4, <1>5, <1>6, AfterSending

LEMMA Unlists ==
    ASSUME Inv, UnlistService
    PROVE  Inv'
<1> DEFINE s == control.svc
<1>0. /\ svc \in [Services -> Service] /\ op \in [Ops -> OpNode] /\ routed \in Seq(Ops)
      /\ polls \in Nat /\ stopped \in BOOLEAN
  BY TypeParts DEF Inv
<1>1. /\ control.pc = "unlist" /\ svc' = [svc EXCEPT ![s].listed = FALSE]
      /\ poller.pc # "scan" /\ UNCHANGED <<op, routed, router, poller, worker>>
      /\ polls' \in {polls, polls + 1} /\ stopped' \in {stopped, TRUE}
  BY DEF UnlistService
<1>2. PICK pc \in {"join", "clear"} : ControlGoes(pc, s)
  BY DEF UnlistService
<1>3. /\ s \in Services /\ control' \in ControlRec /\ ControlInv'
      /\ control'.pc = pc /\ control'.svc = s
  BY <1>1, <1>2, AtService DEF DestructorSteps
<1> HIDE DEF s
<1>4. svc' \in [Services -> Service] /\ KeepsThreads
  BY <1>0, <1>1, <1>3, EndChanged
<1>5. /\ \A t \in Services \ {s} : svc'[t] = svc[t]
      /\ ~svc'[s].listed /\ svc'[s].phase = svc[s].phase
      /\ svc'[s].registered = svc[s].registered /\ svc'[s].die = svc[s].die
      /\ svc'[s].threads = svc[s].threads
  BY <1>0, <1>1, <1>3 DEF Service
<1>6. RouterInv'
  <2>1. KeepsRegistered
    BY <1>5 DEF KeepsRegistered
  <2> QED
    BY <1>1, <2>1, RouterKept DEF Inv
<1>7. PollerInv'
  BY <1>1 DEF Inv, PollerInv
<1>8. EndsInv'
  <2> SUFFICES ASSUME NEW t \in Services
               PROVE  /\ Passed(t, AfterDie)' => svc'[t].die
                      /\ Passed(t, AfterDeregister)' => svc'[t].registered = "no"
                      /\ Passed(t, AfterThreads)' => svc'[t].threads = 0
                      /\ Passed(t, AfterUnlist)' => ~svc'[t].listed
    BY DEF EndsInv
  <2>1. CASE t # s
    <3>1. /\ Passed(t, AfterDie)' => svc[t].phase = "gone"
          /\ Passed(t, AfterDeregister)' => svc[t].phase = "gone"
          /\ Passed(t, AfterThreads)' => svc[t].phase = "gone"
          /\ Passed(t, AfterUnlist)' => svc[t].phase = "gone"
      BY <1>3, <1>5, <2>1 DEF Passed
    <3>2. svc[t].phase = "gone" => /\ svc[t].die /\ svc[t].registered = "no"
                                   /\ svc[t].threads = 0 /\ ~svc[t].listed
      BY DEF Inv, EndsInv, Passed
    <3> QED
      BY <1>5, <2>1, <3>1, <3>2
  <2>2. CASE t = s
    <3>1. svc[s].die /\ svc[s].registered = "no" /\ svc[s].threads = 0
      BY <1>1, <1>3 DEF Inv, EndsInv, Passed, AfterDie, AfterDeregister, AfterThreads, s
    <3> QED
      BY <1>5, <2>2, <3>1
  <2> QED
    BY <2>1, <2>2
<1>9. op' \in [Ops -> OpNode] /\ routed' \in Seq(Ops) /\ polls' \in Nat /\ stopped' \in BOOLEAN
  <2>1. polls + 1 \in Nat
    BY <1>0
  <2> QED
    BY <1>0, <1>1, <2>1
<1> QED
  BY <1>1, <1>3, <1>4, <1>6, <1>7, <1>8, <1>9, AfterControl

LEMMA Clears ==
    ASSUME Inv, ClearService
    PROVE  Inv'
<1> DEFINE s == control.svc
<1>0. /\ svc \in [Services -> Service] /\ op \in [Ops -> OpNode] /\ routed \in Seq(Ops)
      /\ polls \in Nat /\ stopped \in BOOLEAN /\ control \in ControlRec
  BY TypeParts DEF Inv
<1>1. /\ control.pc = "clear"
      /\ svc' = [svc EXCEPT ![s].phase = "gone", ![s].incoming = <<>>]
      /\ UNCHANGED <<routed, router, poller, polls, stopped, worker>>
  BY DEF ClearService
<1>2. s \in Services /\ control.todo # <<>> /\ control.todo \in Seq(Services)
  BY <1>0, <1>1 DEF Inv, ControlInv, ControlRec
<1>3. PICK pc \in {"done", "deleting"} :
          control' = [pc |-> pc, svc |-> NoOne, todo |-> Tail(control.todo)]
  BY DEF ClearService
<1>4. op' \in [Ops -> OpNode]
  <2>1. \A o \in Ops : op[o] \in OpNode /\ Free(op[o]) \in OpNode
    BY <1>0, NodeTypes
  <2> QED
    BY <2>1 DEF ClearService
<1>5. /\ svc[s].die /\ svc[s].registered = "no" /\ svc[s].threads = 0 /\ ~svc[s].listed
  BY <1>1, <1>2
  DEF Inv, EndsInv, Passed, AfterDie, AfterDeregister, AfterThreads, AfterUnlist
<1> HIDE DEF s
<1>6. svc' \in [Services -> Service]
  <2> DEFINE f == [svc EXCEPT ![s].phase = "gone"]
  <2>1. f \in [Services -> Service]
    BY <1>0, <1>2, ServiceFields
  <2>2. svc' = [f EXCEPT ![s].incoming = <<>>]
    BY <1>1
  <2>3. <<>> \in Seq(Ops)
    OBVIOUS
  <2> HIDE DEF f
  <2> QED
    BY <1>2, <2>1, <2>2, <2>3, ServiceFields
<1>7. /\ \A t \in Services \ {s} : svc'[t] = svc[t]
      /\ svc'[s].registered = svc[s].registered /\ svc'[s].die = svc[s].die
      /\ svc'[s].threads = svc[s].threads /\ svc'[s].listed = svc[s].listed
  BY <1>0, <1>1, <1>2, <1>6 DEF Service
<1>8. KeepsThreads /\ KeepsRegistered
  BY <1>7 DEF KeepsThreads, KeepsRegistered
<1>9. RouterInv'
  BY <1>1, <1>8, RouterKept DEF Inv
<1>10. PollerInv'
  <2>1. poller.toScan \subseteq Services
    BY TypeParts DEF Inv, PollerRec
  <2>2. \A t \in Services : svc'[t].listed = svc[t].listed
    BY <1>7
  <2> QED
    BY <1>1, <2>1, <2>2 DEF Inv, PollerInv
<1>11. control' \in ControlRec /\ ControlInv' /\ control'.pc \in {"done", "deleting"}
  <2>1. Tail(control.todo) \in Seq(Services)
    BY <1>2
  <2>2. pc \in ControlPcs
    BY DEF ControlPcs
  <2>3. control' \in ControlRec /\ control'.pc = pc
    BY <1>3, <2>1, <2>2 DEF ControlRec
  <2> QED
    BY <2>3 DEF ControlInv
<1>12. EndsInv'
  <2> SUFFICES ASSUME NEW t \in Services
               PROVE  /\ Passed(t, AfterDie)' => svc'[t].die
                      /\ Passed(t, AfterDeregister)' => svc'[t].registered = "no"
                      /\ Passed(t, AfterThreads)' => svc'[t].threads = 0
                      /\ Passed(t, AfterUnlist)' => ~svc'[t].listed
    BY DEF EndsInv
  <2>1. CASE t = s
    BY <1>5, <1>7, <2>1
  <2>2. CASE t # s
    <3>1. \/ Passed(t, AfterDie)' \/ Passed(t, AfterDeregister)'
          \/ Passed(t, AfterThreads)' \/ Passed(t, AfterUnlist)'
          => svc'[t].phase = "gone"
      BY <1>11 DEF Passed, AfterDie, AfterDeregister, AfterThreads, AfterUnlist
    <3>2. svc'[t] = svc[t]
      BY <1>7, <2>2
    <3>3. svc[t].phase = "gone" => /\ svc[t].die /\ svc[t].registered = "no"
                                   /\ svc[t].threads = 0 /\ ~svc[t].listed
      BY DEF Inv, EndsInv, Passed
    <3> QED
      BY <3>1, <3>2, <3>3
  <2> QED
    BY <2>1, <2>2
<1>13. routed' \in Seq(Ops) /\ polls' \in Nat /\ stopped' \in BOOLEAN
  BY <1>0, <1>1
<1> QED
  BY <1>1, <1>4, <1>6, <1>8, <1>9, <1>10, <1>11, <1>12, <1>13, AfterControl

-----------------------------------------------------------------------------
(* The theorems.                                                            *)

LEMMA InitInv == Init => Inv
<1> SUFFICES ASSUME Init
             PROVE  Inv
  OBVIOUS
<1>1. NewService \in Service
  <2>1. <<>> \in Seq(Ops)
    OBVIOUS
  <2> QED
    BY <2>1 DEF NewService, Service
<1>2. NewOp \in OpNode
  BY DEF NewOp, OpNode
<1>3. IdleWorker \in WorkerRec /\ IdleRouter \in RouterRec
  BY DEF IdleWorker, IdleRouter, WorkerRec, RouterRec, WorkerPcs
<1>4. svc \in [Services -> Service] /\ \A s \in Services : svc[s] = NewService
  BY <1>1 DEF Init
<1>5. worker \in [Workers -> WorkerRec] /\ \A w \in Workers : worker[w] = IdleWorker
  BY <1>3 DEF Init
<1>6. TypeOK
  <2>1. op \in [Ops -> OpNode]
    BY <1>2 DEF Init
  <2>2. routed \in Seq(Ops)
    BY DEF Init
  <2>3. router \in RouterRec /\ poller \in PollerRec /\ polls \in Nat /\ stopped \in BOOLEAN
    BY <1>3 DEF Init, PollerRec
  <2>4. control \in ControlRec
    <3>1. <<>> \in Seq(Services)
      OBVIOUS
    <3> QED
      BY <3>1 DEF Init, ControlRec, ControlPcs
  <2> QED
    BY <1>4, <1>5, <2>1, <2>2, <2>3, <2>4, TypeParts
<1>7. WorkersInv
  BY <1>5 DEF WorkersInv, IdleWorker
<1>8. RouterInv /\ PollerInv
  BY DEF Init, RouterInv, PollerInv, IdleRouter
<1>9. ControlInv
  BY DEF Init, ControlInv
<1>10. ThreadsCounted
  <2> SUFFICES ASSUME NEW s \in Services
               PROVE  /\ svc[s].threads = Cardinality({w \in Workers : worker[w].svc = s})
                      /\ svc[s].threads <= MaxThreads
    BY DEF ThreadsCounted
  <2>1. {w \in Workers : worker[w].svc = s} = {}
    BY <1>5, OpTypes DEF IdleWorker
  <2>2. Cardinality({w \in Workers : worker[w].svc = s}) = 0
    BY <2>1, FS_EmptySet
  <2>3. svc[s].threads = 0
    BY <1>4 DEF NewService
  <2> QED
    BY <2>2, <2>3, ThreadsForService
<1>11. EndsInv
  <2>1. \A s \in Services : svc[s].phase = "up"
    BY <1>4 DEF NewService
  <2>2. control.pc = "serving"
    BY DEF Init
  <2> QED
    BY <2>1, <2>2
    DEF EndsInv, Passed, AfterDie, AfterDeregister, AfterThreads, AfterUnlist
<1> QED
  BY <1>6, <1>7, <1>8, <1>9, <1>10, <1>11 DEF Inv

LEMMA NextInv == Inv /\ [Next]_vars => Inv'
<1> SUFFICES ASSUME Inv, [Next]_vars
             PROVE  Inv'
  OBVIOUS
<1>1. CASE Shutdown
  BY <1>1, Sends, Deletes, Dies, Deregisters, Waits, Unlists, Clears DEF Shutdown
<1>2. CASE \/ \E o \in Operations : SendOperation(o)
           \/ BeginShutdown
  BY <1>2, Sends
<1>3. CASE Router \/ Poller
  BY <1>3, RouterSteps, PollerSteps
<1>4. CASE \E w \in Workers : Work(w)
  BY <1>4, WorkerSteps
<1>5. CASE UNCHANGED vars
  <2>1. /\ UNCHANGED <<svc, op, routed, router, poller, polls, stopped, worker, control>>
    BY <1>5 DEF vars
  <2>2. svc' \in [Services -> Service] /\ KeepsFields /\ KeepsThreads /\ KeepsRegistered
    BY <2>1, ServicesKept
  <2>3. /\ op' \in [Ops -> OpNode] /\ routed' \in Seq(Ops) /\ polls' \in Nat
        /\ stopped' \in BOOLEAN /\ control' \in ControlRec
    BY <2>1, TypeParts DEF Inv
  <2>4. ControlInv' /\ EndsInv'
    BY <2>1, <2>2, EndsKept DEF Inv, ControlInv, KeepsThreads, KeepsRegistered
  <2> QED
    BY <2>1, <2>3, <2>4, AfterSending
<1> QED
  BY <1>1, <1>2, <1>3, <1>4, <1>5 DEF Next

\* The inductive invariant holds in every behaviour of the services.
THEOREM InvHolds == Spec => []Inv
BY InitInv, NextInv, PTL DEF Spec

\* The variables keep their types in every step of every thread.
THEOREM TypesHold == Spec => []TypeOK
<1>1. Inv => TypeOK
  BY DEF Inv
<1> QED
  BY <1>1, InvHolds, PTL

\* _threads counts the threads in a service, and never more than the maximum.
THEOREM CountsThreads == Spec => []ThreadsCounted
<1>1. Inv => ThreadsCounted
  BY DEF Inv
<1> QED
  BY <1>1, InvHolds, PTL

\* A service that was deleted is used by no thread, by no router and by no scan
\* of the poller, whatever the services, the operations and their order.
THEOREM GoneServicesAreUnused == Spec => []GoneIsUnused
<1>1. Inv => GoneIsUnused
  <2> SUFFICES ASSUME Inv, NEW s \in Services, svc[s].phase = "gone"
               PROVE  /\ \A w \in Workers : worker[w].svc # s
                      /\ ~(router.pc \in {"check", "enqueue"} /\ router.svc = s)
                      /\ s \notin poller.toScan
    BY DEF GoneIsUnused
  <2>1. svc[s].registered = "no" /\ svc[s].threads = 0 /\ ~svc[s].listed
    BY DEF Inv, EndsInv, Passed
  <2>2. \A w \in Workers : worker[w].svc # s
    BY <2>1, Counted DEF Inv
  <2>3. ~(router.pc \in {"check", "enqueue"} /\ router.svc = s)
    BY <2>1 DEF Inv, RouterInv
  <2>4. s \notin poller.toScan
    BY <2>1 DEF Inv, PollerInv
  <2> QED
    BY <2>2, <2>3, <2>4
<1> QED
  BY <1>1, InvHolds, PTL
==============================================================================
