--------------------- MODULE ServiceQueuesOwners_proofs ---------------------
(***************************************************************************)
(* Proofs about ServiceQueues that follow an operation node through the    *)
(* queues and the threads: it has one owner at a time, and what becomes of *)
(* it is what AsyncOperations promises.                                    *)
(***************************************************************************)
EXTENDS ServiceQueues_proofs

-----------------------------------------------------------------------------
(* Places in a queue.                                                       *)

Empty(o, q) == Places(o, q) = {}
Once(o, q) == \E i : Places(o, q) = {i}

\* What is appended to a queue is there once, and the rest stays.
LEMMA Appended ==
    ASSUME NEW q \in Seq(Ops), NEW x \in Ops, NEW o
    PROVE  /\ o # x => Places(o, Append(q, x)) = Places(o, q)
           /\ Empty(x, q) => Once(x, Append(q, x))
<1>1. /\ DOMAIN Append(q, x) = 1..(Len(q) + 1) /\ DOMAIN q = 1..Len(q)
      /\ Append(q, x)[Len(q) + 1] = x /\ Len(q) \in Nat
      /\ \A i \in 1..Len(q) : Append(q, x)[i] = q[i]
  OBVIOUS
<1>2. o # x => Places(o, Append(q, x)) = Places(o, q)
  BY <1>1 DEF Places
<1>3. ASSUME Empty(x, q)
      PROVE  Places(x, Append(q, x)) = {Len(q) + 1}
  BY <1>1, <1>3 DEF Places, Empty
<1> QED
  BY <1>2, <1>3 DEF Once

\* What is taken from the front of a queue is there no more, and the rest stays.
LEMMA Shifted ==
    ASSUME NEW q \in Seq(Ops), q # <<>>, NEW o
    PROVE  /\ Empty(o, q) => Empty(o, Tail(q))
           /\ o # Head(q) /\ Once(o, q) => Once(o, Tail(q))
           /\ Once(Head(q), q) => Empty(Head(q), Tail(q))
           /\ ~Empty(Head(q), q)
<1>1. /\ DOMAIN q = 1..Len(q) /\ Len(q) \in Nat \ {0} /\ Head(q) = q[1]
      /\ DOMAIN Tail(q) = 1..(Len(q) - 1)
      /\ \A i \in 1..(Len(q) - 1) : Tail(q)[i] = q[i + 1]
  OBVIOUS
<1>2. 1 \in Places(Head(q), q)
  BY <1>1 DEF Places
<1>3. Empty(o, q) => Empty(o, Tail(q))
  BY <1>1 DEF Places, Empty
<1>4. ASSUME o # Head(q), NEW k, Places(o, q) = {k}
      PROVE  Places(o, Tail(q)) = {k - 1}
  <2>1. k \in 1..Len(q) /\ q[k] = o /\ k # 1
    BY <1>1, <1>4 DEF Places
  <2>2. k - 1 \in 1..(Len(q) - 1) /\ (k - 1) + 1 = k
    BY <1>1, <2>1
  <2>3. \A i \in 1..(Len(q) - 1) : q[i + 1] = o => i = k - 1
    <3>1. ASSUME NEW i \in 1..(Len(q) - 1), q[i + 1] = o
          PROVE  i = k - 1
      <4>1. i + 1 \in Places(o, q)
        BY <1>1, <3>1 DEF Places
      <4> QED
        BY <1>4, <4>1, <2>1
    <3> QED
      BY <3>1
  <2> QED
    BY <1>1, <2>1, <2>2, <2>3 DEF Places
<1>5. ASSUME NEW k, Places(Head(q), q) = {k}
      PROVE  Places(Head(q), Tail(q)) = {}
  <2>1. \A i \in 1..(Len(q) - 1) : q[i + 1] # Head(q)
    <3>1. ASSUME NEW i \in 1..(Len(q) - 1), q[i + 1] = Head(q)
          PROVE  FALSE
      <4>1. i + 1 \in Places(Head(q), q) /\ i + 1 # 1
        BY <1>1, <3>1 DEF Places
      <4> QED
        BY <1>2, <1>5, <4>1
    <3> QED
      BY <3>1
  <2> QED
    BY <1>1, <2>1 DEF Places
<1> QED
  BY <1>2, <1>3, <1>4, <1>5 DEF Once, Empty

-----------------------------------------------------------------------------
(* The owners of an operation, by kind.                                     *)

OwnersIn(o, ro, sv, wk, rt) ==
    {<<"routed", i>> : i \in Places(o, ro)}
        \cup (UNION {{<<"incoming", s, i>> : i \in Places(o, sv[s].incoming)} : s \in Services})
        \cup {<<"worker", w>> : w \in {v \in Workers : wk[v].op = o}}
        \cup (IF rt.op = o THEN {<<"router">>} ELSE {})

\* What each kind of owner contributes.
NoQueue(o, sv) == \A s \in Services : Empty(o, sv[s].incoming)
NoWorker(o, wk) == \A w \in Workers : wk[w].op # o

NoOwner(o, ro, sv, wk, rt) ==
    Empty(o, ro) /\ NoQueue(o, sv) /\ NoWorker(o, wk) /\ rt.op # o
ByRouted(o, ro, sv, wk, rt) ==
    Once(o, ro) /\ NoQueue(o, sv) /\ NoWorker(o, wk) /\ rt.op # o
ByQueue(s, o, ro, sv, wk, rt) ==
    /\ Empty(o, ro) /\ Once(o, sv[s].incoming) /\ NoWorker(o, wk) /\ rt.op # o
    /\ \A t \in Services \ {s} : Empty(o, sv[t].incoming)
ByWorker(w, o, ro, sv, wk, rt) ==
    /\ Empty(o, ro) /\ NoQueue(o, sv) /\ wk[w].op = o /\ rt.op # o
    /\ \A v \in Workers \ {w} : wk[v].op # o
ByRouter(o, ro, sv, wk, rt) ==
    Empty(o, ro) /\ NoQueue(o, sv) /\ NoWorker(o, wk) /\ rt.op = o
OneOwnerIn(o, ro, sv, wk, rt) ==
    \/ ByRouted(o, ro, sv, wk, rt) \/ ByRouter(o, ro, sv, wk, rt)
    \/ \E s \in Services : ByQueue(s, o, ro, sv, wk, rt)
    \/ \E w \in Workers : ByWorker(w, o, ro, sv, wk, rt)

LEMMA OwnerKinds ==
    ASSUME NEW o, NEW ro, NEW sv, NEW wk, NEW rt
    PROVE  LET P == OwnersIn(o, ro, sv, wk, rt)
           IN  /\ \A i \in Places(o, ro) : <<"routed", i>> \in P
               /\ \A s \in Services : \A i \in Places(o, sv[s].incoming) :
                      <<"incoming", s, i>> \in P
               /\ \A w \in Workers : wk[w].op = o => <<"worker", w>> \in P
               /\ rt.op = o => <<"router">> \in P
               /\ \A p \in P : \/ \E i \in Places(o, ro) : p = <<"routed", i>>
                               \/ \E s \in Services : \E i \in Places(o, sv[s].incoming) :
                                      p = <<"incoming", s, i>>
                               \/ \E w \in Workers : wk[w].op = o /\ p = <<"worker", w>>
                               \/ rt.op = o /\ p = <<"router">>
<1> DEFINE P == OwnersIn(o, ro, sv, wk, rt)
           A == {<<"routed", i>> : i \in Places(o, ro)}
           B == UNION {{<<"incoming", s, i>> : i \in Places(o, sv[s].incoming)} : s \in Services}
           C == {<<"worker", w>> : w \in {v \in Workers : wk[v].op = o}}
           D == IF rt.op = o THEN {<<"router">>} ELSE {}
<1>1. P = A \cup B \cup C \cup D
  BY DEF OwnersIn
<1>2. \A p : p \in A <=> \E i \in Places(o, ro) : p = <<"routed", i>>
  BY Zenon
<1>3. \A p : p \in B <=> \E s \in Services : \E i \in Places(o, sv[s].incoming) :
                            p = <<"incoming", s, i>>
  <2> DEFINE InQueue(s) == {<<"incoming", s, i>> : i \in Places(o, sv[s].incoming)}
  <2>1. \A p, s : p \in InQueue(s)
                   <=> \E i \in Places(o, sv[s].incoming) : p = <<"incoming", s, i>>
    BY Zenon
  <2>2. B = UNION {InQueue(s) : s \in Services}
    OBVIOUS
  <2> HIDE DEF InQueue, B
  <2>3. \A p : p \in B <=> \E s \in Services : p \in InQueue(s)
    BY <2>2, Zenon
  <2> QED
    BY <2>1, <2>3, Zenon
<1>4. \A p : p \in C <=> \E w \in Workers : wk[w].op = o /\ p = <<"worker", w>>
  BY Zenon
<1>5. \A p : p \in D <=> rt.op = o /\ p = <<"router">>
  BY Zenon
<1> HIDE DEF P, A, B, C, D
<1>6. \A p : p \in P <=> p \in A \/ p \in B \/ p \in C \/ p \in D
  BY <1>1
<1>7. /\ \A i \in Places(o, ro) : <<"routed", i>> \in P
      /\ \A s \in Services : \A i \in Places(o, sv[s].incoming) : <<"incoming", s, i>> \in P
      /\ \A w \in Workers : wk[w].op = o => <<"worker", w>> \in P
      /\ rt.op = o => <<"router">> \in P
  BY <1>2, <1>3, <1>4, <1>5, <1>6, Zenon
<1>8. \A p \in P : \/ \E i \in Places(o, ro) : p = <<"routed", i>>
                   \/ \E s \in Services : \E i \in Places(o, sv[s].incoming) :
                          p = <<"incoming", s, i>>
                   \/ \E w \in Workers : wk[w].op = o /\ p = <<"worker", w>>
                   \/ rt.op = o /\ p = <<"router">>
  BY <1>2, <1>3, <1>4, <1>5, <1>6, Zenon
<1> QED
  BY <1>7, <1>8, Zenon DEF P

LEMMA OwnerForms ==
    ASSUME NEW o, NEW ro, NEW sv, NEW wk, NEW rt
    PROVE  LET P == OwnersIn(o, ro, sv, wk, rt)
           IN  /\ P = {} <=> NoOwner(o, ro, sv, wk, rt)
               /\ (\E p \in P : P = {p}) <=> OneOwnerIn(o, ro, sv, wk, rt)
<1> DEFINE P == OwnersIn(o, ro, sv, wk, rt)
<1>1. /\ \A i \in Places(o, ro) : <<"routed", i>> \in P
      /\ \A s \in Services : \A i \in Places(o, sv[s].incoming) : <<"incoming", s, i>> \in P
      /\ \A w \in Workers : wk[w].op = o => <<"worker", w>> \in P
      /\ rt.op = o => <<"router">> \in P
  BY OwnerKinds
<1>2. \A p \in P : \/ \E i \in Places(o, ro) : p = <<"routed", i>>
                   \/ \E s \in Services : \E i \in Places(o, sv[s].incoming) :
                          p = <<"incoming", s, i>>
                   \/ \E w \in Workers : wk[w].op = o /\ p = <<"worker", w>>
                   \/ rt.op = o /\ p = <<"router">>
  BY OwnerKinds
<1> HIDE DEF P
<1>3. P = {} <=> NoOwner(o, ro, sv, wk, rt)
  BY <1>1, <1>2 DEF NoOwner, NoQueue, NoWorker, Empty
\* Owners of different kinds, or in different places, are different.
<1>4. /\ \A i, s, j : <<"routed", i>> # <<"incoming", s, j>>
      /\ \A i, w : <<"routed", i>> # <<"worker", w>> /\ <<"routed", i>> # <<"router">>
      /\ \A s, j, w : <<"incoming", s, j>> # <<"worker", w>>
      /\ \A s, j : <<"incoming", s, j>> # <<"router">>
      /\ \A w : <<"worker", w>> # <<"router">>
  OBVIOUS
<1>5. /\ \A i, j : <<"routed", i>> = <<"routed", j>> => i = j
      /\ \A s, t, i, j : <<"incoming", s, i>> = <<"incoming", t, j>> => s = t /\ i = j
      /\ \A v, w : <<"worker", v>> = <<"worker", w>> => v = w
  OBVIOUS
<1>6. ASSUME NEW p \in P, P = {p}
      PROVE  OneOwnerIn(o, ro, sv, wk, rt)
  <2>1. CASE \E i \in Places(o, ro) : p = <<"routed", i>>
    <3>1. PICK i \in Places(o, ro) : p = <<"routed", i>>
      BY <2>1
    <3>2. Places(o, ro) = {i}
      BY <1>1, <1>5, <1>6, <3>1
    <3>3. NoQueue(o, sv) /\ NoWorker(o, wk) /\ rt.op # o
      BY <1>1, <1>4, <1>6, <3>1 DEF NoQueue, NoWorker, Empty
    <3> QED
      BY <3>2, <3>3 DEF OneOwnerIn, ByRouted, Once
  <2>2. CASE \E s \in Services : \E i \in Places(o, sv[s].incoming) : p = <<"incoming", s, i>>
    <3>1. PICK s \in Services : \E i \in Places(o, sv[s].incoming) : p = <<"incoming", s, i>>
      BY <2>2
    <3>0. PICK i \in Places(o, sv[s].incoming) : p = <<"incoming", s, i>>
      BY <3>1
    <3>2. Places(o, sv[s].incoming) = {i}
      BY <1>1, <1>5, <1>6, <3>0
    <3>3. \A t \in Services \ {s} : Empty(o, sv[t].incoming)
      BY <1>1, <1>5, <1>6, <3>0 DEF Empty
    <3>4. Empty(o, ro) /\ NoWorker(o, wk) /\ rt.op # o
      BY <1>1, <1>4, <1>6, <3>0 DEF NoWorker, Empty
    <3> QED
      BY <3>2, <3>3, <3>4 DEF OneOwnerIn, ByQueue, Once
  <2>3. CASE \E w \in Workers : wk[w].op = o /\ p = <<"worker", w>>
    <3>1. PICK w \in Workers : wk[w].op = o /\ p = <<"worker", w>>
      BY <2>3
    <3>2. \A v \in Workers \ {w} : wk[v].op # o
      BY <1>1, <1>5, <1>6, <3>1
    <3>3. Empty(o, ro) /\ NoQueue(o, sv) /\ rt.op # o
      BY <1>1, <1>4, <1>6, <3>1 DEF NoQueue, Empty
    <3> QED
      BY <3>1, <3>2, <3>3 DEF OneOwnerIn, ByWorker
  <2>4. CASE rt.op = o /\ p = <<"router">>
    <3>1. Empty(o, ro) /\ NoQueue(o, sv) /\ NoWorker(o, wk)
      BY <1>1, <1>4, <1>6, <2>4 DEF NoQueue, NoWorker, Empty
    <3> QED
      BY <2>4, <3>1 DEF OneOwnerIn, ByRouter
  <2> QED
    BY <1>2, <2>1, <2>2, <2>3, <2>4
<1>7. ASSUME OneOwnerIn(o, ro, sv, wk, rt)
      PROVE  \E p \in P : P = {p}
  <2>1. CASE ByRouted(o, ro, sv, wk, rt)
    <3>1. PICK i : Places(o, ro) = {i}
      BY <2>1 DEF ByRouted, Once
    <3>2. \A p \in P : p = <<"routed", i>>
      BY <1>2, <2>1, <3>1 DEF ByRouted, NoQueue, NoWorker, Empty
    <3> QED
      BY <1>1, <3>1, <3>2
  <2>2. CASE ByRouter(o, ro, sv, wk, rt)
    <3>1. \A p \in P : p = <<"router">>
      BY <1>2, <2>2 DEF ByRouter, NoQueue, NoWorker, Empty
    <3> QED
      BY <1>1, <2>2, <3>1 DEF ByRouter
  <2>3. ASSUME NEW s \in Services, ByQueue(s, o, ro, sv, wk, rt)
        PROVE  \E p \in P : P = {p}
    <3>1. PICK i : Places(o, sv[s].incoming) = {i}
      BY <2>3 DEF ByQueue, Once
    <3>2. \A p \in P : p = <<"incoming", s, i>>
      BY <1>2, <2>3, <3>1 DEF ByQueue, NoWorker, Empty
    <3>3. <<"incoming", s, i>> \in P
      BY <1>1, <3>1
    <3> QED
      BY <3>2, <3>3
  <2>4. ASSUME NEW w \in Workers, ByWorker(w, o, ro, sv, wk, rt)
        PROVE  \E p \in P : P = {p}
    <3>1. \A p \in P : p = <<"worker", w>>
      BY <1>2, <2>4 DEF ByWorker, NoQueue, Empty
    <3> QED
      BY <1>1, <2>4, <3>1 DEF ByWorker
  <2> QED
    BY <1>7, <2>1, <2>2, <2>3, <2>4 DEF OneOwnerIn
<1> QED
  BY <1>3, <1>6, <1>7 DEF P

-----------------------------------------------------------------------------
(* One owner, in a state and after a step.                                  *)

NoneHas(o) == NoOwner(o, routed, svc, worker, router)
OneHas(o) == OneOwnerIn(o, routed, svc, worker, router)
InUse(o) == op[o].at = "under way" \/ (op[o].at = "complete" /\ FlagOf(o) = "callback")
OneOwnerOf(o) ==
    IF InUse(o)
    THEN OneHas(o) \/ (NoneHas(o) /\ o # CimomClose /\ svc[Destination(o)].phase = "gone")
    ELSE NoneHas(o)

LEMMA OneOwnerForm == OneOwner <=> \A o \in Ops : OneOwnerOf(o)
<1>1. \A o : Owners(o) = OwnersIn(o, routed, svc, worker, router)
  BY DEF Owners, OwnersIn
<1>2. \A o : /\ Owners(o) = {} <=> NoneHas(o)
             /\ (\E p \in Owners(o) : Owners(o) = {p}) <=> OneHas(o)
  BY <1>1, OwnerForms DEF NoneHas, OneHas
<1> QED
  BY <1>2 DEF OneOwner, OneOwnerOf, InUse

LEMMA OneOwnerFormAfter == OneOwner' <=> \A o \in Ops : OneOwnerOf(o)'
<1>1. \A o : Owners(o)' = OwnersIn(o, routed', svc', worker', router')
  BY DEF Owners, OwnersIn
<1>2. \A o : /\ Owners(o)' = {} <=> NoneHas(o)'
             /\ (\E p \in Owners(o)' : Owners(o)' = {p}) <=> OneHas(o)'
  BY <1>1, OwnerForms DEF NoneHas, OneHas
<1> QED
  BY <1>2 DEF OneOwner, OneOwnerOf, InUse

\* A node that somebody has is in use, and nobody else has it.
LEMMA OwnedInUse ==
    ASSUME NEW o \in Ops, OneOwnerOf(o), ~NoneHas(o)
    PROVE  InUse(o) /\ OneHas(o)
BY DEF OneOwnerOf

\* A step that leaves o where it is.
StaysIn(o, q, r) == (Empty(o, q) => Empty(o, r)) /\ (Once(o, q) => Once(o, r))
Stays(o) ==
    /\ StaysIn(o, routed, routed')
    /\ \A s \in Services : StaysIn(o, svc[s].incoming, svc'[s].incoming)
    /\ \A w \in Workers : worker'[w].op = o <=> worker[w].op = o
    /\ router'.op = o <=> router.op = o
GoneStays == \A s \in Services : svc[s].phase = "gone" => svc'[s].phase = "gone"

LEMMA SameQueue ==
    ASSUME NEW o, NEW q, NEW r, r = q
    PROVE  StaysIn(o, q, r)
BY DEF StaysIn

LEMMA Stayed1 ==
    ASSUME NEW o, Stays(o)
    PROVE  (NoneHas(o) => NoneHas(o)') /\ (OneHas(o) => OneHas(o)')
<1>1. NoneHas(o) => NoneHas(o)'
  BY DEF Stays, StaysIn, NoneHas, NoOwner, NoQueue, NoWorker
<1>2. ASSUME ByRouted(o, routed, svc, worker, router)
      PROVE  ByRouted(o, routed', svc', worker', router')
  BY <1>2 DEF Stays, StaysIn, ByRouted, NoQueue, NoWorker
<1>3. ASSUME ByRouter(o, routed, svc, worker, router)
      PROVE  ByRouter(o, routed', svc', worker', router')
  BY <1>3 DEF Stays, StaysIn, ByRouter, NoQueue, NoWorker
<1>4. ASSUME NEW s \in Services, ByQueue(s, o, routed, svc, worker, router)
      PROVE  ByQueue(s, o, routed', svc', worker', router')
  BY <1>4 DEF Stays, StaysIn, ByQueue, NoWorker
<1>5. ASSUME NEW w \in Workers, ByWorker(w, o, routed, svc, worker, router)
      PROVE  ByWorker(w, o, routed', svc', worker', router')
  BY <1>5 DEF Stays, StaysIn, ByWorker, NoQueue
<1>6. ASSUME OneHas(o)
      PROVE  OneHas(o)'
  BY <1>2, <1>3, <1>4, <1>5, <1>6 DEF OneHas, OneOwnerIn
<1> QED
  BY <1>1, <1>6

LEMMA StaysOwned ==
    ASSUME NEW o \in Ops, OneOwnerOf(o), Stays(o), op'[o].at = op[o].at,
           GoneStays
    PROVE  OneOwnerOf(o)'
<1>1. (InUse(o)' <=> InUse(o)) /\ Destination(o)' = Destination(o)
  BY DEF InUse, Destination
<1>2. o # CimomClose => Destination(o) \in Services
  BY OpTypes
<1> QED
  BY <1>1, <1>2, Stayed1 DEF OneOwnerOf, GoneStays

LEMMA Moved ==
    ASSUME NEW o, InUse(o)', OneHas(o)'
    PROVE  OneOwnerOf(o)'
BY DEF OneOwnerOf

LEMMA Released ==
    ASSUME NEW o, ~InUse(o)', NoneHas(o)'
    PROVE  OneOwnerOf(o)'
BY DEF OneOwnerOf
-----------------------------------------------------------------------------
(* The inductive invariant.                                                 *)

\* Threads that have no operation, and what a waiting thread waits for.
HandsInv ==
    /\ router.pc \in {"wait", "ended"} => router.op = NoOne
    /\ \A w \in Workers :
        /\ worker[w].pc \in {"idle", "signal", "start", "loop", "leave"}
               => worker[w].op = NoOne
        /\ worker[w].pc = "waiting"
               => worker[w].sub \in Operations /\ Flags[worker[w].sub] = "wait"

\* The services that are still to be deleted are up, and each comes once.
Open == {"serving", "closing", "stop", "start", "close"}
DeletionSteps == {"awaitClosed", "deregister", "awaitThreads", "unlist", "join",
                  "joinRouter", "clear"}
Up(S) == \A s \in S : svc[s].phase = "up"

SequenceInv ==
    /\ control.pc \in Open => Up(Services)
    /\ control.pc = "deleting" => IsInjective(control.todo) /\ Up(Range(control.todo))
    /\ control.pc \in DeletionSteps =>
           /\ IsInjective(control.todo) /\ control.todo # <<>>
           /\ control.svc = Head(control.todo) /\ Up(Range(Tail(control.todo)))
    /\ control.pc \in {"join", "joinRouter"} => Len(control.todo) = 1

\* What the control thread has sent: at most one operation of a kind to a service.
SentInv ==
    /\ \A o \in Control :
           op[o].at = "under way" => \/ control.pc = o.kind /\ control.svc = o.to
                                     \/ o.kind = "close" /\ svc[o.to].phase # "up"
    /\ op[CimomClose].at # "unsent" => \/ control.pc \in {"joinRouter", "done"}
                                       \/ control.pc = "clear" /\ Len(control.todo) = 1

OneOwnerEach == \A o \in Ops : OneOwnerOf(o)
OwnersInv == OneOwnerEach /\ HandsInv /\ SequenceInv /\ SentInv

-----------------------------------------------------------------------------
(* What a step does to nodes and their owners.                              *)

SameIncoming == \A s \in Services : svc'[s].incoming = svc[s].incoming
SamePhases == \A s \in Services : svc'[s].phase = svc[s].phase
SameWorkerOps == \A w \in Workers : worker'[w].op = worker[w].op
SameRouterOp == router'.op = router.op

LEMMA RegisteredEffect ==
    ASSUME svc \in [Services -> Service], NEW s \in Services, NEW r,
           svc' = [svc EXCEPT ![s].registered = r]
    PROVE  SameIncoming /\ SamePhases
BY DEF SameIncoming, SamePhases, Service

LEMMA FlagEffects ==
    ASSUME svc \in [Services -> Service], NEW s \in Services, NEW b,
           \/ svc' = [svc EXCEPT ![s].running = b]
           \/ svc' = [svc EXCEPT ![s].closed = b]
           \/ svc' = [svc EXCEPT ![s].threads = b]
           \/ svc' = [svc EXCEPT ![s].die = b]
           \/ svc' = [svc EXCEPT ![s].listed = b]
    PROVE  SameIncoming /\ SamePhases
<1>1. CASE svc' = [svc EXCEPT ![s].running = b]
  BY <1>1 DEF SameIncoming, SamePhases, Service
<1>2. CASE svc' = [svc EXCEPT ![s].closed = b]
  BY <1>2 DEF SameIncoming, SamePhases, Service
<1>3. CASE svc' = [svc EXCEPT ![s].threads = b]
  BY <1>3 DEF SameIncoming, SamePhases, Service
<1>4. CASE svc' = [svc EXCEPT ![s].die = b]
  BY <1>4 DEF SameIncoming, SamePhases, Service
<1>5. CASE svc' = [svc EXCEPT ![s].listed = b]
  BY <1>5 DEF SameIncoming, SamePhases, Service
<1> QED
  BY <1>1, <1>2, <1>3, <1>4, <1>5

LEMMA IncomingEffect ==
    ASSUME svc \in [Services -> Service], NEW s \in Services, NEW q, NEW r,
           \/ svc' = [svc EXCEPT ![s].incoming = q]
           \/ svc' = [svc EXCEPT ![s].incoming = q, ![s].registered = r]
    PROVE  /\ SamePhases /\ svc'[s].incoming = q
           /\ \A t \in Services \ {s} : svc'[t].incoming = svc[t].incoming
<1>1. CASE svc' = [svc EXCEPT ![s].incoming = q]
  BY <1>1 DEF SamePhases, Service
<1>2. CASE svc' = [svc EXCEPT ![s].incoming = q, ![s].registered = r]
  BY <1>2 DEF SamePhases, Service
<1> QED
  BY <1>1, <1>2

LEMMA PhasesStay ==
    ASSUME SamePhases
    PROVE  GoneStays
BY DEF SamePhases, GoneStays

\* All nodes stay with their owners.
LEMMA NobodyMoves ==
    ASSUME OneOwnerEach, UNCHANGED routed, SameIncoming, SameWorkerOps, SameRouterOp,
           GoneStays, \A o \in Ops : op'[o].at = op[o].at
    PROVE  OneOwnerEach'
<1> SUFFICES ASSUME NEW o \in Ops
             PROVE  OneOwnerOf(o)'
  BY DEF OneOwnerEach
<1>1. Stays(o)
  BY DEF Stays, StaysIn, SameIncoming, SameWorkerOps, SameRouterOp
<1> QED
  BY <1>1, StaysOwned DEF OneOwnerEach

\* A node that nobody has is sent.
LEMMA SentOwned ==
    ASSUME op \in [Ops -> OpNode], routed \in Seq(Ops), OneOwnerEach,
           NEW o \in Ops, ~InUse(o), Send(o),
           SameIncoming, SameWorkerOps, SameRouterOp, GoneStays
    PROVE  /\ OneOwnerEach'
           /\ \A x \in Ops \ {o} : op'[x] = op[x]
<1>1. \A x \in Ops \ {o} : op'[x] = op[x]
  BY DEF Send
<1>2. NoneHas(o)
  BY DEF OneOwnerEach, OneOwnerOf
<1>3. routed' = routed \/ routed' = Append(routed, o)
  BY DEF Send
<1>4. ASSUME NEW x \in Ops \ {o}
      PROVE  OneOwnerOf(x)'
  <2>1. StaysIn(x, routed, routed')
    <3>1. Places(x, Append(routed, o)) = Places(x, routed)
      BY Appended
    <3> QED
      BY <1>3, <3>1 DEF StaysIn, Empty, Once
  <2>2. Stays(x)
    BY <2>1 DEF Stays, StaysIn, SameIncoming, SameWorkerOps, SameRouterOp
  <2> QED
    BY <1>1, <2>2, StaysOwned DEF OneOwnerEach
<1>5. CASE o # CimomClose /\ svc[ServiceOf(o)].phase = "gone"
  <2>1. /\ UNCHANGED routed
        /\ op'[o].at = IF FlagOf(o) = "forget" THEN "freed" ELSE "under way"
    <3>1. /\ op' = [op EXCEPT ![o].at = IF FlagOf(o) = "forget" THEN "freed"
                                        ELSE "under way"]
          /\ UNCHANGED routed
      BY <1>5 DEF Send
    <3>2. op[o] \in OpNode
      OBVIOUS
    <3> QED
      BY <3>1, <3>2 DEF OpNode
  <2>2. Stays(o)
    BY <2>1 DEF Stays, StaysIn, SameIncoming, SameWorkerOps, SameRouterOp
  <2>3. NoneHas(o)'
    BY <1>2, <2>2, Stayed1
  <2>4. ASSUME op'[o].at = "freed"
        PROVE  OneOwnerOf(o)'
    BY <2>3, <2>4, Released DEF InUse
  <2>5. ASSUME op'[o].at = "under way"
        PROVE  OneOwnerOf(o)'
    <3>1. Destination(o)' = ServiceOf(o)
      BY <2>5 DEF Destination
    <3>2. ServiceOf(o) \in Services
      BY <1>5, OpTypes
    <3> QED
      BY <1>5, <2>3, <2>5, <3>1, <3>2 DEF OneOwnerOf, GoneStays
  <2>6. OneOwnerOf(o)'
    BY <2>1, <2>4, <2>5
  <2> QED
    BY <1>1, <1>4, <2>6 DEF OneOwnerEach
<1>6. CASE ~(o # CimomClose /\ svc[ServiceOf(o)].phase = "gone")
  <2>1. routed' = Append(routed, o) /\ op'[o].at = "under way"
    BY <1>6 DEF Send, OpNode
  <2>2. Once(o, routed')
    BY <1>2, <2>1, Appended DEF NoneHas, NoOwner
  <2>3. NoQueue(o, svc') /\ NoWorker(o, worker') /\ router'.op # o
    BY <1>2 DEF NoneHas, NoOwner, NoQueue, NoWorker, SameIncoming, SameWorkerOps, SameRouterOp
  <2>4. OneHas(o)'
    BY <2>2, <2>3 DEF OneHas, OneOwnerIn, ByRouted
  <2>5. OneOwnerOf(o)'
    BY <2>1, <2>4, Moved DEF InUse
  <2> QED
    BY <1>1, <1>4, <2>5 DEF OneOwnerEach
<1> QED
  BY <1>5, <1>6

\* A thread gives away the only hold of a node; the other nodes stay.
GivenUp(o) ==
    /\ Empty(o, routed) /\ NoQueue(o, svc)
    /\ NoWorker(o, worker') /\ router'.op # o
    /\ \A x \in Ops \ {o} : /\ \A w \in Workers : worker'[w].op = x <=> worker[w].op = x
                            /\ router'.op = x <=> router.op = x

LEMMA CompletedOwned ==
    ASSUME op \in [Ops -> OpNode], routed \in Seq(Ops), OneOwnerEach,
           NEW o \in Ops, NEW reply, Complete(o, reply), GivenUp(o), SameIncoming, GoneStays
    PROVE  /\ OneOwnerEach'
           /\ \A x \in Ops \ {o} : op'[x] = op[x]
           /\ op'[o].at \in {"complete", "freed"}
<1>1. \A x \in Ops \ {o} : op'[x] = op[x]
  BY DEF Complete
<1>2. op'[o] = Answered(op[o], o, reply)
  BY DEF Complete
<1>3. /\ FlagOf(o) = "forget" => op'[o].at = "freed"
      /\ FlagOf(o) # "forget" => op'[o].at = "complete"
  BY <1>2 DEF Answered, OpNode
<1>4. ASSUME NEW x \in Ops \ {o}
      PROVE  OneOwnerOf(x)'
  <2>1. StaysIn(x, routed, routed')
    BY Appended DEF Complete, StaysIn, Empty, Once
  <2>2. Stays(x)
    BY <2>1 DEF Stays, StaysIn, SameIncoming, GivenUp
  <2> QED
    BY <1>1, <2>2, StaysOwned DEF OneOwnerEach
<1>5. NoQueue(o, svc')
  BY DEF GivenUp, NoQueue, SameIncoming
<1>6. CASE FlagOf(o) = "callback"
  <2>1. Once(o, routed')
    BY <1>6, Appended DEF Complete, GivenUp
  <2>2. OneHas(o)'
    BY <1>5, <2>1 DEF GivenUp, OneHas, OneOwnerIn, ByRouted
  <2>3. OneOwnerOf(o)'
    BY <1>3, <1>6, <2>2, Moved DEF InUse
  <2> QED
    BY <1>1, <1>3, <1>4, <2>3 DEF OneOwnerEach
<1>7. CASE FlagOf(o) # "callback"
  <2>1. Empty(o, routed')
    BY <1>7 DEF Complete, GivenUp
  <2>2. NoneHas(o)'
    BY <1>5, <2>1 DEF GivenUp, NoneHas, NoOwner
  <2>3. OneOwnerOf(o)'
    BY <1>3, <1>7, <2>2, Released DEF InUse
  <2> QED
    BY <1>1, <1>3, <1>4, <2>3 DEF OneOwnerEach
<1> QED
  BY <1>6, <1>7

LEMMA FreedOwned ==
    ASSUME op \in [Ops -> OpNode], OneOwnerEach, NEW o \in Ops,
           UNCHANGED routed, op' = [op EXCEPT ![o] = Free(op[o])]
                             \/ op' = [op EXCEPT ![o] = Taken(op[o])],
           GivenUp(o), SameIncoming, GoneStays
    PROVE  /\ OneOwnerEach'
           /\ \A x \in Ops \ {o} : op'[x] = op[x]
           /\ op'[o].at = "freed"
<1>1. (\A x \in Ops \ {o} : op'[x] = op[x]) /\ op'[o].at = "freed"
  <2>1. Free(op[o]).at = "freed" /\ Taken(op[o]).at = "freed"
    BY DEF Free, Taken, OpNode
  <2>2. (\A x \in Ops \ {o} : op'[x] = op[x])
           /\ (op'[o] = Free(op[o]) \/ op'[o] = Taken(op[o]))
    OBVIOUS
  <2> QED
    BY <2>1, <2>2
<1>2. ASSUME NEW x \in Ops \ {o}
      PROVE  OneOwnerOf(x)'
  <2>1. Stays(x)
    BY DEF Stays, StaysIn, SameIncoming, GivenUp
  <2> QED
    BY <1>1, <2>1, StaysOwned DEF OneOwnerEach
<1>3. NoneHas(o)'
  BY DEF GivenUp, NoneHas, NoOwner, NoQueue, SameIncoming
<1>4. OneOwnerOf(o)'
  BY <1>1, <1>3, Released DEF InUse
<1> QED
  BY <1>1, <1>2, <1>4 DEF OneOwnerEach
-----------------------------------------------------------------------------
(* Steps of the router, the poller and the threads of the pool.             *)

OpsGo ==
    \A o \in Ops : \/ op'[o].at = op[o].at
                   \/ InUse(o) /\ op'[o].at \in {"complete", "freed"}
                   \/ o \in Operations
Goes == OneOwnerEach' /\ HandsInv' /\ SamePhases /\ OpsGo

LEMMA TodoServices ==
    ASSUME TypeOK
    PROVE  /\ Range(control.todo) \subseteq Services
           /\ control.todo # <<>> => Range(Tail(control.todo)) \subseteq Services
<1>1. control.todo \in Seq(Services)
  BY TypeParts DEF ControlRec
<1>2. \A q \in Seq(Services) : Range(q) \subseteq Services
  BY DEF Range
<1>3. ASSUME NEW q \in Seq(Services), q # <<>>
      PROVE  Tail(q) \in Seq(Services)
  BY <1>3
<1> QED
  BY <1>1, <1>2, <1>3

LEMMA ControlKept ==
    ASSUME Inv, OwnersInv, Goes, UNCHANGED control
    PROVE  OwnersInv'
<1>1. SequenceInv'
  <2>1. Up(Services) => Up(Services)'
    BY DEF Goes, SamePhases, Up
  <2>2. Up(Range(control.todo)) => Up(Range(control.todo))'
    BY TodoServices DEF Inv, Goes, SamePhases, Up
  <2>3. control.todo # <<>> /\ Up(Range(Tail(control.todo))) => Up(Range(Tail(control.todo)))'
    BY TodoServices DEF Inv, Goes, SamePhases, Up
  <2> QED
    BY <2>1, <2>2, <2>3 DEF OwnersInv, SequenceInv
<1>2. ASSUME NEW o \in Control, op'[o].at = "under way"
      PROVE  \/ control.pc = o.kind /\ control.svc = o.to
             \/ o.kind = "close" /\ svc'[o.to].phase # "up"
  <2>1. o \in Ops /\ o \notin Operations /\ o.to \in Services
    BY OpTypes, NothingIsNoOne
  <2>2. op[o].at = "under way"
    BY <1>2, <2>1 DEF Goes, OpsGo
  <2> QED
    BY <2>1, <2>2 DEF OwnersInv, SentInv, Goes, SamePhases
<1>3. ASSUME op[CimomClose].at = "unsent"
      PROVE  op'[CimomClose].at = "unsent"
  <2>1. CimomClose \in Ops /\ CimomClose \notin Operations
    BY OpTypes
  <2> QED
    BY <1>3, <2>1 DEF Goes, OpsGo, InUse
<1>4. SentInv'
  BY <1>2, <1>3 DEF OwnersInv, SentInv
<1> QED
  BY <1>1, <1>4 DEF OwnersInv, Goes

LEMMA NodesStay ==
    ASSUME UNCHANGED op
    PROVE  OpsGo /\ \A o \in Ops : op'[o].at = op[o].at
BY DEF OpsGo

LEMMA WorkersHandsStay ==
    ASSUME HandsInv, UNCHANGED worker, router'.pc \in {"wait", "ended"} => router'.op = NoOne
    PROVE  HandsInv' /\ SameWorkerOps
BY DEF HandsInv, SameWorkerOps

LEMMA ServicesStay ==
    ASSUME UNCHANGED svc
    PROVE  SamePhases /\ SameIncoming /\ GoneStays
BY DEF SamePhases, SameIncoming, GoneStays

\* The router takes a node from its queue.
LEMMA RoutesOne ==
    ASSUME Inv, OwnersInv, RouteOperation
    PROVE  Goes
<1> PICK o : o = Head(routed)
  OBVIOUS
<1>0. svc \in [Services -> Service] /\ routed \in Seq(Ops)
  BY TypeParts DEF Inv
<1>1. /\ router.pc = "wait" /\ routed # <<>> /\ o # CimomClose
      /\ routed' = Tail(routed) /\ router'.op = o
      /\ router'.pc \notin {"wait", "ended"}
      /\ UNCHANGED <<op, worker>>
  BY DEF RouteOperation
<1>2. o \in Ops
  BY <1>0, <1>1
<1>3. SameIncoming /\ SamePhases /\ GoneStays
  <2>1. Destination(o) \in Services
    BY <1>1, <1>2, OpTypes
  <2>2. UNCHANGED svc \/ svc' = [svc EXCEPT ![Destination(o)].registered = "monitored"]
    BY DEF RouteOperation
  <2>3. SameIncoming /\ SamePhases
    BY <1>0, <2>1, <2>2, RegisteredEffect, ServicesStay
  <2> QED
    BY <2>3, PhasesStay
<1>4. HandsInv' /\ SameWorkerOps /\ router.op = NoOne
  BY <1>1, WorkersHandsStay DEF OwnersInv, HandsInv
<1>5. ASSUME NEW x \in Ops \ {o}
      PROVE  OneOwnerOf(x)'
  <2>1. router.op # x /\ router'.op # x
    BY <1>1, <1>4, OpTypes
  <2>2. StaysIn(x, routed, routed')
    BY <1>0, <1>1, Shifted DEF StaysIn
  <2>3. Stays(x)
    BY <1>3, <1>4, <2>1, <2>2 DEF Stays, StaysIn, SameIncoming, SameWorkerOps
  <2> QED
    BY <1>1, <1>3, <2>3, StaysOwned DEF OwnersInv, OneOwnerEach
<1>6. OneOwnerOf(o)'
  <2>1. ~Empty(o, routed)
    BY <1>0, <1>1, Shifted
  <2>2. InUse(o) /\ OneHas(o)
    BY <1>2, <2>1, OwnedInUse DEF OwnersInv, OneOwnerEach, NoneHas, NoOwner
  <2>3. ByRouted(o, routed, svc, worker, router)
    BY <2>1, <2>2 DEF OneHas, OneOwnerIn, ByRouter, ByQueue, ByWorker
  <2>4. Empty(o, routed')
    BY <1>0, <1>1, <2>3, Shifted DEF ByRouted
  <2>5. NoQueue(o, svc') /\ NoWorker(o, worker')
    BY <1>3, <1>4, <2>3 DEF ByRouted, NoQueue, NoWorker, SameIncoming, SameWorkerOps
  <2>6. OneHas(o)'
    BY <1>1, <2>4, <2>5 DEF OneHas, OneOwnerIn, ByRouter
  <2>7. InUse(o)'
    BY <1>1, <2>2 DEF InUse
  <2> QED
    BY <2>6, <2>7, Moved
<1>7. OneOwnerEach'
  BY <1>5, <1>6 DEF OneOwnerEach
<1> QED
  BY <1>1, <1>3, <1>4, <1>7, NodesStay DEF Goes

\* What the router has is its own.
LEMMA RouterHas ==
    ASSUME OwnersInv, router.op \in Ops
    PROVE  LET o == router.op
           IN  /\ InUse(o) /\ Empty(o, routed) /\ NoQueue(o, svc) /\ NoWorker(o, worker)
<1> DEFINE o == router.op
<1>1. ~NoneHas(o)
  BY DEF NoneHas, NoOwner
<1>2. InUse(o) /\ OneHas(o)
  BY <1>1, OwnedInUse DEF OwnersInv, OneOwnerEach
<1>3. ByRouter(o, routed, svc, worker, router)
  BY <1>2 DEF OneHas, OneOwnerIn, ByRouted, ByQueue, ByWorker
<1> QED
  BY <1>2, <1>3 DEF ByRouter

LEMMA RouterGivesUp ==
    ASSUME OwnersInv, router.op \in Ops, router' = IdleRouter, UNCHANGED worker
    PROVE  GivenUp(router.op)
BY RouterHas, OpTypes DEF GivenUp, IdleRouter, NoWorker

\* The router puts what it has into the queue of the service.
LEMMA EnqueuesOne ==
    ASSUME Inv, OwnersInv, EnqueueOperation
    PROVE  Goes
<1> PICK o : o = router.op
  OBVIOUS
<1> PICK s : s = router.svc
  OBVIOUS
<1>0. svc \in [Services -> Service]
  BY TypeParts DEF Inv
<1>1. router.pc = "enqueue" /\ UNCHANGED <<op, routed, worker>>
  BY DEF EnqueueOperation
<1>2. o \in Ops /\ s \in Services
  BY <1>1 DEF Inv, RouterInv
<1>3. CASE svc[s].die
  <2>1. router' = [router EXCEPT !.pc = "refuse"] /\ UNCHANGED svc
    BY <1>3 DEF EnqueueOperation, RouterGoes
  <2>2. router'.pc = "refuse" /\ router'.op = router.op
    BY <2>1, TypeParts DEF Inv, RouterRec
  <2>3. HandsInv' /\ SameWorkerOps /\ SameRouterOp
    BY <1>1, <2>2, WorkersHandsStay DEF OwnersInv, SameRouterOp
  <2> QED
    BY <1>1, <2>1, <2>3, NodesStay, ServicesStay, NobodyMoves DEF Goes, OwnersInv
<1>4. CASE ~svc[s].die
  <2> DEFINE q == svc[s].incoming
  <2>1. /\ svc' = [svc EXCEPT ![s].incoming = Append(q, o), ![s].registered = "yes"]
        /\ router' = IdleRouter
    BY <1>4 DEF EnqueueOperation
  <2>2. q \in Seq(Ops)
    BY <1>0, <1>2 DEF Service
  <2>3. /\ SamePhases /\ svc'[s].incoming = Append(q, o)
        /\ \A t \in Services \ {s} : svc'[t].incoming = svc[t].incoming
    BY <1>0, <1>2, <2>1, IncomingEffect
  <2>4. HandsInv' /\ SameWorkerOps
    BY <1>1, <2>1, WorkersHandsStay DEF OwnersInv, IdleRouter
  <2>5. InUse(o) /\ Empty(o, routed) /\ NoQueue(o, svc) /\ NoWorker(o, worker)
    BY <1>2, RouterHas
  <2>6. router'.op # o
    BY <1>2, <2>1, OpTypes DEF IdleRouter
  <2>7. ASSUME NEW x \in Ops \ {o}
        PROVE  OneOwnerOf(x)'
    <3>1. router.op # x /\ router'.op # x
      BY <2>1, OpTypes DEF IdleRouter
    <3>2. Places(x, Append(q, o)) = Places(x, q)
      BY <1>2, <2>2, Appended
    <3>3. \A t \in Services : StaysIn(x, svc[t].incoming, svc'[t].incoming)
      BY <2>3, <3>2 DEF StaysIn, Empty, Once
    <3>4. Stays(x)
      BY <1>1, <2>4, <3>1, <3>3 DEF Stays, StaysIn, SameWorkerOps
    <3> QED
      BY <1>1, <2>3, <3>4, StaysOwned, PhasesStay DEF OwnersInv, OneOwnerEach
  <2>8. OneOwnerOf(o)'
    <3>1. Once(o, svc'[s].incoming)
      BY <1>2, <2>2, <2>3, <2>5, Appended DEF NoQueue
    <3>2. \A t \in Services \ {s} : Empty(o, svc'[t].incoming)
      BY <2>3, <2>5 DEF NoQueue
    <3>3. ByQueue(s, o, routed', svc', worker', router')
      BY <1>1, <2>5, <2>6, <3>1, <3>2 DEF ByQueue
    <3>4. InUse(o)' /\ OneHas(o)'
      BY <1>1, <1>2, <2>5, <3>3 DEF InUse, OneHas, OneOwnerIn
    <3> QED
      BY <3>4, Moved
  <2> QED
    BY <1>1, <2>3, <2>4, <2>7, <2>8, NodesStay DEF Goes, OneOwnerEach
<1> QED
  BY <1>3, <1>4

LEMMA RefusesOne ==
    ASSUME Inv, OwnersInv, RefuseOperation
    PROVE  Goes
<1> DEFINE o == router.op
           s == router.svc
<1>0. svc \in [Services -> Service] /\ op \in [Ops -> OpNode] /\ routed \in Seq(Ops)
  BY TypeParts DEF Inv
<1>1. router.pc = "refuse" /\ router' = IdleRouter /\ UNCHANGED worker
  BY DEF RefuseOperation
<1>2. o \in Ops /\ s \in Services
  BY <1>1 DEF Inv, RouterInv
<1>3. SameIncoming /\ SamePhases /\ GoneStays
  <2> DEFINE r == IF svc[s].registered = "monitored" THEN "yes" ELSE svc[s].registered
  <2>1. svc' = [svc EXCEPT ![s].registered = r]
    BY DEF RefuseOperation
  <2> HIDE DEF r
  <2>2. SameIncoming /\ SamePhases
    BY <1>0, <1>2, <2>1, RegisteredEffect
  <2> QED
    BY <2>2, PhasesStay
<1>4. HandsInv'
  BY <1>1, WorkersHandsStay DEF OwnersInv, IdleRouter
<1>5. GivenUp(o) /\ InUse(o)
  BY <1>1, <1>2, RouterGivesUp, RouterHas
<1>6. \/ Complete(o, "nak")
      \/ UNCHANGED routed /\ op' = [op EXCEPT ![o] = Free(op[o])]
  BY DEF RefuseOperation
<1>7. /\ OneOwnerEach' /\ \A x \in Ops \ {o} : op'[x] = op[x]
      /\ op'[o].at \in {"complete", "freed"}
  BY <1>0, <1>2, <1>3, <1>5, <1>6, CompletedOwned, FreedOwned DEF OwnersInv
<1>8. OpsGo
  BY <1>5, <1>7 DEF OpsGo
<1> QED
  BY <1>3, <1>4, <1>7, <1>8 DEF Goes

\* The nodes of a queue that is emptied are freed.
FreedFrom(q) == op' = [o \in Ops |-> IF \E i \in DOMAIN q : q[i] = o THEN Free(op[o]) ELSE op[o]]

LEMMA Emptied ==
    ASSUME op \in [Ops -> OpNode], NEW q \in Seq(Ops), FreedFrom(q), NEW o \in Ops
    PROVE  /\ Empty(o, q) => op'[o] = op[o]
           /\ ~Empty(o, q) => op'[o].at = "freed"
           /\ Empty(o, <<>>)
<1>1. (\E i \in DOMAIN q : q[i] = o) <=> ~Empty(o, q)
  BY DEF Empty, Places
<1>2. Empty(o, <<>>)
  BY DEF Empty, Places
<1> QED
  BY <1>1, <1>2 DEF FreedFrom, Free, OpNode

\* The close of the router frees what is in its queue.
LEMMA ClosesRouter ==
    ASSUME Inv, OwnersInv, CloseCimom
    PROVE  Goes
<1>0. op \in [Ops -> OpNode] /\ routed \in Seq(Ops) /\ router \in RouterRec
  BY TypeParts DEF Inv
<1>1. /\ router.pc = "wait" /\ routed' = <<>> /\ FreedFrom(routed)
      /\ router' = [router EXCEPT !.pc = "ended"] /\ UNCHANGED <<svc, worker>>
  BY DEF CloseCimom, RouterGoes, FreedFrom
<1>2. router'.op = router.op /\ router.op = NoOne
  BY <1>0, <1>1 DEF OwnersInv, HandsInv, RouterRec
<1>3. HandsInv' /\ SameWorkerOps
  BY <1>1, <1>2, WorkersHandsStay DEF OwnersInv
<1>4. SamePhases /\ SameIncoming /\ GoneStays
  BY <1>1, ServicesStay
<1>5. ASSUME NEW o \in Ops, Empty(o, routed)
      PROVE  OneOwnerOf(o)' /\ op'[o] = op[o]
  <2>1. StaysIn(o, routed, routed') /\ op'[o] = op[o]
    <3>1. Empty(o, routed') /\ op'[o] = op[o]
      BY <1>0, <1>1, <1>5, Emptied
    <3> QED
      BY <1>5, <3>1 DEF StaysIn, Once, Empty
  <2>2. Stays(o)
    BY <1>2, <1>3, <1>4, <2>1 DEF Stays, StaysIn, SameIncoming, SameWorkerOps
  <2> QED
    BY <1>4, <2>1, <2>2, StaysOwned DEF OwnersInv, OneOwnerEach
<1>6. ASSUME NEW o \in Ops, ~Empty(o, routed)
      PROVE  OneOwnerOf(o)' /\ op'[o].at = "freed" /\ InUse(o)
  <2>1. op'[o].at = "freed" /\ Empty(o, routed')
    BY <1>0, <1>1, <1>6, Emptied
  <2>2. InUse(o) /\ OneHas(o)
    BY <1>6, OwnedInUse DEF OwnersInv, OneOwnerEach, NoneHas, NoOwner
  <2>3. ByRouted(o, routed, svc, worker, router)
    BY <1>6, <2>2 DEF OneHas, OneOwnerIn, ByRouter, ByQueue, ByWorker
  <2>4. NoneHas(o)'
    BY <1>2, <1>3, <1>4, <2>1, <2>3
    DEF ByRouted, NoneHas, NoOwner, NoQueue, NoWorker, SameIncoming, SameWorkerOps
  <2> QED
    BY <2>1, <2>2, <2>4, Released DEF InUse
<1>7. OneOwnerEach' /\ OpsGo
  BY <1>5, <1>6 DEF OneOwnerEach, OpsGo
<1> QED
  BY <1>3, <1>4, <1>7 DEF Goes

LEMMA RouterGoesOn ==
    ASSUME Inv, OwnersInv, Router
    PROVE  Goes
<1>1. CASE CheckService
  <2>1. PICK pc \in {"enqueue", "refuse"} : router' = [router EXCEPT !.pc = pc]
    BY <1>1 DEF CheckService, RouterGoes
  <2>2. UNCHANGED <<svc, op, routed, worker>>
    BY <1>1 DEF CheckService
  <2>3. router'.pc = pc /\ router'.op = router.op
    BY <2>1, TypeParts DEF Inv, RouterRec
  <2>4. HandsInv' /\ SameWorkerOps /\ SameRouterOp
    BY <2>2, <2>3, WorkersHandsStay DEF OwnersInv, SameRouterOp
  <2> QED
    BY <2>2, <2>4, NodesStay, ServicesStay, NobodyMoves DEF Goes, OwnersInv
<1> QED
  BY <1>1, RoutesOne, EnqueuesOne, RefusesOne, ClosesRouter DEF Router

\* The poller gives a thread a service, and no operation.
LEMMA PollerGoesOn ==
    ASSUME Inv, OwnersInv, Poller
    PROVE  Goes
<1>0. svc \in [Services -> Service] /\ worker \in [Workers -> WorkerRec]
  BY TypeParts DEF Inv
<1>1. UNCHANGED <<op, routed, router>>
  BY DEF Poller, PollerWakes, SkipService, NoWorkerLeft, StartWorker
<1>2. CASE UNCHANGED <<svc, worker>>
  <2>1. HandsInv' /\ SameWorkerOps /\ SameRouterOp
    BY <1>1, <1>2, WorkersHandsStay DEF OwnersInv, HandsInv, SameRouterOp
  <2> QED
    BY <1>1, <1>2, <2>1, NodesStay, ServicesStay, NobodyMoves DEF Goes, OwnersInv
<1>3. ASSUME NEW s \in Services, NEW w \in Workers, StartWorker(s, w)
      PROVE  Goes
  <2>1. /\ worker[w].pc = "idle"
        /\ svc' = [svc EXCEPT ![s].threads = svc[s].threads + 1]
        /\ worker' = [worker EXCEPT ![w] = [IdleWorker EXCEPT !.pc = "start", !.svc = s]]
    BY <1>3 DEF StartWorker
  <2>2. /\ worker'[w].pc = "start" /\ worker'[w].op = NoOne
        /\ \A v \in Workers \ {w} : worker'[v] = worker[v]
    BY <1>0, <2>1 DEF IdleWorker
  <2>3. HandsInv' /\ SameWorkerOps /\ SameRouterOp
    BY <1>1, <2>1, <2>2 DEF OwnersInv, HandsInv, SameWorkerOps, SameRouterOp
  <2>4. SameIncoming /\ SamePhases
    BY <1>0, <2>1, FlagEffects
  <2> QED
    BY <1>1, <2>3, <2>4, NodesStay, PhasesStay, NobodyMoves DEF Goes, OwnersInv
<1> QED
  BY <1>2, <1>3 DEF Poller, PollerWakes, SkipService, NoWorkerLeft

\* What a thread has is its own.
LEMMA WorkerHas ==
    ASSUME OwnersInv, NEW w \in Workers, NEW o \in Ops, worker[w].op = o
    PROVE  /\ InUse(o) /\ Empty(o, routed) /\ NoQueue(o, svc) /\ router.op # o
           /\ \A v \in Workers \ {w} : worker[v].op # o
<1>1. ~NoneHas(o)
  BY DEF NoneHas, NoOwner, NoWorker
<1>2. InUse(o) /\ OneHas(o)
  BY <1>1, OwnedInUse DEF OwnersInv, OneOwnerEach
<1>3. ByWorker(w, o, routed, svc, worker, router)
  BY <1>2 DEF OneHas, OneOwnerIn, ByRouted, ByRouter, ByQueue, ByWorker, NoWorker
<1> QED
  BY <1>2, <1>3 DEF ByWorker

LEMMA WorkerGivesUp ==
    ASSUME OwnersInv, NEW w \in Workers, NEW o \in Ops, worker[w].op = o,
           worker'[w].op = NoOne, \A v \in Workers \ {w} : worker'[v] = worker[v],
           UNCHANGED router
    PROVE  GivenUp(o) /\ InUse(o)
<1>1. /\ InUse(o) /\ Empty(o, routed) /\ NoQueue(o, svc) /\ router.op # o
      /\ \A v \in Workers \ {w} : worker[v].op # o
  BY WorkerHas
<1>2. NoWorker(o, worker')
  BY <1>1, OpTypes DEF NoWorker
<1>3. \A x \in Ops \ {o} : \A v \in Workers : worker'[v].op = x <=> worker[v].op = x
  BY OpTypes
<1> QED
  BY <1>1, <1>2, <1>3 DEF GivenUp

\* The hands after a step of one thread.
LEMMA HandsAfter ==
    ASSUME HandsInv, NEW w \in Workers, \A v \in Workers \ {w} : worker'[v] = worker[v],
           UNCHANGED router,
           worker'[w].pc \in {"idle", "signal", "start", "loop", "leave"}
               => worker'[w].op = NoOne,
           worker'[w].pc = "waiting"
               => worker'[w].sub \in Operations /\ Flags[worker'[w].sub] = "wait"
    PROVE  HandsInv'
BY DEF HandsInv

\* A thread that keeps what it has, and touches no node.
LEMMA ThreadKeeps ==
    ASSUME OwnersInv, HandsInv', NEW w \in Workers, worker'[w].op = worker[w].op,
           \A v \in Workers \ {w} : worker'[v] = worker[v],
           UNCHANGED <<op, routed, router>>, SamePhases, SameIncoming
    PROVE  Goes
<1>1. SameWorkerOps /\ SameRouterOp
  BY DEF SameWorkerOps, SameRouterOp
<1> QED
  BY <1>1, NodesStay, PhasesStay, NobodyMoves DEF Goes, OwnersInv

\* The effect of the operators that say where a thread goes.
LEMMA WorkerWent ==
    ASSUME worker \in [Workers -> WorkerRec], NEW w \in Workers, NEW pc, WorkerGoes(w, pc)
    PROVE  /\ worker'[w].pc = pc /\ worker'[w].op = worker[w].op
           /\ worker'[w].sub = worker[w].sub
           /\ \A v \in Workers \ {w} : worker'[v] = worker[v]
<1>1. worker[w] \in WorkerRec
  OBVIOUS
<1> QED
  BY <1>1 DEF WorkerGoes, WorkerRec

LEMMA WorkerEnded ==
    ASSUME worker \in [Workers -> WorkerRec], NEW w \in Workers, EndOperation(w)
    PROVE  /\ worker'[w].pc \in {"leave", "loop"} /\ worker'[w].op = NoOne
           /\ \A v \in Workers \ {w} : worker'[v] = worker[v]
<1>1. worker[w] \in WorkerRec
  OBVIOUS
<1> QED
  BY <1>1 DEF EndOperation, WorkerRec

LEMMA WorkerReset ==
    ASSUME worker \in [Workers -> WorkerRec], NEW w \in Workers, NEW pc,
           worker' = [worker EXCEPT ![w] = [IdleWorker EXCEPT !.pc = pc]]
    PROVE  /\ worker'[w].pc = pc /\ worker'[w].op = NoOne
           /\ \A v \in Workers \ {w} : worker'[v] = worker[v]
BY DEF IdleWorker

\* A thread ends an operation: it answers or frees its node.
LEMMA ThreadEnds ==
    ASSUME Inv, OwnersInv, NEW w \in Workers, NEW o \in Ops, worker[w].op = o,
           EndOperation(w), UNCHANGED router,
           \/ \E reply \in {"ok", "nak"} : Complete(o, reply)
           \/ UNCHANGED routed /\ op' = [op EXCEPT ![o] = Taken(op[o])],
           SamePhases, SameIncoming
    PROVE  Goes
<1>0. op \in [Ops -> OpNode] /\ routed \in Seq(Ops) /\ worker \in [Workers -> WorkerRec]
  BY TypeParts DEF Inv
<1>1. /\ worker'[w].pc \in {"leave", "loop"} /\ worker'[w].op = NoOne
      /\ \A v \in Workers \ {w} : worker'[v] = worker[v]
  BY <1>0, WorkerEnded
<1>2. HandsInv'
  BY <1>1, HandsAfter DEF OwnersInv
<1>3. GivenUp(o) /\ InUse(o)
  BY <1>1, WorkerGivesUp
<1>4. /\ OneOwnerEach' /\ \A x \in Ops \ {o} : op'[x] = op[x]
      /\ op'[o].at \in {"complete", "freed"}
  BY <1>0, <1>3, PhasesStay, CompletedOwned, FreedOwned DEF OwnersInv
<1>5. OpsGo
  BY <1>3, <1>4 DEF OpsGo
<1> QED
  BY <1>2, <1>4, <1>5 DEF Goes

\* A thread that only goes on keeps what it has.
GoesOn(w) == BeginWork(w) \/ LeaveService(w) \/ SignalPoller(w) \/ UseDeletedService(w)
                 \/ CloseService(w)

LEMMA ThreadHands ==
    ASSUME Inv, OwnersInv, NEW w \in Workers, GoesOn(w)
    PROVE  /\ worker'[w].op = worker[w].op /\ \A v \in Workers \ {w} : worker'[v] = worker[v]
           /\ worker'[w].pc \in {"idle", "signal", "start", "loop", "leave"}
                  => worker'[w].op = NoOne
           /\ worker'[w].pc # "waiting"
           /\ worker'[w].pc = "closing" => CloseService(w)
<1>0. /\ worker \in [Workers -> WorkerRec]
      /\ worker[w].pc \notin {"idle", "signal"} => worker[w].svc \in Services
  BY TypeParts DEF Inv, WorkersInv
<1>1. CASE WorkerGoes(w, "loop") /\ worker[w].pc = "start"
  BY <1>0, <1>1, WorkerWent DEF OwnersInv, HandsInv
<1>2. CASE WorkerGoes(w, "undefined") \/ (WorkerGoes(w, "closing") /\ CloseService(w))
  BY <1>0, <1>2, WorkerWent
<1>3. CASE /\ worker[w].pc \in {"start", "leave"}
           /\ worker' = [worker EXCEPT ![w] = [IdleWorker EXCEPT !.pc = "signal"]]
  <2>1. worker[w].op = NoOne
    BY <1>3 DEF OwnersInv, HandsInv
  <2>2. /\ worker'[w].pc = "signal" /\ worker'[w].op = NoOne
        /\ \A v \in Workers \ {w} : worker'[v] = worker[v]
    BY <1>0, <1>3, WorkerReset, Zenon
  <2> QED
    BY <2>1, <2>2
<1>4. CASE worker[w].pc = "signal" /\ worker' = [worker EXCEPT ![w] = IdleWorker]
  BY <1>0, <1>4 DEF IdleWorker, OwnersInv, HandsInv
<1>5. CASE BeginWork(w)
  BY <1>1, <1>3, <1>5 DEF BeginWork
<1>6. CASE LeaveService(w)
  BY <1>3, <1>6 DEF LeaveService
<1>7. CASE SignalPoller(w)
  BY <1>4, <1>7 DEF SignalPoller
<1>8. CASE UseDeletedService(w) \/ CloseService(w)
  <2>1. UseDeletedService(w) => WorkerGoes(w, "undefined")
    BY DEF UseDeletedService
  <2>2. CloseService(w) => WorkerGoes(w, "closing")
    BY DEF CloseService
  <2> QED
    BY <1>2, <1>8, <2>1, <2>2
<1> QED
  BY <1>5, <1>6, <1>7, <1>8 DEF GoesOn

\* A thread that only goes on, whatever else of its service it changes.
LEMMA ThreadGoesOn ==
    ASSUME Inv, OwnersInv, NEW w \in Workers, GoesOn(w)
    PROVE  Goes
<1>0. /\ svc \in [Services -> Service]
      /\ worker[w].pc \notin {"idle", "signal"} => worker[w].svc \in Services
  BY TypeParts DEF Inv, WorkersInv
<1>1. UNCHANGED <<op, routed, router>>
  BY DEF GoesOn, BeginWork, LeaveService, SignalPoller, UseDeletedService, CloseService,
         Handles
<1>2. SameIncoming /\ SamePhases
  <2> DEFINE s == worker[w].svc
             n == svc[s].threads - 1
  <2>1. \/ UNCHANGED svc
        \/ s \in Services /\ svc' = [svc EXCEPT ![s].threads = n]
        \/ s \in Services /\ svc' = [svc EXCEPT ![s].closed = TRUE]
    BY <1>0 DEF GoesOn, BeginWork, LeaveService, SignalPoller, UseDeletedService,
                CloseService, Handles
  <2> HIDE DEF n
  <2> QED
    BY <1>0, <2>1, FlagEffects, ServicesStay
<1>3. /\ worker'[w].op = worker[w].op /\ \A v \in Workers \ {w} : worker'[v] = worker[v]
      /\ worker'[w].pc \in {"idle", "signal", "start", "loop", "leave"}
             => worker'[w].op = NoOne
      /\ worker'[w].pc # "waiting"
  BY ThreadHands
<1>4. HandsInv'
  BY <1>1, <1>3, HandsAfter DEF OwnersInv
<1> QED
  BY <1>1, <1>2, <1>3, <1>4, ThreadKeeps

\* A thread takes a node from the queue of its service.
LEMMA ThreadTakes ==
    ASSUME Inv, OwnersInv, NEW w \in Workers, DequeueOperation(w)
    PROVE  Goes
<1> PICK s : s = worker[w].svc
  OBVIOUS
<1> PICK q : q = svc[s].incoming
  OBVIOUS
<1>0. /\ svc \in [Services -> Service] /\ worker \in [Workers -> WorkerRec]
      /\ op \in [Ops -> OpNode]
  BY TypeParts DEF Inv
<1>1. worker[w].pc = "loop" /\ UNCHANGED <<routed, router>>
  BY DEF DequeueOperation
<1>2. s \in Services /\ worker[w].op = NoOne
  BY <1>1 DEF Inv, WorkersInv, OwnersInv, HandsInv
<1>3. CASE q = <<>>
  <2>1. WorkerGoes(w, "leave") /\ UNCHANGED <<svc, op>>
    BY <1>3 DEF DequeueOperation
  <2>2. /\ worker'[w].pc = "leave" /\ worker'[w].op = worker[w].op
        /\ \A v \in Workers \ {w} : worker'[v] = worker[v]
    BY <1>0, <2>1, WorkerWent
  <2>3. HandsInv'
    BY <1>1, <1>2, <2>2, HandsAfter DEF OwnersInv
  <2> QED
    BY <1>1, <2>1, <2>2, <2>3, ServicesStay, ThreadKeeps
<1>4. CASE q # <<>>
  <2> PICK o : o = Head(q)
    OBVIOUS
  <2>1. q \in Seq(Ops) /\ o \in Ops
    BY <1>0, <1>2, <1>4 DEF Service
  <2>2. /\ svc' = [svc EXCEPT ![s].incoming = Tail(q)]
        /\ worker' = [worker EXCEPT ![w].pc = "handle", ![w].op = o]
        /\ op' = [op EXCEPT ![o].handled = IF op[o].at = "complete" THEN @ ELSE @ + 1]
    BY <1>4 DEF DequeueOperation
  <2>3. \A x \in Ops : op'[x].at = op[x].at
    <3>1. \A x \in Ops \ {o} : op'[x] = op[x]
      BY <1>0, <2>1, <2>2
    <3>2. op[o] \in OpNode
      BY <1>0, <2>1
    <3>3. op'[o].at = op[o].at
      BY <1>0, <2>1, <2>2, <3>2 DEF OpNode
    <3> QED
      BY <3>1, <3>3
  <2>4. /\ worker'[w].pc = "handle" /\ worker'[w].op = o
        /\ \A v \in Workers \ {w} : worker'[v] = worker[v]
    BY <1>0, <2>2 DEF WorkerRec
  <2>5. HandsInv'
    BY <1>1, <2>4, HandsAfter DEF OwnersInv
  <2>6. /\ SamePhases /\ svc'[s].incoming = Tail(q)
        /\ \A t \in Services \ {s} : svc'[t].incoming = svc[t].incoming
    BY <1>0, <1>2, <2>2, IncomingEffect
  <2>7. ASSUME NEW x \in Ops \ {o}
        PROVE  OneOwnerOf(x)'
    <3>1. \A v \in Workers : worker'[v].op = x <=> worker[v].op = x
      BY <1>2, <2>4, OpTypes
    <3>2. StaysIn(x, q, Tail(q))
      BY <1>4, <2>1, Shifted DEF StaysIn
    <3>3. \A t \in Services : StaysIn(x, svc[t].incoming, svc'[t].incoming)
      BY <2>6, <3>2 DEF StaysIn
    <3>4. Stays(x)
      BY <1>1, <3>1, <3>3 DEF Stays, StaysIn
    <3> QED
      BY <2>3, <2>6, <3>4, StaysOwned, PhasesStay DEF OwnersInv, OneOwnerEach
  <2>8. OneOwnerOf(o)'
    <3>1. ~Empty(o, svc[s].incoming)
      BY <1>4, <2>1, Shifted
    <3>2. InUse(o) /\ OneHas(o)
      BY <1>2, <2>1, <3>1, OwnedInUse DEF OwnersInv, OneOwnerEach, NoneHas, NoOwner, NoQueue
    <3>3. ByQueue(s, o, routed, svc, worker, router)
      BY <1>2, <3>1, <3>2 DEF OneHas, OneOwnerIn, ByRouted, ByRouter, ByWorker, ByQueue, NoQueue
    <3>4. Empty(o, svc'[s].incoming)
      BY <1>4, <2>1, <2>6, <3>3, Shifted DEF ByQueue
    <3>5. NoQueue(o, svc')
      BY <2>6, <3>3, <3>4 DEF ByQueue, NoQueue
    <3>6. \A v \in Workers \ {w} : worker'[v].op # o
      BY <2>4, <3>3 DEF ByQueue, NoWorker
    <3>7. ByWorker(w, o, routed', svc', worker', router')
      BY <1>1, <2>4, <3>3, <3>5, <3>6 DEF ByQueue, ByWorker
    <3>8. InUse(o)' /\ OneHas(o)'
      BY <2>1, <2>3, <3>2, <3>7 DEF InUse, OneHas, OneOwnerIn
    <3> QED
      BY <3>8, Moved
  <2> QED
    BY <2>3, <2>5, <2>6, <2>7, <2>8 DEF Goes, OneOwnerEach, OpsGo
<1> QED
  BY <1>3, <1>4

\* A thread sends an operation that nobody has.
LEMMA ThreadSends ==
    ASSUME Inv, OwnersInv, NEW w \in Workers, NEW o \in Operations, SendAndWait(w, o)
    PROVE  Goes
<1>0. /\ worker \in [Workers -> WorkerRec] /\ op \in [Ops -> OpNode] /\ routed \in Seq(Ops)
      /\ o \in Ops
  BY TypeParts, OpTypes DEF Inv
<1>1. /\ UNCHANGED <<svc, router>> /\ Send(o) /\ Flags[o] = "wait" /\ op[o].at = "unsent"
      /\ worker' = [worker EXCEPT ![w].pc = "waiting", ![w].sub = o]
  BY DEF SendAndWait, HandlesRequest, Handles
<1>2. /\ worker'[w].pc = "waiting" /\ worker'[w].op = worker[w].op /\ worker'[w].sub = o
      /\ \A v \in Workers \ {w} : worker'[v] = worker[v]
  BY <1>0, <1>1 DEF WorkerRec
<1>3. HandsInv' /\ SameWorkerOps /\ SameRouterOp
  BY <1>1, <1>2, HandsAfter DEF OwnersInv, SameWorkerOps, SameRouterOp
<1>4. SamePhases /\ SameIncoming /\ GoneStays
  BY <1>1, ServicesStay
<1>5. ~InUse(o)
  BY <1>1 DEF InUse
<1>6. OneOwnerEach' /\ \A x \in Ops \ {o} : op'[x] = op[x]
  BY <1>0, <1>1, <1>3, <1>4, <1>5, SentOwned DEF OwnersInv
<1> QED
  BY <1>3, <1>4, <1>6 DEF Goes, OpsGo

\* A waiting thread takes the answer to what it sent.
LEMMA ThreadWakes ==
    ASSUME Inv, OwnersInv, NEW w \in Workers, WakeHandler(w)
    PROVE  Goes
<1> PICK o : o = worker[w].sub
  OBVIOUS
<1>0. worker \in [Workers -> WorkerRec] /\ op \in [Ops -> OpNode]
  BY TypeParts DEF Inv
<1>1. /\ worker[w].pc = "waiting" /\ op[o].at = "complete"
      /\ op' = [op EXCEPT ![o] = Taken(op[o])]
      /\ worker' = [worker EXCEPT ![w].pc = "handle", ![w].sub = NoOne]
      /\ UNCHANGED <<svc, routed, router>>
  BY DEF WakeHandler
<1>2. o \in Operations /\ o \in Ops /\ FlagOf(o) = "wait"
  BY <1>1, OpTypes DEF OwnersInv, HandsInv, FlagOf
<1>3. /\ worker'[w].pc = "handle" /\ worker'[w].op = worker[w].op
      /\ \A v \in Workers \ {w} : worker'[v] = worker[v]
  BY <1>0, <1>1 DEF WorkerRec
<1>4. HandsInv' /\ SameWorkerOps
  BY <1>1, <1>3, HandsAfter DEF OwnersInv, SameWorkerOps
<1>5. SamePhases /\ SameIncoming /\ GoneStays
  BY <1>1, ServicesStay
<1>6. ~InUse(o) /\ NoneHas(o)
  BY <1>1, <1>2 DEF InUse, OwnersInv, OneOwnerEach, OneOwnerOf
<1>7. GivenUp(o)
  BY <1>1, <1>4, <1>6 DEF GivenUp, NoneHas, NoOwner, NoWorker, SameWorkerOps
<1>8. OneOwnerEach' /\ \A x \in Ops \ {o} : op'[x] = op[x]
  BY <1>0, <1>1, <1>2, <1>5, <1>7, FreedOwned DEF OwnersInv
<1> QED
  BY <1>2, <1>4, <1>5, <1>8 DEF Goes, OpsGo

\* A thread answers, or runs the callback.
LEMMA ThreadAnswers ==
    ASSUME Inv, OwnersInv, NEW w \in Workers,
           AnswerRequest(w) \/ RunCallback(w) \/ StopOrStartService(w) \/ AnswerClose(w)
    PROVE  Goes
<1> PICK o : o = worker[w].op
  OBVIOUS
<1>0. svc \in [Services -> Service]
  BY TypeParts DEF Inv
<1>1. worker[w].pc \in {"handle", "closing"} /\ EndOperation(w) /\ UNCHANGED router
  BY DEF AnswerRequest, RunCallback, StopOrStartService, AnswerClose, HandlesRequest, Handles
<1>2. o \in Ops /\ worker[w].svc \in Services
  BY <1>1 DEF Inv, WorkersInv
<1>3. \/ \E reply \in {"ok", "nak"} : Complete(o, reply)
      \/ UNCHANGED routed /\ op' = [op EXCEPT ![o] = Taken(op[o])]
  BY DEF AnswerRequest, RunCallback, StopOrStartService, AnswerClose
<1>4. SamePhases /\ SameIncoming
  <2>1. \/ UNCHANGED svc
        \/ \E b : svc' = [svc EXCEPT ![worker[w].svc].running = b]
    BY DEF AnswerRequest, RunCallback, StopOrStartService, AnswerClose
  <2> QED
    BY <1>0, <1>2, <2>1, FlagEffects, ServicesStay
<1> QED
  BY <1>1, <1>2, <1>3, <1>4, ThreadEnds

LEMMA WorkersGoOn ==
    ASSUME Inv, OwnersInv, NEW w \in Workers, Work(w)
    PROVE  Goes
BY ThreadGoesOn, ThreadTakes, ThreadSends, ThreadWakes, ThreadAnswers DEF Work, GoesOn

LEMMA SendersGoOn ==
    ASSUME Inv, OwnersInv, NEW o \in Operations, SendOperation(o)
    PROVE  Goes
<1>0. op \in [Ops -> OpNode] /\ routed \in Seq(Ops) /\ o \in Ops
  BY TypeParts, OpTypes DEF Inv
<1>1. UNCHANGED <<svc, router, worker>> /\ Send(o) /\ op[o].at = "unsent"
  BY DEF SendOperation
<1>2. HandsInv' /\ SameWorkerOps /\ SameRouterOp
  BY <1>1, WorkersHandsStay DEF OwnersInv, HandsInv, SameRouterOp
<1>3. SamePhases /\ SameIncoming /\ GoneStays
  BY <1>1, ServicesStay
<1>4. OneOwnerEach' /\ \A x \in Ops \ {o} : op'[x] = op[x]
  BY <1>0, <1>1, <1>2, <1>3, SentOwned DEF OwnersInv, InUse
<1> QED
  BY <1>2, <1>3, <1>4 DEF Goes, OpsGo

-----------------------------------------------------------------------------
(* Steps of the thread that shuts the server down.                          *)

\* An operation of the control thread that is not under way is with nobody.
LEMMA ControlUnused ==
    ASSUME OwnersInv, NEW o \in Control, op[o].at # "under way"
    PROVE  ~InUse(o) /\ NoneHas(o)
<1>1. o \in Ops /\ FlagOf(o) # "callback"
  BY OpTypes, NothingIsNoOne
<1> QED
  BY <1>1 DEF InUse, OwnersInv, OneOwnerEach, OneOwnerOf

\* A list without repetitions goes on without its head.
LEMMA InjectiveTail ==
    ASSUME NEW S, NEW q \in Seq(S), q # <<>>, IsInjective(q)
    PROVE  /\ IsInjective(Tail(q)) /\ Head(q) \notin Range(Tail(q))
           /\ Head(q) \in Range(q) /\ Range(Tail(q)) \subseteq Range(q)
<1>1. /\ DOMAIN q = 1..Len(q) /\ Len(q) \in Nat \ {0} /\ Head(q) = q[1]
      /\ DOMAIN Tail(q) = 1..(Len(q) - 1)
      /\ \A i \in 1..(Len(q) - 1) : Tail(q)[i] = q[i + 1] /\ i + 1 \in 1..Len(q) /\ i + 1 # 1
  OBVIOUS
<1>2. \A i, j \in 1..Len(q) : q[i] = q[j] => i = j
  BY <1>1 DEF IsInjective
<1>3. \A i, j \in 1..(Len(q) - 1) : i + 1 = j + 1 => i = j
  BY <1>1
<1>4. IsInjective(Tail(q))
  BY <1>1, <1>2, <1>3 DEF IsInjective
<1>5. Head(q) \notin Range(Tail(q))
  BY <1>1, <1>2 DEF Range
<1>6. Head(q) \in Range(q) /\ Range(Tail(q)) \subseteq Range(q)
  BY <1>1 DEF Range
<1> QED
  BY <1>4, <1>5, <1>6

LEMMA ControlForm == \A x \in Control : x = ControlOp(x.kind, x.to)
BY DEF Control, ControlOp

\* A step of the control thread leaves the hands alone.
LEMMA ControlHands ==
    ASSUME OwnersInv, UNCHANGED <<router, worker>>
    PROVE  HandsInv' /\ SameWorkerOps /\ SameRouterOp
BY DEF OwnersInv, HandsInv, SameWorkerOps, SameRouterOp

\* Nothing that the control thread sends to a service that is up is under way while
\* it waits for nothing.
LEMMA NothingUnderWay ==
    ASSUME OwnersInv, NEW o \in Control, svc[o.to].phase = "up",
           control.pc # o.kind
    PROVE  op[o].at # "under way"
BY DEF OwnersInv, SentInv

LEMMA CloseUnsent ==
    ASSUME OwnersInv, control.pc \notin {"joinRouter", "done", "clear"}
    PROVE  op[CimomClose].at = "unsent"
BY DEF OwnersInv, SentInv

\* The steps before the deletion of services.
LEMMA OpenSteps ==
    ASSUME Inv, OwnersInv, BeginShutdown \/ StopService \/ SendNext \/ ServiceClosed
                               \/ BeginDeletion
    PROVE  OwnersInv'
<1>0. /\ op \in [Ops -> OpNode] /\ routed \in Seq(Ops) /\ control \in ControlRec
      /\ control.todo \in Seq(Services)
  BY TypeParts DEF Inv, ControlRec
<1>1. UNCHANGED <<svc, router, worker>> /\ control.pc \in Open
  BY DEF BeginShutdown, StopService, SendNext, ServiceClosed, BeginDeletion, Open
<1>2. Up(Services) /\ Up(Services)'
  BY <1>1 DEF OwnersInv, SequenceInv, Up
<1>3. HandsInv' /\ SameWorkerOps /\ SameRouterOp
  BY <1>1, ControlHands
<1>4. SamePhases /\ SameIncoming /\ GoneStays
  BY <1>1, ServicesStay
<1>5. op[CimomClose].at = "unsent"
  BY <1>1, CloseUnsent DEF Open
<1>6. \A o \in Control : /\ o \in Ops /\ o.to \in Services /\ o # CimomClose
                         /\ op[o].at = "under way" => control.pc = o.kind /\ control.svc = o.to
  BY <1>2, OpTypes DEF OwnersInv, SentInv, Up
<1>7. CimomClose \in Ops /\ CimomClose \notin Control
  BY OpTypes
<1>8. CASE BeginShutdown
  <2>1. UNCHANGED <<op, routed>> /\ control.pc = "serving" /\ control'.pc = "closing"
    BY <1>8 DEF BeginShutdown
  <2>2. OneOwnerEach'
    BY <1>3, <1>4, <2>1, NobodyMoves DEF OwnersInv
  <2>3. \A o \in Control : op'[o].at # "under way"
    BY <1>6, <2>1, OpTypes
  <2>4. SentInv' /\ SequenceInv'
    BY <1>2, <1>5, <2>1, <2>3 DEF SentInv, SequenceInv, DeletionSteps
  <2> QED
    BY <1>3, <2>2, <2>4 DEF OwnersInv
<1>9. CASE BeginDeletion
  <2>1. UNCHANGED <<op, routed>> /\ control.pc = "closing"
        /\ control'.pc = "deleting" /\ control'.todo = Deletion
    BY <1>9 DEF BeginDeletion
  <2>2. OneOwnerEach'
    BY <1>3, <1>4, <2>1, NobodyMoves DEF OwnersInv
  <2>3. \A o \in Control : op'[o].at # "under way"
    BY <1>6, <2>1, OpTypes
  <2>4. IsInjective(Deletion) /\ Range(Deletion) = Services
    BY ServicesEndInOrder
  <2>5. SequenceInv'
    BY <1>2, <2>1, <2>4 DEF SequenceInv, Open, DeletionSteps
  <2>6. SentInv'
    BY <1>5, <2>1, <2>3 DEF SentInv
  <2> QED
    BY <1>3, <2>2, <2>5, <2>6 DEF OwnersInv
<1>10. CASE StopService
  <2> PICK s : s = Head(control.todo)
    OBVIOUS
  <2> PICK o : o = ControlOp("stop", s)
    OBVIOUS
  <2>1. /\ control.pc = "closing" /\ control.todo # <<>> /\ Send(o)
        /\ control'.pc = "stop" /\ control'.svc = s
    BY <1>0, <1>10 DEF StopService, ControlGoes, ControlRec
  <2>2. s \in Services /\ o \in Control /\ o.kind = "stop" /\ o.to = s
    BY <1>0, <2>1, OpTypes DEF ControlOp
  <2>3. op[o].at # "under way"
    BY <1>6, <2>1, <2>2
  <2>4. ~InUse(o)
    BY <2>2, <2>3, ControlUnused
  <2>5. OneOwnerEach' /\ \A x \in Ops \ {o} : op'[x] = op[x]
    BY <1>0, <1>3, <1>4, <1>6, <2>1, <2>2, <2>4, SentOwned DEF OwnersInv
  <2>6. \A x \in Control \ {o} : op'[x].at # "under way"
    <3>1. \A x \in Control : op[x].at # "under way"
      BY <1>6, <2>1, OpTypes
    <3>2. Control \subseteq Ops
      BY OpTypes
    <3> QED
      BY <2>5, <3>1, <3>2
  <2>7. SentInv'
    BY <1>5, <1>6, <1>7, <2>1, <2>2, <2>5, <2>6 DEF SentInv
  <2>8. SequenceInv'
    BY <1>2, <2>1 DEF SequenceInv, DeletionSteps
  <2> QED
    BY <1>3, <2>5, <2>7, <2>8 DEF OwnersInv
<1>11. CASE ServiceClosed
  <2> PICK o : o = ControlOp("close", control.svc)
    OBVIOUS
  <2>1. /\ control.pc = "close" /\ op[o].at = "complete"
        /\ op' = [op EXCEPT ![o] = Taken(op[o])] /\ UNCHANGED routed
        /\ control'.pc = "closing"
    BY <1>11 DEF ServiceClosed
  <2>2. o \in Control /\ o \in Ops /\ o.kind = "close" /\ o.to = control.svc
    BY <2>1, OpTypes DEF Inv, ControlInv, ControlOp
  <2>3. NoneHas(o)
    BY <2>1, <2>2, ControlUnused
  <2>4. GivenUp(o)
    BY <1>1, <2>3 DEF GivenUp, NoneHas, NoOwner
  <2>5. /\ OneOwnerEach' /\ (\A x \in Ops \ {o} : op'[x] = op[x])
        /\ op'[o].at = "freed"
    BY <1>0, <1>4, <2>1, <2>2, <2>4, FreedOwned DEF OwnersInv
  <2>6. \A x \in Control : op'[x].at # "under way"
    <3>1. \A x \in Control \ {o} : op[x].at = "under way" => x = ControlOp("close", control.svc)
      BY <1>6, <2>1, ControlForm
    <3> QED
      BY <1>6, <2>5, <3>1
  <2>7. SentInv'
    BY <1>5, <1>7, <2>2, <2>5, <2>6 DEF SentInv
  <2>8. SequenceInv'
    BY <1>2, <2>1 DEF SequenceInv, DeletionSteps
  <2> QED
    BY <1>3, <2>5, <2>7, <2>8 DEF OwnersInv
<1>12. CASE SendNext
  <2> PICK kind : kind = control.pc
    OBVIOUS
  <2> PICK s : s = control.svc
    OBVIOUS
  <2> PICK o : o = ControlOp(kind, s)
    OBVIOUS
  <2> PICK n : n = ControlOp(Sequel[kind], s)
    OBVIOUS
  <2>1. /\ kind \in {"stop", "start"} /\ op[o].at = "complete"
        /\ op' = [op EXCEPT ![o] = Taken(@), ![n].at = "under way"]
        /\ routed' = Append(routed, n)
        /\ control'.pc = Sequel[kind] /\ control'.svc = s
    BY <1>0, <1>12 DEF SendNext, ControlGoes, ControlRec
  <2>2. s \in Services
    BY <2>1 DEF Inv, ControlInv
  <2>3. Sequel[kind] \in {"start", "close"} /\ Sequel[kind] # kind
    <3>1. Sequel["stop"] = "start" /\ Sequel["start"] = "close"
      BY DEF Sequel
    <3> QED
      BY <2>1, <3>1
  <2>4. /\ o \in Control /\ o.kind = kind /\ o.to = s /\ o \in Ops
        /\ n \in Control /\ n.kind = Sequel[kind] /\ n.to = s /\ n \in Ops /\ o # n
    BY <2>1, <2>2, <2>3, OpTypes DEF ControlOp
  <2>5. op[n].at # "under way"
    BY <1>6, <2>3, <2>4
  <2>6. NoneHas(o) /\ NoneHas(n)
    BY <2>1, <2>4, <2>5, ControlUnused
  <2>7. /\ op'[o].at = "freed" /\ op'[n].at = "under way"
        /\ \A x \in Ops \ {o, n} : op'[x] = op[x]
    BY <1>0, <2>1, <2>4 DEF Taken, OpNode
  <2>8. \A x \in Ops \ {n} : Stays(x)
    <3>1. ASSUME NEW x \in Ops \ {n}
          PROVE  StaysIn(x, routed, routed')
      <4>1. Places(x, Append(routed, n)) = Places(x, routed)
        BY <1>0, <2>4, Appended
      <4> QED
        BY <2>1, <4>1 DEF StaysIn, Empty, Once
    <3> QED
      BY <1>1, <3>1 DEF Stays, StaysIn
  <2>9. \A x \in Ops \ {o, n} : OneOwnerOf(x)'
    BY <1>4, <2>7, <2>8, StaysOwned DEF OwnersInv, OneOwnerEach
  <2>10. OneOwnerOf(o)'
    <3>1. NoneHas(o)'
      BY <2>4, <2>6, <2>8, Stayed1
    <3> QED
      BY <2>7, <3>1, Released DEF InUse
  <2>11. OneOwnerOf(n)'
    <3>1. Once(n, routed')
      BY <1>0, <2>1, <2>4, <2>6, Appended DEF NoneHas, NoOwner
    <3>2. OneHas(n)'
      BY <1>1, <2>6, <3>1 DEF NoneHas, NoOwner, OneHas, OneOwnerIn, ByRouted, NoQueue, NoWorker
    <3> QED
      BY <2>7, <3>2, Moved DEF InUse
  <2>12. \A x \in Control \ {n} : op'[x].at # "under way"
    <3>1. \A x \in Control : op[x].at = "under way" => x = ControlOp(kind, s)
      BY <1>6, ControlForm
    <3> QED
      BY <1>6, <2>7, <3>1
  <2>13. SentInv'
    BY <1>5, <1>6, <1>7, <2>1, <2>4, <2>7, <2>12 DEF SentInv
  <2>14. SequenceInv'
    BY <1>2, <2>1, <2>3 DEF SequenceInv, DeletionSteps
  <2> QED
    BY <1>3, <2>9, <2>10, <2>11, <2>13, <2>14 DEF OwnersInv, OneOwnerEach
<1> QED
  BY <1>8, <1>9, <1>10, <1>11, <1>12

\* The end of a service, from its destructor on.
LEMMA DeletesOne ==
    ASSUME Inv, OwnersInv, DeleteService
    PROVE  OwnersInv'
<1> PICK s : s = Head(control.todo)
  OBVIOUS
<1>0. /\ op \in [Ops -> OpNode] /\ routed \in Seq(Ops) /\ control \in ControlRec
      /\ control.todo \in Seq(Services) /\ svc \in [Services -> Service]
  BY TypeParts DEF Inv, ControlRec
<1>1. /\ control.pc = "deleting" /\ control.todo # <<>> /\ UNCHANGED <<router, worker>>
      /\ svc' = [svc EXCEPT ![s].phase = "deleting"]
      /\ \/ UNCHANGED <<op, routed>>
         \/ Send(ControlOp("close", s))
      /\ control'.pc = "awaitClosed" /\ control'.svc = s /\ control'.todo = control.todo
  BY <1>0 DEF DeleteService, ControlGoes, ControlRec
<1>2. /\ IsInjective(control.todo) /\ Up(Range(control.todo))
      /\ op[CimomClose].at = "unsent"
  BY <1>1, CloseUnsent DEF OwnersInv, SequenceInv
<1>3. /\ IsInjective(Tail(control.todo)) /\ s \notin Range(Tail(control.todo))
      /\ s \in Range(control.todo) /\ Range(Tail(control.todo)) \subseteq Range(control.todo)
      /\ Range(control.todo) \subseteq Services
  BY <1>0, <1>1, <1>2, InjectiveTail, TodoServices DEF Inv
<1>4. s \in Services /\ svc[s].phase = "up"
  BY <1>2, <1>3 DEF Up
<1>5. /\ SameIncoming /\ svc'[s].phase = "deleting"
      /\ \A t \in Services \ {s} : svc'[t] = svc[t]
  BY <1>0, <1>1, <1>4 DEF SameIncoming, Service
<1>6. GoneStays /\ HandsInv' /\ SameWorkerOps /\ SameRouterOp
  BY <1>1, <1>4, <1>5, ControlHands DEF GoneStays
<1>7. SequenceInv'
  <2>1. Up(Range(Tail(control.todo)))'
    BY <1>2, <1>3, <1>5, <1>1 DEF Up
  <2> QED
    BY <1>1, <1>2, <2>1 DEF SequenceInv, Open
<1>8. ASSUME NEW x \in Control, op[x].at = "under way"
      PROVE  x.kind = "close" /\ svc[x.to].phase # "up" /\ x.to \in Services
  BY <1>1, <1>8, OpTypes DEF OwnersInv, SentInv
<1>9. CimomClose \in Ops /\ CimomClose \notin Control /\ Control \subseteq Ops
  BY OpTypes
<1> PICK o : o = ControlOp("close", s)
  OBVIOUS
<1>10. o \in Control /\ o.kind = "close" /\ o.to = s
  BY <1>4, OpTypes DEF ControlOp
<1>11. /\ OneOwnerEach' /\ \A x \in Ops \ {o} : op'[x] = op[x]
  <2>1. CASE UNCHANGED <<op, routed>>
    BY <1>5, <1>6, <2>1, NobodyMoves DEF OwnersInv
  <2>2. CASE Send(o)
    <3>1. ~InUse(o)
      BY <1>4, <1>8, <1>10, ControlUnused
    <3> QED
      BY <1>0, <1>5, <1>6, <1>9, <1>10, <2>2, <3>1, SentOwned DEF OwnersInv
  <2> QED
    BY <1>1, <2>1, <2>2
<1>12. SentInv'
  <2>1. \A x \in Control : op'[x].at = "under way"
                              => x.kind = "close" /\ svc'[x.to].phase # "up"
    BY <1>5, <1>8, <1>9, <1>10, <1>11
  <2>2. op'[CimomClose].at = "unsent"
    BY <1>2, <1>9, <1>10, <1>11
  <2> QED
    BY <2>1, <2>2 DEF SentInv
<1> QED
  BY <1>6, <1>7, <1>11, <1>12 DEF OwnersInv

\* The waits of the destructor touch no node.
LEMMA WaitsOwned ==
    ASSUME Inv, OwnersInv,
           DieNow \/ DeregisterService \/ AwaitThreads \/ UnlistService \/ DeletePool
    PROVE  OwnersInv'
<1>0. control \in ControlRec /\ svc \in [Services -> Service]
  BY TypeParts DEF Inv
<1>1. /\ control.pc \in {"awaitClosed", "deregister", "awaitThreads", "unlist", "joinRouter"}
      /\ UNCHANGED <<op, routed, router, worker>>
  BY DEF DieNow, DeregisterService, AwaitThreads, UnlistService, DeletePool
<1>2. /\ control'.pc \in {"deregister", "awaitThreads", "unlist", "join", "clear"}
      /\ control'.svc = control.svc /\ control'.todo = control.todo
      /\ control'.pc = "join" => Len(control.todo) = 1
      /\ control.pc = "joinRouter" => control'.pc = "clear"
  BY <1>0 DEF DieNow, DeregisterService, AwaitThreads, UnlistService, DeletePool, ControlGoes,
              ControlRec
<1>3. SameIncoming /\ SamePhases
  <2>1. control.svc \in Services
    BY <1>1 DEF Inv, ControlInv
  <2>2. \/ UNCHANGED svc
        \/ svc' = [svc EXCEPT ![control.svc].die = TRUE]
        \/ svc' = [svc EXCEPT ![control.svc].registered = "no"]
        \/ svc' = [svc EXCEPT ![control.svc].listed = FALSE]
    BY DEF DieNow, DeregisterService, AwaitThreads, UnlistService, DeletePool
  <2> QED
    BY <1>0, <2>1, <2>2, FlagEffects, RegisteredEffect, ServicesStay
<1>4. HandsInv' /\ OneOwnerEach'
  BY <1>1, <1>3, ControlHands, PhasesStay, NobodyMoves DEF OwnersInv
<1>5. SequenceInv'
  <2>1. /\ IsInjective(control.todo) /\ control.todo # <<>>
        /\ control.svc = Head(control.todo) /\ Up(Range(Tail(control.todo)))
    BY <1>1 DEF OwnersInv, SequenceInv, DeletionSteps
  <2>2. Up(Range(Tail(control.todo)))'
    BY <1>2, <1>3, <2>1, TodoServices DEF Inv, Up, SamePhases
  <2> QED
    BY <1>2, <2>1, <2>2 DEF SequenceInv, Open
<1>6. SentInv'
  <2>1. ASSUME NEW x \in Control, op'[x].at = "under way"
        PROVE  x.kind = "close" /\ svc'[x.to].phase # "up"
    <3>1. x.to \in Services /\ x.kind \in {"stop", "start", "close"}
      BY OpTypes
    <3>2. x.kind = "close" /\ svc[x.to].phase # "up"
      BY <1>1, <2>1, <3>1 DEF OwnersInv, SentInv
    <3> QED
      BY <1>3, <3>1, <3>2 DEF SamePhases
  <2>2. op'[CimomClose].at # "unsent" => control'.pc = "clear" /\ Len(control'.todo) = 1
    BY <1>1, <1>2 DEF OwnersInv, SentInv, SequenceInv
  <2> QED
    BY <2>1, <2>2 DEF SentInv
<1> QED
  BY <1>4, <1>5, <1>6 DEF OwnersInv

\* The last service closes the router.
LEMMA RouterCloseSent ==
    ASSUME Inv, OwnersInv, CloseRouter
    PROVE  OwnersInv'
<1>0. op \in [Ops -> OpNode] /\ routed \in Seq(Ops) /\ control \in ControlRec
  BY TypeParts DEF Inv
<1>1. /\ control.pc = "join" /\ Send(CimomClose) /\ UNCHANGED <<svc, router, worker>>
      /\ control'.pc = "joinRouter" /\ control'.svc = control.svc
      /\ control'.todo = control.todo
  BY <1>0 DEF CloseRouter, ControlGoes, ControlRec
<1>2. op[CimomClose].at = "unsent" /\ CimomClose \in Ops /\ CimomClose \notin Control
  BY <1>1, CloseUnsent, OpTypes
<1>3. HandsInv' /\ SameWorkerOps /\ SameRouterOp /\ SamePhases /\ SameIncoming /\ GoneStays
  BY <1>1, ControlHands, ServicesStay
<1>4. OneOwnerEach' /\ \A x \in Ops \ {CimomClose} : op'[x] = op[x]
  BY <1>0, <1>1, <1>2, <1>3, SentOwned DEF OwnersInv, InUse
<1>5. SequenceInv'
  <2>1. Up(Range(Tail(control.todo))) => Up(Range(Tail(control.todo)))'
    BY <1>1 DEF Up
  <2> QED
    BY <1>1, <2>1 DEF OwnersInv, SequenceInv, DeletionSteps, Open
<1>6. SentInv'
  <2>1. \A x \in Control : x \in Ops /\ x # CimomClose /\ x.kind # "join"
    BY <1>2, OpTypes
  <2> QED
    BY <1>1, <1>4, <2>1 DEF OwnersInv, SentInv
<1> QED
  BY <1>3, <1>4, <1>5, <1>6 DEF OwnersInv

\* What is left in the queue of a service is freed with it.
LEMMA ClearsOne ==
    ASSUME Inv, OwnersInv, ClearService
    PROVE  OwnersInv'
<1> PICK s : s = control.svc
  OBVIOUS
<1> PICK q : q = svc[s].incoming
  OBVIOUS
<1>0. /\ op \in [Ops -> OpNode] /\ svc \in [Services -> Service]
      /\ control \in ControlRec /\ control.todo \in Seq(Services)
  BY TypeParts DEF Inv, ControlRec
<1>1. /\ control.pc = "clear" /\ FreedFrom(q) /\ UNCHANGED <<routed, router, worker>>
      /\ svc' = [svc EXCEPT ![s].phase = "gone", ![s].incoming = <<>>]
      /\ control'.pc = IF Len(control.todo) = 1 THEN "done" ELSE "deleting"
      /\ control'.todo = Tail(control.todo)
  BY <1>0 DEF ClearService, FreedFrom, ControlRec
<1>2. s \in Services /\ q \in Seq(Ops)
  <2>1. s \in Services
    BY <1>1 DEF Inv, ControlInv
  <2> QED
    BY <1>0, <2>1 DEF Service
<1>3. /\ svc'[s].phase = "gone" /\ svc'[s].incoming = <<>>
      /\ \A t \in Services \ {s} : svc'[t] = svc[t]
  BY <1>0, <1>1, <1>2 DEF Service
<1>4. GoneStays /\ HandsInv' /\ SameWorkerOps /\ SameRouterOp
  BY <1>1, <1>3, ControlHands DEF GoneStays
<1>5. ASSUME NEW o \in Ops, Empty(o, q)
      PROVE  OneOwnerOf(o)' /\ op'[o] = op[o]
  <2>1. op'[o] = op[o] /\ Empty(o, <<>>)
    BY <1>0, <1>1, <1>2, <1>5, Emptied
  <2>2. \A t \in Services : StaysIn(o, svc[t].incoming, svc'[t].incoming)
    BY <1>3, <1>5, <2>1 DEF StaysIn, Once, Empty
  <2>3. Stays(o)
    BY <1>1, <2>2 DEF Stays, StaysIn
  <2> QED
    BY <1>4, <2>1, <2>3, StaysOwned DEF OwnersInv, OneOwnerEach
<1>6. ASSUME NEW o \in Ops, ~Empty(o, q)
      PROVE  OneOwnerOf(o)' /\ op'[o].at = "freed" /\ InUse(o)
  <2>1. op'[o].at = "freed" /\ Empty(o, <<>>)
    BY <1>0, <1>1, <1>2, <1>6, Emptied
  <2>2. InUse(o) /\ OneHas(o)
    BY <1>2, <1>6, OwnedInUse DEF OwnersInv, OneOwnerEach, NoneHas, NoOwner, NoQueue
  <2>3. ByQueue(s, o, routed, svc, worker, router)
    BY <1>2, <1>6, <2>2 DEF OneHas, OneOwnerIn, ByRouted, ByRouter, ByWorker, ByQueue, NoQueue
  <2>4. NoQueue(o, svc')
    BY <1>3, <2>1, <2>3 DEF ByQueue, NoQueue
  <2>5. NoneHas(o)'
    BY <1>1, <2>3, <2>4 DEF ByQueue, NoneHas, NoOwner, NoWorker
  <2> QED
    BY <2>1, <2>2, <2>5, Released DEF InUse
<1>7. OneOwnerEach' /\ \A o \in Ops : op'[o] = op[o] \/ (InUse(o) /\ op'[o].at = "freed")
  BY <1>5, <1>6 DEF OneOwnerEach
<1>8. SequenceInv'
  <2>1. /\ IsInjective(control.todo) /\ control.todo # <<>>
        /\ s = Head(control.todo) /\ Up(Range(Tail(control.todo)))
    BY <1>1 DEF OwnersInv, SequenceInv, DeletionSteps
  <2>2. IsInjective(Tail(control.todo)) /\ s \notin Range(Tail(control.todo))
    BY <1>0, <2>1, InjectiveTail
  <2>3. Range(Tail(control.todo)) \subseteq Services
    BY <2>1, TodoServices DEF Inv
  <2>4. Up(Range(control.todo))'
    BY <1>1, <1>3, <2>1, <2>2, <2>3 DEF Up
  <2> QED
    BY <1>1, <2>2, <2>4 DEF SequenceInv, Open, DeletionSteps
<1>9. SentInv'
  <2>1. ASSUME NEW x \in Control, op'[x].at = "under way"
        PROVE  x.kind = "close" /\ svc'[x.to].phase # "up"
    <3>1. x \in Ops /\ x.to \in Services /\ x.kind \in {"stop", "start", "close"}
      BY OpTypes
    <3>2. x.kind = "close" /\ svc[x.to].phase # "up"
      BY <1>1, <1>7, <2>1, <3>1 DEF OwnersInv, SentInv
    <3> QED
      BY <1>3, <3>1, <3>2
  <2>2. op'[CimomClose].at # "unsent" => control'.pc = "done"
    <3>1. op'[CimomClose].at # "unsent" => op[CimomClose].at # "unsent"
      BY <1>7, OpTypes DEF InUse
    <3> QED
      BY <1>1, <3>1 DEF OwnersInv, SentInv
  <2> QED
    BY <2>1, <2>2 DEF SentInv
<1> QED
  BY <1>4, <1>7, <1>8, <1>9 DEF OwnersInv

-----------------------------------------------------------------------------
(* One owner at a time.                                                     *)

LEMMA InitOwners == Init => OwnersInv
<1> SUFFICES ASSUME Init
             PROVE  OwnersInv
  OBVIOUS
<1>1. /\ \A s \in Services : svc[s].phase = "up" /\ svc[s].incoming = <<>>
      /\ \A o \in Ops : op[o].at = "unsent"
      /\ routed = <<>> /\ router.pc = "wait" /\ router.op = NoOne
      /\ \A w \in Workers : worker[w].pc = "idle" /\ worker[w].op = NoOne
      /\ control.pc = "serving"
  BY DEF Init, NewService, NewOp, IdleRouter, IdleWorker
<1>2. OneOwnerEach
  <2>1. \A o \in Ops : Empty(o, <<>>) /\ o # NoOne
    BY OpTypes DEF Empty, Places
  <2>2. \A o \in Ops : NoneHas(o) /\ ~InUse(o)
    BY <1>1, <2>1 DEF NoneHas, NoOwner, NoQueue, NoWorker, InUse
  <2> QED
    BY <2>2 DEF OneOwnerEach, OneOwnerOf
<1>3. HandsInv /\ SequenceInv
  BY <1>1 DEF HandsInv, SequenceInv, Up, DeletionSteps
<1>4. SentInv
  BY <1>1, OpTypes DEF SentInv
<1> QED
  BY <1>2, <1>3, <1>4 DEF OwnersInv

LEMMA NextGoes ==
    ASSUME Inv, OwnersInv,
           \/ \E o \in Operations : SendOperation(o)
           \/ Router \/ Poller
           \/ \E w \in Workers : Work(w)
           \/ UNCHANGED vars
    PROVE  Goes
<1>1. CASE UNCHANGED vars
  <2>1. UNCHANGED <<svc, op, routed, router, worker>>
    BY <1>1 DEF vars
  <2> QED
    BY <2>1, NodesStay, ServicesStay, NobodyMoves, ControlHands DEF Goes, OwnersInv
<1> QED
  BY <1>1, SendersGoOn, RouterGoesOn, PollerGoesOn, WorkersGoOn

LEMMA NextOwners == Inv /\ OwnersInv /\ [Next]_vars => OwnersInv'
<1> SUFFICES ASSUME Inv, OwnersInv, [Next]_vars
             PROVE  OwnersInv'
  OBVIOUS
<1>1. CASE \/ \E o \in Operations : SendOperation(o)
           \/ Router \/ Poller
           \/ \E w \in Workers : Work(w)
           \/ UNCHANGED vars
  <2>1. UNCHANGED control
    <3>1. ASSUME NEW w \in Workers, Work(w)
          PROVE  UNCHANGED control
      BY <3>1 DEF Work, BeginWork, DequeueOperation, AnswerRequest, SendAndWait, WakeHandler,
                  RunCallback, UseDeletedService, StopOrStartService, CloseService, AnswerClose,
                  LeaveService, SignalPoller, HandlesRequest, Handles
    <3>2. CASE Router
      BY <3>2 DEF Router, RouteOperation, CheckService, EnqueueOperation, RefuseOperation,
                  CloseCimom
    <3>3. CASE Poller
      BY <3>3 DEF Poller, PollerWakes, SkipService, NoWorkerLeft, StartWorker
    <3>4. CASE (\E o \in Operations : SendOperation(o)) \/ UNCHANGED vars
      BY <3>4 DEF SendOperation, vars
    <3> QED
      BY <1>1, <3>1, <3>2, <3>3, <3>4
  <2> QED
    BY <1>1, <2>1, NextGoes, ControlKept
<1>2. CASE BeginShutdown \/ Shutdown
  BY <1>2, OpenSteps, DeletesOne, WaitsOwned, RouterCloseSent, ClearsOne DEF Shutdown
<1> QED
  BY <1>1, <1>2 DEF Next

\* The ownership of nodes is kept by every thread, in the whole life of the server.
THEOREM OwnersHold == Spec => [](Inv /\ OwnersInv)
<1>1. Init => Inv /\ OwnersInv
  BY InitInv, InitOwners
<1>2. Inv /\ OwnersInv /\ [Next]_vars => (Inv /\ OwnersInv)'
  BY NextInv, NextOwners
<1> QED
  BY <1>1, <1>2, PTL DEF Spec

\* An operation node has one owner at a time: whatever the services, the
\* operations and the order in which services end, no node is in two queues or
\* with two threads, none in use is lost while its destination lives, and nobody
\* holds a node that was deleted or given back.
THEOREM OneOwnerAtATime == Spec => []OneOwner
<1>1. OwnersInv => OneOwner
  BY OneOwnerForm DEF OwnersInv, OneOwnerEach
<1> QED
  BY <1>1, OwnersHold, PTL
=============================================================================
