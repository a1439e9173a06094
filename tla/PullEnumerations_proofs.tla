------------------------ MODULE PullEnumerations_proofs ------------------------
(****************************************************************************)
(* Proof that EnumerationContexts implements PullEnumerations as long as no *)
(* client pulls with the wrong type of request: every step of a thread is a *)
(* step of the enumeration its context stands for, or changes nothing that  *)
(* the client or the providers see.                                         *)
(****************************************************************************)
EXTENDS EnumerationContexts_proofs

\* The providers of a context deliver nothing before it is opened.
UnopenedInv == \A c \in Contexts : en[c].outcome = "none" => en[c].sent = 0

-----------------------------------------------------------------------------
(* One enumeration.                                                         *)

\* The enumeration that a context e stands for.
Stage(e) ==
    [status |-> e.outcome,
     busy |-> e.outcome = "open" /\ e.processing,
     produced |-> e.sent,
     done |-> e.provider = "done",
     returned |-> e.returned]

\* The change of e into f is a step of the enumeration, or none.
Follows(e, f) == Stage(f) = Stage(e) \/ Promise!Step(Stage(e), Stage(f))

\* An enumeration by its parts, and changes of some of them.
Made(status, busy, produced, done, returned) ==
    [status |-> status, busy |-> busy, produced |-> produced, done |-> done,
     returned |-> returned]

LEMMA MadeBusy ==
    ASSUME NEW t, NEW b, NEW p, NEW d, NEW r, NEW busy
    PROVE  [Made(t, b, p, d, r) EXCEPT !.busy = busy] = Made(t, busy, p, d, r)
BY DEF Made

LEMMA MadeOpen ==
    ASSUME NEW no, NEW yes
    PROVE  [Made("none", no, 0, no, 0) EXCEPT !.status = "open", !.busy = yes]
             = Made("open", yes, 0, no, 0)
<1>1. [Made("none", no, 0, no, 0) EXCEPT !.status = "open"] = Made("open", no, 0, no, 0)
  BY DEF Made
<1>2. [Made("none", no, 0, no, 0) EXCEPT !.status = "open", !.busy = yes]
        = [[Made("none", no, 0, no, 0) EXCEPT !.status = "open"] EXCEPT !.busy = yes]
  BY Zenon DEF Made
<1>3. [Made("open", no, 0, no, 0) EXCEPT !.busy = yes] = Made("open", yes, 0, no, 0)
  BY MadeBusy
<1> QED
  BY <1>1, <1>2, <1>3

\* Nothing that the client or the providers see has changed.
Unseen(e, f) ==
    /\ f.outcome = e.outcome
    /\ e.outcome = "open" => f.processing = e.processing
    /\ f.sent = e.sent /\ f.returned = e.returned
    /\ (f.provider = "done") = (e.provider = "done")

LEMMA UnseenFollows ==
    ASSUME NEW e \in EnumerationContext, NEW f \in EnumerationContext, Unseen(e, f)
    PROVE  Follows(e, f)
<1>1. (f.outcome = "open" /\ f.processing) = (e.outcome = "open" /\ e.processing)
  BY DEF Unseen
<1>2. Stage(f) = Stage(e)
  BY <1>1 DEF Stage, Unseen
<1> QED
  BY <1>2 DEF Follows

\* The providers of f have delivered what those of e had, and more only if they
\* were not done.
Delivered(e, f) ==
    /\ f.sent >= e.sent
    /\ e.provider = "done" => f.provider = "done" /\ f.sent = e.sent

LEMMA DeliveredStage ==
    ASSUME NEW e \in EnumerationContext, NEW f \in EnumerationContext, Delivered(e, f)
    PROVE  Promise!Delivers(Stage(e), Stage(f))
BY DEF Promise!Delivers, Stage, Delivered

\* The client side is closed between two requests, or was closed before.
LEMMA AbandonFollows ==
    ASSUME NEW e \in EnumerationContext, NEW f \in EnumerationContext,
           ~e.processing,
           f.outcome = IF e.outcome = "open" THEN "abandoned" ELSE e.outcome,
           f.sent = e.sent, f.returned = e.returned,
           (f.provider = "done") = (e.provider = "done")
    PROVE  Follows(e, f)
<1>1. CASE e.outcome = "open"
  <2>1. Promise!Delivers(Stage(e), Stage(f))
    BY DeliveredStage DEF Delivered, EnumerationContext
  <2>2. Stage(e).status = "open" /\ ~Stage(e).busy
    BY <1>1 DEF Stage
  <2>3. Stage(f) = [Stage(e) EXCEPT !.status = "abandoned"]
    BY <1>1 DEF Stage
  <2> QED
    BY <2>1, <2>2, <2>3 DEF Follows, Promise!Step, Promise!Abandon
<1>2. CASE e.outcome # "open"
  BY <1>2, UnseenFollows DEF Unseen
<1> QED
  BY <1>1, <1>2

\* The providers deliver, and the client sees nothing of it.
LEMMA ProduceFollows ==
    ASSUME NEW e \in EnumerationContext, NEW f \in EnumerationContext,
           Delivered(e, f), e.outcome # "none", f.outcome = e.outcome,
           e.outcome = "open" => f.processing = e.processing,
           f.returned = e.returned
    PROVE  Follows(e, f)
<1>1. Promise!Delivers(Stage(e), Stage(f))
  BY DeliveredStage
<1>2. (f.outcome = "open" /\ f.processing) = (e.outcome = "open" /\ e.processing)
  OBVIOUS
<1>3. Promise!Produce(Stage(e), Stage(f))
  BY <1>2 DEF Promise!Produce, Stage
<1> QED
  BY <1>1, <1>3 DEF Follows, Promise!Step

\* A response: "p" is the context it is issued for, after what the providers
\* have just delivered to the context e and before it becomes f.
LEMMA ResponseFollows ==
    ASSUME NEW e \in EnumerationContext, NEW f \in EnumerationContext,
           NEW p \in EnumerationContext, NEW g, Issued(p, g),
           Delivered(e, f), e.outcome # "none",
           e.outcome = "open" => e.processing,
           p.outcome = e.outcome, p.returned = e.returned, p.sent = f.sent,
           p.outcome # "open" => p.cache = 0,
           p.outcome = "open" /\ ~p.error => p.sent = p.returned + p.cache,
           p.outcome = "open" /\ ~p.error /\ p.complete => f.provider = "done",
           f.outcome = g.outcome, f.returned = g.returned,
           f.processing = g.processing
    PROVE  Follows(e, f)
<1>1. /\ p.cache \in Nat /\ g.cache \in Nat /\ p.returned \in Nat
      /\ g.returned \in Nat /\ p.sent \in Nat
      /\ g \in EnumerationContext /\ ~g.processing /\ g.cache <= p.cache
  BY DEF Issued, Frame, EnumerationContext
<1>2. Promise!Delivers(Stage(e), Stage(f))
  BY DeliveredStage
<1>3. CASE e.outcome # "open"
  <2>1. g.outcome = e.outcome /\ g.returned = p.returned
    BY <1>1, <1>3 DEF Issued
  <2> QED
    BY <1>3, <2>1, ProduceFollows
<1>4. CASE e.outcome = "open"
  <2>1. Stage(e).busy /\ ~Stage(f).busy
    BY <1>1, <1>4 DEF Stage
  <2>2. CASE ~p.error /\ g.outcome = "open" /\ g.returned + g.cache = p.returned + p.cache
    <3>1. g.returned \in p.returned .. p.sent
      BY <1>1, <1>4, <2>2
    <3>2. Promise!Answer(Stage(e), Stage(f))
      BY <2>1, <2>2, <3>1 DEF Promise!Answer, Stage
    <3> QED
      BY <1>2, <3>2 DEF Follows, Promise!Step
  <2>3. CASE ~p.error /\ g.outcome = "finished" /\ p.complete /\ g.returned = p.returned + p.cache
    <3>1. Promise!Finish(Stage(e), Stage(f))
      BY <1>4, <2>1, <2>3 DEF Promise!Finish, Stage
    <3> QED
      BY <1>2, <3>1 DEF Follows, Promise!Step
  <2>4. CASE g.outcome = "failed" /\ g.returned = p.returned
    <3>1. Promise!Fail(Stage(e), Stage(f))
      BY <1>4, <2>1, <2>4 DEF Promise!Fail, Stage
    <3> QED
      BY <1>2, <3>1 DEF Follows, Promise!Step
  <2>5. p.error \in BOOLEAN
    BY DEF EnumerationContext
  <2> QED
    BY <1>4, <2>2, <2>3, <2>4, <2>5 DEF Issued
<1> QED
  BY <1>3, <1>4

\* The enumeration is given up with an error while a request is processed.
LEMMA FailFollows ==
    ASSUME NEW e \in EnumerationContext, NEW f \in EnumerationContext,
           Delivered(e, f), e.outcome = "open", e.processing,
           f.outcome = "failed", f.returned = e.returned
    PROVE  Follows(e, f)
<1>1. Promise!Delivers(Stage(e), Stage(f))
  BY DeliveredStage
<1>2. Promise!Fail(Stage(e), Stage(f))
  BY DEF Promise!Fail, Stage
<1> QED
  BY <1>1, <1>2 DEF Follows, Promise!Step

-----------------------------------------------------------------------------
(* All enumerations.                                                        *)

PromiseStep == Promise!Next \/ UNCHANGED [c \in Contexts |-> View(c)]

GoesOn == UnopenedInv' /\ PromiseStep

LEMMA Views ==
    /\ \A c \in Contexts : View(c) = Stage(en[c])
    /\ \A c \in Contexts : View(c)' = Stage(en'[c])
BY DEF View, Stage

\* A step that changes the context c alone.
LEMMA OneGoesOn ==
    ASSUME Inv, UnopenedInv, NEW c \in Contexts, NEW f,
           en' = [en EXCEPT ![c] = f], f.outcome # "none",
           Follows(en[c], f)
    PROVE  GoesOn
<1>1. en'[c] = f /\ \A d \in Contexts \ {c} : en'[d] = en[d]
  BY DEF Inv, TypeOK
<1>2. UnopenedInv'
  BY <1>1 DEF UnopenedInv
<1> DEFINE before == [d \in Contexts |-> View(d)]
<1>3. /\ before[c] = Stage(en[c]) /\ before'[c] = Stage(f)
      /\ \A d \in Contexts \ {c} : before'[d] = before[d]
  BY <1>1, Views
<1>4. CASE Stage(f) = Stage(en[c])
  <2>1. \A d \in Contexts : View(d)' = View(d)
    BY <1>1, <1>4, Views
  <2>2. UNCHANGED before
    BY <2>1
  <2> QED
    BY <1>2, <2>2 DEF GoesOn, PromiseStep
<1>5. CASE Promise!Step(Stage(en[c]), Stage(f))
  <2>1. Promise!Next
    BY <1>3, <1>5 DEF Promise!Next
  <2> QED
    BY <1>2, <2>1 DEF GoesOn, PromiseStep
<1> QED
  BY <1>4, <1>5 DEF Follows

\* A step that changes no context.
LEMMA NoneGoesOn ==
    ASSUME UnopenedInv, en' = en
    PROVE  GoesOn
<1>1. \A c \in Contexts : View(c)' = View(c)
  BY Views
<1> QED
  BY <1>1 DEF GoesOn, UnopenedInv, PromiseStep

-----------------------------------------------------------------------------
(* The steps of request threads.                                            *)

\* An enumeration is opened; or its context is found.
LEMMA BeginsGoesOn ==
    ASSUME Inv, UnopenedInv, NEW k \in Clients, ClientBegins(k)
    PROVE  GoesOn
<1>1. PICK c \in Contexts :
        OpenEnumeration(k, c) \/ OpenQueryFails(k, c) \/ FindContext(k, c)
  BY DEF ClientBegins
<1>2. CASE OpenEnumeration(k, c) \/ OpenQueryFails(k, c)
  <2>1. PICK provider \in {"none", "idle"} :
           en' = [en EXCEPT ![c] = NewContext(provider, "open")]
    BY <1>2 DEF OpenEnumeration, OpenQueryFails
  <2> DEFINE f == NewContext(provider, "open")
  <2>2. /\ f.outcome = "open" /\ f.processing /\ f.sent = 0 /\ f.returned = 0
        /\ f.provider # "done"
    BY DEF NewContext
  <2> HIDE DEF f
  <2>3. /\ en[c].outcome = "none" /\ en[c].provider = "none"
        /\ en[c].sent = 0
    BY <1>2, ContextKnown DEF OpenEnumeration, OpenQueryFails, ContextCreated,
                              UnopenedInv
  <2>4. Promise!Delivers(Stage(en[c]), Stage(f))
    BY <2>2, <2>3 DEF Promise!Delivers, Stage
  <2>5. Promise!Open(Stage(en[c]), Stage(f))
    <3>1. (f.outcome = "open" /\ f.processing) = TRUE
          /\ (f.provider = "done") = FALSE
      BY <2>2
    <3>2. Stage(f) = Made("open", TRUE, 0, FALSE, 0)
      BY <2>2, <3>1 DEF Stage, Made
    <3>3. Stage(en[c]).status = "none"
      BY <2>3 DEF Stage
    <3>4. [Promise!Unopened EXCEPT !.status = "open", !.busy = TRUE]
            = Made("open", TRUE, 0, FALSE, 0)
      <4>1. PICK yes : yes = TRUE
        OBVIOUS
      <4>2. PICK no : no = FALSE
        OBVIOUS
      <4>3. Promise!Unopened = Made("none", no, 0, no, 0)
        BY <4>2, Zenon DEF Promise!Unopened, Made
      <4>4. [Made("none", no, 0, no, 0) EXCEPT !.status = "open", !.busy = yes]
              = Made("open", yes, 0, no, 0)
        BY MadeOpen
      <4>5. [Promise!Unopened EXCEPT !.status = "open", !.busy = yes]
              = Made("open", yes, 0, no, 0)
        BY <4>3, <4>4
      <4> QED
        BY <4>1, <4>2, <4>5, Zenon
    <3> HIDE DEF f
    <3> QED
      BY <3>2, <3>3, <3>4, Zenon DEF Promise!Open
  <2>6. Follows(en[c], f)
    BY <2>4, <2>5 DEF Follows, Promise!Step
  <2> QED
    BY <2>1, <2>2, <2>6, OneGoesOn DEF f
<1>3. CASE FindContext(k, c)
  BY <1>3, NoneGoesOn DEF FindContext
<1> QED
  BY <1>1, <1>2, <1>3

\* The requests that end with the lock, and a close: the client side is closed
\* only when no request is being processed.
LEMMA RejectGoesOn ==
    ASSUME Inv, UnopenedInv, "wrongPull" \notin RequestKinds, NEW k \in Clients,
           \/ RejectWrongPull(k) \/ RejectBusy(k)
           \/ RejectTimedOutPull(k) \/ RejectTimedOutClose(k)
           \/ CloseEnumeration(k)
    PROVE  GoesOn
<1> DEFINE c == client[k].ctx
           e == en[c]
           o == [e EXCEPT !.timer = "off"]
           i == SetClientClosed(o, "abandoned")
<1>1. AtContextLock(k, "found")
  BY DEF RejectWrongPull, RejectBusy, RejectTimedOutPull, RejectTimedOutClose,
         CloseEnumeration
<1>2. /\ c \in Contexts /\ e \in EnumerationContext /\ ContextInv(e, TRUE)
      /\ client[k].kind \in RequestKinds \cup {"none"} /\ e.outcome # "none"
  BY <1>1, AtLock
<1>3. o \in EnumerationContext /\ Unseen(e, o)
  BY <1>2 DEF EnumerationContext, Unseen
<1> HIDE DEF o
<1>4. /\ i \in EnumerationContext
      /\ i.outcome = IF e.outcome = "open" THEN "abandoned" ELSE e.outcome
      /\ i.sent = e.sent /\ i.returned = e.returned
      /\ (i.provider = "done") = (e.provider = "done")
  <2>1. /\ Frame(o, i) /\ i.returned = o.returned
        /\ i.outcome = IF o.outcome = "open" THEN "abandoned" ELSE o.outcome
    BY <1>3, SetClientClosedEffect
  <2> HIDE DEF i
  <2> QED
    BY <1>3, <2>1 DEF Frame, Unseen
<1>5. CASE RejectWrongPull(k)
  BY <1>2, <1>5, DomainAssumption DEF RejectWrongPull
<1>6. CASE RejectBusy(k)
  BY <1>6, NoneGoesOn DEF RejectBusy
<1>7. CASE RejectTimedOutPull(k)
  <2>1. en' = [en EXCEPT ![c] = i] /\ ~e.processing
    BY <1>7 DEF RejectTimedOutPull, o
  <2> HIDE DEF i
  <2>2. Follows(e, i)
    BY <1>2, <1>4, <2>1, AbandonFollows
  <2> HIDE DEF c, e
  <2> QED
    BY <1>2, <1>4, <2>1, <2>2, OneGoesOn DEF e
<1>8. CASE RejectTimedOutClose(k)
  <2>1. en' = [en EXCEPT ![c] = o]
    BY <1>8 DEF RejectTimedOutClose, o
  <2>2. Follows(e, o)
    BY <1>2, <1>3, UnseenFollows
  <2> HIDE DEF c, e
  <2> QED
    BY <1>2, <1>3, <2>1, <2>2, OneGoesOn DEF e, Unseen
<1>9. CASE CloseEnumeration(k)
  <2> DEFINE f == IF i.complete THEN [i EXCEPT !.lock = k] ELSE i
  <2>1. en' = [en EXCEPT ![c] = f] /\ ~e.processing
    BY <1>9 DEF CloseEnumeration, o
  <2> HIDE DEF i
  <2>2. /\ f \in EnumerationContext /\ f.outcome = i.outcome
        /\ f.sent = i.sent /\ f.returned = i.returned /\ f.provider = i.provider
    BY <1>4 DEF EnumerationContext
  <2> HIDE DEF f
  <2>3. Follows(e, f)
    BY <1>2, <1>4, <2>1, <2>2, AbandonFollows
  <2> HIDE DEF c, e
  <2> QED
    BY <1>2, <1>4, <2>1, <2>2, <2>3, OneGoesOn DEF e
<1> QED
  BY <1>5, <1>6, <1>7, <1>8, <1>9

\* A pull begins, and counts.
LEMMA PullGoesOn ==
    ASSUME Inv, UnopenedInv, NEW k \in Clients, StartPull(k) \/ LockToIssue(k)
    PROVE  GoesOn
<1> DEFINE c == client[k].ctx
           e == en[c]
<1>1. CASE StartPull(k)
  <2> DEFINE f == [e EXCEPT !.processing = TRUE, !.timer = "off"]
  <2>1. AtContextLock(k, "found") /\ ~e.processing
    BY <1>1 DEF StartPull
  <2>2. c \in Contexts /\ e \in EnumerationContext /\ e.outcome # "none"
    BY <2>1, AtLock
  <2>3. en' = [en EXCEPT ![c] = f]
    BY <1>1 DEF StartPull, Inv, TypeOK
  <2>4. /\ f \in EnumerationContext /\ f.outcome = e.outcome /\ f.processing
        /\ f.sent = e.sent /\ f.returned = e.returned
        /\ f.provider = e.provider
    BY <2>2 DEF EnumerationContext
  <2> HIDE DEF f
  <2>5. Follows(e, f)
    <3>1. CASE e.outcome = "open"
      <4>1. Promise!Delivers(Stage(e), Stage(f))
        BY <2>2, <2>4, DeliveredStage DEF Delivered, EnumerationContext
      <4>2. Stage(e).status = "open" /\ ~Stage(e).busy
        BY <2>1, <3>1 DEF Stage
      <4>3. Stage(f) = [Stage(e) EXCEPT !.busy = TRUE]
        <5>1. /\ (f.outcome = "open" /\ f.processing) = TRUE
              /\ (f.provider = "done") = (e.provider = "done")
          BY <2>4, <3>1
        <5>2. PICK b : b = (e.outcome = "open" /\ e.processing)
          OBVIOUS
        <5>3. PICK done : done = (e.provider = "done")
          OBVIOUS
        <5>4. PICK yes : yes = TRUE
          OBVIOUS
        <5>5. Stage(e) = Made(e.outcome, b, e.sent, done, e.returned)
          BY <5>2, <5>3, Zenon DEF Stage, Made
        <5>6. Stage(f) = Made(e.outcome, yes, e.sent, done, e.returned)
          BY <2>4, <5>1, <5>3, <5>4, Zenon DEF Stage, Made
        <5>7. [Made(e.outcome, b, e.sent, done, e.returned) EXCEPT !.busy = yes]
                = Made(e.outcome, yes, e.sent, done, e.returned)
          BY MadeBusy
        <5>8. Stage(f) = [Stage(e) EXCEPT !.busy = yes]
          BY <5>5, <5>6, <5>7
        <5> QED
          BY <5>4, <5>8, Zenon
      <4> QED
        BY <4>1, <4>2, <4>3 DEF Follows, Promise!Step, Promise!Begin
    <3>2. CASE e.outcome # "open"
      BY <2>2, <2>4, <3>2, UnseenFollows DEF Unseen
    <3> QED
      BY <3>1, <3>2
  <2> HIDE DEF c, e
  <2> QED
    BY <2>2, <2>3, <2>4, <2>5, OneGoesOn DEF e
<1>2. CASE LockToIssue(k)
  <2> DEFINE i == CountPull(e, client[k].kind, client[k].count)
             f == [i EXCEPT !.lock = k]
  <2>1. AtContextLock(k, "marked") /\ en' = [en EXCEPT ![c] = f]
    BY <1>2 DEF LockToIssue
  <2>2. /\ c \in Contexts /\ e \in EnumerationContext /\ e.outcome # "none"
        /\ client[k].count \in Nat
    BY <2>1, AtLock DEF ClientThread
  <2>3. i \in EnumerationContext /\ Unseen(e, i)
    <3> DEFINE z == IF client[k].count = 0 THEN e.zeroPulls + 1 ELSE 0
               err == e.error \/ z > MaxZeroPulls
               j == [e EXCEPT !.zeroPulls = z, !.error = err]
    <3>1. z \in Nat /\ err \in BOOLEAN
      BY <2>2 DEF EnumerationContext
    <3>2. i = IF client[k].kind # "pull" THEN e ELSE j
      BY DEF CountPull
    <3> HIDE DEF z, err
    <3>5. j \in EnumerationContext
      BY <2>2, <3>1 DEF EnumerationContext
    <3>6. Unseen(e, j)
      BY <2>2 DEF EnumerationContext, Unseen
    <3>3. j \in EnumerationContext /\ Unseen(e, j)
      BY <3>5, <3>6
    <3>4. Unseen(e, e)
      BY DEF Unseen
    <3> HIDE DEF i, j
    <3> QED
      BY <2>2, <3>2, <3>3, <3>4
  <2> HIDE DEF i
  <2>4. f \in EnumerationContext /\ Unseen(e, f)
    BY <2>3 DEF EnumerationContext, Unseen
  <2> HIDE DEF f
  <2>5. Follows(e, f)
    BY <2>2, <2>4, UnseenFollows
  <2> HIDE DEF c, e
  <2> QED
    BY <2>1, <2>2, <2>4, <2>5, OneGoesOn DEF e, Unseen
<1> QED
  BY <1>1, <1>2

\* The request thread that holds the lock answers, or waits, or releases.
LEMMA HolderGoesOn ==
    ASSUME Inv, UnopenedInv, NEW k \in Clients,
           IssueResponse(k) \/ DelayResponse(k) \/ ReleaseClosed(k)
    PROVE  GoesOn
<1> DEFINE c == client[k].ctx
           e == en[c]
<1>1. client[k].pc \in {"locked", "releasing"}
  BY DEF IssueResponse, DelayResponse, ReleaseClosed
<1>2. /\ c \in Contexts /\ e \in EnumerationContext /\ ContextInv(e, TRUE)
      /\ client[k].count \in Nat /\ e.outcome # "none"
  BY <1>1, LockHeld
<1>3. CASE IssueResponse(k)
  <2> DEFINE i == IssueImmediateResponse(e, client[k].count)
             f == Unlocked(i)
  <2>1. client[k].pc = "locked" /\ en' = [en EXCEPT ![c] = f]
    BY <1>3 DEF IssueResponse
  <2>2. Issued(e, i)
    BY <1>2, IssueImmediateResponseEffect
  <2> HIDE DEF i
  <2>3. /\ f \in EnumerationContext /\ f.outcome = i.outcome
        /\ f.returned = i.returned /\ f.processing = i.processing
        /\ f.sent = e.sent /\ f.provider = i.provider
    BY <2>2 DEF Unlocked, EnumerationContext, Issued, Frame
  <2> HIDE DEF f
  <2>4. e.provider = "done" => f.provider = "done"
    BY <2>2, <2>3 DEF Issued, Frame
  <2>5. Delivered(e, f)
    BY <1>2, <2>3, <2>4 DEF Delivered, EnumerationContext
  <2>6. e.outcome = "open" => e.processing
    <3>1. Serves(k, c)
      BY <2>1 DEF Serves
    <3> QED
      BY <1>2, <3>1 DEF Inv, OneRequestAtATime
  <2>7. /\ e.outcome # "open" => e.cache = 0
        /\ e.outcome = "open" /\ ~e.error => e.sent = e.returned + e.cache
        /\ e.complete => e.provider = "done"
    BY <1>2 DEF ContextInv
  <2> HIDE DEF c, e
  <2>8. Follows(e, f)
    BY <1>2, <2>2, <2>3, <2>4, <2>5, <2>6, <2>7, ResponseFollows
  <2>9. f.outcome # "none"
    BY <1>2, <2>2, <2>3 DEF Issued
  <2> QED
    BY <1>2, <2>1, <2>8, <2>9, OneGoesOn DEF e
<1>4. CASE DelayResponse(k) \/ ReleaseClosed(k)
  <2>1. PICK f :
           /\ en' = [en EXCEPT ![c] = f]
           /\ \/ f = Unlocked(SetupDelayedResponse(e, k, client[k].count))
              \/ f = Unlocked(e)
    BY <1>4 DEF DelayResponse, ReleaseClosed
  <2>2. f \in EnumerationContext /\ Unseen(e, f)
    <3>1. CASE f = Unlocked(e)
      BY <1>2, <3>1 DEF Unlocked, EnumerationContext, Unseen
    <3>2. CASE f = Unlocked(SetupDelayedResponse(e, k, client[k].count))
      <4>1. f \in EnumerationContext
        BY <1>2, <3>2 DEF Unlocked, SetupDelayedResponse, EnumerationContext
      <4>2. Unseen(e, f)
        BY <1>2, <3>2 DEF Unlocked, SetupDelayedResponse, EnumerationContext, Unseen
      <4> QED
        BY <4>1, <4>2
    <3> QED
      BY <2>1, <3>1, <3>2
  <2>3. Follows(e, f)
    BY <1>2, <2>2, UnseenFollows
  <2> HIDE DEF c, e
  <2> QED
    BY <1>2, <2>1, <2>2, <2>3, OneGoesOn DEF e, Unseen
<1> QED
  BY <1>3, <1>4

-----------------------------------------------------------------------------
(* The steps of providers and of time.                                      *)

\* The thread of a response, but for the response itself, and time.
LEMMA ProviderGoesOn ==
    ASSUME Inv, UnopenedInv, NEW c \in Contexts,
           \/ ProviderResponds(c) \/ ProviderLocks(c) \/ ProviderWaits(c)
           \/ ProviderUsesReleased(c) \/ TimePasses(c)
    PROVE  GoesOn
<1> DEFINE e == en[c]
<1>1. /\ e \in EnumerationContext
      /\ e.outcome = "none" => e.provider = "none" /\ c \notin table
  BY ContextKnown
<1>2. PICK f \in EnumerationContext :
        en' = [en EXCEPT ![c] = f] /\ Unseen(e, f) /\ e.outcome # "none"
  <2>1. CASE ProviderResponds(c)
    <3>1. PICK chunk \in ProviderResponses(e) :
            en' = [en EXCEPT ![c] =
                    [e EXCEPT !.provider = "sending", !.chunk = chunk,
                              !.zeroLen = 0,
                              !.error = e.error \/ chunk.kind = "error"]]
      BY <2>1 DEF ProviderResponds
    <3> DEFINE error == e.error \/ chunk.kind = "error"
               f == [e EXCEPT !.provider = "sending", !.chunk = chunk,
                              !.zeroLen = 0, !.error = error]
    <3>2. chunk \in Chunks /\ error \in BOOLEAN /\ e.provider = "idle"
      BY <1>1, <2>1 DEF ProviderResponses, ProviderResponds, EnumerationContext
    <3>3. en' = [en EXCEPT ![c] = f]
      BY <3>1
    <3> HIDE DEF error
    <3>4. f \in EnumerationContext /\ Unseen(e, f)
      BY <1>1, <3>2 DEF EnumerationContext, Unseen
    <3> HIDE DEF f, e
    <3> QED
      BY <1>1, <3>2, <3>3, <3>4
  <2>2. CASE ProviderLocks(c)
    <3> DEFINE f == [e EXCEPT !.lock = "provider", !.provider = "locked"]
    <3>1. en' = [en EXCEPT ![c] = f] /\ e.provider = "sending"
      BY <2>2 DEF ProviderLocks, Inv, TypeOK
    <3>2. f \in EnumerationContext /\ Unseen(e, f)
      BY <1>1, <3>1 DEF EnumerationContext, Unseen
    <3> HIDE DEF f, e
    <3> QED
      BY <1>1, <3>1, <3>2
  <2>3. CASE ProviderWaits(c)
    <3> DEFINE next == IF CacheOverfull(e) THEN "asleep" ELSE "idle"
               f == [e EXCEPT !.provider = next]
    <3>1. en' = [en EXCEPT ![c] = f] /\ e.provider = "waiting"
      BY <2>3 DEF ProviderWaits, Inv, TypeOK
    <3>2. next \in {"asleep", "idle"}
      OBVIOUS
    <3> HIDE DEF next
    <3>3. f \in EnumerationContext /\ Unseen(e, f)
      BY <1>1, <3>1, <3>2 DEF EnumerationContext, Unseen
    <3> HIDE DEF f, e
    <3> QED
      BY <1>1, <3>1, <3>3
  <2>4. CASE ProviderUsesReleased(c)
    <3> DEFINE f == [e EXCEPT !.provider = "undefined"]
    <3>1. /\ en' = [en EXCEPT ![c] = f]
          /\ e.provider \in {"idle", "sending", "waiting"}
      BY <2>4 DEF ProviderUsesReleased, Inv, TypeOK
    <3>2. f \in EnumerationContext /\ Unseen(e, f)
      BY <1>1, <3>1 DEF EnumerationContext, Unseen
    <3> HIDE DEF f, e
    <3> QED
      BY <1>1, <3>1, <3>2
  <2>5. CASE TimePasses(c)
    <3> DEFINE f == [e EXCEPT !.timer = "expired"]
    <3>1. en' = [en EXCEPT ![c] = f] /\ c \in table
      BY <2>5 DEF TimePasses, Inv, TypeOK
    <3>2. f \in EnumerationContext /\ Unseen(e, f)
      BY <1>1 DEF EnumerationContext, Unseen
    <3> HIDE DEF f, e
    <3> QED
      BY <1>1, <3>1, <3>2
  <2> QED
    BY <2>1, <2>2, <2>3, <2>4, <2>5
<1>3. Follows(e, f)
  BY <1>1, <1>2, UnseenFollows
<1> HIDE DEF e
<1> QED
  BY <1>2, <1>3, OneGoesOn DEF e, Unseen

\* A response of the providers: the client sees it only if a request waits.
LEMMA PutGoesOn ==
    ASSUME Inv, UnopenedInv, NEW c \in Contexts, ProviderPuts(c)
    PROVE  GoesOn
<1> DEFINE e == en[c]
           p == Put(e)
           a == AfterPut(e)
           f == PutAndUnlocked(e)
<1>1. e.provider = "locked" /\ en' = [en EXCEPT ![c] = f]
  BY DEF ProviderPuts, PutAndUnlocked
<1>2. /\ e \in EnumerationContext /\ ContextInv(e, c \in table)
      /\ e.outcome # "none"
  BY <1>1, ContextKnown
<1>3. ~e.complete
  <2>1. (c \in table) = TRUE
    BY <1>1, <1>2 DEF ContextInv
  <2> QED
    BY <1>1, <1>2, <2>1 DEF ContextInv
<1>4. /\ p \in EnumerationContext
      /\ p.sent = e.sent + e.chunk.size /\ p.outcome = e.outcome
      /\ p.processing = e.processing /\ p.returned = e.returned
      /\ e.error => p.error
      /\ p.complete => e.complete \/ e.chunk.final
      /\ e.chunk.kind # "mismatch" =>
            IF e.closed THEN p.cache = e.cache
            ELSE p.cache = e.cache + e.chunk.size
      /\ e.chunk.kind = "mismatch" => p.cache = e.cache /\ p.error
  BY <1>2, PutEffect
<1>5. \/ a = p
      \/ SameButSaved(p, a)
      \/ /\ e.saved # NoOne
         /\ \E g \in EnumerationContext : Issued(p, g) /\ SameButSaved(g, a)
  BY <1>2, AfterPutEffect
<1>6. a \in EnumerationContext /\ a.sent = p.sent
  BY <1>4, <1>5 DEF SameButSaved, Issued, Frame
<1>7. e.chunk.size \in Nat /\ e.chunk.final \in BOOLEAN /\ e.sent \in Nat
  BY <1>2, Numbers DEF EnumerationContext, Chunks
<1> HIDE DEF p, a
<1>8. /\ f \in EnumerationContext
      /\ f.outcome = a.outcome /\ f.processing = a.processing
      /\ f.returned = a.returned /\ f.sent = a.sent
      /\ e.chunk.final => f.provider = "done"
  <2>1. NoChunk \in Chunks
    BY DEF NoChunk, Chunks, AllChunkKinds
  <2>2. (a.complete \/ e.chunk.final) \in BOOLEAN
    BY <1>6, <1>7 DEF EnumerationContext
  <2> DEFINE complete == a.complete \/ e.chunk.final
             next == IF e.chunk.final THEN "done"
                     ELSE IF a.closed THEN "idle" ELSE "waiting"
  <2>3. f = [a EXCEPT !.lock = "free", !.chunk = NoChunk, !.complete = complete,
                      !.provider = next]
    BY DEF PutAndUnlocked, a
  <2>4. /\ complete \in BOOLEAN /\ next \in {"done", "idle", "waiting"}
        /\ e.chunk.final => next = "done"
    BY <2>2
  <2> HIDE DEF complete, next, f
  <2>5. f \in EnumerationContext
    BY <1>6, <2>1, <2>3, <2>4 DEF EnumerationContext
  <2>6. /\ f.outcome = a.outcome /\ f.processing = a.processing
        /\ f.returned = a.returned /\ f.sent = a.sent /\ f.provider = next
    BY <1>6, <2>3 DEF EnumerationContext
  <2> QED
    BY <2>4, <2>5, <2>6
<1> HIDE DEF f
<1>9. Delivered(e, f)
  BY <1>1, <1>4, <1>6, <1>7, <1>8 DEF Delivered
<1>10. Follows(e, f) /\ f.outcome # "none"
  <2>1. CASE a = p \/ SameButSaved(p, a)
    <3>1. /\ f.outcome = e.outcome /\ f.processing = e.processing
          /\ f.returned = e.returned
      BY <1>4, <1>8, <2>1 DEF SameButSaved
    <3> HIDE DEF e
    <3> QED
      BY <1>2, <1>8, <1>9, <3>1, ProduceFollows
  <2>2. CASE /\ e.saved # NoOne
             /\ \E g \in EnumerationContext : Issued(p, g) /\ SameButSaved(g, a)
    <3>1. PICK g \in EnumerationContext : Issued(p, g) /\ SameButSaved(g, a)
      BY <2>2
    <3>2. e.outcome = "open" => e.processing
      BY <2>2, DelayedIsServed
    <3>3. p.outcome # "open" => p.cache = 0
      <4>1. e.outcome # "open" => e.closed /\ e.cache = 0
        BY <1>2 DEF ContextInv, EnumerationContext
      <4> QED
        BY <1>4, <4>1
    <3>4. p.outcome = "open" /\ ~p.error => p.sent = p.returned + p.cache
      <4>1. SUFFICES ASSUME p.outcome = "open", ~p.error
                     PROVE  p.sent = p.returned + p.cache
        OBVIOUS
      <4>2. /\ e.sent = e.returned + e.cache
            /\ p.cache = e.cache + e.chunk.size
        BY <1>2, <1>4, <4>1 DEF ContextInv
      <4>3. e.returned \in Nat /\ e.cache \in Nat
        BY <1>2 DEF EnumerationContext
      <4> QED
        BY <1>4, <1>7, <4>2, <4>3
    <3>5. p.complete => f.provider = "done"
      BY <1>3, <1>4, <1>8
    <3>6. /\ f.outcome = g.outcome /\ f.returned = g.returned
          /\ f.processing = g.processing /\ p.sent = f.sent
      BY <1>6, <1>8, <3>1 DEF SameButSaved
    <3>7. f.outcome # "none"
      BY <1>2, <1>4, <3>1, <3>6 DEF Issued
    <3> HIDE DEF e
    <3> QED
      BY <1>2, <1>4, <1>8, <1>9, <3>1, <3>2, <3>3, <3>4, <3>5, <3>6, <3>7,
         ResponseFollows
  <2> QED
    BY <1>5, <2>1, <2>2
<1> HIDE DEF e
<1> QED
  BY <1>1, <1>10, OneGoesOn DEF e

-----------------------------------------------------------------------------
(* The steps of the timeout thread.                                         *)

\* The scan abandons a context only between two requests.
LEMMA ScanGoesOn ==
    ASSUME Inv, UnopenedInv, NEW c \in Contexts,
           ScanExpiresRequest(c) \/ ScanExpiresContext(c)
    PROVE  GoesOn
<1> DEFINE e == en[c]
<1>1. /\ e \in EnumerationContext
      /\ e.outcome = "none" => c \notin table
      /\ timer.pc = "scan" => timer.toScan \subseteq table
  BY ContextKnown
<1>2. e.outcome # "none"
  BY <1>1 DEF ScanExpiresRequest, ScanExpiresContext, ScanFindsExpired
<1>3. CASE ScanExpiresRequest(c)
  <2> DEFINE f == [e EXCEPT !.timer = "off", !.lock = "timer"]
  <2>1. en' = [en EXCEPT ![c] = f]
    BY <1>3 DEF ScanExpiresRequest, Inv, TypeOK
  <2>4. f \in EnumerationContext
    BY <1>1 DEF EnumerationContext
  <2>5. Unseen(e, f)
    BY <1>1 DEF EnumerationContext, Unseen
  <2>2. f \in EnumerationContext /\ Unseen(e, f)
    BY <2>4, <2>5
  <2> HIDE DEF f
  <2>3. Follows(e, f)
    BY <1>1, <2>2, UnseenFollows
  <2> HIDE DEF e
  <2> QED
    BY <1>2, <2>1, <2>2, <2>3, OneGoesOn DEF e, Unseen
<1>4. CASE ScanExpiresContext(c)
  <2> DEFINE o == [e EXCEPT !.timer = "off"]
             i == SetClientClosed(o, "abandoned")
             m == [i EXCEPT !.lock = "timer"]
             f == IF i.complete THEN i ELSE SignalProvider(m)
  <2>1. en' = [en EXCEPT ![c] = f] /\ ~e.processing
    BY <1>4 DEF ScanExpiresContext
  <2>2. o \in EnumerationContext /\ Unseen(e, o)
    BY <1>1 DEF EnumerationContext, Unseen
  <2> HIDE DEF o
  <2>3. /\ i \in EnumerationContext
        /\ i.outcome = IF e.outcome = "open" THEN "abandoned" ELSE e.outcome
        /\ i.sent = e.sent /\ i.returned = e.returned
        /\ (i.provider = "done") = (e.provider = "done")
    <3>1. /\ Frame(o, i) /\ i.returned = o.returned
          /\ i.outcome = IF o.outcome = "open" THEN "abandoned" ELSE o.outcome
      BY <2>2, SetClientClosedEffect
    <3> HIDE DEF i
    <3> QED
      BY <2>2, <3>1 DEF Frame, Unseen
  <2> HIDE DEF i
  <2>4. /\ m \in EnumerationContext /\ m.outcome = i.outcome
        /\ m.sent = i.sent /\ m.returned = i.returned
        /\ m.provider = i.provider
    BY <2>3 DEF EnumerationContext
  <2> HIDE DEF m
  <2>5. /\ f \in EnumerationContext /\ f.outcome = i.outcome
        /\ f.sent = i.sent /\ f.returned = i.returned
        /\ (f.provider = "done") = (i.provider = "done")
    <3>1. CASE i.complete
      BY <2>3, <3>1
    <3>2. CASE ~i.complete
      BY <2>4, <3>2, SignalProviderEffect DEF Frame
    <3> QED
      BY <3>1, <3>2
  <2> HIDE DEF f
  <2>6. Follows(e, f)
    BY <1>1, <2>1, <2>3, <2>5, AbandonFollows
  <2> HIDE DEF e
  <2> QED
    BY <1>2, <2>1, <2>3, <2>5, <2>6, OneGoesOn DEF e
<1> QED
  BY <1>3, <1>4

\* The clean-up answers a delayed request, or gives the providers up while a
\* request is processed.
LEMMA CleanGoesOn ==
    ASSUME Inv, UnopenedInv, NEW c \in Contexts, CleanContext(c)
    PROVE  GoesOn
<1> DEFINE e == en[c]
           a == [e EXCEPT !.zeroLen = @ + 1, !.want = 0,
                          !.complete = @ \/ GivesUp(e),
                          !.error = @ \/ GivesUp(e)]
           i == IssueImmediateResponse(a, 0)
           b == IF AnswersDelayed(e) THEN [i EXCEPT !.saved = NoOne]
                ELSE IF a.closed /\ ~a.complete THEN [a EXCEPT !.timer = "armed"]
                ELSE a
           d == IF GivesUp(e) THEN SetClientClosed(b, "failed") ELSE b
           f == Unlocked(d)
<1>1. c \in timer.toClean /\ en' = [en EXCEPT ![c] = f]
  BY DEF CleanContext, Cleaned
<1>2. /\ e \in EnumerationContext /\ ContextInv(e, c \in table)
      /\ c \in table /\ e.outcome # "none"
      /\ e.outcome = "open" => e.processing
  BY <1>1, ContextKnown
<1>3. ContextInv(e, TRUE)
  <2>1. (c \in table) = TRUE
    BY <1>2
  <2> QED
    BY <1>2, <2>1
<1>4. /\ a \in EnumerationContext
      /\ a.complete = (e.complete \/ GivesUp(e))
      /\ a.error = (e.error \/ GivesUp(e)) /\ a.closed = e.closed
      /\ a.provider = e.provider /\ a.processing = e.processing
      /\ a.outcome = e.outcome /\ a.cache = e.cache /\ a.sent = e.sent
      /\ a.returned = e.returned
  BY <1>2, CountedEffect
<1> HIDE DEF a
<1>5. Issued(a, i) /\ i \in EnumerationContext
  BY <1>4, IssueImmediateResponseEffect DEF Issued, Frame
<1> HIDE DEF i
\* What becomes of the response.
<1>6. /\ b \in EnumerationContext /\ b.sent = e.sent
      /\ (b.provider = "done") = (e.provider = "done")
      /\ AnswersDelayed(e) =>
            /\ b.outcome = i.outcome /\ b.returned = i.returned
            /\ b.processing = i.processing
      /\ ~AnswersDelayed(e) =>
            /\ b.outcome = e.outcome /\ b.returned = e.returned
            /\ b.processing = e.processing
  <2>1. CASE AnswersDelayed(e)
    BY <1>4, <1>5, <2>1 DEF Issued, Frame, EnumerationContext
  <2>2. CASE ~AnswersDelayed(e)
    BY <1>4, <2>2 DEF EnumerationContext
  <2> QED
    BY <2>1, <2>2
<1> HIDE DEF b
<1>7. /\ f \in EnumerationContext /\ f.sent = b.sent
      /\ (f.provider = "done") = (b.provider = "done")
      /\ f.returned = b.returned
      /\ ~GivesUp(e) => f.outcome = b.outcome /\ f.processing = b.processing
      /\ GivesUp(e) =>
            f.outcome = IF b.outcome = "open" THEN "failed" ELSE b.outcome
  <2>1. /\ d \in EnumerationContext /\ d.sent = b.sent
        /\ (d.provider = "done") = (b.provider = "done")
        /\ d.returned = b.returned
        /\ ~GivesUp(e) => d.outcome = b.outcome /\ d.processing = b.processing
        /\ GivesUp(e) =>
              d.outcome = IF b.outcome = "open" THEN "failed" ELSE b.outcome
    BY <1>6, SetClientClosedEffect DEF Frame
  <2> HIDE DEF d
  <2>2. /\ f \in EnumerationContext
        /\ f.sent = d.sent /\ f.provider = d.provider /\ f.returned = d.returned
        /\ f.outcome = d.outcome /\ f.processing = d.processing
    BY <2>1 DEF Unlocked, EnumerationContext
  <2> HIDE DEF f
  <2> QED
    BY <2>1, <2>2, Zenon
<1> HIDE DEF f, d
<1>8. Delivered(e, f)
  BY <1>2, <1>6, <1>7 DEF Delivered, EnumerationContext
<1>9. a.outcome # "open" => a.cache = 0
  BY <1>3, <1>4 DEF ContextInv
<1>10. Follows(e, f) /\ f.outcome # "none"
  <2>1. CASE GivesUp(e) /\ e.outcome = "open"
    <3>1. b.outcome \in {"open", "failed"} /\ b.returned = e.returned
      <4>1. a.error
        BY <1>4, <2>1
      <4>2. i.outcome \in {"open", "failed"} /\ i.returned = e.returned
        BY <1>4, <1>5, <2>1, <4>1 DEF Issued
      <4> QED
        BY <1>6, <2>1, <4>2
    <3>2. f.outcome = "failed" /\ f.returned = e.returned
      BY <1>7, <2>1, <3>1
    <3> HIDE DEF e
    <3> QED
      BY <1>2, <1>7, <1>8, <2>1, <3>2, FailFollows
  <2>2. CASE ~GivesUp(e) /\ AnswersDelayed(e)
    <3>1. a.outcome = "open" /\ ~a.error => a.sent = a.returned + a.cache
      BY <1>3, <1>4, <2>2 DEF ContextInv
    <3>2. a.complete => f.provider = "done"
      BY <1>3, <1>4, <1>6, <1>7, <2>2 DEF ContextInv
    <3>3. /\ f.outcome = i.outcome /\ f.returned = i.returned
          /\ f.processing = i.processing /\ a.sent = f.sent
      BY <1>4, <1>6, <1>7, <2>2
    <3>4. f.outcome # "none"
      BY <1>2, <1>4, <1>5, <3>3 DEF Issued
    <3> HIDE DEF e
    <3> QED
      BY <1>2, <1>4, <1>5, <1>7, <1>8, <1>9, <3>1, <3>2, <3>3, <3>4,
         ResponseFollows
  <2>3. CASE e.outcome # "open" \/ (~GivesUp(e) /\ ~AnswersDelayed(e))
    <3>1. f.outcome = e.outcome /\ f.returned = e.returned
      <4>1. CASE AnswersDelayed(e)
        <5>1. e.outcome # "open" /\ a.cache = 0
          BY <1>9, <1>4, <2>3, <4>1
        <5>2. i.outcome = e.outcome
          BY <1>4, <1>5, <5>1 DEF Issued
        <5>3. i.returned = e.returned
          <6>1. /\ a.returned \in Nat /\ i.returned \in Nat /\ i.cache \in Nat
                /\ i.cache <= a.cache
            BY <1>4, <1>5 DEF Issued, EnumerationContext
          <6> QED
            BY <1>4, <1>5, <5>1, <6>1 DEF Issued
        <5> QED
          BY <1>6, <1>7, <4>1, <5>1, <5>2, <5>3
      <4>2. CASE ~AnswersDelayed(e)
        BY <1>6, <1>7, <2>3, <4>2
      <4> QED
        BY <4>1, <4>2
    <3>2. e.outcome = "open" => f.processing = e.processing
      BY <1>6, <1>7, <2>3
    <3> HIDE DEF e
    <3> QED
      BY <1>2, <1>7, <1>8, <3>1, <3>2, ProduceFollows
  <2> QED
    BY <2>1, <2>2, <2>3
<1> HIDE DEF e
<1> QED
  BY <1>1, <1>10, OneGoesOn DEF e

-----------------------------------------------------------------------------
(* The implementation.                                                      *)

LEMMA InitFollows ==
    ASSUME Init
    PROVE  UnopenedInv /\ Promise!Init
<1>1. \A c \in Contexts :
        /\ en[c].outcome = "none" /\ en[c].sent = 0 /\ en[c].returned = 0
        /\ en[c].provider = "none"
  BY DEF Init, NewContext
<1>2. \A c \in Contexts : View(c) = Promise!Unopened
  BY <1>1 DEF View, Promise!Unopened
<1> QED
  BY <1>1, <1>2 DEF UnopenedInv, Promise!Init

LEMMA NextFollows ==
    ASSUME Inv, UnopenedInv, "wrongPull" \notin RequestKinds, [Next]_vars
    PROVE  GoesOn
<1>1. CASE RejectRequest \/ UNCHANGED vars
  BY <1>1, NoneGoesOn DEF RejectRequest, vars
<1>2. ASSUME NEW k \in Clients, ClientContinues(k) PROVE GoesOn
  <2>1. CASE UseReleasedContext(k)
    BY <2>1, NoneGoesOn DEF UseReleasedContext
  <2> QED
    BY <1>2, <2>1, RejectGoesOn, PullGoesOn, HolderGoesOn DEF ClientContinues
<1>3. ASSUME NEW c \in Contexts,
             ProviderResponds(c) \/ ProviderContinues(c) \/ TimePasses(c)
      PROVE  GoesOn
  BY <1>3, ProviderGoesOn, PutGoesOn DEF ProviderContinues
<1>4. CASE TimerSteps
  <2>1. CASE \/ TimerWakes \/ ScanEnds \/ TimerLoops \/ TimerExits
             \/ \E c \in Contexts : ScanSkips(c)
    <3>1. en' = en
      BY <2>1 DEF TimerWakes, ScanEnds, TimerLoops, TimerExits, ScanSkips
    <3> QED
      BY <3>1, NoneGoesOn
  <2> QED
    BY <1>4, <2>1, ScanGoesOn, CleanGoesOn DEF TimerSteps
<1> QED
  BY <1>1, <1>2, <1>3, <1>4, BeginsGoesOn DEF Next

\* As long as no client pulls with the wrong type of request, contexts
\* implement pull enumerations, whatever the threads of clients and providers
\* and the timeouts do: each enumeration ends once, is abandoned only between
\* two requests, finishes only with all its objects returned, and returns no
\* objects with an error.
THEOREM PullEnumerationsImplemented ==
    ASSUME "wrongPull" \notin RequestKinds
    PROVE  Spec => ImplementsPullEnumerations
<1>1. Init => Promise!Init /\ UnopenedInv
  BY InitFollows
<1>2. Inv /\ UnopenedInv /\ [Next]_vars
          => UnopenedInv' /\ [Promise!Next]_([c \in Contexts |-> View(c)])
  BY NextFollows DEF GoesOn, PromiseStep
<1> QED
  BY <1>1, <1>2, InvHolds, PTL DEF Spec, ImplementsPullEnumerations, Promise!Spec
=============================================================================
