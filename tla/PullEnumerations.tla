--------------------------- MODULE PullEnumerations ---------------------------
(****************************************************************************)
(* What pull enumerations promise to clients (DSP0200): an enumeration is   *)
(* opened once, serves one request at a time, and ends once: with all its   *)
(* objects returned, with an error, or because its client left it between   *)
(* two requests.  Neither threads nor caches nor timers appear here.        *)
(****************************************************************************)
EXTENDS Integers

CONSTANT Enumerations

VARIABLE enumeration

Enumeration ==
    [status : {"none", "open", "finished", "failed", "abandoned"},
     busy : BOOLEAN,       \* a request is being processed
     produced : Nat,       \* the objects its providers have delivered
     done : BOOLEAN,       \* its providers deliver nothing more
     returned : Nat]       \* the objects returned to the client

Unopened == [status |-> "none", busy |-> FALSE, produced |-> 0,
             done |-> FALSE, returned |-> 0]

Init == enumeration = [e \in Enumerations |-> Unopened]

-----------------------------------------------------------------------------
(* The steps of an enumeration, from r to s.                                *)

\* Providers may deliver in every step, until they are done.
Delivers(r, s) ==
    /\ s.produced >= r.produced
    /\ r.done => s.done /\ s.produced = r.produced

Open(r, s) ==
    /\ r.status = "none"
    /\ s = [Unopened EXCEPT !.status = "open", !.busy = TRUE]

Produce(r, s) ==
    /\ r.status # "none"
    /\ <<s.status, s.busy, s.returned>> = <<r.status, r.busy, r.returned>>

Begin(r, s) ==
    /\ r.status = "open" /\ ~r.busy
    /\ s = [r EXCEPT !.busy = TRUE]

\* A response with some of the objects; more may follow.
Answer(r, s) ==
    /\ r.busy
    /\ s.status = "open" /\ ~s.busy
    /\ s.returned \in r.returned .. s.produced

\* A response with the last objects and the end of the sequence.
Finish(r, s) ==
    /\ r.busy
    /\ s.status = "finished" /\ ~s.busy
    /\ s.done /\ s.returned = s.produced

\* A response with an error and no objects.
Fail(r, s) ==
    /\ r.busy
    /\ s.status = "failed" /\ ~s.busy
    /\ s.returned = r.returned

Abandon(r, s) ==
    /\ r.status = "open" /\ ~r.busy
    /\ s = [r EXCEPT !.status = "abandoned"]

Step(r, s) ==
    /\ Delivers(r, s)
    /\ \/ Open(r, s) \/ Produce(r, s) \/ Begin(r, s) \/ Answer(r, s)
       \/ Finish(r, s) \/ Fail(r, s) \/ Abandon(r, s)

Next ==
    \E e \in Enumerations :
        /\ Step(enumeration[e], enumeration'[e])
        /\ \A f \in Enumerations \ {e} : enumeration'[f] = enumeration[f]

Spec == Init /\ [][Next]_enumeration
=============================================================================
