--------------------------- MODULE AsyncOperations ---------------------------
(***************************************************************************)
(* What the message services promise of an operation: it is sent once,     *)
(* handled at most once, and answered at most once, by its handler or by a *)
(* refusal without it having been handled; the answer is taken by whoever  *)
(* sent it.  Queues, threads and the routing do not appear here.           *)
(***************************************************************************)
EXTENDS Integers

CONSTANT Sendable

VARIABLE operation

Operation == [status : {"unsent", "sent", "replied", "refused", "over"},
              handled : 0..1,   \* how often its handler has begun
              taken : 0..1]     \* how often its answer has reached the sender

Init == operation = [o \in Sendable |->
                        [status |-> "unsent", handled |-> 0, taken |-> 0]]

-----------------------------------------------------------------------------
(* The steps of an operation, from r to s.                                  *)

Send(r, s) == r.status = "unsent" /\ s = [r EXCEPT !.status = "sent"]
Handle(r, s) == r.status = "sent" /\ r.handled = 0 /\ s = [r EXCEPT !.handled = 1]
Reply(r, s) == r.status = "sent" /\ r.handled = 1 /\ s = [r EXCEPT !.status = "replied"]
Refuse(r, s) == r.status = "sent" /\ r.handled = 0 /\ s = [r EXCEPT !.status = "refused"]
Take(r, s) ==
    /\ r.status \in {"replied", "refused"}
    /\ r.taken = 0
    /\ s = [status |-> "over", handled |-> r.handled, taken |-> 1]

\* An operation that nobody waits for ends when it was handled or refused; the
\* end of its service or of its sender ends any.
End(r, s) == r.status # "over" /\ s = [r EXCEPT !.status = "over"]

Step(r, s) == Send(r, s) \/ Handle(r, s) \/ Reply(r, s) \/ Refuse(r, s)
                  \/ Take(r, s) \/ End(r, s)

Next ==
    \E S \in SUBSET Sendable :
        /\ \A o \in S : Step(operation[o], operation'[o])
        /\ \A o \in Sendable \ S : operation'[o] = operation[o]

Spec == Init /\ [][Next]_operation
==============================================================================
