---------------------------- MODULE InstanceStore ----------------------------
(***************************************************************************)
(* What the repository promises of the instances of a class: a store of    *)
(* named instances in which every createInstance, modifyInstance and       *)
(* deleteInstance (FileBasedStore.cpp) takes effect as a whole or not at   *)
(* all, whatever fails and whenever the server stops.  InstanceFiles       *)
(* implements it with an index file and a data file.                       *)
(***************************************************************************)
CONSTANTS Names,    \* instance names
          Values,   \* instances
          Absent    \* what the store holds of a name without an instance

VARIABLE store

Init == store = [n \in Names |-> Absent]

Create(n, v) == store[n] = Absent /\ store' = [store EXCEPT ![n] = v]
Modify(n, v) == store[n] # Absent /\ store' = [store EXCEPT ![n] = v]
Delete(n) == store[n] # Absent /\ store' = [store EXCEPT ![n] = Absent]

Next == \E n \in Names :
            \/ \E v \in Values : Create(n, v) \/ Modify(n, v)
            \/ Delete(n)

Spec == Init /\ [][Next]_store
==============================================================================
