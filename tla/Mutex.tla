------------------------------- MODULE Mutex -------------------------------
(***************************************************************************)
(* What a critical section promises the title: a lock that one thread at a *)
(* time holds, as many times over as it took it.                           *)
(***************************************************************************)
EXTENDS Slots

VARIABLE held       (* How often each thread holds the lock.                *)

Init == held = [t \in Threads |-> 0]

Acquire(t) ==
  /\ \A u \in Threads \ {t} : held[u] = 0
  /\ held' = [held EXCEPT ![t] = @ + 1]

Release(t) ==
  /\ held[t] > 0
  /\ held' = [held EXCEPT ![t] = @ - 1]

(* The last release of t and the acquisition of a thread that waited.      *)
HandOver(t, u) ==
  /\ t # u /\ held[t] = 1 /\ held[u] = 0
  /\ held' = [held EXCEPT ![t] = 0, ![u] = 1]

Next ==
  \E t \in Threads :
    \/ Acquire(t)
    \/ Release(t)
    \/ \E u \in Threads : HandOver(t, u)

Spec == Init /\ [][Next]_held
=============================================================================
