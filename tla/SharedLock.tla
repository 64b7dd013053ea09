----------------------------- MODULE SharedLock -----------------------------
(***************************************************************************)
(* What a read/write lock promises the title: readers together or one      *)
(* writer alone.                                                           *)
(***************************************************************************)
EXTENDS Slots

VARIABLE holds      (* How each thread holds the lock.                      *)

Modes == {"none", "shared", "exclusive"}

Readers == {t \in Threads : holds[t] = "shared"}
Writers == {t \in Threads : holds[t] = "exclusive"}

Init == holds = [t \in Threads |-> "none"]

(* A thread that holds nothing gets in.                                    *)
GetShared(t) ==
  /\ holds[t] = "none" /\ Writers = {}
  /\ holds' = [holds EXCEPT ![t] = "shared"]

GetExclusive(t) ==
  /\ holds[t] = "none" /\ Writers \cup Readers = {}
  /\ holds' = [holds EXCEPT ![t] = "exclusive"]

(* A thread leaves.  The last one out may hand the lock on, to one writer  *)
(* or to any number of readers.                                            *)
LeaveTo(t, next, mode) ==
  /\ holds[t] # "none"
  /\ next # {} => Writers \cup Readers = {t}
  /\ mode = "exclusive" => \A m, n \in next : m = n
  /\ \A n \in next : holds[n] = "none"
  /\ holds' = [u \in Threads |->
                 IF u = t THEN "none" ELSE IF u \in next THEN mode ELSE holds[u]]

Next ==
  \E t \in Threads :
    \/ GetShared(t)
    \/ GetExclusive(t)
    \/ \E next \in SUBSET (Threads \ {t}), mode \in {"shared", "exclusive"} :
         LeaveTo(t, next, mode)

Spec == Init /\ [][Next]_holds
=============================================================================
