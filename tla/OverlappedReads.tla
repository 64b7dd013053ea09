--------------------------- MODULE OverlappedReads ---------------------------
(***************************************************************************)
(* What overlapped reads and queued APCs promise the title: a read         *)
(* completes once, and the thread that asked for it is called back once    *)
(* for it, unless it has ended; its call-backs and its other APCs come in  *)
(* the order in which they were queued.                                    *)
(***************************************************************************)
EXTENDS Sequences, SequencesExt

CONSTANTS
  Requests, Kapcs, Ids,
  CalledBack              (* The requests with an APC routine.             *)

VARIABLES
  io,       (* "pending" or "done".                                         *)
  asker,    (* The thread a pending request is for.                        *)
  alive,    (* The threads there are.                                      *)
  owed      (* The call-backs each thread has yet to be given, in order.   *)

promised == << io, asker, alive, owed >>

Owed(r) == \E i \in Ids : Contains(owed[i], r)

Init == /\ io = [r \in Requests |-> "done"]
        /\ asker = [r \in Requests |-> "nobody"]
        /\ alive \subseteq Ids
        /\ owed = [i \in Ids |-> << >>]

Issue(r, i) ==
  /\ io[r] # "pending" /\ ~Owed(r) /\ i \in alive
  /\ io' = [io EXCEPT ![r] = "pending"]
  /\ asker' = [asker EXCEPT ![r] = i]
  /\ UNCHANGED << alive, owed >>

(* The thread is owed a call-back, or gets it at once when it waits for    *)
(* just that, with nothing owed before.                                    *)
CallBack(r, i) ==
  IF r \notin CalledBack \/ i \notin alive THEN owed' = owed
  ELSE \/ owed' = [owed EXCEPT ![i] = Append(@, r)]
       \/ owed[i] = << >> /\ owed' = owed

Complete(r) ==
  /\ io[r] = "pending"
  /\ io' = [io EXCEPT ![r] = "done"]
  /\ asker' = [asker EXCEPT ![r] = "nobody"]
  /\ CallBack(r, asker[r])
  /\ UNCHANGED alive

(* A read done in the call.                                                *)
ReadInPlace(r, i) ==
  /\ io[r] # "pending" /\ ~Owed(r) /\ i \in alive
  /\ io' = [io EXCEPT ![r] = "done"]
  /\ CallBack(r, i)
  /\ UNCHANGED << asker, alive >>

Insert(a, i) ==
  /\ ~Owed(a)
  /\ \/ owed' = [owed EXCEPT ![i] = Append(@, a)]
     \/ owed[i] = << >> /\ owed' = owed
  /\ UNCHANGED << io, asker, alive >>

Call(i) ==
  /\ owed[i] # << >>
  /\ owed' = [owed EXCEPT ![i] = Tail(@)]
  /\ UNCHANGED << io, asker, alive >>

Start(i) == i \notin alive /\ alive' = alive \cup {i} /\ UNCHANGED << io, asker, owed >>
End(i) == i \in alive /\ alive' = alive \ {i} /\ UNCHANGED << io, asker, owed >>
Forget(i) ==
  /\ i \notin alive
  /\ owed' = [owed EXCEPT ![i] = << >>]
  /\ UNCHANGED << io, asker, alive >>

Next == \/ \E r \in Requests, i \in Ids : Issue(r, i) \/ ReadInPlace(r, i)
        \/ \E r \in Requests : Complete(r)
        \/ \E a \in Kapcs, i \in Ids : Insert(a, i)
        \/ \E i \in Ids : Call(i) \/ Start(i) \/ End(i) \/ Forget(i)

Spec == Init /\ [][Next]_promised
=============================================================================
