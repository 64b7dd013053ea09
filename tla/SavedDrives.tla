---------------------------- MODULE SavedDrives ----------------------------
(***************************************************************************)
(* What the savestates promise about a title's cache drive                 *)
(* (native/state/cache.c): a state is the drive as it was when the state   *)
(* was saved, at once and whole, however many steps the save took and      *)
(* whatever stopped it, and a title that runs on from a state runs on the  *)
(* drive the state says, whatever was written since.  A load that is cut   *)
(* short leaves each file as it was or as the state has it.                *)
(*                                                                         *)
(* The host may hide files, or not let them be removed: those and no       *)
(* others are missing in a state, or are left by a load whose state does   *)
(* not have them.                                                          *)
(***************************************************************************)
CONSTANTS
  Files,      \* the files a drive may have
  Contents,   \* what a file may hold
  Slots,      \* the places for a state
  None        \* no such file

VARIABLES
  drive,      \* what each file holds, None: there is none
  saved,      \* the slots that hold a state
  snapshot,   \* the drive each of them was saved with
  loading,    \* the slots being loaded: one or none
  running,    \* whether the title runs
  missed      \* given: the files the host has hidden, or not removed

vars == << drive, saved, snapshot, loading, running >>

Drives == [Files -> Contents \cup {None}]
Nothing == [f \in Files |-> None]

Init ==
  /\ drive \in Drives
  /\ saved = {} /\ snapshot = [s \in Slots |-> Nothing]
  /\ loading = {} /\ running = TRUE

TitleWrites(f, c) ==
  /\ running
  /\ drive' = [drive EXCEPT ![f] = c]
  /\ UNCHANGED << saved, snapshot, loading, running >>

Save(s) ==
  /\ running
  /\ saved' = saved \cup {s}
  /\ snapshot' = [snapshot EXCEPT ![s] = [f \in Files |-> IF f \in missed THEN None ELSE drive[f]]]
  /\ UNCHANGED << drive, loading, running >>

Delete(s) ==
  /\ loading = {}
  /\ saved' = saved \ {s}
  /\ snapshot' = [snapshot EXCEPT ![s] = Nothing]
  /\ UNCHANGED << drive, loading, running >>

Boot ==
  /\ ~running /\ loading = {}
  /\ running' = TRUE
  /\ UNCHANGED << drive, saved, snapshot, loading >>

BeginLoad(s) ==
  /\ ~running /\ loading = {} /\ s \in saved
  /\ loading' = {s}
  /\ UNCHANGED << drive, saved, snapshot, running >>

RestoreFile(s, f) ==
  /\ loading = {s}
  /\ drive' = [drive EXCEPT ![f] = snapshot[s][f]]
  /\ UNCHANGED << saved, snapshot, loading, running >>

Loaded(s) ==
  /\ loading = {s}
  /\ \A f \in Files : drive[f] = snapshot[s][f] \/ (f \in missed /\ snapshot[s][f] = None)
  /\ loading' = {} /\ running' = TRUE
  /\ UNCHANGED << drive, saved, snapshot >>

(* The title stops, or the load of a state does.                           *)
Stop ==
  /\ loading' = {} /\ running' = FALSE
  /\ UNCHANGED << drive, saved, snapshot >>

Next ==
  \/ \E f \in Files, c \in Contents \cup {None} : TitleWrites(f, c)
  \/ \E s \in Slots : Save(s) \/ Delete(s) \/ BeginLoad(s) \/ Loaded(s)
  \/ \E s \in Slots, f \in Files : RestoreFile(s, f)
  \/ Boot \/ Stop

Spec == Init /\ [][Next]_vars
=============================================================================
