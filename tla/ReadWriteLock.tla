--------------------------- MODULE ReadWriteLock ---------------------------
(***************************************************************************)
(* One ERWLOCK of the guest (ke.c).  Every operation is a kernel call, and *)
(* the guest's one CPU runs a call whole; between calls the CPU may be     *)
(* given to any thread that is not waiting, so the next call is any such   *)
(* thread's.                                                               *)
(***************************************************************************)
EXTENDS Slots

VARIABLES
  lockCount,        (* LockCount, -1 when free.                            *)
  writersWaiting,   (* WritersWaitingCount.                                *)
  readersWaiting,   (* ReadersWaitingCount.                                *)
  readersEntry,     (* ReadersEntryCount.                                  *)
  writerEvent,      (* SignalState of the WriterEvent.                     *)
  readerSemaphore,  (* SignalState of the ReaderSemaphore.                 *)
  state             (* What each thread has to do with the lock.           *)

counts == << lockCount, writersWaiting, readersWaiting, readersEntry >>
vars == << counts, writerEvent, readerSemaphore, state >>

States == {"out", "shared", "exclusive", "waits_shared", "waits_exclusive"}

In(s) == {t \in Threads : state[t] = s}

(* ExInitializeReadWriteLock has run.                                      *)
LockInit ==
  /\ lockCount = -1
  /\ writersWaiting = 0
  /\ readersWaiting = 0
  /\ readersEntry = 0
  /\ writerEvent = 0
  /\ readerSemaphore = 0
  /\ state = [t \in Threads |-> "out"]

-----------------------------------------------------------------------------
(* A wait for the event or for the semaphore: one that is signaled is      *)
(* taken on the spot.                                                      *)
WaitForWriterEvent(t) ==
  \/ /\ writerEvent = 1
     /\ writerEvent' = 0
     /\ state' = [state EXCEPT ![t] = "exclusive"]
  \/ /\ writerEvent = 0
     /\ state' = [state EXCEPT ![t] = "waits_exclusive"]
     /\ UNCHANGED writerEvent

WaitForReaderSemaphore(t) ==
  \/ /\ readerSemaphore > 0
     /\ readerSemaphore' = readerSemaphore - 1
     /\ state' = [state EXCEPT ![t] = "shared"]
  \/ /\ readerSemaphore <= 0
     /\ state' = [state EXCEPT ![t] = "waits_shared"]
     /\ UNCHANGED readerSemaphore

(* The threads a walk of the table wakes for a semaphore of n: one for     *)
(* each count, from the first slot on.                                     *)
FirstSlots(S, n) == {t \in S : Cardinality({u \in S : u < t}) < n}

(* A fault: nobody looks for a waiting writer.                             *)
SetWriterEventNoWalk(t) == writerEvent' = 1 /\ state' = [state EXCEPT ![t] = "out"]

(* t is out; the event wakes one writer, or stays signaled.                *)
SetWriterEvent(t) ==
  LET out == [state EXCEPT ![t] = "out"]
      waiters == In("waits_exclusive")
  IN IF waiters = {}
       THEN writerEvent' = 1 /\ state' = out
       ELSE writerEvent' = 0 /\ state' = [out EXCEPT ![FirstSlot(waiters)] = "exclusive"]

(* t is out; the semaphore, released by n, wakes that many readers.        *)
ReleaseReaderSemaphore(t, n) ==
  LET woken == FirstSlots(In("waits_shared"), readerSemaphore + n)
  IN /\ readerSemaphore' = readerSemaphore + n - Cardinality(woken)
     /\ state' = [u \in Threads |-> IF u = t THEN "out"
                                    ELSE IF u \in woken THEN "shared" ELSE state[u]]

-----------------------------------------------------------------------------
(* A thread asks for the lock once at a time and leaves what it got.       *)

ExAcquireReadWriteLockExclusive(t) ==
  /\ state[t] = "out"
  /\ lockCount' = lockCount + 1
  /\ \/ /\ lockCount + 1 = 0
        /\ state' = [state EXCEPT ![t] = "exclusive"]
        /\ UNCHANGED << writersWaiting, writerEvent >>
     \/ /\ lockCount + 1 # 0
        /\ writersWaiting' = writersWaiting + 1
        /\ WaitForWriterEvent(t)
  /\ UNCHANGED << readersWaiting, readersEntry, readerSemaphore >>

(* Faults: a reader looks only for writers waiting, or only for one inside. *)
MustWaitForWaiting == lockCount >= 0 /\ writersWaiting # 0
MustWaitForInside == lockCount >= 0 /\ readersEntry = 0

MustWait == lockCount >= 0 /\ (readersEntry = 0 \/ writersWaiting # 0)

ExAcquireReadWriteLockShared(t) ==
  /\ state[t] = "out"
  /\ lockCount' = lockCount + 1
  /\ \/ /\ MustWait
        /\ readersWaiting' = readersWaiting + 1
        /\ WaitForReaderSemaphore(t)
        /\ UNCHANGED readersEntry
     \/ /\ ~MustWait
        /\ readersEntry' = readersEntry + 1
        /\ state' = [state EXCEPT ![t] = "shared"]
        /\ UNCHANGED << readersWaiting, readerSemaphore >>
  /\ UNCHANGED << writersWaiting, writerEvent >>

(* A fault: the last reader stays counted.                                 *)
ReleaseFreeNoReset(t) ==
  /\ lockCount - 1 = -1
  /\ state' = [state EXCEPT ![t] = "out"]
  /\ UNCHANGED << writersWaiting, readersWaiting, readersEntry, writerEvent, readerSemaphore >>

(* The last holder out, with nobody waiting.                               *)
ReleaseFree(t) ==
  /\ lockCount - 1 = -1
  /\ readersEntry' = 0
  /\ state' = [state EXCEPT ![t] = "out"]
  /\ UNCHANGED << writersWaiting, readersWaiting, writerEvent, readerSemaphore >>

(* A writer leaves and readers wait: all of them enter.                    *)
ReleaseToReaders(t) ==
  /\ lockCount - 1 # -1 /\ readersEntry = 0 /\ readersWaiting # 0
  /\ readersWaiting' = 0
  /\ readersEntry' = readersWaiting
  /\ ReleaseReaderSemaphore(t, readersWaiting)
  /\ UNCHANGED << writersWaiting, writerEvent >>

(* A reader leaves, others are inside.                                     *)
ReleaseShared(t) ==
  /\ lockCount - 1 # -1 /\ readersEntry \notin {0, 1}
  /\ readersEntry' = readersEntry - 1
  /\ state' = [state EXCEPT ![t] = "out"]
  /\ UNCHANGED << writersWaiting, readersWaiting, writerEvent, readerSemaphore >>

(* A writer leaves and no reader waits, or the last reader leaves.         *)
ReleaseToWriter(t) ==
  /\ lockCount - 1 # -1
  /\ \/ readersEntry = 0 /\ readersWaiting = 0
     \/ readersEntry = 1
  /\ readersEntry' = 0
  /\ writersWaiting' = writersWaiting - 1
  /\ SetWriterEvent(t)
  /\ UNCHANGED << readersWaiting, readerSemaphore >>

ExReleaseReadWriteLock(t) ==
  /\ state[t] \in {"shared", "exclusive"}
  /\ lockCount' = lockCount - 1
  /\ \/ ReleaseFree(t) \/ ReleaseToReaders(t) \/ ReleaseShared(t) \/ ReleaseToWriter(t)

LockNext ==
  \E t \in Threads :
    \/ ExAcquireReadWriteLockExclusive(t)
    \/ ExAcquireReadWriteLockShared(t)
    \/ ExReleaseReadWriteLock(t)

LockSpec == LockInit /\ [][LockNext]_vars

(* A thread that got the lock leaves it again.                             *)
Fairness == \A t \in Threads : WF_vars(ExReleaseReadWriteLock(t))
FairSpec == LockSpec /\ Fairness

-----------------------------------------------------------------------------
(* No count runs below zero or past the threads there are.                 *)
LockTypeOK ==
  /\ lockCount \in -1 .. Cardinality(Threads) - 1
  /\ writersWaiting \in 0 .. Cardinality(Threads)
  /\ readersWaiting \in 0 .. Cardinality(Threads)
  /\ readersEntry \in 0 .. Cardinality(Threads)
  /\ writerEvent \in {0, 1}
  /\ readerSemaphore \in 0 .. Cardinality(Threads)
  /\ state \in [Threads -> States]

(* The four counts of the lock, each the next caller's only evidence, tell *)
(* how many threads are where; and a signal is sent only to threads that   *)
(* wait for it: none is left for a later caller, which would walk in past  *)
(* the holder (ke.c ExReleaseReadWriteLock).                               *)
CountsExact ==
  /\ lockCount = Cardinality(Threads \ In("out")) - 1
  /\ readersEntry = Cardinality(In("shared"))
  /\ readersWaiting = Cardinality(In("waits_shared"))
  /\ writersWaiting = Cardinality(In("waits_exclusive"))
  /\ writerEvent = 0 /\ readerSemaphore = 0

(* Waiting is holding nothing: the lock refines readers/writer exclusion.  *)
Holds == [t \in Threads |-> IF state[t] \in {"shared", "exclusive"} THEN state[t] ELSE "none"]
Abstract == INSTANCE SharedLock WITH holds <- Holds
ImplementsSharedLock == Abstract!Spec

(* While writers wait, a reader gets in only with every reader that waits, *)
(* when a writer leaves.                                                   *)
ReadersBehindWriters ==
  [][In("waits_exclusive") # {} /\ In("shared")' \ In("shared") # {} =>
       /\ In("exclusive") # {}
       /\ In("waits_shared")' = {}]_vars

(* A reader that waits gets in, whatever other threads do; and of the      *)
(* writers that wait, one does (ke.c ExReleaseReadWriteLock).              *)
WaitersGetIn ==
  /\ \A t \in Threads : []<>(state[t] # "waits_shared")
  /\ \A S \in SUBSET Threads \ {{}} : []<>(In("waits_exclusive") # S)
=============================================================================
