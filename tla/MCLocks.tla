------------------------------- MODULE MCLocks -------------------------------
(***************************************************************************)
(* The guest's two locks, for TLC: behaviours of a CriticalSection, and    *)
(* behaviours of a ReadWriteLock with one thread more, so that two readers *)
(* and two writers can wait at once.  Neither makes a call of the other,   *)
(* so a behaviour is of one of them.                                       *)
(***************************************************************************)
EXTENDS CriticalSection

CONSTANT RwThreads

VARIABLES rwLockCount, writersWaiting, readersWaiting, readersEntry,
          writerEvent, readerSemaphore, state, ofRw

rwVars == << rwLockCount, writersWaiting, readersWaiting, readersEntry,
             writerEvent, readerSemaphore, state >>

Rw == INSTANCE ReadWriteLock WITH Threads <- RwThreads, lockCount <- rwLockCount

LocksInit == Init /\ Rw!LockInit /\ ofRw \in BOOLEAN
LocksNext ==
  \/ ~ofRw /\ Next /\ UNCHANGED << rwVars, ofRw >>
  \/ ofRw /\ Rw!LockNext /\ UNCHANGED << vars, ofRw >>
LocksSpec ==
  /\ LocksInit /\ [][LocksNext]_<< vars, rwVars, ofRw >>
  /\ Fairness /\ Rw!Fairness

(* Of the ReadWriteLock, as it states them.                                *)
CountsExact == Rw!CountsExact
ImplementsSharedLock == Rw!ImplementsSharedLock
ReadersBehindWriters == Rw!ReadersBehindWriters
WaitersGetIn == Rw!WaitersGetIn
=============================================================================
