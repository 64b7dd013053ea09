---------------------------- MODULE MCDispatcher ----------------------------
(***************************************************************************)
(* An instance of Dispatcher for TLC: an event, a semaphore, a mutant and  *)
(* a timer, and the kinds of waits titles make on them.                    *)
(***************************************************************************)
EXTENDS Dispatcher, TLC

CONSTANTS event, semaphore, mutant, timer

KindOf == event :> "synchronization_event" @@ semaphore :> "semaphore"
          @@ mutant :> "mutant" @@ timer :> "notification_timer"
LimitOf == semaphore :> 2

WaitFor(objects, all, timeout) == [objects |-> objects, all |-> all, timeout |-> timeout]
TitleWaits ==
  {WaitFor(<< mutant >>, FALSE, "some"),
   WaitFor(<< semaphore, mutant >>, TRUE, "none"),
   WaitFor(<< timer, mutant >>, FALSE, "some"),
   WaitFor(<< event, mutant >>, FALSE, "none"),
   WaitFor(<< 1 >>, FALSE, "zero"),
   WaitFor(<< >>, FALSE, "some")}
=============================================================================
