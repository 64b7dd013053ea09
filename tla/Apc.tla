--------------------------------- MODULE Apc ---------------------------------
(***************************************************************************)
(* Asynchronous procedure calls (apc.c) and the state of a thread they     *)
(* are about.                                                              *)
(*                                                                         *)
(* A thread's APCs wait in a queue until the thread waits alertably.  Then *)
(* a chain of calls runs on it, and the wait returns STATUS_USER_APC.  A   *)
(* routine may wait alertably itself: a chain of its own runs then, and    *)
(* the interrupted one goes on after it.                                   *)
(***************************************************************************)
EXTENDS Slots, Sequences, SequencesExt

CONSTANTS
  Requests,           (* What the title reads with: an OVERLAPPED, or a    *)
                      (* status block.                                     *)
  Kapcs,              (* The KAPC objects of the title.                    *)
  NC_MAX_APC_NEST,    (* How many chains can be interrupted at a time.     *)
  MaxThreadId         (* Threads ever created, a bound.                    *)

ASSUME ApcAssumption ==
  /\ Requests \cap Kapcs = {}
  /\ NC_MAX_APC_NEST \in Nat
  /\ MaxThreadId \in Nat \ {0}

Apcs == Requests \cup Kapcs

(* The calls an APC consists of: the kernel routine of a KAPC, stage 1,    *)
(* and the normal routine, stage 2.                                        *)
Calls == [apc : Kapcs, stage : {1}] \cup [apc : Apcs, stage : {2}]
Title == [apc |-> "none", stage |-> 0]

(* Where code of a thread is: how many routines deep its stack is, and the *)
(* routine at the top, Title in none.                                      *)
Places == [depth : 0..(NC_MAX_APC_NEST + 1), call : Calls \cup {Title}]
InTitle == [depth |-> 0, call |-> Title]

(* What EAX holds that matters here: what a read returned.                 *)
Statuses == {"none", "pending", "done"}

(* A chain, in the call it has got to, and where its wait returns.         *)
Chains == [call : Calls, ret : Places]
Contexts == [place : Places, eax : Statuses]

(* The title's thread that starts or is made again in a freed slot.        *)
NewThread(id) ==
  [state |-> "ready", id |-> id, queue |-> << >>, chains |-> << >>,
   wait |-> "nothing", ctx |-> [place |-> InTitle, eax |-> "none"]]

(* No thread in a slot.                                                    *)
Free == [NewThread(0) EXCEPT !.state = "free"]

-----------------------------------------------------------------------------
(***************************************************************************)
(* A chain and the chains it interrupted are one sequence, the running one *)
(* last: in_apc when it is not empty, apc_nest the length but one.         *)
(***************************************************************************)

(* APCs wait that a wait of the thread would run: a chain can start.       *)
NcApcPending(t) == t.queue # << >> /\ Len(t.chains) <= NC_MAX_APC_NEST

(* A fault: the APC queued last comes first.                               *)
NextCallLast(t, last, cleared) ==
  IF last.stage = 1 /\ ~cleared THEN [call |-> [last EXCEPT !.stage = 2], queue |-> t.queue]
  ELSE IF t.queue = << >> THEN [call |-> Title, queue |-> << >>]
  ELSE [call |-> [apc |-> Last(t.queue), stage |-> IF Last(t.queue) \in Kapcs THEN 1 ELSE 2],
        queue |-> Front(t.queue)]

(* The call after `last`: the normal routine of a KAPC after its kernel    *)
(* routine, unless that one has cleared it; else the first call of the     *)
(* next APC, which leaves the queue; else none.                            *)
NextCall(t, last, cleared) ==
  IF last.stage = 1 /\ ~cleared THEN [call |-> [last EXCEPT !.stage = 2], queue |-> t.queue]
  ELSE IF t.queue = << >> THEN [call |-> Title, queue |-> << >>]
  ELSE [call |-> [apc |-> Head(t.queue), stage |-> IF Head(t.queue) \in Kapcs THEN 1 ELSE 2],
        queue |-> Tail(t.queue)]

(* The place of the routine a thread's last chain has got to.              *)
Routine(t) == [depth |-> Last(t.chains).ret.depth + 1, call |-> Last(t.chains).call]

(* A chain starts on a thread for a wait that returns to ret.              *)
BeginChain(t, ret) ==
  LET next == NextCall(t, Title, FALSE)
  IN [t EXCEPT !.queue = next.queue, !.chains = Append(@, [call |-> next.call, ret |-> ret])]

(* A routine returns to the stub: the chain's next call, or the chain ends *)
(* and its wait returns.                                                   *)
NcApcReturn(t, cleared) ==
  LET chain == Last(t.chains)
      next == NextCall(t, chain.call, cleared)
  IN IF next.call = Title
       THEN [thread |-> [t EXCEPT !.chains = Front(@)], call |-> Title,
             ctx |-> [place |-> chain.ret, eax |-> "none"]]
     ELSE LET on == [t EXCEPT !.queue = next.queue, !.chains[Len(t.chains)].call = next.call]
          IN [thread |-> on, call |-> next.call, ctx |-> [place |-> Routine(on), eax |-> "none"]]
=============================================================================
