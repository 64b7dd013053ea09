----------------------- MODULE CriticalSectionProofs -----------------------
(***************************************************************************)
(* Proofs about CriticalSection, for any number of threads, any depth,     *)
(* both ways to call and interrupts at every block start.  The section is  *)
(* a lock until a contended enter takes back its step and finds that the   *)
(* section has become free (lapsed); with kernel calls alone that cannot   *)
(* happen.                                                                 *)
(***************************************************************************)
EXTENDS CriticalSection, FiniteSetTheorems, WellFoundedInduction, TLAPS

-----------------------------------------------------------------------------
(***************************************************************************)
(* Facts about sets of thread slots.                                       *)
(***************************************************************************)

(* A walk of the table finds the first thread of a set that has one.       *)
LEMMA FirstSlotInSet ==
  ASSUME NEW S \in SUBSET Threads, S # {}
  PROVE  /\ FirstSlot(S) \in S
         /\ \A u \in S : FirstSlot(S) <= u
<1>1. S \subseteq Nat
  BY ThreadsAssumption
<1>2. \E t \in S : \A u \in S : ~ (<< u, t >> \in OpToRel(<, Nat))
  BY <1>1, NatLessThanWellFounded, WFMin
<1>3. PICK t \in S : \A u \in S : ~ (<< u, t >> \in OpToRel(<, Nat))
  BY <1>2
<1>4. \A u \in S : ~ (u < t)
  BY <1>1, <1>3 DEF OpToRel
<1>5. \A u \in S : t <= u
  BY <1>1, <1>4
<1>. QED
  BY <1>5 DEF FirstSlot

(* A set of slots is finite, and empty when it counts none.                *)
LEMMA SlotsFinite ==
  ASSUME NEW S \in SUBSET Threads
  PROVE  /\ IsFiniteSet(S)
         /\ Cardinality(S) \in Nat
         /\ Cardinality(S) = 0 <=> S = {}
<1>1. IsFiniteSet(S)
  BY ThreadsAssumption, FS_Subset
<1>. QED
  BY <1>1, FS_CardinalityType, FS_EmptySet

(* One slot more.                                                          *)
LEMMA SlotAdded ==
  ASSUME NEW S \in SUBSET Threads, NEW t \in Threads \ S
  PROVE  Cardinality(S \cup {t}) = Cardinality(S) + 1
  BY SlotsFinite, FS_AddElement

(* One slot less.                                                          *)
LEMMA SlotRemoved ==
  ASSUME NEW S \in SUBSET Threads, NEW t \in S
  PROVE  Cardinality(S \ {t}) = Cardinality(S) - 1
  BY SlotsFinite, FS_RemoveElement

-----------------------------------------------------------------------------
(***************************************************************************)
(* The inductive invariant.                                                *)
(***************************************************************************)

(* t has stepped LockCount for a section it will not get at once.          *)
Pending(t) ==
  \/ pc[t] = "enter_other"
  \/ pc[t] = "enter_held" /\ owner # t

(* The threads that LockCount counts beside the one that has the section.  *)
Counted == {t \in Threads : pc[t] = "waiting" \/ Pending(t)}

Others == Cardinality(Counted)

(* The section is t's: from the step that took it to the one that gives it *)
(* up, which are a block before the first and a block or two after the     *)
(* last moment t is inside.                                                *)
Has(t) ==
  \/ depth[t] > 0
  \/ pc[t] \in {"enter_own", "enter_again"}
  \/ pc[t] \in {"leave_owned", "leave_free", "leave_waiters"}

(* The fields of the section while t has it.                               *)
FieldsOf(t) ==
  \/ /\ pc[t] = "run"
     /\ owner = t /\ recursion = depth[t]
     /\ lockCount = depth[t] - 1 + Others
  \/ /\ pc[t] \in {"enter_held", "enter_again", "leave_owned"}
     /\ owner = t /\ recursion = depth[t] /\ depth[t] > 0
     /\ lockCount = depth[t] + Others
  \/ /\ pc[t] = "enter_own"
     /\ owner = NoThread /\ recursion = 0 /\ depth[t] = 0
     /\ lockCount = Others
  \/ /\ pc[t] = "leave_free"
     /\ owner = t /\ recursion = 0 /\ depth[t] = 0
     /\ lockCount = Others
  \/ /\ pc[t] = "leave_waiters"
     /\ owner = NoThread /\ recursion = 0 /\ depth[t] = 0
     /\ lockCount = Others - 1 /\ Others # 0

(* Nobody has it: the event is signaled just when a contended enter that   *)
(* was counted is yet to come for it.                                      *)
Free ==
  /\ owner = NoThread /\ recursion = 0 /\ lockCount = Others - 1
  /\ Waiting = {}
  /\ event = (IF Others = 0 THEN 0 ELSE 1)

Good ==
  /\ \A t, u \in Threads : Has(t) /\ Has(u) => t = u
  /\ \A t \in Threads : Has(t) => FieldsOf(t) /\ event = 0
  /\ (\A t \in Threads : ~Has(t)) => Free

(* Without the fast paths nobody is ever between two blocks.               *)
CallsWhole ==
  ~fastPaths => ~lapsed /\ \A t \in Threads : pc[t] \in {"run", "waiting"}

IInv ==
  /\ TypeOK
  /\ CallsWhole
  /\ lapsed \/ Good

-----------------------------------------------------------------------------
(***************************************************************************)
(* Types, and kernel calls alone, at every step.                           *)
(***************************************************************************)

(* An enter keeps the types.                                               *)
LEMMA EnterTypes ==
  ASSUME TypeOK, NEW t \in Threads, Run(t), Enter(t)
  PROVE  TypeOK'
<1>1. lapsed' \in BOOLEAN /\ current' \in Threads /\ fastPaths' \in BOOLEAN
  BY DEF Run, Lapses, TypeOK
<1>. USE DEF Enters, Own, Goto, MayEnter, Blocks
<1>2. CASE CallEnter(t) \/ EnterOwn(t) \/ EnterHeld(t) \/ EnterAgain(t)
  BY <1>1, <1>2 DEF CallEnter, EnterOwn, EnterHeld, EnterAgain, TypeOK
<1>3. CASE RtlTryEnterCriticalSection(t)
  BY <1>1, <1>3 DEF RtlTryEnterCriticalSection, TypeOK
<1>4. ASSUME NEW lc \in Int, KernelEnter(t, lc)
      PROVE  TypeOK'
  BY <1>1, <1>4 DEF KernelEnter, WaitForEvent, TypeOK
<1>5. lockCount \in Int /\ lockCount - 1 \in Int
  BY DEF TypeOK
<1>. QED
  BY <1>2, <1>3, <1>4, <1>5 DEF Enter, RtlEnterCriticalSection, EnterOther

(* A leave in the kernel keeps them.                                       *)
LEMMA KernelLeaveTypes ==
  ASSUME TypeOK, NEW t \in Threads, t = current, NEW lc \in Int, NEW rec \in Int,
         NEW left \in [Threads -> Nat], KernelLeave(t, lc, rec, left),
         lapsed' \in BOOLEAN, UNCHANGED << current, fastPaths >>
  PROVE  TypeOK'
<1>1. CASE SetEvent(left) /\ Waiting # {}
  <2>1. FirstSlot(Waiting) \in Threads
    BY <1>1, FirstSlotInSet DEF Waiting
  <2>. QED
    BY <1>1, <2>1 DEF KernelLeave, SetEvent, TypeOK
<1>2. CASE SetEvent(left) /\ Waiting = {}
  BY <1>2 DEF KernelLeave, SetEvent, Goto, TypeOK
<1>3. CASE ~SetEvent(left)
  BY <1>3 DEF KernelLeave, Goto, TypeOK
<1>. QED
  BY <1>1, <1>2, <1>3

(* A leave keeps them.                                                     *)
LEMMA LeaveTypes ==
  ASSUME TypeOK, NEW t \in Threads, Run(t), Leave(t)
  PROVE  TypeOK'
<1>1. lapsed' \in BOOLEAN /\ UNCHANGED << current, fastPaths >> /\ t = current
  BY DEF Run, Lapses, TypeOK
<1>2. lockCount \in Int /\ recursion \in Int /\ depth \in [Threads -> Nat]
  BY DEF TypeOK
<1>3. MayLeave(t) => Left(t) \in [Threads -> Nat]
  BY <1>2 DEF MayLeave, Left
<1>4. CASE RtlLeaveCriticalSection(t)
  BY <1>1, <1>2, <1>3, <1>4, KernelLeaveTypes DEF RtlLeaveCriticalSection
<1>5. CASE LeaveWaiters(t)
  <2>1. lockCount + 1 \in Int
    BY <1>2
  <2>. QED
    BY <1>1, <1>2, <1>5, <2>1, KernelLeaveTypes DEF LeaveWaiters
<1>6. CASE CallLeave(t) \/ LeaveOwned(t) \/ LeaveFree(t)
  BY <1>1, <1>3, <1>6 DEF CallLeave, LeaveOwned, LeaveFree, Goto, Blocks, TypeOK
<1>. QED
  BY <1>4, <1>5, <1>6 DEF Leave

(* Every step keeps them.                                                  *)
LEMMA TypeStep ==
  ASSUME TypeOK, [Next]_vars
  PROVE  TypeOK'
<1>1. CASE UNCHANGED vars
  BY <1>1 DEF vars, TypeOK
<1>2. ASSUME NEW t \in Threads, Run(t)
      PROVE  TypeOK'
  BY <1>2, EnterTypes, LeaveTypes DEF Run
<1>3. ASSUME NEW t \in Threads, Switch(t)
      PROVE  TypeOK'
  BY <1>3 DEF Switch, TypeOK
<1>. QED
  BY <1>1, <1>2, <1>3 DEF Next

(* Kernel calls alone leave no thread between two blocks.                  *)
LEMMA CallsWholeStep ==
  ASSUME TypeOK, CallsWhole, [Next]_vars
  PROVE  CallsWhole'
<1>1. CASE UNCHANGED vars
  BY <1>1 DEF vars, CallsWhole
<1>2. ASSUME NEW t \in Threads, Switch(t)
      PROVE  CallsWhole'
  BY <1>2 DEF Switch, CallsWhole
<1>3. ASSUME NEW t \in Threads, Run(t), ~fastPaths
      PROVE  CallsWhole'
  <2>1. pc[t] \in {"run", "waiting"} /\ ~lapsed' /\ ~fastPaths'
    BY <1>3 DEF Run, Lapses, CallsWhole
  <2>2. \/ RtlEnterCriticalSection(t) \/ RtlTryEnterCriticalSection(t)
        \/ RtlLeaveCriticalSection(t)
    BY <1>3, <2>1 DEF Run, Enter, Leave, CallEnter, EnterOwn, EnterHeld, EnterAgain, EnterOther,
       CallLeave, LeaveOwned, LeaveFree, LeaveWaiters
  <2>3. \A u \in Threads : pc'[u] = pc[u] \/ pc'[u] \in {"run", "waiting"}
    BY <1>3, <2>2 DEF Run, RtlEnterCriticalSection, RtlTryEnterCriticalSection,
       RtlLeaveCriticalSection, KernelEnter, KernelLeave, SetEvent, WaitForEvent, Own, Enters, Goto,
       TypeOK
  <2>. QED
    BY <1>3, <2>1, <2>3 DEF CallsWhole
<1>4. ASSUME NEW t \in Threads, Run(t), fastPaths
      PROVE  CallsWhole'
  BY <1>4 DEF Run, CallsWhole
<1>. QED
  BY <1>1, <1>2, <1>3, <1>4 DEF Next

-----------------------------------------------------------------------------
(***************************************************************************)
(* What LockCount counts.                                                  *)
(***************************************************************************)

(* The numbers the invariant is about.                                     *)
LEMMA OthersType ==
  /\ Counted \in SUBSET Threads
  /\ Waiting \subseteq Counted
  /\ Others \in Nat
  /\ Others = 0 <=> Counted = {}
<1>1. Counted \in SUBSET Threads /\ Waiting \subseteq Counted
  BY DEF Counted, Waiting
<1>. QED
  BY <1>1, SlotsFinite DEF Others

(* A thread that is counted makes the number at least one.                 *)
LEMMA CountedSome ==
  ASSUME NEW t \in Counted
  PROVE  Others \in Nat \ {0}
  BY OthersType

(* A step that moves t alone counts it in or out and nobody else.          *)
LEMMA OthersMoved ==
  ASSUME NEW t \in Threads,
         \A u \in Threads \ {t} :
           pc'[u] = pc[u] /\ (owner' = u <=> owner = u)
  PROVE  /\ t \in Counted <=> t \in Counted' => Others' = Others
         /\ t \notin Counted /\ t \in Counted' => Others' = Others + 1
         /\ t \in Counted /\ t \notin Counted' => Others' = Others - 1
<1>1. Counted \in SUBSET Threads /\ Counted' \in SUBSET Threads
  BY DEF Counted
<1>2. \A u \in Threads \ {t} : u \in Counted' <=> u \in Counted
  BY DEF Counted, Pending
<1>3. CASE t \in Counted <=> t \in Counted'
  <2>1. Counted' = Counted
    BY <1>1, <1>2, <1>3
  <2>. QED
    BY <1>3, <2>1 DEF Others
<1>4. CASE t \notin Counted /\ t \in Counted'
  <2>1. Counted' = Counted \cup {t}
    BY <1>1, <1>2, <1>4
  <2>. QED
    BY <1>1, <1>4, <2>1, SlotAdded DEF Others
<1>5. CASE t \in Counted /\ t \notin Counted'
  <2>1. Counted' = Counted \ {t}
    BY <1>1, <1>2, <1>5
  <2>. QED
    BY <1>1, <1>5, <2>1, SlotRemoved DEF Others
<1>. QED
  BY <1>3, <1>4, <1>5

(***************************************************************************)
(* What the invariant says of a thread that has the section, and of one    *)
(* that has not; and what is enough for it in the next state.              *)
(***************************************************************************)

(* The thread that has the section.                                        *)
LEMMA HeldFacts ==
  ASSUME TypeOK, Good, NEW h \in Threads, Has(h)
  PROVE  /\ FieldsOf(h) /\ event = 0
         /\ h \notin Counted /\ pc[h] # "waiting"
         /\ Others \in Nat /\ lockCount >= 0
         /\ owner \in {h, NoThread}
         /\ \A u \in Threads \ {h} : ~Has(u) /\ owner # u
<1>1. FieldsOf(h) /\ event = 0
  BY DEF Good
<1>2. owner \in {h, NoThread} /\ pc[h] # "waiting" /\ h \notin Counted
  BY <1>1 DEF FieldsOf, Pending, Counted
<1>3. \A u \in Threads \ {h} : ~Has(u) /\ owner # u
  BY <1>2, ThreadsAssumption DEF Good
<1>4. Others \in Nat
  BY OthersType
<1>5. lockCount >= 0
  BY <1>1, <1>4 DEF FieldsOf, TypeOK, Has
<1>. QED
  BY <1>1, <1>2, <1>3, <1>4, <1>5

(* A thread that has not got it: it is free, or another's.                 *)
LEMMA NotHeldFacts ==
  ASSUME Good, NEW t \in Threads, ~Has(t)
  PROVE  \/ Free /\ (\A u \in Threads : ~Has(u))
         \/ \E h \in Threads \ {t} : Has(h)
  BY DEF Good

(* The invariant in a state where h has the section.                       *)
LEMMA HeldInv ==
  ASSUME NEW h \in Threads, Has(h)', FieldsOf(h)', event' = 0,
         \A u \in Threads \ {h} : ~Has(u)'
  PROVE  Good'
  BY DEF Good

(* The invariant in a state where nobody has it.                           *)
LEMMA FreeInv ==
  ASSUME Free', \A u \in Threads : ~Has(u)'
  PROVE  Good'
  BY DEF Good

(* A step that moves t alone says nothing of who else has the section.     *)
LEMMA OthersHas ==
  ASSUME TypeOK, NEW t \in Threads, NEW label, Goto(t, label),
         NEW d, depth' = [depth EXCEPT ![t] = d]
  PROVE  /\ pc'[t] = label /\ depth'[t] = d
         /\ \A u \in Threads \ {t} :
              pc'[u] = pc[u] /\ depth'[u] = depth[u] /\ (Has(u)' <=> Has(u))
  BY DEF Goto, TypeOK, Has

-----------------------------------------------------------------------------
(***************************************************************************)
(* The kinds of step of a thread t that the CPU runs.                      *)
(***************************************************************************)

(* The thread that has the section keeps it.                               *)
LEMMA KeepsInv ==
  ASSUME TypeOK, Good, NEW t \in Threads, Has(t), UNCHANGED event, owner' \in {t, NoThread},
         NEW label, label # "waiting", label # "enter_other", Goto(t, label),
         label = "enter_held" => owner' = t,
         NEW d, depth' = [depth EXCEPT ![t] = d],
         Others' = Others => Has(t)' /\ FieldsOf(t)'
  PROVE  Good'
<1>1. /\ t \notin Counted /\ event = 0
      /\ \A u \in Threads \ {t} : ~Has(u) /\ owner # u
  BY HeldFacts
<1>2. pc'[t] = label /\ \A u \in Threads \ {t} : pc'[u] = pc[u] /\ (Has(u)' <=> Has(u))
  BY OthersHas
<1>3. t \notin Counted' /\ \A u \in Threads \ {t} : owner' # u
  BY <1>2, ThreadsAssumption DEF Counted, Pending
<1>4. Others' = Others
  BY <1>1, <1>2, <1>3, OthersMoved
<1>. QED
  BY <1>1, <1>2, <1>4, HeldInv

(* It gives the section up and nobody is given it: none is counted, or the *)
(* event stays signaled for those that are.                                *)
LEMMA FreedInv ==
  ASSUME TypeOK, Good, NEW t \in Threads, Has(t), Waiting = {},
         event' = (IF Others = 0 THEN 0 ELSE 1), Goto(t, "run"),
         depth' = [depth EXCEPT ![t] = 0],
         lockCount' = Others - 1, owner' = NoThread, recursion' = 0
  PROVE  Good'
<1>1. /\ t \notin Counted
      /\ \A u \in Threads \ {t} : ~Has(u) /\ owner # u
  BY HeldFacts
<1>2. /\ pc'[t] = "run" /\ depth'[t] = 0
      /\ \A u \in Threads \ {t} : pc'[u] = pc[u] /\ (Has(u)' <=> Has(u))
  BY OthersHas
<1>3. t \notin Counted' /\ Waiting' = {}
  BY <1>2 DEF Counted, Pending, Waiting
<1>4. Others' = Others
  BY <1>1, <1>2, <1>3, OthersMoved, ThreadsAssumption
<1>5. \A u \in Threads : ~Has(u)'
  BY <1>1, <1>2 DEF Has
<1>. QED
  BY <1>3, <1>4, <1>5, FreeInv DEF Free

(* It gives the section up by setting the event that others wait for.      *)
LEMMA HandedOverInv ==
  ASSUME TypeOK, Good, NEW t \in Threads, t = current, Has(t), Waiting # {},
         SetEvent([depth EXCEPT ![t] = 0]), lockCount' = Others - 1
  PROVE  Good'
<1>1. PICK w \in Waiting : w = FirstSlot(Waiting)
  BY FirstSlotInSet DEF Waiting
<1>2. w \in Threads /\ pc[w] = "waiting" /\ w \in Counted
  BY <1>1, OthersType DEF Waiting
<1>3. /\ w # t /\ t \notin Counted /\ depth[w] = 0 /\ pc[t] # "waiting"
      /\ \A u \in Threads \ {t} : ~Has(u) /\ owner # u
  BY <1>2, HeldFacts DEF Has, TypeOK
<1>4. /\ owner' = w /\ recursion' = 1 /\ event' = 0
      /\ pc' = [pc EXCEPT ![t] = "run", ![w] = "run"]
      /\ depth' = [depth EXCEPT ![t] = 0, ![w] = 1]
  BY <1>1, <1>2, <1>3 DEF SetEvent, TypeOK
<1>5. /\ pc'[t] = "run" /\ depth'[t] = 0 /\ pc'[w] = "run" /\ depth'[w] = 1
      /\ \A u \in Threads \ {t, w} : pc'[u] = pc[u] /\ depth'[u] = depth[u]
  BY <1>2, <1>3, <1>4 DEF TypeOK
<1>6. \A u \in Threads \ {w} : ~Has(u)'
  BY <1>3, <1>5 DEF Has
<1>7. Others' = Others - 1
  <2>1. Counted' = Counted \ {w}
    BY <1>2, <1>3, <1>4, <1>5 DEF Counted, Pending
  <2>. QED
    BY <1>2, <2>1, SlotRemoved, OthersType DEF Others
<1>8. Others \in Nat
  BY OthersType
<1>9. Has(w)' /\ FieldsOf(w)'
  BY <1>4, <1>5, <1>7, <1>8 DEF Has, FieldsOf
<1>. QED
  BY <1>2, <1>4, <1>6, <1>9, HeldInv

(* A thread that has not got the section while h has: it is counted, or    *)
(* stays so.                                                               *)
LEMMA JoinsInv ==
  ASSUME TypeOK, Good, NEW t \in Threads, ~Has(t), NEW h \in Threads \ {t}, Has(h),
         UNCHANGED << recursion, owner, event, depth >>,
         NEW label \in {"enter_held", "enter_other", "waiting"}, Goto(t, label),
         NEW k \in {0, 1}, t \in Counted <=> k = 0, lockCount' = lockCount + k
  PROVE  Good'
<1>1. /\ FieldsOf(h) /\ event = 0 /\ Others \in Nat
      /\ \A u \in Threads \ {h} : ~Has(u) /\ owner # u
  BY HeldFacts
<1>2. pc'[t] = label /\ \A u \in Threads \ {t} : pc'[u] = pc[u]
  BY DEF TypeOK, Goto
<1>3. pc'[t] = label /\ \A u \in Threads \ {t} : pc'[u] = pc[u] /\ (Has(u)' <=> Has(u))
  BY <1>2 DEF Has
<1>4. t \in Counted'
  BY <1>1, <1>3 DEF Counted, Pending
<1>5. Others' = Others + k
  BY <1>1, <1>3, <1>4, OthersMoved
<1>6. \A u \in Threads \ {h} : ~Has(u)'
  BY <1>1, <1>3 DEF Has
<1>7. FieldsOf(h)'
  <2>1. lockCount \in Int /\ depth[h] \in Nat /\ pc'[h] = pc[h] /\ depth'[h] = depth[h]
    BY <1>3 DEF TypeOK
  <2>2. /\ lockCount = depth[h] - 1 + Others => lockCount' = depth[h] - 1 + Others'
        /\ lockCount = depth[h] + Others => lockCount' = depth[h] + Others'
        /\ lockCount = Others => lockCount' = Others'
        /\ lockCount = Others - 1 => lockCount' = Others' - 1
        /\ Others # 0 => Others' # 0
    BY <1>1, <1>5, <2>1
  <2>. QED
    BY <1>1, <2>1, <2>2 DEF FieldsOf
<1>8. Has(h)' /\ event' = 0
  BY <1>1, <1>3
<1>. QED
  BY <1>6, <1>7, <1>8, HeldInv

(* The same while nobody has it.                                           *)
LEMMA JoinsFreeInv ==
  ASSUME TypeOK, Free, NEW t \in Threads, \A u \in Threads : ~Has(u), Others # 0,
         UNCHANGED << recursion, owner, event, depth >>,
         NEW label \in {"enter_held", "enter_other"}, Goto(t, label),
         NEW k \in {0, 1}, t \in Counted <=> k = 0, lockCount' = lockCount + k
  PROVE  Good'
<1>1. depth' = [depth EXCEPT ![t] = depth[t]]
  BY DEF TypeOK
<1>2. pc'[t] = label /\ \A u \in Threads \ {t} : pc'[u] = pc[u] /\ (Has(u)' <=> Has(u))
  BY <1>1 DEF TypeOK, Goto, Has
<1>3. t \in Counted' /\ Waiting' = {}
  BY <1>2, ThreadsAssumption DEF Free, Counted, Pending, Waiting
<1>4. Others' = Others + k /\ Others \in Nat
  BY <1>2, <1>3, OthersMoved, OthersType
<1>5. lockCount' = Others' - 1 /\ Others' # 0
  BY <1>4 DEF Free
<1>6. Free'
  BY <1>3, <1>5 DEF Free
<1>7. depth[t] = 0
  BY DEF Has, TypeOK
<1>8. \A u \in Threads : ~Has(u)'
  BY <1>2, <1>7 DEF Has
<1>. QED
  BY <1>6, <1>8, FreeInv

(* A thread takes the section that nobody has: there is nobody else, or it *)
(* takes the event that was set for those that are counted.                *)
LEMMA TakesInv ==
  ASSUME TypeOK, Free, NEW t \in Threads, \A u \in Threads : ~Has(u),
         event' = 0, owner' \in {t, NoThread},
         NEW label \in {"run", "enter_own"}, Goto(t, label),
         NEW d, depth' = [depth EXCEPT ![t] = d],
         Others' = lockCount' => Has(t)' /\ FieldsOf(t)',
         NEW k \in {0, 1}, t \in Counted <=> k = 1, lockCount' = Others - k
  PROVE  Good'
<1>1. pc'[t] = label /\ \A u \in Threads \ {t} : pc'[u] = pc[u] /\ (Has(u)' <=> Has(u))
  BY OthersHas
<1>2. t \notin Counted' /\ \A u \in Threads \ {t} : owner' # u /\ owner # u
  BY <1>1, ThreadsAssumption DEF Counted, Pending, Free
<1>3. Others' = Others - k
  BY <1>1, <1>2, OthersMoved, OthersType
<1>4. Has(t)' /\ FieldsOf(t)'
  BY <1>3
<1>5. \A u \in Threads \ {t} : ~Has(u)'
  BY <1>1
<1>. QED
  BY <1>4, <1>5, HeldInv

-----------------------------------------------------------------------------
(***************************************************************************)
(* The blocks and calls.                                                   *)
(***************************************************************************)

(* The first entry of a fast path: the owner and the count are written.    *)
LEMMA EnterOwnInv ==
  ASSUME TypeOK, Good, NEW t \in Threads, EnterOwn(t)
  PROVE  Good'
<1>. USE DEF EnterOwn, Own, Enters
<1>1. Has(t)
  BY DEF Has
<1>2. FieldsOf(t) /\ Others \in Nat
  BY <1>1, HeldFacts
<1>3. pc'[t] = "run" /\ depth'[t] = depth[t] + 1 /\ Goto(t, "run")
      /\ depth' = [depth EXCEPT ![t] = depth[t] + 1]
  BY DEF TypeOK, Goto
<1>4. Others' = Others => Has(t)' /\ FieldsOf(t)'
  BY <1>2, <1>3 DEF FieldsOf, Has
<1>5. owner' \in {t, NoThread} /\ UNCHANGED event
  OBVIOUS
<1>. QED
  BY <1>1, <1>3, <1>4, <1>5, KeepsInv

(* An entry of the owner on the fast path.                                 *)
LEMMA EnterAgainInv ==
  ASSUME TypeOK, Good, NEW t \in Threads, EnterAgain(t)
  PROVE  Good'
<1>. USE DEF EnterAgain, Enters
<1>1. Has(t)
  BY DEF Has
<1>2. FieldsOf(t) /\ Others \in Nat /\ depth[t] \in Nat
  BY <1>1, HeldFacts DEF TypeOK
<1>3. pc'[t] = "run" /\ depth'[t] = depth[t] + 1 /\ Goto(t, "run")
      /\ depth' = [depth EXCEPT ![t] = depth[t] + 1]
  BY DEF TypeOK, Goto
<1>4. owner' \in {t, NoThread} /\ UNCHANGED event
  BY <1>2 DEF FieldsOf
<1>5. Others' = Others => Has(t)' /\ FieldsOf(t)'
  BY <1>2, <1>3 DEF FieldsOf, Has
<1>. QED
  BY <1>1, <1>3, <1>4, <1>5, KeepsInv

(* A leave of the fast path that does not give the section up.             *)
LEMMA LeaveOwnedInv ==
  ASSUME TypeOK, Good, NEW t \in Threads, LeaveOwned(t)
  PROVE  Good'
<1>. USE DEF LeaveOwned
<1>1. Has(t)
  BY DEF Has
<1>2. FieldsOf(t) /\ Others \in Nat /\ depth[t] \in Nat
  BY <1>1, HeldFacts DEF TypeOK
<1>3. pc'[t] = "run" /\ depth'[t] = depth[t] /\ Goto(t, "run")
      /\ depth' = [depth EXCEPT ![t] = depth[t]]
  BY DEF TypeOK, Goto
<1>4. owner' \in {t, NoThread} /\ UNCHANGED event
  BY <1>2 DEF FieldsOf
<1>5. Others' = Others => Has(t)' /\ FieldsOf(t)'
  BY <1>2, <1>3 DEF FieldsOf, Has
<1>. QED
  BY <1>1, <1>3, <1>4, <1>5, KeepsInv

(* The call of the leave's fast path.                                      *)
LEMMA CallLeaveInv ==
  ASSUME TypeOK, Good, NEW t \in Threads, CallLeave(t)
  PROVE  Good'
<1>. USE DEF CallLeave, MayLeave, Left
<1>1. Has(t)
  BY DEF Has
<1>2. FieldsOf(t) /\ Others \in Nat
  BY <1>1, HeldFacts
<1>3. depth[t] \in Nat \ {0} /\ recursion \in Int /\ lockCount \in Int
  BY DEF TypeOK
<1>4. owner = t /\ recursion = depth[t] /\ lockCount = depth[t] - 1 + Others
  BY <1>2 DEF FieldsOf
<1>. DEFINE label == IF depth[t] - 1 # 0 THEN "leave_owned" ELSE "leave_free"
<1>5. Goto(t, label) /\ label \in {"leave_owned", "leave_free"}
      /\ (label = "leave_owned" <=> depth[t] # 1)
  BY <1>3, <1>4
<1>. HIDE DEF label
<1>6. pc'[t] = label /\ depth'[t] = depth[t] - 1
      /\ depth' = [depth EXCEPT ![t] = depth[t] - 1]
  BY <1>3, <1>5 DEF TypeOK, Goto
<1>7. Others' = Others => Has(t)' /\ FieldsOf(t)'
  BY <1>2, <1>3, <1>4, <1>5, <1>6 DEF FieldsOf, Has
<1>8. owner' = t /\ UNCHANGED event
  BY <1>4
<1>. QED
  BY <1>1, <1>5, <1>6, <1>7, <1>8, KeepsInv

(* The last leave of the fast path.                                        *)
LEMMA LeaveFreeInv ==
  ASSUME TypeOK, Good, NEW t \in Threads, LeaveFree(t)
  PROVE  Good'
<1>. USE DEF LeaveFree
<1>1. Has(t)
  BY DEF Has
<1>2. FieldsOf(t) /\ event = 0 /\ Others \in Nat
  BY <1>1, HeldFacts
<1>3. depth[t] = 0 /\ recursion = 0 /\ lockCount = Others
  BY <1>2 DEF FieldsOf
<1>4. depth' = [depth EXCEPT ![t] = 0] /\ lockCount' = Others - 1 /\ owner' = NoThread
  BY <1>3 DEF TypeOK
<1>5. CASE Others = 0
  <2>1. Goto(t, "run") /\ Waiting = {}
    BY <1>2, <1>3, <1>5, OthersType
  <2>. QED
    BY <1>1, <1>2, <1>3, <1>4, <1>5, <2>1, FreedInv
<1>6. CASE Others # 0
  <2>1. Goto(t, "leave_waiters")
    BY <1>2, <1>3, <1>6
  <2>2. pc'[t] = "leave_waiters" /\ depth'[t] = 0
    BY <1>3, <2>1 DEF TypeOK, Goto
  <2>3. Others' = Others => Has(t)' /\ FieldsOf(t)'
    BY <1>3, <1>4, <1>6, <2>2 DEF FieldsOf, Has
  <2>. QED
    BY <1>1, <1>4, <2>1, <2>3, KeepsInv
<1>. QED
  BY <1>5, <1>6

(* The last leave that found threads counted: whoever waits is given the   *)
(* section, or the event stays signaled.                                   *)
LEMMA LeaveWaitersInv ==
  ASSUME TypeOK, Good, NEW t \in Threads, t = current, LeaveWaiters(t)
  PROVE  Good'
<1>. USE DEF LeaveWaiters
<1>1. Has(t)
  BY DEF Has
<1>2. FieldsOf(t) /\ Others \in Nat
  BY <1>1, HeldFacts
<1>3. Others # 0 /\ depth[t] = 0 /\ lockCount = Others - 1
  BY <1>2 DEF FieldsOf
<1>4. lockCount' = Others - 1 /\ SetEvent(depth)
  BY <1>2, <1>3 DEF KernelLeave
<1>5. depth = [depth EXCEPT ![t] = 0]
  BY <1>3 DEF TypeOK
<1>6. CASE Waiting # {}
  BY <1>1, <1>4, <1>5, <1>6, HandedOverInv
<1>7. CASE Waiting = {}
  <2>1. event' = 1 /\ owner' = NoThread /\ recursion' = 0 /\ depth' = [depth EXCEPT ![t] = 0]
        /\ Goto(t, "run")
    BY <1>4, <1>5, <1>7 DEF SetEvent
  <2>. QED
    BY <1>1, <1>3, <1>4, <1>7, <2>1, FreedInv
<1>. QED
  BY <1>6, <1>7

(* The call of the enter's fast path.                                      *)
LEMMA CallEnterInv ==
  ASSUME TypeOK, Good, NEW t \in Threads, CallEnter(t)
  PROVE  Good'
<1>. USE DEF CallEnter, MayEnter
<1>1. pc[t] = "run" /\ t \notin Counted /\ lockCount \in Int /\ depth[t] \in Nat
  BY DEF Counted, Pending, TypeOK
<1>2. depth' = [depth EXCEPT ![t] = depth[t]]
  BY DEF TypeOK
<1>3. CASE Has(t)
  <2>1. FieldsOf(t) /\ Others \in Nat /\ lockCount >= 0
    BY <1>3, HeldFacts
  <2>2. Goto(t, "enter_held")
    BY <1>1, <2>1
  <2>3. pc'[t] = "enter_held" /\ depth'[t] = depth[t]
    BY <2>2 DEF TypeOK, Goto
  <2>4. owner = t /\ recursion = depth[t] /\ depth[t] > 0 /\ lockCount = depth[t] - 1 + Others
    BY <1>1, <1>3, <2>1 DEF FieldsOf, Has
  <2>5. Others' = Others => Has(t)' /\ FieldsOf(t)'
    BY <1>1, <2>1, <2>3, <2>4 DEF FieldsOf, Has
  <2>6. owner' = t /\ UNCHANGED event
    BY <2>4
  <2>. QED
    BY <1>2, <1>3, <2>2, <2>5, <2>6, KeepsInv
<1>4. CASE ~Has(t) /\ \E h \in Threads \ {t} : Has(h)
  <2>1. PICK h \in Threads \ {t} : Has(h)
    BY <1>4
  <2>2. lockCount >= 0
    BY <2>1, HeldFacts
  <2>3. Goto(t, "enter_held") /\ lockCount' = lockCount + 1
    BY <1>1, <2>2
  <2>. QED
    BY <1>1, <1>4, <2>1, <2>3, JoinsInv
<1>5. CASE Free /\ \A u \in Threads : ~Has(u)
  <2>1. Others \in Nat /\ lockCount' = Others /\ depth[t] = 0
    BY <1>1, <1>5, OthersType DEF Free, Has
  <2>2. CASE Others = 0
    <3>1. Goto(t, "enter_own") /\ owner = NoThread /\ recursion = 0 /\ event = 0
      BY <1>5, <2>2 DEF Free
    <3>2. pc'[t] = "enter_own" /\ depth'[t] = depth[t]
      BY <3>1 DEF TypeOK, Goto
    <3>3. Others' = lockCount' => Has(t)' /\ FieldsOf(t)'
      BY <2>1, <3>1, <3>2 DEF FieldsOf, Has
    <3>4. event' = 0 /\ owner' = NoThread
      BY <3>1
    <3>5. PICK k \in {0, 1} : (t \in Counted <=> k = 1) /\ lockCount' = Others - k
      BY <1>1, <2>1
    <3>. QED
      BY <1>2, <1>5, <3>1, <3>3, <3>4, <3>5, TakesInv
  <2>3. CASE Others # 0
    <3>1. Goto(t, "enter_held") /\ lockCount' = lockCount + 1
      BY <1>5, <2>1, <2>3 DEF Free
    <3>. QED
      BY <1>1, <1>5, <2>3, <3>1, JoinsFreeInv
  <2>. QED
    BY <2>2, <2>3
<1>. QED
  BY <1>3, <1>4, <1>5, NotHeldFacts

(* The enter's look at the owner.                                          *)
LEMMA EnterHeldInv ==
  ASSUME TypeOK, Good, NEW t \in Threads, EnterHeld(t)
  PROVE  Good'
<1>. USE DEF EnterHeld
<1>1. pc[t] = "enter_held" /\ (owner # t => t \in Counted)
  BY DEF Counted, Pending
<1>2. CASE Has(t)
  <2>1. FieldsOf(t) /\ Others \in Nat
    BY <1>2, HeldFacts
  <2>2. owner = t /\ Goto(t, "enter_again")
    BY <1>1, <2>1 DEF FieldsOf
  <2>3. pc'[t] = "enter_again" /\ depth' = [depth EXCEPT ![t] = depth[t]] /\ depth'[t] = depth[t]
    BY <2>2 DEF TypeOK, Goto
  <2>4. Others' = Others => Has(t)' /\ FieldsOf(t)'
    BY <1>1, <2>1, <2>2, <2>3 DEF FieldsOf, Has
  <2>. QED
    BY <1>2, <2>2, <2>3, <2>4, KeepsInv
<1>3. CASE ~Has(t) /\ \E h \in Threads \ {t} : Has(h)
  <2>1. PICK h \in Threads \ {t} : Has(h)
    BY <1>3
  <2>2. owner # t /\ lockCount' = lockCount + 0
    BY <2>1, HeldFacts DEF TypeOK
  <2>. QED
    BY <1>1, <1>3, <2>1, <2>2, JoinsInv
<1>4. CASE Free /\ \A u \in Threads : ~Has(u)
  <2>1. owner # t /\ lockCount' = lockCount + 0
    BY <1>4, ThreadsAssumption DEF Free, TypeOK
  <2>2. Others # 0
    BY <1>1, <2>1, CountedSome
  <2>. QED
    BY <1>1, <1>4, <2>1, <2>2, JoinsFreeInv
<1>. QED
  BY <1>2, <1>3, <1>4, NotHeldFacts

(* The kernel's enter from the title's own code.                           *)
LEMMA KernelEnterInv ==
  ASSUME TypeOK, Good, NEW t \in Threads, pc[t] = "run", KernelEnter(t, lockCount),
         Free => lockCount = -1
  PROVE  Good'
<1>. USE DEF KernelEnter
<1>1. t \notin Counted /\ lockCount \in Int /\ recursion \in Int /\ depth[t] \in Nat
  BY DEF Counted, Pending, TypeOK
<1>2. CASE Has(t)
  <2>1. FieldsOf(t) /\ Others \in Nat /\ lockCount >= 0
    BY <1>2, HeldFacts
  <2>2. owner = t /\ recursion = depth[t] /\ lockCount = depth[t] - 1 + Others
    BY <2>1 DEF FieldsOf
  <2>3. /\ lockCount' = lockCount + 1 /\ recursion' = recursion + 1
        /\ Enters(t) /\ UNCHANGED << owner, event >>
    BY <1>1, <2>1, <2>2
  <2>4. pc'[t] = "run" /\ depth'[t] = depth[t] + 1 /\ Goto(t, "run")
        /\ depth' = [depth EXCEPT ![t] = depth[t] + 1]
    BY <2>3 DEF TypeOK, Enters, Goto
  <2>5. Others' = Others => Has(t)' /\ FieldsOf(t)'
    BY <1>1, <2>1, <2>2, <2>3, <2>4 DEF FieldsOf, Has
  <2>. QED
    BY <1>2, <2>2, <2>3, <2>4, <2>5, KeepsInv
<1>3. CASE ~Has(t) /\ \E h \in Threads \ {t} : Has(h)
  <2>1. PICK h \in Threads \ {t} : Has(h)
    BY <1>3
  <2>2. owner # t /\ lockCount >= 0 /\ event = 0
    BY <2>1, HeldFacts
  <2>3. /\ lockCount' = lockCount + 1 /\ Goto(t, "waiting")
        /\ UNCHANGED << event, owner, recursion, depth >>
    BY <1>1, <2>2 DEF WaitForEvent
  <2>. QED
    BY <1>1, <1>3, <2>1, <2>3, JoinsInv
<1>4. CASE Free /\ \A u \in Threads : ~Has(u)
  <2>1. lockCount' = 0 /\ Own(t) /\ UNCHANGED event /\ lockCount = -1
    BY <1>4
  <2>2. pc'[t] = "run" /\ depth'[t] = depth[t] + 1 /\ Goto(t, "run")
        /\ depth' = [depth EXCEPT ![t] = depth[t] + 1]
    BY <2>1 DEF TypeOK, Own, Enters, Goto
  <2>3. depth[t] = 0 /\ Others = 0 /\ event = 0
    BY <1>1, <1>4, <2>1, OthersType DEF Has, Free
  <2>4. Others' = lockCount' => Has(t)' /\ FieldsOf(t)'
    BY <2>1, <2>2, <2>3 DEF FieldsOf, Has, Own
  <2>5. t \notin Counted /\ lockCount' = Others - 0
    <3>1. t \notin Counted
      BY <1>1
    <3>2. lockCount' = Others - 0
      BY <2>1, <2>3
    <3>. QED
      BY <3>1, <3>2
  <2>6. \E k \in {0, 1} : (t \in Counted <=> k = 1) /\ lockCount' = Others - k
    <3>. WITNESS 0 \in {0, 1}
    <3>. QED
      BY <2>5
  <2>7. PICK k \in {0, 1} : (t \in Counted <=> k = 1) /\ lockCount' = Others - k
    BY <2>6
  <2>8. event' = 0 /\ owner' = t
    BY <2>1, <2>3 DEF Own
  <2>. QED
    BY <1>4, <2>2, <2>4, <2>7, <2>8, TakesInv
<1>. QED
  BY <1>2, <1>3, <1>4, NotHeldFacts

(* The contended enter that takes its step back and does not lapse: it     *)
(* waits for who has the section, or takes the event left for it.          *)
LEMMA EnterOtherInv ==
  ASSUME TypeOK, Good, NEW t \in Threads, EnterOther(t), ~Lapses(t)
  PROVE  Good'
<1>. USE DEF EnterOther, KernelEnter
<1>1. /\ pc[t] = "enter_other" /\ t \in Counted /\ Others \in Nat \ {0}
      /\ lockCount \in Int /\ lockCount # 0 /\ depth[t] \in Nat
  BY CountedSome DEF Counted, Pending, TypeOK, Lapses
<1>2. ~Has(t)
  BY <1>1, HeldFacts
<1>3. CASE \E h \in Threads \ {t} : Has(h)
  <2>1. PICK h \in Threads \ {t} : Has(h)
    BY <1>3
  <2>2. owner # t /\ lockCount >= 0 /\ event = 0
    BY <2>1, HeldFacts
  <2>3. /\ lockCount' = lockCount + 0 /\ Goto(t, "waiting")
        /\ UNCHANGED << event, owner, recursion, depth >>
    BY <1>1, <2>2 DEF WaitForEvent
  <2>. QED
    BY <1>1, <1>2, <2>1, <2>3, JoinsInv
<1>4. CASE Free /\ \A u \in Threads : ~Has(u)
  <2>1. owner # t /\ event = 1 /\ lockCount = Others - 1
    BY <1>1, <1>4, ThreadsAssumption DEF Free
  <2>2. lockCount' = Others - 1 /\ event' = 0 /\ Own(t)
    BY <1>1, <2>1 DEF WaitForEvent
  <2>3. pc'[t] = "run" /\ depth'[t] = depth[t] + 1 /\ Goto(t, "run")
        /\ depth' = [depth EXCEPT ![t] = depth[t] + 1]
    BY <2>2 DEF TypeOK, Own, Enters, Goto
  <2>4. depth[t] = 0
    BY <1>1, <1>2 DEF Has
  <2>5. Others' = lockCount' => Has(t)' /\ FieldsOf(t)'
    BY <1>1, <2>2, <2>3, <2>4 DEF FieldsOf, Has, Own
  <2>6. owner' = t
    BY <2>2 DEF Own
  <2>. QED
    BY <1>1, <1>4, <2>2, <2>3, <2>5, <2>6, TakesInv
<1>. QED
  BY <1>2, <1>3, <1>4, NotHeldFacts

(* An enter that is a kernel call: without fast paths nobody is on the way *)
(* to a free section.                                                      *)
LEMMA RtlEnterInv ==
  ASSUME TypeOK, CallsWhole, Good, NEW t \in Threads, RtlEnterCriticalSection(t)
  PROVE  Good'
<1>1. ASSUME Free
      PROVE  lockCount = -1
  <2>1. Counted = {}
    BY <1>1 DEF RtlEnterCriticalSection, CallsWhole, Counted, Pending, Free, Waiting
  <2>. QED
    BY <1>1, <2>1, OthersType DEF Free
<1>. QED
  BY <1>1, KernelEnterInv DEF RtlEnterCriticalSection, MayEnter

(* A try that succeeds does what an enter does that need not wait.         *)
LEMMA RtlTryEnterInv ==
  ASSUME TypeOK, Good, NEW t \in Threads, RtlTryEnterCriticalSection(t)
  PROVE  Good'
<1>. USE DEF RtlTryEnterCriticalSection, MayEnter
<1>1. lockCount \in Int /\ pc[t] = "run"
  BY DEF TypeOK
<1>2. CASE lockCount = -1
  <2>1. KernelEnter(t, lockCount)
    BY <1>2 DEF KernelEnter
  <2>. QED
    BY <1>1, <1>2, <2>1, KernelEnterInv
<1>3. CASE lockCount # -1
  <2>1. KernelEnter(t, lockCount) /\ owner = t
    BY <1>1, <1>3 DEF KernelEnter
  <2>2. ~Free
    BY <2>1, ThreadsAssumption DEF Free
  <2>. QED
    BY <1>1, <2>1, <2>2, KernelEnterInv
<1>. QED
  BY <1>2, <1>3

(* A leave that is a kernel call.                                          *)
LEMMA RtlLeaveInv ==
  ASSUME TypeOK, CallsWhole, Good, NEW t \in Threads, t = current, RtlLeaveCriticalSection(t)
  PROVE  Good'
<1>. USE DEF RtlLeaveCriticalSection, MayLeave, KernelLeave
<1>1. Has(t)
  BY DEF Has
<1>2. FieldsOf(t) /\ event = 0 /\ Others \in Nat
  BY <1>1, HeldFacts
<1>3. depth[t] \in Nat \ {0} /\ Left(t) = [depth EXCEPT ![t] = depth[t] - 1]
  BY DEF TypeOK, Left
<1>4. owner = t /\ recursion = depth[t] /\ lockCount = depth[t] - 1 + Others
  BY <1>2 DEF FieldsOf
<1>5. Counted = Waiting
  BY DEF CallsWhole, Counted, Pending, Waiting
<1>6. CASE depth[t] # 1
  <2>1. /\ lockCount' = lockCount - 1 /\ recursion' = recursion - 1
        /\ depth' = [depth EXCEPT ![t] = depth[t] - 1] /\ UNCHANGED << owner, event, pc >>
    BY <1>3, <1>4, <1>6
  <2>2. depth'[t] = depth[t] - 1 /\ Goto(t, "run")
    BY <1>3, <2>1 DEF TypeOK, Goto
  <2>3. Others' = Others => Has(t)' /\ FieldsOf(t)'
    BY <1>2, <1>3, <1>4, <1>6, <2>1, <2>2 DEF FieldsOf, Has
  <2>. QED
    BY <1>1, <1>4, <2>1, <2>2, <2>3, KeepsInv
<1>7. CASE depth[t] = 1 /\ Others = 0
  <2>1. /\ lockCount' = Others - 1 /\ owner' = NoThread /\ recursion' = 0
        /\ depth' = [depth EXCEPT ![t] = 0] /\ Goto(t, "run") /\ UNCHANGED event
    BY <1>3, <1>4, <1>7
  <2>. QED
    BY <1>1, <1>2, <1>7, <2>1, FreedInv, OthersType
<1>8. CASE depth[t] = 1 /\ Others # 0
  <2>1. lockCount' = Others - 1 /\ SetEvent([depth EXCEPT ![t] = 0])
    BY <1>2, <1>3, <1>4, <1>8
  <2>2. Waiting # {}
    BY <1>5, <1>8, OthersType
  <2>. QED
    BY <1>1, <2>1, <2>2, HandedOverInv
<1>. QED
  BY <1>6, <1>7, <1>8

-----------------------------------------------------------------------------
(* The initialised section.                                                *)
LEMMA InitInv == Init => IInv
<1>1. Init => Waiting = {} /\ Counted = {}
  BY DEF Init, Waiting, Counted, Pending
<1>2. Init => Others = 0
  BY <1>1, OthersType
<1>3. ASSUME Init
      PROVE  TypeOK
  <2>1. fastPaths \in BOOLEAN /\ lapsed \in BOOLEAN
    BY <1>3, Zenon DEF Init
  <2>2. lockCount \in Int /\ recursion \in Int /\ event \in {0, 1}
    BY <1>3 DEF Init
  <2>. QED
    BY <1>3, <2>1, <2>2 DEF Init, TypeOK
<1>5. Init => CallsWhole
  BY DEF Init, CallsWhole
<1>4. Init => Free /\ \A t \in Threads : ~Has(t)
  BY <1>1, <1>2 DEF Init, Free, Has
<1>. QED
  BY <1>3, <1>4, <1>5 DEF IInv, Good

(* Every step keeps the invariant, unless a contended enter lapses.        *)
LEMMA GoodStep ==
  ASSUME IInv, [Next]_vars, ~lapsed'
  PROVE  Good /\ Good'
<1>1. CASE UNCHANGED vars
  BY <1>1 DEF vars, IInv, Good, Counted, Pending, Has, FieldsOf, Free, Others, Waiting
<1>2. ASSUME NEW t \in Threads, Run(t)
      PROVE  Good /\ Good'
  <2>1. t = current /\ ~lapsed /\ ~Lapses(t)
    BY <1>2 DEF Run
  <2>2. TypeOK /\ CallsWhole /\ Good
    BY <2>1 DEF IInv
  <2>3. CASE Enter(t)
    BY <2>1, <2>2, <2>3, RtlEnterInv, RtlTryEnterInv, CallEnterInv, EnterOwnInv, EnterHeldInv,
       EnterAgainInv, EnterOtherInv DEF Enter
  <2>4. CASE Leave(t)
    BY <2>1, <2>2, <2>4, RtlLeaveInv, CallLeaveInv, LeaveOwnedInv, LeaveFreeInv, LeaveWaitersInv
       DEF Leave
  <2>. QED
    BY <1>2, <2>3, <2>4 DEF Run
<1>3. ASSUME NEW t \in Threads, Switch(t)
      PROVE  Good /\ Good'
  BY <1>3 DEF Switch, IInv, Good, Counted, Pending, Has, FieldsOf, Free, Others, Waiting
<1>. QED
  BY <1>1, <1>2, <1>3 DEF Next

(* The invariant holds, of any number of threads that enter to any depth.  *)
THEOREM Invariance == Spec => []IInv
<1>1. IInv /\ [Next]_vars => IInv'
  BY TypeStep, CallsWholeStep, GoodStep DEF IInv
<1>. QED
  BY <1>1, InitInv, PTL DEF Spec

(* The section's fields and the threads' places keep their types, before   *)
(* and after a lapse.                                                      *)
THEOREM TypeCorrect == Spec => []TypeOK
<1>1. IInv => TypeOK
  BY DEF IInv
<1>. QED
  BY <1>1, Invariance, PTL

(* One thread at a time is inside, wherever threads are interrupted, until *)
(* a contended enter lapses.                                               *)
THEOREM MutualExclusionUntilLapse == Spec => [](~lapsed => MutualExclusion)
<1>1. IInv => (~lapsed => MutualExclusion)
  BY DEF IInv, Good, MutualExclusion, Has
<1>. QED
  BY <1>1, Invariance, PTL

(* With kernel calls alone (NC_NO_FAST) no enter ever lapses.              *)
THEOREM KernelCallsNeverLapse == Spec => [](lapsed => fastPaths)
<1>1. IInv => (lapsed => fastPaths)
  BY DEF IInv, CallsWhole
<1>. QED
  BY <1>1, Invariance, PTL

(* Until a lapse the fields the next call goes by are right all the while: *)
(* the owner and its count, the threads counted between calls, and an      *)
(* event that is signaled only for a contended enter yet to come.          *)
THEOREM FieldsStayExact == Spec => []FieldsExact
<1>1. ASSUME Good, TypeOK
      PROVE  InsideIsOwner
  BY <1>1 DEF Good, InsideIsOwner, Has, FieldsOf
<1>2. ASSUME Good, TypeOK, \A t \in Threads : pc[t] \in {"run", "waiting"}
      PROVE  lockCount + 1 = recursion + Cardinality(Waiting)
  <2>1. Counted = Waiting
    BY <1>2 DEF Counted, Pending, Waiting
  <2>2. Others = Cardinality(Waiting) /\ Others \in Nat
    BY <2>1, OthersType DEF Others
  <2>3. CASE \E h \in Threads : Has(h)
    <3>1. PICK h \in Threads : Has(h)
      BY <2>3
    <3>2. pc[h] = "run" /\ FieldsOf(h) /\ depth[h] \in Nat
      BY <1>2, <3>1, HeldFacts DEF TypeOK
    <3>3. recursion = depth[h] /\ lockCount = depth[h] - 1 + Others
      BY <3>2 DEF FieldsOf
    <3>. QED
      BY <2>2, <3>2, <3>3
  <2>4. CASE \A h \in Threads : ~Has(h)
    BY <1>2, <2>2, <2>4 DEF Good, Free
  <2>. QED
    BY <2>3, <2>4
<1>3. ASSUME Good, event = 1
      PROVE  /\ owner = NoThread
             /\ \E t \in Threads : pc[t] \in {"enter_held", "enter_other"}
  <2>1. Free
    BY <1>3 DEF Good
  <2>2. Others # 0 /\ Waiting = {} /\ owner = NoThread
    BY <1>3, <2>1 DEF Free
  <2>3. PICK t \in Counted : TRUE
    BY <2>2, OthersType
  <2>. QED
    BY <2>2, <2>3 DEF Counted, Pending, Waiting
<1>4. IInv => FieldsExact
  BY <1>1, <1>2, <1>3 DEF IInv, FieldsExact, LockCountExact, EventForSomebody
<1>. QED
  BY <1>4, Invariance, PTL

-----------------------------------------------------------------------------
(***************************************************************************)
(* The section implements a lock.  Of a step that changes who is inside,   *)
(* the invariant in the next state tells that it is one of the lock's.     *)
(***************************************************************************)

(* Who is inside has the section, and so is alone.                         *)
Alone == \A u, v \in Threads : depth[u] > 0 /\ depth[v] > 0 => u = v

(* A step that takes t in once more.                                       *)
LEMMA EntersAcquires ==
  ASSUME TypeOK, Alone', NEW t \in Threads, depth' = [depth EXCEPT ![t] = @ + 1]
  PROVE  Lock!Acquire(t)
<1>1. depth \in [Threads -> Nat]
  BY DEF TypeOK
<1>2. depth'[t] > 0 /\ \A u \in Threads \ {t} : depth'[u] = depth[u]
  BY <1>1
<1>3. \A u \in Threads \ {t} : depth[u] = 0
  BY <1>1, <1>2 DEF Alone
<1>. QED
  BY <1>3 DEF Lock!Acquire

(* The kernel's leave, before which t was counted out or is now.           *)
LEMMA KernelLeaveRefines ==
  ASSUME TypeOK, Alone, Alone', NEW t \in Threads, t = current, pc[t] # "waiting",
         NEW lc, NEW rec, NEW left \in {depth, Left(t)},
         left = Left(t) => depth[t] > 0,
         KernelLeave(t, lc, rec, left)
  PROVE  [Lock!Next]_depth
<1>1. depth \in [Threads -> Nat] /\ Waiting \subseteq Threads
  BY DEF TypeOK, Waiting
<1>2. CASE depth' = left
  BY <1>1, <1>2 DEF Left, Lock!Next, Lock!Release
<1>3. CASE Waiting # {} /\ depth' = [left EXCEPT ![FirstSlot(Waiting)] = @ + 1]
  <2>1. PICK w \in Threads : w = FirstSlot(Waiting)
    BY <1>1, <1>3, FirstSlotInSet
  <2>2. w # t /\ pc[w] = "waiting"
    BY <1>1, <1>3, <2>1, FirstSlotInSet DEF Waiting
  <2>3. CASE left = depth
    BY <1>3, <2>1, <2>3, EntersAcquires DEF Lock!Next
  <2>4. CASE left = Left(t)
    <3>1. depth[t] > 0 /\ depth' = [[depth EXCEPT ![t] = @ - 1] EXCEPT ![w] = @ + 1]
      BY <1>3, <2>1, <2>4 DEF Left
    <3>2. depth'[w] > 0 /\ depth'[t] = depth[t] - 1
      BY <1>1, <2>2, <3>1
    <3>3. depth[t] = 1 /\ depth[w] = 0
      BY <1>1, <2>2, <3>1, <3>2 DEF Alone
    <3>4. depth' = [depth EXCEPT ![t] = 0, ![w] = 1]
      BY <1>1, <2>2, <3>1, <3>3
    <3>. QED
      BY <2>2, <3>3, <3>4 DEF Lock!Next, Lock!HandOver
  <2>. QED
    BY <2>3, <2>4
<1>. QED
  BY <1>2, <1>3 DEF KernelLeave, SetEvent

(* Every step is one of the lock, or none, unless an enter has lapsed.     *)
LEMMA StepRefines ==
  ASSUME IInv, [Next]_vars, ~lapsed'
  PROVE  [Lock!Next]_depth
<1>1. TypeOK /\ Alone /\ Alone'
  BY GoodStep DEF IInv, Good, Alone, Has
<1>2. CASE UNCHANGED vars
  BY <1>2 DEF vars
<1>3. ASSUME NEW t \in Threads, Run(t)
      PROVE  [Lock!Next]_depth
  <2>1. t = current
    BY <1>3 DEF Run
  <2>2. CASE Enter(t)
    <3>1. \/ depth' = [depth EXCEPT ![t] = @ + 1]
          \/ UNCHANGED depth
      BY <2>2 DEF Enter, RtlEnterCriticalSection, RtlTryEnterCriticalSection, CallEnter, EnterOwn,
         EnterHeld, EnterAgain, EnterOther, KernelEnter, WaitForEvent, Own, Enters
    <3>. QED
      BY <1>1, <3>1, EntersAcquires DEF Lock!Next
  <2>3. CASE RtlLeaveCriticalSection(t)
    BY <1>1, <2>1, <2>3, KernelLeaveRefines DEF RtlLeaveCriticalSection, MayLeave
  <2>4. CASE LeaveWaiters(t)
    <3>1. pc[t] # "waiting"
      BY <2>4 DEF LeaveWaiters
    <3>2. CASE Left(t) = depth
      <4>1. depth \in [Threads -> Nat]
        BY <1>1 DEF TypeOK
      <4>. QED
        BY <3>2, <4>1 DEF Left
    <3>3. CASE Left(t) # depth
      BY <1>1, <2>1, <2>4, <3>1, <3>3, KernelLeaveRefines DEF LeaveWaiters
    <3>. QED
      BY <3>2, <3>3
  <2>5. CASE CallLeave(t)
    BY <2>5 DEF CallLeave, MayLeave, Left, Lock!Next, Lock!Release
  <2>6. CASE LeaveOwned(t) \/ LeaveFree(t)
    BY <2>6 DEF LeaveOwned, LeaveFree
  <2>. QED
    BY <1>3, <2>2, <2>3, <2>4, <2>5, <2>6 DEF Run, Leave
<1>4. ASSUME NEW t \in Threads, Switch(t)
      PROVE  [Lock!Next]_depth
  BY <1>4 DEF Switch
<1>. QED
  BY <1>2, <1>3, <1>4 DEF Next

(* The fast paths and the kernel calls together implement a lock that one  *)
(* thread holds, any number of times over, until an enter lapses.          *)
THEOREM LockImplemented == Spec => LockUntilLapse
<1>1. Init => Lock!Init
  BY DEF Init, Lock!Init
<1>2. IInv /\ [Next]_vars => [lapsed' \/ Lock!Next]_depth
  BY StepRefines
<1>. QED
  BY <1>1, <1>2, Invariance, PTL DEF Spec, LockUntilLapse
=============================================================================
