---------------------------- MODULE ClockProofs ----------------------------
(***************************************************************************)
(* Proofs about Clock, for any timers, waits, delays and slice: the cached *)
(* time of the waits is exact, and with a lag of the clock thread of Lag   *)
(* nothing that is due stays undone for 2*Lag + 2.                         *)
(***************************************************************************)
EXTENDS Clock, TLAPS, NaturalsInduction, WellFoundedInduction

(* The kernel's times, and the cache of the waits'.                        *)
Kernel == [due : [Timers \cup Waiters -> Times], waitDue : Times, slice : Times, away : BOOLEAN]
Exact(s) == s.waitDue = Earliest(s, Waiters)

(***************************************************************************)
(* What times there are, and the least of some.                            *)
(***************************************************************************)
LEMMA TimesAre ==
  /\ Times \subseteq Int /\ Never \in Times /\ 0 \in Times /\ Quantum \in Times
  /\ \A n \in Int : n \in Times <=> 0 - MaxLate <= n /\ n <= Never
  /\ Never \in Nat /\ Never \in Int /\ Never > 1 /\ 1 \in Times
  /\ \A n \in Times : n \in Int /\ 0 - MaxLate <= n /\ n <= Never
  /\ MaxLate \in Nat /\ MaxLate \in Int
BY ClockAssumption DEF Times, Never

LEMMA LeastTime ==
  ASSUME NEW S \in SUBSET Times, S # {}
  PROVE  \E x \in S : \A y \in S : x <= y
<1> DEFINE K == {x + MaxLate : x \in S}
<1>1. K \in SUBSET Nat /\ K # {}
  <2>1. \A x \in S : x + MaxLate \in Nat
    BY TimesAre
  <2>. QED
    BY <2>1
<1>2. \E n \in K : \A m \in K : ~ (<< m, n >> \in OpToRel(<, Nat))
  BY <1>1, NatLessThanWellFounded, WFMin
<1>3. PICK n \in K : \A m \in K : ~ (<< m, n >> \in OpToRel(<, Nat))
  BY <1>2
<1>4. \A m \in K : ~ (m < n)
  BY <1>1, <1>3 DEF OpToRel
<1>5. PICK x \in S : n = x + MaxLate
  OBVIOUS
<1>6. \A y \in S : ~ (y + MaxLate < x + MaxLate)
  BY <1>4, <1>5
<1>7. \A y \in S : x <= y
  <2> HIDE DEF K
  <2> TAKE y \in S
  <2>1. x \in Int /\ y \in Int /\ MaxLate \in Int
    BY TimesAre, ClockAssumption
  <2>. QED
    BY <1>6, <2>1
<1>. QED
  BY <1>7

LEMMA MinOfTimes ==
  ASSUME NEW S \in SUBSET Times, S # {}
  PROVE  Min(S) \in S /\ \A y \in S : Min(S) <= y
<1>1. PICK x \in S : \A y \in S : x <= y
  BY LeastTime
<1>. QED
  BY <1>1 DEF Min

LEMMA MinOfTwo ==
  ASSUME NEW a \in Int, NEW b \in Int
  PROVE  Min({a, b}) = IF a <= b THEN a ELSE b
<1>1. \E x \in {a, b} : \A y \in {a, b} : x <= y
  OBVIOUS
<1>2. Min({a, b}) \in {a, b} /\ Min({a, b}) <= a /\ Min({a, b}) <= b
  BY <1>1 DEF Min
<1>. QED
  BY <1>2

LEMMA MaxOfTwo ==
  ASSUME NEW a \in Int, NEW b \in Int
  PROVE  Max({a, b}) = IF a >= b THEN a ELSE b
<1>1. \E x \in {a, b} : \A y \in {a, b} : x >= y
  OBVIOUS
<1>2. Max({a, b}) \in {a, b} /\ Max({a, b}) >= a /\ Max({a, b}) >= b
  BY <1>1 DEF Max
<1>. QED
  BY <1>2

(* The earliest of some items is the greatest time none of them is before. *)
LEMMA EarliestIs ==
  ASSUME NEW s \in Kernel, NEW items \in SUBSET (Timers \cup Waiters)
  PROVE  /\ Earliest(s, items) \in Times
         /\ \A i \in items : Earliest(s, items) <= s.due[i]
         /\ Earliest(s, items) = Never \/ \E i \in items : Earliest(s, items) = s.due[i]
<1> DEFINE S == {s.due[i] : i \in items} \cup {Never}
<1>1. S \in SUBSET Times /\ S # {}
  BY TimesAre DEF Kernel
<1>2. Min(S) \in S /\ \A y \in S : Min(S) <= y
  BY <1>1, MinOfTimes
<1>3. Earliest(s, items) = Min(S)
  BY DEF Earliest
<1>. QED
  BY <1>1, <1>2, <1>3

LEMMA EarliestFrom ==
  ASSUME NEW s \in Kernel, NEW items \in SUBSET (Timers \cup Waiters), NEW n \in Times,
         \A i \in items : n <= s.due[i]
  PROVE  n <= Earliest(s, items)
<1>1. n <= Never
  BY TimesAre
<1>. QED
  BY <1>1, EarliestIs

(* And the only one that some item is due at, or never.                    *)
LEMMA EarliestOnly ==
  ASSUME NEW s \in Kernel, NEW items \in SUBSET (Timers \cup Waiters), NEW n \in Times,
         \A i \in items : n <= s.due[i],
         n = Never \/ \E i \in items : n = s.due[i]
  PROVE  n = Earliest(s, items)
<1>1. n <= Earliest(s, items)
  BY EarliestFrom
<1>2. Earliest(s, items) <= n
  BY EarliestIs, TimesAre
<1>3. n \in Int /\ Earliest(s, items) \in Int
  BY EarliestIs, TimesAre
<1>. QED
  BY <1>1, <1>2, <1>3

(* What the clock thread is to be told is the earliest of what may be due. *)
LEMMA ArmTimeIs ==
  ASSUME NEW s \in Kernel
  PROVE  /\ ArmTime(s) \in Times
         /\ \A i \in Timers : ArmTime(s) <= s.due[i]
         /\ ArmTime(s) <= s.waitDue
         /\ ~s.away => ArmTime(s) <= s.slice
<1> DEFINE S == {TimerDue(s), s.waitDue, IF s.away THEN Never ELSE s.slice}
<1>1. TimerDue(s) \in Times /\ \A i \in Timers : TimerDue(s) <= s.due[i]
  BY EarliestIs DEF TimerDue
<1>2. S \in SUBSET Times /\ S # {}
  BY <1>1, TimesAre DEF Kernel
<1>3. Min(S) \in S /\ \A y \in S : Min(S) <= y
  BY <1>2, MinOfTimes
<1>4. ArmTime(s) = Min(S)
  BY DEF ArmTime
<1>5. /\ ArmTime(s) <= TimerDue(s) /\ ArmTime(s) <= s.waitDue
      /\ ~s.away => ArmTime(s) <= s.slice
  BY <1>3, <1>4
<1>6. ArmTime(s) \in Times
  BY <1>2, <1>3, <1>4
<1>7. \A i \in Timers : ArmTime(s) <= s.due[i]
  <2> TAKE i \in Timers
  <2>1. ArmTime(s) \in Int /\ TimerDue(s) \in Int /\ s.due[i] \in Int
    BY <1>1, <1>6, TimesAre DEF Kernel
  <2>. QED
    BY <1>1, <1>5, <2>1
<1>. QED
  BY <1>3, <1>4, <1>5, <1>6, <1>7

LEMMA ArmTimeFrom ==
  ASSUME NEW s \in Kernel, NEW n \in Times,
         \A i \in Timers : n <= s.due[i], n <= s.waitDue, ~s.away => n <= s.slice
  PROVE  n <= ArmTime(s)
<1> DEFINE S == {TimerDue(s), s.waitDue, IF s.away THEN Never ELSE s.slice}
<1>1. TimerDue(s) \in Times /\ n <= TimerDue(s)
  BY EarliestIs, EarliestFrom DEF TimerDue
<1>2. S \in SUBSET Times /\ S # {}
  BY <1>1, TimesAre DEF Kernel
<1>3. Min(S) \in S
  BY <1>2, MinOfTimes
<1>4. \A y \in S : n <= y
  BY <1>1, TimesAre
<1>. QED
  BY <1>3, <1>4 DEF ArmTime

LEMMA NextDueFrom ==
  ASSUME k \in Kernel
  PROVE  NextDue \in Times /\ NextDue <= ArmTime(k)
<1> DEFINE S == {TimerDue(k), k.waitDue, k.slice}
<1>1. TimerDue(k) \in Times /\ \A i \in Timers : TimerDue(k) <= k.due[i]
  BY EarliestIs DEF TimerDue
<1>2. S \in SUBSET Times /\ S # {}
  BY <1>1 DEF Kernel
<1>3. Min(S) \in S /\ \A y \in S : Min(S) <= y
  BY <1>2, MinOfTimes
<1>4. NextDue = Min(S)
  BY DEF NextDue
<1>5. NextDue \in Times /\ NextDue <= TimerDue(k) /\ NextDue <= k.waitDue /\ NextDue <= k.slice
  BY <1>2, <1>3, <1>4
<1>6. \A i \in Timers : NextDue <= k.due[i]
  <2> TAKE i \in Timers
  <2>1. NextDue \in Int /\ TimerDue(k) \in Int /\ k.due[i] \in Int
    BY <1>1, <1>5, TimesAre DEF Kernel
  <2>. QED
    BY <1>1, <1>5, <2>1
<1>7. NextDue <= ArmTime(k)
  BY <1>5, <1>6, ArmTimeFrom
<1>. QED
  BY <1>5, <1>7

-----------------------------------------------------------------------------
(***************************************************************************)
(* The functions of the kernel keep the times times and the cache exact.   *)
(***************************************************************************)
LEMMA AgainIs ==
  ASSUME NEW t \in Timers, NEW n \in Times, n <= 0
  PROVE  Again(t, n) \in Times /\ Again(t, n) > 0
<1>1. Period[t] \in 0 .. MaxDelay /\ n \in Int /\ MaxDelay \in Nat
  BY ClockAssumption, TimesAre
<1>2. Again(t, n) = Never \/ (Again(t, n) \in 1 .. MaxDelay)
  BY <1>1 DEF Again
<1>3. Never \in Int /\ Never = MaxDelay + 1 /\ 0 - MaxLate <= 0 /\ MaxLate \in Int
  BY TimesAre DEF Never
<1>4. \A m \in 1 .. MaxDelay : m \in Times /\ m > 0
  BY <1>1, <1>3, TimesAre
<1>. QED
  BY <1>2, <1>4, TimesAre

LEMMA TimerPollIs ==
  ASSUME NEW s \in Kernel
  PROVE  /\ TimerPoll(s) \in Kernel
         /\ TimerPoll(s).waitDue = s.waitDue /\ TimerPoll(s).slice = s.slice
         /\ TimerPoll(s).away = s.away
         /\ \A i \in Timers : TimerPoll(s).due[i] > 0 /\ TimerPoll(s).due[i] >= s.due[i]
         /\ \A i \in Waiters : TimerPoll(s).due[i] = s.due[i]
<1> DEFINE f == [i \in Timers \cup Waiters |->
                   IF i \in Timers /\ s.due[i] <= 0 THEN Again(i, s.due[i]) ELSE s.due[i]]
<1>1. DOMAIN s.due = Timers \cup Waiters /\ s.due \in [Timers \cup Waiters -> Times]
  BY DEF Kernel
<1>2. TimerPoll(s) = [s EXCEPT !.due = f]
  BY <1>1 DEF TimerPoll
<1>3. f \in [Timers \cup Waiters -> Times]
  BY <1>1, AgainIs
<1>4. \A i \in Timers : f[i] > 0 /\ f[i] >= s.due[i]
  <2> TAKE i \in Timers
  <2>1. s.due[i] \in Int /\ f[i] \in Int
    BY <1>1, <1>3, TimesAre
  <2>2. CASE s.due[i] <= 0
    <3>1. f[i] = Again(i, s.due[i]) /\ Again(i, s.due[i]) > 0
      BY <1>1, <2>2, AgainIs
    <3> HIDE DEF f
    <3>. QED
      BY <3>1, <2>1, <2>2
  <2>3. CASE ~(s.due[i] <= 0)
    BY <2>1, <2>3
  <2>. QED
    BY <2>2, <2>3
<1>5. \A i \in Waiters : f[i] = s.due[i]
  BY ClockAssumption
<1> HIDE DEF f
<1>6. TimerPoll(s) \in Kernel
  BY <1>2, <1>3 DEF Kernel
<1>. QED
  BY <1>2, <1>4, <1>5, <1>6 DEF Kernel

LEMMA CheckWaitsIs ==
  ASSUME NEW s \in Kernel
  PROVE  /\ CheckWaits(s) \in Kernel /\ Exact(CheckWaits(s))
         /\ CheckWaits(s).slice = s.slice /\ CheckWaits(s).away = s.away
         /\ \A i \in Timers : CheckWaits(s).due[i] = s.due[i]
         /\ CheckWaits(s).waitDue > 0
         /\ \A n \in Times : (\A i \in Waiters : n <= s.due[i]) => n <= CheckWaits(s).waitDue
<1> DEFINE left == [i \in Timers \cup Waiters |->
                      IF i \in Waiters /\ s.due[i] <= 0 THEN Never ELSE s.due[i]]
           w == [s EXCEPT !.due = left]
           c == [s EXCEPT !.due = left, !.waitDue = Earliest(w, Waiters)]
<1>1. DOMAIN s.due = Timers \cup Waiters /\ s.due \in [Timers \cup Waiters -> Times]
  BY DEF Kernel
<1>2. CheckWaits(s) = c
  BY <1>1 DEF CheckWaits
<1>3. left \in [Timers \cup Waiters -> Times]
  BY <1>1, TimesAre
<1>4. \A i \in Timers : left[i] = s.due[i]
  BY ClockAssumption
<1>5. \A i \in Waiters : left[i] > 0 /\ left[i] >= s.due[i]
  <2> TAKE i \in Waiters
  <2>1. s.due[i] \in Int /\ s.due[i] <= Never /\ Never > 1 /\ Never \in Int
    BY <1>1, TimesAre
  <2>2. left[i] = IF s.due[i] <= 0 THEN Never ELSE s.due[i]
    OBVIOUS
  <2> HIDE DEF left
  <2>. QED
    BY <2>1, <2>2
<1> HIDE DEF left
<1>6. w \in Kernel /\ w.due = left
  BY <1>3 DEF Kernel
<1>7. Earliest(w, Waiters) \in Times
  BY <1>6, EarliestIs
<1>8. c \in Kernel /\ c.due = left /\ c.waitDue = Earliest(w, Waiters) /\ c.slice = s.slice
      /\ c.away = s.away
  BY <1>3, <1>7 DEF Kernel
<1>9. Earliest(c, Waiters) = Earliest(w, Waiters)
  BY <1>6, <1>8 DEF Earliest
<1>10. 1 \in Times /\ 1 <= Earliest(w, Waiters)
  <2>1. 1 \in Times
    BY TimesAre
  <2>2. \A i \in Waiters : 1 <= left[i]
    <3> TAKE i \in Waiters
    <3>1. left[i] \in Int
      BY <1>3, TimesAre
    <3>. QED
      BY <1>5, <3>1
  <2>. QED
    BY <1>6, <2>1, <2>2, EarliestFrom
<1>11. ASSUME NEW n \in Times, \A i \in Waiters : n <= s.due[i]
       PROVE  n <= Earliest(w, Waiters)
  <2>1. \A i \in Waiters : n <= left[i]
    <3> TAKE i \in Waiters
    <3>1. n \in Int /\ s.due[i] \in Int /\ left[i] \in Int
      BY <1>1, <1>3, TimesAre
    <3>. QED
      BY <1>5, <1>11, <3>1
  <2>. QED
    BY <1>6, <2>1, EarliestFrom
<1>12. Earliest(w, Waiters) > 0
  <2>1. Earliest(w, Waiters) \in Int
    BY <1>7, TimesAre
  <2>. QED
    BY <1>10, <2>1
<1> HIDE DEF c, w
<1>. QED
  BY <1>2, <1>4, <1>8, <1>9, <1>11, <1>12 DEF Exact

-----------------------------------------------------------------------------
(***************************************************************************)
(* What an entry leaves: nothing due, and when the next thing is.          *)
(***************************************************************************)
LEMMA SliceEndIs ==
  ASSUME NEW w \in Kernel, NEW r \in SliceEnd(w), Exact(w)
  PROVE  /\ r \in Kernel /\ Exact(r) /\ r.due = w.due /\ r.waitDue = w.waitDue /\ r.away = w.away
         /\ r.away \/ r.slice > 0
<1>1. CASE w.away
  BY <1>1 DEF SliceEnd
<1>2. CASE ~w.away
  <2>1. PICK q \in {Quantum, Never} : r = [w EXCEPT !.slice = q]
    BY <1>2 DEF SliceEnd
  <2>2. q \in Times /\ q > 0
    BY TimesAre, ClockAssumption
  <2>3. r \in Kernel /\ r.due = w.due /\ r.waitDue = w.waitDue /\ r.away = w.away /\ r.slice = q
    BY <2>1, <2>2 DEF Kernel
  <2>4. Exact(r)
    BY <2>3 DEF Exact, Earliest
  <2>. QED
    BY <2>2, <2>3, <2>4
<1>. QED
  BY <1>1, <1>2

LEMMA AfterTimerPoll ==
  ASSUME NEW s \in Kernel, Exact(s)
  PROVE  Exact(TimerPoll(s))
<1>1. {TimerPoll(s).due[i] : i \in Waiters} = {s.due[i] : i \in Waiters}
  BY TimerPollIs
<1>. QED
  BY <1>1, TimerPollIs DEF Exact, Earliest

LEMMA ArmedAfter ==
  ASSUME NEW s \in Kernel, \A i \in Timers : s.due[i] > 0, s.waitDue > 0, s.away \/ s.slice > 0
  PROVE  ArmTime(s) > 0
<1>1. \A n \in Times : n > 0 <=> 1 <= n
  BY TimesAre
<1>2. 1 <= s.waitDue /\ (~s.away => 1 <= s.slice) /\ \A i \in Timers : 1 <= s.due[i]
  BY <1>1 DEF Kernel
<1>3. 1 <= ArmTime(s)
  BY <1>2, ArmTimeFrom, TimesAre
<1>. QED
  BY <1>1, <1>3, ArmTimeIs

LEMMA HandledIs ==
  ASSUME k \in Kernel, Exact(k), NEW r \in Handled
  PROVE  r \in Kernel /\ Exact(r) /\ ArmTime(r) > 0
<1> DEFINE t == IF TimerDue(k) <= 0 THEN TimerPoll(k) ELSE k
           w == IF t.waitDue <= 0 THEN CheckWaits(t) ELSE t
<1>1. /\ t \in Kernel /\ Exact(t) /\ t.slice = k.slice /\ t.away = k.away
      /\ \A i \in Timers : t.due[i] > 0
  <2>1. CASE TimerDue(k) <= 0
    BY <2>1, TimerPollIs, AfterTimerPoll
  <2>2. CASE ~(TimerDue(k) <= 0)
    <3>1. t = k
      BY <2>2
    <3>2. \A i \in Timers : k.due[i] > 0
      <4> TAKE i \in Timers
      <4>1. TimerDue(k) \in Times /\ TimerDue(k) <= k.due[i] /\ k.due[i] \in Times
        BY EarliestIs DEF TimerDue, Kernel
      <4>2. TimerDue(k) \in Int /\ k.due[i] \in Int
        BY <4>1, TimesAre
      <4>. QED
        BY <2>2, <4>1, <4>2
    <3>. QED
      BY <3>1, <3>2
  <2>. QED
    BY <2>1, <2>2
<1> HIDE DEF t
<1>2. /\ w \in Kernel /\ Exact(w) /\ w.slice = k.slice /\ w.away = k.away
      /\ (\A i \in Timers : w.due[i] > 0) /\ w.waitDue > 0
  <2>1. CASE t.waitDue <= 0
    BY <1>1, <2>1, CheckWaitsIs
  <2>2. CASE ~(t.waitDue <= 0)
    <3>1. t.waitDue \in Int
      BY <1>1, TimesAre DEF Kernel
    <3>. QED
      BY <1>1, <2>2, <3>1
  <2>. QED
    BY <2>1, <2>2
<1>3. Handled = IF k.slice <= 0 THEN SliceEnd(w) ELSE {w}
  BY DEF Handled, t
<1> HIDE DEF w
<1>4. /\ r \in Kernel /\ Exact(r) /\ r.due = w.due /\ r.waitDue = w.waitDue
      /\ r.away \/ r.slice > 0
  <2>1. CASE k.slice <= 0
    BY <1>2, <1>3, <2>1, SliceEndIs
  <2>2. CASE ~(k.slice <= 0)
    <3>1. k.slice \in Int
      BY TimesAre DEF Kernel
    <3>. QED
      BY <1>2, <1>3, <2>2, <3>1
  <2>. QED
    BY <2>1, <2>2
<1>. QED
  BY <1>2, <1>4, ArmedAfter

LEMMA ScheduleIs ==
  ASSUME NEW s \in Kernel, NEW r \in Schedule(s)
  PROVE  /\ r \in Kernel /\ Exact(r) /\ ArmTime(r) >= 0
         /\ \A n \in Times :
              /\ \A i \in Timers : n <= s.due[i]
              /\ \A i \in Waiters : n <= s.due[i]
              /\ r.away
              => n <= ArmTime(r)
<1> DEFINE p == TimerPoll(s)
           w == CheckWaits(p)
<1>1. p \in Kernel /\ (\A i \in Timers : p.due[i] > 0 /\ p.due[i] >= s.due[i])
      /\ \A i \in Waiters : p.due[i] = s.due[i]
  BY TimerPollIs
<1>2. PICK a \in BOOLEAN, q \in Times :
        r = [w EXCEPT !.away = a, !.slice = q] /\ (a \/ q >= 0)
  <2>1. w \in Kernel
    BY <1>1, CheckWaitsIs
  <2>2. CASE r = [w EXCEPT !.away = TRUE]
    <3>1. r = [w EXCEPT !.away = TRUE, !.slice = w.slice] /\ w.slice \in Times
      BY <2>1, <2>2 DEF Kernel
    <3>. QED
      BY <3>1
  <2>3. ASSUME NEW q \in 0 .. Quantum, r = [w EXCEPT !.away = FALSE, !.slice = q]
        PROVE  \E a \in BOOLEAN, m \in Times :
                 r = [w EXCEPT !.away = a, !.slice = m] /\ (a \/ m >= 0)
    <3>1. q \in Times /\ q >= 0
      BY TimesAre, ClockAssumption
    <3>. QED
      BY <2>3, <3>1
  <2>4. \/ r = [w EXCEPT !.away = TRUE]
        \/ \E q \in 0 .. Quantum : r = [w EXCEPT !.away = FALSE, !.slice = q]
    BY DEF Schedule
  <2>. QED
    BY <2>2, <2>3, <2>4
<1>3. /\ w \in Kernel /\ Exact(w) /\ w.waitDue > 0
      /\ \A i \in Timers : w.due[i] = p.due[i]
      /\ \A n \in Times : (\A i \in Waiters : n <= p.due[i]) => n <= w.waitDue
  BY <1>1, CheckWaitsIs
<1> HIDE DEF w, p
<1>4. /\ r \in Kernel /\ r.due = w.due /\ r.waitDue = w.waitDue /\ r.away = a /\ r.slice = q
  BY <1>2, <1>3 DEF Kernel
<1>5. Exact(r)
  BY <1>3, <1>4 DEF Exact, Earliest
<1>6. ArmTime(r) >= 0
  <2>1. \A n \in Times : n > 0 => 0 <= n
    BY TimesAre
  <2>2. 0 <= r.waitDue /\ (~r.away => 0 <= r.slice) /\ \A i \in Timers : 0 <= r.due[i]
    BY <1>1, <1>2, <1>3, <1>4, <2>1 DEF Kernel
  <2>3. 0 <= ArmTime(r)
    BY <1>4, <2>2, ArmTimeFrom, TimesAre
  <2>. QED
    BY <1>4, <2>3, ArmTimeIs, TimesAre
<1>7. ASSUME NEW n \in Times, \A i \in Timers : n <= s.due[i], \A i \in Waiters : n <= s.due[i],
             r.away
      PROVE  n <= ArmTime(r)
  <2>1. \A i \in Timers : n <= r.due[i]
    <3> TAKE i \in Timers
    <3>1. n \in Int /\ s.due[i] \in Int /\ p.due[i] \in Int
      BY <1>1, TimesAre DEF Kernel
    <3>. QED
      BY <1>1, <1>3, <1>4, <1>7, <3>1
  <2>2. n <= r.waitDue
    BY <1>1, <1>3, <1>4, <1>7
  <2>. QED
    BY <1>4, <1>7, <2>1, <2>2, ArmTimeFrom
<1>. QED
  BY <1>4, <1>5, <1>6, <1>7

LEMMA LeftIs ==
  ASSUME NEW n \in Times
  PROVE  /\ Left(n) \in Times /\ n - 1 <= Left(n) /\ Left(n) <= n
         /\ \A m \in Times : m <= n => Left(m) <= Left(n)
         /\ 0 - MaxLate < n /\ n < Never => Left(n) = n - 1
         /\ Left(Never) = Never
<1>1. \A m \in Times : Left(m) = IF m = Never THEN Never
                                 ELSE IF m - 1 >= 0 - MaxLate THEN m - 1 ELSE 0 - MaxLate
  <2> TAKE m \in Times
  <2>1. m - 1 \in Int /\ 0 - MaxLate \in Int
    BY TimesAre
  <2>. QED
    BY <2>1, MaxOfTwo DEF Left
<1>2. \A m \in Times : m \in Int /\ 0 - MaxLate <= m /\ m <= Never
  BY TimesAre
<1>3. Never \in Int /\ MaxLate \in Nat /\ Never > 1 /\ Never \in Times
  BY TimesAre
<1>4. Left(n) \in Int /\ 0 - MaxLate <= Left(n) /\ Left(n) <= Never
  BY <1>1, <1>2, <1>3
<1>5. Left(n) \in Times
  BY <1>4, TimesAre
<1>6. n - 1 <= Left(n) /\ Left(n) <= n
  BY <1>1, <1>2, <1>3
<1>7. ASSUME NEW m \in Times, m <= n
      PROVE  Left(m) <= Left(n)
  BY <1>1, <1>2, <1>3, <1>7
<1>. QED
  BY <1>1, <1>2, <1>3, <1>5, <1>6, <1>7

LEMMA TimePassesIs ==
  ASSUME k \in Kernel, Exact(k), TimePasses
  PROVE  /\ k' \in Kernel /\ Exact(k')
         /\ \A n \in Times : n <= ArmTime(k) => Left(n) <= ArmTime(k')
<1> DEFINE f == [i \in Timers \cup Waiters |-> Left(k.due[i])]
<1>1. DOMAIN k.due = Timers \cup Waiters /\ k.due \in [Timers \cup Waiters -> Times]
      /\ k.waitDue \in Times /\ k.slice \in Times
  BY DEF Kernel
<1>2. k' = [k EXCEPT !.due = f, !.waitDue = Left(k.waitDue), !.slice = Left(k.slice)]
  BY <1>1 DEF TimePasses
<1>3. f \in [Timers \cup Waiters -> Times] /\ \A i \in Timers \cup Waiters : f[i] = Left(k.due[i])
  BY <1>1, LeftIs
<1> HIDE DEF f
<1>4. /\ k' \in Kernel /\ k'.due = f /\ k'.waitDue = Left(k.waitDue) /\ k'.slice = Left(k.slice)
      /\ k'.away = k.away
  BY <1>1, <1>2, <1>3, LeftIs DEF Kernel
<1>5. Exact(k')
  <2>1. /\ \A i \in Waiters : k.waitDue <= k.due[i]
        /\ k.waitDue = Never \/ \E i \in Waiters : k.waitDue = k.due[i]
    BY EarliestIs DEF Exact
  <2>2. \A i \in Waiters : k'.waitDue <= k'.due[i]
    BY <1>1, <1>3, <1>4, <2>1, LeftIs
  <2>3. k'.waitDue = Never \/ \E i \in Waiters : k'.waitDue = k'.due[i]
    BY <1>1, <1>3, <1>4, <2>1, LeftIs
  <2>4. k'.waitDue = Earliest(k', Waiters)
    BY <1>4, <2>2, <2>3, EarliestOnly DEF Kernel
  <2>. QED
    BY <2>4 DEF Exact
<1>6. ASSUME NEW n \in Times, n <= ArmTime(k)
      PROVE  Left(n) <= ArmTime(k')
  <2>1. ArmTime(k) \in Times
    BY ArmTimeIs
  <2>2. \A m \in Times : ArmTime(k) <= m => Left(n) <= Left(m)
    <3> TAKE m \in Times
    <3> HAVE ArmTime(k) <= m
    <3>1. n <= m
      <4>1. n \in Int /\ m \in Int /\ ArmTime(k) \in Int
        BY <2>1, TimesAre
      <4>. QED
        BY <1>6, <4>1
    <3>. QED
      BY <3>1, LeftIs
  <2>3. \A i \in Timers : Left(n) <= k'.due[i]
    BY <1>1, <1>3, <1>4, <2>2, ArmTimeIs
  <2>4. Left(n) <= k'.waitDue /\ (~k'.away => Left(n) <= k'.slice)
    BY <1>1, <1>4, <2>2, ArmTimeIs
  <2>. QED
    BY <1>4, <2>3, <2>4, LeftIs, ArmTimeFrom
<1>. QED
  BY <1>4, <1>5, <1>6

-----------------------------------------------------------------------------
(***************************************************************************)
(* The steps, as far as the cache of the waits goes.                       *)
(***************************************************************************)
WaitsKept == k \in Kernel /\ Exact(k)

LEMMA InitKernel == Init => WaitsKept
<1> SUFFICES ASSUME Init PROVE WaitsKept
  OBVIOUS
<1>1. k \in Kernel
  BY TimesAre DEF Init, Kernel
<1>2. \A i \in Waiters : Never <= k.due[i]
  BY TimesAre DEF Init
<1>3. k.waitDue = Never
  BY DEF Init
<1>4. Never = Earliest(k, Waiters)
  BY <1>1, <1>2, EarliestOnly, TimesAre
<1>. QED
  BY <1>1, <1>3, <1>4 DEF Exact, WaitsKept

LEMMA SetTimerIs ==
  ASSUME WaitsKept, NEW t \in Timers, NEW n \in 0 .. Never, KeSetTimer(t, n)
  PROVE  /\ k' \in Kernel /\ Exact(k')
         /\ \A m \in Times : m <= ArmTime(k) /\ m <= 0 => m <= ArmTime(k')
<1>1. n \in Times /\ n >= 0 /\ n \in Int
  BY TimesAre
<1>2. k' = [k EXCEPT !.due[t] = n]
  BY DEF KeSetTimer
<1>3. /\ k' \in Kernel /\ k'.waitDue = k.waitDue /\ k'.slice = k.slice /\ k'.away = k.away
      /\ \A i \in Timers \cup Waiters : k'.due[i] = IF i = t THEN n ELSE k.due[i]
  BY <1>1, <1>2 DEF Kernel, WaitsKept
<1>4. {k'.due[i] : i \in Waiters} = {k.due[i] : i \in Waiters}
  BY <1>3, ClockAssumption
<1>5. Exact(k')
  BY <1>3, <1>4 DEF Exact, Earliest, WaitsKept
<1>6. ASSUME NEW m \in Times, m <= ArmTime(k), m <= 0
      PROVE  m <= ArmTime(k')
  <2>1. ArmTime(k) \in Times /\ m \in Int /\ ArmTime(k) \in Int
    BY ArmTimeIs, TimesAre DEF WaitsKept
  <2>2. \A x \in Times : ArmTime(k) <= x => m <= x
    <3> TAKE x \in Times
    <3>1. x \in Int
      BY TimesAre
    <3>. QED
      BY <1>6, <2>1, <3>1
  <2>3. m <= n
    BY <1>1, <1>6, <2>1
  <2>4. \A i \in Timers : m <= k'.due[i]
    BY <1>3, <2>2, <2>3, ArmTimeIs DEF Kernel, WaitsKept
  <2>5. m <= k'.waitDue /\ (~k'.away => m <= k'.slice)
    BY <1>3, <2>2, ArmTimeIs DEF Kernel, WaitsKept
  <2>. QED
    BY <1>3, <2>4, <2>5, ArmTimeFrom
<1>. QED
  BY <1>3, <1>5, <1>6

LEMMA SetEventIs ==
  ASSUME WaitsKept, NEW w \in Waiters, KeSetEvent(w)
  PROVE  k' \in Kernel /\ Exact(k') /\ ArmTime(k) <= ArmTime(k')
<1> DEFINE s == [k EXCEPT !.due[w] = Never]
<1>1. /\ s \in Kernel /\ s.slice = k.slice /\ s.away = k.away
      /\ \A i \in Timers \cup Waiters : s.due[i] = IF i = w THEN Never ELSE k.due[i]
  BY TimesAre DEF Kernel, WaitsKept
<1>2. k' = CheckWaits(s)
  BY DEF KeSetEvent
<1> HIDE DEF s
<1>3. k.waitDue \in Times /\ k.waitDue <= Never /\ \A i \in Waiters : k.waitDue <= k.due[i]
  BY EarliestIs, TimesAre DEF Exact, Kernel, WaitsKept
<1>4. \A i \in Waiters : k.waitDue <= s.due[i]
  BY <1>1, <1>3
<1>5. k' \in Kernel /\ Exact(k') /\ k'.slice = k.slice /\ k'.away = k.away /\ k.waitDue <= k'.waitDue
  BY <1>1, <1>2, <1>3, <1>4, CheckWaitsIs
<1>6. \A i \in Timers : k'.due[i] = k.due[i]
  <2>1. \A i \in Timers : s.due[i] = k.due[i]
    BY <1>1, ClockAssumption
  <2>. QED
    BY <1>1, <1>2, <2>1, CheckWaitsIs
<1>7. ArmTime(k) \in Times /\ ArmTime(k) <= k'.waitDue
  <2>1. ArmTime(k) \in Int /\ k.waitDue \in Int /\ k'.waitDue \in Int
    BY <1>3, <1>5, ArmTimeIs, TimesAre DEF Kernel, WaitsKept
  <2>. QED
    BY <1>5, <2>1, ArmTimeIs DEF WaitsKept
<1>. QED
  BY <1>5, <1>6, <1>7, ArmTimeFrom, ArmTimeIs DEF WaitsKept

LEMMA WaitIs ==
  ASSUME WaitsKept, NEW w \in Waiters, NEW n \in 1 .. MaxDelay, KeWait(w, n)
  PROVE  k' \in Kernel /\ Exact(k') /\ ArmTime(k') >= 0
<1>1. n \in Times
  BY TimesAre, ClockAssumption DEF Never
<1>2. [k EXCEPT !.due[w] = n] \in Kernel
  BY <1>1 DEF Kernel, WaitsKept
<1>3. k' \in Schedule([k EXCEPT !.due[w] = n])
  BY DEF KeWait
<1>. QED
  BY <1>2, <1>3, ScheduleIs

LEMMA RescheduleIs ==
  ASSUME WaitsKept, Reschedule
  PROVE  /\ k' \in Kernel /\ Exact(k') /\ ArmTime(k') >= 0
         /\ k'.away => ArmTime(k) <= ArmTime(k')
<1>1. k' \in Schedule(k) /\ k \in Kernel
  BY DEF Reschedule, WaitsKept
<1>2. ArmTime(k) \in Times /\ \A i \in Timers : ArmTime(k) <= k.due[i]
  BY <1>1, ArmTimeIs
<1>3. \A i \in Waiters : ArmTime(k) <= k.due[i]
  <2> TAKE i \in Waiters
  <2>1. ArmTime(k) <= k.waitDue /\ k.waitDue <= k.due[i]
    BY <1>1, ArmTimeIs, EarliestIs DEF Exact, WaitsKept
  <2>2. ArmTime(k) \in Int /\ k.waitDue \in Int /\ k.due[i] \in Int
    BY <1>1, <1>2, TimesAre DEF Kernel
  <2>. QED
    BY <2>1, <2>2
<1>. QED
  BY <1>1, <1>2, <1>3, ScheduleIs

LEMMA NextKernel == WaitsKept /\ [Next]_vars => WaitsKept'
<1> SUFFICES ASSUME WaitsKept, [Next]_vars PROVE k' \in Kernel /\ Exact(k')
  BY DEF WaitsKept, Exact, Earliest
<1>1. CASE UNCHANGED k
  BY <1>1 DEF WaitsKept
<1>2. CASE LookAtClock /\ k' \in Handled
  BY <1>2, HandledIs DEF WaitsKept
<1>3. ASSUME NEW t \in Timers, NEW n \in 0 .. Never, KeSetTimer(t, n)
      PROVE  k' \in Kernel /\ Exact(k')
  BY <1>3, SetTimerIs
<1>4. ASSUME NEW w \in Waiters, KeSetEvent(w)
      PROVE  k' \in Kernel /\ Exact(k')
  BY <1>4, SetEventIs
<1>5. ASSUME NEW w \in Waiters, NEW n \in 1 .. MaxDelay, KeWait(w, n)
      PROVE  k' \in Kernel /\ Exact(k')
  BY <1>5, WaitIs
<1>6. CASE Reschedule
  BY <1>6, RescheduleIs
<1>7. CASE TimePasses
  BY <1>7, TimePassesIs DEF WaitsKept
<1>8. CASE EnterCall \/ EnterInterrupt \/ Return \/ ClockRearmed \/ ClockWakes \/ ClockAsks
  BY <1>1, <1>8 DEF EnterCall, EnterInterrupt, Return, ClockRearmed, ClockWakes, ClockAsks
<1>9. CASE LookAtClock
  BY <1>1, <1>2, <1>9 DEF LookAtClock
<1>10. CASE UNCHANGED vars
  BY <1>1, <1>10 DEF vars
<1>. QED
  BY <1>3, <1>4, <1>5, <1>6, <1>7, <1>8, <1>9, <1>10 DEF Next

(* The time of the earliest wait that the kernel keeps beside the waits    *)
(* (wait_due_ns, ps.c) is the earliest of theirs after every call, entry   *)
(* and pass, whatever ends a wait: no timeout is lost to a stale cache.    *)
THEOREM WaitDueStaysExact == Spec => []WaitDueExact
<1>1. WaitsKept => WaitDueExact
  BY DEF WaitsKept, WaitDueExact, Exact
<1>. QED
  BY <1>1, InitKernel, NextKernel, PTL DEF Spec

-----------------------------------------------------------------------------
(***************************************************************************)
(* The inductive invariant of OnTime: whenever something is due by the     *)
(* time the clock thread wakes, the thread is armed for it or has told the *)
(* CPU, or will ask it before it sleeps again.                             *)
(***************************************************************************)
D == ArmTime(k)
ClockType ==
  /\ clock \in [due : Times, signaled : BOOLEAN, wake : Int, woke : BOOLEAN]
  /\ clock.due >= 0 - Lag /\ 0 - Lag <= clock.wake /\ clock.wake <= 1
SharedType ==
  /\ shared \in [age : 0 .. STALE + 1, moved : BOOLEAN, refreshed : BOOLEAN, request : BOOLEAN]
  /\ clock.wake + shared.age <= 1
CpuType == cpu \in {"guest", "entered", "looked"}

(* The clock thread has that time or an earlier one; when it is not        *)
(* signaled it wakes by its own time.                                      *)
Armed == clock.due <= D
Wakes ==
  /\ clock.woke => ~clock.signaled /\ clock.wake <= 0
  /\ clock.signaled => Armed
  /\ ~clock.signaled => clock.wake <= clock.due

(* The CPU left its look at the clock by the time published before the     *)
(* clock thread asks: it is asked again, so what came due in between is a  *)
(* lag late at most.                                                       *)
Asked ==
  /\ ~shared.refreshed /\ D >= clock.wake - Lag - 1
  /\ cpu = "looked" => clock.wake = 1 /\ ~clock.woke
Told == shared.request \/ Armed \/ D >= clock.wake \/ cpu = "entered" \/ Asked
Seen == cpu = "looked" => D >= 0 - Lag
Late == D >= 0 - 2 * Lag - 1

ClockInv == WaitsKept /\ ClockType /\ SharedType /\ CpuType /\ Wakes /\ Told /\ Seen /\ Late

(* What the proofs are about.                                              *)
Ticks == Tick /\ MaxLate >= 2 * Lag + 2

LEMMA LagIs == Lag \in Nat /\ Lag \in Int /\ (Ticks => 0 - Lag \in Times)
  BY ClockAssumption, TimesAre DEF Ticks

LEMMA ArmTimeType == WaitsKept => D \in Times /\ D \in Int
  BY ArmTimeIs, TimesAre DEF WaitsKept, D

LEMMA SleepIs ==
  ASSUME Tick, NEW n \in Times
  PROVE  Sleep(n) = IF n <= 1 THEN n ELSE 1
<1>1. Sleep(n) = IF 1 <= n THEN 1 ELSE n
  BY TimesAre, MinOfTwo DEF Sleep
<1>. QED
  BY <1>1, TimesAre

(* The clock thread is told, or has an earlier time.                       *)
LEMMA ArmIs ==
  ASSUME Ticks, ClockInv, k' \in Kernel, Arm(k'), ArmTime(k') >= 0 - Lag
  PROVE  /\ clock' \in [due : Times, signaled : BOOLEAN, wake : Int, woke : BOOLEAN]
         /\ clock'.due >= 0 - Lag /\ clock'.wake = clock.wake /\ clock'.woke = clock.woke
         /\ clock'.due <= ArmTime(k')
         /\ clock'.woke => ~clock'.signaled
         /\ ~clock'.signaled => clock'.due = clock.due /\ ~clock.signaled
<1> DEFINE n == ArmTime(k')
<1>1. n \in Times /\ n \in Int /\ clock.due \in Int
  BY ArmTimeIs, TimesAre DEF ClockInv, ClockType
<1>2. CASE n < clock.due
  <2>1. clock' = [clock EXCEPT !.due = n, !.signaled = TRUE]
    BY <1>2 DEF Arm
  <2>2. n # Never
    BY <1>1, <1>2, TimesAre DEF ClockInv, ClockType
  <2>3. ~clock.woke
    BY <2>2 DEF Arm
  <2> HIDE DEF n
  <2>4. /\ clock' \in [due : Times, signaled : BOOLEAN, wake : Int, woke : BOOLEAN]
        /\ clock'.due = n /\ clock'.signaled /\ clock'.wake = clock.wake /\ clock'.woke = clock.woke
    BY <1>1, <2>1 DEF ClockInv, ClockType
  <2>. QED
    BY <1>1, <2>3, <2>4 DEF n
<1>3. CASE ~(n < clock.due)
  <2>1. clock' = clock
    BY <1>3 DEF Arm
  <2>2. clock.due <= n
    BY <1>1, <1>3
  <2>. QED
    BY <2>1, <2>2 DEF ClockInv, ClockType, Wakes
<1>. QED
  BY <1>2, <1>3

(* A kernel entry that leaves the clock thread armed.                      *)
LEMMA ArmedStep ==
  ASSUME Ticks, ClockInv, WaitsKept', Arm(k'), ArmTime(k') >= 0 - Lag,
         cpu' \in {"guest", "looked"}, shared' = shared
  PROVE  ClockInv'
<1>1. k' \in Kernel
  BY DEF WaitsKept
<1>2. /\ clock' \in [due : Times, signaled : BOOLEAN, wake : Int, woke : BOOLEAN]
      /\ clock'.due >= 0 - Lag /\ clock'.wake = clock.wake /\ clock'.woke = clock.woke
      /\ clock'.due <= ArmTime(k')
      /\ clock'.woke => ~clock'.signaled
      /\ ~clock'.signaled => clock'.due = clock.due /\ ~clock.signaled
  BY <1>1, ArmIs
<1>3. D' = ArmTime(k')
  BY DEF D, ArmTime, TimerDue, Earliest
<1>4. Armed'
  BY <1>2, <1>3 DEF Armed
<1>5. ClockType' /\ SharedType' /\ CpuType'
  BY <1>2 DEF ClockInv, ClockType, SharedType, CpuType
<1>6. Wakes'
  BY <1>2, <1>4 DEF ClockInv, Wakes
<1>7. Late' /\ Seen'
  <2>1. D' \in Int
    BY <1>1, <1>3, ArmTimeIs, TimesAre
  <2>. QED
    BY <1>3, <2>1, LagIs DEF Late, Seen
<1>. QED
  BY <1>4, <1>5, <1>6, <1>7 DEF ClockInv, Told

(* One that does not, and makes nothing due earlier.                       *)
LEMMA RaisingStep ==
  ASSUME Ticks, ClockInv, WaitsKept', D <= D', clock' = clock, shared' = shared,
         cpu = "looked", cpu' = "guest"
  PROVE  ClockInv'
<1>1. D \in Int /\ D' \in Int
  BY ArmTimeType, ArmTimeIs, TimesAre DEF ClockInv, WaitsKept, D
<1>2. ClockType' /\ SharedType' /\ CpuType' /\ Seen'
  BY DEF ClockInv, ClockType, SharedType, CpuType, Seen
<1>3. clock.due \in Int /\ clock.wake \in Int
  BY TimesAre DEF ClockInv, ClockType
<1>4. Armed => Armed'
  BY <1>1, <1>3 DEF Armed
<1>5. Wakes' /\ Late'
  BY <1>1, <1>4, LagIs DEF ClockInv, Wakes, Late
<1>6. (D >= clock.wake => D' >= clock'.wake) /\ (Asked => Asked')
  BY <1>1, <1>3, LagIs DEF Asked
<1>7. Told'
  BY <1>4, <1>6 DEF ClockInv, Told
<1>. QED
  BY <1>2, <1>5, <1>7 DEF ClockInv

LEMMA NotBefore == ASSUME k' \in Kernel, ArmTime(k') >= 0 PROVE ArmTime(k') >= 0 - Lag
<1>1. ArmTime(k') \in Int
  BY ArmTimeIs, TimesAre
<1>. QED
  BY <1>1, LagIs

LEMMA LookStep == ASSUME Ticks, ClockInv, WaitsKept', LookAtClock PROVE ClockInv'
<1>1. CASE NothingDue /\ UNCHANGED << k, clock >>
  <2>1. cpu' = "looked" /\ shared' = shared /\ k' = k /\ clock' = clock /\ D' = D
    BY <1>1 DEF LookAtClock, D, ArmTime, TimerDue, Earliest
  <2>2. D \in Int /\ NextDue \in Int /\ NextDue <= D /\ Never \in Int /\ Never > 1
        /\ (NextDue = Never => D = Never)
    <3>1. NextDue \in Times /\ NextDue <= D /\ D \in Times
      BY NextDueFrom, ArmTimeType DEF ClockInv, WaitsKept, D
    <3>2. Never \in Int /\ \A n \in Times : n \in Int /\ n <= Never
      BY TimesAre
    <3>. QED
      BY <3>1, <3>2, TimesAre
  <2>3. clock.wake \in Int /\ shared.age \in Int /\ 0 - Lag <= clock.wake /\ clock.wake <= 1
        /\ clock.wake + shared.age <= 1
    BY DEF ClockInv, ClockType, SharedType
  <2>4. D >= clock.wake /\ D >= 0 - Lag
    <3>1. CASE NextDue = Never
      BY <2>2, <2>3, <3>1, LagIs
    <3>2. CASE shared.age <= STALE /\ NextDue > CLOCK_SLACK - shared.age
      <4>1. CLOCK_SLACK - shared.age = 2 - shared.age
        BY DEF CLOCK_SLACK
      <4>2. D > 2 - shared.age /\ 2 - shared.age >= clock.wake + 1
        BY <2>2, <2>3, <3>2, <4>1
      <4>. QED
        BY <2>2, <2>3, <4>2, LagIs
    <3>3. CASE NextDue > 0
      BY <2>2, <2>3, <3>3, LagIs
    <3>. QED
      BY <1>1, <3>1, <3>2, <3>3 DEF NothingDue, NothingNear, Published
  <2>5. ClockType' /\ SharedType' /\ CpuType'
    BY <2>1 DEF ClockInv, ClockType, SharedType, CpuType
  <2>6. Wakes' /\ Late' /\ Seen'
    BY <2>1, <2>4 DEF ClockInv, Wakes, Late, Seen, Armed
  <2>7. Told'
    BY <2>1, <2>4 DEF Told
  <2>. QED
    BY <2>5, <2>6, <2>7 DEF ClockInv
<1>2. CASE k' \in Handled /\ Arm(k')
  <2>1. k' \in Kernel /\ ArmTime(k') > 0
    BY <1>2, HandledIs DEF ClockInv, WaitsKept
  <2>2. ArmTime(k') >= 0
    <3>1. ArmTime(k') \in Int
      BY <2>1, ArmTimeIs, TimesAre
    <3>. QED
      BY <2>1, <3>1
  <2>3. ArmTime(k') >= 0 - Lag
    BY <2>1, <2>2, NotBefore
  <2>. QED
    BY <1>2, <2>3, ArmedStep DEF LookAtClock
<1>. QED
  BY <1>1, <1>2 DEF LookAtClock

LEMMA SetTimerStep ==
  ASSUME Ticks, ClockInv, WaitsKept', NEW t \in Timers, NEW n \in 0 .. Never, KeSetTimer(t, n)
  PROVE  ClockInv'
<1>1. 0 - Lag <= D
  BY ArmTimeType DEF KeSetTimer, Leaves, ClockInv, Seen, LagIs
<1>2. 0 - Lag <= ArmTime(k')
  BY <1>1, SetTimerIs, LagIs DEF ClockInv, D
<1>3. ArmTime(k') >= 0 - Lag
  BY <1>2, ArmTimeIs, TimesAre, LagIs DEF WaitsKept
<1>. QED
  BY <1>3, ArmedStep DEF KeSetTimer, Leaves

LEMMA WaitStep ==
  ASSUME Ticks, ClockInv, WaitsKept', NEW w \in Waiters, NEW n \in 1 .. MaxDelay, KeWait(w, n)
  PROVE  ClockInv'
<1>1. k' \in Kernel /\ ArmTime(k') >= 0
  BY WaitIs DEF ClockInv
<1>2. ArmTime(k') >= 0 - Lag
  BY <1>1, NotBefore
<1>. QED
  BY <1>2, ArmedStep DEF KeWait, Leaves

LEMMA SetEventStep ==
  ASSUME Ticks, ClockInv, WaitsKept', NEW w \in Waiters, KeSetEvent(w)
  PROVE  ClockInv'
<1>1. D <= D'
  BY SetEventIs DEF ClockInv, D, ArmTime, TimerDue, Earliest
<1>. QED
  BY <1>1, RaisingStep DEF KeSetEvent, Leaves

LEMMA RescheduleStep == ASSUME Ticks, ClockInv, WaitsKept', Reschedule PROVE ClockInv'
<1>1. k' \in Kernel /\ ArmTime(k') >= 0 /\ (k'.away => ArmTime(k) <= ArmTime(k'))
  BY RescheduleIs DEF ClockInv
<1>2. CASE Arm(k')
  <2>1. ArmTime(k') >= 0 - Lag
    BY <1>1, NotBefore
  <2>. QED
    BY <1>2, <2>1, ArmedStep DEF Reschedule, Leaves
<1>3. CASE k'.away /\ UNCHANGED clock
  <2>1. D <= D'
    BY <1>1, <1>3 DEF D, ArmTime, TimerDue, Earliest
  <2>. QED
    BY <1>3, <2>1, RaisingStep DEF Reschedule, Leaves
<1>. QED
  BY <1>2, <1>3 DEF Reschedule

LEMMA ReturnStep == ASSUME Ticks, ClockInv, WaitsKept', Return PROVE ClockInv'
<1>1. D' = D
  BY DEF Return, D, ArmTime, TimerDue, Earliest
<1>2. D <= D'
  BY <1>1, ArmTimeType DEF ClockInv
<1>. QED
  BY <1>2, RaisingStep DEF Return, Leaves

LEMMA EnterStep ==
  ASSUME Ticks, ClockInv, WaitsKept', EnterCall \/ EnterInterrupt PROVE ClockInv'
<1>1. cpu' = "entered" /\ k' = k /\ clock' = clock /\ shared'.age = shared.age
      /\ shared' \in [age : 0 .. STALE + 1, moved : BOOLEAN, refreshed : BOOLEAN, request : BOOLEAN]
  BY DEF EnterCall, EnterInterrupt, Published, ClockInv, SharedType
<1>2. D' = D
  BY <1>1 DEF D, ArmTime, TimerDue, Earliest
<1>3. ClockType' /\ SharedType' /\ CpuType'
  BY <1>1 DEF ClockInv, ClockType, SharedType, CpuType
<1>4. Wakes' /\ Late' /\ Seen'
  BY <1>1, <1>2 DEF ClockInv, Wakes, Late, Seen, Armed
<1>. QED
  BY <1>1, <1>3, <1>4 DEF ClockInv, Told

(* A time and a wake-up of the clock thread's are set.                      *)
LEMMA ClockSet ==
  ASSUME ClockType, NEW d \in Times, NEW w \in Int, NEW b \in BOOLEAN, b = clock.woke,
         clock' \in {[clock EXCEPT !.due = d, !.wake = w, !.woke = FALSE],
                     [clock EXCEPT !.due = d, !.wake = w]}
  PROVE  /\ clock' \in [due : Times, signaled : BOOLEAN, wake : Int, woke : BOOLEAN]
         /\ clock'.due = d /\ clock'.wake = w /\ clock'.signaled = clock.signaled
         /\ ~b => ~clock'.woke
<1>1. CASE clock' = [clock EXCEPT !.due = d, !.wake = w, !.woke = FALSE]
  BY <1>1 DEF ClockType
<1>2. CASE clock' = [clock EXCEPT !.due = d, !.wake = w]
  BY <1>2 DEF ClockType
<1>. QED
  BY <1>1, <1>2

LEMMA PublishIs ==
  ASSUME Tick, SharedType
  PROVE  /\ Publish(shared) \in [age : 0 .. STALE + 1, moved : BOOLEAN, refreshed : BOOLEAN,
                                 request : BOOLEAN]
         /\ Publish(shared).age = 0 /\ Publish(shared).refreshed = shared.refreshed
         /\ Publish(shared).request = shared.request
<1>1. shared \in [age : 0 .. STALE + 1, moved : BOOLEAN, refreshed : BOOLEAN, request : BOOLEAN]
      /\ 0 \in 0 .. STALE + 1 /\ (shared.moved \/ shared.age > 0) \in BOOLEAN
  BY DEF SharedType, STALE
<1>2. Publish(shared) = [shared EXCEPT !.age = 0, !.moved = shared.moved \/ shared.age > 0]
  BY DEF Publish
<1>. QED
  BY <1>1, <1>2

LEMMA RearmedStep == ASSUME Ticks, ClockInv, WaitsKept', ClockRearmed PROVE ClockInv'
<1>1. clock.due \in Times /\ clock.due \in Int /\ clock.due >= 0 - Lag /\ clock.signaled /\ ~clock.woke
  BY TimesAre DEF ClockInv, ClockType, ClockRearmed
<1>2. PICK w \in Int : w = Sleep(clock.due) /\ w <= 1 /\ w >= 0 - Lag /\ w <= clock.due
  BY <1>1, SleepIs, LagIs DEF Ticks
<1>3. clock' = [clock EXCEPT !.signaled = FALSE, !.wake = w] /\ shared' = Publish(shared)
      /\ k' = k /\ cpu' = cpu
  BY <1>2 DEF ClockRearmed
<1>4. /\ clock' \in [due : Times, signaled : BOOLEAN, wake : Int, woke : BOOLEAN]
      /\ clock'.due = clock.due /\ ~clock'.signaled /\ clock'.wake = w /\ ~clock'.woke
  BY <1>1, <1>3 DEF ClockInv, ClockType
<1>5. D' = D
  BY <1>3 DEF D, ArmTime, TimerDue, Earliest
<1>6. Armed'
  BY <1>1, <1>4, <1>5 DEF Armed, ClockInv, Wakes
<1>7. ClockType' /\ SharedType' /\ CpuType'
  BY <1>1, <1>2, <1>3, <1>4, PublishIs DEF ClockInv, ClockType, SharedType, CpuType, Ticks
<1>8. Wakes' /\ Late' /\ Seen'
  BY <1>2, <1>3, <1>4, <1>5, <1>6 DEF ClockInv, Wakes, Late, Seen
<1>. QED
  BY <1>6, <1>7, <1>8 DEF ClockInv, Told

LEMMA WakesStep == ASSUME Ticks, ClockInv, WaitsKept', ClockWakes PROVE ClockInv'
<1>1. clock' = [clock EXCEPT !.woke = TRUE] /\ shared' = Publish(shared) /\ k' = k /\ cpu' = cpu
      /\ ~clock.signaled /\ clock.wake <= 0 /\ ~clock.woke
  BY DEF ClockWakes
<1>2. /\ clock' \in [due : Times, signaled : BOOLEAN, wake : Int, woke : BOOLEAN]
      /\ clock'.due = clock.due /\ ~clock'.signaled /\ clock'.wake = clock.wake /\ clock'.woke
  BY <1>1 DEF ClockInv, ClockType
<1>3. D' = D
  BY <1>1 DEF D, ArmTime, TimerDue, Earliest
<1>4. ClockType' /\ SharedType' /\ CpuType'
  BY <1>1, <1>2, PublishIs DEF ClockInv, ClockType, SharedType, CpuType, Ticks
<1>5. Wakes' /\ Late' /\ Seen'
  BY <1>1, <1>2, <1>3 DEF ClockInv, Wakes, Late, Seen
<1>6. Asked => Asked'
  BY <1>1, <1>2, <1>3, PublishIs DEF ClockInv, Asked, Ticks
<1>7. Told'
  BY <1>1, <1>2, <1>3, <1>6, PublishIs DEF ClockInv, Told, Armed, Ticks
<1>. QED
  BY <1>4, <1>5, <1>7 DEF ClockInv

LEMMA AsksStep == ASSUME Ticks, ClockInv, WaitsKept', ClockAsks PROVE ClockInv'
<1> DEFINE due == clock.due <= 0
           left == IF due THEN Never ELSE clock.due
           tick == Tick /\ ~shared.refreshed /\ cpu = "guest"
<1>1. clock.woke /\ ~clock.signaled /\ clock.wake <= 0 /\ clock.wake \in Int /\ clock.wake >= 0 - Lag
      /\ clock.due \in Times /\ clock.due \in Int
  BY TimesAre DEF ClockAsks, ClockInv, Wakes, ClockType
<1>2. PICK l \in Times : l = left /\ l \in Int /\ l >= 1
  BY <1>1, TimesAre
<1>3. Sleep(l) = 1
  BY <1>2, SleepIs DEF Ticks
<1>4. PICK q \in BOOLEAN : q <=> shared.request \/ due \/ tick
  OBVIOUS
<1>5. clock' = [clock EXCEPT !.due = l, !.wake = 1, !.woke = FALSE] /\ k' = k /\ cpu' = cpu
  BY <1>2, <1>3 DEF ClockAsks
<1>6. shared' = [Publish(shared) EXCEPT !.request = q, !.refreshed = FALSE]
  <2>1. shared' = [Publish(shared) EXCEPT !.request = @ \/ due \/ tick, !.refreshed = FALSE]
    BY DEF ClockAsks
  <2>2. Publish(shared).request = shared.request
    BY PublishIs DEF Ticks, ClockInv
  <2>3. shared.request \in BOOLEAN
    BY DEF ClockInv, SharedType
  <2>4. (shared.request \/ due \/ tick) = q
    BY <1>4, <2>3
  <2>. QED
    BY <2>1, <2>2, <2>4
<1>7. /\ clock' \in [due : Times, signaled : BOOLEAN, wake : Int, woke : BOOLEAN]
      /\ clock'.due = l /\ ~clock'.signaled /\ clock'.wake = 1 /\ ~clock'.woke
  <2>1. clock'.woke = FALSE
    BY <1>5 DEF ClockInv, ClockType
  <2>2. 1 \in Int /\ clock.woke \in BOOLEAN /\ l \in Times
    BY DEF ClockInv, ClockType
  <2> HIDE DEF left
  <2>3. /\ clock' \in [due : Times, signaled : BOOLEAN, wake : Int, woke : BOOLEAN]
        /\ clock'.due = l /\ clock'.wake = 1 /\ clock'.signaled = clock.signaled
    BY <1>5, <2>2, ClockSet DEF ClockInv
  <2>. QED
    BY <1>1, <2>1, <2>3
<1>8. /\ shared' \in [age : 0 .. STALE + 1, moved : BOOLEAN, refreshed : BOOLEAN, request : BOOLEAN]
      /\ shared'.age = 0 /\ ~shared'.refreshed /\ shared'.request = q
  BY <1>6, PublishIs DEF ClockInv, Ticks
<1>9. D' = D
  BY <1>5 DEF D, ArmTime, TimerDue, Earliest
<1>10. ClockType' /\ SharedType' /\ CpuType'
  BY <1>2, <1>5, <1>7, <1>8, LagIs DEF ClockInv, ClockType, SharedType, CpuType
<1>11. Wakes' /\ Late' /\ Seen'
  BY <1>2, <1>5, <1>7, <1>9 DEF ClockInv, Wakes, Late, Seen
<1>12. Told'
  <2>1. CASE q
    BY <1>8, <2>1 DEF Told
  <2>2. CASE ~q
    <3>1. ~shared.request /\ ~due /\ ~tick
      BY <1>4, <2>2
    <3>2. clock'.due = clock.due
      BY <1>2, <1>7, <3>1
    <3>3. CASE Armed
      BY <1>9, <3>2, <3>3 DEF Armed, Told
    <3>4. CASE cpu = "entered"
      BY <1>5, <3>4 DEF Told
    <3>5. CASE D >= clock.wake
      <4>1. D \in Int
        BY ArmTimeType DEF ClockInv
      <4>2. D' >= clock'.wake - Lag - 1
        BY <1>1, <1>7, <1>9, <3>5, <4>1, LagIs
      <4>. QED
        BY <1>7, <1>8, <4>2 DEF Told, Asked
    <3>6. CASE Asked /\ cpu # "entered"
      <4>1. cpu \in {"guest", "looked"}
        BY <3>6 DEF ClockInv, CpuType
      <4>2. cpu = "looked"
        BY <3>1, <3>6, <4>1 DEF Asked, Ticks
      <4>. QED
        BY <1>1, <3>6, <4>2 DEF Asked
    <3>. QED
      BY <3>1, <3>3, <3>4, <3>5, <3>6 DEF ClockInv, Told
  <2>. QED
    BY <2>1, <2>2
<1>. QED
  BY <1>10, <1>11, <1>12 DEF ClockInv

LEMMA TimeStep == ASSUME Ticks, ClockInv, WaitsKept', TimePasses PROVE ClockInv'
<1>1. cpu = "guest" /\ ~shared.request /\ ~clock.woke /\ ~clock.signaled /\ clock.wake > 0 - Lag
      /\ clock.due \in Times /\ clock.wake \in Int /\ clock.wake <= 1 /\ clock.wake <= clock.due
      /\ clock.due \in Int /\ shared.age \in 0 .. 5
  BY TimesAre DEF TimePasses, ClockInv, ClockType, Wakes, SharedType, STALE
<1>2. D \in Times /\ D \in Int
  BY ArmTimeType DEF ClockInv
<1>3. D' \in Int /\ \A n \in Times : n <= D => Left(n) <= D'
  <2>1. D' = ArmTime(k')
    BY DEF D, ArmTime, TimerDue, Earliest
  <2>2. k' \in Kernel /\ \A n \in Times : n <= ArmTime(k) => Left(n) <= ArmTime(k')
    BY TimePassesIs DEF ClockInv, WaitsKept
  <2>. QED
    BY <2>1, <2>2, ArmTimeIs, TimesAre DEF D
<1>4. MaxLate \in Int /\ MaxLate >= 2 * Lag + 2 /\ Lag \in Nat /\ Never \in Int /\ Never > 1
  BY TimesAre, LagIs DEF Ticks
<1>5. clock.wake \in Times /\ Left(clock.wake) = clock.wake - 1
  <2>1. 0 - MaxLate < clock.wake /\ clock.wake < Never
    BY <1>1, <1>4
  <2>2. clock.wake \in Times
    BY <1>1, <2>1, TimesAre
  <2>. QED
    BY <2>1, <2>2, LeftIs
<1>6. PICK l \in Times : l = Left(clock.due) /\ l \in Int /\ clock.due - 1 <= l
  BY <1>1, LeftIs, TimesAre
<1>7. PICK a \in 0 .. 5 : a = Min({shared.age + 1, STALE + 1}) /\ a <= shared.age + 1
  <2>1. shared.age + 1 \in Int /\ STALE + 1 = 5
    BY <1>1 DEF STALE
  <2>. QED
    BY <1>1, <2>1, MinOfTwo
<1>8. clock' = [clock EXCEPT !.due = l, !.wake = clock.wake - 1]
      /\ shared' = [shared EXCEPT !.age = a] /\ cpu' = "guest"
  BY <1>1, <1>5, <1>6, <1>7 DEF TimePasses
<1>9. /\ clock' \in [due : Times, signaled : BOOLEAN, wake : Int, woke : BOOLEAN]
      /\ clock'.due = l /\ ~clock'.signaled /\ clock'.wake = clock.wake - 1
      /\ ~clock'.woke
  <2>1. clock.wake - 1 \in Int /\ clock.woke \in BOOLEAN /\ l \in Times
    BY <1>1 DEF ClockInv, ClockType
  <2>2. /\ clock' \in [due : Times, signaled : BOOLEAN, wake : Int, woke : BOOLEAN]
        /\ clock'.due = l /\ clock'.wake = clock.wake - 1 /\ clock'.signaled = clock.signaled
        /\ ~clock.woke => ~clock'.woke
    BY <1>8, <2>1, ClockSet DEF ClockInv
  <2>. QED
    BY <1>1, <2>2
<1>10. /\ shared' \in [age : 0 .. STALE + 1, moved : BOOLEAN, refreshed : BOOLEAN, request : BOOLEAN]
       /\ shared'.age = a /\ shared'.refreshed = shared.refreshed
  BY <1>8 DEF ClockInv, SharedType, STALE
<1>11. ClockType' /\ SharedType' /\ CpuType'
  BY <1>1, <1>4, <1>6, <1>7, <1>8, <1>9, <1>10 DEF ClockInv, ClockType, SharedType, CpuType
<1>12. Wakes' /\ Seen'
  BY <1>1, <1>6, <1>8, <1>9 DEF Wakes, Seen
<1>13. D - 1 <= D'
  <2>1. D <= D
    BY <1>2
  <2>2. Left(D) <= D' /\ D - 1 <= Left(D) /\ Left(D) \in Times
    BY <1>2, <1>3, <2>1, LeftIs
  <2>3. Left(D) \in Int
    BY <2>2, TimesAre
  <2>. QED
    BY <1>2, <1>3, <2>2, <2>3
<1>14. Armed \/ D >= clock.wake \/ Asked
  BY <1>1 DEF ClockInv, Told
<1>15. Late'
  <2>1. D >= clock.wake - Lag - 1
    BY <1>1, <1>2, <1>4, <1>14 DEF Armed, Asked
  <2>. QED
    BY <1>1, <1>2, <1>3, <1>4, <1>13, <2>1 DEF Late
<1>16. Told'
  <2>1. Armed => Armed'
    BY <1>1, <1>3, <1>6, <1>9 DEF Armed
  <2>2. D >= clock.wake => D' >= clock'.wake
    BY <1>1, <1>2, <1>3, <1>9, <1>13
  <2>3. Asked => Asked'
    BY <1>1, <1>2, <1>3, <1>4, <1>8, <1>9, <1>10, <1>13 DEF Asked
  <2>. QED
    BY <1>14, <2>1, <2>2, <2>3 DEF Told
<1>. QED
  BY <1>11, <1>12, <1>15, <1>16 DEF ClockInv

LEMMA InitClock == Ticks /\ Init => ClockInv
<1> SUFFICES ASSUME Ticks, Init PROVE ClockInv
  OBVIOUS
<1>1. WaitsKept
  BY InitKernel
<1>2. /\ clock = [due |-> Quantum, signaled |-> FALSE, wake |-> 1, woke |-> FALSE]
      /\ shared = [age |-> 0, moved |-> FALSE, refreshed |-> TRUE, request |-> FALSE]
      /\ cpu = "guest"
  BY DEF Init, Ticks
<1>3. Quantum \in Times /\ Quantum \in Int /\ Quantum >= 1 /\ Quantum <= Never
  BY TimesAre, ClockAssumption
<1>4. D >= Quantum
  <2>1. /\ k.slice = Quantum /\ k.waitDue = Never /\ \A i \in Timers : k.due[i] = Never
    BY DEF Init
  <2>2. Quantum <= ArmTime(k)
    BY <1>1, <1>3, <2>1, ArmTimeFrom DEF WaitsKept
  <2>. QED
    BY <1>1, <1>3, <2>2, ArmTimeType DEF D
<1>5. D \in Int
  BY <1>1, ArmTimeType
<1>6. Armed
  BY <1>2, <1>3, <1>4, <1>5 DEF Armed
<1>7. ClockType /\ SharedType /\ CpuType
  BY <1>2, <1>3, LagIs DEF ClockType, SharedType, CpuType, STALE
<1>8. Wakes /\ Told /\ Seen /\ Late
  BY <1>2, <1>3, <1>4, <1>5, <1>6, LagIs DEF Wakes, Told, Seen, Late
<1>. QED
  BY <1>1, <1>7, <1>8 DEF ClockInv

LEMMA NextClock == Ticks /\ ClockInv /\ [Next]_vars => ClockInv'
<1> SUFFICES ASSUME Ticks, ClockInv, [Next]_vars PROVE ClockInv'
  OBVIOUS
<1>1. WaitsKept'
  BY NextKernel DEF ClockInv
<1>2. CASE UNCHANGED vars
  <2>1. k' = k /\ clock' = clock /\ shared' = shared /\ cpu' = cpu
    BY <1>2 DEF vars
  <2>2. D' = D
    BY <2>1 DEF D, ArmTime, TimerDue, Earliest
  <2>3. ClockType' /\ SharedType' /\ CpuType' /\ Seen' /\ Late'
    BY <2>1, <2>2 DEF ClockInv, ClockType, SharedType, CpuType, Seen, Late
  <2>4. Wakes' /\ Told'
    BY <2>1, <2>2 DEF ClockInv, Wakes, Told, Armed, Asked
  <2>. QED
    BY <1>1, <2>3, <2>4 DEF ClockInv
<1>3. CASE Next
  BY <1>1, <1>3, LookStep, SetTimerStep, WaitStep, SetEventStep, RescheduleStep, ReturnStep,
     EnterStep, RearmedStep, WakesStep, AsksStep, TimeStep DEF Next
<1>. QED
  BY <1>2, <1>3

(* How late anything may be, MaxLate aside.                                *)
Within ==
  /\ \A i \in Timers \cup Waiters : k.due[i] >= 0 - 2 * Lag - 1
  /\ ~k.away => k.slice >= 0 - 2 * Lag - 1

LEMMA ClockWithin == ASSUME Ticks, ClockInv PROVE Within
<1>1. D \in Int /\ D >= 0 - 2 * Lag - 1 /\ k \in Kernel /\ Lag \in Int
  BY ArmTimeType, LagIs DEF ClockInv, Late, WaitsKept
<1>2. \A n \in Times : D <= n => n >= 0 - 2 * Lag - 1
  BY <1>1, TimesAre
<1>3. \A i \in Timers : k.due[i] >= 0 - 2 * Lag - 1
  BY <1>1, <1>2, ArmTimeIs DEF Kernel, D
<1>4. \A i \in Waiters : k.due[i] >= 0 - 2 * Lag - 1
  <2> TAKE i \in Waiters
  <2>1. D <= k.waitDue /\ k.waitDue <= k.due[i]
    BY <1>1, ArmTimeIs, EarliestIs DEF Exact, ClockInv, WaitsKept, D
  <2>2. k.waitDue \in Int /\ k.due[i] \in Int
    BY <1>1, TimesAre DEF Kernel
  <2>. QED
    BY <1>1, <2>1, <2>2
<1>5. ~k.away => k.slice >= 0 - 2 * Lag - 1
  BY <1>1, <1>2, ArmTimeIs DEF Kernel, D
<1>. QED
  BY <1>3, <1>4, <1>5 DEF Within

LEMMA ClockOnTime == ASSUME Ticks, ClockInv PROVE OnTime
<1>1. Within /\ k \in Kernel
  BY ClockWithin DEF ClockInv, WaitsKept
<1>2. \A n \in Times : n >= 0 - 2 * Lag - 1 => n > 0 - MaxLate
  BY LagIs, TimesAre DEF Ticks
<1>. QED
  BY <1>1, <1>2 DEF Within, Kernel, OnTime

(* With the interrupt for the time (NC_CLOCK_TICK, on unless it is         *)
(* switched off), a timer, the timeout of a wait and the end of a slice    *)
(* are handled no later than 2*Lag + 1 after they are due, Lag being how   *)
(* late the host may run the clock thread (ke.c nc_kernel_clock_arm and    *)
(* the clock thread, ps.c): the thread is told of every time earlier than  *)
(* the one it has, and its asking the CPU is never lost. The model counts  *)
(* lateness up to MaxLate, which must be more than that.                   *)
THEOREM LatenessBounded ==
  ASSUME Tick, MaxLate >= 2 * Lag + 2
  PROVE  Spec => []Within
<1>1. Ticks
  BY DEF Ticks
<1>2. Init => ClockInv
  BY <1>1, InitClock
<1>3. ClockInv /\ [Next]_vars => ClockInv'
  BY <1>1, NextClock
<1>4. ClockInv => Within
  BY <1>1, ClockWithin
<1>. QED
  BY <1>2, <1>3, <1>4, PTL DEF Spec

(* So nothing is as late as MaxLate, which is what the run checks.         *)
THEOREM ToldOnTime ==
  ASSUME Tick, MaxLate >= 2 * Lag + 2
  PROVE  Spec => []OnTime
<1>1. Ticks
  BY DEF Ticks
<1>2. Init => ClockInv
  BY <1>1, InitClock
<1>3. ClockInv /\ [Next]_vars => ClockInv'
  BY <1>1, NextClock
<1>4. ClockInv => OnTime
  BY <1>1, ClockOnTime
<1>. QED
  BY <1>2, <1>3, <1>4, PTL DEF Spec
=============================================================================
