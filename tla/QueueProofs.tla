---------------------------- MODULE QueueProofs -----------------------------
(***************************************************************************)
(* Proofs about what is queued for the GPU: CommandRing, for a buffer and  *)
(* positions of any size and any commands that take at most half the       *)
(* buffer, and Timeline, for any waiters, values and landings.             *)
(***************************************************************************)
EXTENDS CommandRing, Timeline, FiniteSetTheorems, SequenceTheorems, TLAPS, WellFoundedInduction

-----------------------------------------------------------------------------
(***************************************************************************)
(* CommandRing.                                                            *)
(***************************************************************************)

(***************************************************************************)
(* Offsets.                                                                *)
(***************************************************************************)

(* What a % S is.                                                          *)
LEMMA ModIs ==
  ASSUME NEW S \in Nat \ {0}, NEW a \in Int
  PROVE  a % S \in 0..(S - 1) /\ \E q \in Int : a = S * q + (a % S)
<1>1. a % S \in 0..(S - 1)
  OBVIOUS
<1>2. a \div S \in Int
  OBVIOUS
<1>3. a = S * (a \div S) + (a % S)
  BY Z3T(20)
<1>4. \E q \in Int : a = S * q + (a % S)
  BY <1>2, <1>3
<1>. QED
  BY <1>1, <1>4

(* A number has one remainder.                                             *)
LEMMA ModUnique ==
  ASSUME NEW S \in Nat \ {0}, NEW q \in Int, NEW k \in Int,
         NEW r \in 0..(S - 1), NEW t \in 0..(S - 1), S * q + r = S * k + t
  PROVE  r = t
<1>1. S * (q - k) = t - r
  OBVIOUS
<1>2. CASE q - k >= 1
  <2>1. S * (q - k) >= S
    BY <1>2
  <2>. QED
    BY <1>1, <2>1
<1>3. CASE q - k <= -1
  <2>1. S * (q - k) <= -S
    BY <1>3
  <2>. QED
    BY <1>1, <2>1
<1>4. CASE q = k
  BY <1>1, <1>4
<1>. QED
  BY <1>2, <1>3, <1>4

(* A position is so many rounds of the buffer, and its offset.             *)
Rounds(pos, q, r) == q \in Int /\ r \in 0..(SIZE - 1) /\ pos = SIZE * q + r

(* A position has its rounds and its offset.                               *)
LEMMA OffsetIs ==
  ASSUME NEW pos \in Int
  PROVE  Offset(pos) \in 0..(SIZE - 1) /\ \E q : Rounds(pos, q, Offset(pos))
  BY RingAssumption, ModIs DEF Offset, Rounds

(* There is no other offset.                                               *)
LEMMA OffsetOf ==
  ASSUME NEW pos \in Int, NEW q, NEW r, Rounds(pos, q, r)
  PROVE  Offset(pos) = r
<1>1. PICK k : Rounds(pos, k, Offset(pos))
  BY OffsetIs
<1>. QED
  BY <1>1, ModUnique, RingAssumption DEF Rounds

(* The unit d units back from a position.                                  *)
UnitBack(pos, d) ==
  IF Offset(pos) >= d THEN Offset(pos) - d ELSE Offset(pos) - d + SIZE

(* The offset a few units back, round the end of the buffer or not.        *)
LEMMA OffsetBack ==
  ASSUME NEW pos \in Int, NEW d \in 0..SIZE
  PROVE  Offset(pos - d) = UnitBack(pos, d)
<1>1. PICK q : Rounds(pos, q, Offset(pos))
  BY OffsetIs
<1>2. SIZE * q \in Int /\ SIZE * (q - 1) = SIZE * q - SIZE
  BY <1>1, RingAssumption DEF Rounds
<1>3. CASE Offset(pos) >= d
  <2>1. Rounds(pos - d, q, Offset(pos) - d)
    BY <1>1, <1>2, <1>3, RingAssumption DEF Rounds
  <2>. QED
    BY <1>3, <2>1, OffsetOf DEF UnitBack
<1>4. CASE ~(Offset(pos) >= d)
  <2>1. Rounds(pos - d, q - 1, Offset(pos) - d + SIZE)
    BY <1>1, <1>2, <1>4, RingAssumption DEF Rounds
  <2>. QED
    BY <1>4, <2>1, OffsetOf DEF UnitBack
<1>. QED
  BY <1>3, <1>4

(* Positions go round where the buffer does.                               *)
LEMMA OffsetRound ==
  ASSUME NEW pos \in Int
  PROVE  Offset(pos + POSITIONS) = Offset(pos)
<1>1. PICK k \in Int : POSITIONS = SIZE * k
  <2>1. POSITIONS \in Int /\ Offset(POSITIONS) = 0
    BY RingAssumption DEF Offset
  <2>2. PICK k : Rounds(POSITIONS, k, 0)
    BY <2>1, OffsetIs
  <2>. QED
    BY <2>2, RingAssumption DEF Rounds
<1>2. PICK q : Rounds(pos, q, Offset(pos))
  BY OffsetIs
<1>3. SIZE * (q + k) = SIZE * q + SIZE * k /\ SIZE * q \in Int
  BY <1>2, RingAssumption DEF Rounds
<1>4. Rounds(pos + POSITIONS, q + k, Offset(pos))
  BY <1>1, <1>2, <1>3, RingAssumption DEF Rounds
<1>. QED
  BY <1>4, OffsetOf, RingAssumption

(* The offset of a position that is not far behind another.                *)
LEMMA OffsetBehind ==
  ASSUME NEW w \in Position, NEW s \in Position, Ahead(w, s) <= SIZE
  PROVE  Offset(s) = UnitBack(w, Ahead(w, s))
<1>1. Ahead(w, s) \in 0..SIZE
  BY RingAssumption DEF Ahead, Position
<1>2. Offset(w - Ahead(w, s)) = UnitBack(w, Ahead(w, s))
  BY <1>1, OffsetBack DEF Position
<1>3. s = w - Ahead(w, s) \/ s = (w - Ahead(w, s)) + POSITIONS
  BY RingAssumption DEF Ahead, Position
<1>4. w - Ahead(w, s) \in Int
  BY <1>1 DEF Position
<1>. QED
  BY <1>2, <1>3, <1>4, OffsetRound

(***************************************************************************)
(* Positions.                                                              *)
(***************************************************************************)
LEMMA AheadType ==
  ASSUME NEW w \in Position, NEW s \in Position
  PROVE  Ahead(w, s) \in 0..(POSITIONS - 1) /\ (Ahead(w, s) = 0 <=> w = s)
  BY RingAssumption DEF Ahead, Position

(* Positions equally far behind the same one are the same.                 *)
LEMMA AheadSame ==
  ASSUME NEW w \in Position, NEW s \in Position, NEW t \in Position,
         Ahead(w, s) = Ahead(w, t)
  PROVE  s = t
  BY RingAssumption DEF Ahead, Position

(* On from a position towards one that is ahead of it.                     *)
LEMMA OnTowards ==
  ASSUME NEW w \in Position, NEW s \in Position, NEW n \in 0..Ahead(w, s)
  PROVE  /\ Advance(s, n) \in Position
         /\ Ahead(w, Advance(s, n)) = Ahead(w, s) - n
  BY RingAssumption DEF Ahead, Advance, Position

(* On from a position that is ahead of another.                            *)
LEMMA OnFrom ==
  ASSUME NEW w \in Position, NEW s \in Position, NEW n \in Nat,
         Ahead(w, s) + n < POSITIONS
  PROVE  /\ Advance(w, n) \in Position
         /\ Ahead(Advance(w, n), s) = Ahead(w, s) + n
  BY RingAssumption DEF Ahead, Advance, Position

(* Of two positions behind a third, how far one is behind the other.       *)
LEMMA Between ==
  ASSUME NEW w \in Position, NEW s \in Position, NEW t \in Position,
         Ahead(w, t) <= Ahead(w, s)
  PROVE  Ahead(t, s) = Ahead(w, s) - Ahead(w, t)
  BY RingAssumption DEF Ahead, Position

(* Units at different places are different units.                          *)
LEMMA UnitsApart ==
  ASSUME NEW w \in Position, NEW s \in Position, NEW t \in Position,
         Ahead(w, s) <= SIZE, Ahead(w, t) < Ahead(w, s),
         Ahead(w, s) - Ahead(w, t) < SIZE
  PROVE  Offset(s) # Offset(t)
<1>1. Offset(s) = UnitBack(w, Ahead(w, s)) /\ Offset(t) = UnitBack(w, Ahead(w, t))
  BY OffsetBehind, AheadType, RingAssumption
<1>2. Offset(w) \in 0..(SIZE - 1) /\ Ahead(w, s) \in Nat /\ Ahead(w, t) \in Nat
  BY OffsetIs, AheadType DEF Position
<1>. QED
  BY <1>1, <1>2, RingAssumption DEF UnitBack

(***************************************************************************)
(* Records gathered from the back of what is reserved into a sequence.     *)
(***************************************************************************)
LEMMA LeastOf ==
  ASSUME NEW K \in SUBSET Nat, K # {}
  PROVE  \E k \in K : \A m \in K : k <= m
<1>1. \E k \in K : \A m \in K : ~ (<< m, k >> \in OpToRel(<, Nat))
  BY NatLessThanWellFounded, WFMin
<1>2. PICK k \in K : \A m \in K : ~ (<< m, k >> \in OpToRel(<, Nat))
  BY <1>1
<1>3. \A m \in K : ~ (m < k)
  BY <1>2 DEF OpToRel
<1>4. \A m \in K : k <= m
  <2>1. k \in Nat /\ \A m \in K : m \in Nat
    OBVIOUS
  <2>. QED
    BY <1>3, <2>1
<1>. QED
  BY <1>4

(* With n units left, f has what the record of U[n] units gives, E[n], and *)
(* what f has of the others.                                               *)
Gathers(f, N, U, E) ==
  f = [n \in 0..N |-> IF U[n] \in 1..n THEN E[n] \o f[n - U[n]] ELSE << >>]

(* What the records give are sequences.                                    *)
Sequences(E, N, C) == \A n \in 0..N : E[n] \in Seq(C)

(* The records at D are also k units further from the end.                 *)
Shifts(D, k, N, U, E, V, F) ==
  /\ D \subseteq Nat /\ k \in 0..N /\ \A m \in D : m + k <= N
  /\ \A m \in D : m # 0 => /\ U[m] \in 1..m /\ m - U[m] \in D
                           /\ V[m + k] = U[m] /\ F[m + k] = E[m]

(* g has, k units further, what f has, before its own last k units'.       *)
Prepends(D, k, f, g) == \A m \in D : g[m + k] = f[m] \o g[k]

(* There is such a function: every record has units.                       *)
LEMMA GatherExists ==
  ASSUME NEW N \in Nat, NEW U, NEW E
  PROVE  \E f : Gathers(f, N, U, E)
<1>. DEFINE K == {k \in Nat : ~ \E f : Gathers(f, k, U, E)}
<1>. SUFFICES ASSUME K # {} PROVE FALSE
  OBVIOUS
<1>1. PICK k \in K : \A m \in K : k <= m
  BY LeastOf
<1>2. CASE k = 0
  <2>1. Gathers([n \in 0..0 |-> << >>], 0, U, E)
    BY DEF Gathers
  <2>. QED
    BY <1>1, <1>2, <2>1
<1>3. CASE k # 0
  <2>0. k \in Nat
    OBVIOUS
  <2>1. k - 1 \in Nat /\ k - 1 \notin K
    BY <1>1, <1>3
  <2>2. PICK h : Gathers(h, k - 1, U, E)
    BY <2>1
  <2>. DEFINE f == [n \in 0..k |-> IF U[n] \in 1..n THEN E[n] \o h[n - U[n]] ELSE << >>]
  <2>3. \A m \in 0..(k - 1) : f[m] = h[m]
    <3>. TAKE m \in 0..(k - 1)
    <3>0. m \in 0..k
      BY <2>0
    <3>1. m \in 0..k /\ h[m] = IF U[m] \in 1..m THEN E[m] \o h[m - U[m]] ELSE << >>
      BY <2>1, <2>2, <3>0 DEF Gathers
    <3>. QED
      BY <3>1
  <2>4. \A n \in 0..k : U[n] \in 1..n => n - U[n] \in 0..(k - 1)
    BY <2>1
  <2>5. \A n \in 0..k : U[n] \in 1..n => f[n - U[n]] = h[n - U[n]]
    BY <2>3, <2>4
  <2>6. Gathers(f, k, U, E)
    <3>. DEFINE g == [n \in 0..k |-> IF U[n] \in 1..n THEN E[n] \o f[n - U[n]] ELSE << >>]
    <3>1. \A n \in 0..k : f[n] = g[n]
      BY <2>5
    <3>2. f = g
      BY <3>1
    <3>. QED
      BY <3>2 DEF Gathers
  <2>. QED
    BY <1>1, <2>6
<1>. QED
  BY <1>2, <1>3

(* What it holds are sequences.                                            *)
LEMMA GatherType ==
  ASSUME NEW N \in Nat, NEW C, NEW U, NEW E, NEW f, Gathers(f, N, U, E),
         Sequences(E, N, C)
  PROVE  Sequences(f, N, C)
<1>. USE DEF Sequences
<1>. DEFINE K == {n \in 0..N : f[n] \notin Seq(C)}
<1>. SUFFICES ASSUME K # {} PROVE FALSE
  OBVIOUS
<1>1. PICK k \in K : \A m \in K : k <= m
  <2>1. K \in SUBSET Nat
    OBVIOUS
  <2>. QED
    BY <2>1, LeastOf
<1>. HIDE DEF K
<1>0. k \in 0..N /\ f[k] \notin Seq(C)
  BY <1>1 DEF K
<1>2. f[k] = IF U[k] \in 1..k THEN E[k] \o f[k - U[k]] ELSE << >>
  BY <1>0 DEF Gathers
<1>3. CASE U[k] \in 1..k
  <2>1. k - U[k] \in 0..N /\ k - U[k] < k
    BY <1>0, <1>3
  <2>2. f[k - U[k]] \in Seq(C)
    BY <1>1, <2>1 DEF K
  <2>3. E[k] \in Seq(C)
    BY <1>0
  <2>4. E[k] \o f[k - U[k]] \in Seq(C)
    BY <2>2, <2>3, ConcatProperties
  <2>. QED
    BY <1>0, <1>2, <1>3, <2>4
<1>4. CASE U[k] \notin 1..k
  <2>1. << >> \in Seq(C)
    BY EmptySeq
  <2>. QED
    BY <1>0, <1>2, <1>4, <2>1
<1>. QED
  BY <1>3, <1>4

(* The same records k units further from the end give the same, before     *)
(* what the last k units give.                                             *)
LEMMA GatherShift ==
  ASSUME NEW N \in Nat, NEW C, NEW k, NEW D,
         NEW U, NEW E, NEW f, Gathers(f, N, U, E), Sequences(E, N, C),
         NEW V, NEW F, NEW g, Gathers(g, N, V, F), Sequences(F, N, C),
         Shifts(D, k, N, U, E, V, F)
  PROVE  Prepends(D, k, f, g)
<1>. USE DEF Shifts, Sequences
<1>. DEFINE K == {m \in D : g[m + k] # f[m] \o g[k]}
<1>. SUFFICES ASSUME K # {} PROVE FALSE
  BY DEF Prepends
<1>1. PICK m \in K : \A l \in K : m <= l
  <2>1. K \in SUBSET Nat
    OBVIOUS
  <2>. QED
    BY <2>1, LeastOf
<1>2. m \in D /\ m \in 0..N /\ m + k \in 0..N /\ g[m + k] # f[m] \o g[k]
  <2>1. m \in D /\ m \in Nat /\ m + k <= N /\ g[m + k] # f[m] \o g[k]
    BY <1>1
  <2>2. ASSUME NEW i \in Nat, i + k <= N PROVE i \in 0..N /\ i + k \in 0..N
    BY <2>2
  <2>. HIDE DEF K
  <2>. QED
    BY <2>1, <2>2
<1>. HIDE DEF K
<1>3. g[k] \in Seq(C) /\ \A n \in 0..N : f[n] \in Seq(C)
  BY GatherType
<1>4. CASE m = 0
  <2>1. f[0] = << >>
    <3>1. 0 \in 0..N
      OBVIOUS
    <3>2. f[0] = IF U[0] \in 1..0 THEN E[0] \o f[0 - U[0]] ELSE << >>
      BY <3>1 DEF Gathers
    <3>. QED
      BY <3>2
  <2>2. << >> \o g[k] = g[k]
    BY <1>3, ConcatEmptySeq
  <2>. QED
    BY <1>2, <1>4, <2>1, <2>2
<1>5. CASE m # 0
  <2>. PICK l : l = m - U[m]
    OBVIOUS
  <2>1. U[m] \in 1..m /\ l \in D /\ V[m + k] = U[m] /\ F[m + k] = E[m]
    BY <1>2, <1>5
  <2>2. l \in 0..N /\ l < m
    BY <1>2, <2>1
  <2>3. g[l + k] = f[l] \o g[k]
    <3>1. l \in K => m <= l
      BY <1>1
    <3>2. l \notin K
      BY <1>2, <2>2, <3>1
    <3>. QED
      BY <2>1, <3>2 DEF K
  <2>4. f[m] = E[m] \o f[l]
    BY <1>2, <2>1 DEF Gathers
  <2>5. g[m + k] = E[m] \o g[l + k]
    <3>1. V[m + k] \in 1..(m + k) /\ (m + k) - V[m + k] = l + k
      BY <1>2, <2>1
    <3>. QED
      BY <1>2, <2>1, <3>1 DEF Gathers
  <2>6. E[m] \in Seq(C) /\ f[l] \in Seq(C)
    BY <1>2, <1>3, <2>2
  <2>7. E[m] \o (f[l] \o g[k]) = (E[m] \o f[l]) \o g[k]
    <3>. DEFINE a == E[m]
                b == f[l]
                c == g[k]
    <3>1. a \in Seq(C) /\ b \in Seq(C) /\ c \in Seq(C)
      BY <1>3, <2>6
    <3>. HIDE DEF a, b, c
    <3>2. a \o (b \o c) = (a \o b) \o c
      BY ONLY <3>1, ConcatAssociative
    <3>. QED
      BY <3>2 DEF a, b, c
  <2>. QED
    BY <1>2, <2>3, <2>4, <2>5, <2>7
<1>. QED
  BY <1>4, <1>5

(* More records give no less.                                              *)
LEMMA GatherLonger ==
  ASSUME NEW N \in Nat, NEW C, NEW D \in SUBSET (0..N), NEW h \in D,
         NEW U, NEW E, NEW f, Gathers(f, N, U, E), Sequences(E, N, C),
         \A m \in D : m > h => U[m] \in 1..m /\ m - U[m] \in D /\ m - U[m] >= h
  PROVE  \A m \in D : m >= h => Len(f[h]) <= Len(f[m])
<1>. DEFINE K == {m \in D : m >= h /\ ~ (Len(f[h]) <= Len(f[m]))}
<1>. SUFFICES ASSUME K # {} PROVE FALSE
  OBVIOUS
<1>1. PICK m \in K : \A l \in K : m <= l
  <2>1. \A m \in K : m \in Nat
    OBVIOUS
  <2>. HIDE DEF K
  <2>2. K \in SUBSET Nat
    BY <2>1
  <2>. QED
    BY <2>2, LeastOf
<1>2. m \in D /\ m \in 0..N /\ m >= h /\ ~ (Len(f[h]) <= Len(f[m])) /\ h \in 0..N
  BY <1>1
<1>. USE DEF Sequences
<1>3. \A n \in 0..N : f[n] \in Seq(C) /\ Len(f[n]) \in Nat
  BY GatherType, LenProperties
<1>4. m > h
  BY <1>2, <1>3
<1>. PICK l : l = m - U[m]
  OBVIOUS
<1>5. U[m] \in 1..m /\ l \in D /\ l >= h /\ l < m
  BY <1>2, <1>4
<1>6. Len(f[h]) <= Len(f[l])
  BY <1>1, <1>2, <1>5
<1>7. f[m] = E[m] \o f[l]
  BY <1>2, <1>5 DEF Gathers
<1>8. E[m] \in Seq(C) /\ f[l] \in Seq(C)
  BY <1>2, <1>3, <1>5
<1>9. Len(f[m]) = Len(E[m]) + Len(f[l]) /\ Len(E[m]) \in Nat
  BY <1>7, <1>8, ConcatProperties, LenProperties
<1>10. Len(f[h]) \in Nat /\ Len(f[l]) \in Nat
  BY <1>2, <1>3, <1>8, LenProperties
<1>. DEFINE x == Len(f[h])
            y == Len(f[l])
            z == Len(E[m])
<1>11. x <= y /\ Len(f[m]) = z + y /\ x \in Nat /\ y \in Nat /\ z \in Nat
  BY <1>6, <1>9, <1>10
<1>12. ~ (x <= Len(f[m]))
  BY <1>2
<1>. HIDE DEF x, y, z
<1>. QED
  BY <1>11, <1>12

(***************************************************************************)
(* The inductive invariant.                                                *)
(***************************************************************************)

(* How far a position is behind the end of what is reserved.               *)
Gap(s) == Ahead(wpos, s)

UnitsAt(s) == buf[Offset(s)].units

(* A record's last unit tells which command it is; a pad is none.          *)
CompleteUnit(s) ==
  buf[Offset(s)].cmd # "PAD" => buf[Offset(Advance(s, UnitsAt(s) - 1))].cmd \in Commands

(* The units of the record that is being written, at the end.              *)
Writing == IF p.pc = "write" THEN UnitsOf[p.cmd] ELSE 0

(* What comes after a pad: a record that is none.                          *)
Followed(t) == t # wpos /\ buf[Offset(t)].cmd # "PAD"

(* S holds the starts of the records from tail on, and the end.            *)
WholeRecord(S, s) ==
  /\ UnitsAt(s) \in 1..Gap(s)
  /\ Advance(s, UnitsAt(s)) \in S
  /\ \A t \in S : Gap(t) < Gap(s) => Gap(t) <= Gap(s) - UnitsAt(s)
  /\ Gap(s) >= Writing
  /\ Gap(s) > Writing => CompleteUnit(s)
  /\ buf[Offset(s)].cmd = "PAD" => Followed(Advance(s, UnitsAt(s)))

Records(S) ==
  /\ S \subseteq Position /\ {tail, head, wpos} \subseteq S
  /\ \A s \in S : Gap(s) <= Gap(tail)
  /\ \A s \in S : s # wpos => WholeRecord(S, s)

(* The record being written has its header, and does not go round the end. *)
Started(s) ==
  /\ Gap(s) = Writing /\ UnitsAt(s) = Writing
  /\ buf[Offset(s)].cmd # "PAD" /\ (Writing = 1 => buf[Offset(s)].cmd = p.cmd)

BeingWritten(S) ==
  p.pc = "write" =>
    /\ Gap(head) >= Writing
    /\ \E s \in S : Started(s)
    /\ Offset(wpos - 1) >= Writing - 1

InOrder == Gap(tail) <= Gap(tail_seen) /\ Gap(tail_seen) <= SIZE

(* What the two threads are at.                                            *)
AtWork ==
  /\ p.pc # "run" => p.cmd \in Commands
  /\ given # NoCommand => tail # head /\ AtTail.cmd # "PAD"

IInv ==
  /\ TypeOK /\ InOrder /\ AtWork
  /\ \E S : Records(S) /\ BeingWritten(S)

(* No record from the tail on is further behind than the positions go.     *)
LEMMA GapType ==
  ASSUME TypeOK, NEW s \in Position
  PROVE  Gap(s) \in 0..(POSITIONS - 1) /\ (Gap(s) = 0 <=> s = wpos)
  BY AheadType DEF Gap, TypeOK

(* What lies at any position is a unit.                                    *)
LEMMA UnitType ==
  ASSUME TypeOK, NEW s \in Int
  PROVE  buf[Offset(s)] \in Unit
  BY OffsetIs DEF TypeOK

(* The property of the runs is a part of the inductive invariant.          *)
LEMMA IInvImplies == IInv => PositionsInOrder
<1>. SUFFICES ASSUME IInv PROVE PositionsInOrder
  OBVIOUS
<1>1. PICK S : Records(S)
  BY DEF IInv
<1>2. {wpos, tail, head, tail_seen} \subseteq Position /\ TypeOK
  BY DEF IInv, TypeOK
<1>3. Gap(head) <= Gap(tail) /\ Gap(tail) <= Gap(tail_seen) /\ Gap(tail_seen) <= SIZE
  BY <1>1 DEF IInv, Records, InOrder
<1>4. \A s \in {wpos, tail, head, tail_seen} : Gap(s) \in Nat
  BY <1>2, GapType
<1>5. Gap(wpos) = 0
  BY <1>2, GapType
<1>6. \A s \in {wpos, tail, head} : Ahead(s, tail_seen) = Gap(tail_seen) - Gap(s)
  BY <1>2, <1>3, <1>4, <1>5, Between DEF Gap
<1>. QED
  BY <1>3, <1>4, <1>5, <1>6 DEF PositionsInOrder, Gap

-----------------------------------------------------------------------------
(* An empty ring is in order: its only record start is the end.            *)
LEMMA Initially == Init => IInv
<1>. SUFFICES ASSUME Init PROVE IInv
  OBVIOUS
<1>1. TypeOK
  BY RingAssumption DEF Init, TypeOK, Unit, Blank, Position
<1>2. Ahead(0, 0) = 0
  BY RingAssumption, AheadType DEF Position
<1>3. Records({0}) /\ BeingWritten({0})
  BY <1>2, RingAssumption DEF Init, Records, BeingWritten, Gap, Position
<1>. QED
  BY <1>1, <1>2, <1>3, RingAssumption DEF IInv, InOrder, AtWork, Init, Gap

(***************************************************************************)
(* The consumer.                                                           *)
(***************************************************************************)

(* The record at the tail, while there is one to be consumed.              *)
LEMMA TailRecord ==
  ASSUME IInv, tail # head, NEW S, Records(S), BeingWritten(S)
  PROVE  /\ tail # wpos /\ WholeRecord(S, tail) /\ CompleteUnit(tail)
         /\ Gap(head) <= Gap(tail) - UnitsAt(tail)
         /\ AtTail = buf[Offset(tail)] /\ AtTail.units = UnitsAt(tail)
<1>1. {tail, head, wpos} \subseteq Position /\ TypeOK
  BY DEF IInv, TypeOK
<1>2. Gap(head) < Gap(tail)
  BY <1>1, GapType, AheadSame DEF Records, Gap, TypeOK
<1>3. tail # wpos /\ WholeRecord(S, tail)
  BY <1>1, <1>2, GapType DEF Records
<1>4. Gap(head) <= Gap(tail) - UnitsAt(tail)
  BY <1>2, <1>3 DEF WholeRecord, Records
<1>5. Writing <= Gap(head)
  BY <1>1, GapType DEF BeingWritten, Writing
<1>6. CompleteUnit(tail)
  <2>1. Writing \in Nat
    BY RingAssumption DEF Writing, IInv, AtWork
  <2>. QED
    BY <1>1, <1>2, <1>3, <1>5, <2>1, GapType DEF WholeRecord
<1>. QED
  BY <1>3, <1>4, <1>6 DEF AtTail, UnitsAt

(* The tail goes on by the record there.                                   *)
LEMMA TailAdvances ==
  ASSUME IInv, tail # head, tail' = Advance(tail, AtTail.units),
         given' = NoCommand, UNCHANGED << buf, head, wpos, tail_seen, p >>
  PROVE  IInv'
<1>1. PICK S : Records(S) /\ BeingWritten(S)
  BY DEF IInv
<1>2. {tail, head, wpos, tail_seen} \subseteq Position /\ TypeOK
  BY DEF IInv, TypeOK
<1>. PICK u : u = UnitsAt(tail)
  OBVIOUS
<1>. PICK T : T = {s \in S : Gap(s) <= Gap(tail) - u}
  OBVIOUS
<1>3. /\ WholeRecord(S, tail) /\ Gap(head) <= Gap(tail) - u
      /\ AtTail.units = u /\ u \in 1..Gap(tail)
  BY <1>1, TailRecord DEF WholeRecord
<1>4. \A s \in Position : Gap(s) \in Nat
  BY <1>2, GapType
<1>5. tail' \in Position /\ Gap(tail') = Gap(tail) - u /\ tail' \in S
  BY <1>2, <1>3, OnTowards DEF Gap, WholeRecord
<1>6. UNCHANGED << Writing, Gap(wpos), Gap(head), Gap(tail_seen) >>
  BY DEF Writing, Gap
<1>7. \A s : Gap(s)' = Gap(s) /\ UnitsAt(s)' = UnitsAt(s) /\ CompleteUnit(s)' = CompleteUnit(s)
  BY DEF Gap, UnitsAt, CompleteUnit
<1>8. Gap(wpos) = 0
  BY <1>2, GapType
<1>9. T \subseteq S /\ T \subseteq Position /\ {tail', head, wpos} \subseteq T
  BY <1>1, <1>2, <1>3, <1>4, <1>5, <1>8 DEF Records
<1>10. ASSUME NEW s \in T, s # wpos PROVE WholeRecord(T, s)'
  <2>1. WholeRecord(S, s) /\ s \in Position
    BY <1>1, <1>9, <1>10 DEF Records
  <2>2. UnitsAt(s) \in 1..Gap(s)
    BY <2>1 DEF WholeRecord
  <2>3. Advance(s, UnitsAt(s)) \in S /\ Gap(Advance(s, UnitsAt(s))) = Gap(s) - UnitsAt(s)
    BY <1>2, <2>1, <2>2, <1>4, OnTowards DEF WholeRecord, Gap
  <2>4. Gap(s) - UnitsAt(s) <= Gap(tail) - u
    BY <1>2, <1>3, <1>4, <2>1, <2>2
  <2>5. Advance(s, UnitsAt(s)) \in T
    BY <2>3, <2>4
  <2>. QED
    BY <1>9, <2>1, <2>5 DEF WholeRecord, Gap, UnitsAt, CompleteUnit, Followed, Writing
<1>11. Records(T)'
  <2>1. \A s \in T : Ahead(wpos', s) <= Ahead(wpos', tail')
    BY <1>5 DEF Gap
  <2>. QED
    BY <1>9, <1>10, <2>1 DEF Records, Gap
<1>12. BeingWritten(T)'
  <2>. SUFFICES ASSUME p.pc = "write" PROVE BeingWritten(T)'
    BY DEF BeingWritten
  <2>1. PICK s \in S : Started(s)
    BY <1>1 DEF BeingWritten
  <2>2. Gap(s) <= Gap(head) /\ s \in Position
    BY <1>1, <2>1 DEF BeingWritten, Records, Started
  <2>3. s \in T
    BY <1>2, <1>3, <1>4, <2>2
  <2>. QED
    BY <1>1, <2>1, <2>3 DEF BeingWritten, Started, Gap, UnitsAt, Writing
<1>13. TypeOK' /\ AtWork' /\ InOrder'
  <2>1. InOrder'
    BY <1>2, <1>3, <1>4, <1>5, <1>7 DEF IInv, InOrder
  <2>2. TypeOK' /\ AtWork'
    BY <1>5 DEF IInv, TypeOK, AtWork
  <2>. QED
    BY <2>1, <2>2
<1>. QED
  BY <1>11, <1>12, <1>13 DEF IInv

(* The consumer peeks, or consumes the record at the tail or a pad.        *)
LEMMA ConsumerStep == ASSUME IInv, Consumer PROVE IInv'
<1>1. CASE SkipPad
  BY <1>1, TailAdvances DEF SkipPad
<1>2. CASE Consume
  BY <1>2, TailAdvances DEF Consume, IInv, AtWork
<1>3. CASE Peek
  <2>1. PICK S : Records(S) /\ BeingWritten(S)
    BY DEF IInv
  <2>2. CompleteUnit(tail) /\ AtTail = buf[Offset(tail)] /\ AtTail.units = UnitsAt(tail)
    BY <1>3, <2>1, TailRecord DEF Peek
  <2>3. given' \in Commands
    BY <1>3, <2>2 DEF Peek, CompleteUnit
  <2>4. TypeOK' /\ AtWork' /\ InOrder'
    BY <1>3, <2>3 DEF Peek, IInv, TypeOK, AtWork, AtTail, InOrder, Gap
  <2>5. Records(S)' /\ BeingWritten(S)'
    BY <1>3, <2>1
    DEF Peek, Records, BeingWritten, Started, WholeRecord, Gap, UnitsAt, CompleteUnit, Followed, Writing
  <2>. QED
    BY <2>4, <2>5 DEF IInv
<1>. QED
  BY <1>1, <1>2, <1>3 DEF Consumer

(* Publishing moves the head to the end of what is reserved.               *)
LEMMA PublishStep == ASSUME IInv, Publish PROVE IInv'
<1>1. PICK S : Records(S) /\ BeingWritten(S)
  BY DEF IInv
<1>2. UNCHANGED << buf, tail, wpos, tail_seen, given >> /\ head' = wpos
  BY DEF Publish
<1>3. p.pc # "write" /\ p'.pc # "write"
  BY DEF Publish, IInv, TypeOK
<1>4. TypeOK' /\ InOrder'
  BY DEF Publish, IInv, TypeOK, InOrder, Gap
<1>5. AtWork'
  <2>1. p'.pc # "run" => p'.cmd \in Commands
    BY DEF Publish, IInv, TypeOK, AtWork
  <2>2. ASSUME given # NoCommand PROVE tail # wpos
    BY <1>1, <2>2, TailRecord DEF IInv, AtWork
  <2>. QED
    BY <1>2, <2>1, <2>2 DEF AtWork, AtTail, IInv
<1>6. Records(S)' /\ BeingWritten(S)'
  <2>1. \A s \in S : WholeRecord(S, s) => WholeRecord(S, s)'
    BY <1>2, <1>3 DEF WholeRecord, Gap, UnitsAt, CompleteUnit, Followed, Writing
  <2>. QED
    BY <1>1, <1>2, <1>3, <2>1 DEF Records, BeingWritten, Gap
<1>. QED
  BY <1>4, <1>5, <1>6 DEF IInv

(***************************************************************************)
(* The producer.                                                           *)
(***************************************************************************)

(* The unit of a position behind the end, from the last unit there.        *)
LEMMA OffsetBehindLast ==
  ASSUME NEW w \in Position, NEW s \in Position, Ahead(w, s) \in 1..SIZE
  PROVE  Offset(s) = UnitBack(w - 1, Ahead(w, s) - 1)
<1>0. Ahead(w, s) - 1 \in 0..SIZE /\ w - 1 \in Int
  BY RingAssumption DEF Position
<1>1. Offset((w - 1) - (Ahead(w, s) - 1)) = UnitBack(w - 1, Ahead(w, s) - 1)
  BY <1>0, OffsetBack
<1>2. \/ s = (w - 1) - (Ahead(w, s) - 1)
      \/ s = ((w - 1) - (Ahead(w, s) - 1)) + POSITIONS
  BY RingAssumption DEF Ahead, Position
<1>3. (w - 1) - (Ahead(w, s) - 1) \in Int
  BY DEF Position
<1>. QED
  BY <1>1, <1>2, <1>3, OffsetRound

(* What the producer writes of its record is none of the others' units.    *)
LEMMA WrittenUnits ==
  ASSUME IInv, Write, NEW S, BeingWritten(S), NEW s \in Position, Gap(s) \in 1..SIZE
  PROVE  /\ Gap(s) >= Writing => buf'[Offset(s)] = buf[Offset(s)]
         /\ Gap(s) = 1 /\ Writing > 1 => buf'[Offset(s)].cmd = p.cmd
<1>1. /\ p.pc = "write" /\ Writing = UnitsOf[p.cmd] /\ Writing \in Nat \ {0}
      /\ TypeOK /\ wpos \in Position
  BY RingAssumption DEF Write, Writing, IInv, TypeOK, AtWork
<1>2. PICK y : y = Offset(wpos - 1)
  OBVIOUS
<1>3. y \in 0..(SIZE - 1) /\ y >= Writing - 1
  BY <1>1, <1>2, OffsetIs DEF BeingWritten, Position
<1>4. Offset(s) \in 0..(SIZE - 1) /\ DOMAIN buf = 0..(SIZE - 1)
  BY <1>1, OffsetIs DEF Position, TypeOK
<1>5. buf'[Offset(s)] = IF y - Offset(s) \in 0..(Writing - 2)
                        THEN [cmd |-> p.cmd, units |-> 0] ELSE buf[Offset(s)]
  BY <1>1, <1>2, <1>4 DEF Write
<1>6. Offset(s) = IF y >= Gap(s) - 1 THEN y - (Gap(s) - 1) ELSE y - (Gap(s) - 1) + SIZE
  BY <1>1, <1>2, OffsetBehindLast DEF Gap, UnitBack
<1>7. ASSUME Gap(s) >= Writing PROVE buf'[Offset(s)] = buf[Offset(s)]
  BY <1>1, <1>3, <1>5, <1>6, <1>7, RingAssumption
<1>8. ASSUME Gap(s) = 1, Writing > 1 PROVE buf'[Offset(s)].cmd = p.cmd
  BY <1>1, <1>3, <1>5, <1>6, <1>8
<1>. QED
  BY <1>7, <1>8

(* Of the records, the bytes go into the last, and make it whole.          *)
LEMMA WriteKeeps ==
  ASSUME IInv, Write, NEW S, Records(S), BeingWritten(S), NEW s \in S, s # wpos,
         NEW l, l = Advance(s, UnitsAt(s) - 1)
  PROVE  /\ buf'[Offset(s)] = buf[Offset(s)]
         /\ Gap(s) > Writing => buf'[Offset(l)] = buf[Offset(l)]
         /\ Gap(s) = Writing => buf[Offset(s)].cmd # "PAD" /\ buf'[Offset(l)].cmd = p.cmd
<1>1. /\ TypeOK /\ {tail, wpos, tail_seen} \subseteq Position /\ Writing \in Nat \ {0}
      /\ \A t \in Position : Gap(t) \in Nat
  BY RingAssumption, GapType DEF Write, IInv, AtWork, TypeOK, Writing
<1>2. PICK t \in S : Started(t)
  BY DEF BeingWritten, Write
<1>3. WholeRecord(S, s) /\ s \in Position /\ t \in Position /\ Gap(s) \in 1..SIZE /\ Gap(s) >= Writing
  <2>1. WholeRecord(S, s) /\ s \in Position /\ t \in Position /\ Gap(s) <= SIZE
    BY <1>1, <1>2, RingAssumption DEF Records, IInv, InOrder
  <2>. QED
    BY <1>1, <2>1, GapType DEF WholeRecord
<1>. PICK u : u = UnitsAt(s)
  OBVIOUS
<1>4. u \in 1..Gap(s) /\ buf'[Offset(s)] = buf[Offset(s)]
  BY <1>3, WrittenUnits DEF WholeRecord
<1>5. l \in Position /\ Gap(l) = Gap(s) - (u - 1) /\ Gap(l) \in 1..SIZE
  <2>1. u - 1 \in 0..Ahead(wpos, s)
    BY <1>3, <1>4 DEF Gap
  <2>2. l \in Position /\ Gap(l) = Gap(s) - (u - 1)
    BY <1>1, <1>3, <2>1, OnTowards DEF Gap
  <2>. QED
    BY <1>3, <1>4, <2>2, RingAssumption
<1>6. ASSUME Gap(s) > Writing PROVE buf'[Offset(l)] = buf[Offset(l)]
  <2>1. Writing <= Gap(s) - u
    BY <1>2, <1>3, <1>6 DEF WholeRecord, Started
  <2>. QED
    BY <1>1, <1>3, <1>4, <1>5, <2>1, WrittenUnits
<1>7. ASSUME Gap(s) = Writing
      PROVE  buf[Offset(s)].cmd # "PAD" /\ buf'[Offset(l)].cmd = p.cmd
  <2>1. s = t /\ u = Writing
    BY <1>1, <1>2, <1>3, <1>7, AheadSame DEF Started, Gap
  <2>2. CASE Writing = 1
    <3>1. buf[Offset(s)].cmd = p.cmd
      BY <1>2, <2>1, <2>2 DEF Started
    <3>2. l = s
      BY <1>1, <1>3, <1>5, <2>1, <2>2, AheadSame DEF Gap
    <3>. QED
      BY <1>2, <1>4, <2>1, <3>1, <3>2 DEF Started
  <2>3. CASE Writing > 1
    <3>1. Gap(l) = 1
      BY <1>1, <1>5, <1>7, <2>1
    <3>2. buf'[Offset(l)].cmd = p.cmd
      BY <1>5, <2>3, <3>1, WrittenUnits
    <3>. QED
      BY <1>2, <2>1, <3>2 DEF Started
  <2>. QED
    BY <1>1, <2>2, <2>3
<1>. QED
  BY <1>4, <1>6, <1>7

(* The bytes of a command go into units that no other record has.          *)
LEMMA WriteStep == ASSUME IInv, Write PROVE IInv'
<1>1. PICK S : Records(S) /\ BeingWritten(S)
  BY DEF IInv
<1>2. /\ TypeOK /\ {tail, head, wpos, tail_seen} \subseteq Position
      /\ UNCHANGED << head, tail, wpos, tail_seen, given >>
      /\ p.cmd \in Commands /\ Writing \in Nat \ {0}
  BY RingAssumption DEF Write, IInv, AtWork, TypeOK, Writing
<1>3. p'.pc = "run" /\ Writing' = 0
  BY DEF Write, Writing
<1>4. \A s \in Position : Gap(s) \in Nat /\ Gap(s)' = Gap(s)
  BY <1>2, GapType DEF Gap
<1>5. ASSUME NEW s \in S, s # wpos PROVE WholeRecord(S, s)'
  <2>1. WholeRecord(S, s) /\ s \in Position /\ Gap(s) >= Writing
    BY <1>1, <1>5 DEF Records, WholeRecord
  <2>. PICK u : u = UnitsAt(s)
    OBVIOUS
  <2>. PICK l : l = Advance(s, u - 1)
    OBVIOUS
  <2>2. /\ buf'[Offset(s)] = buf[Offset(s)] /\ UnitsAt(s)' = u
        /\ Gap(s) > Writing => buf'[Offset(l)] = buf[Offset(l)]
        /\ Gap(s) = Writing => buf[Offset(s)].cmd # "PAD" /\ buf'[Offset(l)].cmd = p.cmd
    BY <1>1, <1>5, WriteKeeps DEF UnitsAt
  <2>3. CompleteUnit(s)'
    <3>1. CASE Gap(s) > Writing
      BY <2>1, <2>2, <3>1 DEF CompleteUnit, UnitsAt, WholeRecord
    <3>2. CASE Gap(s) = Writing
      BY <1>2, <2>2, <3>2 DEF CompleteUnit, UnitsAt
    <3>. QED
      BY <1>2, <1>4, <2>1, <3>1, <3>2
  <2>4. ASSUME buf[Offset(s)].cmd = "PAD" PROVE Followed(Advance(s, u))'
    <3>. PICK f : f = Advance(s, u)
      OBVIOUS
    <3>1. f \in S /\ f # wpos /\ buf[Offset(f)].cmd # "PAD"
      BY <2>1, <2>4 DEF WholeRecord, Followed
    <3>. QED
      BY <1>1, <1>2, <3>1, WriteKeeps DEF Followed
  <2>. QED
    BY <1>2, <1>3, <1>4, <2>1, <2>2, <2>3, <2>4 DEF WholeRecord, Gap
<1>6. Records(S)' /\ BeingWritten(S)'
  BY <1>1, <1>2, <1>3, <1>5 DEF Records, BeingWritten, Gap
<1>7. buf' \in [0..(SIZE - 1) -> Unit]
  BY <1>2, RingAssumption DEF Write, TypeOK, Unit
<1>8. TypeOK' /\ InOrder'
  BY <1>2, <1>3, <1>7 DEF Write, IInv, TypeOK, InOrder, Gap
<1>9. AtWork'
  <2>1. ASSUME tail # head PROVE AtTail' = AtTail
    <3>1. tail \in S /\ tail # wpos
      BY <1>1, <2>1, TailRecord DEF Records
    <3>. QED
      BY <1>1, <1>2, <3>1, WriteKeeps DEF AtTail
  <2>. QED
    BY <1>2, <1>3, <2>1 DEF IInv, AtWork
<1>. QED
  BY <1>6, <1>8, <1>9 DEF IInv

(* The ring is full: nothing is reserved.                                  *)
LEMMA FullStep ==
  ASSUME IInv, p.pc \in {"run", "retry"}, NEW cmd \in Commands, Reserve(cmd),
         ~HasRoom(UnitsOf[cmd], TailSeen(UnitsOf[cmd]))
  PROVE  IInv'
<1>1. PICK S : Records(S) /\ BeingWritten(S)
  BY DEF IInv
<1>2. /\ p' = [pc |-> "full", cmd |-> cmd] /\ tail_seen' \in {tail_seen, tail}
      /\ UNCHANGED << buf, head, tail, wpos, given >>
  BY DEF Reserve, TailSeen
<1>3. p.pc # "write" /\ p'.pc # "write" /\ Writing' = Writing
  BY <1>2 DEF Writing
<1>4. TypeOK' /\ AtWork'
  BY <1>2 DEF IInv, TypeOK, AtWork, AtTail
<1>5. InOrder'
  <2>1. Gap(tail) \in Nat /\ Gap(tail_seen) \in Nat
    BY GapType DEF IInv, TypeOK
  <2>. QED
    BY <1>2, <2>1, RingAssumption DEF IInv, InOrder, Gap
<1>6. \A s \in S : WholeRecord(S, s) => WholeRecord(S, s)'
  BY <1>2, <1>3 DEF WholeRecord, Gap, UnitsAt, CompleteUnit, Followed
<1>7. Records(S)' /\ BeingWritten(S)'
  BY <1>1, <1>2, <1>3, <1>6 DEF Records, BeingWritten, Gap
<1>. QED
  BY <1>4, <1>5, <1>7 DEF IInv

(* Where a record that has room goes: q is its start, e its end.           *)
LEMMA RoomPlaces ==
  ASSUME IInv, NEW S, Records(S), NEW n \in Nat \ {0}, 2 * n <= SIZE, NEW seen \in {tail_seen, tail},
         HasRoom(n, seen), NEW pad, pad = Padding(n), NEW q, q = Advance(wpos, pad),
         NEW e, e = Advance(wpos, pad + n)
  PROVE  /\ pad \in 0..(n - 1) /\ Gap(tail) + pad + n <= SIZE /\ q \in Position /\ e \in Position
         /\ Gap(tail) <= Gap(seen) /\ Gap(seen) + pad + n <= SIZE
         /\ \A s \in Position : Gap(s) <= Gap(seen) => Ahead(e, s) = Gap(s) + (pad + n)
         /\ Ahead(e, q) = n /\ Ahead(e, e) = 0 /\ Advance(q, n) = e
         /\ pad = 0 => q = wpos
         /\ pad # 0 => Offset(q) = 0 /\ Offset(wpos) = SIZE - pad
         /\ Offset(q) + n <= SIZE
<1>1. /\ TypeOK /\ {tail, head, wpos, tail_seen} \subseteq Position /\ SIZE \in Nat
      /\ \A s \in Position : Gap(s) \in Nat
  BY GapType, RingAssumption DEF IInv, TypeOK
<1>2. Gap(tail) <= Gap(seen) /\ seen \in Position
  BY <1>1 DEF IInv, InOrder
<1>3. Offset(wpos) \in 0..(SIZE - 1)
  BY <1>1, OffsetIs DEF Position
<1>4. pad \in 0..(n - 1) /\ (pad # 0 => Offset(wpos) = SIZE - pad) /\ (pad = 0 => Offset(wpos) + n <= SIZE)
  BY <1>1, <1>3 DEF Padding
<1>5. Gap(seen) + pad + n <= SIZE
  BY <1>1, <1>2, <1>4 DEF HasRoom, Gap
<1>6. pad + n \in Nat /\ Gap(wpos) = 0
  BY <1>1, <1>4, GapType
<1>7. \A s \in Position : Gap(s) <= Gap(seen) => Ahead(e, s) = Gap(s) + (pad + n) /\ e \in Position
  <2>. TAKE s \in Position
  <2>. HAVE Gap(s) <= Gap(seen)
  <2>1. Ahead(wpos, s) + (pad + n) < POSITIONS
    BY <1>1, <1>2, <1>4, <1>5, RingAssumption DEF Gap
  <2>. QED
    BY <1>1, <1>6, <2>1, OnFrom DEF Gap
<1>8. e \in Position /\ Ahead(e, wpos) = pad + n
  BY <1>1, <1>2, <1>6, <1>7
<1>9. q \in Position /\ Ahead(e, q) = n
  BY <1>1, <1>4, <1>8, OnTowards
<1>10. Ahead(e, e) = 0
  BY <1>8, AheadType
<1>11. Advance(q, n) = e
  <2>1. Advance(q, n) \in Position /\ Ahead(e, Advance(q, n)) = 0
    BY <1>8, <1>9, OnTowards
  <2>. QED
    BY <1>8, <2>1, AheadType
<1>12. ASSUME pad = 0 PROVE q = wpos
  BY <1>1, <1>8, <1>9, <1>12, AheadSame
<1>13. ASSUME pad # 0 PROVE Offset(q) = 0
  <2>1. Ahead(q, wpos) = pad
    <3>1. Ahead(wpos, wpos) + pad < POSITIONS
      BY <1>1, <1>4, <1>6, RingAssumption DEF Gap
    <3>. QED
      BY <1>1, <1>4, <1>6, <3>1, OnFrom DEF Gap
  <2>2. Offset(wpos) = UnitBack(q, pad)
    BY <1>1, <1>4, <1>9, <2>1, OffsetBehind
  <2>3. Offset(q) \in 0..(SIZE - 1)
    BY <1>9, OffsetIs DEF Position
  <2>. QED
    BY <1>1, <1>4, <1>13, <2>2, <2>3 DEF UnitBack
<1>14. Offset(q) + n <= SIZE
  BY <1>1, <1>4, <1>12, <1>13
<1>. QED
  BY <1>1, <1>2, <1>4, <1>5, <1>7, <1>8, <1>9, <1>10, <1>11, <1>12, <1>13, <1>14

(* Only the two headers are written: the other records' units stay.        *)
LEMMA RoomWrites ==
  ASSUME IInv, NEW S, Records(S), NEW cmd \in Commands, Reserve(cmd),
         NEW n, n = UnitsOf[cmd], HasRoom(n, TailSeen(n)), NEW pad, pad = Padding(n),
         NEW q, q = Advance(wpos, pad)
  PROVE  /\ \A s \in Position : Gap(s) \in 1..Gap(tail) => buf'[Offset(s)] = buf[Offset(s)]
         /\ UnitsAt(q)' = n /\ (n = 1 => buf'[Offset(q)].cmd = cmd)
         /\ buf'[Offset(q)].cmd # "PAD"
         /\ pad # 0 => buf'[Offset(wpos)] = [cmd |-> "PAD", units |-> pad]
<1>. PICK e : e = Advance(wpos, pad + n)
  OBVIOUS
<1>. PICK seen : seen = TailSeen(n)
  OBVIOUS
<1>1. /\ n \in Nat \ {0} /\ 2 * n <= SIZE /\ SIZE \in Nat
      /\ TypeOK /\ {tail, wpos} \subseteq Position
      /\ buf' = Headers(cmd, n) /\ seen \in {tail_seen, tail}
  BY RingAssumption DEF IInv, TypeOK, Reserve, TailSeen
<1>2. /\ pad \in 0..(n - 1) /\ Gap(tail) + pad + n <= SIZE /\ q \in Position /\ e \in Position
      /\ Gap(tail) <= Gap(seen)
      /\ \A s \in Position : Gap(s) <= Gap(seen) => Ahead(e, s) = Gap(s) + (pad + n)
      /\ Ahead(e, q) = n
      /\ pad = 0 => q = wpos
      /\ pad # 0 => Offset(q) = 0 /\ Offset(wpos) = SIZE - pad
  BY <1>1, RoomPlaces
<1>3. \A s \in Position : Gap(s) \in Nat /\ (Gap(s) = 0 <=> s = wpos)
  BY <1>1, GapType
<1>4. \A o \in 0..(SIZE - 1) :
        buf'[o] = IF o = Offset(q) THEN [cmd |-> IF n = 1 THEN cmd ELSE NoCommand, units |-> n]
                  ELSE IF pad # 0 /\ o = Offset(wpos) THEN [cmd |-> "PAD", units |-> pad]
                  ELSE buf[o]
  <2>1. Offset(q) = IF pad = 0 THEN Offset(wpos) ELSE 0
    BY <1>2
  <2>. QED
    BY <1>1, <2>1 DEF Headers, TypeOK
<1>5. ASSUME NEW s \in Position, Gap(s) \in 1..Gap(tail) PROVE buf'[Offset(s)] = buf[Offset(s)]
  <2>1. Offset(s) \in 0..(SIZE - 1) /\ Gap(wpos) = 0
    BY <1>1, <1>3, OffsetIs DEF Position
  <2>2. Ahead(e, s) = Gap(s) + (pad + n) /\ Ahead(e, wpos) = pad + n
    <3>1. seen \in Position
      BY <1>1 DEF IInv, TypeOK
    <3>2. Gap(s) <= Gap(seen) /\ Gap(wpos) <= Gap(seen)
      BY <1>1, <1>2, <1>3, <1>5, <2>1, <3>1
    <3>. QED
      BY <1>1, <1>2, <2>1, <3>2
  <2>3. Offset(s) # Offset(q)
    <3>1. Ahead(e, s) <= SIZE /\ Ahead(e, q) < Ahead(e, s) /\ Ahead(e, s) - Ahead(e, q) < SIZE
      BY <1>1, <1>2, <1>3, <1>5, <2>2
    <3>. QED
      BY <1>2, <3>1, UnitsApart
  <2>4. Offset(s) # Offset(wpos)
    <3>1. Ahead(e, s) <= SIZE /\ Ahead(e, wpos) < Ahead(e, s) /\ Ahead(e, s) - Ahead(e, wpos) < SIZE
      BY <1>1, <1>2, <1>3, <1>5, <2>2
    <3>. QED
      BY <1>1, <1>2, <3>1, UnitsApart
  <2>. QED
    BY <1>4, <2>1, <2>3, <2>4
<1>6. Offset(q) \in 0..(SIZE - 1) /\ Offset(wpos) \in 0..(SIZE - 1)
  BY <1>1, <1>2, OffsetIs DEF Position
<1>7. UnitsAt(q)' = n /\ (n = 1 => buf'[Offset(q)].cmd = cmd) /\ buf'[Offset(q)].cmd # "PAD"
  BY <1>4, <1>6, RingAssumption DEF UnitsAt
<1>8. ASSUME pad # 0 PROVE buf'[Offset(wpos)] = [cmd |-> "PAD", units |-> pad]
  BY <1>1, <1>2, <1>4, <1>6, <1>8
<1>. QED
  BY <1>5, <1>7, <1>8

(* The record has room: its header is written, and before it the pad's.    *)
LEMMA RoomStep ==
  ASSUME IInv, p.pc \in {"run", "retry"}, NEW cmd \in Commands, Reserve(cmd),
         HasRoom(UnitsOf[cmd], TailSeen(UnitsOf[cmd]))
  PROVE  IInv'
<1>1. PICK S : Records(S) /\ BeingWritten(S)
  BY DEF IInv
<1>. PICK n : n = UnitsOf[cmd]
  OBVIOUS
<1>. PICK pad : pad = Padding(n)
  OBVIOUS
<1>. PICK q : q = Advance(wpos, pad)
  OBVIOUS
<1>. PICK w : w = wpos
  OBVIOUS
<1>. PICK e : e = Advance(wpos, pad + n)
  OBVIOUS
<1>. PICK seen : seen = TailSeen(n)
  OBVIOUS
<1>. PICK T : T = S \cup {q, e}
  OBVIOUS
<1>2. /\ n \in Nat \ {0} /\ 2 * n <= SIZE /\ SIZE \in Nat
      /\ TypeOK /\ {tail, head, wpos, tail_seen} \subseteq Position
  BY RingAssumption DEF IInv, TypeOK
<1>3. /\ tail_seen' = seen /\ seen \in {tail_seen, tail} /\ wpos' = e
      /\ p' = [pc |-> "write", cmd |-> cmd] /\ buf' = Headers(cmd, n)
      /\ UNCHANGED << head, tail, given >>
  BY DEF Reserve, TailSeen
<1>4. /\ pad \in 0..(n - 1) /\ Gap(tail) + pad + n <= SIZE /\ q \in Position /\ e \in Position
      /\ Gap(tail) <= Gap(seen) /\ Gap(seen) + pad + n <= SIZE
      /\ \A s \in Position : Gap(s) <= Gap(seen) => Ahead(e, s) = Gap(s) + (pad + n)
      /\ Ahead(e, q) = n /\ Ahead(e, e) = 0 /\ Advance(q, n) = e
      /\ pad = 0 => q = wpos
      /\ pad # 0 => Offset(q) = 0 /\ Offset(wpos) = SIZE - pad
      /\ Offset(q) + n <= SIZE
  BY <1>1, <1>2, <1>3, RoomPlaces
<1>5. Writing = 0 /\ Writing' = n
  BY <1>3 DEF Writing
<1>6. \A s \in Position : Gap(s) \in Nat /\ (Gap(s) = 0 <=> s = wpos)
  BY <1>2, GapType
<1>7. \A s \in S : s \in Position /\ Gap(s) <= Gap(tail) /\ Gap(s)' = Gap(s) + (pad + n)
  BY <1>1, <1>2, <1>3, <1>4, <1>6 DEF Records, Gap
<1>8. Gap(q)' = n /\ Gap(e)' = 0
  BY <1>3, <1>4 DEF Gap
<1>9. /\ \A s \in Position : Gap(s) \in 1..Gap(tail) => buf'[Offset(s)] = buf[Offset(s)]
      /\ UnitsAt(q)' = n /\ (n = 1 => buf'[Offset(q)].cmd = cmd)
      /\ buf'[Offset(q)].cmd # "PAD"
      /\ pad # 0 => buf'[Offset(w)] = [cmd |-> "PAD", units |-> pad]
  BY <1>1, <1>3, RoomWrites
<1>11. T \subseteq Position /\ {tail, head, wpos, q, e} \subseteq T /\ wpos \in S
  BY <1>1, <1>2, <1>4 DEF Records
<1>12. \A t \in T : t = q \/ t = e \/ (t \in S /\ Gap(t) \in Nat /\ Gap(t)' = Gap(t) + (pad + n))
  BY <1>6, <1>7
<1>13. Offset(q) \in 0..(SIZE - 1) /\ Offset(wpos) \in 0..(SIZE - 1) /\ Gap(w)' = pad + n
  BY <1>1, <1>2, <1>4, <1>6, <1>7, <1>11, OffsetIs DEF Position
<1>15. WholeRecord(T, q)'
  <2>1. \A t \in T : Gap(t)' < n => Gap(t)' = 0
    BY <1>2, <1>4, <1>8, <1>12
  <2>. QED
    BY <1>2, <1>4, <1>5, <1>8, <1>11, <1>9, <2>1 DEF WholeRecord
<1>16. ASSUME pad # 0 PROVE WholeRecord(T, w)'
  <2>1. buf'[Offset(w)] = [cmd |-> "PAD", units |-> pad]
    BY <1>9, <1>16
  <2>2. UnitsAt(w)' = pad /\ CompleteUnit(w)'
    BY <2>1 DEF UnitsAt, CompleteUnit
  <2>3. \A t \in T : Gap(t)' < pad + n => Gap(t)' <= n
    BY <1>2, <1>4, <1>8, <1>12
  <2>4. Followed(q)'
    BY <1>2, <1>3, <1>4, <1>9 DEF Followed
  <2>. QED
    BY <1>2, <1>4, <1>5, <1>11, <1>13, <1>16, <2>2, <2>3, <2>4 DEF WholeRecord
<1>17. ASSUME NEW s \in S, s # w PROVE WholeRecord(T, s)'
  <2>1. WholeRecord(S, s) /\ s \in Position /\ Gap(s) \in 1..Gap(tail) /\ Gap(s)' = Gap(s) + (pad + n)
    BY <1>1, <1>2, <1>6, <1>7, <1>17 DEF Records
  <2>2. buf'[Offset(s)] = buf[Offset(s)]
    BY <1>9, <2>1
  <2>. PICK u : u = UnitsAt(s)
    OBVIOUS
  <2>3. u \in 1..Gap(s) /\ UnitsAt(s)' = u /\ Advance(s, u) \in T
    BY <2>1, <2>2 DEF WholeRecord, UnitsAt
  <2>. PICK l : l = Advance(s, u - 1)
    OBVIOUS
  <2>4. l \in Position /\ Gap(l) \in 1..Gap(tail)
    <3>1. u - 1 \in 0..Ahead(wpos, s)
      BY <2>1, <2>3 DEF Gap
    <3>2. l \in Position /\ Gap(l) = Gap(s) - (u - 1)
      BY <1>2, <2>1, <3>1, OnTowards DEF Gap
    <3>. QED
      BY <1>2, <1>6, <2>1, <2>3, <3>2
  <2>5. buf'[Offset(l)] = buf[Offset(l)]
    BY <1>9, <2>4
  <2>6. CompleteUnit(s)
    BY <1>5, <2>1 DEF WholeRecord
  <2>7. CompleteUnit(s)'
    BY <2>2, <2>3, <2>5, <2>6 DEF CompleteUnit, UnitsAt
  <2>8. \A t \in T : Gap(t)' < Gap(s)' => Gap(t)' <= Gap(s)' - u
    <3>1. \A t \in S : Gap(t) < Gap(s) => Gap(t) <= Gap(s) - u
      BY <2>1 DEF WholeRecord
    <3>. QED
      BY <1>2, <1>4, <1>8, <1>12, <2>1, <2>3, <3>1
  <2>9. ASSUME buf[Offset(s)].cmd = "PAD" PROVE Followed(Advance(s, u))'
    <3>. PICK f : f = Advance(s, u)
      OBVIOUS
    <3>1. f \in S /\ f # wpos /\ buf[Offset(f)].cmd # "PAD"
      BY <2>1, <2>9 DEF WholeRecord, Followed
    <3>2. f \in Position /\ Gap(f) \in 1..Gap(tail) /\ Gap(f)' > 0
      BY <1>1, <1>2, <1>4, <1>6, <1>7, <3>1
    <3>3. buf'[Offset(f)] = buf[Offset(f)] /\ f # e
      BY <1>8, <1>9, <3>2
    <3>. QED
      BY <1>3, <3>1, <3>3 DEF Followed
  <2>. QED
    BY <1>2, <1>4, <1>5, <2>1, <2>2, <2>3, <2>7, <2>8, <2>9 DEF WholeRecord
<1>18. Records(T)'
  <2>1. \A t \in T : Gap(t)' <= Gap(tail)'
    BY <1>2, <1>3, <1>4, <1>6, <1>7, <1>8, <1>11, <1>12 DEF Records
  <2>2. \A t \in T : t # e => WholeRecord(T, t)'
    BY <1>4, <1>15, <1>16, <1>17
  <2>. QED
    BY <1>3, <1>11, <2>1, <2>2 DEF Records
<1>19. BeingWritten(T)'
  <2>1. Gap(head)' >= n
    BY <1>1, <1>2, <1>3, <1>4, <1>6, <1>7 DEF Records
  <2>2. Started(q)'
    BY <1>3, <1>5, <1>8, <1>9 DEF Started
  <2>3. Offset(e - 1) >= n - 1
    <3>1. Offset(q) = UnitBack(e - 1, n - 1)
      BY <1>2, <1>4, OffsetBehindLast
    <3>2. Offset(e - 1) \in 0..(SIZE - 1)
      BY <1>4, OffsetIs DEF Position
    <3>. QED
      BY <1>2, <1>4, <1>13, <3>1, <3>2 DEF UnitBack
  <2>. QED
    BY <1>3, <1>5, <1>11, <2>1, <2>2, <2>3 DEF BeingWritten
<1>20. buf' \in [0..(SIZE - 1) -> Unit]
  <2>1. pad # 0 => pad \in 0..SIZE
    BY <1>2, <1>4
  <2>2. n \in 0..SIZE
    BY <1>2
  <2>. QED
    BY <1>2, <1>3, <2>1, <2>2 DEF Headers, TypeOK, Unit
<1>21. TypeOK' /\ AtWork'
  <2>1. ASSUME tail # head PROVE AtTail' = AtTail
    <3>1. Gap(tail) \in 1..Gap(tail)
      BY <1>1, <1>2, <1>6, <2>1, TailRecord
    <3>. QED
      BY <1>2, <1>3, <1>9, <3>1 DEF AtTail
  <2>. QED
    BY <1>2, <1>3, <1>4, <1>20, <2>1 DEF IInv, TypeOK, AtWork
<1>22. InOrder'
  BY <1>2, <1>3, <1>4, <1>6 DEF InOrder, Gap
<1>. QED
  BY <1>18, <1>19, <1>21, <1>22 DEF IInv

(***************************************************************************)
(* The promise of CommandQueue.                                            *)
(***************************************************************************)
Value == Commands \cup {NoCommand, "PAD"}
Lengths == [n \in 0..SIZE |-> UnitsBack(n)]
Gives == [n \in 0..SIZE |-> GivenBack(n)]

(* What the consumer is given of the record at a position.                 *)
CommandAt(s) ==
  IF p.pc = "write" /\ Gap(s) = UnitsOf[p.cmd] THEN p.cmd
  ELSE buf[Offset(Advance(s, UnitsAt(s) - 1))].cmd
GivenAt(s) == IF buf[Offset(s)].cmd = "PAD" THEN << >> ELSE << CommandAt(s) >>

(* Left gathers what the records give.                                     *)
LEMMA LeftGathers == Gathers(Left, SIZE, Lengths, Gives)
<1>. DEFINE Of(f) == [n \in 0..SIZE |->
              IF UnitsBack(n) \in 1..n THEN GivenBack(n) \o f[n - UnitsBack(n)] ELSE << >>]
<1>1. \A f : Gathers(f, SIZE, Lengths, Gives) <=> f = Of(f)
  <2>. TAKE f
  <2>. DEFINE G == [n \in 0..SIZE |->
                IF Lengths[n] \in 1..n THEN Gives[n] \o f[n - Lengths[n]] ELSE << >>]
  <2>1. \A n \in 0..SIZE : G[n] = Of(f)[n]
    BY DEF Lengths, Gives
  <2>2. G = Of(f)
    BY <2>1
  <2>. QED
    BY <2>2 DEF Gathers
<1>2. \E f : f = Of(f)
  BY <1>1, GatherExists, RingAssumption
<1>3. Left = Of(Left)
  BY <1>2 DEF Left
<1>. QED
  BY <1>1, <1>3

LEMMA LeftNext ==
  \A n \in 0..SIZE : Left[n] = IF Lengths[n] \in 1..n THEN Gives[n] \o Left[n - Lengths[n]]
                                                     ELSE << >>
  BY LeftGathers DEF Gathers

LEMMA LeftNone == Left[0] = << >>
<1>1. 0 \in 0..SIZE /\ \A i : i \notin 1..0
  BY RingAssumption
<1>. QED
  BY <1>1, LeftNext

LEMMA GivesType == TypeOK => Sequences(Gives, SIZE, Value)
<1>. SUFFICES ASSUME TypeOK, NEW n \in 0..SIZE PROVE Gives[n] \in Seq(Value)
  BY DEF Sequences
<1>1. Back(n) \in Int
  BY RingAssumption DEF Back, Advance, TypeOK, Position
<1>2. UnitsBack(n) \in Int
  BY <1>1, UnitType, RingAssumption DEF UnitsBack, Unit
<1>3. Advance(Back(n), UnitsBack(n) - 1) \in Int
  BY <1>1, <1>2, RingAssumption DEF Advance
<1>4. CommandBack(n) \in Value
  BY <1>3, UnitType DEF CommandBack, TypeOK, Unit, Value
<1>5. << >> \in Seq(Value) /\ << CommandBack(n) >> \in Seq(Value)
  BY <1>4
<1>. QED
  BY <1>5 DEF Gives, GivenBack

(* As far back as a position is, there is what lies there.                 *)
LyingBack ==
  \A s : TypeOK /\ s \in Position /\ Gap(s) <= SIZE =>
    Lengths[Gap(s)] = UnitsAt(s) /\ Gives[Gap(s)] = GivenAt(s)

LEMMA BackIs == LyingBack
<1>. SUFFICES ASSUME NEW s, TypeOK, s \in Position, Gap(s) <= SIZE
              PROVE  Lengths[Gap(s)] = UnitsAt(s) /\ Gives[Gap(s)] = GivenAt(s)
  BY DEF LyingBack
<1>1. Gap(s) \in 0..SIZE
  BY GapType, RingAssumption
<1>2. Back(Gap(s)) = s
  <2>1. wpos \in Position
    BY DEF TypeOK
  <2>. QED
    BY <2>1, RingAssumption DEF Back, Gap, Ahead, Advance, Position
<1>3. UnitsBack(Gap(s)) = UnitsAt(s)
  BY <1>2 DEF UnitsBack, UnitsAt
<1>4. CommandBack(Gap(s)) = CommandAt(s)
  BY <1>2, <1>3 DEF CommandBack, CommandAt
<1>5. GivenBack(Gap(s)) = GivenAt(s)
  BY <1>2, <1>4 DEF GivenBack, GivenAt
<1>. QED
  BY <1>1, <1>3, <1>5 DEF Lengths, Gives

(* From record to record there are as many units as the header says.       *)
LEMMA ChainIs ==
  ASSUME IInv, NEW S, Records(S), NEW s \in S
  PROVE  /\ s \in Position /\ Gap(s) \in 0..SIZE /\ (s = wpos <=> Gap(s) = 0)
         /\ Lengths[Gap(s)] = UnitsAt(s) /\ Gives[Gap(s)] = GivenAt(s)
         /\ s # wpos => /\ UnitsAt(s) \in 1..Gap(s) /\ Advance(s, UnitsAt(s)) \in S
                        /\ Gap(Advance(s, UnitsAt(s))) = Gap(s) - UnitsAt(s)
<1>1. TypeOK /\ {tail, tail_seen, wpos} \subseteq Position
  BY DEF IInv, TypeOK
<1>2. s \in Position /\ Gap(s) \in Nat /\ Gap(tail) \in Nat /\ Gap(tail_seen) \in Nat
  BY <1>1, GapType DEF Records
<1>3. Gap(s) <= SIZE
  BY <1>2, RingAssumption DEF Records, IInv, InOrder
<1>4. Gap(s) \in 0..SIZE /\ (s = wpos <=> Gap(s) = 0)
  BY <1>1, <1>2, <1>3, GapType, RingAssumption
<1>5. Lengths[Gap(s)] = UnitsAt(s) /\ Gives[Gap(s)] = GivenAt(s)
  BY <1>1, <1>2, <1>3, BackIs DEF LyingBack
<1>6. ASSUME s # wpos
      PROVE  /\ UnitsAt(s) \in 1..Gap(s) /\ Advance(s, UnitsAt(s)) \in S
             /\ Gap(Advance(s, UnitsAt(s))) = Gap(s) - UnitsAt(s)
  <2>1. UnitsAt(s) \in 1..Gap(s) /\ Advance(s, UnitsAt(s)) \in S
    BY <1>6 DEF Records, WholeRecord
  <2>2. UnitsAt(s) \in 0..Ahead(wpos, s)
    BY <2>1 DEF Gap
  <2>. QED
    BY <1>1, <1>2, <2>1, <2>2, OnTowards DEF Gap
<1>. QED
  BY <1>2, <1>4, <1>5, <1>6

(* What is left from a record on: what it gives, and what is left after.   *)
LEMMA LeftAt ==
  ASSUME IInv, NEW S, Records(S), NEW s \in S
  PROVE  /\ Left[Gap(s)] \in Seq(Value)
         /\ s = wpos => Left[Gap(s)] = << >>
         /\ s # wpos => Left[Gap(s)] = GivenAt(s) \o Left[Gap(Advance(s, UnitsAt(s)))]
<1>1. SIZE \in Nat /\ TypeOK
  BY RingAssumption DEF IInv
<1>2. Left[Gap(s)] \in Seq(Value)
  <2>1. Sequences(Left, SIZE, Value)
    BY <1>1, LeftGathers, GivesType, GatherType
  <2>. QED
    BY <2>1, ChainIs DEF Sequences
<1>3. Left[Gap(s)] = IF Lengths[Gap(s)] \in 1..Gap(s)
                     THEN Gives[Gap(s)] \o Left[Gap(s) - Lengths[Gap(s)]] ELSE << >>
  <2>1. Gap(s) \in 0..SIZE
    BY ChainIs
  <2>. QED
    BY <2>1, LeftNext
<1>4. ASSUME s = wpos PROVE Left[Gap(s)] = << >>
  <2>1. Gap(s) = 0
    BY <1>4, ChainIs
  <2>2. \A i : i \notin 1..Gap(s)
    BY <2>1
  <2>. QED
    BY <1>3, <2>2
<1>5. ASSUME s # wpos
      PROVE  Left[Gap(s)] = GivenAt(s) \o Left[Gap(Advance(s, UnitsAt(s)))]
  BY <1>3, <1>5, ChainIs
<1>. QED
  BY <1>2, <1>4, <1>5

(* Records that stay, k units further from the end, give the same.         *)
LEMMA LeftStays ==
  ASSUME IInv, IInv', NEW S, Records(S), NEW k \in 0..SIZE,
         \A s \in S : Gap(s)' = Gap(s) + k /\ Gap(s) + k <= SIZE,
         \A s \in S : s # wpos => UnitsAt(s)' = UnitsAt(s) /\ GivenAt(s)' = GivenAt(s)
  PROVE  \A s \in S : Left'[Gap(s) + k] = Left[Gap(s)] \o Left'[k]
<1>. PICK U : U = Lengths
  OBVIOUS
<1>. PICK E : E = Gives
  OBVIOUS
<1>. PICK f : f = Left
  OBVIOUS
<1>. PICK V : V = Lengths'
  OBVIOUS
<1>. PICK F : F = Gives'
  OBVIOUS
<1>. PICK g : g = Left'
  OBVIOUS
<1>. PICK D : D = {Gap(s) : s \in S}
  OBVIOUS
<1>1. SIZE \in Nat /\ TypeOK /\ TypeOK'
  BY RingAssumption DEF IInv
<1>2. Gathers(f, SIZE, U, E) /\ Sequences(E, SIZE, Value)
  BY <1>1, LeftGathers, GivesType
<1>3. Gathers(g, SIZE, V, F) /\ Sequences(F, SIZE, Value)
  <2>1. Gathers(Left, SIZE, Lengths, Gives)'
    BY LeftGathers, PTL
  <2>2. (TypeOK => Sequences(Gives, SIZE, Value))'
    BY GivesType, PTL
  <2>. QED
    BY <1>1, <2>1, <2>2 DEF Gathers, Sequences, Value
<1>4. ASSUME NEW s \in S
      PROVE  /\ Gap(s) \in Nat /\ Gap(s) + k <= SIZE
             /\ Gap(s) # 0 => /\ U[Gap(s)] \in 1..Gap(s) /\ Gap(s) - U[Gap(s)] \in D
                              /\ V[Gap(s) + k] = U[Gap(s)] /\ F[Gap(s) + k] = E[Gap(s)]
  <2>1. /\ s \in Position /\ Gap(s) \in 0..SIZE /\ (s = wpos <=> Gap(s) = 0)
        /\ U[Gap(s)] = UnitsAt(s) /\ E[Gap(s)] = GivenAt(s)
        /\ s # wpos => /\ UnitsAt(s) \in 1..Gap(s) /\ Advance(s, UnitsAt(s)) \in S
                       /\ Gap(Advance(s, UnitsAt(s))) = Gap(s) - UnitsAt(s)
    BY ChainIs
  <2>2. V[Gap(s)'] = UnitsAt(s)' /\ F[Gap(s)'] = GivenAt(s)'
    <3>1. LyingBack'
      BY BackIs, PTL
    <3>2. Gap(s)' <= SIZE /\ (s \in Position)'
      BY <2>1 DEF Position
    <3>. QED
      BY <1>1, <3>1, <3>2 DEF LyingBack
  <2>. QED
    BY <2>1, <2>2
<1>5. Shifts(D, k, SIZE, U, E, V, F)
  BY <1>4 DEF Shifts
<1>6. Prepends(D, k, f, g)
  BY <1>1, <1>2, <1>3, <1>5, GatherShift
<1>. QED
  BY <1>6 DEF Prepends

(* From further back there is no less.                                     *)
LEMMA LeftLonger ==
  ASSUME IInv, NEW S, Records(S), NEW s \in S, NEW h \in S, Gap(h) <= Gap(s)
  PROVE  Len(Left[Gap(h)]) <= Len(Left[Gap(s)])
<1>. PICK U : U = Lengths
  OBVIOUS
<1>. PICK E : E = Gives
  OBVIOUS
<1>. PICK f : f = Left
  OBVIOUS
<1>. PICK D : D = {Gap(t) : t \in S}
  OBVIOUS
<1>. PICK m : m = Gap(h)
  OBVIOUS
<1>1. SIZE \in Nat /\ Gathers(f, SIZE, U, E) /\ Sequences(E, SIZE, Value)
  BY LeftGathers, GivesType, RingAssumption DEF IInv
<1>2. D \in SUBSET (0..SIZE) /\ m \in D /\ Gap(s) \in D
  BY ChainIs
<1>3. ASSUME NEW t \in S, Gap(t) > m
      PROVE  U[Gap(t)] \in 1..Gap(t) /\ Gap(t) - U[Gap(t)] \in D /\ Gap(t) - U[Gap(t)] >= m
  <2>1. Gap(t) \in 0..SIZE /\ m \in 0..SIZE
    BY <1>2, ChainIs
  <2>2. t # wpos
    BY <1>3, <2>1, ChainIs
  <2>3. /\ U[Gap(t)] = UnitsAt(t) /\ UnitsAt(t) \in 1..Gap(t) /\ Advance(t, UnitsAt(t)) \in S
        /\ Gap(Advance(t, UnitsAt(t))) = Gap(t) - UnitsAt(t)
    BY <2>2, ChainIs
  <2>4. m <= Gap(t) - UnitsAt(t)
    BY <1>3, <2>2 DEF Records, WholeRecord
  <2>. QED
    BY <2>1, <2>3, <2>4
<1>4. \A n \in D : n > m => U[n] \in 1..n /\ n - U[n] \in D /\ n - U[n] >= m
  BY <1>3
<1>5. \A n \in D : n >= m => Len(f[m]) <= Len(f[n])
  BY <1>1, <1>2, <1>4, GatherLonger
<1>6. Gap(s) >= m
  BY <1>2
<1>. QED
  BY <1>2, <1>5, <1>6

(* The queue in the ring: what it stands for.                              *)
Cmds == IF given = NoCommand THEN From(tail) ELSE Tail(From(tail))
Open == Len(From(head))
Refused == p.pc \in {"full", "retry"}

LEMMA QueueIs ==
  /\ Cmds = IF given = NoCommand THEN Left[Gap(tail)] ELSE Tail(Left[Gap(tail)])
  /\ Open = Len(Left[Gap(head)])
  BY DEF Cmds, Open, From, Gap

LEMMA QueueBecomes ==
  /\ Cmds' = IF given' = NoCommand THEN Left'[Gap(tail)'] ELSE Tail(Left'[Gap(tail)'])
  /\ Open' = Len(Left'[Gap(head)'])
  BY DEF Cmds, Open, From, Gap

(* While the end of what is reserved and the records are the same, so is   *)
(* what is left.                                                           *)
LEMMA LeftSame ==
  ASSUME IInv, IInv', NEW S, Records(S), wpos' = wpos,
         \A s \in S : s # wpos => UnitsAt(s)' = UnitsAt(s) /\ GivenAt(s)' = GivenAt(s)
  PROVE  \A s \in S : Gap(s)' = Gap(s) /\ Left'[Gap(s)'] = Left[Gap(s)]
<1>1. SIZE \in Nat /\ 0 \in 0..SIZE
  BY RingAssumption
<1>2. \A s \in S : Gap(s)' = Gap(s) + 0 /\ Gap(s) + 0 <= SIZE /\ Gap(s) \in Nat
  BY <1>1, ChainIs DEF Gap
<1>3. \A s \in S : Left'[Gap(s) + 0] = Left[Gap(s)] \o Left'[0]
  BY <1>1, <1>2, LeftStays
<1>4. Left'[0] = << >>
  <2>1. (Left[0] = << >>)'
    BY LeftNone, PTL
  <2>. QED
    BY <2>1
<1>5. ASSUME NEW s \in S PROVE Gap(s)' = Gap(s) /\ Left'[Gap(s)'] = Left[Gap(s)]
  <2>1. Left[Gap(s)] \in Seq(Value) /\ Left[Gap(s)] \o << >> = Left[Gap(s)]
    BY LeftAt, ConcatEmptySeq
  <2>2. Gap(s)' = Gap(s) /\ Gap(s) + 0 = Gap(s)
    BY <1>2
  <2>. QED
    BY <1>3, <1>4, <2>1, <2>2
<1>. QED
  BY <1>5

(* What the consumer has at the tail, and what is left after it.           *)
LEMMA TailGives ==
  ASSUME IInv, tail # head, NEW S, Records(S), BeingWritten(S), NEW t, t = Advance(tail, AtTail.units)
  PROVE  /\ t \in S /\ Left[Gap(t)] \in Seq(Value) /\ Left[Gap(tail)] \in Seq(Value)
         /\ Left[Gap(tail)] = IF AtTail.cmd = "PAD" THEN Left[Gap(t)]
              ELSE << buf[Offset(Advance(tail, AtTail.units - 1))].cmd >> \o Left[Gap(t)]
         /\ Len(Left[Gap(head)]) <= Len(Left[Gap(t)])
<1>1. /\ tail # wpos /\ Gap(head) <= Gap(tail) - UnitsAt(tail) /\ WholeRecord(S, tail)
      /\ AtTail = buf[Offset(tail)] /\ AtTail.units = UnitsAt(tail)
  BY TailRecord
<1>2. {tail, head} \subseteq S /\ TypeOK
  BY DEF Records, IInv
<1>3. t \in S /\ Gap(t) = Gap(tail) - UnitsAt(tail)
  BY <1>1, <1>2, ChainIs
<1>4. Left[Gap(tail)] = GivenAt(tail) \o Left[Gap(t)]
  BY <1>1, <1>2, LeftAt
<1>5. Left[Gap(t)] \in Seq(Value) /\ Left[Gap(tail)] \in Seq(Value)
  BY <1>2, <1>3, LeftAt
<1>6. Gap(head) \in Nat /\ Gap(tail) \in Nat /\ UnitsAt(tail) \in 1..Gap(tail)
  BY <1>1, <1>2, ChainIs
<1>7. ~ (p.pc = "write" /\ Gap(tail) = UnitsOf[p.cmd])
  <2>. SUFFICES ASSUME p.pc = "write", Gap(tail) = UnitsOf[p.cmd] PROVE FALSE
    OBVIOUS
  <2>1. Gap(head) >= Gap(tail)
    BY DEF BeingWritten, Writing
  <2>. QED
    BY <1>1, <1>6, <2>1
<1>8. GivenAt(tail) = IF AtTail.cmd = "PAD" THEN << >>
                      ELSE << buf[Offset(Advance(tail, AtTail.units - 1))].cmd >>
  BY <1>1, <1>7 DEF GivenAt, CommandAt
<1>9. << >> \o Left[Gap(t)] = Left[Gap(t)]
  BY <1>5, ConcatEmptySeq
<1>10. Len(Left[Gap(head)]) <= Len(Left[Gap(t)])
  BY <1>1, <1>2, <1>3, LeftLonger
<1>. QED
  BY <1>3, <1>4, <1>5, <1>8, <1>9, <1>10

(* One value before a sequence.                                            *)
LEMMA OneBefore ==
  ASSUME NEW C, NEW x \in C, NEW s \in Seq(C)
  PROVE  /\ << x >> \o s \in Seq(C) /\ << x >> \o s # << >>
         /\ Head(<< x >> \o s) = x /\ Tail(<< x >> \o s) = s
         /\ Len(<< x >> \o s) = Len(s) + 1
<1>1. << x >> \in Seq(C) /\ Len(<< x >>) = 1 /\ Len(s) \in Nat
  BY LenProperties
<1>. PICK a : a = << x >>
  OBVIOUS
<1>. PICK r : r = a \o s
  OBVIOUS
<1>2. /\ r \in Seq(C) /\ Len(r) = Len(s) + 1
      /\ \A i \in 1..(Len(s) + 1) : r[i] = IF i <= 1 THEN a[i] ELSE s[i - 1]
  BY <1>1, ConcatProperties
<1>3. r # << >> /\ Head(r) = r[1] /\ r[1] = x
  BY <1>1, <1>2
<1>4. /\ Tail(r) \in Seq(C) /\ Len(Tail(r)) = Len(s)
      /\ \A i \in 1..Len(s) : Tail(r)[i] = r[i + 1]
  BY <1>1, <1>2, <1>3, HeadTailProperties
<1>5. \A i \in 1..Len(s) : Tail(r)[i] = s[i]
  BY <1>1, <1>2, <1>4
<1>6. Tail(r) = s
  BY <1>4, <1>5, SeqEqual
<1>. QED
  BY <1>2, <1>3, <1>6

(* The consumer skips a pad, which the queue does not have; is given the   *)
(* first command; and finishes it.                                         *)
LEMMA ConsumerKeeps ==
  ASSUME IInv, IInv', Consumer
  PROVE  \/ UNCHANGED << Cmds, Open, given >> /\ (Refused <=> Refused')
         \/ /\ given = NoCommand /\ Open < Len(Cmds) /\ given' = Head(Cmds) /\ Cmds' = Tail(Cmds)
            /\ Open' = Open /\ (Refused <=> Refused')
         \/ given' = NoCommand /\ UNCHANGED << Cmds, Open >> /\ (Refused <=> Refused')
<1>1. PICK S : Records(S) /\ BeingWritten(S)
  BY DEF IInv
<1>. PICK t : t = Advance(tail, AtTail.units)
  OBVIOUS
<1>2. tail # head /\ UNCHANGED << buf, head, wpos, p >> /\ (Refused <=> Refused')
  BY DEF Consumer, SkipPad, Peek, Consume, Refused, IInv, AtWork
<1>3. {tail, head} \subseteq S
  BY <1>1 DEF Records
<1>. PICK c : c = buf[Offset(Advance(tail, AtTail.units - 1))].cmd
  OBVIOUS
<1>4. /\ t \in S /\ Left[Gap(t)] \in Seq(Value) /\ Left[Gap(tail)] \in Seq(Value)
      /\ Left[Gap(tail)] = IF AtTail.cmd = "PAD" THEN Left[Gap(t)] ELSE << c >> \o Left[Gap(t)]
      /\ Len(Left[Gap(head)]) <= Len(Left[Gap(t)])
  BY <1>1, <1>2, TailGives
<1>5. \A s \in S : Gap(s)' = Gap(s) /\ Left'[Gap(s)'] = Left[Gap(s)]
  <2>1. \A s \in S : UnitsAt(s)' = UnitsAt(s) /\ GivenAt(s)' = GivenAt(s)
    BY <1>2 DEF UnitsAt, GivenAt, CommandAt, Gap
  <2>. QED
    BY <1>1, <1>2, <2>1, LeftSame
<1>6. Open' = Open
  BY <1>2, <1>3, <1>5, QueueIs, QueueBecomes DEF Gap
<1>7. AtTail.cmd # "PAD" => c \in Value
  <2>1. CompleteUnit(tail) /\ AtTail = buf[Offset(tail)] /\ AtTail.units = UnitsAt(tail)
    BY <1>1, <1>2, TailRecord
  <2>. QED
    BY <2>1 DEF CompleteUnit, Value
<1>8. CASE SkipPad
  <2>1. tail' = t /\ given = NoCommand /\ given' = NoCommand /\ AtTail.cmd = "PAD"
    BY <1>8 DEF SkipPad
  <2>2. Cmds = Left[Gap(t)]
    BY <1>4, <2>1, QueueIs
  <2>3. Cmds' = Left[Gap(t)]
    BY <1>2, <1>4, <1>5, <2>1, QueueBecomes DEF Gap
  <2>. QED
    BY <1>2, <1>6, <2>1, <2>2, <2>3
<1>9. CASE Peek
  <2>1. tail' = tail /\ given = NoCommand /\ given' = c /\ AtTail.cmd # "PAD"
    BY <1>9 DEF Peek
  <2>2. Cmds = << c >> \o Left[Gap(t)]
    BY <1>4, <2>1, QueueIs
  <2>3. Head(Cmds) = c /\ Tail(Cmds) = Left[Gap(t)] /\ Len(Cmds) = Len(Left[Gap(t)]) + 1
    BY <1>4, <1>7, <2>1, <2>2, OneBefore
  <2>4. Open < Len(Cmds)
    <3>1. Open = Len(Left[Gap(head)]) /\ Open \in Nat /\ Len(Left[Gap(t)]) \in Nat
      BY <1>1, <1>3, <1>4, LeftAt, LenProperties, QueueIs
    <3>. QED
      BY <1>4, <2>3, <3>1
  <2>5. c # NoCommand
    <3>1. CompleteUnit(tail) /\ AtTail = buf[Offset(tail)] /\ AtTail.units = UnitsAt(tail)
      BY <1>1, <1>2, TailRecord
    <3>. QED
      BY <2>1, <3>1, RingAssumption DEF CompleteUnit
  <2>6. Cmds' = Tail(Cmds)
    <3>1. Cmds' = Tail(Left'[Gap(tail)'])
      BY <2>1, <2>5, QueueBecomes
    <3>2. Left'[Gap(tail)'] = Left[Gap(tail)]
      BY <1>3, <1>5, <2>1 DEF Gap
    <3>. QED
      BY <1>4, <2>1, <2>2, <3>1, <3>2
  <2>. QED
    BY <1>2, <1>6, <2>1, <2>3, <2>4, <2>6
<1>10. CASE Consume
  <2>1. tail' = t /\ given # NoCommand /\ given' = NoCommand /\ AtTail.cmd # "PAD"
    BY <1>10 DEF Consume, IInv, AtWork
  <2>2. Cmds = Left[Gap(t)]
    BY <1>4, <1>7, <2>1, OneBefore, QueueIs
  <2>3. Cmds' = Left[Gap(t)]
    BY <1>2, <1>4, <1>5, <2>1, QueueBecomes DEF Gap
  <2>. QED
    BY <1>2, <1>6, <2>1, <2>2, <2>3
<1>. QED
  BY <1>8, <1>9, <1>10 DEF Consumer

(* The bytes written are those the queue had already.                      *)
LEMMA WriteKeepsQueue ==
  ASSUME IInv, IInv', Write
  PROVE  UNCHANGED << Cmds, Open, given >> /\ ~Refused /\ ~Refused'
<1>1. PICK S : Records(S) /\ BeingWritten(S)
  BY DEF IInv
<1>2. /\ UNCHANGED << head, tail, wpos, given >>
      /\ p.pc = "write" /\ p'.pc = "run" /\ Writing = UnitsOf[p.cmd] /\ {tail, head} \subseteq S
  BY <1>1 DEF Write, Writing, Records
<1>3. ASSUME NEW s \in S, s # wpos PROVE UnitsAt(s)' = UnitsAt(s) /\ GivenAt(s)' = GivenAt(s)
  <2>. PICK l : l = Advance(s, UnitsAt(s) - 1)
    OBVIOUS
  <2>1. /\ buf'[Offset(s)] = buf[Offset(s)]
        /\ Gap(s) > Writing => buf'[Offset(l)] = buf[Offset(l)]
        /\ Gap(s) = Writing => buf'[Offset(l)].cmd = p.cmd
    BY <1>1, <1>3, WriteKeeps
  <2>2. Gap(s) >= Writing /\ Gap(s) \in Nat /\ Writing \in Nat
    <3>1. Writing \in Nat
      BY <1>2, RingAssumption DEF IInv, AtWork
    <3>. QED
      BY <1>1, <1>3, <3>1, ChainIs DEF Records, WholeRecord
  <2>3. UnitsAt(s)' = UnitsAt(s)
    BY <2>1 DEF UnitsAt
  <2>4. CommandAt(s)' = buf'[Offset(l)].cmd
    BY <1>2, <2>3 DEF CommandAt
  <2>5. CommandAt(s) = buf'[Offset(l)].cmd
    BY <1>2, <2>1, <2>2 DEF CommandAt
  <2>. QED
    BY <2>1, <2>3, <2>4, <2>5 DEF GivenAt
<1>4. \A s \in S : Gap(s)' = Gap(s) /\ Left'[Gap(s)'] = Left[Gap(s)]
  BY <1>1, <1>2, <1>3, LeftSame
<1>5. Left'[Gap(tail)'] = Left[Gap(tail)] /\ Left'[Gap(head)'] = Left[Gap(head)]
  BY <1>2, <1>4 DEF Gap
<1>. QED
  BY <1>2, <1>5, QueueIs, QueueBecomes DEF Refused

(* Nothing is open once what is reserved is published.                     *)
LEMMA PublishKeepsQueue ==
  ASSUME IInv, IInv', Publish
  PROVE  Open' = 0 /\ UNCHANGED << Cmds, given >> /\ (Refused <=> Refused')
<1>1. PICK S : Records(S) /\ BeingWritten(S)
  BY DEF IInv
<1>2. /\ UNCHANGED << buf, tail, wpos, given >> /\ head' = wpos
      /\ p.pc # "write" /\ p'.pc # "write" /\ {tail, wpos} \subseteq S
  BY <1>1 DEF Publish, IInv, TypeOK, Records
<1>3. \A s \in S : UnitsAt(s)' = UnitsAt(s) /\ GivenAt(s)' = GivenAt(s)
  BY <1>2 DEF UnitsAt, GivenAt, CommandAt
<1>4. \A s \in S : Gap(s)' = Gap(s) /\ Left'[Gap(s)'] = Left[Gap(s)]
  BY <1>1, <1>2, <1>3, LeftSame
<1>5. Left'[Gap(tail)'] = Left[Gap(tail)] /\ Left'[Gap(head)'] = Left[Gap(wpos)]
  BY <1>2, <1>4 DEF Gap
<1>6. Left[Gap(wpos)] = << >>
  BY <1>1, <1>2, LeftAt
<1>7. Refused <=> Refused'
  BY DEF Publish, IInv, TypeOK, Refused
<1>. QED
  BY <1>2, <1>5, <1>6, <1>7, QueueIs, QueueBecomes

(* A record that is no pad gives a command.                                *)
LEMMA NotEmpty ==
  ASSUME IInv, NEW S, Records(S), NEW s \in S, s # wpos, buf[Offset(s)].cmd # "PAD"
  PROVE  Left[Gap(s)] # << >>
<1>. PICK t : t = Advance(s, UnitsAt(s))
  OBVIOUS
<1>1. t \in S /\ Gap(s) \in 0..SIZE /\ Gives[Gap(s)] = GivenAt(s)
  BY ChainIs
<1>2. GivenAt(s) \in Seq(Value) /\ Left[Gap(t)] \in Seq(Value)
  BY <1>1, LeftAt, GivesType DEF Sequences, IInv
<1>3. GivenAt(s) # << >>
  BY DEF GivenAt
<1>4. Left[Gap(s)] = GivenAt(s) \o Left[Gap(t)]
  BY LeftAt
<1>. PICK a : a = GivenAt(s)
  OBVIOUS
<1>. PICK b : b = Left[Gap(t)]
  OBVIOUS
<1>5. a \o b # << >>
  BY <1>2, <1>3, ConcatEqualIffEmpty
<1>. QED
  BY <1>4, <1>5

(* The producer is refused only while there is something to consume: what  *)
(* does not fit an empty ring is longer than half of it.                   *)
LEMMA FullKeepsQueue ==
  ASSUME IInv, IInv', p.pc \in {"run", "retry"}, NEW cmd \in Commands, Reserve(cmd),
         ~HasRoom(UnitsOf[cmd], TailSeen(UnitsOf[cmd]))
  PROVE  /\ UNCHANGED << Cmds, Open, given >> /\ Refused' /\ (Cmds # << >> \/ given # NoCommand)
<1>1. PICK S : Records(S) /\ BeingWritten(S)
  BY DEF IInv
<1>. PICK n : n = UnitsOf[cmd]
  OBVIOUS
<1>2. /\ p' = [pc |-> "full", cmd |-> cmd] /\ UNCHANGED << buf, head, tail, wpos, given >>
      /\ p.pc # "write" /\ {tail, head} \subseteq S
  BY <1>1 DEF Reserve, Records
<1>3. \A s \in S : UnitsAt(s)' = UnitsAt(s) /\ GivenAt(s)' = GivenAt(s)
  BY <1>2 DEF UnitsAt, GivenAt, CommandAt
<1>4. \A s \in S : Gap(s)' = Gap(s) /\ Left'[Gap(s)'] = Left[Gap(s)]
  BY <1>1, <1>2, <1>3, LeftSame
<1>5. Left'[Gap(tail)'] = Left[Gap(tail)] /\ Left'[Gap(head)'] = Left[Gap(head)]
  BY <1>2, <1>4 DEF Gap
<1>6. Gap(tail) # 0
  <2>1. n \in Nat \ {0} /\ 2 * n <= SIZE /\ SIZE \in Nat /\ wpos \in Position
    BY RingAssumption DEF IInv, TypeOK
  <2>2. Offset(wpos) \in 0..(SIZE - 1)
    BY <2>1, OffsetIs DEF Position
  <2>3. Padding(n) + n <= SIZE
    BY <2>1, <2>2 DEF Padding
  <2>4. ~ (SIZE - Gap(tail) >= Padding(n) + n)
    BY DEF HasRoom, TailSeen, Gap
  <2>. QED
    BY <2>1, <2>3, <2>4
<1>7. ASSUME given = NoCommand PROVE Cmds # << >>
  <2>1. tail # wpos /\ Cmds = Left[Gap(tail)]
    BY <1>1, <1>2, <1>6, <1>7, ChainIs, QueueIs
  <2>2. CASE buf[Offset(tail)].cmd # "PAD"
    BY <1>1, <1>2, <2>1, <2>2, NotEmpty
  <2>3. CASE buf[Offset(tail)].cmd = "PAD"
    <3>. PICK t : t = Advance(tail, UnitsAt(tail))
      OBVIOUS
    <3>1. t \in S /\ Followed(t)
      BY <1>1, <1>2, <2>1, <2>3 DEF Records, WholeRecord
    <3>2. Left[Gap(t)] # << >> /\ Left[Gap(t)] \in Seq(Value)
      BY <1>1, <3>1, NotEmpty, LeftAt DEF Followed
    <3>3. Left[Gap(tail)] = << >> \o Left[Gap(t)]
      BY <1>1, <1>2, <2>1, <2>3, LeftAt DEF GivenAt
    <3>. QED
      BY <2>1, <3>2, <3>3, ConcatEmptySeq
  <2>. QED
    BY <2>2, <2>3
<1>. QED
  BY <1>2, <1>5, <1>7, QueueIs, QueueBecomes DEF Refused

(* What the producer reserves comes last.                                  *)
LEMMA RoomKeepsQueue ==
  ASSUME IInv, IInv', p.pc \in {"run", "retry"}, NEW cmd \in Commands, Reserve(cmd),
         HasRoom(UnitsOf[cmd], TailSeen(UnitsOf[cmd]))
  PROVE  Cmds' = Append(Cmds, cmd) /\ Open' = Open + 1 /\ given' = given /\ ~Refused'
<1>1. PICK S : Records(S) /\ BeingWritten(S)
  BY DEF IInv
<1>. PICK n : n = UnitsOf[cmd]
  OBVIOUS
<1>. PICK pad : pad = Padding(n)
  OBVIOUS
<1>. PICK k : k = pad + n
  OBVIOUS
<1>. PICK q : q = Advance(wpos, pad)
  OBVIOUS
<1>. PICK w : w = wpos
  OBVIOUS
<1>. PICK e : e = Advance(wpos, pad + n)
  OBVIOUS
<1>. PICK seen : seen = TailSeen(n)
  OBVIOUS
<1>2. /\ n \in Nat \ {0} /\ 2 * n <= SIZE /\ SIZE \in Nat
      /\ TypeOK /\ TypeOK' /\ {tail, head, wpos, tail_seen} \subseteq Position
  BY RingAssumption DEF IInv, TypeOK
<1>3. /\ seen \in {tail_seen, tail} /\ wpos' = e
      /\ p' = [pc |-> "write", cmd |-> cmd]
      /\ UNCHANGED << head, tail, given >> /\ {tail, head} \subseteq S
  BY <1>1 DEF Reserve, TailSeen, Records
<1>4. /\ pad \in 0..(n - 1) /\ Gap(tail) + pad + n <= SIZE /\ q \in Position /\ e \in Position
      /\ Gap(tail) <= Gap(seen)
      /\ \A s \in Position : Gap(s) <= Gap(seen) => Ahead(e, s) = Gap(s) + (pad + n)
      /\ Ahead(e, q) = n /\ Ahead(e, e) = 0 /\ Advance(q, n) = e
      /\ pad = 0 => q = wpos
  BY <1>1, <1>2, <1>3, RoomPlaces
<1>5. /\ \A s \in Position : Gap(s) \in 1..Gap(tail) => buf'[Offset(s)] = buf[Offset(s)]
      /\ UnitsAt(q)' = n /\ buf'[Offset(q)].cmd # "PAD"
      /\ pad # 0 => buf'[Offset(w)] = [cmd |-> "PAD", units |-> pad]
  BY <1>1, RoomWrites
<1>6. k \in 0..SIZE /\ n \in 1..k /\ Gap(tail) \in Nat
  BY <1>1, <1>2, <1>3, <1>4, ChainIs
<1>7. ASSUME NEW s \in S
      PROVE  /\ s \in Position /\ Gap(s) \in 0..Gap(tail) /\ (s = wpos <=> Gap(s) = 0)
             /\ Gap(s)' = Gap(s) + k /\ Gap(s) + k <= SIZE
  <2>1. s \in Position /\ Gap(s) \in Nat /\ Gap(s) <= Gap(tail) /\ (s = wpos <=> Gap(s) = 0)
    BY <1>1, ChainIs DEF Records
  <2>2. Gap(seen) \in Nat
    BY <1>2, <1>3, GapType
  <2>. QED
    BY <1>2, <1>3, <1>4, <1>6, <2>1, <2>2 DEF Gap
<1>8. ASSUME NEW s \in S, s # wpos PROVE UnitsAt(s)' = UnitsAt(s) /\ GivenAt(s)' = GivenAt(s)
  <2>1. s \in Position /\ Gap(s) \in 1..Gap(tail) /\ UnitsAt(s) \in 1..Gap(s)
    BY <1>1, <1>6, <1>7, <1>8, ChainIs
  <2>2. buf'[Offset(s)] = buf[Offset(s)] /\ UnitsAt(s)' = UnitsAt(s)
    BY <1>5, <2>1 DEF UnitsAt
  <2>. PICK l : l = Advance(s, UnitsAt(s) - 1)
    OBVIOUS
  <2>3. l \in Position /\ Gap(l) \in 1..Gap(tail)
    <3>1. UnitsAt(s) - 1 \in 0..Ahead(wpos, s)
      BY <2>1 DEF Gap
    <3>2. l \in Position /\ Gap(l) = Gap(s) - (UnitsAt(s) - 1)
      BY <1>2, <2>1, <3>1, OnTowards DEF Gap
    <3>. QED
      BY <1>6, <2>1, <3>2
  <2>4. CommandAt(s) = buf[Offset(l)].cmd
    BY DEF CommandAt
  <2>5. CommandAt(s)' = buf[Offset(l)].cmd
    <3>1. Gap(s)' # n
      BY <1>2, <1>4, <1>7, <2>1
    <3>. QED
      BY <1>3, <1>5, <2>2, <2>3, <3>1 DEF CommandAt
  <2>. QED
    BY <2>2, <2>4, <2>5 DEF GivenAt
<1>9. \A s \in S : Left'[Gap(s) + k] = Left[Gap(s)] \o Left'[k]
  <2>1. \A s \in S : Gap(s)' = Gap(s) + k /\ Gap(s) + k <= SIZE
    BY <1>7
  <2>2. \A s \in S : s # wpos => UnitsAt(s)' = UnitsAt(s) /\ GivenAt(s)' = GivenAt(s)
    BY <1>8
  <2>. QED
    BY ONLY IInv, IInv', <1>1, <1>6, <2>1, <2>2, LeftStays
<1>10. Left'[k] = << cmd >>
  <2>. PICK g : g = Left'
    OBVIOUS
  <2>. PICK V : V = Lengths'
    OBVIOUS
  <2>. PICK F : F = Gives'
    OBVIOUS
  <2>1. \A m \in 0..SIZE : g[m] = IF V[m] \in 1..m THEN F[m] \o g[m - V[m]] ELSE << >>
    <3>1. Gathers(Left, SIZE, Lengths, Gives)'
      BY LeftGathers, PTL
    <3>. QED
      BY <3>1 DEF Gathers
  <2>2. g[0] = << >>
    <3>1. (Left[0] = << >>)'
      BY LeftNone, PTL
    <3>. QED
      BY <3>1
  <2>3. \A s : TypeOK' /\ s \in Position /\ Gap(s)' <= SIZE =>
          V[Gap(s)'] = UnitsAt(s)' /\ F[Gap(s)'] = GivenAt(s)'
    <3>1. LyingBack'
      BY BackIs, PTL
    <3>. QED
      BY <3>1 DEF LyingBack, Position
  <2>4. Gap(q)' = n /\ GivenAt(q)' = << cmd >>
    <3>1. Gap(q)' = n
      BY <1>3, <1>4 DEF Gap
    <3>. QED
      BY <1>3, <1>5, <3>1 DEF GivenAt, CommandAt
  <2>5. V[n] = n /\ F[n] = << cmd >>
    <3>1. V[Gap(q)'] = UnitsAt(q)' /\ F[Gap(q)'] = GivenAt(q)'
      BY <1>2, <1>4, <2>3, <2>4
    <3>. QED
      BY <1>5, <2>4, <3>1
  <2>6. g[n] = << cmd >>
    <3>1. n \in 0..SIZE /\ n \in 1..n /\ n - n = 0
      BY <1>2
    <3>2. g[n] = F[n] \o g[0]
      <4>1. V[n] \in 1..n /\ n - V[n] = 0
        BY <2>5, <3>1
      <4>. QED
        BY <2>1, <3>1, <4>1
    <3>3. F[n] \in Seq(Commands)
      BY <2>5
    <3>4. F[n] \o << >> = F[n]
      BY <3>3, ConcatEmptySeq
    <3>. QED
      BY <2>2, <2>5, <3>2, <3>4
  <2>7. CASE pad = 0
    <3>1. k = n
      BY <1>2, <2>7
    <3>. QED
      BY <2>6, <3>1
  <2>8. CASE pad # 0
    <3>1. w \in S /\ Gap(w) = 0
      BY <1>1, <1>7 DEF Records
    <3>2. Gap(w)' = k /\ w \in Position
      BY <1>6, <1>7, <3>1
    <3>3. V[k] = pad /\ F[k] = << >>
      <4>1. V[Gap(w)'] = UnitsAt(w)' /\ F[Gap(w)'] = GivenAt(w)'
        BY <1>2, <1>6, <2>3, <3>2
      <4>. QED
        BY <1>5, <2>8, <3>2, <4>1 DEF UnitsAt, GivenAt
    <3>4. pad \in 1..k /\ k - pad = n
      BY <1>2, <1>4, <2>8
    <3>5. g[k] = F[k] \o g[n]
      <4>1. V[k] \in 1..k /\ k - V[k] = n
        BY <3>3, <3>4
      <4>. QED
        BY <1>6, <2>1, <4>1
    <3>6. g[n] \in Seq(Commands)
      BY <2>6
    <3>7. << >> \o g[n] = g[n]
      BY <3>6, ConcatEmptySeq
    <3>. QED
      BY <2>6, <3>3, <3>5, <3>7
  <2>. QED
    BY <2>7, <2>8
<1>11. ASSUME NEW s \in S
       PROVE  /\ Left[Gap(s)] \in Seq(Value) /\ Left'[Gap(s)'] = Left[Gap(s)] \o << cmd >>
              /\ Left'[Gap(s)'] = Append(Left[Gap(s)], cmd)
  <2>1. Left[Gap(s)] \in Seq(Value) /\ cmd \in Value
    BY <1>1, LeftAt DEF Value
  <2>2. Left'[Gap(s)'] = Left[Gap(s)] \o << cmd >>
    BY <1>7, <1>9, <1>10
  <2>. QED
    BY <2>1, <2>2, AppendIsConcat
<1>12. Open' = Open + 1
  <2>1. Left'[Gap(head)'] = Append(Left[Gap(head)], cmd) /\ Left[Gap(head)] \in Seq(Value)
    BY <1>3, <1>11 DEF Gap
  <2>2. Len(Append(Left[Gap(head)], cmd)) = Len(Left[Gap(head)]) + 1
    BY <2>1, AppendProperties DEF Value
  <2>. QED
    BY <2>1, <2>2, QueueIs, QueueBecomes
<1>13. /\ Left'[Gap(tail)'] = Append(Left[Gap(tail)], cmd)
       /\ Left[Gap(tail)] \in Seq(Value) /\ cmd \in Value
  BY <1>3, <1>11 DEF Gap, Value
<1>14. CASE given = NoCommand
  BY <1>3, <1>12, <1>13, <1>14, QueueIs, QueueBecomes DEF Refused
<1>15. CASE given # NoCommand
  <2>1. tail # head /\ AtTail.cmd # "PAD"
    BY <1>15 DEF IInv, AtWork
  <2>. PICK t : t = Advance(tail, AtTail.units)
    OBVIOUS
  <2>. PICK c : c = buf[Offset(Advance(tail, AtTail.units - 1))].cmd
    OBVIOUS
  <2>2. Left[Gap(tail)] = << c >> \o Left[Gap(t)] /\ Left[Gap(t)] \in Seq(Value)
    BY <1>1, <2>1, TailGives
  <2>3. c \in Value
    <3>1. CompleteUnit(tail) /\ AtTail = buf[Offset(tail)] /\ AtTail.units = UnitsAt(tail)
      BY <1>1, <2>1, TailRecord
    <3>. QED
      BY <2>1, <3>1 DEF CompleteUnit, Value
  <2>4. Left[Gap(tail)] # << >>
    BY <2>2, <2>3, OneBefore
  <2>5. Tail(Append(Left[Gap(tail)], cmd)) = Append(Tail(Left[Gap(tail)]), cmd)
    BY <1>13, <2>4, HeadTailAppend
  <2>. QED
    BY <1>3, <1>12, <1>13, <1>15, <2>5, QueueIs, QueueBecomes DEF Refused
<1>. QED
  BY <1>14, <1>15


(***************************************************************************)
(* The theorems.                                                           *)
(***************************************************************************)
LEMMA NextStep == IInv /\ [Next]_vars => IInv'
<1>. SUFFICES ASSUME IInv, [Next]_vars PROVE IInv'
  OBVIOUS
<1>1. ASSUME NEW cmd \in Commands, p.pc \in {"run", "retry"}, Reserve(cmd) PROVE IInv'
  BY <1>1, RoomStep, FullStep
<1>2. CASE Retry
  BY <1>1, <1>2 DEF Retry, IInv, AtWork
<1>3. CASE \E cmd \in Commands : Begin(cmd)
  BY <1>1, <1>3 DEF Begin
<1>4. CASE UNCHANGED vars
  <2>1. PICK S : Records(S) /\ BeingWritten(S)
    BY DEF IInv
  <2>2. Records(S)' /\ BeingWritten(S)'
    BY <1>4, <2>1
    DEF vars, Records, BeingWritten, Started, WholeRecord, Gap, UnitsAt, CompleteUnit, Followed, Writing
  <2>. QED
    BY <1>4, <2>2 DEF vars, IInv, TypeOK, InOrder, AtWork, AtTail, Gap
<1>. QED
  BY <1>2, <1>3, <1>4, ConsumerStep, WriteStep, PublishStep DEF Next

(* The records from the tail on follow one another to the end of what is   *)
(* reserved, each whole but the one the producer is writing: however often *)
(* the ring goes round (ring.c).                                           *)
THEOREM Invariant == Spec => []IInv
  BY Initially, NextStep, PTL DEF Spec

(* What the consumer is given is a command and the units in the ring are   *)
(* headers or a command's bytes (ring.c hle_ring_peek).                    *)
THEOREM TypesOK == Spec => []TypeOK
<1>1. IInv => TypeOK
  BY DEF IInv
<1>. QED
  BY <1>1, Invariant, PTL

(* What is reserved is never over what is not consumed, for every size of  *)
(* the buffer and of the positions (ring.c reserve).                       *)
THEOREM PositionsStayInOrder == Spec => []PositionsInOrder
  BY IInvImplies, Invariant, PTL

(* The ring keeps the queue's promise: the render thread is given every    *)
(* command published once, whole and in order, however often the ring goes *)
(* round, and a full ring has something in it to consume (ring.c, fe.c).   *)
THEOREM PromiseKept == Spec => KeepsPromise
<1>1. Init => Queue!Init
  <2>. SUFFICES ASSUME Init PROVE Queue!Init
    OBVIOUS
  <2>1. Gap(tail) = 0 /\ Gap(head) = 0 /\ given = NoCommand /\ ~Refused
    <3>1. Ahead(0, 0) = 0
      BY RingAssumption, AheadType DEF Position
    <3>. QED
      BY <3>1 DEF Init, Gap, Refused
  <2>2. Left[0] = << >>
    BY LeftNone
  <2>. QED
    BY <2>1, <2>2, QueueIs DEF Queue!Init, Cmds, Open, Refused
<1>2. IInv /\ IInv' /\ [Next]_vars => [Queue!Next]_Queue!queue
  <2>. SUFFICES ASSUME IInv, IInv', [Next]_vars PROVE [Queue!Next]_Queue!queue
    OBVIOUS
  <2>. USE DEF Queue!Next, Queue!queue
  <2>1. ASSUME NEW cmd \in Commands, p.pc = "run" \/ p.pc = "retry", Reserve(cmd)
        PROVE  Queue!Put(cmd) \/ Queue!Refuse \/ UNCHANGED Queue!queue
    <3>1. CASE HasRoom(UnitsOf[cmd], TailSeen(UnitsOf[cmd]))
      BY <2>1, <3>1, RoomKeepsQueue DEF Queue!Put, Cmds, Open, Refused
    <3>2. CASE ~HasRoom(UnitsOf[cmd], TailSeen(UnitsOf[cmd]))
      BY <2>1, <3>2, FullKeepsQueue DEF Queue!Refuse, Cmds, Open, Refused
    <3>. QED
      BY <3>1, <3>2
  <2>2. CASE Retry
    BY <2>1, <2>2 DEF Retry, IInv, AtWork
  <2>3. CASE \E cmd \in Commands : Begin(cmd)
    BY <2>1, <2>3 DEF Begin
  <2>4. CASE Consumer
    BY <2>4, ConsumerKeeps DEF Queue!Give, Queue!Finish, Cmds, Open, Refused
  <2>5. CASE Write
    BY <2>5, WriteKeepsQueue DEF Cmds, Open, Refused
  <2>6. CASE Publish
    BY <2>6, PublishKeepsQueue DEF Queue!Publish, Cmds, Open, Refused
  <2>7. CASE UNCHANGED vars
    <3>1. UNCHANGED << Left, given, p, wpos, tail, head >>
      BY <2>7 DEF vars, Left, UnitsBack, GivenBack, CommandBack, Back
    <3>. QED
      BY <3>1, QueueIs, QueueBecomes DEF Cmds, Open, Refused, From
  <2>. QED
    BY <2>2, <2>3, <2>4, <2>5, <2>6, <2>7 DEF Next
<1>. QED
  BY <1>1, <1>2, Invariant, PTL DEF Spec, KeepsPromise, Queue!Spec

-----------------------------------------------------------------------------
(***************************************************************************)
(* Timeline: the types, and that it keeps the promise of GpuWork.          *)
(***************************************************************************)

(***************************************************************************)
(* The inductive invariant.                                                *)
(***************************************************************************)
Submission == [value : 1..VALUES, copies : SUBSET (1..LANDINGS)]
Asked == [piece : 1..VALUES, kind : Kinds, at : {"asked", "landed", "dropped", "garbage"}]

GpuType == gpu \in [queue : Seq(Submission), counter : 0..VALUES,
                    copied : SUBSET (1..LANDINGS), dead : BOOLEAN]
TlType == tl \in [submitted : 0..VALUES, completed : Values, event : BOOLEAN, lost : BOOLEAN]
LandType == /\ land \in [q : SUBSET Landing, landed : Values, asked : Seq(Asked)]
            /\ Len(land.asked) <= LANDINGS
Publication == [stage : {"none", "land", "complete"}, v : Values]
PubType == pub \in [Publishers -> Publication]
WatcherType == watcher \in [pc : {"reset", "check", "asleep", "look", "tell", "ended"},
                            done : 0..VALUES, told : 0..VALUES]

(* The landing owed is of the last value made, and there is room for it.   *)
OwedType == /\ owed \in {"none", "late", "empty", "note"}
            /\ owed # "none" => made \in 1..VALUES /\ Len(land.asked) < LANDINGS

Types ==
  /\ OwedType /\ made \in 0..VALUES /\ open \subseteq 1..LANDINGS /\ wait \in [Waiters -> 0..VALUES]
  /\ GpuType /\ TlType /\ LandType /\ PubType /\ WatcherType

(* The landings queued are those still to come, each once, of the value it *)
(* was asked at, which has not landed; only readbacks are marked.          *)
Queued ==
  /\ \A e \in land.q :
       /\ e.n \in DOMAIN land.asked /\ land.asked[e.n].at = "asked"
       /\ e.value = land.asked[e.n].piece /\ e.value > land.landed
       /\ e.kind = land.asked[e.n].kind /\ (e.copied => e.kind \in Copies)
  /\ \A e, f \in land.q : e.n = f.n => e = f
  /\ \A n \in DOMAIN land.asked : land.asked[n].at = "asked" => \E e \in land.q : e.n = n

(* The GPU has submissions of rising values, past what it has counted.     *)
QueueInOrder ==
  /\ gpu.counter <= tl.submitted /\ tl.submitted <= made
  /\ \A i \in DOMAIN gpu.queue :
       /\ gpu.counter < gpu.queue[i].value /\ gpu.queue[i].value <= tl.submitted
       /\ \A j \in DOMAIN gpu.queue : i < j => gpu.queue[i].value < gpu.queue[j].value

(* A copy is recorded for a landing asked for, or for the one owed.  Only  *)
(* if it was asked for in time is it sure to know.                         *)
CopiesKnown ==
  \A n \in 1..LANDINGS :
    Recorded(n) =>
      \/ n = Len(land.asked) + 1 /\ owed = "late"
      \/ /\ n \in DOMAIN land.asked
         /\ \A e \in land.q : e.n = n /\ e.kind = "read" => e.copied

(* A submission brings, at the latest, the copies of the readbacks         *)
(* published with its value.                                               *)
CopiesInTime ==
  \A v \in 1..VALUES : \A n \in Readbacks(v) :
    /\ v <= gpu.counter => n \in gpu.copied
    /\ \A i \in DOMAIN gpu.queue :
         v <= gpu.queue[i].value =>
           n \in gpu.copied \/ \E j \in 1..i : n \in gpu.queue[j].copies

(* What is published has been counted, or everything is, by the loss; and  *)
(* it has landed before it is completed.                                   *)
Reached(v) == v <= gpu.counter \/ (v = Forever /\ gpu.dead)

Publishing ==
  /\ tl.lost => gpu.dead
  /\ \A t \in Publishers :
       pub[t].stage # "none" => /\ pub[t].v >= 1 /\ Reached(pub[t].v)
                                /\ pub[t].stage = "complete" => pub[t].v <= land.landed
  /\ Reached(land.landed) /\ tl.completed <= land.landed

TimelineIInv ==
  /\ Types /\ Queued /\ QueueInOrder /\ CopiesKnown /\ CopiesInTime /\ Publishing
-----------------------------------------------------------------------------
(* The steps that ask for a landing queue it, or make it at once.          *)
Asking(v, kind) ==
  /\ LandAdd(v, kind) /\ Len(land.asked) < LANDINGS
  /\ v <= made + 1 /\ owed' = "none"
  /\ IF owed = "none" THEN kind \in {"read", "empty", "note"} /\ (kind # "note" => v = made + 1)
                      ELSE kind = owed /\ v = made
  /\ UNCHANGED << made, open, gpu, tl, wait, pub, watcher >>

AnAsk ==
  \/ AskOwed
  \/ \E kind \in {"read", "empty", "note"} : Ask(kind)
  \/ \E v \in 1..VALUES : AskCopy(v)

LEMMA AsksQueue ==
  ASSUME Types, AnAsk
  PROVE  \E v \in 1..VALUES : \E kind \in Kinds : Asking(v, kind)
<1>. USE TimelineAssumption DEF TimelineAssumption, Kinds
<1>1. CASE AskOwed
  <2>1. Asking(made, owed) /\ made \in 1..VALUES /\ owed \in Kinds
    BY <1>1 DEF AskOwed, Asking, Types, OwedType
  <2>. QED
    BY <2>1
<1>2. ASSUME NEW kind \in {"read", "empty", "note"}, Ask(kind)
      PROVE  \E v \in 1..VALUES : \E k \in Kinds : Asking(v, k)
  <2>1. Asking(made + 1, kind) /\ made + 1 \in 1..VALUES
    BY <1>2 DEF Ask, Asking, Types
  <2>. QED
    BY <2>1
<1>3. ASSUME NEW v \in 1..VALUES, AskCopy(v)
      PROVE  \E k \in Kinds : Asking(v, k)
  <2>1. Asking(v, "note")
    BY <1>3 DEF AskCopy, Asking, Types
  <2>. QED
    BY <2>1
<1>. QED
  BY <1>1, <1>2, <1>3 DEF AnAsk

(* What a landing brings is one of the ways of not being asked any more.   *)
LEMMA BringsIs ==
  ASSUME NEW e
  PROVE  /\ Brings(e) \in {"landed", "dropped", "garbage"}
         /\ e.kind = "note" => Brings(e) = "landed"
         /\ e.kind # "note" /\ ~e.copied => Brings(e) = "dropped"
         /\ e.kind # "note" /\ e.copied /\ e.n \in gpu.copied => Brings(e) = "landed"
  BY DEF Brings

(* Landing the values up to v settles the landings still to come of those  *)
(* values, each with what its entry brings, and leaves the others.         *)
LEMMA LandedIs ==
  ASSUME Types, Queued, NEW n \in DOMAIN land.asked, NEW v \in Values
  PROVE  IF land.asked[n].piece <= v /\ land.asked[n].at = "asked"
         THEN \E e \in land.q : e.n = n /\ e.value <= v /\ Landed(n, v) = Brings(e)
         ELSE Landed(n, v) = land.asked[n].at
<1>1. CASE land.asked[n].piece <= v /\ land.asked[n].at = "asked"
  <2>1. PICK e \in land.q : e.n = n
    BY <1>1 DEF Queued
  <2>2. e \in DueAt(v) /\ \A f \in DueAt(v) : f.n = n => f = e
    BY <1>1, <2>1 DEF Queued, DueAt
  <2>. QED
    BY <1>1, <2>1, <2>2 DEF Landed, DueAt
<1>2. CASE ~(land.asked[n].piece <= v /\ land.asked[n].at = "asked")
  BY <1>2 DEF Landed, DueAt, Queued
<1>. QED
  BY <1>1, <1>2

(* Losing the device publishes the end of everything.                      *)
LEMMA LosingIs ==
  ASSUME PubType, NEW t
  PROVE  Losing(t) \in [Publishers -> Publication]
<1>1. [stage |-> "land", v |-> Forever] \in Publication
  BY TimelineAssumption DEF TimelineAssumption, Publication, Values, Forever
<1>. QED
  BY <1>1 DEF PubType, Losing

(* Every step keeps the types.                                             *)
LEMMA TypesStep ==
  ASSUME Types, Queued, QueueInOrder, [TimelineNext]_timelineVars
  PROVE  Types'
<1>. USE TimelineAssumption DEF TimelineAssumption, Values, Forever
<1>Make. CASE Make
  BY <1>Make DEF Make, Types, OwedType, GpuType, TlType, LandType, PubType, WatcherType
<1>MakeOwing. ASSUME NEW kind \in {"late", "empty", "note"}, MakeOwing(kind)
  PROVE  Types'
  BY <1>MakeOwing
     DEF MakeOwing, Types, OwedType, GpuType, TlType, LandType, PubType, WatcherType
<1>Ask. ASSUME NEW v \in 1..VALUES, NEW kind \in Kinds, Asking(v, kind)
  PROVE  Types'
  <2>. DEFINE e == [n |-> Len(land.asked) + 1, value |-> v, kind |-> kind, copied |-> FALSE]
              a == [piece |-> v, kind |-> kind,
                    at |-> IF v <= land.landed THEN Brings(e) ELSE "asked"]
  <2>1. e \in Landing
    BY <1>Ask DEF Asking, Types, LandType, Landing
  <2>2. a \in Asked
    BY <1>Ask, <2>1, BringsIs DEF Types, Landing, Asked
  <2>3. Append(land.asked, a) \in Seq(Asked) /\ Len(Append(land.asked, a)) = Len(land.asked) + 1
    BY <2>2 DEF Types, LandType
  <2>. DEFINE q == IF v <= land.landed THEN land.q ELSE land.q \cup {e}
  <2>4. land' = [land EXCEPT !.q = q, !.asked = Append(land.asked, a)]
    BY <1>Ask DEF Asking, LandAdd
  <2>7. q \subseteq Landing
    BY <2>1 DEF Types, LandType
  <2>5. Len(land.asked) + 1 <= LANDINGS
    BY <1>Ask DEF Asking, Types, LandType
  <2>. HIDE DEF a, e, q
  <2>6. LandType'
    <3>. DEFINE asked == Append(land.asked, a)
    <3>1. asked \in Seq(Asked) /\ Len(asked) <= LANDINGS
      BY <2>3, <2>5
    <3>2. land' = [land EXCEPT !.q = q, !.asked = asked]
      BY <2>4
    <3>. HIDE DEF asked
    <3>. QED
      BY <2>7, <3>1, <3>2 DEF Types, LandType
  <2>. QED
    BY <1>Ask, <2>6 DEF Asking, Types, OwedType, GpuType, TlType, PubType, WatcherType
<1>Record. ASSUME NEW n \in 1..LANDINGS, Record(n)
  PROVE  Types'
  <2>. DEFINE q == {[e EXCEPT !.copied = @ \/ e.n = n] : e \in land.q}
  <2>2. ASSUME NEW e \in land.q
        PROVE  [e EXCEPT !.copied = @ \/ e.n = n] \in Landing
    <3>1. e \in Landing
      BY DEF Types, LandType
    <3>2. (e.copied \/ e.n = n) \in BOOLEAN
      OBVIOUS
    <3>. QED
      BY <3>1, <3>2 DEF Landing
  <2>3. q \subseteq Landing
    BY <2>2
  <2>4. land' = [land EXCEPT !.q = q]
    BY <1>Record DEF Record
  <2>. HIDE DEF q
  <2>5. LandType'
    BY <2>3, <2>4 DEF Types, LandType
  <2>. QED
    BY <1>Record, <2>4, <2>5
       DEF Record, Types, OwedType, GpuType, TlType, LandType, PubType, WatcherType
<1>Submit. ASSUME NEW v \in 1..VALUES, Submit(v)
  PROVE  Types'
  <2>1. [value |-> v, copies |-> open] \in Submission
    BY DEF Types, Submission
  <2>2. Append(gpu.queue, [value |-> v, copies |-> open]) \in Seq(Submission)
    BY <2>1 DEF Types, GpuType
  <2>3. GpuType'
    BY <1>Submit, <2>2 DEF Submit, Types, GpuType
  <2>4. PubType'
    BY <1>Submit, LosingIs DEF Submit, Types, PubType
  <2>5. (tl.lost \/ gpu.dead) \in BOOLEAN /\ v \in 0..VALUES
    OBVIOUS
  <2>6. TlType'
    BY <1>Submit, <2>5 DEF Submit, Types, TlType
  <2>. QED
    BY <1>Submit, <2>3, <2>4, <2>6 DEF Submit, Types, OwedType, LandType, WatcherType
<1>GpuRuns. CASE GpuRuns
  <2>1. Head(gpu.queue) \in Submission /\ Tail(gpu.queue) \in Seq(Submission)
    BY <1>GpuRuns, HeadTailProperties DEF GpuRuns, Types, GpuType
  <2>2. Head(gpu.queue).value \in 1..VALUES /\ Head(gpu.queue).copies \subseteq 1..LANDINGS
    BY <2>1 DEF Submission
  <2>. DEFINE copied == gpu.copied \cup Head(gpu.queue).copies
  <2>4. gpu' = [gpu EXCEPT !.queue = Tail(gpu.queue), !.counter = Head(gpu.queue).value, !.copied = copied]
    BY <1>GpuRuns DEF GpuRuns
  <2>5. copied \subseteq 1..LANDINGS /\ Head(gpu.queue).value \in 0..VALUES
    BY <2>2 DEF Types, GpuType
  <2>. HIDE DEF copied
  <2>3. GpuType'
    BY <2>1, <2>4, <2>5 DEF Types, GpuType
  <2>. QED
    BY <1>GpuRuns, <2>3 DEF GpuRuns, Types, OwedType, TlType, LandType, PubType, WatcherType
<1>GpuDies. CASE GpuDies
  <2>1. GpuType'
    BY <1>GpuDies, EmptySeq DEF GpuDies, Types, GpuType
  <2>. QED
    BY <1>GpuDies, <2>1 DEF GpuDies, Types, OwedType, TlType, LandType, PubType, WatcherType
<1>Look. ASSUME NEW t \in Waiters, Look(t)
  PROVE  Types'
  <2>1. PubType'
    <3>1. gpu.counter \in Values /\ t \in Publishers
      BY DEF Types, GpuType, Publishers
    <3>2. [stage |-> "land", v |-> gpu.counter] \in Publication
      BY <3>1 DEF Publication
    <3>. QED
      BY <1>Look, <3>1, <3>2, LosingIs DEF Look, Types, PubType
  <2>2. TlType'
    BY <1>Look DEF Look, Types, TlType
  <2>. QED
    BY <1>Look, <2>1, <2>2 DEF Look, Types, GpuType, OwedType, LandType, WatcherType
<1>Return. ASSUME NEW t \in Waiters, Return(t)
  PROVE  Types'
  BY <1>Return DEF Return, Types, OwedType, GpuType, TlType, LandType, PubType, WatcherType
<1>Wait. ASSUME NEW t \in Waiters, NEW v \in 1..VALUES, Wait(t, v)
  PROVE  Types'
  BY <1>Wait DEF Wait, Types, OwedType, GpuType, TlType, LandType, PubType, WatcherType
<1>Land. ASSUME NEW t \in Publishers, Land(t)
  PROVE  Types'
  <2>. DEFINE v == pub[t].v
              asked == [n \in DOMAIN land.asked |-> [land.asked[n] EXCEPT !.at = Landed(n, v)]]
  <2>1. v \in Values
    BY DEF Types, PubType, Publication
  <2>2. ASSUME NEW n \in DOMAIN land.asked
        PROVE  [land.asked[n] EXCEPT !.at = Landed(n, v)] \in Asked
    <3>1. land.asked[n] \in Asked
      BY DEF Types, LandType
    <3>2. land.asked[n].at \in {"asked", "landed", "dropped", "garbage"}
      BY <3>1 DEF Asked
    <3>3. Landed(n, v) \in {"asked", "landed", "dropped", "garbage"}
      BY <2>1, <3>2, LandedIs, BringsIs
    <3>. QED
      BY <3>1, <3>3 DEF Asked
  <2>3. land.asked \in Seq(Asked)
    BY DEF Types, LandType
  <2>4. asked \in Seq(Asked) /\ Len(asked) = Len(land.asked)
    <3>1. Len(land.asked) \in Nat /\ DOMAIN land.asked = 1..Len(land.asked)
      BY <2>3
    <3>2. asked \in [1..Len(land.asked) -> Asked]
      BY <2>2, <3>1
    <3>. HIDE DEF asked
    <3>. QED
      BY <3>1, <3>2
  <2>5. land' = IF v <= land.landed THEN land
                ELSE [q |-> land.q \ DueAt(v), landed |-> v, asked |-> asked]
    BY <1>Land DEF Land
  <2>. HIDE DEF asked
  <2>6. LandType'
    BY <2>1, <2>4, <2>5 DEF Types, LandType
  <2>8. Len(land'.asked) = Len(land.asked)
    BY <2>4, <2>5
  <2>7. PubType'
    <3>1. pub[t] \in Publication
      BY DEF Types, PubType
    <3>2. [pub[t] EXCEPT !.stage = "complete"] \in Publication
      BY <3>1 DEF Publication
    <3>3. pub' = [pub EXCEPT ![t] = [pub[t] EXCEPT !.stage = "complete"]]
      BY <1>Land DEF Land
    <3>. QED
      BY <3>2, <3>3 DEF Types, PubType
  <2>. QED
    BY <1>Land, <2>6, <2>7, <2>8 DEF Land, Types, OwedType, GpuType, TlType, WatcherType
<1>Complete. ASSUME NEW t \in Publishers, Complete(t)
  PROVE  Types'
  <2>1. pub[t].v \in Values
    BY DEF Types, PubType, Publication
  <2>2. TlType' /\ PubType'
    <3>1. (tl.event \/ pub[t].v = Forever) \in BOOLEAN /\ Completed(pub[t].v) \in Values
      BY <2>1 DEF Completed, Types, TlType
    <3>2. NotPublishing \in Publication
      BY DEF NotPublishing, Publication
    <3>. QED
      BY <1>Complete, <3>1, <3>2 DEF Complete, Types, TlType, PubType
  <2>. QED
    BY <1>Complete, <2>2 DEF Complete, Types, GpuType, OwedType, LandType, WatcherType
<1>WatchReset. CASE WatchReset
  BY <1>WatchReset DEF WatchReset, Types, OwedType, GpuType, TlType, LandType, PubType, WatcherType
<1>WatchCheck. CASE WatchCheck
  BY <1>WatchCheck DEF WatchCheck, Types, OwedType, GpuType, TlType, LandType, PubType, WatcherType
<1>WatchWake. CASE WatchWake
  BY <1>WatchWake DEF WatchWake, Types, OwedType, GpuType, TlType, LandType, PubType, WatcherType
<1>WatchLook. CASE WatchLook
  <2>1. PubType'
    <3>1. gpu.counter \in Values
      BY DEF Types, GpuType
    <3>2. [stage |-> "land", v |-> gpu.counter] \in Publication
      BY <3>1 DEF Publication
    <3>. QED
      BY <1>WatchLook, <3>2, LosingIs DEF WatchLook, Types, PubType
  <2>2. TlType'
    BY <1>WatchLook DEF WatchLook, Types, TlType
  <2>3. WatcherType'
    BY <1>WatchLook DEF WatchLook, Types, GpuType, WatcherType
  <2>. QED
    BY <1>WatchLook, <2>1, <2>2, <2>3 DEF WatchLook, Types, OwedType, GpuType, LandType
<1>WatchTell. CASE WatchTell
  BY <1>WatchTell DEF WatchTell, Types, OwedType, GpuType, TlType, LandType, PubType, WatcherType
<1>Same. CASE UNCHANGED timelineVars
  BY <1>Same DEF timelineVars, Types, OwedType, GpuType, TlType, LandType, PubType, WatcherType
<1>. QED
  BY <1>Make, <1>MakeOwing, <1>Ask, AsksQueue, <1>Record, <1>Submit, <1>GpuRuns, <1>GpuDies, <1>Look, <1>Return, <1>Wait,
     <1>Land, <1>Complete, <1>WatchReset, <1>WatchCheck, <1>WatchWake, <1>WatchLook, <1>WatchTell,
     <1>Same DEF TimelineNext, Watch, AnAsk
-----------------------------------------------------------------------------
(* A step of a waiter's or the watcher's: it publishes the count, or the   *)
(* loss of a device that is dead, or nothing.                              *)
Publishes(t) ==
  \/ pub' = [pub EXCEPT ![t] = [stage |-> "land", v |-> gpu.counter]]
     /\ gpu.counter >= 1 /\ tl'.lost = tl.lost
  \/ pub' = Losing(t) /\ gpu.dead

Quiet ==
  /\ UNCHANGED << made, owed, open, gpu, land >>
  /\ tl'.submitted = tl.submitted /\ tl'.completed = tl.completed
  /\ (\E t \in Publishers : Publishes(t)) \/ (UNCHANGED pub /\ tl'.lost = tl.lost)

(* Every step is one of those, or one that gets the work on.               *)
LEMMA Steps ==
  ASSUME Types, [TimelineNext]_timelineVars
  PROVE  \/ Make \/ (\E kind \in {"late", "empty", "note"} : MakeOwing(kind))
         \/ (\E v \in 1..VALUES : \E kind \in Kinds : Asking(v, kind))
         \/ (\E n \in 1..LANDINGS : Record(n))
         \/ (\E v \in 1..VALUES : Submit(v)) \/ GpuRuns \/ GpuDies
         \/ (\E t \in Publishers : Land(t)) \/ (\E t \in Publishers : Complete(t))
         \/ Quiet
<1>Look. ASSUME NEW t \in Waiters, Look(t)
  PROVE  Quiet
  <2>1. gpu.counter \in Nat /\ tl.completed \in Nat
    BY TimelineAssumption DEF TimelineAssumption, Types, GpuType, TlType, Values, Forever
  <2>2. t \in Publishers
    BY DEF Publishers
  <2>3. CASE gpu.dead /\ ~tl.lost
    BY <1>Look, <2>2, <2>3 DEF Look, Quiet, Publishes, Types, TlType
  <2>4. CASE ~(gpu.dead /\ ~tl.lost)
    BY <1>Look, <2>1, <2>2, <2>4 DEF Look, Quiet, Publishes
  <2>. QED
    BY <2>3, <2>4
<1>Others. CASE \E t \in Waiters : Return(t) \/ \E v \in 1..VALUES : Wait(t, v)
  BY <1>Others DEF Return, Wait, Quiet
<1>WatchLook. CASE WatchLook
  <2>1. gpu.counter \in Nat /\ watcher.done \in Nat /\ "watcher" \in Publishers
    BY TimelineAssumption DEF TimelineAssumption, Types, GpuType, WatcherType, Publishers
  <2>. QED
    BY <1>WatchLook, <2>1 DEF WatchLook, Quiet, Publishes, Types, TlType
<1>WatchReset. CASE WatchReset
  BY <1>WatchReset DEF WatchReset, Quiet, Types, TlType
<1>Watch. CASE WatchCheck \/ WatchWake \/ WatchTell
  BY <1>Watch DEF WatchCheck, WatchWake, WatchTell, Quiet
<1>Same. CASE UNCHANGED timelineVars
  BY <1>Same DEF timelineVars, Quiet
<1>. QED
  BY <1>Look, <1>Others, <1>WatchLook, <1>WatchReset, <1>Watch, <1>Same, AsksQueue DEF TimelineNext, Watch, AnAsk

-----------------------------------------------------------------------------
(* What the landings asked for and queued are.                             *)
LEMMA LandingsAre ==
  ASSUME Types, Queued
  PROVE  /\ land.asked \in Seq(Asked) /\ Len(land.asked) \in Nat
         /\ DOMAIN land.asked = 1..Len(land.asked) /\ land.landed \in Int
         /\ \A e \in land.q : e \in Landing /\ e.n \in DOMAIN land.asked
  BY TimelineAssumption DEF TimelineAssumption, Values, Forever, Types, LandType, Queued

(* One more landing is asked for; it is queued, not marked, or made at     *)
(* once: a note lands, a readback is dropped.                              *)
NextLanding == Len(land.asked) + 1

LEMMA AskAdds ==
  ASSUME Types, Queued, NEW v \in 1..VALUES, NEW kind \in Kinds, Asking(v, kind)
  PROVE  /\ DOMAIN land'.asked = 1..NextLanding /\ NextLanding \in 1..LANDINGS
         /\ \A n \in DOMAIN land'.asked : n = NextLanding \/ n \in DOMAIN land.asked
         /\ NextLanding \notin DOMAIN land.asked /\ NextLanding \in DOMAIN land'.asked
         /\ \A n \in DOMAIN land.asked : land'.asked[n] = land.asked[n] /\ n \in DOMAIN land'.asked
         /\ land'.asked[NextLanding].piece = v /\ land'.asked[NextLanding].kind = kind
         /\ land'.landed = land.landed /\ NextLanding' = NextLanding + 1
         /\ \/ /\ v <= land.landed /\ land'.q = land.q
               /\ land'.asked = Append(land.asked, [piece |-> v, kind |-> kind, at |->
                                         IF kind = "note" THEN "landed" ELSE "dropped"])
               /\ land'.asked[NextLanding].at # "asked"
            \/ /\ ~(v <= land.landed)
               /\ land'.q = land.q \cup {[n |-> NextLanding, value |-> v, kind |-> kind,
                                          copied |-> FALSE]}
               /\ land'.asked = Append(land.asked, [piece |-> v, kind |-> kind, at |-> "asked"])
               /\ land'.asked[NextLanding].at = "asked"
<1>. DEFINE e == [n |-> NextLanding, value |-> v, kind |-> kind, copied |-> FALSE]
            end == IF kind = "note" THEN "landed" ELSE "dropped"
            a == [piece |-> v, kind |-> kind, at |-> IF v <= land.landed THEN end ELSE "asked"]
<1>2. Brings(e) = end /\ end # "asked"
  BY BringsIs
<1>1. /\ land'.q = IF v <= land.landed THEN land.q ELSE land.q \cup {e}
      /\ land'.asked = Append(land.asked, a) /\ land'.landed = land.landed
  BY <1>2 DEF Asking, LandAdd, Types, LandType, NextLanding
<1>6. a.piece = v /\ a.kind = kind /\ a.at = IF v <= land.landed THEN end ELSE "asked"
  OBVIOUS
<1>3. /\ DOMAIN land'.asked = 1..NextLanding /\ land'.asked[NextLanding] = a
      /\ \A n \in DOMAIN land.asked : land'.asked[n] = land.asked[n]
      /\ NextLanding' = NextLanding + 1
  BY <1>1, LandingsAre DEF NextLanding
<1>4. NextLanding \in 1..LANDINGS
  BY LandingsAre, TimelineAssumption DEF TimelineAssumption, Asking, NextLanding
<1>. HIDE DEF a
<1>5. /\ \A n \in DOMAIN land'.asked : n = NextLanding \/ n \in DOMAIN land.asked
      /\ NextLanding \notin DOMAIN land.asked /\ NextLanding \in DOMAIN land'.asked
      /\ \A n \in DOMAIN land.asked : n \in DOMAIN land'.asked
  BY <1>3, LandingsAre DEF NextLanding
<1>7. CASE v <= land.landed
  <2>1. a = [piece |-> v, kind |-> kind, at |-> end]
    BY <1>7 DEF a
  <2>. QED
    BY <1>1, <1>2, <1>3, <1>4, <1>5, <1>6, <1>7, <2>1
<1>8. CASE ~(v <= land.landed)
  <2>1. a = [piece |-> v, kind |-> kind, at |-> "asked"]
    BY <1>8 DEF a
  <2>. QED
    BY <1>1, <1>3, <1>4, <1>5, <1>6, <1>8, <2>1
<1>. QED
  BY <1>7, <1>8

(* A copy recorded changes no more than that in the queue.                 *)
LEMMA RecordMarks ==
  ASSUME Types, Queued, NEW m \in 1..LANDINGS, Record(m)
  PROVE  /\ land'.asked = land.asked /\ land'.landed = land.landed
         /\ \A e \in land'.q : \E f \in land.q :
              /\ e = [f EXCEPT !.copied = @ \/ f.n = m]
              /\ e.n = f.n /\ e.value = f.value /\ e.kind = f.kind
              /\ (e.copied <=> f.copied \/ f.n = m)
         /\ \A f \in land.q : \E e \in land'.q : e.n = f.n
<1>. DEFINE copied(e) == [e EXCEPT !.copied = @ \/ e.n = m]
<1>1. /\ land'.q = {copied(e) : e \in land.q}
      /\ land'.asked = land.asked /\ land'.landed = land.landed
  BY DEF Record, Types, LandType
<1>2. \A e \in land.q : /\ copied(e).n = e.n /\ copied(e).value = e.value /\ copied(e).kind = e.kind
                        /\ copied(e).copied <=> e.copied \/ e.n = m
  BY LandingsAre DEF Landing
<1>. SUFFICES /\ \A e \in land'.q : \E f \in land.q :
                   /\ e = copied(f) /\ e.n = f.n /\ e.value = f.value /\ e.kind = f.kind
                   /\ (e.copied <=> f.copied \/ f.n = m)
              /\ \A f \in land.q : \E e \in land'.q : e.n = f.n
  BY <1>1
<1>. HIDE DEF copied
<1>3. \A e \in land'.q : \E f \in land.q : e = copied(f)
  BY <1>1
<1>4. \A f \in land.q : copied(f) \in land'.q
  BY <1>1
<1>5. ASSUME NEW e \in land'.q
      PROVE  \E f \in land.q :
               /\ e = copied(f) /\ e.n = f.n /\ e.value = f.value /\ e.kind = f.kind
               /\ (e.copied <=> f.copied \/ f.n = m)
  <2>1. PICK f \in land.q : e = copied(f)
    BY <1>3
  <2>. QED
    BY <1>2, <2>1
<1>6. \A f \in land.q : \E e \in land'.q : e.n = f.n
  BY <1>2, <1>4
<1>. QED
  BY <1>5, <1>6

(* Landing moves landed, or nothing.                                       *)
LEMMA LandMoves ==
  ASSUME Types, Queued, NEW t \in Publishers, Land(t)
  PROVE  /\ pub[t].v \in Values
         /\ \/ pub[t].v <= land.landed /\ UNCHANGED land
            \/ /\ pub[t].v > land.landed /\ land'.landed = pub[t].v
               /\ land'.q = land.q \ DueAt(pub[t].v) /\ DOMAIN land'.asked = DOMAIN land.asked
               /\ \A n \in DOMAIN land.asked :
                    /\ land'.asked[n] = [land.asked[n] EXCEPT !.at = Landed(n, pub[t].v)]
                    /\ land'.asked[n].piece = land.asked[n].piece
                    /\ land'.asked[n].kind = land.asked[n].kind
                    /\ land'.asked[n].at = Landed(n, pub[t].v)
<1>. DEFINE v == pub[t].v
<1>1. v \in Values
  BY DEF Types, PubType, Publication
<1>2. CASE v <= land.landed
  BY <1>1, <1>2 DEF Land
<1>3. CASE ~(v <= land.landed)
  <2>1. /\ land'.q = land.q \ DueAt(v) /\ land'.landed = v
        /\ land'.asked = [n \in DOMAIN land.asked |-> [land.asked[n] EXCEPT !.at = Landed(n, v)]]
    BY <1>3 DEF Land
  <2>2. v > land.landed
    BY <1>1, <1>3, LandingsAre DEF Values, Forever
  <2>3. DOMAIN land'.asked = DOMAIN land.asked
    BY <2>1
  <2>4. ASSUME NEW n \in DOMAIN land.asked
        PROVE  land'.asked[n] = [land.asked[n] EXCEPT !.at = Landed(n, v)]
    BY <2>1
  <2>5. ASSUME NEW n \in DOMAIN land.asked
        PROVE  /\ land'.asked[n] = [land.asked[n] EXCEPT !.at = Landed(n, v)]
               /\ land'.asked[n].piece = land.asked[n].piece
               /\ land'.asked[n].kind = land.asked[n].kind
               /\ land'.asked[n].at = Landed(n, v)
    <3>1. land.asked[n] \in Asked
      BY LandingsAre
    <3>. QED
      BY <2>4, <3>1 DEF Asked
  <2>. HIDE DEF v
  <2>6. v > land.landed /\ land'.landed = v /\ land'.q = land.q \ DueAt(v)
    BY <2>1, <2>2
  <2>. QED
    BY <1>1, <2>3, <2>5, <2>6 DEF v
<1>. QED
  BY <1>2, <1>3

(* The landings queued stay those to come.                                 *)
LEMMA QueuedStep ==
  ASSUME Types, Queued, [TimelineNext]_timelineVars
  PROVE  Queued'
<1>. USE TimelineAssumption DEF TimelineAssumption, Values, Forever
<1>Ask. ASSUME NEW v \in 1..VALUES, NEW kind \in Kinds, Asking(v, kind)
  PROVE  Queued'
  <2>1. land.landed \in Int
    BY LandingsAre
  <2>2. CASE v <= land.landed
    <3>1. land'.asked[NextLanding].at # "asked"
      BY <1>Ask, <2>2, AskAdds
    <3>2. land'.q = land.q /\ land'.landed = land.landed
      BY <1>Ask, <2>1, <2>2, AskAdds
    <3>3. \A n \in DOMAIN land.asked : land'.asked[n] = land.asked[n] /\ n \in DOMAIN land'.asked
      BY <1>Ask, AskAdds
    <3>4. \A n \in DOMAIN land'.asked : land'.asked[n].at = "asked" => n \in DOMAIN land.asked
      BY <1>Ask, <3>1, AskAdds
    <3>. QED
      BY <3>2, <3>3, <3>4 DEF Queued
  <2>3. CASE ~(v <= land.landed)
    <3>. DEFINE e == [n |-> NextLanding, value |-> v, kind |-> kind, copied |-> FALSE]
    <3>1. land'.asked[NextLanding].at = "asked"
      BY <1>Ask, <2>3, AskAdds
    <3>2. /\ land'.q = land.q \cup {e} /\ e.n = NextLanding /\ e.value = v /\ e.kind = kind
          /\ ~e.copied
      BY <1>Ask, <2>3, AskAdds
    <3>. HIDE DEF e
    <3>3. v > land.landed /\ \A f \in land.q : f.n # NextLanding
      <4>1. NextLanding \notin DOMAIN land.asked
        BY <1>Ask, AskAdds
      <4>. QED
        BY <2>1, <2>3, <4>1, LandingsAre
    <3>4. \A f \in land'.q :
            /\ f.n \in DOMAIN land'.asked /\ land'.asked[f.n].at = "asked"
            /\ f.value = land'.asked[f.n].piece /\ f.value > land'.landed
            /\ f.kind = land'.asked[f.n].kind /\ (f.copied => f.kind \in Copies)
      <4>. TAKE f \in land'.q
      <4>1. /\ land'.landed = land.landed /\ land'.asked[NextLanding].piece = v
            /\ land'.asked[NextLanding].kind = kind
        BY <1>Ask, AskAdds
      <4>2. CASE f = e
        BY <1>Ask, <3>1, <3>2, <3>3, <4>1, <4>2, AskAdds
      <4>3. CASE f \in land.q
        <5>1. f.n \in DOMAIN land.asked
          BY <4>3, LandingsAre
        <5>2. land'.asked[f.n] = land.asked[f.n] /\ f.n \in DOMAIN land'.asked
          BY <1>Ask, <5>1, AskAdds
        <5>. QED
          BY <4>1, <4>3, <5>1, <5>2 DEF Queued
      <4>. QED
        BY <3>2, <4>2, <4>3
    <3>5. \A f, g \in land'.q : f.n = g.n => f = g
      BY <3>2, <3>3 DEF Queued
    <3>6. \A n \in DOMAIN land'.asked : land'.asked[n].at = "asked" => \E f \in land'.q : f.n = n
      <4>1. \A n \in DOMAIN land'.asked :
              n = NextLanding \/ (n \in DOMAIN land.asked /\ land'.asked[n] = land.asked[n])
        BY <1>Ask, AskAdds
      <4>. QED
        BY <3>2, <4>1 DEF Queued
    <3>. QED
      BY <3>4, <3>5, <3>6 DEF Queued
  <2>. QED
    BY <2>2, <2>3
<1>Record. ASSUME NEW m \in 1..LANDINGS, Record(m)
  PROVE  Queued'
  <2>1. \A e, f \in land'.q : e.n = f.n => e = f
    BY <1>Record, RecordMarks DEF Queued
  <2>4. ASSUME NEW f \in land.q, f.n = m
        PROVE  f.kind \in Copies
    <3>1. f.n # Len(land.asked) + 1 /\ f.n \in DOMAIN land.asked
      BY <2>4, LandingsAre
    <3>2. m \in Readbacks(made + 1)
      BY <1>Record DEF Record
    <3>. QED
      BY <2>4, <3>1, <3>2 DEF Readbacks, Queued
  <2>2. \A e \in land'.q :
          /\ e.n \in DOMAIN land.asked /\ land.asked[e.n].at = "asked"
          /\ e.value = land.asked[e.n].piece /\ e.value > land.landed
          /\ e.kind = land.asked[e.n].kind /\ (e.copied => e.kind \in Copies)
    BY <1>Record, <2>4, RecordMarks DEF Queued
  <2>3. \A n \in DOMAIN land.asked : land.asked[n].at = "asked" => \E e \in land'.q : e.n = n
    BY <1>Record, RecordMarks DEF Queued
  <2>. QED
    BY <1>Record, <2>1, <2>2, <2>3, RecordMarks DEF Queued
<1>Land. ASSUME NEW t \in Publishers, Land(t)
  PROVE  Queued'
  <2>. DEFINE v == pub[t].v
  <2>1. v \in Values
    BY <1>Land, LandMoves
  <2>2. CASE UNCHANGED land
    BY <2>2 DEF Queued
  <2>3. CASE ~UNCHANGED land
    <3>1. /\ land'.q = land.q \ DueAt(v) /\ land'.landed = v /\ DOMAIN land'.asked = DOMAIN land.asked
          /\ \A n \in DOMAIN land.asked :
               /\ land'.asked[n].piece = land.asked[n].piece /\ land'.asked[n].at = Landed(n, v)
               /\ land'.asked[n].kind = land.asked[n].kind
      BY <1>Land, <2>3, LandMoves
    <3>2. \A e \in land'.q : e \in land.q /\ e.value > v
      BY <2>1, <3>1, LandingsAre DEF DueAt, Landing
    <3>3. ASSUME NEW e \in land'.q
          PROVE  /\ e.n \in DOMAIN land'.asked /\ land'.asked[e.n].at = "asked"
                 /\ e.value = land'.asked[e.n].piece /\ e.value > land'.landed
                 /\ e.kind = land'.asked[e.n].kind /\ (e.copied => e.kind \in Copies)
      <4>1. /\ land.asked[e.n].piece = e.value /\ land.asked[e.n].at = "asked"
            /\ land.asked[e.n].kind = e.kind /\ (e.copied => e.kind \in Copies)
        BY <3>2 DEF Queued
      <4>2. ~(land.asked[e.n].piece <= v) /\ Landed(e.n, v) = "asked"
        BY <2>1, <3>2, <4>1, LandedIs, LandingsAre DEF Landing
      <4>. QED
        BY <3>1, <3>2, <4>1, <4>2, LandingsAre
    <3>4. ASSUME NEW n \in DOMAIN land'.asked, land'.asked[n].at = "asked"
          PROVE  \E e \in land'.q : e.n = n
      <4>1. n \in DOMAIN land.asked /\ Landed(n, v) = "asked"
        BY <3>1, <3>4
      <4>2. land.asked[n].at = "asked" /\ ~(land.asked[n].piece <= v)
        BY <2>1, <4>1, LandedIs, BringsIs
      <4>3. PICK e \in land.q : e.n = n
        BY <4>1, <4>2 DEF Queued
      <4>. QED
        BY <3>1, <4>2, <4>3 DEF Queued, DueAt
    <3>5. \A e, f \in land'.q : e.n = f.n => e = f
      BY <3>2 DEF Queued
    <3>. QED
      BY <3>3, <3>4, <3>5 DEF Queued
  <2>. QED
    BY <2>2, <2>3
<1>Others. CASE UNCHANGED land
  BY <1>Others DEF Queued
<1>. QED
  BY <1>Ask, <1>Record, <1>Land, <1>Others, Steps DEF Make, MakeOwing, Submit, GpuRuns, GpuDies, Complete, Quiet

-----------------------------------------------------------------------------
(* What the GPU has to run.                                                *)
LEMMA SubmissionsAre ==
  ASSUME Types
  PROVE  /\ gpu.queue \in Seq(Submission) /\ Len(gpu.queue) \in Nat
         /\ DOMAIN gpu.queue = 1..Len(gpu.queue)
         /\ \A i \in DOMAIN gpu.queue : gpu.queue[i].value \in 1..VALUES
         /\ made \in Int /\ gpu.counter \in Int /\ tl.submitted \in Int
<1>. USE TimelineAssumption DEF TimelineAssumption
<1>1. gpu.queue \in Seq(Submission)
  BY DEF Types, GpuType
<1>2. \A i \in DOMAIN gpu.queue : gpu.queue[i] \in Submission
  BY <1>1
<1>3. \A i \in DOMAIN gpu.queue : gpu.queue[i].value \in 1..VALUES
  BY <1>2 DEF Submission
<1>. QED
  BY <1>1, <1>3 DEF Types, GpuType, TlType

(* A submission goes behind the others, with every copy open.              *)
LEMMA SubmitAppends ==
  ASSUME Types, NEW v \in 1..VALUES, Submit(v)
  PROVE  /\ tl'.submitted = v /\ v > tl.submitted /\ v <= made /\ tl'.completed = tl.completed
         /\ tl'.lost = gpu.dead /\ open' = {} /\ UNCHANGED << made, owed, land >>
         /\ \A n \in Readbacks(v) : Recorded(n)
         /\ \/ gpu.dead /\ UNCHANGED gpu /\ pub' = Losing("render")
            \/ /\ ~gpu.dead /\ UNCHANGED pub /\ gpu'.dead = gpu.dead
               /\ gpu'.counter = gpu.counter /\ gpu'.copied = gpu.copied
               /\ DOMAIN gpu'.queue = 1..(Len(gpu.queue) + 1)
               /\ \A i \in DOMAIN gpu'.queue : i = Len(gpu.queue) + 1 \/ i \in DOMAIN gpu.queue
               /\ \A i \in DOMAIN gpu.queue : gpu'.queue[i] = gpu.queue[i] /\ i < Len(gpu.queue) + 1
               /\ gpu'.queue[Len(gpu.queue) + 1].value = v
               /\ gpu'.queue[Len(gpu.queue) + 1].copies = open
<1>1. /\ tl'.submitted = v /\ v > tl.submitted /\ v <= made /\ tl'.completed = tl.completed
      /\ tl'.lost = gpu.dead
  BY DEF Submit, Types, TlType, GpuType
<1>2. CASE gpu.dead
  BY <1>1, <1>2 DEF Submit
<1>3. CASE ~gpu.dead
  <2>. DEFINE e == [value |-> v, copies |-> open]
  <2>1. e \in Submission /\ e.value = v /\ e.copies = open
    BY DEF Types, Submission
  <2>2. /\ gpu'.queue = Append(gpu.queue, e) /\ gpu'.counter = gpu.counter
        /\ gpu'.copied = gpu.copied /\ gpu'.dead = gpu.dead
    BY <1>3 DEF Submit, Types, GpuType
  <2>. HIDE DEF e
  <2>3. /\ DOMAIN gpu'.queue = 1..(Len(gpu.queue) + 1) /\ gpu'.queue[Len(gpu.queue) + 1] = e
        /\ \A i \in DOMAIN gpu.queue : gpu'.queue[i] = gpu.queue[i]
    BY <2>1, <2>2, SubmissionsAre, AppendProperties
  <2>4. /\ \A i \in DOMAIN gpu'.queue : i = Len(gpu.queue) + 1 \/ i \in DOMAIN gpu.queue
        /\ \A i \in DOMAIN gpu.queue : i < Len(gpu.queue) + 1
    BY <2>3, SubmissionsAre
  <2>. QED
    BY <1>1, <1>3, <2>1, <2>2, <2>3, <2>4 DEF Submit
<1>. QED
  BY <1>2, <1>3

(* The GPU runs the first.                                                 *)
LEMMA RunsPops ==
  ASSUME Types, GpuRuns
  PROVE  /\ 1 \in DOMAIN gpu.queue /\ gpu'.counter = gpu.queue[1].value
         /\ gpu'.copied = gpu.copied \cup gpu.queue[1].copies /\ gpu'.dead = gpu.dead
         /\ \A i \in DOMAIN gpu'.queue :
              gpu'.queue[i] = gpu.queue[i + 1] /\ i + 1 \in DOMAIN gpu.queue /\ i \in Nat \ {0}
         /\ UNCHANGED << made, owed, open, tl, land, pub >>
<1>1. /\ gpu'.queue = Tail(gpu.queue) /\ gpu'.counter = Head(gpu.queue).value
      /\ gpu'.copied = gpu.copied \cup Head(gpu.queue).copies /\ gpu'.dead = gpu.dead
      /\ gpu.queue # << >> /\ UNCHANGED << made, owed, open, tl, land, pub >>
  BY DEF GpuRuns, Types, GpuType
<1>2. Head(gpu.queue) = gpu.queue[1] /\ Len(gpu.queue) >= 1
  BY <1>1, SubmissionsAre, EmptySeq
<1>3. /\ gpu'.queue \in Seq(Submission) /\ Len(gpu'.queue) = Len(gpu.queue) - 1
      /\ \A i \in 1..Len(gpu'.queue) : gpu'.queue[i] = gpu.queue[i + 1]
  BY <1>1, SubmissionsAre, HeadTailProperties
<1>4. DOMAIN gpu'.queue = 1..Len(gpu'.queue)
  BY <1>3
<1>. QED
  BY <1>1, <1>2, <1>3, <1>4, SubmissionsAre

(* The GPU's death changes no more than that, and what it has to run.      *)
LEMMA DiesAlone ==
  ASSUME Types, GpuDies
  PROVE  /\ gpu'.queue = << >> /\ gpu'.counter = gpu.counter /\ gpu'.copied = gpu.copied
         /\ gpu'.dead /\ UNCHANGED << made, owed, open, tl, land, pub >>
  BY DEF GpuDies, Types, GpuType

(* Submissions stay in the order of their values.                          *)
LEMMA QueueStep ==
  ASSUME Types, Queued, QueueInOrder, [TimelineNext]_timelineVars
  PROVE  QueueInOrder'
<1>Make. CASE Make
  BY <1>Make, SubmissionsAre DEF Make, QueueInOrder
<1>MakeOwing. ASSUME NEW kind \in {"late", "empty", "note"}, MakeOwing(kind)
  PROVE  QueueInOrder'
  BY <1>MakeOwing, SubmissionsAre DEF MakeOwing, QueueInOrder
<1>Submit. ASSUME NEW v \in 1..VALUES, Submit(v)
  PROVE  QueueInOrder'
  <2>1. CASE gpu.dead
    <3>1. tl'.submitted = v /\ v > tl.submitted /\ v <= made /\ UNCHANGED << gpu, made >>
      BY <1>Submit, <2>1, SubmitAppends
    <3>. QED
      BY <3>1, SubmissionsAre DEF QueueInOrder
  <2>2. CASE ~gpu.dead
    <3>1. \A i \in DOMAIN gpu.queue : gpu.queue[i].value < v
      BY <1>Submit, SubmitAppends, SubmissionsAre DEF QueueInOrder
    <3>2. ASSUME NEW i \in DOMAIN gpu'.queue, NEW j \in DOMAIN gpu'.queue, i < j
          PROVE  gpu'.queue[i].value < gpu'.queue[j].value
      <4>1. i \in DOMAIN gpu.queue
        BY <1>Submit, <2>2, <3>2, SubmitAppends, SubmissionsAre
      <4>. QED
        BY <1>Submit, <2>2, <3>1, <3>2, <4>1, SubmitAppends DEF QueueInOrder
    <3>3. ASSUME NEW i \in DOMAIN gpu'.queue
          PROVE  gpu'.counter < gpu'.queue[i].value /\ gpu'.queue[i].value <= v
      <4>1. CASE i \in DOMAIN gpu.queue
        BY <1>Submit, <2>2, <3>1, <4>1, SubmitAppends, SubmissionsAre DEF QueueInOrder
      <4>2. CASE i = Len(gpu.queue) + 1
        <5>1. gpu'.queue[i].value = v /\ gpu'.counter = gpu.counter
          BY <1>Submit, <2>2, <4>2, SubmitAppends
        <5>2. gpu.counter <= tl.submitted /\ tl.submitted < v
          BY <1>Submit, SubmitAppends DEF QueueInOrder
        <5>. QED
          BY <5>1, <5>2, SubmissionsAre
      <4>. QED
        BY <1>Submit, <2>2, <4>1, <4>2, SubmitAppends
    <3>. QED
      BY <1>Submit, <2>2, <3>2, <3>3, SubmitAppends, SubmissionsAre DEF QueueInOrder
  <2>. QED
    BY <2>1, <2>2
<1>GpuRuns. CASE GpuRuns
  <2>1. 1 \in DOMAIN gpu.queue /\ gpu'.counter = gpu.queue[1].value /\ tl' = tl /\ made' = made
    BY <1>GpuRuns, RunsPops
  <2>2. ASSUME NEW i \in DOMAIN gpu'.queue
        PROVE  /\ gpu'.queue[i] = gpu.queue[i + 1] /\ i + 1 \in DOMAIN gpu.queue /\ 1 < i + 1
               /\ gpu'.counter < gpu'.queue[i].value /\ gpu'.queue[i].value <= tl.submitted
    <3>1. gpu'.queue[i] = gpu.queue[i + 1] /\ i + 1 \in DOMAIN gpu.queue /\ 1 < i + 1
      BY <1>GpuRuns, RunsPops
    <3>. QED
      BY <2>1, <3>1 DEF QueueInOrder
  <2>3. ASSUME NEW i \in DOMAIN gpu'.queue, NEW j \in DOMAIN gpu'.queue, i < j
        PROVE  gpu'.queue[i].value < gpu'.queue[j].value
    <3>1. i + 1 < j + 1
      BY <1>GpuRuns, <2>3, RunsPops
    <3>. QED
      BY <2>2, <3>1 DEF QueueInOrder
  <2>4. gpu'.counter <= tl.submitted /\ tl.submitted <= made
    BY <2>1 DEF QueueInOrder
  <2>. QED
    BY <2>1, <2>2, <2>3, <2>4 DEF QueueInOrder
<1>GpuDies. CASE GpuDies
  BY <1>GpuDies, DiesAlone, SubmissionsAre DEF QueueInOrder
<1>Complete. ASSUME NEW t \in Publishers, Complete(t)
  PROVE  QueueInOrder'
  BY <1>Complete DEF Complete, QueueInOrder, Types, TlType
<1>Others. CASE UNCHANGED << made, gpu >> /\ tl'.submitted = tl.submitted
  BY <1>Others DEF QueueInOrder
<1>. QED
  BY <1>Make, <1>MakeOwing, <1>Submit, <1>GpuRuns, <1>GpuDies, <1>Complete, <1>Others, Steps
     DEF Asking, Record, Land, Quiet

(* Copies are recorded for landings asked for, which know it.              *)
LEMMA CopiesKnownStep ==
  ASSUME Types, Queued, CopiesKnown, [TimelineNext]_timelineVars
  PROVE  CopiesKnown'
<1>Make. CASE Make
  BY <1>Make DEF Make, CopiesKnown, Recorded
<1>MakeOwing. ASSUME NEW kind \in {"late", "empty", "note"}, MakeOwing(kind)
  PROVE  CopiesKnown'
  BY <1>MakeOwing DEF MakeOwing, CopiesKnown, Recorded
<1>Ask. ASSUME NEW v \in 1..VALUES, NEW kind \in Kinds, Asking(v, kind)
  PROVE  CopiesKnown'
  <2>1. \A n \in 1..LANDINGS : Recorded(n)' <=> Recorded(n)
    BY <1>Ask DEF Asking, Recorded
  <2>2. \A n \in 1..LANDINGS : n = NextLanding /\ Recorded(n) => kind = "late"
    BY <1>Ask, AskAdds DEF CopiesKnown, Asking
  <2>0. /\ NextLanding \notin DOMAIN land.asked /\ NextLanding \in DOMAIN land'.asked
        /\ \A n \in DOMAIN land.asked : n \in DOMAIN land'.asked
    BY <1>Ask, AskAdds
  <2>3. \A e \in land'.q : e \in land.q \/ (e.n = NextLanding /\ e.kind = kind)
    <3>. DEFINE e == [n |-> NextLanding, value |-> v, kind |-> kind, copied |-> FALSE]
    <3>1. land'.q = land.q \/ land'.q = land.q \cup {e}
      BY <1>Ask, AskAdds
    <3>. QED
      BY <3>1
  <2>4. \A e \in land.q : e.n # NextLanding
    BY <2>0, LandingsAre
  <2>. SUFFICES ASSUME NEW n \in 1..LANDINGS, Recorded(n)
                PROVE  /\ n \in DOMAIN land'.asked
                       /\ \A e \in land'.q : e.n = n /\ e.kind = "read" => e.copied
    BY <2>1 DEF CopiesKnown
  <2>5. CASE n = NextLanding
    BY <2>0, <2>2, <2>3, <2>4, <2>5
  <2>6. CASE n # NextLanding
    BY <2>0, <2>3, <2>6 DEF CopiesKnown, NextLanding
  <2>. QED
    BY <2>5, <2>6
<1>Record. ASSUME NEW m \in 1..LANDINGS, Record(m)
  PROVE  CopiesKnown'
  <2>1. \A n \in 1..LANDINGS : Recorded(n)' => Recorded(n) \/ n = m
    BY <1>Record DEF Record, Recorded
  <2>2. m \in DOMAIN land.asked \/ (m = Len(land.asked) + 1 /\ owed = "late")
    BY <1>Record DEF Record, Readbacks, Copies, Types, OwedType
  <2>3. owed' = owed /\ land'.asked = land.asked
    BY <1>Record, RecordMarks DEF Record
  <2>4. ASSUME NEW n \in 1..LANDINGS, Recorded(n) \/ n = m, NEW e \in land'.q, e.n = n,
               e.kind = "read"
        PROVE  e.copied
    <3>1. PICK f \in land.q : e.n = f.n /\ e.kind = f.kind /\ (e.copied <=> f.copied \/ f.n = m)
      BY <1>Record, RecordMarks
    <3>2. f.n # Len(land.asked) + 1
      BY LandingsAre
    <3>. QED
      BY <2>4, <3>1, <3>2 DEF CopiesKnown
  <2>. QED
    BY <2>1, <2>2, <2>3, <2>4 DEF CopiesKnown
<1>Submit. ASSUME NEW v \in 1..VALUES, Submit(v)
  PROVE  CopiesKnown'
  <2>1. \A n \in 1..LANDINGS : Recorded(n)' => Recorded(n)
    BY <1>Submit, SubmitAppends DEF Recorded
  <2>. QED
    BY <1>Submit, <2>1, SubmitAppends DEF CopiesKnown
<1>GpuRuns. CASE GpuRuns
  <2>1. \A n \in 1..LANDINGS : Recorded(n)' => Recorded(n)
    BY <1>GpuRuns, RunsPops DEF Recorded
  <2>. QED
    BY <1>GpuRuns, <2>1, RunsPops DEF CopiesKnown
<1>GpuDies. CASE GpuDies
  <2>1. \A n \in 1..LANDINGS : Recorded(n)' => Recorded(n)
    BY <1>GpuDies, DiesAlone DEF Recorded
  <2>. QED
    BY <1>GpuDies, <2>1, DiesAlone DEF CopiesKnown
<1>Land. ASSUME NEW t \in Publishers, Land(t)
  PROVE  CopiesKnown'
  <2>1. land'.q \subseteq land.q /\ DOMAIN land'.asked = DOMAIN land.asked
    BY <1>Land, LandMoves
  <2>2. owed' = owed /\ \A n \in 1..LANDINGS : Recorded(n)' <=> Recorded(n)
    BY <1>Land DEF Land, Recorded
  <2>3. Len(land'.asked) = Len(land.asked)
    BY <1>Land, <2>1, LandingsAre, TypesStep DEF TimelineNext, Types, LandType
  <2>. QED
    BY <2>1, <2>2, <2>3 DEF CopiesKnown
<1>Others. CASE UNCHANGED << owed, open, gpu, land >>
  BY <1>Others DEF CopiesKnown, Recorded
<1>. QED
  BY <1>Make, <1>MakeOwing, <1>Ask, <1>Record, <1>Submit, <1>GpuRuns, <1>GpuDies, <1>Land, <1>Others,
     Steps DEF Complete, Quiet

(* No readback comes to be published with a value made before.             *)
LEMMA ReadbacksKept ==
  ASSUME Types, Queued, [TimelineNext]_timelineVars, NEW v \in 1..VALUES, v <= made
  PROVE  Readbacks(v)' \subseteq Readbacks(v)
<1>. USE TimelineAssumption DEF TimelineAssumption
<1>0. made \in Int /\ Len(land.asked) \in Nat
  BY LandingsAre DEF Types
<1>Make. CASE Make
  BY <1>0, <1>Make DEF Make, Readbacks
<1>MakeOwing. ASSUME NEW kind \in {"late", "empty", "note"}, MakeOwing(kind)
  PROVE  Readbacks(v)' \subseteq Readbacks(v)
  BY <1>0, <1>MakeOwing DEF MakeOwing, Readbacks
<1>Ask. ASSUME NEW w \in 1..VALUES, NEW kind \in Kinds, Asking(w, kind)
  PROVE  Readbacks(v)' \subseteq Readbacks(v)
  <2>. SUFFICES ASSUME NEW n \in Readbacks(v)' PROVE n \in Readbacks(v)
    OBVIOUS
  <2>1. n \in DOMAIN land'.asked /\ land'.asked[n].kind \in Copies /\ land'.asked[n].piece <= v
    BY <1>Ask DEF Asking, Readbacks, Copies
  <2>2. CASE n = NextLanding
    <3>0. land'.asked[NextLanding].kind = kind /\ land'.asked[NextLanding].piece = w
      BY <1>Ask, AskAdds
    <3>1. kind \in Copies /\ w <= v
      BY <2>1, <2>2, <3>0
    <3>2. owed = kind /\ made <= v
      BY <1>0, <1>Ask, <3>1 DEF Asking, Copies
    <3>. QED
      BY <2>2, <3>1, <3>2 DEF Readbacks, NextLanding
  <2>3. CASE n \in DOMAIN land.asked
    BY <1>Ask, <2>1, <2>3, AskAdds DEF Readbacks
  <2>. QED
    BY <1>Ask, <2>1, <2>2, <2>3, AskAdds
<1>Record. ASSUME NEW m \in 1..LANDINGS, Record(m)
  PROVE  Readbacks(v)' \subseteq Readbacks(v)
  BY <1>Record, RecordMarks DEF Record, Readbacks
<1>Submit. ASSUME NEW w \in 1..VALUES, Submit(w)
  PROVE  Readbacks(v)' \subseteq Readbacks(v)
  BY <1>Submit DEF Submit, Readbacks
<1>Land. ASSUME NEW t \in Publishers, Land(t)
  PROVE  Readbacks(v)' \subseteq Readbacks(v)
  <2>1. /\ DOMAIN land'.asked = DOMAIN land.asked /\ UNCHANGED << made, owed >>
        /\ \A n \in DOMAIN land.asked : /\ land'.asked[n].piece = land.asked[n].piece
                                        /\ land'.asked[n].kind = land.asked[n].kind
    BY <1>Land, LandMoves DEF Land
  <2>2. Len(land'.asked) = Len(land.asked)
    BY <2>1, LandingsAre, TypesStep DEF TimelineNext, Types, LandType
  <2>. QED
    BY <2>1, <2>2 DEF Readbacks
<1>Others. CASE UNCHANGED << made, owed, land >>
  BY <1>Others DEF Readbacks
<1>. QED
  BY <1>Make, <1>MakeOwing, <1>Ask, <1>Record, <1>Submit, <1>Land, <1>Others, Steps
     DEF GpuRuns, GpuDies, Complete, Quiet

(* Those published with a value are among those published with a later one.*)
LEMMA ReadbacksGrow ==
  ASSUME Types, Queued, NEW w \in 1..VALUES, NEW v \in 1..VALUES, w <= v
  PROVE  Readbacks(w) \subseteq Readbacks(v)
<1>1. ASSUME NEW n \in DOMAIN land.asked
      PROVE  land.asked[n].piece \in 1..VALUES
  <2>1. land.asked[n] \in Asked
    BY LandingsAre
  <2>. QED
    BY <2>1 DEF Asked
<1>. QED
  BY <1>1, TimelineAssumption DEF TimelineAssumption, Types, Readbacks

(* Submissions go on bringing the readbacks' copies in time.               *)
LEMMA CopiesInTimeStep ==
  ASSUME Types, Queued, QueueInOrder, CopiesInTime, [TimelineNext]_timelineVars
  PROVE  CopiesInTime'
<1>. USE TimelineAssumption DEF TimelineAssumption
<1>0. ASSUME NEW v \in 1..VALUES
      PROVE  /\ v <= gpu.counter => v <= made
             /\ \A i \in DOMAIN gpu.queue : v <= gpu.queue[i].value => v <= made
  BY SubmissionsAre DEF QueueInOrder
<1>Same. CASE UNCHANGED gpu
  <2>. SUFFICES ASSUME NEW v \in 1..VALUES, NEW n \in Readbacks(v)'
                PROVE  /\ v <= gpu.counter => n \in gpu.copied
                       /\ \A i \in DOMAIN gpu.queue :
                            v <= gpu.queue[i].value =>
                              n \in gpu.copied \/ \E j \in 1..i : n \in gpu.queue[j].copies
    BY <1>Same DEF CopiesInTime
  <2>1. CASE v <= made
    BY <2>1, ReadbacksKept DEF CopiesInTime
  <2>2. CASE ~(v <= made)
    BY <1>0, <2>2
  <2>. QED
    BY <2>1, <2>2
<1>Submit. ASSUME NEW v \in 1..VALUES, Submit(v), ~gpu.dead
  PROVE  CopiesInTime'
  <2>. DEFINE k == Len(gpu.queue) + 1
  <2>1. /\ gpu'.counter = gpu.counter /\ gpu'.copied = gpu.copied
        /\ UNCHANGED << made, owed, land >> /\ v <= made
        /\ \A i \in DOMAIN gpu.queue : gpu'.queue[i] = gpu.queue[i] /\ i < k
        /\ \A i \in DOMAIN gpu'.queue : i = k \/ i \in DOMAIN gpu.queue
        /\ gpu'.queue[k].value = v /\ gpu'.queue[k].copies = open
    BY <1>Submit, SubmitAppends
  <2>2. k \in Nat /\ \A i \in DOMAIN gpu.queue : i \in 1..k /\ \A j \in 1..i : j \in DOMAIN gpu.queue
    BY SubmissionsAre
  <2>3. k \in 1..k
    BY SubmissionsAre
  <2>. HIDE DEF k
  <2>4. ASSUME NEW n \in Readbacks(v)
        PROVE  n \in gpu.copied \/ \E j \in 1..k : n \in gpu'.queue[j].copies
    <3>1. Recorded(n)
      BY <1>Submit, SubmitAppends
    <3>. QED
      BY <2>1, <2>2, <2>3, <3>1 DEF Recorded
  <2>5. ASSUME NEW w \in 1..VALUES, NEW n \in Readbacks(w), NEW i \in DOMAIN gpu.queue,
               w <= gpu.queue[i].value
        PROVE  n \in gpu.copied \/ \E j \in 1..i : n \in gpu'.queue[j].copies
    BY <2>1, <2>2, <2>5 DEF CopiesInTime
  <2>6. \A w \in 1..VALUES : Readbacks(w)' = Readbacks(w)
    BY <2>1 DEF Readbacks
  <2>7. ASSUME NEW w \in 1..VALUES, NEW n \in Readbacks(w)
        PROVE  /\ w <= gpu'.counter => n \in gpu'.copied
               /\ \A i \in DOMAIN gpu'.queue :
                    w <= gpu'.queue[i].value =>
                      n \in gpu'.copied \/ \E j \in 1..i : n \in gpu'.queue[j].copies
    <3>1. w <= gpu'.counter => n \in gpu'.copied
      BY <2>1, <2>7 DEF CopiesInTime
    <3>2. w <= v => n \in Readbacks(v)
      BY <2>7, ReadbacksGrow
    <3>. QED
      BY <2>1, <2>4, <2>5, <3>1, <3>2
  <2>. QED
    BY <2>6, <2>7 DEF CopiesInTime
<1>GpuRuns. CASE GpuRuns
  <2>0. \A v \in 1..VALUES : Readbacks(v)' = Readbacks(v)
    BY <1>GpuRuns, RunsPops DEF Readbacks
  <2>1. ASSUME NEW v \in 1..VALUES, NEW n \in Readbacks(v), v <= gpu'.counter
        PROVE  n \in gpu'.copied
    <3>1. n \in gpu.copied \/ \E j \in 1..1 : n \in gpu.queue[j].copies
      BY <1>GpuRuns, <2>1, RunsPops DEF CopiesInTime
    <3>. QED
      BY <1>GpuRuns, <3>1, RunsPops
  <2>2. ASSUME NEW v \in 1..VALUES, NEW n \in Readbacks(v), NEW i \in DOMAIN gpu'.queue,
               v <= gpu'.queue[i].value
        PROVE  n \in gpu'.copied \/ \E j \in 1..i : n \in gpu'.queue[j].copies
    <3>1. i + 1 \in DOMAIN gpu.queue /\ gpu'.queue[i] = gpu.queue[i + 1] /\ i \in Nat \ {0}
      BY <1>GpuRuns, RunsPops
    <3>2. n \in gpu.copied \/ \E j \in 1..(i + 1) : n \in gpu.queue[j].copies
      BY <2>2, <3>1 DEF CopiesInTime
    <3>3. ASSUME NEW j \in 1..(i + 1), n \in gpu.queue[j].copies
          PROVE  n \in gpu'.copied \/ \E m \in 1..i : n \in gpu'.queue[m].copies
      <4>1. CASE j = 1
        BY <1>GpuRuns, <3>3, <4>1, RunsPops
      <4>2. CASE j # 1
        <5>1. j - 1 \in 1..i /\ (j - 1) + 1 = j
          BY <3>1, <4>2
        <5>2. j - 1 \in DOMAIN gpu'.queue
          <6>1. DOMAIN gpu'.queue = 1..Len(gpu'.queue)
            BY <1>GpuRuns, TypesStep, SubmissionsAre, HeadTailProperties DEF GpuRuns, Types, GpuType
          <6>. QED
            BY <5>1, <6>1
        <5>3. gpu'.queue[j - 1] = gpu.queue[j]
          BY <1>GpuRuns, <5>1, <5>2, RunsPops
        <5>. QED
          BY <3>3, <5>1, <5>3
      <4>. QED
        BY <4>1, <4>2
    <3>. QED
      BY <1>GpuRuns, <3>2, <3>3, RunsPops
  <2>. QED
    BY <2>0, <2>1, <2>2 DEF CopiesInTime
<1>GpuDies. CASE GpuDies
  <2>0. \A v \in 1..VALUES : Readbacks(v)' = Readbacks(v)
    BY <1>GpuDies, DiesAlone DEF Readbacks
  <2>. QED
    BY <1>GpuDies, <2>0, DiesAlone DEF CopiesInTime
<1>. QED
  BY <1>Same, <1>Submit, <1>GpuRuns, <1>GpuDies, Steps, SubmitAppends
     DEF Make, MakeOwing, Asking, Record, Land, Complete, Quiet

(* What is published is reached, and has landed before it is completed.    *)
LEMMA PublishingStep ==
  ASSUME Types, Queued, QueueInOrder, Publishing, [TimelineNext]_timelineVars
  PROVE  Publishing'
<1>0. /\ tl.completed \in Int /\ land.landed \in Int /\ gpu.counter \in Int
      /\ \A t \in Publishers : pub[t].v \in Int
  BY TimelineAssumption DEF TimelineAssumption, Types, GpuType, TlType, LandType, PubType,
     Publication, Values, Forever
<1>1. Forever >= 1
  BY TimelineAssumption DEF TimelineAssumption, Forever
<1>2. ASSUME NEW t, PubType, gpu.dead
      PROVE  \A u \in Publishers : Losing(t)[u] = pub[u] \/ Losing(t)[u] = [stage |-> "land", v |-> Forever]
  BY <1>2 DEF Losing, PubType
<1>Submit. ASSUME NEW v \in 1..VALUES, Submit(v)
  PROVE  Publishing'
  <2>1. CASE gpu.dead
    <3>1. /\ UNCHANGED << gpu, land >> /\ tl'.completed = tl.completed /\ tl'.lost = gpu.dead
          /\ pub' = Losing("render")
      BY <1>Submit, <2>1, SubmitAppends
    <3>. QED
      BY <1>1, <1>2, <2>1, <3>1 DEF Publishing, Reached, Types
  <2>2. CASE ~gpu.dead
    BY <1>Submit, <2>2, SubmitAppends DEF Publishing, Reached
  <2>. QED
    BY <2>1, <2>2
<1>GpuRuns. CASE GpuRuns
  <2>1. gpu'.counter > gpu.counter /\ gpu'.dead = gpu.dead /\ gpu'.counter \in Int
    BY <1>GpuRuns, RunsPops, SubmissionsAre DEF QueueInOrder
  <2>2. \A v \in Int : Reached(v) => Reached(v)'
    BY <1>0, <2>1 DEF Reached
  <2>. QED
    BY <1>0, <1>GpuRuns, <2>1, <2>2, RunsPops DEF Publishing
<1>GpuDies. CASE GpuDies
  <2>1. \A v \in Int : Reached(v) => Reached(v)'
    BY <1>GpuDies, DiesAlone DEF Reached
  <2>. QED
    BY <1>0, <1>GpuDies, <2>1, DiesAlone DEF Publishing
<1>Land. ASSUME NEW t \in Publishers, Land(t)
  PROVE  Publishing'
  <2>1. /\ UNCHANGED << gpu, tl >> /\ pub[t].stage = "land"
        /\ pub' = [pub EXCEPT ![t].stage = "complete"]
    BY <1>Land DEF Land
  <2>2. \A u \in Publishers : u # t => pub'[u] = pub[u]
    BY <2>1 DEF Types, PubType
  <2>3. pub[t] \in Publication /\ pub'[t] = [pub[t] EXCEPT !.stage = "complete"]
    BY <2>1 DEF Types, PubType
  <2>4. pub'[t].stage = "complete" /\ pub'[t].v = pub[t].v
    BY <2>3 DEF Publication
  <2>5. Reached(pub[t].v) /\ pub[t].v >= 1
    BY <2>1 DEF Publishing
  <2>6. land.landed <= land'.landed /\ pub[t].v <= land'.landed /\ Reached(land'.landed) /\ land'.landed \in Int
    BY <1>0, <1>Land, <2>5, LandMoves DEF Publishing
  <2>. QED
    BY <1>0, <2>1, <2>2, <2>4, <2>5, <2>6 DEF Publishing, Reached
<1>Complete. ASSUME NEW t \in Publishers, Complete(t)
  PROVE  Publishing'
  <2>1. /\ UNCHANGED << gpu, land >> /\ tl'.lost = tl.lost /\ tl'.completed = Completed(pub[t].v)
        /\ pub' = [pub EXCEPT ![t] = NotPublishing] /\ pub[t].stage = "complete"
    BY <1>Complete DEF Complete, Types, TlType
  <2>2. tl'.completed <= land.landed
    BY <1>0, <2>1 DEF Publishing, Completed
  <2>3. \A u \in Publishers : pub'[u] = pub[u] \/ pub'[u].stage = "none"
    BY <2>1 DEF Types, PubType, NotPublishing
  <2>. QED
    BY <2>1, <2>2, <2>3 DEF Publishing, Reached
<1>Quiet. CASE Quiet
  <2>1. UNCHANGED << gpu, land >> /\ tl'.completed = tl.completed
    BY <1>Quiet DEF Quiet
  <2>2. CASE UNCHANGED pub /\ tl'.lost = tl.lost
    BY <2>1, <2>2 DEF Publishing, Reached
  <2>3. ASSUME NEW t \in Publishers, Publishes(t)
        PROVE  Publishing'
    <3>1. CASE pub' = Losing(t) /\ gpu.dead
      BY <1>1, <1>2, <2>1, <3>1 DEF Publishing, Reached, Types
    <3>2. CASE ~(pub' = Losing(t) /\ gpu.dead)
      <4>1. /\ pub' = [pub EXCEPT ![t] = [stage |-> "land", v |-> gpu.counter]]
            /\ gpu.counter >= 1 /\ tl'.lost = tl.lost
        BY <2>3, <3>2 DEF Publishes
      <4>2. \A u \in Publishers : pub'[u] = pub[u] \/ pub'[u] = [stage |-> "land", v |-> gpu.counter]
        BY <4>1 DEF Types, PubType
      <4>. QED
        BY <1>0, <2>1, <4>1, <4>2 DEF Publishing, Reached
    <3>. QED
      BY <3>1, <3>2
  <2>. QED
    BY <1>Quiet, <2>2, <2>3 DEF Quiet
<1>Ask. ASSUME NEW v \in 1..VALUES, NEW kind \in Kinds, Asking(v, kind)
  PROVE  Publishing'
  BY <1>Ask, AskAdds DEF Asking, Publishing, Reached
<1>Record. ASSUME NEW m \in 1..LANDINGS, Record(m)
  PROVE  Publishing'
  BY <1>Record, RecordMarks DEF Record, Publishing, Reached
<1>Make. CASE Make \/ \E kind \in {"late", "empty", "note"} : MakeOwing(kind)
  BY <1>Make DEF Make, MakeOwing, Publishing, Reached
<1>. QED
  BY <1>Make, <1>Ask, <1>Record, <1>Submit, <1>GpuRuns, <1>GpuDies, <1>Land, <1>Complete, <1>Quiet, Steps

-----------------------------------------------------------------------------
(* The invariant of Timeline.                                              *)
THEOREM TimelineInvariant == TimelineSpec => []TimelineIInv
<1>1. TimelineInit => TimelineIInv
  <2>. SUFFICES ASSUME TimelineInit PROVE TimelineIInv
    OBVIOUS
  <2>. USE TimelineAssumption DEF TimelineAssumption, TimelineInit
  <2>1. /\ gpu.queue = << >> /\ gpu.counter = 0 /\ gpu.copied = {} /\ tl.submitted = 0 /\ ~tl.lost
        /\ land.q = {} /\ land.landed = 0 /\ land.asked = << >> /\ tl.completed = 0 /\ made = 0
        /\ owed = "none"
    OBVIOUS
  <2>2. Types
    <3>1. GpuType
      BY EmptySeq DEF GpuType
    <3>2. TlType
      BY DEF TlType, Values, Forever
    <3>3. LandType
      BY EmptySeq DEF LandType, Values, Forever
    <3>4. NotPublishing \in Publication
      BY DEF NotPublishing, Publication, Values, Forever
    <3>5. PubType
      BY <3>4 DEF PubType
    <3>6. WatcherType
      BY DEF WatcherType
    <3>. QED
      BY <2>1, <3>1, <3>2, <3>3, <3>5, <3>6 DEF Types, OwedType
  <2>3. Queued /\ QueueInOrder /\ CopiesInTime
    BY <2>1 DEF Queued, QueueInOrder, CopiesInTime, Readbacks, Copies
  <2>4. CopiesKnown
    BY <2>1 DEF CopiesKnown, Recorded
  <2>5. \A t \in Publishers : pub[t].stage = "none"
    BY DEF NotPublishing
  <2>6. Publishing
    BY <2>1, <2>5 DEF Publishing, Reached
  <2>. QED
    BY <2>2, <2>3, <2>4, <2>6 DEF TimelineIInv
<1>2. TimelineIInv /\ [TimelineNext]_timelineVars => TimelineIInv'
  BY TypesStep, QueuedStep, QueueStep, CopiesKnownStep, CopiesInTimeStep, PublishingStep
     DEF TimelineIInv
<1>. QED
  BY <1>1, <1>2, PTL DEF TimelineSpec

(* The variables have their types, and the landings queued are those that  *)
(* are to come, each once, of the value each was asked at.                 *)
THEOREM TypesHold == TimelineSpec => []TimelineTypeOK
<1>1. TimelineIInv => TimelineTypeOK
  <2>. SUFFICES ASSUME TimelineIInv PROVE TimelineTypeOK
    OBVIOUS
  <2>1. ASSUME NEW n \in DOMAIN land.asked
        PROVE  Cardinality({e \in land.q : e.n = n}) = IF land.asked[n].at = "asked" THEN 1 ELSE 0
    <3>1. CASE land.asked[n].at = "asked"
      <4>1. PICK e \in land.q : e.n = n
        BY <3>1 DEF TimelineIInv, Queued
      <4>2. {f \in land.q : f.n = n} = {e}
        BY <4>1 DEF TimelineIInv, Queued
      <4>. QED
        BY <3>1, <4>2, FS_Singleton
    <3>2. CASE land.asked[n].at # "asked"
      <4>1. {f \in land.q : f.n = n} = {}
        BY <3>2 DEF TimelineIInv, Queued
      <4>. QED
        BY <3>2, <4>1, FS_EmptySet
    <3>. QED
      BY <3>1, <3>2
  <2>2. \A n \in DOMAIN land.asked : \A e \in land.q : e.n = n => e.value = land.asked[n].piece
    BY DEF TimelineIInv, Queued
  <2>. QED
    BY <2>1, <2>2 DEF TimelineIInv, Types, OwedType, Kinds, GpuType, TlType, LandType, PubType, WatcherType, TimelineTypeOK,
       Submission, Asked, Publication
<1>. QED
  BY <1>1, TimelineInvariant, PTL

-----------------------------------------------------------------------------
(* What a thread lands comes to be in memory: the landings up to a value   *)
(* each end as their kind allows, those asked for in time with their copy  *)
(* from the GPU unless it is lost, and the others keep what they are.      *)
LEMMA LandKeepsPromise ==
  ASSUME TimelineIInv, NEW t \in Publishers, Land(t)
  PROVE  [Promise!Next]_(Promise!promised)
<1>. DEFINE v == pub[t].v
<1>. USE TimelineAssumption DEF TimelineAssumption
<1>1. UNCHANGED << made, gpu, tl >> /\ pub[t].stage = "land"
  BY DEF Land
<1>2. v \in Values /\ v \in Int /\ v >= 1 /\ v \in 1..Forever /\ Reached(v)
  BY <1>1 DEF TimelineIInv, Types, PubType, Publication, Publishing, Values, Forever
<1>3. CASE UNCHANGED land
  BY <1>1, <1>3 DEF Promise!promised
<1>4. CASE ~UNCHANGED land
  <2>1. /\ DOMAIN land'.asked = DOMAIN land.asked
        /\ \A n \in DOMAIN land.asked : land'.asked[n] = [land.asked[n] EXCEPT !.at = Landed(n, v)]
    BY <1>4, LandMoves DEF TimelineIInv
  <2>2. ASSUME NEW n \in DOMAIN land.asked
        PROVE  land.asked[n] \in Asked /\ land.asked[n].piece \in 1..VALUES /\ land.asked[n].kind \in Kinds
    <3>1. land.asked[n] \in Asked
      BY LandingsAre DEF TimelineIInv
    <3>. QED
      BY <3>1 DEF Asked
  <2>3. /\ land'.asked \in Seq(Asked) /\ land.asked \in Seq(Asked)
        /\ DOMAIN land.asked = 1..Len(land.asked) /\ Len(land.asked) \in Nat
    BY TypesStep, LandingsAre DEF TimelineNext, TimelineIInv, Types, LandType
  <2>4. ASSUME NEW n \in DOMAIN land.asked, ~(land.asked[n].piece <= v /\ land.asked[n].at = "asked")
        PROVE  land'.asked[n] = land.asked[n]
    <3>1. Landed(n, v) = land.asked[n].at
      BY <1>2, <2>4, LandedIs DEF TimelineIInv
    <3>. QED
      BY <2>1, <2>2, <3>1 DEF Asked
  <2>5. CASE Promise!AllMade(v)
    <3>1. \A n \in DOMAIN land.asked : land'.asked[n] = land.asked[n]
      BY <2>4, <2>5 DEF Promise!AllMade, Promise!Settled
    <3>2. land'.asked = land.asked
      BY <2>1, <2>3, <3>1
    <3>. QED
      BY <1>1, <3>2 DEF Promise!promised
  <2>6. CASE ~Promise!AllMade(v)
    <3>1. ASSUME NEW n \in DOMAIN land.asked, land.asked[n].piece <= v, land.asked[n].at = "asked"
          PROVE  Landed(n, v) \in Promise!Ending(land.asked[n].kind)
      <4>1. PICK e \in land.q : e.n = n /\ Landed(n, v) = Brings(e)
        BY <1>2, <3>1, LandedIs DEF TimelineIInv
      <4>2. e.kind = land.asked[n].kind /\ (e.copied => e.kind \in Copies)
        BY <4>1 DEF TimelineIInv, Queued
      <4>3. CASE gpu.dead \/ e.kind \notin Copies
        BY <2>2, <4>1, <4>2, <4>3, BringsIs DEF Promise!Ending, Promise!Ends, Kinds, Copies
      <4>4. CASE ~gpu.dead /\ e.kind \in Copies
        <5>1. land.asked[n].piece <= gpu.counter
          BY <1>2, <2>2, <3>1, <4>4, SubmissionsAre DEF TimelineIInv, Reached
        <5>2. n \in Readbacks(land.asked[n].piece)
          BY <2>2, <4>2, <4>4 DEF Readbacks
        <5>3. n \in gpu.copied
          BY <2>2, <5>1, <5>2 DEF TimelineIInv, CopiesInTime
        <5>4. e.kind = "read" => e.copied
          <6>1. n \in 1..LANDINGS /\ n # Len(land.asked) + 1 /\ Recorded(n)
            BY <2>3, <5>3 DEF TimelineIInv, Recorded, Types, LandType
          <6>. QED
            BY <4>1, <6>1 DEF TimelineIInv, CopiesKnown
        <5>. QED
          BY <4>1, <4>2, <4>4, <5>3, <5>4, BringsIs DEF Promise!Ending, Copies
      <4>. QED
        BY <4>3, <4>4
    <3>2. \A n \in DOMAIN land.asked :
            IF n \in Promise!Settled(v) /\ land.asked[n].at = "asked"
            THEN \E end \in Promise!Ending(land.asked[n].kind) :
                   land'.asked[n] = [land.asked[n] EXCEPT !.at = end]
            ELSE land'.asked[n] = land.asked[n]
      BY <2>1, <2>4, <3>1 DEF Promise!Settled
    <3>3. Promise!Reached(v)
      BY <1>2 DEF Reached, Promise!Reached
    <3>4. Promise!Land(v)
      BY <1>1, <2>1, <2>6, <3>2, <3>3 DEF Promise!Land
    <3>. QED
      BY <1>2, <3>4 DEF Promise!Next
  <2>. QED
    BY <2>5, <2>6
<1>. QED
  BY <1>3, <1>4

(* Once a value's landings are in, none of it is to come.                  *)
LEMMA LandedMade ==
  ASSUME TimelineIInv, NEW v \in 1..Forever, v <= land.landed
  PROVE  Promise!AllMade(v)
<1>. USE TimelineAssumption DEF TimelineAssumption
<1>. SUFFICES ASSUME NEW n \in DOMAIN land.asked, land.asked[n].piece <= v,
                     land.asked[n].at = "asked"
              PROVE  FALSE
  BY DEF Promise!AllMade, Promise!Settled
<1>1. PICK e \in land.q : e.n = n
  BY DEF TimelineIInv, Queued
<1>2. e.value = land.asked[n].piece /\ e.value > land.landed /\ e.value \in Int
  BY <1>1, LandingsAre DEF TimelineIInv, Queued, Landing
<1>. QED
  BY <1>2, LandingsAre DEF TimelineIInv, Forever

(* A landing asked for is one that the promise allows.                     *)
LEMMA AskKeepsPromise ==
  ASSUME TimelineIInv, NEW v \in 1..VALUES, NEW kind \in Kinds, Asking(v, kind)
  PROVE  Promise!Ask(v, kind) /\ v \in 1..(made + 1)
<1>. USE TimelineAssumption DEF TimelineAssumption
<1>1. UNCHANGED << made, gpu, tl >> /\ v <= made + 1
  BY DEF Asking
<1>2. kind = "read" => v = made + 1
  BY DEF Asking, TimelineIInv, Types, OwedType
<1>3. v \in 1..(made + 1) /\ v \in 1..Forever /\ land.landed \in Int /\ tl.completed \in Int
  BY <1>1, LandingsAre DEF TimelineIInv, Types, TlType, Values, Forever
<1>4. CASE ~(v <= land.landed)
  <2>1. land'.asked = Append(land.asked, [piece |-> v, kind |-> kind, at |-> "asked"])
    BY <1>4, AskAdds DEF TimelineIInv
  <2>2. v > tl.completed
    BY <1>3, <1>4 DEF TimelineIInv, Publishing
  <2>. QED
    BY <1>1, <1>2, <1>3, <2>1, <2>2 DEF Promise!Ask
<1>5. CASE v <= land.landed
  <2>. DEFINE end == IF kind = "note" THEN "landed" ELSE "dropped"
  <2>1. land'.asked = Append(land.asked, [piece |-> v, kind |-> kind, at |-> end])
    BY <1>5, AskAdds DEF TimelineIInv
  <2>2. Reached(v) \/ gpu.dead
    BY <1>3, <1>5, SubmissionsAre DEF TimelineIInv, Publishing, Reached
  <2>3. Promise!Reached(v) /\ Promise!AllMade(v)
    BY <1>3, <1>5, <2>2, LandedMade DEF Reached, Promise!Reached
  <2>4. kind = "read" => gpu.dead
    BY <1>2, <1>3, <2>2, SubmissionsAre DEF TimelineIInv, Reached, QueueInOrder
  <2>5. end \in Promise!Ending(kind)
    BY <2>4 DEF Promise!Ending, Promise!Ends, Kinds
  <2>. HIDE DEF end
  <2>. QED
    BY <1>1, <1>2, <1>3, <2>1, <2>3, <2>5 DEF Promise!Ask
<1>. QED
  BY <1>4, <1>5

(* Every step is one that the promise allows, or none of its.              *)
LEMMA PromiseStep ==
  ASSUME TimelineIInv, [TimelineNext]_timelineVars
  PROVE  [Promise!Next]_(Promise!promised)
<1>. USE TimelineAssumption DEF TimelineAssumption
<1>Make. CASE Make \/ \E kind \in {"late", "empty", "note"} : MakeOwing(kind)
  BY <1>Make DEF Make, MakeOwing, Promise!Next, Promise!Make
<1>Ask. ASSUME NEW v \in 1..VALUES, NEW kind \in Kinds, Asking(v, kind)
  PROVE  [Promise!Next]_(Promise!promised)
  BY <1>Ask, AskKeepsPromise DEF Promise!Next, Promise!Kinds, Kinds
<1>Record. ASSUME NEW m \in 1..LANDINGS, Record(m)
  PROVE  UNCHANGED Promise!promised
  BY <1>Record, RecordMarks DEF Record, Promise!promised, TimelineIInv
<1>Submit. ASSUME NEW v \in 1..VALUES, Submit(v)
  PROVE  UNCHANGED Promise!promised
  BY <1>Submit, SubmitAppends DEF Promise!promised, TimelineIInv
<1>GpuRuns. CASE GpuRuns
  <2>1. gpu'.counter \in (gpu.counter + 1)..made
    BY <1>GpuRuns, RunsPops, SubmissionsAre DEF TimelineIInv, QueueInOrder
  <2>2. UNCHANGED << made, tl.completed, land.asked, gpu.dead >>
    BY <1>GpuRuns, RunsPops DEF TimelineIInv
  <2>. QED
    BY <2>1, <2>2 DEF Promise!Next, Promise!Run
<1>GpuDies. CASE GpuDies
  <2>1. gpu'.dead = TRUE /\ UNCHANGED << made, gpu.counter, tl.completed, land.asked >>
    BY <1>GpuDies, DiesAlone DEF GpuDies, TimelineIInv, Types, GpuType
  <2>. QED
    BY <2>1 DEF Promise!Next, Promise!Lose
<1>Land. ASSUME NEW t \in Publishers, Land(t)
  PROVE  [Promise!Next]_(Promise!promised)
  BY <1>Land, LandKeepsPromise
<1>Complete. ASSUME NEW t \in Publishers, Complete(t)
  PROVE  [Promise!Next]_(Promise!promised)
  <2>. DEFINE v == pub[t].v
  <2>1. /\ UNCHANGED << made, gpu, land >> /\ tl'.completed = Completed(v) /\ pub[t].stage = "complete"
    BY <1>Complete DEF Complete, TimelineIInv, Types, TlType
  <2>2. v \in 1..Forever /\ v <= land.landed /\ Reached(v)
    BY <2>1 DEF TimelineIInv, Types, PubType, Publication, Publishing, Values, Forever
  <2>3. CASE v > tl.completed
    <3>1. Promise!AllMade(v)
      BY <2>2, LandedMade
    <3>2. Promise!Complete(v)
      BY <2>1, <2>2, <2>3, <3>1 DEF Promise!Complete, Completed, Reached
    <3>. QED
      BY <2>2, <3>2 DEF Promise!Next
  <2>4. CASE ~(v > tl.completed)
    BY <2>1, <2>4 DEF Completed, Promise!promised
  <2>. QED
    BY <2>3, <2>4
<1>Quiet. CASE Quiet
  BY <1>Quiet DEF Quiet, Promise!promised
<1>. QED
  BY <1>Make, <1>Ask, <1>Record, <1>Submit, <1>GpuRuns, <1>GpuDies, <1>Land, <1>Complete, <1>Quiet,
     Steps DEF TimelineIInv

(* The timeline keeps what the title and the decoder rely on: completion   *)
(* in order, never before the GPU is there and the landings in memory,     *)
(* each landing once and in order with what the GPU wrote; only the loss   *)
(* of the device gives less.                                               *)
THEOREM TimelineKept == TimelineSpec => TimelineKeepsPromise
<1>1. TimelineInit => Promise!Init
  BY DEF TimelineInit, Promise!Init
<1>2. TimelineIInv /\ [TimelineNext]_timelineVars => [Promise!Next]_(Promise!promised)
  BY PromiseStep
<1>. QED
  BY <1>1, <1>2, TimelineInvariant, PTL DEF TimelineSpec, TimelineKeepsPromise, Promise!Spec
=============================================================================
