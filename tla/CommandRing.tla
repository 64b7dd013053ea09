----------------------------- MODULE CommandRing -----------------------------
(***************************************************************************)
(* The ring between the GPU's front end and its render thread              *)
(* (front/ring.c, front/fe.c): one producer, one consumer, records of      *)
(* whole 8-byte units, the first of them the header.  head, tail and wpos  *)
(* are positions that go round at 2^32 bytes (POSITIONS units), and no     *)
(* record goes round the end of the buffer: a pad record fills what is     *)
(* left there.  Neither thread ever waits for a lock.                      *)
(***************************************************************************)
EXTENDS Integers, Sequences

CONSTANTS
  SIZE,         (* The buffer's units.                                     *)
  POSITIONS,    (* The positions', 2^32 bytes.                             *)
  Commands,     (* What a record carries, header included, and             *)
  UnitsOf,      (* its length in units.                                    *)
  NoCommand

ASSUME RingAssumption ==
  /\ SIZE \in Nat \ {0}
  /\ POSITIONS \in Nat /\ POSITIONS > SIZE /\ POSITIONS % SIZE = 0
  /\ UnitsOf \in [Commands -> Nat \ {0}] /\ \A cmd \in Commands : 2 * UnitsOf[cmd] <= SIZE
  /\ NoCommand \notin Commands /\ "PAD" \notin Commands \cup {NoCommand}

VARIABLES
  buf,          (* Each unit: the record it was written for, what it says  *)
                (* of it (a header its length, the others its bytes).      *)
  head,         (* The producer's, published.                              *)
  tail,         (* The consumer's.                                         *)
  wpos,         (* The end of what is reserved.                            *)
  tail_seen,    (* tail as the producer last read it.                      *)
  p,            (* The producer: pc, and the command it is at.             *)
  given         (* The command the consumer is doing.                      *)

vars == << buf, head, tail, wpos, tail_seen, p, given >>

Unit == [cmd : Commands \cup {NoCommand, "PAD"}, units : 0..SIZE]
Blank == [cmd |-> NoCommand, units |-> 0]

Position == 0..(POSITIONS - 1)
Offset(pos) == pos % SIZE

(* Positions going round, and how far one is ahead of another.             *)
Advance(pos, n) == IF pos + n < POSITIONS THEN pos + n ELSE pos + n - POSITIONS
Ahead(pos, from) == IF from <= pos THEN pos - from ELSE pos - from + POSITIONS

Init ==
  /\ buf = [o \in 0..(SIZE - 1) |-> Blank]
  /\ head = 0 /\ tail = 0 /\ wpos = 0 /\ tail_seen = 0
  /\ p = [pc |-> "run", cmd |-> NoCommand]
  /\ given = NoCommand
------------------------------------------------------------------------------
(* The producer.  A record that does not fit before the buffer's end goes  *)
(* to its start, after a pad.                                              *)
Padding(n) == IF Offset(wpos) + n > SIZE THEN SIZE - Offset(wpos) ELSE 0

(* A fault: the pad is not counted.                                        *)
HasRoomUnpadded(n, seen) == SIZE - Ahead(wpos, seen) >= n

HasRoom(n, seen) == SIZE - Ahead(wpos, seen) >= Padding(n) + n

(* The tail is read again only when the room seen last does not do.        *)
TailSeen(n) == IF HasRoom(n, tail_seen) THEN tail_seen ELSE tail

(* hle_ring_reserve: the pad's header and the record's.                    *)
Headers(cmd, n) ==
  LET pad == Padding(n)
      at == IF pad = 0 THEN Offset(wpos) ELSE 0
  IN [o \in DOMAIN buf |->
        IF o = at THEN [cmd |-> IF n = 1 THEN cmd ELSE NoCommand, units |-> n]
        ELSE IF pad # 0 /\ o = Offset(wpos) THEN [cmd |-> "PAD", units |-> pad]
        ELSE buf[o]]

Reserve(cmd) ==
  LET n == UnitsOf[cmd]
  IN /\ tail_seen' = TailSeen(n)
     /\ IF HasRoom(n, TailSeen(n))
        THEN /\ buf' = Headers(cmd, n)
             /\ wpos' = Advance(wpos, Padding(n) + n)
             /\ p' = [pc |-> "write", cmd |-> cmd]
        ELSE /\ p' = [pc |-> "full", cmd |-> cmd]
             /\ UNCHANGED << buf, wpos >>
     /\ UNCHANGED << head, tail, given >>

Begin(cmd) == p.pc = "run" /\ Reserve(cmd)
Retry == p.pc = "retry" /\ Reserve(p.cmd)

(* The caller's own bytes.                                                 *)
Write ==
  /\ p.pc = "write"
  /\ buf' = [o \in DOMAIN buf |->
       IF Offset(wpos - 1) - o \in 0..(UnitsOf[p.cmd] - 2) THEN [cmd |-> p.cmd, units |-> 0] ELSE buf[o]]
  /\ p' = [pc |-> "run", cmd |-> NoCommand]
  /\ UNCHANGED << head, tail, wpos, tail_seen, given >>

(* Faults: the command is published before its bytes are written; the      *)
(* ring is full and nothing is published.                                  *)
PublishAnyTime ==
  /\ head # wpos
  /\ head' = wpos
  /\ p' = [p EXCEPT !.pc = IF @ = "full" THEN "retry" ELSE @]
  /\ UNCHANGED << buf, tail, wpos, tail_seen, given >>

PublishNotFull ==
  /\ p.pc \in {"run", "full"} /\ (p.pc = "full" \/ head # wpos)
  /\ head' = IF p.pc = "full" THEN head ELSE wpos
  /\ p' = [p EXCEPT !.pc = IF @ = "full" THEN "retry" ELSE "run"]
  /\ UNCHANGED << buf, tail, wpos, tail_seen, given >>

(* hle_fe_commit, after any number of records; and with the ring full.     *)
Publish ==
  /\ p.pc \in {"run", "full"} /\ (p.pc = "full" \/ head # wpos)
  /\ head' = wpos
  /\ p' = [p EXCEPT !.pc = IF @ = "full" THEN "retry" ELSE "run"]
  /\ UNCHANGED << buf, tail, wpos, tail_seen, given >>
------------------------------------------------------------------------------
(* The consumer: hle_ring_peek past a pad, and to a record; it is consumed *)
(* once the command is done with.                                          *)
AtTail == buf[Offset(tail)]

SkipPad ==
  /\ given = NoCommand /\ tail # head /\ AtTail.cmd = "PAD"
  /\ tail' = Advance(tail, AtTail.units)
  /\ UNCHANGED << buf, head, wpos, tail_seen, p, given >>

Peek ==
  /\ given = NoCommand /\ tail # head /\ AtTail.cmd # "PAD"
  /\ given' = buf[Offset(Advance(tail, AtTail.units - 1))].cmd
  /\ UNCHANGED << buf, head, tail, wpos, tail_seen, p >>

Consume ==
  /\ given # NoCommand
  /\ tail' = Advance(tail, AtTail.units) /\ given' = NoCommand
  /\ UNCHANGED << buf, head, wpos, tail_seen, p >>

Consumer == SkipPad \/ Peek \/ Consume

Next == Consumer \/ Retry \/ Write \/ Publish \/ \E cmd \in Commands : Begin(cmd)

(* Both threads go on; the producer publishes what it has made.            *)
Spec == Init /\ [][Next]_vars /\ WF_vars(Consumer) /\ WF_vars(Retry \/ Write) /\ WF_vars(Publish)
------------------------------------------------------------------------------
(* The types; and what is given is a command, never the pad at the         *)
(* buffer's end (hle_ring_peek).                                           *)
TypeOK ==
  /\ buf \in [0..(SIZE - 1) -> Unit]
  /\ {head, tail, wpos, tail_seen} \subseteq Position
  /\ p \in [pc : {"run", "write", "full", "retry"}, cmd : Commands \cup {NoCommand}]
  /\ given \in Commands \cup {NoCommand}

(* The positions are in order, with no more between them than the buffer   *)
(* holds, round the end of the buffer and of the positions (ring.c         *)
(* reserve): what is reserved is never over what is not consumed, and the  *)
(* tail the producer saw is never ahead of the consumer's.                 *)
PositionsInOrder ==
  /\ Ahead(wpos, tail_seen) <= SIZE
  /\ Ahead(tail, tail_seen) <= Ahead(head, tail_seen)
  /\ Ahead(head, tail_seen) <= Ahead(wpos, tail_seen)

(* The record that begins n units before wpos: its length, and what the    *)
(* consumer is given of it (the one the producer has still to write counts *)
(* with its bytes).                                                        *)
Back(n) == Advance(wpos, POSITIONS - n)
UnitsBack(n) == buf[Offset(Back(n))].units
CommandBack(n) ==
  IF p.pc = "write" /\ n = UnitsOf[p.cmd] THEN p.cmd
  ELSE buf[Offset(Advance(Back(n), UnitsBack(n) - 1))].cmd
GivenBack(n) == IF buf[Offset(Back(n))].cmd = "PAD" THEN << >> ELSE << CommandBack(n) >>

(* The commands in the last n units reserved, and those from a position.   *)
Left[n \in 0..SIZE] ==
  IF UnitsBack(n) \in 1..n THEN GivenBack(n) \o Left[n - UnitsBack(n)] ELSE << >>

From(start) == Left[Ahead(wpos, start)]

Queue == INSTANCE CommandQueue WITH
  cmds <- IF given = NoCommand THEN From(tail) ELSE Tail(From(tail)),
  open <- Len(From(head)),
  refused <- p.pc \in {"full", "retry"},
  given <- given

(* The ring keeps the queue's promise: the render thread is given every    *)
(* published command once, whole and in order, however often the ring goes *)
(* round, and a full ring always has something in it to consume.           *)
KeepsPromise == Queue!Spec

(* The producer, refused, finds room in the end: it publishes what it has  *)
(* made before it waits, and any record fits an empty ring, pad included.  *)
RoomComes == []<>(p.pc = "run")
=============================================================================
