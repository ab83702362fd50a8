---------------------------- MODULE IqRingProofs ----------------------------
(***************************************************************************)
(* Proofs about IqRing for every number of consumers, ring size, segment   *)
(* size, width of the positions and length of the stream.                  *)
(***************************************************************************)
EXTENDS IqRing, TLAPS

ConsumerStates == {"free", "top", "load", "starved", "copy", "callback", "exited"}

-----------------------------------------------------------------------------
(* Positions modulo 2^32, cells modulo the size of the ring: facts about % *)
(* for any modulus.                                                        *)

\* A quotient and a remainder in range determine each other.
LEMMA RemainderUnique ==
    ASSUME NEW m \in Nat, m > 0, NEW q \in Int, NEW r \in 0..m-1,
           NEW a \in Int, a = m * q + r
    PROVE  a % m = r
<1> DEFINE d == q - (a \div m)
<1>1. a = m * (a \div m) + (a % m) /\ a % m \in 0..m-1 /\ a \div m \in Int
  BY SMT
<1>2. m * d = (a % m) - r
  BY <1>1, SMT
<1>3. d \in Int /\ m * d < m /\ m * d > -m
  BY <1>1, <1>2, SMT
<1>4. d = 0 => a % m = r
  BY <1>1, <1>2
<1> HIDE DEF d
<1>5. CASE d >= 1
  <2>1. m * d >= m
    BY <1>3, <1>5, SMT
  <2> QED BY <2>1, <1>3
<1>6. CASE d <= -1
  <2>1. m * d <= -m
    BY <1>3, <1>6, SMT
  <2> QED BY <2>1, <1>3
<1> QED BY <1>3, <1>4, <1>5, <1>6

\* Adding a multiple of m changes nothing modulo m.
LEMMA ModShift ==
    ASSUME NEW m \in Nat, m > 0, NEW a \in Int, NEW q \in Int
    PROVE  (a + m * q) % m = a % m
<1> DEFINE b == a + m * q
           p == (a \div m) + q
           r == a % m
<1>1. r \in 0..m-1 /\ p \in Int /\ b \in Int
  BY SMT
<1>2. a = m * (a \div m) + r
  BY SMT
<1>3. b = m * p + r
  BY <1>2, SMT
<1> HIDE DEF b, p, r
<1>4. b % m = r
  BY <1>1, <1>3, RemainderUnique
<1> QED BY <1>4 DEF b, r

\* A reduced operand may be reduced again or not.
LEMMA ModPlus ==
    ASSUME NEW m \in Nat, m > 0, NEW a \in Int, NEW b \in Int
    PROVE  ((a % m) + b) % m = (a + b) % m
<1> DEFINE x == (a % m) + b
           q == a \div m
<1>1. x \in Int /\ q \in Int /\ a + b = x + m * q
  BY SMT
<1> HIDE DEF x, q
<1>2. (x + m * q) % m = x % m
  BY <1>1, ModShift
<1> QED BY <1>1, <1>2 DEF x

\* The same for the second operand of a difference.
LEMMA ModMinus ==
    ASSUME NEW m \in Nat, m > 0, NEW a \in Int, NEW b \in Int
    PROVE  ((a % m) - (b % m)) % m = (a - b) % m
<1> DEFINE x == (a % m) - (b % m)
           q == (a \div m) - (b \div m)
<1>1. x \in Int /\ q \in Int /\ a - b = x + m * q
  BY SMT
<1> HIDE DEF x, q
<1>2. (x + m * q) % m = x % m
  BY <1>1, ModShift
<1> QED BY <1>1, <1>2 DEF x

\* A distance read modulo m is never longer than the real one, and is shorter
\* only if the real one is at least m.
LEMMA ModDistance ==
    ASSUME NEW m \in Nat, m > 0, NEW d \in Nat
    PROVE  /\ d % m \in 0..m-1
           /\ d % m <= d
           /\ d % m = d \/ d >= m
<1>1. d < m => d % m = d
  <2>1. SUFFICES ASSUME d < m PROVE d % m = d
    OBVIOUS
  <2>2. d = m * 0 + d /\ d \in 0..m-1
    BY <2>1, SMT
  <2> QED BY <2>2, RemainderUnique
<1>2. d % m \in 0..m-1
  BY SMT
<1> QED BY <1>1, <1>2, SMT

\* Subtracting the distance leads back to the same position modulo m.
LEMMA ModBack ==
    ASSUME NEW m \in Nat, m > 0, NEW a \in Int, NEW b \in Int
    PROVE  (a - ((a - b) % m)) % m = b % m
<1> DEFINE x == a - ((a - b) % m)
           q == (a - b) \div m
<1>1. x \in Int /\ q \in Int /\ x = b + m * q
  BY SMT
<1> HIDE DEF x, q
<1>2. (b + m * q) % m = b % m
  BY <1>1, ModShift
<1> QED BY <1>1, <1>2 DEF x

\* Two positions less than m apart have the same cell only if they are equal.
LEMMA ModInjective ==
    ASSUME NEW m \in Nat, m > 0, NEW a \in Int, NEW b \in Int,
           a - b < m, b - a < m, a % m = b % m
    PROVE  a = b
<1> DEFINE d == (a \div m) - (b \div m)
<1>1. d \in Int /\ a - b = m * d
  BY SMT
<1> HIDE DEF d
<1>2. CASE d >= 1
  <2>1. m * d >= m
    BY <1>1, <1>2, SMT
  <2> QED BY <2>1, <1>1
<1>3. CASE d <= -1
  <2>1. m * d <= -m
    BY <1>1, <1>3, SMT
  <2> QED BY <2>1, <1>1
<1>4. CASE d = 0
  BY <1>4, <1>1
<1> QED BY <1>1, <1>2, <1>3, <1>4

\* A position reduced modulo a multiple of the ring keeps its cell.
LEMMA ModNested ==
    ASSUME NEW r \in Nat, r > 0, NEW m \in Nat, m > 0, m % r = 0, NEW a \in Int
    PROVE  (a % m) % r = a % r
<1> DEFINE x == a % m
           k == m \div r
           n == a \div m
           q == k * n
<1>1. x \in Int /\ k \in Int /\ n \in Int /\ m = r * k /\ a = x + m * n
  BY SMT
<1>2. q \in Int /\ m * n = r * q
  BY <1>1, SMT
<1> HIDE DEF x, k, n, q
<1>3. (x + r * q) % r = x % r
  BY <1>1, <1>2, ModShift
<1>4. a = x + r * q
  BY <1>1, <1>2
<1> QED BY <1>3, <1>4 DEF x

-----------------------------------------------------------------------------
(* Type correctness.                                                       *)

\* The value of each cell index and of each reduced position is in range.
LEMMA Ranges ==
    ASSUME NEW x \in Int, NEW k \in Int
    PROVE  /\ x % Modulus \in 0..Modulus-1
           /\ Cell(x, k) \in Cells
  BY IqRingAssumption, SMT DEF Cell, Cells

\* The writer's bound on the stream, which keeps written in its type.
WithinBound == written + wlen <= MaxWritten

\* Type correctness: every variable of the ring keeps to its declared values.
THEOREM TypeCorrect == Spec => []TypeOK
<1> USE IqRingAssumption
<1>1. Init => TypeOK /\ WithinBound
  <2> SUFFICES ASSUME Init PROVE TypeOK /\ WithinBound
    OBVIOUS
  <2>1. write_pos \in 0..Modulus-1 /\ read_pos \in [Consumers -> 0..Modulus-1]
    BY DEF Init
  <2> QED BY <2>1 DEF Init, TypeOK, WithinBound, Fill
<1>2. TypeOK /\ WithinBound /\ [Next]_vars => TypeOK' /\ WithinBound'
  <2> SUFFICES ASSUME TypeOK, WithinBound, [Next]_vars PROVE TypeOK' /\ WithinBound'
    OBVIOUS
  <2> USE DEF TypeOK, WithinBound, writer, consumer
  <2>1. ASSUME NEW len \in Lens, BeginWrite(len) PROVE TypeOK' /\ WithinBound'
    BY <2>1 DEF BeginWrite
  <2>2. CASE StoreCell
    <3>1. PICK k \in Copyable(write_pos, wtodo) :
            /\ data' = [data EXCEPT ![Cell(write_pos, k)] = written + k]
            /\ wtodo' = wtodo \ {k}
      BY <2>2 DEF StoreCell
    <3>2. k \in wtodo
      BY DEF Copyable
    <3>3. k \in Int /\ written + k \in Int
      BY <3>2
    <3>4. data' \in [Cells -> Int]
      BY <3>1, <3>3
    <3>5. wtodo' \in SUBSET (0..wlen-1)
      BY <3>1
    <3> QED BY <2>2, <3>4, <3>5 DEF StoreCell
  <2>3. CASE Publish
    <3>1. write_pos' \in 0..Modulus-1
      BY <2>3, Ranges DEF Publish
    <3> QED BY <2>3, <3>1 DEF Publish
  <2>4. CASE Disconnect
    BY <2>4 DEF Disconnect
  <2>5. ASSUME NEW c \in Consumers, Subscribe(c) PROVE TypeOK' /\ WithinBound'
    BY <2>5 DEF Subscribe
  <2>6. ASSUME NEW c \in Consumers, Cancel(c) PROVE TypeOK' /\ WithinBound'
    BY <2>6 DEF Cancel
  <2>7. ASSUME NEW c \in Consumers, Join(c) PROVE TypeOK' /\ WithinBound'
    BY <2>7 DEF Join
  <2>8. ASSUME NEW c \in Consumers, CheckCancel(c) PROVE TypeOK' /\ WithinBound'
    BY <2>8 DEF CheckCancel
  <2>9. ASSUME NEW c \in Consumers, Starve(c) PROVE TypeOK' /\ WithinBound'
    BY <2>9 DEF Starve
  <2>10. ASSUME NEW c \in Consumers, Claim(c) PROVE TypeOK' /\ WithinBound'
    <3>1. Avail(c) \in Int
      BY Ranges DEF Avail
    <3>2. pos' \in [Consumers -> Int]
      BY <2>10, <3>1 DEF Claim
    <3> QED BY <2>10, <3>2 DEF Claim
  <2>11. ASSUME NEW c \in Consumers, LapSkip(c) PROVE TypeOK' /\ WithinBound'
    <3>1. (write_pos - SegmentSize) % Modulus \in 0..Modulus-1
      BY SMT
    <3>2. read_pos' \in [Consumers -> 0..Modulus-1] /\ pos' \in [Consumers -> Int]
      BY <2>11, <3>1 DEF LapSkip
    <3> QED BY <2>11, <3>2 DEF LapSkip
  <2>12. ASSUME NEW c \in Consumers, Nap(c) PROVE TypeOK' /\ WithinBound'
    BY <2>12 DEF Nap
  <2>13. ASSUME NEW c \in Consumers, CopyCell(c) PROVE TypeOK' /\ WithinBound'
    <3>1. PICK k \in Copyable(read_pos[c], todo[c]) :
            /\ buf' = [buf EXCEPT ![c][k] = data[Cell(read_pos[c], k)]]
            /\ todo' = [todo EXCEPT ![c] = @ \ {k}]
      BY <2>13 DEF CopyCell
    <3>2. k \in Offsets /\ k \in Int
      BY DEF Copyable, Offsets
    <3>3. data[Cell(read_pos[c], k)] \in Int
      BY <3>2, Ranges
    <3>4. buf' \in [Consumers -> [Offsets -> Int]]
      BY <3>1, <3>2, <3>3
    <3>5. todo' \in [Consumers -> SUBSET Offsets]
      BY <3>1
    <3> QED BY <2>13, <3>4, <3>5 DEF CopyCell
  <2>14. ASSUME NEW c \in Consumers, Deliver(c) PROVE TypeOK' /\ WithinBound'
    BY <2>14 DEF Deliver
  <2>15. ASSUME NEW c \in Consumers, Return(c) PROVE TypeOK' /\ WithinBound'
    <3>1. (read_pos[c] + SegmentSize) % Modulus \in 0..Modulus-1
      <4> DEFINE x == read_pos[c] + SegmentSize
      <4>1. x \in Int
        OBVIOUS
      <4> HIDE DEF x
      <4>2. x % Modulus \in 0..Modulus-1
        BY <4>1, SMT
      <4> QED BY <4>2 DEF x
    <3>2. read_pos' \in [Consumers -> 0..Modulus-1] /\ next' \in [Consumers -> Int]
      BY <2>15, <3>1 DEF Return
    <3>3. buf' \in [Consumers -> [Offsets -> Int]]
      BY <2>15 DEF Return, Fill
    <3> QED BY <2>15, <3>2, <3>3 DEF Return
  <2>16. CASE UNCHANGED vars
    BY <2>16 DEF vars
  <2> QED
    BY <2>1, <2>2, <2>3, <2>4, <2>5, <2>6, <2>7, <2>8, <2>9, <2>10, <2>11, <2>12, <2>13, <2>14, <2>15, <2>16 DEF Next, Writer, Thread, Owner
<1> QED
  BY <1>1, <1>2, PTL DEF Spec

-----------------------------------------------------------------------------
(* Positions.  write_pos and read_pos are the history variables modulo     *)
(* 2^32; what a consumer computes from them is a distance that is at most  *)
(* the real one, and smaller only if the consumer was not run for 2^32     *)
(* bytes.  The invariant relates the three and has, as its last conjunct,  *)
(* the property it is needed for.                                          *)

Waiting(c) == pc[c] \in {"top", "load", "starved"}

PositionOf(c) ==
    /\ next[c] \in 0..written
    /\ Waiting(c) => read_pos[c] = next[c] % Modulus
    /\ Copying(c) => /\ read_pos[c] = pos[c] % Modulus
                     /\ pos[c] + SegmentSize <= written
                     /\ \/ pos[c] = next[c]
                        \/ pos[c] > next[c] /\ written - next[c] > RingSize

\* write_pos and every read_pos are the stream's indices modulo 2^32.
Positions ==
    /\ write_pos = written % Modulus
    /\ \A c \in Consumers : PositionOf(c)

\* wp - rp, read modulo 2^32 by a consumer that is waiting.
LEMMA AvailDistance ==
    ASSUME TypeOK, Positions, NEW c \in Consumers, Waiting(c)
    PROVE  /\ Avail(c) \in 0..Modulus-1
           /\ Avail(c) <= written - next[c]
           /\ Avail(c) = written - next[c] \/ written - next[c] >= Modulus
           /\ (written - Avail(c)) % Modulus = read_pos[c]
<1> USE IqRingAssumption
<1> DEFINE d == written - next[c]
<1>1. /\ Modulus \in Nat /\ Modulus > 0 /\ d \in Nat
      /\ written \in Int /\ next[c] \in Int
  BY DEF TypeOK, Positions, PositionOf
<1>2. Avail(c) = d % Modulus
  BY <1>1, ModMinus DEF Avail, Positions, PositionOf
<1>3. read_pos[c] = next[c] % Modulus
  BY DEF Positions, PositionOf
<1>4. (written - (d % Modulus)) % Modulus = next[c] % Modulus
  BY <1>1, ModBack
<1> HIDE DEF d
<1>5. /\ d % Modulus \in 0..Modulus-1
      /\ d % Modulus <= d
      /\ d % Modulus = d \/ d >= Modulus
  BY <1>1, ModDistance
<1> QED
  BY <1>2, <1>3, <1>4, <1>5 DEF d

\* A step that leaves the positions of a consumer alone, or lets it leave.
LEMMA PositionKept ==
    ASSUME TypeOK, NEW c \in Consumers, PositionOf(c),
           written' \in Int, written' >= written, next'[c] = next[c],
           read_pos'[c] = read_pos[c], pos'[c] = pos[c],
           \/ pc'[c] = pc[c]
           \/ Waiting(c)' /\ Waiting(c)
           \/ Copying(c)' /\ Copying(c)
           \/ pc'[c] \in {"free", "exited"}
    PROVE  PositionOf(c)'
  BY IqRingAssumption DEF TypeOK, PositionOf, Waiting, Copying

\* Before any subscription every consumer is level with the empty stream.
LEMMA PositionsInit == Init => Positions
<1> SUFFICES ASSUME Init PROVE Positions
  OBVIOUS
<1>1. 0 % Modulus = 0
  <2>1. 0 \in Nat /\ Modulus \in Nat /\ Modulus > 0
    BY IqRingAssumption
  <2> QED BY <2>1, ModDistance
<1> QED
  BY <1>1, IqRingAssumption DEF Init, Positions, PositionOf, Waiting, Copying

\* Every step keeps the reduced positions those of the stream indices: the
\* writer only moves ahead, and a consumer moves as far as it has copied.
LEMMA PositionsStep == TypeOK /\ Positions /\ [Next]_vars => Positions'
<1> SUFFICES ASSUME TypeOK, Positions, [Next]_vars PROVE Positions'
  OBVIOUS
<1> USE IqRingAssumption
<1>a. Modulus \in Nat /\ Modulus > 0 /\ written \in Int
  BY DEF TypeOK
<1>1. CASE writer' = writer /\ consumer' = consumer
  BY <1>1 DEF writer, consumer, Positions, PositionOf, Waiting, Copying
<1>2. CASE Writer
  <2>1. ASSUME NEW len \in Lens, BeginWrite(len) PROVE Positions'
    BY <2>1 DEF BeginWrite, consumer, Positions, PositionOf, Waiting, Copying
  <2>2. CASE StoreCell
    BY <2>2 DEF StoreCell, consumer, Positions, PositionOf, Waiting, Copying
  <2>3. CASE Publish
    <3>1. written' = written + wlen /\ wlen \in Int /\ written' >= written
      BY <2>3 DEF Publish, TypeOK
    <3>2. write_pos' = written' % Modulus
      BY <2>3, <3>1, <1>a, ModPlus DEF Publish, Positions
    <3>3. \A c \in Consumers : PositionOf(c)'
      BY <2>3, <3>1, <1>a, PositionKept DEF Publish, consumer, Positions
    <3> QED BY <3>2, <3>3 DEF Positions
  <2> QED BY <1>2, <2>1, <2>2, <2>3 DEF Writer
<1>3. ASSUME NEW c \in Consumers, Thread(c) \/ Owner(c) PROVE Positions'
  <2> SUFFICES ASSUME writer' = writer,
                      \A e \in Consumers \ {c} :
                          /\ next'[e] = next[e] /\ read_pos'[e] = read_pos[e]
                          /\ pos'[e] = pos[e] /\ pc'[e] = pc[e]
               PROVE  PositionOf(c)'
    <3>1. writer' = writer
      BY <1>3 DEF Thread, Owner, CheckCancel, Starve, Claim, LapSkip, Nap,
                  CopyCell, Deliver, Return, Subscribe, Cancel, Join, writer
    <3>2. \A e \in Consumers \ {c} :
              /\ next'[e] = next[e] /\ read_pos'[e] = read_pos[e]
              /\ pos'[e] = pos[e] /\ pc'[e] = pc[e]
      BY <1>3 DEF TypeOK, Thread, Owner, CheckCancel, Starve, Claim, LapSkip, Nap,
                  CopyCell, Deliver, Return, Subscribe, Cancel, Join
    <3>3. \A e \in Consumers \ {c} : PositionOf(e)'
      BY <3>1, <3>2, <1>a, PositionKept DEF writer, Positions
    <3> QED BY <3>1, <3>2, <3>3 DEF Positions, writer
  <2>0. written' = written /\ write_pos' = write_pos /\ PositionOf(c)
    BY DEF writer, Positions
  <2>1. CASE CheckCancel(c)
    BY <2>0, <2>1, <1>a, PositionKept DEF CheckCancel, TypeOK, Waiting
  <2>2. CASE Starve(c)
    BY <2>0, <2>2, <1>a, PositionKept DEF Starve, TypeOK, Waiting
  <2>3. CASE Nap(c)
    BY <2>0, <2>3, <1>a, PositionKept DEF Nap, TypeOK, Waiting
  <2>4. CASE CopyCell(c)
    BY <2>0, <2>4, <1>a, PositionKept DEF CopyCell
  <2>5. CASE Deliver(c)
    BY <2>0, <2>5, <1>a, PositionKept DEF Deliver, TypeOK, Copying
  <2>6. CASE Cancel(c)
    BY <2>0, <2>6, <1>a, PositionKept DEF Cancel
  <2>7. CASE Join(c)
    BY <2>0, <2>7, <1>a, PositionKept DEF Join, TypeOK
  <2>8. CASE Subscribe(c)
    <3>1. /\ next'[c] = written /\ read_pos'[c] = written % Modulus
          /\ pc'[c] = "top"
      BY <2>8 DEF Subscribe, TypeOK, Positions
    <3> QED BY <2>0, <3>1, <1>a DEF TypeOK, PositionOf, Waiting, Copying
  <2>9. CASE Claim(c)
    <3>1. Waiting(c) /\ pc'[c] = "copy" /\ next'[c] = next[c]
          /\ read_pos'[c] = read_pos[c] /\ pos'[c] = written - Avail(c)
      BY <2>9 DEF Claim, TypeOK, Waiting
    <3>2. /\ Avail(c) \in SegmentSize..RingSize
          /\ next[c] \in 0..written
      BY <2>9, <2>0 DEF Claim, PositionOf
    <3>3. /\ Avail(c) <= written - next[c]
          /\ Avail(c) = written - next[c] \/ written - next[c] >= Modulus
          /\ (written - Avail(c)) % Modulus = read_pos[c]
      BY <3>1, AvailDistance
    <3> HIDE DEF Avail
    <3> QED BY <2>0, <3>1, <3>2, <3>3, <1>a DEF PositionOf, Waiting, Copying
  <2>10. CASE LapSkip(c)
    <3>1. /\ Waiting(c) /\ pc'[c] = "copy" /\ next'[c] = next[c]
          /\ read_pos'[c] = (write_pos - SegmentSize) % Modulus
          /\ pos'[c] = written - SegmentSize
          /\ Avail(c) > RingSize
      BY <2>10 DEF LapSkip, TypeOK, Waiting
    <3>2. next[c] \in 0..written
      BY <2>0 DEF PositionOf
    <3>3. Avail(c) \in Int /\ Avail(c) <= written - next[c]
      BY <3>1, AvailDistance
    <3>4. (write_pos - SegmentSize) % Modulus = (written - SegmentSize) % Modulus
      <4>1. -SegmentSize \in Int /\ SegmentSize \in Int
        OBVIOUS
      <4>2. ((written % Modulus) + (-SegmentSize)) % Modulus
              = (written + (-SegmentSize)) % Modulus
        BY <1>a, <4>1, ModPlus
      <4> DEFINE w == written % Modulus
      <4>3. w \in Int
        BY <1>a, SMT
      <4>4. write_pos = w
        BY DEF Positions
      <4> HIDE DEF w
      <4>5. w + (-SegmentSize) = w - SegmentSize
            /\ written + (-SegmentSize) = written - SegmentSize
        BY <4>1, <4>3, <1>a
      <4> QED BY <4>2, <4>4, <4>5 DEF w
    <3> HIDE DEF Avail
    <3> QED BY <2>0, <3>1, <3>2, <3>3, <3>4, <1>a DEF PositionOf, Waiting, Copying
  <2>11. CASE Return(c)
    <3>1. /\ pc'[c] = "top" /\ Copying(c)
          /\ read_pos'[c] = (read_pos[c] + SegmentSize) % Modulus
          /\ next'[c] = pos[c] + SegmentSize
      BY <2>11 DEF Return, TypeOK, Copying
    <3>2. /\ read_pos[c] = pos[c] % Modulus /\ pos[c] \in Int
          /\ pos[c] + SegmentSize \in 0..written
      BY <2>0, <3>1, <1>a DEF PositionOf, TypeOK
    <3>3. (read_pos[c] + SegmentSize) % Modulus = (pos[c] + SegmentSize) % Modulus
      <4> DEFINE p == pos[c]
      <4>1. p \in Int /\ SegmentSize \in Int
        BY <3>2
      <4> HIDE DEF p
      <4>2. ((p % Modulus) + SegmentSize) % Modulus = (p + SegmentSize) % Modulus
        BY <4>1, <1>a, ModPlus
      <4> QED BY <3>2, <4>2 DEF p
    <3> QED BY <2>0, <3>1, <3>2, <3>3 DEF PositionOf, Waiting, Copying
  <2> QED
    BY <1>3, <2>1, <2>2, <2>3, <2>4, <2>5, <2>6, <2>7, <2>8, <2>9, <2>10, <2>11
    DEF Thread, Owner
<1> QED
  BY <1>1, <1>2, <1>3 DEF Next, Disconnect, vars, writer, consumer

\* Positions is an invariant of the ring.
LEMMA PositionsHold == Spec => []Positions
<1>1. Init => Positions
  BY PositionsInit
<1>2. TypeOK /\ Positions /\ [Next]_vars => Positions'
  BY PositionsStep
<1> QED
  BY <1>1, <1>2, TypeCorrect, PTL DEF Spec

\* Consumers only copy published samples.
THEOREM OnlyPublishedRead == Spec => []NeverReadsUnpublished
<1>1. Positions => NeverReadsUnpublished
  BY DEF Positions, PositionOf, NeverReadsUnpublished
<1> QED
  BY <1>1, PositionsHold, PTL

\* Segments are in order and without overlap, and a consumer loses samples only
\* when the writer was more than a ring ahead of it.
THEOREM LossOnlyByLapping == Spec => []LossOnlyWhenLapped
<1>1. Positions => LossOnlyWhenLapped
  BY DEF Positions, PositionOf, LossOnlyWhenLapped
<1> QED
  BY <1>1, PositionsHold, PTL

-----------------------------------------------------------------------------
(* Refinement: the ring implements the stream of IqStream.                 *)

\* The mapped variables of a consumer.
StateOf(c) ==
    CASE pc[c] \in {"free", "exited"} -> "off"
      [] pc[c] = "callback" -> "in"
      [] OTHER -> "on"

PieceOf(c) == IF pc[c] = "callback" THEN pos[c] ELSE 0

mapped == <<written, [c \in Consumers |-> StateOf(c)], next,
            [c \in Consumers |-> PieceOf(c)]>>

\* A step after which nothing a subscriber sees has changed.
LEMMA Stutter ==
    ASSUME TypeOK, written' = written, next' = next,
           \A c \in Consumers : StateOf(c)' = StateOf(c) /\ PieceOf(c)' = PieceOf(c)
    PROVE  UNCHANGED mapped
<1>1. [c \in Consumers |-> StateOf(c)'] = [c \in Consumers |-> StateOf(c)]
  OBVIOUS
<1>2. [c \in Consumers |-> PieceOf(c)'] = [c \in Consumers |-> PieceOf(c)]
  OBVIOUS
<1> QED
  BY <1>1, <1>2 DEF mapped

\* Every step of the ring is a step of the lossy stream or none of its own.
LEMMA StreamStep ==
    TypeOK /\ Positions /\ [Next]_vars => [Stream!Next]_(Stream!vars)
<1> SUFFICES ASSUME TypeOK, Positions, [Next]_vars
             PROVE  Stream!Next \/ UNCHANGED mapped
  BY DEF Stream!vars, mapped, StateOf, PieceOf
<1> USE IqRingAssumption
<1> USE DEF Stream!Next
<1>1. CASE pc' = pc /\ pos' = pos /\ next' = next /\ written' = written
  BY <1>1, Stutter DEF StateOf, PieceOf
<1>2. CASE Publish
  <2>1. Stream!Acquire
    BY <1>2 DEF Publish, Stream!Acquire, TypeOK, consumer
  <2> QED BY <2>1
<1>3. ASSUME NEW c \in Consumers, Thread(c) \/ Owner(c)
      PROVE  Stream!Next \/ UNCHANGED mapped
  <2>0. written' = written /\ pc \in [Consumers -> ConsumerStates]
    BY <1>3 DEF Thread, Owner, CheckCancel, Starve, Claim, LapSkip, Nap,
                CopyCell, Deliver, Return, Subscribe, Cancel, Join, writer, TypeOK,
                ConsumerStates
  <2>1. CASE Subscribe(c)
    <3>1. Stream!Enter(c)
      BY <2>0, <2>1 DEF Subscribe, Stream!Enter, TypeOK
    <3> QED BY <3>1
  <2>2. CASE Deliver(c)
    <3>1. pos[c] \in next[c]..written-SegmentSize
          /\ (pos[c] = next[c] \/ written - next[c] > RingSize)
      BY <2>2 DEF Deliver, Positions, PositionOf, Copying, TypeOK
    <3>2. Stream!HandOver(c)
      <4>1. pc[c] = "copy" /\ pc' = [pc EXCEPT ![c] = "callback"]
            /\ pos' = pos /\ next' = next
        BY <2>2 DEF Deliver
      <4>2. [e \in Consumers |-> StateOf(e)']
              = [[e \in Consumers |-> StateOf(e)] EXCEPT ![c] = "in"]
        BY <4>1, <2>0 DEF StateOf
      <4>3. [e \in Consumers |-> PieceOf(e)']
              = [[e \in Consumers |-> PieceOf(e)] EXCEPT ![c] = pos[c]]
        BY <4>1, <2>0 DEF PieceOf
      <4>4. StateOf(c) = "on"
        BY <4>1 DEF StateOf
      <4> QED
        BY <2>0, <3>1, <4>1, <4>2, <4>3, <4>4, Zenon DEF Stream!HandOver, StateOf, PieceOf
    <3> QED BY <3>2
  <2>3. CASE Return(c)
    <3>1. Stream!TakeBack(c)
      BY <2>0, <2>3 DEF Return, Stream!TakeBack, TypeOK
    <3> QED BY <3>1
  <2>4. CASE CheckCancel(c) \/ Nap(c)
    <3>1. CASE pc'[c] = "exited"
      <4>1. Stream!Leave(c)
        BY <2>0, <2>4, <3>1 DEF CheckCancel, Nap, Stream!Leave, TypeOK
      <4> QED BY <4>1
    <3>2. CASE pc'[c] # "exited"
      BY <2>0, <2>4, <3>2, Stutter
      DEF CheckCancel, Nap, TypeOK, StateOf, PieceOf
    <3> QED BY <3>1, <3>2
  <2>5. CASE Starve(c) \/ Claim(c) \/ LapSkip(c) \/ CopyCell(c) \/ Cancel(c) \/ Join(c)
    BY <2>0, <2>5, Stutter
    DEF Starve, Claim, LapSkip, CopyCell, Cancel, Join, TypeOK, StateOf, PieceOf
  <2> QED
    BY <1>3, <2>1, <2>2, <2>3, <2>4, <2>5 DEF Thread, Owner
<1> QED
  BY <1>1, <1>2, <1>3
  DEF Next, Writer, BeginWrite, StoreCell, Disconnect, vars, writer, consumer

\* Every behaviour of the ring is one of the lossy stream.
THEOREM RingImplementsStream == Spec => ImplementsStream
<1>1. Init => Stream!Init
  BY DEF Init, Stream!Init
<1>2. TypeOK /\ Positions /\ [Next]_vars => [Stream!Next]_(Stream!vars)
  BY StreamStep
<1> QED
  BY <1>1, <1>2, TypeCorrect, PositionsHold, PTL
  DEF Spec, ImplementsStream, Stream!Spec

-----------------------------------------------------------------------------
(* Contents.  A cell holds the newest sample with its index modulo the     *)
(* size of the ring, except the cells the write in progress has still to   *)
(* store; a consumer the writer does not overrun copies only such cells.   *)

Stored ==
    \A p \in Nat :
        p < Reserved /\ p >= Reserved - RingSize /\ (p - written) \notin wtodo
            => data[p % RingSize] = p

CopiedBy(c) ==
    /\ pc[c] = "callback" => todo[c] = {}
    /\ Copying(c) /\ Reserved <= pos[c] + RingSize
         => \A k \in Offsets \ todo[c] : buf[c][k] = pos[c] + k

Contents == Stored /\ \A c \in Consumers : CopiedBy(c)

\* The cell the code computes from a reduced position.
LEMMA CellOf ==
    ASSUME NEW p \in Int, NEW k \in Int
    PROVE  Cell(p % Modulus, k) = (p + k) % RingSize
<1>1. /\ RingSize \in Nat /\ RingSize > 0 /\ Modulus \in Nat /\ Modulus > 0
      /\ Modulus % RingSize = 0
  BY IqRingAssumption
<1>2. (p % Modulus) % RingSize = p % RingSize
  BY <1>1, ModNested
<1>3. ((p % RingSize) + k) % RingSize = (p + k) % RingSize
  BY <1>1, ModPlus
<1> QED
  BY <1>2, <1>3 DEF Cell

\* Nothing is published and nothing copied at first.
LEMMA ContentsInit == Init => Contents
  BY DEF Init, Contents, Stored, CopiedBy, Reserved, Copying

\* A step that neither stores nor moves the writer back keeps what was copied.
LEMMA CopiedKept ==
    ASSUME TypeOK, TypeOK', NEW c \in Consumers, CopiedBy(c),
           Reserved' >= Reserved,
           buf'[c] = buf[c], todo'[c] = todo[c], pos'[c] = pos[c],
           \/ pc'[c] = pc[c]
           \/ pc'[c] = "callback" /\ pc[c] = "copy" /\ todo[c] = {}
           \/ ~Copying(c)'
    PROVE  CopiedBy(c)'
<1>1. /\ Reserved \in Int /\ Reserved' \in Int /\ pos[c] \in Int /\ RingSize \in Int
  BY IqRingAssumption DEF TypeOK, Reserved
<1>2. Copying(c)' => Copying(c)
  BY DEF Copying
<1>3. pc'[c] = "callback" => todo'[c] = {}
  BY DEF CopiedBy, Copying
<1>4. Copying(c)' /\ Reserved' <= pos'[c] + RingSize
        => \A k \in Offsets \ todo'[c] : buf'[c][k] = pos'[c] + k
  BY <1>1, <1>2 DEF CopiedBy
<1> QED
  BY <1>3, <1>4 DEF CopiedBy

\* Every step keeps the ring and the copies taken from it as Contents says.
LEMMA ContentsStep ==
    TypeOK /\ TypeOK' /\ Positions /\ Contents /\ [Next]_vars => Contents'
<1> SUFFICES ASSUME TypeOK, TypeOK', Positions, Contents, [Next]_vars
             PROVE  Contents'
  OBVIOUS
<1> USE IqRingAssumption
<1>a. /\ written \in Int /\ wlen \in Int /\ Reserved \in Int
      /\ written' \in Int /\ wlen' \in Int /\ Reserved' \in Int
      /\ wtodo \subseteq 0..wlen-1
  BY DEF TypeOK, Reserved
<1>b. RingSize \in Nat /\ RingSize > 0
  OBVIOUS
<1>1. CASE writer' = writer /\ consumer' = consumer
  BY <1>1 DEF writer, consumer, Contents, Stored, CopiedBy, Copying, Reserved
<1>2. ASSUME NEW len \in Lens, BeginWrite(len) PROVE Contents'
  <2>1. /\ Reserved' = written + len /\ Reserved = written
        /\ wtodo' = 0..len-1 /\ data' = data /\ written' = written
        /\ len \in Int /\ len > 0 /\ wtodo = {}
    BY <1>2 DEF BeginWrite, Reserved, TypeOK
  <2>2. Stored'
    <3> SUFFICES ASSUME NEW p \in Nat, p < Reserved', p >= Reserved' - RingSize,
                        (p - written') \notin wtodo'
                 PROVE  data'[p % RingSize] = p
      BY DEF Stored
    <3>1. p < Reserved /\ p >= Reserved - RingSize
      BY <2>1, <1>a, <1>b
    <3> QED BY <2>1, <3>1 DEF Contents, Stored
  <2>3. \A c \in Consumers : CopiedBy(c)'
    <3>1. Reserved' >= Reserved
      BY <2>1, <1>a
    <3> QED BY <1>2, <3>1, CopiedKept DEF BeginWrite, consumer, Contents
  <2> QED BY <2>2, <2>3 DEF Contents
<1>3. CASE StoreCell
  <2>1. PICK k \in wtodo :
          /\ data' = [data EXCEPT ![Cell(write_pos, k)] = written + k]
          /\ wtodo' = wtodo \ {k}
    BY <1>3 DEF StoreCell, Copyable
  <2>2. /\ UNCHANGED <<write_pos, wlen, written, health, consumer>>
        /\ Reserved' = Reserved
    BY <1>3 DEF StoreCell, Reserved
  <2>3. k \in 0..wlen-1 /\ k \in Int /\ written + k \in Int
    BY <1>a
  <2>4. Cell(write_pos, k) = (written + k) % RingSize
    BY <2>3, <1>a, CellOf DEF Positions
  <2>5. Stored'
    <3> SUFFICES ASSUME NEW p \in Nat, p < Reserved, p >= Reserved - RingSize,
                        (p - written) \notin wtodo \ {k}
                 PROVE  data'[p % RingSize] = p
      BY <2>1, <2>2 DEF Stored
    <3>1. CASE p % RingSize = (written + k) % RingSize
      <4> DEFINE q == written + k
      <4>0. q \in Int /\ p % RingSize = q % RingSize
        BY <3>1, <2>3
      <4>1. p - q < RingSize /\ q - p < RingSize
        <5>1. q \in written..Reserved-1 /\ Reserved <= written + RingSize
          BY <2>3, <1>a, <1>b DEF Reserved, TypeOK
        <5> QED BY <5>1, <1>a, <1>b
      <4> HIDE DEF q
      <4>2. p = q
        BY <4>0, <4>1, <1>b, ModInjective
      <4>3. (written + k) % RingSize \in Cells
        <5>1. Cell(write_pos, k) \in Cells
          BY <2>3, Ranges DEF TypeOK
        <5> QED BY <5>1, <2>4
      <4> QED BY <2>1, <2>4, <3>1, <4>2, <4>3 DEF q, TypeOK
    <3>2. CASE p % RingSize # (written + k) % RingSize
      <4>1. p # written + k
        BY <3>2
      <4>2. p - written # k
        BY <4>1, <2>3, <1>a
      <4>3. data[p % RingSize] = p
        BY <4>2 DEF Contents, Stored
      <4>4. p % RingSize \in Cells
        BY <1>b, SMT DEF Cells
      <4> QED BY <2>1, <2>4, <3>2, <4>3, <4>4 DEF TypeOK
    <3> QED BY <3>1, <3>2
  <2>6. \A c \in Consumers : CopiedBy(c)'
    BY <2>2, <1>a, CopiedKept DEF consumer, Contents
  <2> QED BY <2>5, <2>6 DEF Contents
<1>4. CASE Publish
  <2>1. /\ Reserved' = Reserved /\ written' = written + wlen
        /\ wtodo = {} /\ wtodo' = {} /\ data' = data /\ consumer' = consumer
    BY <1>4, <1>a DEF Publish, Reserved
  <2>2. Stored'
    BY <2>1 DEF Contents, Stored
  <2>3. \A c \in Consumers : CopiedBy(c)'
    BY <2>1, <1>a, CopiedKept DEF consumer, Contents
  <2> QED BY <2>2, <2>3 DEF Contents
<1>5. ASSUME NEW c \in Consumers, Thread(c) \/ Owner(c) PROVE Contents'
  <2> SUFFICES ASSUME writer' = writer,
                      \A e \in Consumers \ {c} :
                          /\ buf'[e] = buf[e] /\ todo'[e] = todo[e]
                          /\ pos'[e] = pos[e] /\ pc'[e] = pc[e]
               PROVE  CopiedBy(c)'
    <3>1. writer' = writer
      BY <1>5 DEF Thread, Owner, CheckCancel, Starve, Claim, LapSkip, Nap,
                  CopyCell, Deliver, Return, Subscribe, Cancel, Join, writer
    <3>2. \A e \in Consumers \ {c} :
              /\ buf'[e] = buf[e] /\ todo'[e] = todo[e]
              /\ pos'[e] = pos[e] /\ pc'[e] = pc[e]
      BY <1>5 DEF TypeOK, Thread, Owner, CheckCancel, Starve, Claim, LapSkip, Nap,
                  CopyCell, Deliver, Return, Subscribe, Cancel, Join
    <3>3. Stored' /\ Reserved' = Reserved
      BY <3>1 DEF writer, Contents, Stored, Reserved
    <3>4. \A e \in Consumers \ {c} : CopiedBy(e)'
      BY <3>2, <3>3, <1>a, CopiedKept DEF Contents
    <3> QED BY <3>1, <3>2, <3>3, <3>4 DEF Contents
  <2>0. Reserved' = Reserved /\ CopiedBy(c)
    BY DEF writer, Reserved, Contents
  <2>1. CASE CheckCancel(c) \/ Starve(c) \/ Nap(c) \/ Subscribe(c) \/ Cancel(c)
             \/ Join(c) \/ Deliver(c)
    <3>1. buf'[c] = buf[c] /\ todo'[c] = todo[c] /\ pos'[c] = pos[c]
      BY <2>1 DEF CheckCancel, Starve, Nap, Subscribe, Cancel, Join, Deliver
    <3>2. \/ pc'[c] = pc[c]
          \/ pc'[c] = "callback" /\ pc[c] = "copy" /\ todo[c] = {}
          \/ ~Copying(c)'
      BY <2>1
      DEF CheckCancel, Starve, Nap, Subscribe, Cancel, Join, Deliver, TypeOK, Copying
    <3> QED BY <2>0, <3>1, <3>2, <1>a, CopiedKept
  <2>2. CASE Claim(c) \/ LapSkip(c)
    <3>1. pc'[c] = "copy" /\ todo'[c] = Offsets
      BY <2>2 DEF Claim, LapSkip, TypeOK
    <3> QED BY <3>1 DEF CopiedBy
  <2>3. CASE Return(c)
    <3>1. pc'[c] = "top"
      BY <2>3 DEF Return, TypeOK
    <3> QED BY <3>1 DEF CopiedBy, Copying
  <2>4. CASE CopyCell(c)
    <3>1. PICK k \in todo[c] :
            /\ buf' = [buf EXCEPT ![c][k] = data[Cell(read_pos[c], k)]]
            /\ todo' = [todo EXCEPT ![c] = @ \ {k}]
      BY <2>4 DEF CopyCell, Copyable
    <3>2. pc[c] = "copy" /\ pc' = pc /\ pos' = pos
      BY <2>4 DEF CopyCell
    <3>3. k \in Offsets /\ k \in Nat /\ k < SegmentSize /\ pos[c] \in Int
      BY DEF TypeOK, Offsets
    <3>4. ASSUME Reserved <= pos[c] + RingSize
          PROVE  data[Cell(read_pos[c], k)] = pos[c] + k
      <4> DEFINE p == pos[c] + k
      <4>1. /\ read_pos[c] = pos[c] % Modulus /\ pos[c] + SegmentSize <= written
            /\ pos[c] >= 0
        <5>1. PositionOf(c) /\ Copying(c) /\ next[c] \in Int
          BY <3>2, <1>a DEF Positions, Copying, TypeOK
        <5> QED BY <5>1, <3>3, <1>a DEF PositionOf
      <4>2. Cell(read_pos[c], k) = p % RingSize
        <5>1. Cell(pos[c] % Modulus, k) = (pos[c] + k) % RingSize
          <6>1. pos[c] \in Int /\ k \in Int
            BY <3>3
          <6> QED BY <6>1, CellOf
        <5> QED BY <4>1, <5>1
      <4>3. p \in Nat /\ p < written
        BY <3>3, <4>1, <1>a
      <4>4. p < Reserved /\ p >= Reserved - RingSize
        BY <3>3, <3>4, <4>3, <1>a, <1>b DEF Reserved, TypeOK
      <4>5. (p - written) \notin wtodo
        BY <4>3, <1>a
      <4> HIDE DEF p
      <4>6. data[p % RingSize] = p
        BY <4>3, <4>4, <4>5 DEF Contents, Stored
      <4> QED BY <4>2, <4>6 DEF p
    <3>5. buf'[c] = [buf[c] EXCEPT ![k] = data[Cell(read_pos[c], k)]]
          /\ todo'[c] = todo[c] \ {k}
      BY <3>1 DEF TypeOK
    <3>6. buf[c] \in [Offsets -> Int]
      BY DEF TypeOK
    <3> QED BY <2>0, <3>2, <3>3, <3>4, <3>5, <3>6 DEF CopiedBy, Copying
  <2> QED
    BY <1>5, <2>1, <2>2, <2>3, <2>4 DEF Thread, Owner
<1> QED
  BY <1>1, <1>2, <1>3, <1>4, <1>5 DEF Next, Writer, Disconnect, vars, writer, consumer

\* Contents is an invariant of the ring.
LEMMA ContentsHold == Spec => []Contents
<1>1. Init => Contents
  BY ContentsInit
<1>2. TypeOK /\ TypeOK' /\ Positions /\ Contents /\ [Next]_vars => Contents'
  BY ContentsStep
<1> QED
  BY <1>1, <1>2, TypeCorrect, PositionsHold, PTL DEF Spec

\* The ring holds the last RingSize samples, each in its own cell.
THEOREM RingContents == Spec => []RingHoldsLatest
<1>1. TypeOK /\ Contents => RingHoldsLatest
  <2> SUFFICES ASSUME TypeOK, Contents, NEW p \in 0..written-1,
                      p >= Reserved - RingSize
               PROVE  data[p % RingSize] = p
    BY DEF RingHoldsLatest
  <2>1. /\ p \in Nat /\ p < Reserved /\ (p - written) \notin wtodo
    BY IqRingAssumption DEF TypeOK, Reserved
  <2> QED BY <2>1 DEF Contents, Stored
<1> QED
  BY <1>1, TypeCorrect, ContentsHold, PTL

\* A callback that the writer has not overrun has its segment intact.
THEOREM SegmentsIntact == Spec => []IntactUnlessOverrun
<1>1. Contents => IntactUnlessOverrun
  BY DEF Contents, CopiedBy, Copying, IntactUnlessOverrun
<1> QED
  BY <1>1, ContentsHold, PTL
=============================================================================
