---------------------------- MODULE Pulse_proofs ----------------------------
(***************************************************************************)
(* What the operators of a pulsed model promise, for every stream, pulse,  *)
(* delay, padding, kernel and stride: fed a stream chunk by chunk, each of *)
(* them gives, late, what it makes of the whole stream.  A stream is a     *)
(* function from positions (as the wire counts them, from the first frame  *)
(* fed, so a stream that is late starts after 0) to frames; a chunk need   *)
(* only agree with it where there is a frame.                              *)
(***************************************************************************)
EXTENDS Pulse, TLAPS, SequenceTheorems, FiniteSetTheorems, WellFoundedInduction

(* The chunk `frames` carries a stream from the position `start` on. *)
Late(frames, length, stream, start) ==
  \A k \in 0 .. length - 1 : start + k \in DOMAIN stream => frames[k] = stream[start + k]

-----------------------------------------------------------------------------
(* Arithmetic.                                                             *)

(* The quotient and the remainder are unique. *)
LEMMA DivMod ==
  ASSUME NEW n \in Nat \ {0}, NEW q \in Int, NEW r \in 0 .. n - 1, NEW a \in Int, a = q * n + r
  PROVE  a \div n = q /\ a % n = r
  OBVIOUS

(* A row and a column are found again in the flat index made of them. *)
LEMMA FlatFacts ==
  ASSUME NEW n \in Nat \ {0}, NEW rows \in Nat, NEW row \in 0 .. rows - 1, NEW col \in 0 .. n - 1
  PROVE  /\ row * n + col \in 0 .. rows * n - 1
         /\ (row * n + col) \div n = row
         /\ (row * n + col) % n = col
<1>1. row * n \in Nat /\ rows * n \in Nat
  OBVIOUS
<1>2. (row + 1) * n <= rows * n /\ (row + 1) * n = row * n + n
  OBVIOUS
<1>3. row * n + col \in 0 .. rows * n - 1
  BY <1>1, <1>2
<1>4. row * n + col \in Int
  BY <1>1
<1> QED
  BY <1>3, <1>4, DivMod

(* Multiples closer than the factor. *)
LEMMA Multiples ==
  ASSUME NEW n \in Nat \ {0}, NEW a \in Int, NEW b \in Int, a * n < b * n + n
  PROVE  a <= b
  OBVIOUS

(* A frame of the output of a pool or a downsampling, of which there are *)
(* `DivCeil`, starts before the end of its input. *)
LEMMA BeforeTheEnd ==
  ASSUME NEW a \in Int, NEW b \in Nat \ {0}, NEW k \in 0 .. DivCeil(a, b) - 1
  PROVE  k * b < a
<1> DEFINE n == a + b - 1
           d == n \div b
           r == n % b
<1>1. d \in Int /\ r \in 0 .. b - 1 /\ n = d * b + r
  OBVIOUS
<1>2. k \in Nat /\ k + 1 <= d
  BY DEF DivCeil
<1> HIDE DEF d, r
<1>3. PICK more \in Nat : d = k + 1 + more
  <2>1. d - (k + 1) \in Nat /\ d = k + 1 + (d - (k + 1))
    BY <1>1, <1>2
  <2> QED
    BY <2>1
<1>4. d * b = k * b + b + more * b /\ more * b \in Nat /\ k * b \in Nat
  BY <1>2, <1>3
<1>5. PICK x, y, z : x = k * b /\ y = more * b /\ z = d * b
  OBVIOUS
<1>6. /\ a \in Int /\ b \in Nat \ {0} /\ x \in Nat /\ y \in Nat /\ r \in Nat
      /\ z = x + b + y /\ a + b - 1 = z + r
      /\ r < b
  BY <1>1, <1>4, <1>5
<1>7. z + r <= a + b - 1 /\ x + b <= z + r
  BY ONLY <1>6
<1>8. x < a
  BY ONLY <1>6, <1>7
<1> QED
  BY <1>5, <1>8

-----------------------------------------------------------------------------
(* Delay.                                                                  *)

(* In rows: a chunk carries a stream from a position on... *)
Carries(cells, length, stream, start) ==
  \A row \in 0 .. Rows - 1 : \A k \in 0 .. length - 1 :
    start + k \in DOMAIN stream => cells[row][k] = stream[start + k][row]

(* ... and a buffer the frames before one. *)
Holds(op, buffer, stream, seen) ==
  \A row \in 0 .. Rows - 1 : \A col \in 0 .. Buffered(op) - 1 :
    LET pos == seen - Buffered(op) + col
    IN  pos \in DOMAIN stream => buffer[Flat(row, col, Buffered(op))] = stream[pos][row]

(* A call of a Delay: out comes the stream, late by the whole buffer, and the *)
(* buffer, rotated and overwritten, holds the last frames again. *)
LEMMA DelayStep ==
  ASSUME NEW op, op.delay \in Nat, op.overlap \in Nat, NEW pulse \in Nat \ {0},
         NEW buffer, NEW input, NEW stream, NEW seen \in Int,
         Holds(op, buffer, stream, seen), Carries(input, pulse, stream, seen)
  PROVE  /\ Carries(DelayOutput(op, buffer, pulse, input), pulse + op.overlap, stream, seen - Buffered(op))
         /\ Holds(op, DelayBuffer(op, buffer, pulse, input), stream, seen + pulse)
<1> DEFINE n == Buffered(op)
<1>1. n \in Nat /\ n = op.delay + op.overlap /\ Rows \in Nat \ {0}
  BY PulseOpsAssumption DEF Buffered
<1>2. ASSUME NEW row \in 0 .. Rows - 1, NEW k \in 0 .. (pulse + op.overlap) - 1,
             (seen - n) + k \in DOMAIN stream
      PROVE  DelayOutput(op, buffer, pulse, input)[row][k] = stream[(seen - n) + k][row]
  <2> DEFINE from == IF op.delay < pulse THEN n ELSE pulse + op.overlap
  <2>1. from \in Nat /\ from <= n
    BY <1>1
  <2>2. DelayOutput(op, buffer, pulse, input)[row][k]
          = IF k < from THEN buffer[Flat(row, k, n)] ELSE input[row][k - from]
    BY DEF DelayOutput
  <2>3. CASE k < from
    <3>1. k \in 0 .. n - 1 /\ seen - n + k \in DOMAIN stream
      BY <1>1, <1>2, <2>1, <2>3
    <3>2. buffer[Flat(row, k, n)] = stream[seen - n + k][row]
      BY <3>1 DEF Holds
    <3> QED
      BY <2>2, <2>3, <3>2
  <2>4. CASE ~ (k < from)
    <3>1. op.delay < pulse /\ from = n
      BY <1>1, <2>4
    <3>2. k - from \in 0 .. pulse - 1 /\ seen + (k - from) = (seen - n) + k
      BY <1>1, <2>4, <3>1
    <3>3. input[row][k - from] = stream[(seen - n) + k][row]
      BY <1>2, <3>2 DEF Carries
    <3> QED
      BY <2>2, <2>4, <3>3
  <2> QED
    BY <2>3, <2>4
<1>3. ASSUME NEW row \in 0 .. Rows - 1, NEW col \in 0 .. n - 1,
             (seen + pulse) - n + col \in DOMAIN stream
      PROVE  DelayBuffer(op, buffer, pulse, input)[Flat(row, col, n)] = stream[(seen + pulse) - n + col][row]
  <2> DEFINE i == Flat(row, col, n)
  <2>1. n \in Nat \ {0}
    BY <1>1, <1>3
  <2>2. /\ i \in 0 .. Rows * n - 1 /\ i \div n = row /\ i % n = col
    BY <1>1, <2>1, FlatFacts DEF Flat
  <2> HIDE DEF i
  <2>3. DelayBuffer(op, buffer, pulse, input)[i]
          = IF n < pulse THEN input[row][pulse - n + col]
            ELSE IF col >= n - pulse THEN input[row][col - (n - pulse)]
                                     ELSE RotateLeft(op, buffer, pulse)[i]
    BY <2>2 DEF DelayBuffer
  <2>4. CASE n < pulse
    <3>1. pulse - n + col \in 0 .. pulse - 1 /\ seen + (pulse - n + col) = (seen + pulse) - n + col
      BY <1>1, <2>4
    <3> QED
      BY <1>3, <2>3, <2>4, <3>1 DEF Carries, i
  <2>5. CASE ~ (n < pulse) /\ col >= n - pulse
    <3>1. col - (n - pulse) \in 0 .. pulse - 1 /\ seen + (col - (n - pulse)) = (seen + pulse) - n + col
      BY <1>1, <2>5
    <3> QED
      BY <1>3, <2>3, <2>5, <3>1 DEF Carries, i
  <2>6. CASE ~ (n < pulse) /\ ~ (col >= n - pulse)
    <3>1. col + pulse \in 0 .. n - 1 /\ seen - n + (col + pulse) = (seen + pulse) - n + col
      BY <1>1, <2>6
    <3>2. Flat(row, col + pulse, n) \in 0 .. Rows * n - 1 /\ i + pulse = Flat(row, col + pulse, n)
      <4>1. Flat(row, col + pulse, n) \in 0 .. Rows * n - 1
        BY <1>1, <2>1, <3>1, FlatFacts DEF Flat
      <4>2. row * n \in Int
        BY <1>1
      <4> QED
        BY <1>1, <4>1, <4>2 DEF Flat, i
    <3>3. (i + pulse) % (Rows * n) = i + pulse
      <4>1. Rows * n \in Nat \ {0} /\ i + pulse \in 0 .. Rows * n - 1 /\ i + pulse = 0 * (Rows * n) + (i + pulse)
        BY <1>1, <2>1, <2>2, <3>2
      <4> QED
        BY <4>1, DivMod
    <3>4. RotateLeft(op, buffer, pulse)[i] = buffer[Flat(row, col + pulse, n)]
      BY <2>2, <3>2, <3>3 DEF RotateLeft
    <3>5. buffer[Flat(row, col + pulse, n)] = stream[(seen + pulse) - n + col][row]
      BY <1>3, <3>1 DEF Holds
    <3> QED
      BY <2>3, <2>6, <3>4, <3>5 DEF i
  <2> QED
    BY <2>4, <2>5, <2>6
<1> HIDE DEF n
<1> QED
  BY <1>2, <1>3 DEF Carries, Holds, n

(* The frames of a stream, as rows. *)
InRows(stream) == [p \in DOMAIN stream |-> [row \in 0 .. Rows - 1 |-> <<row, stream[p]>>]]

(* A Delay gives its input late by its delay and its overlap, whatever the  *)
(* size of its buffer and of the pulse: its buffer holds, row by row, the    *)
(* frames that it has not given yet (pulse-opl/src/delay.rs:35-81).          *)
THEOREM DelayIsLate ==
  ASSUME NEW op, op.delay \in Nat, op.overlap \in Nat, NEW in, NEW pulse \in Nat \ {0},
         Count(in) = pulse, NEW state, NEW stream, NEW seen \in Int,
         Holds(op, state, InRows(stream), seen), Late(in, pulse, stream, seen)
  PROVE  /\ EvalDelay(op, in, state).ok
         /\ DOMAIN EvalDelay(op, in, state).out = 0 .. pulse + op.overlap - 1
         /\ Late(EvalDelay(op, in, state).out, pulse + op.overlap, stream, seen - Buffered(op))
         /\ Holds(op, EvalDelay(op, in, state).state, InRows(stream), seen + pulse)
<1> DEFINE input == [row \in 0 .. Rows - 1 |-> [col \in 0 .. pulse - 1 |-> <<row, in[col]>>]]
           cells == DelayOutput(op, state, pulse, input)
           result == EvalDelay(op, in, state)
<1>1. /\ result.ok
      /\ result.out = [col \in 0 .. pulse + op.overlap - 1 |-> Joined(cells, col)]
      /\ result.state = DelayBuffer(op, state, pulse, input)
  BY DEF EvalDelay, Result
<1>2. Carries(input, pulse, InRows(stream), seen)
  BY DEF Late, Carries, InRows
<1> HIDE DEF input
<1>3. /\ Carries(cells, pulse + op.overlap, InRows(stream), seen - Buffered(op))
      /\ Holds(op, result.state, InRows(stream), seen + pulse)
  BY <1>1, <1>2, DelayStep
<1> HIDE DEF cells, result
<1>4. ASSUME NEW k \in 0 .. pulse + op.overlap - 1, (seen - Buffered(op)) + k \in DOMAIN stream
      PROVE  result.out[k] = stream[(seen - Buffered(op)) + k]
  <2> DEFINE f == stream[(seen - Buffered(op)) + k]
  <2>1. \A row \in 0 .. Rows - 1 : cells[row][k] = <<row, f>>
    BY <1>3, <1>4 DEF Carries, InRows
  <2>2. 0 \in 0 .. Rows - 1
    BY PulseOpsAssumption
  <2>3. cells[0][k][2] = f
    BY <2>1, <2>2
  <2> HIDE DEF f
  <2>4. Joined(cells, k) = f
    BY <2>1, <2>3 DEF Joined
  <2> QED
    BY <1>1, <2>4 DEF f
<1>5. Late(result.out, pulse + op.overlap, stream, seen - Buffered(op))
  BY <1>4 DEF Late
<1>6. DOMAIN result.out = 0 .. pulse + op.overlap - 1
  BY <1>1
<1> QED
  BY <1>1, <1>3, <1>5, <1>6 DEF result

-----------------------------------------------------------------------------
(* PulsePad.                                                               *)

(* The extra delay of an edge padding does what it is for: the frame that the *)
(* padding repeats comes in the first pulse that repeats it, so that the       *)
(* operator finds it there (pulse/src/ops/array/pad.rs:19-38, pulse-opl/src/pad.rs:92-116). *)
THEOREM EdgeComesInTime ==
  ASSUME NEW before \in Nat, NEW delay \in Nat, NEW pulse \in Nat \ {0}, before < pulse,
         NEW begin, begin = delay + PadExtraDelay(before, TRUE, delay, pulse),
         NEW calls \in Nat, NEW pos, pos = calls * pulse,
         pos < begin, pos + pulse > begin - before
  PROVE  begin < pos + pulse
<1> DEFINE late == delay + Monus(before, delay)
           q == late \div pulse
           r == late % pulse
<1>1. late \in Nat
  BY DEF Monus
<1> HIDE DEF late
<1>2. q \in Int /\ r \in 0 .. pulse - 1 /\ late = q * pulse + r
  BY <1>1
<1>3. begin = IF before > r THEN late + before - r ELSE late
  <2>1. Monus(before, delay) \in Nat
    BY DEF Monus
  <2> QED
    BY <2>1 DEF PadExtraDelay, late
<1> HIDE DEF q, r
<1> DEFINE A == q * pulse
           C == calls * pulse
           rest == IF before > r THEN before ELSE r
<1>4. A \in Int /\ C \in Nat /\ rest \in before .. pulse - 1
  BY <1>2
<1>5. late = A + r /\ pos = C
  BY <1>2
<1> HIDE DEF A, C
<1>10. /\ before \in Nat /\ pulse \in Nat \ {0} /\ r \in 0 .. pulse - 1
       /\ pos < begin /\ pos + pulse > begin - before
  BY <1>2
<1>6. begin = A + rest
  BY ONLY <1>3, <1>4, <1>5, <1>10
<1>7. C < A + pulse /\ A < C + pulse
  BY ONLY <1>4, <1>5, <1>6, <1>10
<1>8. calls <= q /\ q <= calls
  BY <1>2, <1>7, Multiples DEF A, C
<1>9. A = C
  BY <1>2, <1>8 DEF A, C
<1> QED
  BY ONLY <1>4, <1>5, <1>6, <1>9, <1>10

(* What a constant padding makes of a stream, and an edge one. *)
PadStream(op, stream) ==
  [p \in op.begin_input - op.before .. op.end_input + op.after - 1 |->
    IF p < op.begin_input THEN IF op.edge THEN stream[op.begin_input] ELSE <<"pad">>
    ELSE IF p < op.end_input THEN stream[p]
    ELSE IF op.edge THEN stream[op.end_input - 1] ELSE <<"pad">>]

(* The last frame seen is kept for the padding after the end. *)
LastSeen(op, state, stream) ==
  op.edge /\ op.after # 0 =>
    \A p \in DOMAIN stream : p = Least(op.end_input, state.pos) - 1 => state.last = stream[p]

(* Where a pulse is filled: before the beginning, after the end. *)
LEMMA FillFacts ==
  ASSUME NEW op, op.pulse \in Nat \ {0}, op.begin_input \in Nat,
         NEW pos \in Nat, NEW end \in Nat, NEW after \in Nat, NEW k \in 0 .. op.pulse - 1
  PROVE  /\ k < FillUpTo(op, pos) <=> pos + k < op.begin_input
         /\ k >= FillFrom(op, pos, end, after) <=> (after > 0 /\ pos + k >= end)
         /\ FillUpTo(op, pos) \in Nat
<1>1. k < FillUpTo(op, pos) <=> pos + k < op.begin_input
  BY DEF FillUpTo, Least
<1>2. FillUpTo(op, pos) \in Nat
  BY DEF FillUpTo, Least
<1>3. CASE pos + op.pulse > end /\ after > 0
  <2>1. FillFrom(op, pos, end, after) = op.pulse - Least(pos + op.pulse - end, op.pulse)
    BY <1>3 DEF FillFrom
  <2> QED
    BY <1>1, <1>2, <1>3, <2>1 DEF Least
<1>4. CASE ~ (pos + op.pulse > end /\ after > 0)
  <2>1. FillFrom(op, pos, end, after) = op.pulse
    BY <1>4 DEF FillFrom
  <2>2. ~ (after > 0 /\ pos + k >= end)
    BY <1>4
  <2> QED
    BY <1>1, <1>2, <2>1, <2>2
<1> QED
  BY <1>3, <1>4

(* A padding gives the padded stream, as late as its input, whatever the chunks: *)
(* when the end is not known yet it is not written, and the last frame has been  *)
(* kept when it is repeated; and it never fails, provided that the frame an edge *)
(* padding repeats comes in the pulse that repeats it (pulse-opl/src/pad.rs:55-144). *)
THEOREM PadIsLate ==
  ASSUME NEW op, op.pulse \in Nat \ {0}, op.before \in Nat, op.after \in Nat, op.edge \in BOOLEAN,
         op.begin_input \in Nat, op.end_input \in Nat, op.begin_input <= op.end_input,
         op.end_input + op.after <= UsizeMax,
         op.edge => op.begin_input < op.end_input,
         NEW in, DOMAIN in = 0 .. op.pulse - 1,
         NEW state, state.pos \in Nat,
         op.symbolic /\ ~ known => state.pos + op.pulse <= op.end_input,
         \* the frame that an edge padding repeats comes in the pulse that repeats it
         op.edge /\ state.pos < op.begin_input /\ state.pos + op.pulse > op.begin_input - op.before
           => op.begin_input < state.pos + op.pulse,
         NEW stream, DOMAIN stream = op.begin_input .. op.end_input - 1,
         Late(in, op.pulse, stream, state.pos), LastSeen(op, state, stream),
         \A p \in DOMAIN stream : stream[p] # <<"none">>
  PROVE  LET result == EvalPad(op, in, state)
         IN  /\ result.ok
             /\ DOMAIN result.out = 0 .. op.pulse - 1
             /\ Late(result.out, op.pulse, PadStream(op, stream), state.pos)
             /\ result.state.pos = state.pos + op.pulse
             /\ LastSeen(op, result.state, stream)
<1> DEFINE pos == state.pos
           end == Resolved(op, op.end_input)
           last == IF op.edge /\ op.after # 0 /\ pos < end
                   THEN in[Least(end - pos, op.pulse) - 1] ELSE state.last
           upto == FillUpTo(op, pos)
           from == FillFrom(op, pos, end, op.after)
           moved == [pos |-> pos + op.pulse, last |-> last]
           writes == ~ PadForwards(op, pos, end, op.after)
           first == IF ~ op.edge THEN <<"pad">> ELSE IF upto \in DOMAIN in THEN in[upto] ELSE Garbage
           final == IF ~ op.edge THEN <<"pad">> ELSE last
           fails == /\ writes /\ op.edge
                    /\ \/ upto > 0 /\ upto \notin DOMAIN in
                       \/ from < op.pulse /\ last = <<"none">>
           result == EvalPad(op, in, state)
<1>1. /\ end \in {op.end_input, UsizeMax} /\ UsizeMax \in Nat
      /\ end # op.end_input => pos + op.pulse <= op.end_input
  BY PulseOpsAssumption DEF Resolved
<1>2. result = IF fails THEN Failure(moved)
               ELSE Result(Padded(op, pos, end, op.after, in, first, final), moved)
  BY DEF EvalPad
<1> HIDE DEF end, result
<1>3. (op.symbolic /\ ~ known) \/ end = op.end_input
  BY DEF end, Resolved
<1>4. pos \in Nat /\ end \in Nat
  BY <1>1
<1>5. ASSUME NEW p \in DOMAIN stream, p = Least(op.end_input, pos + op.pulse) - 1, op.edge, op.after # 0
      PROVE  last = stream[p]
  <2>1. CASE pos < end
    <3> DEFINE k == Least(end - pos, op.pulse) - 1
    <3>2. last = in[k]
      BY <1>5, <2>1
    <3>4. end = op.end_input \/ (end >= pos + op.pulse /\ op.end_input >= pos + op.pulse)
      BY <1>1
    <3>3. /\ Least(end - pos, op.pulse) - 1 \in 0 .. op.pulse - 1
          /\ pos + (Least(end - pos, op.pulse) - 1) = Least(op.end_input, pos + op.pulse) - 1
      <4> DEFINE p0 == pos
                 q == op.pulse
                 stop == op.end_input
      <4>1. p0 \in Nat /\ q \in Nat \ {0} /\ end \in Nat /\ stop \in Nat /\ p0 < end
        BY <1>4, <2>1
      <4>2. end = stop \/ (end >= p0 + q /\ stop >= p0 + q)
        BY <3>4
      <4> HIDE DEF p0, q, stop
      <4>3. /\ Least(end - p0, q) - 1 \in 0 .. q - 1
            /\ p0 + (Least(end - p0, q) - 1) = Least(stop, p0 + q) - 1
        <5>1. CASE end - p0 <= q
          BY ONLY <4>1, <4>2, <5>1 DEF Least
        <5>2. CASE ~ (end - p0 <= q)
          BY ONLY <4>1, <4>2, <5>2 DEF Least
        <5> QED
          BY <5>1, <5>2
      <4> QED
        BY <4>3 DEF p0, q, stop
    <3>1. k \in 0 .. op.pulse - 1 /\ pos + k = p
      BY <1>5, <3>3
    <3> HIDE DEF k
    <3> QED
      BY <3>1, <3>2 DEF Late
  <2>2. CASE ~ (pos < end)
    <3>1. p = Least(op.end_input, pos) - 1
      BY <1>1, <1>4, <1>5, <2>2 DEF Least
    <3> QED
      BY <1>5, <2>2, <3>1 DEF LastSeen
  <2> QED
    BY <2>1, <2>2
<1>6. ASSUME pos + op.pulse > end, op.after > 0, op.edge
      PROVE  op.end_input - 1 \in DOMAIN stream /\ last = stream[op.end_input - 1]
  <2>1. end = op.end_input /\ op.end_input - 1 = Least(op.end_input, pos + op.pulse) - 1
    BY <1>1, <1>4, <1>6 DEF Least
  <2>2. op.end_input - 1 \in DOMAIN stream
    BY <1>6
  <2> HIDE DEF last
  <2> QED
    BY <1>5, <1>6, <2>1, <2>2
<1>7. ASSUME writes, op.edge, pos < op.begin_input
      PROVE  /\ upto = op.begin_input - pos /\ upto \in 0 .. op.pulse - 1
             /\ first = stream[op.begin_input]
  <2>1. pos + op.pulse > op.begin_input - op.before
    BY <1>4, <1>7 DEF PadForwards
  <2>2. upto = op.begin_input - pos /\ upto \in 0 .. op.pulse - 1
    BY <1>4, <1>7, <2>1 DEF FillUpTo, Least
  <2>3. op.begin_input \in DOMAIN stream /\ pos + upto = op.begin_input
    BY <1>4, <1>7, <2>2
  <2>4. first = in[upto]
    BY <1>7, <2>2
  <2> HIDE DEF upto, first
  <2> QED
    BY <2>2, <2>3, <2>4 DEF Late
<1>8. ~ fails
  <2> SUFFICES ASSUME writes, op.edge
               PROVE  /\ upto > 0 => upto \in DOMAIN in
                      /\ from < op.pulse => last # <<"none">>
    OBVIOUS
  <2>1. ASSUME upto > 0 PROVE upto \in DOMAIN in
    <3>1. pos < op.begin_input
      BY <1>4, <2>1 DEF FillUpTo
    <3> QED
      BY <1>7, <3>1
  <2>2. ASSUME from < op.pulse PROVE last # <<"none">>
    <3>1. pos + op.pulse > end /\ op.after > 0
      BY <1>4, <2>2 DEF FillFrom
    <3> QED
      BY <1>6, <3>1
  <2> QED
    BY <2>1, <2>2
<1>9. result = Result(Padded(op, pos, end, op.after, in, first, final), moved)
  BY <1>2, <1>8
<1>16. ASSUME NEW k \in 0 .. op.pulse - 1
       PROVE  /\ k < upto <=> pos + k < op.begin_input
              /\ k >= from <=> (op.after > 0 /\ pos + k >= end)
  BY <1>4, FillFacts
<1>10. ASSUME NEW k \in 0 .. op.pulse - 1, pos + k \in DOMAIN PadStream(op, stream)
       PROVE  Padded(op, pos, end, op.after, in, first, final)[k] = PadStream(op, stream)[pos + k]
  <2> DEFINE p == pos + k
  <2>1. p \in op.begin_input - op.before .. op.end_input + op.after - 1 /\ p \in Int
    BY <1>10 DEF PadStream
  <2>2. PadStream(op, stream)[p] =
          IF p < op.begin_input THEN IF op.edge THEN stream[op.begin_input] ELSE <<"pad">>
          ELSE IF p < op.end_input THEN stream[p]
          ELSE IF op.edge THEN stream[op.end_input - 1] ELSE <<"pad">>
    BY <2>1 DEF PadStream
  <2>3. ASSUME op.begin_input <= p, p < op.end_input PROVE in[k] = PadStream(op, stream)[p]
    <3>1. p \in DOMAIN stream
      BY <2>1, <2>3
    <3>2. in[k] = stream[p]
      BY <3>1 DEF Late
    <3>3. PadStream(op, stream)[p] = stream[p]
      <4> HIDE DEF p
      <4> QED
        BY <2>1, <2>2, <2>3
    <3> QED
      BY <3>2, <3>3
  <2>4. CASE PadForwards(op, pos, end, op.after)
    <3>3. ~ (pos + op.pulse <= op.begin_input - op.before)
      BY <1>4, <2>1
    <3>4. ~ (pos >= Least(end + op.after, UsizeMax))
      <4>1. CASE end = op.end_input
        BY <1>1, <1>4, <2>1, <4>1 DEF Least
      <4>2. CASE end # op.end_input
        <5>1. end = UsizeMax /\ Least(end + op.after, UsizeMax) = UsizeMax
          BY <1>1, <4>2 DEF Least
        <5>2. pos + op.pulse <= op.end_input
          BY <1>1, <4>2
        <5>3. pos < UsizeMax
          BY <1>1, <1>4, <5>2
        <5> QED
          BY <1>4, <5>1, <5>3
      <4> QED
        BY <4>1, <4>2
    <3>5. pos >= op.begin_input /\ pos + op.pulse <= end
      BY <2>4, <3>3, <3>4 DEF PadForwards
    <3>1. op.begin_input <= p /\ p < op.end_input
      BY <1>1, <1>4, <3>5
    <3>2. Padded(op, pos, end, op.after, in, first, final)[k] = in[k]
      BY <2>4 DEF Padded
    <3> QED
      BY <2>3, <3>1, <3>2
  <2>5. CASE writes
    <3>1. Padded(op, pos, end, op.after, in, first, final)[k] =
            IF k >= from THEN final ELSE IF k < upto THEN first ELSE in[k]
      BY <2>5 DEF Padded
    <3>2. CASE k >= from
      <4>6. op.after > 0 /\ p >= end
        BY <1>16, <3>2
      <4>1. pos + op.pulse > end /\ op.after > 0
        BY <1>4, <4>6
      <4>2. end = op.end_input
        BY <1>1, <1>4, <4>1
      <4>3. p >= op.end_input
        BY <4>2, <4>6
      <4>4. PadStream(op, stream)[p] = IF op.edge THEN stream[op.end_input - 1] ELSE <<"pad">>
        BY <2>1, <2>2, <4>3
      <4>5. op.edge => final = stream[op.end_input - 1]
        BY <1>6, <4>1
      <4> QED
        BY <3>1, <3>2, <4>4, <4>5
    <3>3. CASE ~ (k >= from) /\ k < upto
      <4>1. p < op.begin_input
        BY <1>16, <3>3
      <4>3. pos < op.begin_input
        BY <1>4, <4>1
      <4>2. first = IF op.edge THEN stream[op.begin_input] ELSE <<"pad">>
        BY <1>7, <2>5, <4>3
      <4>4. PadStream(op, stream)[p] = first
        BY <2>2, <4>1, <4>2
      <4> QED
        BY <3>1, <3>3, <4>4
    <3>4. CASE ~ (k >= from) /\ ~ (k < upto)
      <4>1. op.begin_input <= p
        BY <1>4, <1>16, <3>4
      <4>3. op.after = 0 \/ p < end
        BY <1>4, <1>16, <3>4
      <4>2. p < op.end_input
        BY <1>1, <1>4, <2>1, <4>3
      <4> QED
        BY <2>3, <3>1, <3>4, <4>1, <4>2
    <3> QED
      BY <3>2, <3>3, <3>4
  <2> QED
    BY <2>4, <2>5
<1>11. DOMAIN Padded(op, pos, end, op.after, in, first, final) = 0 .. op.pulse - 1
  BY DEF Padded
<1> DEFINE out == Padded(op, pos, end, op.after, in, first, final)
<1>12. result.out = out /\ result.ok /\ result.state = moved
  BY <1>9 DEF Result
<1>13. LastSeen(op, moved, stream)
  <2> HIDE DEF last
  <2> QED
    BY <1>5 DEF LastSeen
<1>14. Late(out, op.pulse, PadStream(op, stream), pos)
  <2> HIDE DEF out
  <2> QED
    BY <1>10 DEF Late, out
<1>15. moved.pos = pos + op.pulse
  OBVIOUS
<1> HIDE DEF out, moved
<1> QED
  BY <1>11, <1>12, <1>13, <1>14, <1>15 DEF result, out

-----------------------------------------------------------------------------
(* The same axis concatenation.                                            *)

(* `out` is `input` with a constant written where it belongs. *)
Overwrites(out, input, pulse, pos, const, length, offset) ==
  \A k \in 0 .. pulse - 1 :
    /\ offset <= pos + k /\ pos + k < offset + length => out[k] = const[pos + k - offset]
    /\ pos + k < offset \/ pos + k >= offset + length => out[k] = input[k]

(* The six cases of range_in_range come to that. *)
LEMMA OverwrittenFrames ==
  ASSUME NEW input, NEW pulse \in Nat, NEW pos \in Int, NEW const,
         NEW length \in Nat, NEW offset \in Int
  PROVE  Overwrites(Overwritten(input, pulse, pos, const, length, offset),
                    input, pulse, pos, const, length, offset)
<1> SUFFICES ASSUME NEW k \in 0 .. pulse - 1,
                    NEW out, out = Overwritten(input, pulse, pos, const, length, offset)
             PROVE  /\ offset <= pos + k /\ pos + k < offset + length => out[k] = const[pos + k - offset]
                    /\ pos + k < offset \/ pos + k >= offset + length => out[k] = input[k]
  BY DEF Overwrites
<1> DEFINE const_end == offset + length
           pulse_end == pos + pulse
           at == offset - pos
<1>1. pos + k - offset = k - at
  OBVIOUS
<1>2. CASE pulse_end <= offset \/ (pos >= offset /\ pos >= const_end)
  BY <1>2 DEF Overwritten
<1>3. CASE pulse_end > offset /\ pos < offset /\ pulse_end < const_end
  BY <1>3 DEF Overwritten
<1>4. CASE pulse_end > offset /\ pos < offset /\ pulse_end >= const_end
  BY <1>4 DEF Overwritten
<1>5. CASE pos >= offset /\ pos < const_end /\ pulse_end > const_end
  BY <1>5 DEF Overwritten
<1>6. CASE pos >= offset /\ pulse_end <= const_end
  BY <1>6 DEF Overwritten
<1> QED
  BY <1>2, <1>3, <1>4, <1>5, <1>6

(* What a concatenation makes of a stream. *)
ConcatStream(op, stream) ==
  LET begin == op.input_delay - op.before
      end == op.input_delay + op.input_len
  IN  [p \in begin .. end + op.after - 1 |->
        IF p < op.input_delay THEN <<"pre", p - begin>>
        ELSE IF p < end THEN stream[p]
        ELSE <<"post", p - end>>]

(* A concatenation gives the stream between its two constants, as late as its *)
(* input, whatever the chunks (pulse/src/ops/array/concat.rs:161-198). *)
THEOREM ConcatIsLate ==
  ASSUME NEW op, op.before \in Nat, op.after \in Nat, op.input_delay \in Nat, op.input_len \in Nat,
         op.before <= op.input_delay,
         NEW in, NEW pulse \in Nat \ {0}, Count(in) = pulse,
         NEW state, state.pos \in Nat,
         op.symbolic /\ ~ known => state.pos + pulse <= op.input_delay + op.input_len,
         NEW stream, DOMAIN stream = op.input_delay .. op.input_delay + op.input_len - 1,
         Late(in, pulse, stream, state.pos)
  PROVE  LET result == EvalConcat(op, in, state)
         IN  /\ result.ok
             /\ Late(result.out, pulse, ConcatStream(op, stream), state.pos)
             /\ result.state.pos = state.pos + pulse
<1>1. PICK pos, b, a, delay, len :
        pos = state.pos /\ b = op.before /\ a = op.after /\ delay = op.input_delay /\ len = op.input_len
  OBVIOUS
<1> DEFINE before == [i \in 0 .. b - 1 |-> <<"pre", i>>]
           after == [i \in 0 .. a - 1 |-> <<"post", i>>]
           begin == delay - b
           end == delay + len
           pre == Overwritten(in, pulse, pos, before, b, begin)
           post == Overwritten(pre, pulse, pos, after, a, end)
           blind == op.symbolic /\ ~ known
           out == IF blind THEN pre ELSE post
           result == EvalConcat(op, in, state)
<1>2. /\ pos \in Nat /\ b \in Nat /\ a \in Nat /\ delay \in Nat /\ len \in Nat /\ b <= delay
      /\ blind => pos + pulse <= end
      /\ DOMAIN stream = delay .. end - 1
      /\ begin \in Nat /\ end \in Nat
  BY <1>1
<1>3. result = Result(out, [pos |-> pos + pulse])
  BY <1>1 DEF EvalConcat
<1>4. ASSUME NEW k \in 0 .. pulse - 1, pos + k \in DOMAIN ConcatStream(op, stream)
      PROVE  out[k] = ConcatStream(op, stream)[pos + k]
  <2>1. PICK p : p = pos + k
    OBVIOUS
  <2>2. p \in begin .. end + a - 1
    BY <1>1, <1>4, <2>1 DEF ConcatStream
  <2>3. ConcatStream(op, stream) = [x \in begin .. end + a - 1 |->
          IF x < delay THEN <<"pre", x - begin>> ELSE IF x < end THEN stream[x] ELSE <<"post", x - end>>]
    BY <1>1 DEF ConcatStream
  <2> HIDE DEF begin, end
  <2>4. p \in Int /\ begin <= p /\ p < end + a
    BY <1>2, <2>2
  <2>5. /\ p < delay => ConcatStream(op, stream)[p] = <<"pre", p - begin>>
        /\ delay <= p /\ p < end => ConcatStream(op, stream)[p] = stream[p]
        /\ end <= p => ConcatStream(op, stream)[p] = <<"post", p - end>>
    <3>1. end \in Int /\ delay \in Int /\ delay <= end
      BY <1>2 DEF end
    <3> QED
      BY <2>2, <2>3, <2>4, <3>1
  <2>6. /\ p < delay => pre[k] = before[p - begin]
        /\ delay <= p => pre[k] = in[k]
    <3>1. /\ pre = Overwritten(in, pulse, pos, before, b, begin) /\ begin + b = delay
          /\ k \in 0 .. pulse - 1 /\ pulse \in Nat
      BY <1>2 DEF begin
    <3>2. pos \in Int /\ b \in Nat /\ begin \in Int
      BY <1>2
    <3> HIDE DEF pre, before
    <3>3. Overwrites(pre, in, pulse, pos, before, b, begin)
      BY ONLY <3>1, <3>2, OverwrittenFrames
    <3> QED
      BY ONLY <2>1, <2>4, <3>1, <3>2, <3>3 DEF Overwrites
  <2>7. /\ end <= p => post[k] = after[p - end]
        /\ p < end => post[k] = pre[k]
    <3>1. /\ post = Overwritten(pre, pulse, pos, after, a, end)
          /\ k \in 0 .. pulse - 1 /\ pulse \in Nat
      OBVIOUS
    <3>2. pos \in Int /\ a \in Nat /\ end \in Int
      BY <1>2
    <3> HIDE DEF pre, post, after
    <3>3. Overwrites(post, pre, pulse, pos, after, a, end)
      BY ONLY <3>1, <3>2, OverwrittenFrames
    <3> QED
      BY ONLY <2>1, <2>4, <3>1, <3>2, <3>3 DEF Overwrites
  <2> HIDE DEF pre, post, before, after
  <2>8. ASSUME p < delay PROVE out[k] = <<"pre", p - begin>>
    <3>1. p - begin \in 0 .. b - 1 /\ p < end
      BY ONLY <1>2, <2>4, <2>8 DEF begin, end
    <3> QED
      BY <2>6, <2>7, <2>8, <3>1 DEF before
  <2>9. ASSUME delay <= p, p < end PROVE out[k] = stream[p]
    <3>1. p \in DOMAIN stream
      BY ONLY <1>2, <2>4, <2>9
    <3>2. in[k] = stream[p]
      BY <1>1, <2>1, <3>1 DEF Late
    <3> QED
      BY <2>6, <2>7, <2>9, <3>2
  <2>10. ASSUME end <= p PROVE out[k] = <<"post", p - end>>
    <3>1. ~ blind
      <4> HIDE DEF blind
      <4>1. k < pulse
        OBVIOUS
      <4> QED
        BY <1>2, <2>1, <2>10
    <3>2. p - end \in 0 .. a - 1
      BY ONLY <1>2, <2>4, <2>10 DEF end
    <3> QED
      BY <2>7, <2>10, <3>1, <3>2 DEF after
  <2>11. p < delay \/ (delay <= p /\ p < end) \/ end <= p
    BY <1>2, <2>4
  <2> HIDE DEF out
  <2> QED
    BY <2>1, <2>5, <2>8, <2>9, <2>10, <2>11
<1>5. Late(out, pulse, ConcatStream(op, stream), pos)
  <2> HIDE DEF out
  <2> QED
    BY <1>4 DEF Late
<1>6. result.ok /\ result.out = out /\ result.state.pos = pos + pulse
  BY <1>3 DEF Result
<1> HIDE DEF out, result
<1> QED
  BY <1>1, <1>5, <1>6 DEF result

-----------------------------------------------------------------------------
(* Pools, convolutions and downsampling.                                   *)

(* The Delay of a pool aligns its input on its stride, and is the shortest that *)
(* does, the overlap included (pulse/src/ops/cnn/pools.rs:149-162). *)
THEOREM PoolAligns ==
  ASSUME NEW overlap \in Nat, NEW stride \in Nat \ {0}, NEW delay \in Nat
  PROVE  /\ PoolDelay(overlap, stride, delay) \in 0 .. stride - 1
         /\ (delay + PoolDelay(overlap, stride, delay) + overlap) % stride = 0
<1> DEFINE a == overlap + delay + stride - 1
           d == a \div stride
           r == a % stride
<1>1. a \in Nat /\ d \in Int /\ r \in 0 .. stride - 1 /\ a = d * stride + r
  OBVIOUS
<1>2. PoolDelay(overlap, stride, delay) = d * stride - overlap - delay
  BY DEF PoolDelay, DivCeil
<1> HIDE DEF d, r
<1>3. PICK x : x = d * stride
  OBVIOUS
<1>4. x \in Int
  BY <1>1, <1>3
<1>5. /\ overlap \in Nat /\ delay \in Nat /\ stride \in Nat \ {0} /\ r \in 0 .. stride - 1 /\ x \in Int
      /\ overlap + delay + stride - 1 = x + r
      /\ PoolDelay(overlap, stride, delay) = x - overlap - delay
  BY <1>1, <1>2, <1>3, <1>4
<1>6. /\ PoolDelay(overlap, stride, delay) \in 0 .. stride - 1
      /\ delay + PoolDelay(overlap, stride, delay) + overlap = x
  BY ONLY <1>5
<1>7. x % stride = 0
  <2>1. x = d * stride + 0
    BY ONLY <1>3, <1>4
  <2>2. 0 \in 0 .. stride - 1
    OBVIOUS
  <2> QED
    BY ONLY <1>1, <1>4, <1>5, <2>1, <2>2, DivMod
<1> QED
  BY <1>6, <1>7

(* What a pool makes of a stream: the frames whose kernel is all in it. *)
Seen(op, q) == {q * op.stride + (j - 1) * op.dilation : j \in 1 .. op.kernel}

PoolStream(op, stream) ==
  [q \in {x \in Int : Seen(op, x) \subseteq DOMAIN stream} |->
     <<"pool", [j \in 1 .. op.kernel |-> stream[q * op.stride + (j - 1) * op.dilation]]>>]

(* A pool gives the frames whose kernel is in the stream, late by its input's *)
(* delay over its stride, if that is aligned (pulse/src/ops/cnn/pools.rs:88-191). *)
THEOREM PoolIsLate ==
  ASSUME NEW op, op.kind = "Pool", op.kernel \in Nat \ {0}, op.dilation \in Nat \ {0}, op.stride \in Nat \ {0},
         NEW in, Count(in) \in Nat, NEW state, NEW stream, NEW start \in Int,
         Late(in, Count(in), stream, start * op.stride)
  PROVE  LET result == EvalNode(op, <<in>>, state)
         IN  /\ result.ok /\ result.state = state
             /\ Late(result.out, DivCeil(Count(in) - KernelLen(op), op.stride), PoolStream(op, stream), start)
<1> DEFINE frames == DivCeil(Count(in) - KernelLen(op), op.stride)
           out == [k \in 0 .. frames - 1 |-> Pooled(op, in, k * op.stride)]
           result == EvalNode(op, <<in>>, state)
<1>1. result = Result(out, state)
  BY DEF EvalNode
<1>2. ASSUME NEW k \in 0 .. frames - 1, start + k \in DOMAIN PoolStream(op, stream)
      PROVE  out[k] = PoolStream(op, stream)[start + k]
  <2> DEFINE q == start + k
             at(j) == k * op.stride + (j - 1) * op.dilation
  <2>1. out[k] = <<"pool", [j \in 1 .. op.kernel |-> in[at(j)]]>>
    BY <1>2 DEF Pooled
  <2>2. /\ Seen(op, q) \subseteq DOMAIN stream
        /\ PoolStream(op, stream)[q]
             = <<"pool", [j \in 1 .. op.kernel |-> stream[q * op.stride + (j - 1) * op.dilation]]>>
    BY <1>2 DEF PoolStream
  <2>3. ASSUME NEW j \in 1 .. op.kernel
        PROVE  in[at(j)] = stream[q * op.stride + (j - 1) * op.dilation]
    <3>1. PICK s, d, c, kernel : s = op.stride /\ d = op.dilation /\ c = Count(in) /\ kernel = op.kernel
      OBVIOUS
    <3>2. s \in Nat \ {0} /\ d \in Nat \ {0} /\ c \in Nat /\ kernel \in Nat \ {0} /\ j \in 1 .. kernel
      BY <3>1
    <3>3. KernelLen(op) = (kernel - 1) * d
      BY <3>1 DEF KernelLen
    <3>4. (kernel - 1) * d \in Nat /\ (j - 1) * d \in Nat /\ (j - 1) * d <= (kernel - 1) * d
      <4>1. PICK m \in Nat : kernel - 1 = (j - 1) + m
        <5>1. (kernel - 1) - (j - 1) \in Nat /\ kernel - 1 = (j - 1) + ((kernel - 1) - (j - 1))
          BY ONLY <3>2
        <5> QED
          BY <5>1
      <4>2. (kernel - 1) * d = (j - 1) * d + m * d /\ m * d \in Nat /\ (j - 1) * d \in Nat
        BY ONLY <3>2, <4>1
      <4>3. PICK x, y, z : x = (kernel - 1) * d /\ y = (j - 1) * d /\ z = m * d
        OBVIOUS
      <4>4. x = y + z /\ z \in Nat /\ y \in Nat
        BY ONLY <4>2, <4>3
      <4>5. x \in Nat /\ y <= x
        BY ONLY <4>4
      <4> QED
        BY ONLY <4>3, <4>4, <4>5
    <3>5. k * s < c - (kernel - 1) * d
      <4>1. frames = DivCeil(c - (kernel - 1) * d, s)
        BY <3>1, <3>3
      <4> HIDE DEF frames
      <4>2. k \in 0 .. DivCeil(c - (kernel - 1) * d, s) - 1
        BY <4>1
      <4>3. c - (kernel - 1) * d \in Int
        BY <3>2, <3>4
      <4> QED
        BY ONLY <3>2, <4>2, <4>3, BeforeTheEnd
    <3>6. k * s \in Nat /\ start * s \in Int /\ (start + k) * s = start * s + k * s
      BY <3>2
    <3>7. PICK x, y, z, w : x = k * s /\ y = (j - 1) * d /\ z = (kernel - 1) * d /\ w = start * s
      OBVIOUS
    <3>8. x \in Nat /\ y \in Nat /\ z \in Nat /\ w \in Int /\ y <= z /\ x < c - z /\ c \in Nat
      BY ONLY <3>2, <3>4, <3>5, <3>6, <3>7
    <3>9. x + y \in 0 .. c - 1 /\ w + (x + y) = (w + x) + y
      BY ONLY <3>8
    <3>10. (w + x) + y \in DOMAIN stream
      <4>1. q * op.stride + (j - 1) * op.dilation \in DOMAIN stream
        BY <2>2 DEF Seen
      <4>2. q * op.stride + (j - 1) * op.dilation = (w + x) + y
        BY <3>1, <3>6, <3>7
      <4> QED
        BY <4>1, <4>2
    <3>11. in[x + y] = stream[(w + x) + y]
      <4>1. w + (x + y) \in DOMAIN stream
        BY <3>9, <3>10
      <4>2. in[x + y] = stream[w + (x + y)]
        BY <3>1, <3>7, <3>9, <4>1 DEF Late
      <4> QED
        BY <3>9, <4>2
    <3>12. at(j) = x + y /\ q * op.stride + (j - 1) * op.dilation = (w + x) + y
      BY <3>1, <3>6, <3>7
    <3> HIDE DEF at, q
    <3> QED
      BY <3>11, <3>12
  <2> HIDE DEF at, out, q
  <2>4. [j \in 1 .. op.kernel |-> in[at(j)]]
          = [j \in 1 .. op.kernel |-> stream[q * op.stride + (j - 1) * op.dilation]]
    BY <2>3
  <2>5. out[k] = PoolStream(op, stream)[q]
    BY <2>1, <2>2, <2>4
  <2> QED
    BY <2>5 DEF q
<1>3. Late(out, frames, PoolStream(op, stream), start)
  <2> HIDE DEF out, frames
  <2> QED
    BY <1>2 DEF Late
<1> HIDE DEF out
<1>4. result.ok /\ result.out = out /\ result.state = state
  BY <1>1 DEF Result
<1> HIDE DEF result
<1> QED
  BY <1>3, <1>4 DEF result

(* What a downsampling makes of a stream. *)
DownStream(op, stream) ==
  [q \in {x \in Int : x * op.stride + op.modulo \in DOMAIN stream} |-> stream[q * op.stride + op.modulo]]

(* A downsampling gives one frame out of `stride`, from the one its modulo says *)
(* (pulse/src/ops/downsample.rs:6-37). *)
THEOREM DownsampleIsLate ==
  ASSUME NEW op, op.kind = "Downsample", op.stride \in Nat \ {0}, op.modulo \in Nat,
         NEW in, Count(in) \in Nat, NEW state, NEW stream, NEW start \in Int,
         Late(in, Count(in), stream, start * op.stride)
  PROVE  LET result == EvalNode(op, <<in>>, state)
         IN  /\ result.ok /\ result.state = state
             /\ Late(result.out, DivCeil(Monus(Count(in), op.modulo), op.stride), DownStream(op, stream), start)
<1> DEFINE left == Monus(Count(in), op.modulo)
           frames == DivCeil(left, op.stride)
           out == [k \in 0 .. frames - 1 |-> in[op.modulo + k * op.stride]]
           result == EvalNode(op, <<in>>, state)
<1>1. result = Result(out, state)
  BY DEF EvalNode
<1>2. ASSUME NEW k \in 0 .. frames - 1, start + k \in DOMAIN DownStream(op, stream)
      PROVE  out[k] = DownStream(op, stream)[start + k]
  <2>1. PICK s, m, c : s = op.stride /\ m = op.modulo /\ c = Count(in)
    OBVIOUS
  <2>2. s \in Nat \ {0} /\ m \in Nat /\ c \in Nat /\ left \in Nat /\ (left = c - m \/ left = 0)
    BY <2>1 DEF Monus
  <2>3. k * s < left
    <3> HIDE DEF left
    <3> QED
      BY <2>1, <2>2, BeforeTheEnd
  <2>4. k * s \in Nat /\ start * s \in Int /\ (start + k) * s = start * s + k * s
    BY <2>2
  <2>5. PICK x, w : x = k * s /\ w = start * s
    OBVIOUS
  <2> HIDE DEF left
  <2>6. m + x \in 0 .. c - 1 /\ w + (m + x) = (w + x) + m
    BY ONLY <2>2, <2>3, <2>4, <2>5
  <2>7. /\ (start + k) * op.stride + op.modulo = (w + x) + m
        /\ op.modulo + k * op.stride = m + x
        /\ start * op.stride = w
    BY <2>1, <2>4, <2>5
  <2>8. w + (m + x) \in DOMAIN stream /\ DownStream(op, stream)[start + k] = stream[w + (m + x)]
    BY <1>2, <2>6, <2>7 DEF DownStream
  <2>9. in[m + x] = stream[w + (m + x)]
    BY <2>1, <2>6, <2>7, <2>8 DEF Late
  <2>10. out[k] = in[m + x]
    BY <2>7
  <2> HIDE DEF out, frames
  <2> QED
    BY <2>8, <2>9, <2>10
<1>3. Late(out, frames, DownStream(op, stream), start)
  <2> HIDE DEF out, frames
  <2> QED
    BY <1>2 DEF Late
<1> HIDE DEF out
<1>4. result.ok /\ result.out = out /\ result.state = state
  BY <1>1 DEF Result
<1> HIDE DEF result
<1> QED
  BY <1>3, <1>4 DEF result

-----------------------------------------------------------------------------
(* Scan.                                                                   *)

(* A sequence of n elements, and one after another. *)
Long(f, n) == f = [i \in 1 .. n |-> f[i]]

AppendOf(h, f, m, g, n) ==
  /\ Long(h, m + n)
  /\ \A i \in 1 .. m : h[i] = f[i]
  /\ \A i \in 1 .. n : h[m + i] = g[i]

(* That is what a concatenation of sequences is. *)
LEMMA Appended ==
  ASSUME NEW m \in Nat, NEW n \in Nat, NEW f, Long(f, m), NEW g, Long(g, n)
  PROVE  AppendOf(f \o g, f, m, g, n)
<1> DEFINE S == {f[i] : i \in 1 .. m} \cup {g[i] : i \in 1 .. n}
<1>1. f \in [1 .. m -> S] /\ g \in [1 .. n -> S]
  BY DEF Long
<1> HIDE DEF S
<1>2. f \in Seq(S) /\ g \in Seq(S)
  BY <1>1, SeqDef
<1>3. Len(f) = m /\ Len(g) = n
  <2>1. DOMAIN f = 1 .. m /\ DOMAIN g = 1 .. n
    BY DEF Long
  <2>2. DOMAIN f = 1 .. Len(f) /\ DOMAIN g = 1 .. Len(g) /\ Len(f) \in Nat /\ Len(g) \in Nat
    BY <1>2, LenProperties
  <2> QED
    BY <2>1, <2>2
<1>4. /\ f \o g \in Seq(S) /\ Len(f \o g) = m + n
      /\ \A i \in 1 .. m + n : (f \o g)[i] = IF i <= m THEN f[i] ELSE g[i - m]
  BY <1>2, <1>3, ConcatProperties
<1>5. Long(f \o g, m + n)
  <2>1. f \o g \in [1 .. m + n -> S]
    BY <1>4, LenProperties
  <2> QED
    BY <2>1 DEF Long
<1>6. ASSUME NEW i \in 1 .. n PROVE (f \o g)[m + i] = g[i]
  <2>1. m + i \in 1 .. m + n /\ ~ (m + i <= m) /\ (m + i) - m = i
    OBVIOUS
  <2> QED
    BY <1>4, <2>1
<1>7. ASSUME NEW i \in 1 .. m PROVE (f \o g)[i] = f[i]
  <2>1. i \in 1 .. m + n /\ i <= m
    OBVIOUS
  <2> QED
    BY <1>4, <2>1
<1> QED
  BY <1>5, <1>6, <1>7 DEF AppendOf

(* What a scan makes of the streams of its inputs: as many iterations as there *)
(* are frames, from the first one.                                             *)
ScanFrame(op, streams, p) ==
  <<"scan", [j \in 1 .. p - op.skip + 1 |-> Across(streams, op.skip + j - 1)]>>

ScanStream(op, streams) == [p \in DOMAIN streams[1] |-> ScanFrame(op, streams, p)]

(* The iterations of a scan have seen the frames from the first one. *)
Iterated(op, state, streams) ==
  /\ Long(state.hidden, Monus(state.position, op.skip))
  /\ \A j \in 1 .. Monus(state.position, op.skip) :
       op.skip + j - 1 \in DOMAIN streams[1] => state.hidden[j] = Across(streams, op.skip + j - 1)

(* The inputs of a scan carry streams that start at the same position. *)
ScanInputs(op, ins, streams, inputs, length, pulse, start) ==
  /\ DOMAIN streams = 1 .. inputs /\ DOMAIN ins = 1 .. inputs
  /\ \A i \in 1 .. inputs : /\ DOMAIN streams[i] = op.skip .. op.skip + length - 1
                            /\ Late(ins[i], pulse, streams[i], start)

(* A scan gives what it computes from the first frame of its inputs on, however *)
(* many iterations its delay makes it skip and wherever that falls in a pulse: it *)
(* skips all of the frames that come before, over calls, and no other *)
(* (pulse/src/ops/scan.rs, core/src/ops/scan/lir.rs:207-212). *)
THEOREM ScanIsLate ==
  ASSUME NEW op, op.skip \in Nat, NEW state, state.position \in Nat,
         NEW ins, NEW pulse \in Nat \ {0}, Count(ins[1]) = pulse, NEW inputs \in Nat \ {0},
         NEW streams, NEW length \in Nat,
         ScanInputs(op, ins, streams, inputs, length, pulse, state.position),
         Iterated(op, state, streams)
  PROVE  LET result == EvalScan(op, ins, state)
         IN  /\ result.ok
             /\ Late(result.out, pulse, ScanStream(op, streams), state.position)
             /\ result.state.position = state.position + pulse
             /\ Iterated(op, result.state, streams)
<1>0. /\ DOMAIN streams = 1 .. inputs /\ DOMAIN ins = 1 .. inputs
      /\ \A i \in 1 .. inputs : DOMAIN streams[i] = op.skip .. op.skip + length - 1
      /\ \A i \in 1 .. inputs : Late(ins[i], pulse, streams[i], state.position)
  BY DEF ScanInputs
<1>1. PICK pos, skip, hidden : pos = state.position /\ skip = op.skip /\ hidden = state.hidden
  OBVIOUS
<1> DEFINE from == Least(Monus(skip, pos), pulse)
           seen == Monus(pos, skip)
           upto(k) == hidden \o [j \in 1 .. k - from + 1 |-> Across(ins, from + j - 1)]
           out == [k \in 0 .. pulse - 1 |-> IF k < from THEN Uninit ELSE <<"scan", upto(k)>>]
           moved == [position |-> pos + pulse, hidden |-> upto(pulse - 1)]
           result == EvalScan(op, ins, state)
<1>2. result = Result(out, moved)
  BY <1>1 DEF EvalScan
<1>3. pos \in Nat /\ skip \in Nat /\ seen \in Nat /\ from \in 0 .. pulse
  BY <1>1 DEF Monus, Least
<1>4. Long(hidden, seen)
  BY <1>1 DEF Iterated
<1>5. from < pulse => pos + from = skip + seen
  BY <1>3 DEF Monus, Least
<1> HIDE DEF from, seen
<1>6. ASSUME NEW k \in Int, from - 1 <= k, k < pulse
      PROVE  /\ Long(upto(k), seen + (k - from + 1))
             /\ \A j \in 1 .. seen + (k - from + 1) :
                  skip + j - 1 \in DOMAIN streams[1] => upto(k)[j] = Across(streams, skip + j - 1)
  <2> DEFINE n == k - from + 1
             more == [j \in 1 .. n |-> Across(ins, from + j - 1)]
  <2>1. n \in Nat
    BY <1>3, <1>6
  <2>2. /\ Long(upto(k), seen + n)
        /\ \A j \in 1 .. seen : upto(k)[j] = hidden[j]
        /\ \A j \in 1 .. n : upto(k)[seen + j] = more[j]
    <3>1. Long(more, n)
      BY DEF Long
    <3>2. upto(k) = hidden \o more
      OBVIOUS
    <3> HIDE DEF more, n, upto
    <3>3. AppendOf(upto(k), hidden, seen, more, n)
      BY <1>3, <1>4, <2>1, <3>1, <3>2, Appended
    <3> QED
      BY <3>3 DEF AppendOf
  <2>3. ASSUME NEW j \in 1 .. seen + n, skip + j - 1 \in DOMAIN streams[1]
        PROVE  upto(k)[j] = Across(streams, skip + j - 1)
    <3> HIDE DEF upto
    <3>1. CASE j <= seen
      <4>1. j \in 1 .. seen /\ j \in 1 .. Monus(state.position, op.skip)
        BY <1>1, <1>3, <3>1 DEF seen
      <4>2. hidden[j] = Across(streams, skip + j - 1)
        BY <1>1, <2>3, <4>1 DEF Iterated
      <4> QED
        BY <2>2, <4>1, <4>2
    <3>2. CASE ~ (j <= seen)
      <4>1. PICK i : i = j - seen
        OBVIOUS
      <4>2. i \in 1 .. n /\ j = seen + i
        BY <1>3, <2>1, <3>2, <4>1
      <4>3. upto(k)[j] = Across(ins, from + i - 1)
        BY <2>2, <4>2
      <4>4. /\ from + i - 1 \in 0 .. pulse - 1
            /\ pos + (from + i - 1) = skip + j - 1
        <5>1. from < pulse
          BY <1>3, <1>6, <2>1, <4>2
        <5> QED
          BY <1>3, <1>5, <1>6, <4>2, <5>1
      <4>5. ASSUME NEW m \in 1 .. inputs
            PROVE  ins[m][from + i - 1] = streams[m][skip + j - 1]
        <5>1. 1 \in 1 .. inputs
          OBVIOUS
        <5>2. pos + (from + i - 1) \in DOMAIN streams[m]
          BY <1>0, <2>3, <4>4, <5>1
        <5>3. ins[m][from + i - 1] = streams[m][pos + (from + i - 1)]
          BY <1>0, <1>1, <4>4, <5>2 DEF Late
        <5> QED
          BY <4>4, <5>3
      <4>6. Across(ins, from + i - 1) = Across(streams, skip + j - 1)
        BY <1>0, <4>5 DEF Across
      <4> QED
        BY <4>3, <4>6
    <3> QED
      BY <3>1, <3>2
  <2> QED
    BY <2>2, <2>3
<1>7. from = pulse => skip >= pos + pulse
  BY <1>3 DEF from, Monus, Least
<1>8. ASSUME NEW k \in 0 .. pulse - 1, pos + k \in DOMAIN ScanStream(op, streams)
      PROVE  out[k] = ScanStream(op, streams)[pos + k]
  <2> PICK p : p = pos + k
    OBVIOUS
  <2>1. /\ p \in DOMAIN streams[1] /\ p \in skip .. skip + length - 1
        /\ ScanStream(op, streams)[p] = <<"scan", [j \in 1 .. p - skip + 1 |-> Across(streams, skip + j - 1)]>>
    <3>1. p \in DOMAIN streams[1] /\ DOMAIN streams[1] = skip .. skip + length - 1
      BY <1>0, <1>1, <1>8 DEF ScanStream
    <3>2. ScanStream(op, streams)[p] = ScanFrame(op, streams, p)
      BY <3>1 DEF ScanStream
    <3>3. ScanFrame(op, streams, p) = <<"scan", [j \in 1 .. p - skip + 1 |-> Across(streams, skip + j - 1)]>>
      BY <1>1 DEF ScanFrame
    <3> QED
      BY <3>1, <3>2, <3>3
  <2>2. ~ (k < from) /\ from < pulse
    BY <1>3, <1>7, <2>1 DEF from, Monus, Least
  <2>3. seen + (k - from + 1) = p - skip + 1
    BY <1>3, <1>5, <2>2
  <2>4. ASSUME NEW j \in 1 .. p - skip + 1
        PROVE  skip + j - 1 \in DOMAIN streams[1]
    <3>1. DOMAIN streams[1] = skip .. skip + length - 1
      BY <1>0, <1>1
    <3> QED
      BY <1>3, <2>1, <3>1
  <2> HIDE DEF upto
  <2>5. /\ Long(upto(k), seen + (k - from + 1))
        /\ \A j \in 1 .. seen + (k - from + 1) :
             skip + j - 1 \in DOMAIN streams[1] => upto(k)[j] = Across(streams, skip + j - 1)
    <3>1. k \in Int /\ from - 1 <= k /\ k < pulse
      BY <1>3, <2>2
    <3> QED
      BY <1>6, <3>1
  <2>6. upto(k) = [j \in 1 .. p - skip + 1 |-> Across(streams, skip + j - 1)]
    BY <2>3, <2>4, <2>5 DEF Long
  <2> QED
    BY <2>1, <2>2, <2>6
<1>9. Iterated(op, moved, streams)
  <2>1. /\ moved.hidden = upto(pulse - 1) /\ moved.position = pos + pulse
    OBVIOUS
  <2>2. seen + ((pulse - 1) - from + 1) = Monus(pos + pulse, skip)
    BY <1>3 DEF from, seen, Monus, Least
  <2> HIDE DEF upto, moved
  <2>3. /\ Long(upto(pulse - 1), Monus(pos + pulse, skip))
        /\ \A j \in 1 .. Monus(pos + pulse, skip) :
             skip + j - 1 \in DOMAIN streams[1] => upto(pulse - 1)[j] = Across(streams, skip + j - 1)
    <3>1. pulse - 1 \in Int /\ from - 1 <= pulse - 1 /\ pulse - 1 < pulse
      BY <1>3
    <3> QED
      BY <1>6, <2>2, <3>1
  <2> QED
    BY <1>1, <2>1, <2>3 DEF Iterated
<1> HIDE DEF out
<1>10. Late(out, pulse, ScanStream(op, streams), pos)
  BY <1>8 DEF Late
<1>11. result.ok /\ result.out = out /\ result.state = moved /\ moved.position = pos + pulse
  BY <1>2 DEF Result
<1> HIDE DEF result, moved
<1> QED
  BY <1>1, <1>9, <1>10, <1>11 DEF result

-----------------------------------------------------------------------------
(* A pulsed model does what the source model does, for every model, every  *)
(* pulse and every length of the stream that Pulsable lets through: what   *)
(* each operator promises, as above, put together along the wires and      *)
(* over the chunks.                                                        *)
(*                                                                         *)
(* A wire of a pulsed model is its fact, its rate (how many positions of   *)
(* the stream a chunk goes forward: the pulse of the fact, less what a     *)
(* Delay gives again) and its content, the frames it stands for.  Makes    *)
(* says what the wiring of a node must be for the node to work; the first  *)
(* part shows that such a node then gives its content late by the delay of *)
(* its fact, the second part that the pulsifiers wire no other nodes.      *)

(* The frames of a content, late by a delay. *)
Shifted(f, delay, dim) == [p \in delay .. delay + dim - 1 |-> f[p - delay]]

StreamOf(w) == Shifted(w.content, w.fact.delay, w.fact.dim)

IsFact(fact) ==
  /\ fact = [pulse |-> fact.pulse, dim |-> fact.dim, symbolic |-> fact.symbolic, delay |-> fact.delay]
  /\ fact.pulse \in Nat \ {0} /\ fact.dim \in Nat /\ fact.delay \in Nat

IsWire(w) ==
  /\ IsFact(w.fact) /\ w.rate \in Nat \ {0}
  /\ DOMAIN w.content = 0 .. w.fact.dim - 1
  /\ \A k \in DOMAIN w.content : w.content[k] # <<"none">>

(* Nothing of a wire comes twice. *)
Once(w) == w.rate = w.fact.pulse

(* As long as the length of the stream is not known, what comes is not after the end. *)
LongEnough(w, p) ==
  \A calls \in Nat : calls * p.pulse <= p.len => calls * w.rate <= w.fact.delay + w.fact.dim

(* As late, as long, in pulses of the same size. *)
Alike(w, i) ==
  /\ Once(i) /\ Once(w)
  /\ w.fact.pulse = i.fact.pulse /\ w.fact.delay = i.fact.delay /\ w.fact.dim = i.fact.dim

SourceMakes(op, w, p) ==
  /\ op.kind = "Source" /\ Once(w)
  /\ w.fact.pulse = p.pulse /\ w.fact.delay = 0 /\ w.fact.dim = p.len
  /\ \A k \in 0 .. p.len - 1 : w.content[k] = <<"x", k>>

MapMakes(op, w, i) ==
  /\ op.kind = "Map" /\ Alike(w, i)
  /\ \A k \in 0 .. w.fact.dim - 1 : w.content[k] = <<"map", i.content[k]>>

SliceMakes(op, w, i) ==
  /\ op.kind = "Slice" /\ Once(i) /\ Once(w) /\ op.skip \in Nat
  /\ w.fact.pulse = i.fact.pulse /\ w.fact.delay = i.fact.delay + op.skip
  /\ op.skip + w.fact.dim <= i.fact.dim
  /\ \A k \in 0 .. w.fact.dim - 1 : w.content[k] = i.content[op.skip + k]

DelayMakes(op, w, i) ==
  /\ op.kind = "Delay" /\ op.delay \in Nat /\ op.overlap \in Nat
  /\ Once(i) /\ w.rate = i.rate /\ w.fact.pulse = i.fact.pulse + op.overlap
  /\ w.fact.delay = i.fact.delay + Buffered(op)
  /\ w.fact.dim = i.fact.dim /\ w.content = i.content

(* The frame an edge padding repeats comes in the pulse that repeats it. *)
InTime(op) ==
  \A calls \in Nat :
    LET pos == calls * op.pulse
    IN  pos < op.begin_input /\ pos + op.pulse > op.begin_input - op.before => op.begin_input < pos + op.pulse

PadMakes(op, w, i, p) ==
  /\ op.kind = "PulsePad" /\ op.before \in Nat /\ op.after \in Nat /\ op.edge \in BOOLEAN
  /\ Once(i) /\ Once(w) /\ LongEnough(i, p)
  /\ w.fact.pulse = i.fact.pulse /\ op.pulse = i.fact.pulse
  /\ op.begin_input = i.fact.delay /\ op.end_input = i.fact.delay + i.fact.dim
  /\ w.fact.delay + op.before = i.fact.delay
  /\ w.fact.dim = op.before + i.fact.dim + op.after
  /\ w.fact.delay + w.fact.dim <= UsizeMax
  /\ op.edge => i.fact.dim > 0 /\ InTime(op)
  /\ \A k \in 0 .. w.fact.dim - 1 :
       w.content[k] = IF k < op.before THEN IF op.edge THEN i.content[0] ELSE <<"pad">>
                      ELSE IF k < op.before + i.fact.dim THEN i.content[k - op.before]
                      ELSE IF op.edge THEN i.content[i.fact.dim - 1] ELSE <<"pad">>

PoolMakes(op, w, i) ==
  /\ op.kind = "Pool" /\ {op.kernel, op.dilation, op.stride} \subseteq Nat \ {0}
  /\ Once(w) /\ i.rate = w.rate * op.stride
  /\ w.fact.pulse = DivCeil(i.fact.pulse - KernelLen(op), op.stride)
  /\ i.fact.delay = w.fact.delay * op.stride
  /\ \A k \in 0 .. w.fact.dim - 1 :
       k * op.stride + KernelLen(op) < i.fact.dim /\ w.content[k] = Pooled(op, i.content, k * op.stride)

DownsampleMakes(op, w, i) ==
  /\ op.kind = "Downsample" /\ op.stride \in Nat \ {0} /\ op.modulo = 0
  /\ Once(i) /\ Once(w) /\ i.fact.pulse = w.fact.pulse * op.stride
  /\ i.fact.delay = 0 /\ w.fact.delay = 0
  /\ \A k \in 0 .. w.fact.dim - 1 :
       k * op.stride < i.fact.dim /\ w.content[k] = i.content[k * op.stride]

BinaryMakes(op, w, i, j) ==
  /\ op.kind = "Binary" /\ Alike(w, i) /\ Alike(w, j)
  /\ \A k \in 0 .. w.fact.dim - 1 : w.content[k] = <<"binary", i.content[k], j.content[k]>>

ScanMakes(op, w, i) ==
  /\ op.kind = "Scan" /\ Alike(w, i) /\ op.skip = i.fact.delay
  /\ \A k \in 0 .. w.fact.dim - 1 :
       w.content[k] = <<"scan", [j \in 1 .. k + 1 |-> Across(<<i.content>>, j - 1)]>>

(* What a node makes of its inputs. *)
Makes(op, w, ins, p) ==
  \/ ins = <<>> /\ SourceMakes(op, w, p)
  \/ ins = <<ins[1]>> /\ \/ MapMakes(op, w, ins[1])
                         \/ SliceMakes(op, w, ins[1])
                         \/ DelayMakes(op, w, ins[1])
                         \/ PadMakes(op, w, ins[1], p)
                         \/ PoolMakes(op, w, ins[1])
                         \/ DownsampleMakes(op, w, ins[1])
                         \/ ScanMakes(op, w, ins[1])
  \/ ins = <<ins[1], ins[2]>> /\ BinaryMakes(op, w, ins[1], ins[2])

-----------------------------------------------------------------------------
(* One call of a node.                                                     *)

(* What comes out of a wire when `calls` chunks came before. *)
Carried(frames, w, calls) ==
  /\ DOMAIN frames = 0 .. w.fact.pulse - 1
  /\ Late(frames, w.fact.pulse, StreamOf(w), calls * w.rate)

(* The state of a node after as many calls. *)
StateFits(op, state, ins, calls) ==
  /\ op.kind = "Delay" => Holds(op, state, InRows(StreamOf(ins[1])), calls * ins[1].rate)
  /\ op.kind = "PulsePad" => state.pos = calls * op.pulse /\ LastSeen(op, state, StreamOf(ins[1]))
  /\ op.kind = "Scan" => /\ state.position = calls * ins[1].fact.pulse
                         /\ Iterated(op, state, <<StreamOf(ins[1])>>)

(* A call goes well: the chunk that comes out and the state that is left. *)
GoesWell(op, w, ins, result, calls) ==
  /\ result.ok
  /\ Carried(result.out, w, calls)
  /\ StateFits(op, result.state, ins, calls + 1)

LEMMA CountOf ==
  ASSUME NEW f, NEW n \in Nat, DOMAIN f = 0 .. n - 1
  PROVE  Count(f) = n
<1>1. Cardinality(0 .. n - 1) = IF 0 > n - 1 THEN 0 ELSE (n - 1) - 0 + 1
  BY FS_Interval
<1> QED
  BY <1>1 DEF Count

(* The frames of a stream come later by as much as it is delayed. *)
LEMMA LateShifted ==
  ASSUME NEW frames, NEW length \in Nat, NEW f, NEW delay \in Nat, NEW dim \in Nat, NEW more \in Nat,
         NEW start \in Int, Late(frames, length, Shifted(f, delay, dim), start - more)
  PROVE  Late(frames, length, Shifted(f, delay + more, dim), start)
<1> SUFFICES ASSUME NEW k \in 0 .. length - 1, start + k \in DOMAIN Shifted(f, delay + more, dim)
             PROVE  frames[k] = Shifted(f, delay + more, dim)[start + k]
  BY DEF Late
<1>1. start + k \in delay + more .. delay + more + dim - 1
  BY DEF Shifted
<1>2. (start - more) + k \in delay .. delay + dim - 1
  BY <1>1
<1>3. (start - more) + k \in DOMAIN Shifted(f, delay, dim)
  BY <1>2 DEF Shifted
<1>4. frames[k] = Shifted(f, delay, dim)[(start - more) + k]
  BY <1>3 DEF Late
<1>5. ((start - more) + k) - delay = (start + k) - (delay + more)
  OBVIOUS
<1> QED
  BY <1>1, <1>2, <1>4, <1>5 DEF Shifted

(* Reading a frame that is carried. *)
LEMMA CarriedFrame ==
  ASSUME NEW frames, NEW w, IsWire(w), NEW calls \in Nat, Carried(frames, w, calls),
         NEW k \in 0 .. w.fact.pulse - 1, NEW x \in 0 .. w.fact.dim - 1,
         calls * w.rate + k = w.fact.delay + x
  PROVE  frames[k] = w.content[x]
<1>1. PICK start : start = calls * w.rate
  OBVIOUS
<1>2. start \in Nat /\ w.fact.delay \in Nat /\ w.fact.dim \in Nat
  BY <1>1 DEF IsWire, IsFact
<1>3. start + k \in w.fact.delay .. w.fact.delay + w.fact.dim - 1 /\ (start + k) - w.fact.delay = x
  BY <1>1, <1>2
<1>4. start + k \in DOMAIN StreamOf(w) /\ StreamOf(w)[start + k] = w.content[x]
  BY <1>3 DEF StreamOf, Shifted
<1> QED
  BY <1>1, <1>4 DEF Carried, Late

(* Frames that are the right ones, one by one, are carried. *)
LEMMA CarriedFrames ==
  ASSUME NEW frames, NEW w, IsWire(w), NEW calls \in Nat, DOMAIN frames = 0 .. w.fact.pulse - 1,
         \A k \in 0 .. w.fact.pulse - 1 : \A x \in 0 .. w.fact.dim - 1 :
           calls * w.rate + k = w.fact.delay + x => frames[k] = w.content[x]
  PROVE  Carried(frames, w, calls)
<1>1. PICK start : start = calls * w.rate
  OBVIOUS
<1>2. start \in Nat /\ w.fact.delay \in Nat /\ w.fact.dim \in Nat
  BY <1>1 DEF IsWire, IsFact
<1>3. ASSUME NEW k \in 0 .. w.fact.pulse - 1, start + k \in DOMAIN StreamOf(w)
      PROVE  frames[k] = StreamOf(w)[start + k]
  <2>1. start + k \in w.fact.delay .. w.fact.delay + w.fact.dim - 1
    BY <1>3 DEF StreamOf, Shifted
  <2>2. PICK x : x = (start + k) - w.fact.delay
    OBVIOUS
  <2>3. x \in 0 .. w.fact.dim - 1 /\ start + k = w.fact.delay + x
    BY <1>2, <2>1, <2>2
  <2>4. StreamOf(w)[start + k] = w.content[x]
    BY <2>1, <2>2 DEF StreamOf, Shifted
  <2> QED
    BY <1>1, <2>3, <2>4
<1> QED
  BY <1>1, <1>3 DEF Carried, Late

LEMMA SourceGoesWell ==
  ASSUME NEW op, NEW w, NEW p, IsWire(w), SourceMakes(op, w, p), NEW calls \in Nat, NEW state,
         DOMAIN chunk = 0 .. p.pulse - 1,
         \A k \in 0 .. p.pulse - 1 : calls * p.pulse + k < p.len => chunk[k] = <<"x", calls * p.pulse + k>>
  PROVE  GoesWell(op, w, <<>>, EvalNode(op, <<>>, state), calls)
<1>1. EvalNode(op, <<>>, state) = [out |-> chunk, state |-> state, ok |-> TRUE]
  BY DEF EvalNode, Result, SourceMakes
<1>2. w.rate = p.pulse /\ w.fact.pulse = p.pulse /\ w.fact.delay = 0 /\ w.fact.dim = p.len
  BY DEF SourceMakes, Once
<1>3. ASSUME NEW k \in 0 .. w.fact.pulse - 1, NEW x \in 0 .. w.fact.dim - 1,
             calls * w.rate + k = w.fact.delay + x
      PROVE  chunk[k] = w.content[x]
  <2>1. calls * p.pulse + k = x /\ x < p.len
    BY <1>2, <1>3 DEF IsWire, IsFact
  <2> QED
    BY <1>2, <2>1 DEF SourceMakes
<1>4. Carried(chunk, w, calls)
  BY <1>2, <1>3, CarriedFrames
<1>5. StateFits(op, state, <<>>, calls + 1)
  BY DEF StateFits, SourceMakes
<1> QED
  BY <1>1, <1>4, <1>5 DEF GoesWell

(* Maps, slices and binary operators, frame by frame. *)
LEMMA MapGoesWell ==
  ASSUME NEW op, NEW w, NEW i, IsWire(w), IsWire(i), MapMakes(op, w, i), NEW calls \in Nat, NEW state,
         NEW in, Carried(in, i, calls)
  PROVE  GoesWell(op, w, <<i>>, EvalNode(op, <<in>>, state), calls)
<1> DEFINE out == [k \in DOMAIN in |-> <<"map", in[k]>>]
<1>1. EvalNode(op, <<in>>, state) = [out |-> out, state |-> state, ok |-> TRUE]
  BY DEF EvalNode, Result, MapMakes
<1>2. /\ w.rate = i.rate /\ w.fact.pulse = i.fact.pulse /\ w.fact.delay = i.fact.delay
      /\ w.fact.dim = i.fact.dim
  BY DEF MapMakes, Alike, Once
<1>3. ASSUME NEW k \in 0 .. w.fact.pulse - 1, NEW x \in 0 .. w.fact.dim - 1,
             calls * w.rate + k = w.fact.delay + x
      PROVE  out[k] = w.content[x]
  <2>1. in[k] = i.content[x]
    BY <1>2, <1>3, CarriedFrame
  <2>2. k \in DOMAIN in
    BY <1>2 DEF Carried
  <2> QED
    BY <2>1, <2>2 DEF MapMakes
<1>4. DOMAIN out = 0 .. w.fact.pulse - 1
  BY <1>2 DEF Carried
<1> HIDE DEF out
<1>5. Carried(out, w, calls)
  BY <1>3, <1>4, CarriedFrames
<1>6. StateFits(op, state, <<i>>, calls + 1)
  BY DEF StateFits, MapMakes
<1> QED
  BY <1>1, <1>5, <1>6 DEF GoesWell

LEMMA SliceGoesWell ==
  ASSUME NEW op, NEW w, NEW i, IsWire(w), IsWire(i), SliceMakes(op, w, i), NEW calls \in Nat, NEW state,
         NEW in, Carried(in, i, calls)
  PROVE  GoesWell(op, w, <<i>>, EvalNode(op, <<in>>, state), calls)
<1>1. EvalNode(op, <<in>>, state) = [out |-> in, state |-> state, ok |-> TRUE]
  BY DEF EvalNode, Result, SliceMakes
<1>2. /\ w.rate = i.rate /\ w.fact.pulse = i.fact.pulse /\ w.fact.delay = i.fact.delay + op.skip
      /\ op.skip \in Nat /\ op.skip + w.fact.dim <= i.fact.dim
  BY DEF SliceMakes, Once
<1>3. ASSUME NEW k \in 0 .. w.fact.pulse - 1, NEW x \in 0 .. w.fact.dim - 1,
             calls * w.rate + k = w.fact.delay + x
      PROVE  in[k] = w.content[x]
  <2>1. PICK y : y = op.skip + x
    OBVIOUS
  <2>2. PICK start : start = calls * i.rate
    OBVIOUS
  <2>3. start \in Nat /\ i.fact.delay \in Nat /\ i.fact.dim \in Nat /\ w.fact.dim \in Nat
    BY <2>2 DEF IsWire, IsFact
  <2>4. y \in 0 .. i.fact.dim - 1 /\ start + k = i.fact.delay + y
    BY <1>2, <1>3, <2>1, <2>2, <2>3
  <2>5. in[k] = i.content[y]
    BY <1>2, <2>2, <2>4, CarriedFrame
  <2> QED
    BY <2>1, <2>5 DEF SliceMakes
<1>4. DOMAIN in = 0 .. w.fact.pulse - 1
  BY <1>2 DEF Carried
<1>5. Carried(in, w, calls)
  BY <1>3, <1>4, CarriedFrames
<1>6. StateFits(op, state, <<i>>, calls + 1)
  BY DEF StateFits, SliceMakes
<1> QED
  BY <1>1, <1>5, <1>6 DEF GoesWell

LEMMA BinaryGoesWell ==
  ASSUME NEW op, NEW w, NEW i, NEW j, IsWire(w), IsWire(i), IsWire(j), BinaryMakes(op, w, i, j),
         NEW calls \in Nat, NEW state, NEW a, Carried(a, i, calls), NEW b, Carried(b, j, calls)
  PROVE  GoesWell(op, w, <<i, j>>, EvalNode(op, <<a, b>>, state), calls)
<1> DEFINE out == [k \in DOMAIN a |-> <<"binary", a[k], b[k]>>]
<1>1. EvalNode(op, <<a, b>>, state) = [out |-> out, state |-> state, ok |-> TRUE]
  BY DEF EvalNode, Result, BinaryMakes
<1>2. /\ w.rate = i.rate /\ w.fact.pulse = i.fact.pulse /\ w.fact.delay = i.fact.delay
      /\ w.fact.dim = i.fact.dim
      /\ w.rate = j.rate /\ w.fact.pulse = j.fact.pulse /\ w.fact.delay = j.fact.delay
      /\ w.fact.dim = j.fact.dim
  BY DEF BinaryMakes, Alike, Once
<1>3. ASSUME NEW k \in 0 .. w.fact.pulse - 1, NEW x \in 0 .. w.fact.dim - 1,
             calls * w.rate + k = w.fact.delay + x
      PROVE  out[k] = w.content[x]
  <2>1. a[k] = i.content[x]
    <3>1. /\ k \in 0 .. i.fact.pulse - 1 /\ x \in 0 .. i.fact.dim - 1
          /\ calls * i.rate + k = i.fact.delay + x
      BY <1>2, <1>3
    <3> QED
      BY ONLY IsWire(i), calls \in Nat, Carried(a, i, calls), <3>1, CarriedFrame
  <2>2. b[k] = j.content[x]
    <3>1. /\ k \in 0 .. j.fact.pulse - 1 /\ x \in 0 .. j.fact.dim - 1
          /\ calls * j.rate + k = j.fact.delay + x
      BY <1>2, <1>3
    <3> QED
      BY ONLY IsWire(j), calls \in Nat, Carried(b, j, calls), <3>1, CarriedFrame
  <2>3. k \in DOMAIN a
    BY <1>2 DEF Carried
  <2> QED
    BY <2>1, <2>2, <2>3 DEF BinaryMakes
<1>4. DOMAIN out = 0 .. w.fact.pulse - 1
  BY <1>2 DEF Carried
<1> HIDE DEF out
<1>5. Carried(out, w, calls)
  BY <1>3, <1>4, CarriedFrames
<1>6. StateFits(op, state, <<i, j>>, calls + 1)
  BY DEF StateFits, BinaryMakes
<1> QED
  BY <1>1, <1>5, <1>6 DEF GoesWell

LEMMA DelayGoesWell ==
  ASSUME NEW op, NEW w, NEW i, IsWire(w), IsWire(i), DelayMakes(op, w, i), NEW calls \in Nat, NEW state,
         NEW in, Carried(in, i, calls), StateFits(op, state, <<i>>, calls)
  PROVE  GoesWell(op, w, <<i>>, EvalNode(op, <<in>>, state), calls)
<1> DEFINE result == EvalDelay(op, in, state)
<1>1. EvalNode(op, <<in>>, state) = result
  BY DEF EvalNode, DelayMakes
<1>2. /\ w.rate = i.rate /\ i.rate = i.fact.pulse /\ w.fact.pulse = i.fact.pulse + op.overlap
      /\ w.fact.delay = i.fact.delay + Buffered(op)
      /\ w.fact.dim = i.fact.dim /\ w.content = i.content
      /\ op.delay \in Nat /\ op.overlap \in Nat
  BY DEF DelayMakes, Once
<1>3. PICK pulse, seen : pulse = i.fact.pulse /\ seen = calls * i.rate
  OBVIOUS
<1>4. pulse \in Nat \ {0} /\ seen \in Nat /\ i.fact.delay \in Nat /\ i.fact.dim \in Nat /\ Buffered(op) \in Nat
  <2>1. pulse \in Nat \ {0} /\ i.fact.delay \in Nat /\ i.fact.dim \in Nat /\ seen = calls * pulse
    BY <1>2, <1>3 DEF IsWire, IsFact
  <2>2. seen \in Nat
    BY <2>1
  <2> QED
    BY <1>2, <2>1, <2>2 DEF Buffered
<1>5. Count(in) = pulse
  BY <1>3, <1>4, CountOf DEF Carried
<1>6. Holds(op, state, InRows(StreamOf(i)), seen) /\ Late(in, pulse, StreamOf(i), seen)
  BY <1>3 DEF StateFits, Carried, DelayMakes
<1>7. /\ result.ok
      /\ DOMAIN result.out = 0 .. pulse + op.overlap - 1
      /\ Late(result.out, pulse + op.overlap, StreamOf(i), seen - Buffered(op))
      /\ Holds(op, result.state, InRows(StreamOf(i)), seen + pulse)
  <2> HIDE DEF result
  <2> QED
    BY <1>2, <1>4, <1>5, <1>6, DelayIsLate DEF result
<1> HIDE DEF result
<1>8. Late(result.out, pulse + op.overlap, StreamOf(w), seen)
  <2>1. Late(result.out, pulse + op.overlap, Shifted(i.content, i.fact.delay, i.fact.dim), seen - Buffered(op))
    BY <1>7 DEF StreamOf
  <2>2. pulse + op.overlap \in Nat
    BY <1>2, <1>4
  <2>3. Late(result.out, pulse + op.overlap, Shifted(i.content, i.fact.delay + Buffered(op), i.fact.dim), seen)
    BY <1>4, <2>1, <2>2, LateShifted
  <2> QED
    BY <1>2, <2>3 DEF StreamOf
<1>9. seen + pulse = (calls + 1) * i.rate
  <2>1. seen = calls * pulse /\ i.rate = pulse
    BY <1>2, <1>3
  <2>2. (calls + 1) * pulse = calls * pulse + pulse
    BY <1>4
  <2>3. (calls + 1) * i.rate = (calls + 1) * pulse
    BY <2>1
  <2> QED
    BY <2>1, <2>2, <2>3
<1>10. Carried(result.out, w, calls)
  <2>1. w.fact.pulse = pulse + op.overlap /\ calls * w.rate = seen
    BY <1>2, <1>3
  <2>2. DOMAIN result.out = 0 .. w.fact.pulse - 1
    BY <1>2, <1>4, <1>7, <2>1
  <2>3. Late(result.out, w.fact.pulse, StreamOf(w), calls * w.rate)
    BY <1>8, <2>1
  <2> QED
    BY <2>2, <2>3 DEF Carried
<1>11. StateFits(op, result.state, <<i>>, calls + 1)
  BY <1>7, <1>9 DEF StateFits, DelayMakes
<1> QED
  BY <1>1, <1>7, <1>10, <1>11 DEF GoesWell

LEMMA PadGoesWell ==
  ASSUME NEW op, NEW w, NEW i, NEW p, IsWire(w), IsWire(i), PadMakes(op, w, i, p), p.pulse \in Nat, p.len \in Nat,
         NEW calls \in Nat, known \/ (calls + 1) * p.pulse <= p.len,
         NEW state, NEW in, Carried(in, i, calls), StateFits(op, state, <<i>>, calls)
  PROVE  GoesWell(op, w, <<i>>, EvalNode(op, <<in>>, state), calls)
<1> DEFINE result == EvalPad(op, in, state)
           stream == StreamOf(i)
<1>1. EvalNode(op, <<in>>, state) = result
  BY DEF EvalNode, PadMakes
<1>2. PICK pulse, pos : pulse = op.pulse /\ pos = state.pos
  OBVIOUS
<1>3. /\ w.rate = pulse /\ i.rate = pulse /\ i.fact.pulse = pulse /\ w.fact.pulse = pulse
      /\ pulse \in Nat \ {0} /\ pos = calls * pulse /\ pos \in Nat
  <2>1. /\ w.rate = pulse /\ i.rate = pulse /\ i.fact.pulse = pulse /\ w.fact.pulse = pulse
        /\ pulse \in Nat \ {0} /\ pos = calls * pulse
    BY <1>2 DEF PadMakes, Once, StateFits, IsWire, IsFact
  <2> QED
    BY <2>1
<1>4. /\ op.before \in Nat /\ op.after \in Nat /\ op.edge \in BOOLEAN
      /\ i.fact.delay \in Nat /\ i.fact.dim \in Nat /\ w.fact.delay \in Nat /\ w.fact.dim \in Nat
      /\ op.begin_input = i.fact.delay /\ op.end_input = i.fact.delay + i.fact.dim
      /\ w.fact.delay + op.before = i.fact.delay
      /\ w.fact.dim = op.before + i.fact.dim + op.after
      /\ w.fact.delay + w.fact.dim <= UsizeMax
      /\ op.edge => i.fact.dim > 0 /\ InTime(op)
  BY DEF PadMakes, IsWire, IsFact
<1>5. op.symbolic /\ ~ known => pos + pulse <= op.end_input
  <2> SUFFICES ASSUME ~ known PROVE pos + pulse <= op.end_input
    OBVIOUS
  <2>1. calls + 1 \in Nat /\ (calls + 1) * p.pulse <= p.len
    OBVIOUS
  <2>2. (calls + 1) * i.rate <= i.fact.delay + i.fact.dim
    BY <2>1 DEF PadMakes, LongEnough
  <2>3. (calls + 1) * pulse = calls * pulse + pulse
    BY <1>3
  <2>4. (calls + 1) * pulse <= i.fact.delay + i.fact.dim
    BY <1>3, <2>2
  <2> QED
    BY <1>3, <1>4, <2>3, <2>4
<1>6. op.edge /\ pos < op.begin_input /\ pos + op.pulse > op.begin_input - op.before
        => op.begin_input < pos + op.pulse
  BY <1>2, <1>3, <1>4 DEF InTime
<1>7. DOMAIN stream = op.begin_input .. op.end_input - 1
  <2>1. DOMAIN stream = i.fact.delay .. i.fact.delay + i.fact.dim - 1
    BY DEF StreamOf, Shifted
  <2>2. op.end_input - 1 = i.fact.delay + i.fact.dim - 1 /\ op.begin_input = i.fact.delay
    BY <1>4
  <2> HIDE DEF stream
  <2> QED
    BY <2>1, <2>2
<1>8. \A q \in DOMAIN stream : stream[q] # <<"none">>
  <2> SUFFICES ASSUME NEW q \in DOMAIN stream PROVE stream[q] # <<"none">>
    OBVIOUS
  <2>1. q \in i.fact.delay .. i.fact.delay + i.fact.dim - 1 /\ stream[q] = i.content[q - i.fact.delay]
    BY DEF StreamOf, Shifted
  <2>2. q - i.fact.delay \in 0 .. i.fact.dim - 1
    BY <1>4, <2>1
  <2> QED
    BY <2>1, <2>2 DEF IsWire
<1>9. DOMAIN in = 0 .. op.pulse - 1 /\ Late(in, op.pulse, stream, state.pos) /\ LastSeen(op, state, stream)
  BY <1>2, <1>3 DEF Carried, StateFits, PadMakes
<1>10. op.end_input + op.after <= UsizeMax
  BY <1>4
<1> HIDE DEF stream, result
<1>11. /\ result.ok
       /\ DOMAIN result.out = 0 .. op.pulse - 1
       /\ Late(result.out, op.pulse, PadStream(op, stream), state.pos)
       /\ result.state.pos = state.pos + op.pulse
       /\ LastSeen(op, result.state, stream)
  <2>1. /\ op.pulse \in Nat \ {0} /\ op.begin_input \in Nat /\ op.end_input \in Nat
        /\ op.begin_input <= op.end_input
        /\ op.edge => op.begin_input < op.end_input
        /\ state.pos \in Nat
    BY <1>2, <1>3, <1>4
  <2>2. /\ op.symbolic /\ ~ known => state.pos + op.pulse <= op.end_input
        /\ op.edge /\ state.pos < op.begin_input /\ state.pos + op.pulse > op.begin_input - op.before
             => op.begin_input < state.pos + op.pulse
    BY <1>2, <1>5, <1>6
  <2> QED
    BY <1>4, <1>7, <1>8, <1>9, <1>10, <2>1, <2>2, PadIsLate DEF result
<1>12. ASSUME NEW k \in 0 .. w.fact.pulse - 1, NEW x \in 0 .. w.fact.dim - 1,
              calls * w.rate + k = w.fact.delay + x
       PROVE  result.out[k] = w.content[x]
  <2>1. PICK q : q = pos + k
    OBVIOUS
  <2>2. q = w.fact.delay + x
    BY <1>3, <1>12, <2>1
  <2>3. q \in op.begin_input - op.before .. op.end_input + op.after - 1
    BY <1>4, <2>2
  <2>4. result.out[k] = PadStream(op, stream)[q]
    BY <1>2, <1>3, <1>11, <2>1, <2>3 DEF Late, PadStream
  <2>5. w.content[x] = IF x < op.before THEN IF op.edge THEN i.content[0] ELSE <<"pad">>
                       ELSE IF x < op.before + i.fact.dim THEN i.content[x - op.before]
                       ELSE IF op.edge THEN i.content[i.fact.dim - 1] ELSE <<"pad">>
    BY DEF PadMakes
  <2>6. PadStream(op, stream)[q] =
          IF q < op.begin_input THEN IF op.edge THEN stream[op.begin_input] ELSE <<"pad">>
          ELSE IF q < op.end_input THEN stream[q]
          ELSE IF op.edge THEN stream[op.end_input - 1] ELSE <<"pad">>
    BY <2>3 DEF PadStream
  <2>7. ASSUME NEW y \in 0 .. i.fact.dim - 1, NEW r, r = i.fact.delay + y PROVE stream[r] = i.content[y]
    <3>1. r \in i.fact.delay .. i.fact.delay + i.fact.dim - 1 /\ r - i.fact.delay = y
      BY <1>4, <2>7
    <3> QED
      BY <3>1 DEF stream, StreamOf, Shifted
  <2>8. CASE x < op.before
    <3>1. q < op.begin_input
      BY <1>4, <2>2, <2>8
    <3>2. op.edge => stream[op.begin_input] = i.content[0]
      BY <1>4, <2>7
    <3> QED
      BY <2>4, <2>5, <2>6, <2>8, <3>1, <3>2
  <2>9. CASE ~ (x < op.before) /\ x < op.before + i.fact.dim
    <3>1. ~ (q < op.begin_input) /\ q < op.end_input
      BY <1>4, <2>2, <2>9
    <3>2. x - op.before \in 0 .. i.fact.dim - 1 /\ q = i.fact.delay + (x - op.before)
      BY <1>4, <2>2, <2>9
    <3>3. stream[q] = i.content[x - op.before]
      BY <2>7, <3>2
    <3> QED
      BY <2>4, <2>5, <2>6, <2>9, <3>1, <3>3
  <2>10. CASE ~ (x < op.before) /\ ~ (x < op.before + i.fact.dim)
    <3>1. ~ (q < op.begin_input) /\ ~ (q < op.end_input)
      BY <1>4, <2>2, <2>10
    <3>2. op.edge => stream[op.end_input - 1] = i.content[i.fact.dim - 1]
      <4> SUFFICES ASSUME op.edge PROVE stream[op.end_input - 1] = i.content[i.fact.dim - 1]
        OBVIOUS
      <4>1. i.fact.dim - 1 \in 0 .. i.fact.dim - 1 /\ op.end_input - 1 = i.fact.delay + (i.fact.dim - 1)
        BY <1>4
      <4> QED
        BY <2>7, <4>1
    <3> QED
      BY <2>4, <2>5, <2>6, <2>10, <3>1, <3>2
  <2> QED
    BY <2>8, <2>9, <2>10
<1>13. Carried(result.out, w, calls)
  <2>1. DOMAIN result.out = 0 .. w.fact.pulse - 1
    BY <1>2, <1>3, <1>11
  <2> QED
    BY <1>12, <2>1, CarriedFrames
<1>14. StateFits(op, result.state, <<i>>, calls + 1)
  <2>1. (calls + 1) * pulse = calls * pulse + pulse
    BY <1>3
  <2>2. result.state.pos = (calls + 1) * op.pulse
    BY <1>2, <1>3, <1>11, <2>1
  <2> QED
    BY <1>11, <2>2 DEF StateFits, PadMakes, stream
<1> QED
  BY <1>1, <1>11, <1>13, <1>14 DEF GoesWell

(* A frame that a kernel sees is in the stream, if the last one is. *)
LEMMA KernelSpan ==
  ASSUME NEW kernel \in Nat \ {0}, NEW d \in Nat \ {0}, NEW j \in 1 .. kernel
  PROVE  (j - 1) * d \in Nat /\ (kernel - 1) * d \in Nat /\ (j - 1) * d <= (kernel - 1) * d
<1>1. PICK m \in Nat : kernel - 1 = (j - 1) + m
  <2>1. (kernel - 1) - (j - 1) \in Nat /\ kernel - 1 = (j - 1) + ((kernel - 1) - (j - 1))
    OBVIOUS
  <2> QED
    BY <2>1
<1>2. (kernel - 1) * d = (j - 1) * d + m * d /\ m * d \in Nat /\ (j - 1) * d \in Nat
  BY <1>1
<1>3. PICK x, y, z : x = (kernel - 1) * d /\ y = (j - 1) * d /\ z = m * d
  OBVIOUS
<1>4. x = y + z /\ z \in Nat /\ y \in Nat
  BY ONLY <1>2, <1>3
<1>5. x \in Nat /\ y <= x
  BY ONLY <1>4
<1> QED
  BY ONLY <1>3, <1>4, <1>5

LEMMA PoolGoesWell ==
  ASSUME NEW op, NEW w, NEW i, IsWire(w), IsWire(i), PoolMakes(op, w, i), NEW calls \in Nat, NEW state,
         NEW in, Carried(in, i, calls)
  PROVE  GoesWell(op, w, <<i>>, EvalNode(op, <<in>>, state), calls)
<1> DEFINE stream == StreamOf(i)
           frames == DivCeil(Count(in) - KernelLen(op), op.stride)
           out == [k \in 0 .. frames - 1 |-> Pooled(op, in, k * op.stride)]
<1>1. EvalNode(op, <<in>>, state) = [out |-> out, state |-> state, ok |-> TRUE]
  BY DEF EvalNode, Result, PoolMakes
<1>2. PICK s, d, kernel, start, delay, dim, late :
        /\ s = op.stride /\ d = op.dilation /\ kernel = op.kernel /\ start = calls * w.rate
        /\ delay = i.fact.delay /\ dim = i.fact.dim /\ late = w.fact.delay
  OBVIOUS
<1>3. /\ s \in Nat \ {0} /\ d \in Nat \ {0} /\ kernel \in Nat \ {0}
      /\ delay \in Nat /\ dim \in Nat /\ late \in Nat /\ w.rate \in Nat
      /\ delay = late * s /\ i.rate = w.rate * s
      /\ w.fact.dim \in Nat
  BY <1>2 DEF PoolMakes, IsWire, IsFact
<1>4. start \in Nat /\ start * s = calls * i.rate
  <2>1. start = calls * w.rate /\ start \in Nat
    BY <1>2, <1>3
  <2>2. (calls * w.rate) * s = calls * (w.rate * s)
    BY <1>3
  <2> QED
    BY <1>3, <2>1, <2>2
<1>5. Count(in) = i.fact.pulse /\ Count(in) \in Nat
  BY CountOf DEF Carried, IsWire, IsFact
<1>6. DOMAIN out = 0 .. w.fact.pulse - 1
  BY <1>5 DEF PoolMakes
<1>7. Late(in, Count(in), stream, start * op.stride)
  BY <1>2, <1>4, <1>5 DEF Carried
<1> HIDE DEF stream
<1>8. LET result == EvalNode(op, <<in>>, state)
      IN  /\ result.ok /\ result.state = state
          /\ Late(result.out, DivCeil(Count(in) - KernelLen(op), op.stride), PoolStream(op, stream), start)
  BY <1>2, <1>3, <1>4, <1>5, <1>7, PoolIsLate DEF PoolMakes
<1> HIDE DEF out, frames
<1>9. Late(out, w.fact.pulse, PoolStream(op, stream), start)
  BY <1>1, <1>5, <1>8 DEF PoolMakes
<1>10. ASSUME NEW k \in 0 .. w.fact.pulse - 1, NEW x \in 0 .. w.fact.dim - 1,
              calls * w.rate + k = w.fact.delay + x
       PROVE  out[k] = w.content[x]
  <2>1. PICK q : q = start + k
    OBVIOUS
  <2>2. q = late + x /\ q \in Nat /\ x \in Nat
    BY <1>2, <1>3, <1>10, <2>1
  <2>3. x * s + KernelLen(op) < dim /\ w.content[x] = Pooled(op, i.content, x * s)
    BY <1>2 DEF PoolMakes
  <2>4. KernelLen(op) = (kernel - 1) * d
    BY <1>2 DEF KernelLen
  <2>5. ASSUME NEW j \in 1 .. kernel
        PROVE  /\ q * s + (j - 1) * d \in DOMAIN stream
               /\ stream[q * s + (j - 1) * d] = i.content[x * s + (j - 1) * d]
    <3>1. (j - 1) * d \in Nat /\ (kernel - 1) * d \in Nat /\ (j - 1) * d <= (kernel - 1) * d
      BY <1>3, KernelSpan
    <3>2. q * s = late * s + x * s /\ x * s \in Nat
      BY <1>3, <2>2
    <3>3. PICK a, b, last, y : a = x * s /\ b = (j - 1) * d /\ last = (kernel - 1) * d /\ y = q * s
      OBVIOUS
    <3>4. /\ a \in Nat /\ b \in Nat /\ last \in Nat /\ b <= last /\ a + last < dim
          /\ y = delay + a /\ delay \in Nat /\ dim \in Nat
      BY <1>3, <2>3, <2>4, <3>1, <3>2, <3>3
    <3>5. y + b \in delay .. delay + dim - 1 /\ (y + b) - delay = a + b
      BY ONLY <3>4
    <3>6. y + b \in DOMAIN stream /\ stream[y + b] = i.content[a + b]
      BY <1>2, <3>5 DEF stream, StreamOf, Shifted
    <3> QED
      BY <3>3, <3>6
  <2>6. Seen(op, q) \subseteq DOMAIN stream
    BY <1>2, <2>5 DEF Seen
  <2>7. q \in DOMAIN PoolStream(op, stream)
        /\ PoolStream(op, stream)[q] = <<"pool", [j \in 1 .. kernel |-> stream[q * s + (j - 1) * d]]>>
    <3>1. /\ q \in DOMAIN PoolStream(op, stream)
          /\ PoolStream(op, stream)[q]
               = <<"pool", [j \in 1 .. op.kernel |-> stream[q * op.stride + (j - 1) * op.dilation]]>>
      <4>1. q \in {r \in Int : Seen(op, r) \subseteq DOMAIN stream}
        BY <2>2, <2>6
      <4> QED
        BY ONLY <4>1 DEF PoolStream
    <3> QED
      BY <1>2, <3>1
  <2>8. [j \in 1 .. kernel |-> stream[q * s + (j - 1) * d]]
          = [j \in 1 .. kernel |-> i.content[x * s + (j - 1) * d]]
    BY <2>5
  <2>9. Pooled(op, i.content, x * s) = <<"pool", [j \in 1 .. kernel |-> i.content[x * s + (j - 1) * d]]>>
    BY <1>2 DEF Pooled
  <2>10. out[k] = PoolStream(op, stream)[q]
    BY <1>9, <2>1, <2>7 DEF Late
  <2> QED
    BY <2>3, <2>7, <2>8, <2>9, <2>10
<1>11. Carried(out, w, calls)
  BY <1>6, <1>10, CarriedFrames
<1>12. StateFits(op, state, <<i>>, calls + 1)
  BY DEF StateFits, PoolMakes
<1> QED
  BY <1>1, <1>11, <1>12 DEF GoesWell

(* A number of strides. *)
LEMMA DivCeilOfStrides ==
  ASSUME NEW q \in Nat, NEW s \in Nat \ {0}
  PROVE  DivCeil(q * s, s) = q
<1>1. q * s \in Nat
  OBVIOUS
<1>2. PICK a : a = q * s
  OBVIOUS
<1>3. a + s - 1 \in Int /\ a + s - 1 = q * s + (s - 1) /\ s - 1 \in 0 .. s - 1
  BY <1>1, <1>2
<1>4. (a + s - 1) \div s = q
  BY <1>3, DivMod
<1> QED
  BY <1>2, <1>4 DEF DivCeil

LEMMA DownsampleGoesWell ==
  ASSUME NEW op, NEW w, NEW i, IsWire(w), IsWire(i), DownsampleMakes(op, w, i), NEW calls \in Nat, NEW state,
         NEW in, Carried(in, i, calls)
  PROVE  GoesWell(op, w, <<i>>, EvalNode(op, <<in>>, state), calls)
<1> DEFINE stream == StreamOf(i)
           frames == DivCeil(Monus(Count(in), op.modulo), op.stride)
           out == [k \in 0 .. frames - 1 |-> in[op.modulo + k * op.stride]]
<1>1. EvalNode(op, <<in>>, state) = [out |-> out, state |-> state, ok |-> TRUE]
  BY DEF EvalNode, Result, DownsampleMakes
<1>2. PICK s, start, dim, rate : s = op.stride /\ start = calls * w.rate /\ dim = i.fact.dim /\ rate = w.rate
  OBVIOUS
<1>3. /\ s \in Nat \ {0} /\ dim \in Nat /\ rate \in Nat /\ op.modulo = 0
      /\ i.fact.delay = 0 /\ w.fact.delay = 0 /\ i.rate = rate * s /\ i.fact.pulse = rate * s
      /\ w.fact.pulse = rate /\ w.fact.dim \in Nat
  BY <1>2 DEF DownsampleMakes, IsWire, IsFact, Once
<1>4. start \in Nat /\ start * s = calls * i.rate
  <2>1. start = calls * rate /\ start \in Nat
    BY <1>2, <1>3
  <2>2. (calls * rate) * s = calls * (rate * s)
    BY <1>3
  <2> QED
    BY <1>3, <2>1, <2>2
<1>5. Count(in) = i.fact.pulse /\ Count(in) \in Nat
  BY CountOf DEF Carried, IsWire, IsFact
<1>6. frames = w.fact.pulse
  <2>1. Monus(Count(in), op.modulo) = rate * s
    BY <1>3, <1>5 DEF Monus
  <2> QED
    BY <1>2, <1>3, <2>1, DivCeilOfStrides
<1>7. Late(in, Count(in), stream, start * op.stride)
  BY <1>2, <1>4, <1>5 DEF Carried
<1> HIDE DEF stream, frames
<1>8. LET result == EvalNode(op, <<in>>, state)
      IN  /\ result.ok /\ result.state = state
          /\ Late(result.out, DivCeil(Monus(Count(in), op.modulo), op.stride), DownStream(op, stream), start)
  <2>1. op.kind = "Downsample" /\ op.stride \in Nat \ {0} /\ op.modulo \in Nat /\ start \in Int
    BY <1>3, <1>4 DEF DownsampleMakes
  <2> QED
    BY <1>5, <1>7, <2>1, DownsampleIsLate
<1>9. DOMAIN out = 0 .. w.fact.pulse - 1
  BY <1>6
<1> HIDE DEF out
<1>10. Late(out, w.fact.pulse, DownStream(op, stream), start)
  BY <1>1, <1>6, <1>8 DEF frames
<1>11. ASSUME NEW k \in 0 .. w.fact.pulse - 1, NEW x \in 0 .. w.fact.dim - 1,
              calls * w.rate + k = w.fact.delay + x
       PROVE  out[k] = w.content[x]
  <2>1. start + k = x
    BY <1>2, <1>3, <1>11
  <2>2. x * s < dim /\ w.content[x] = i.content[x * s]
    BY <1>2 DEF DownsampleMakes
  <2>3. x * s \in Nat
    BY <1>3
  <2>4. x * s \in DOMAIN stream /\ stream[x * s] = i.content[x * s]
    <3>1. PICK y : y = x * s
      OBVIOUS
    <3>2. y \in 0 .. 0 + dim - 1 /\ y - 0 = y
      BY <1>3, <2>2, <2>3, <3>1
    <3>3. stream = [r \in 0 .. 0 + dim - 1 |-> i.content[r - 0]]
      BY <1>2, <1>3 DEF stream, StreamOf, Shifted
    <3> QED
      BY <3>1, <3>2, <3>3
  <2>5. x \in DOMAIN DownStream(op, stream) /\ DownStream(op, stream)[x] = stream[x * s]
    <3>1. x * op.stride + op.modulo = x * s /\ x \in Int
      BY <1>2, <1>3, <2>3
    <3> QED
      BY <2>4, <3>1 DEF DownStream
  <2>6. out[k] = DownStream(op, stream)[x]
    BY <1>10, <2>1, <2>5 DEF Late
  <2> QED
    BY <2>2, <2>4, <2>5, <2>6
<1>12. Carried(out, w, calls)
  BY <1>9, <1>11, CarriedFrames
<1>13. StateFits(op, state, <<i>>, calls + 1)
  BY DEF StateFits, DownsampleMakes
<1> QED
  BY <1>1, <1>12, <1>13 DEF GoesWell

LEMMA ScanGoesWell ==
  ASSUME NEW op, NEW w, NEW i, IsWire(w), IsWire(i), ScanMakes(op, w, i), NEW calls \in Nat, NEW state,
         NEW in, Carried(in, i, calls), StateFits(op, state, <<i>>, calls)
  PROVE  GoesWell(op, w, <<i>>, EvalNode(op, <<in>>, state), calls)
<1> DEFINE stream == StreamOf(i)
           streams == <<stream>>
           result == EvalScan(op, <<in>>, state)
<1>1. EvalNode(op, <<in>>, state) = result
  BY DEF EvalNode, ScanMakes
<1>2. PICK pulse, pos, skip, dim : pulse = i.fact.pulse /\ pos = state.position /\ skip = op.skip /\ dim = i.fact.dim
  OBVIOUS
<1>3. /\ pulse \in Nat \ {0} /\ skip \in Nat /\ dim \in Nat
      /\ i.fact.delay = skip /\ w.fact.delay = skip /\ i.rate = pulse /\ w.rate = pulse
      /\ w.fact.pulse = pulse /\ w.fact.dim = dim
      /\ pos = calls * pulse /\ pos \in Nat
  <2>1. /\ pulse \in Nat \ {0} /\ skip \in Nat /\ dim \in Nat
        /\ i.fact.delay = skip /\ w.fact.delay = skip /\ i.rate = pulse /\ w.rate = pulse
        /\ w.fact.pulse = pulse /\ w.fact.dim = dim
        /\ pos = calls * pulse
    BY <1>2 DEF ScanMakes, Alike, Once, IsWire, IsFact, StateFits
  <2> QED
    BY <2>1
<1>4. Count(in) = pulse
  BY <1>2, <1>3, CountOf DEF Carried
<1>5. DOMAIN stream = skip .. skip + dim - 1
  BY <1>2, <1>3 DEF StreamOf, Shifted
<1>6. DOMAIN result.out = 0 .. pulse - 1
  BY <1>4 DEF EvalScan, Result
<1>7. Late(in, pulse, stream, pos) /\ Iterated(op, state, streams)
  BY <1>2, <1>3 DEF Carried, StateFits, ScanMakes
<1> HIDE DEF stream, result
<1>8. /\ result.ok
      /\ Late(result.out, pulse, ScanStream(op, streams), pos)
      /\ result.state.position = pos + pulse
      /\ Iterated(op, result.state, streams)
  <2>1. /\ op.skip \in Nat /\ state.position \in Nat /\ Count(<<in>>[1]) = pulse
        /\ DOMAIN streams = 1 .. 1 /\ DOMAIN <<in>> = 1 .. 1
    BY <1>2, <1>3, <1>4
  <2>2. \A k \in 1 .. 1 : DOMAIN streams[k] = op.skip .. op.skip + dim - 1
    BY <1>2, <1>5
  <2>3. \A k \in 1 .. 1 : Late(<<in>>[k], pulse, streams[k], state.position)
    BY <1>2, <1>7
  <2>3a. op.skip \in Nat /\ state.position \in Nat /\ pulse \in Nat \ {0} /\ dim \in Nat
    BY <1>3, <2>1
  <2>4. PICK one, ins, laid : one = 1 /\ ins = <<in>> /\ laid = streams
    OBVIOUS
  <2>5. one \in Nat \ {0} /\ Count(ins[1]) = pulse
    BY <2>1, <2>4
  <2>6. ScanInputs(op, ins, laid, one, dim, pulse, state.position)
    BY <2>1, <2>2, <2>3, <2>4 DEF ScanInputs
  <2>7. Iterated(op, state, laid)
    BY <1>7, <2>4
  <2>8. result = EvalScan(op, ins, state)
    BY <2>4 DEF result
  <2> HIDE DEF streams
  <2>9. LET r == EvalScan(op, ins, state)
        IN  /\ r.ok
            /\ Late(r.out, pulse, ScanStream(op, laid), state.position)
            /\ r.state.position = state.position + pulse
            /\ Iterated(op, r.state, laid)
    BY ONLY <2>3a, <2>5, <2>6, <2>7, ScanIsLate
  <2> QED
    BY <1>2, <2>4, <2>8, <2>9
<1>9. ASSUME NEW k \in 0 .. w.fact.pulse - 1, NEW x \in 0 .. w.fact.dim - 1,
             calls * w.rate + k = w.fact.delay + x
      PROVE  result.out[k] = w.content[x]
  <2>1. PICK q : q = pos + k
    OBVIOUS
  <2>2. q = skip + x /\ q \in skip .. skip + dim - 1 /\ x \in Nat
    BY <1>3, <1>9, <2>1
  <2>3. ScanStream(op, streams)[q] = <<"scan", [j \in 1 .. q - skip + 1 |-> Across(streams, skip + j - 1)]>>
        /\ q \in DOMAIN ScanStream(op, streams)
    BY <1>2, <1>5, <2>2 DEF ScanStream, ScanFrame
  <2>4. w.content[x] = <<"scan", [j \in 1 .. x + 1 |-> Across(<<i.content>>, j - 1)]>>
    BY DEF ScanMakes
  <2>5. ASSUME NEW j \in 1 .. x + 1
        PROVE  Across(streams, skip + j - 1) = Across(<<i.content>>, j - 1)
    <3>1. skip + j - 1 \in skip .. skip + dim - 1 /\ (skip + j - 1) - skip = j - 1
      BY <1>3, <2>2
    <3>2. stream[skip + j - 1] = i.content[j - 1]
      BY <1>2, <1>3, <3>1 DEF stream, StreamOf, Shifted
    <3>3. DOMAIN streams = {1} /\ DOMAIN <<i.content>> = {1}
      OBVIOUS
    <3> QED
      BY <3>2, <3>3 DEF Across
  <2>6. q - skip + 1 = x + 1
    BY <1>3, <2>2
  <2>7. [j \in 1 .. q - skip + 1 |-> Across(streams, skip + j - 1)]
          = [j \in 1 .. x + 1 |-> Across(<<i.content>>, j - 1)]
    <3> HIDE DEF streams
    <3> QED
      BY <2>5, <2>6
  <2>8. result.out[k] = ScanStream(op, streams)[q]
    <3> HIDE DEF streams
    <3> QED
      BY <1>3, <1>8, <2>1, <2>3 DEF Late
  <2> QED
    BY <2>3, <2>4, <2>7, <2>8
<1>10. Carried(result.out, w, calls)
  <2>1. DOMAIN result.out = 0 .. w.fact.pulse - 1
    BY <1>3, <1>6
  <2> QED
    BY <1>9, <2>1, CarriedFrames
<1>11. StateFits(op, result.state, <<i>>, calls + 1)
  <2>1. (calls + 1) * pulse = calls * pulse + pulse
    BY <1>3
  <2>2. result.state.position = (calls + 1) * i.fact.pulse
    BY <1>2, <1>3, <1>8, <2>1
  <2>3. <<StreamOf(<<i>>[1])>> = streams
    BY DEF stream
  <2> QED
    BY <1>8, <2>2, <2>3 DEF StateFits, ScanMakes
<1> QED
  BY <1>1, <1>8, <1>10, <1>11 DEF GoesWell

(* The inputs of a node are carried. *)
AllCarried(given, ins, calls) ==
  /\ DOMAIN given = DOMAIN ins
  /\ \A k \in DOMAIN ins : IsWire(ins[k]) /\ Carried(given[k], ins[k], calls)

(* The chunk that is fed. *)
ChunkFits(p, calls) ==
  /\ DOMAIN chunk = 0 .. p.pulse - 1
  /\ \A k \in 0 .. p.pulse - 1 : calls * p.pulse + k < p.len => chunk[k] = <<"x", calls * p.pulse + k>>
  /\ known \/ (calls + 1) * p.pulse <= p.len

(* Whatever it is, a node that is wired as it must be gives its content late, *)
(* call after call.                                                           *)
LEMMA NodeGoesWell ==
  ASSUME NEW op, NEW w, NEW ins, NEW p, IsWire(w), Makes(op, w, ins, p), p.pulse \in Nat, p.len \in Nat,
         NEW calls \in Nat, ChunkFits(p, calls), NEW given, given = [k \in DOMAIN ins |-> given[k]],
         AllCarried(given, ins, calls),
         NEW state, StateFits(op, state, ins, calls)
  PROVE  GoesWell(op, w, ins, EvalNode(op, given, state), calls)
<1>1. CASE ins = <<>> /\ SourceMakes(op, w, p)
  <2>1. given = <<>>
    BY <1>1
  <2> QED
    BY <1>1, <2>1, SourceGoesWell DEF ChunkFits
<1>2. CASE ins = <<ins[1]>> /\ \/ MapMakes(op, w, ins[1])
                               \/ SliceMakes(op, w, ins[1])
                               \/ DelayMakes(op, w, ins[1])
                               \/ PadMakes(op, w, ins[1], p)
                               \/ PoolMakes(op, w, ins[1])
                               \/ DownsampleMakes(op, w, ins[1])
                               \/ ScanMakes(op, w, ins[1])
  <2>1. PICK i, in : i = ins[1] /\ in = given[1]
    OBVIOUS
  <2>2. ins = <<i>> /\ DOMAIN ins = {1}
    BY <1>2, <2>1
  <2>3. given = <<in>>
    BY <2>1, <2>2
  <2>4. IsWire(i) /\ Carried(in, i, calls) /\ StateFits(op, state, <<i>>, calls)
    BY <2>1, <2>2 DEF AllCarried
  <2>5. GoesWell(op, w, <<i>>, EvalNode(op, <<in>>, state), calls)
    <3>1. CASE MapMakes(op, w, i)
      BY <2>4, <3>1, MapGoesWell
    <3>2. CASE SliceMakes(op, w, i)
      BY <2>4, <3>2, SliceGoesWell
    <3>3. CASE DelayMakes(op, w, i)
      BY <2>4, <3>3, DelayGoesWell
    <3>4. CASE PadMakes(op, w, i, p)
      BY <2>4, <3>4, PadGoesWell DEF ChunkFits
    <3>5. CASE PoolMakes(op, w, i)
      BY <2>4, <3>5, PoolGoesWell
    <3>6. CASE DownsampleMakes(op, w, i)
      BY <2>4, <3>6, DownsampleGoesWell
    <3>7. CASE ScanMakes(op, w, i)
      BY <2>4, <3>7, ScanGoesWell
    <3> QED
      BY <1>2, <2>1, <3>1, <3>2, <3>3, <3>4, <3>5, <3>6, <3>7
  <2> QED
    BY <2>2, <2>3, <2>5
<1>3. CASE ins = <<ins[1], ins[2]>> /\ BinaryMakes(op, w, ins[1], ins[2])
  <2>1. PICK i, j, a, b : i = ins[1] /\ j = ins[2] /\ a = given[1] /\ b = given[2]
    OBVIOUS
  <2>2. ins = <<i, j>> /\ DOMAIN ins = {1, 2}
    BY <1>3, <2>1
  <2>3. given = <<a, b>>
    BY <2>1, <2>2
  <2>4. IsWire(i) /\ Carried(a, i, calls) /\ IsWire(j) /\ Carried(b, j, calls)
    BY <2>1, <2>2 DEF AllCarried
  <2>5. GoesWell(op, w, <<i, j>>, EvalNode(op, <<a, b>>, state), calls)
    BY <1>3, <2>1, <2>4, BinaryGoesWell
  <2> QED
    BY <2>2, <2>3, <2>5
<1> QED
  BY <1>1, <1>2, <1>3 DEF Makes


-----------------------------------------------------------------------------
(* The wires of a pulsed model, with what they stand for.                  *)

(* A Delay gives again the frames that the next operator overlaps. *)
Rate(m, n) == FactOf(m, n).pulse - IF m.nodes[n].op.kind = "Delay" THEN m.nodes[n].op.overlap ELSE 0

WireAt(m, c, n) == [fact |-> FactOf(m, n), rate |-> Rate(m, n), content |-> c[n]]

WiresAt(m, c, n) == [k \in DOMAIN m.nodes[n].op.inputs |-> WireAt(m, c, m.nodes[n].op.inputs[k])]

(* A node reads nodes before it, and makes what its wire stands for. *)
NodeWired(m, c, n, p) ==
  /\ IsWire(WireAt(m, c, n))
  /\ \A k \in DOMAIN m.nodes[n].op.inputs : m.nodes[n].op.inputs[k] \in 1 .. n - 1
  /\ Makes(m.nodes[n].op, WireAt(m, c, n), WiresAt(m, c, n), p)

WellWired(m, c, p) ==
  /\ p.pulse \in Nat \ {0} /\ p.len \in Nat
  /\ LastOf(m) \in Nat \ {0} /\ Long(m.nodes, LastOf(m))
  /\ \A n \in 1 .. LastOf(m) : NodeWired(m, c, n, p)

(* The outlets stand for the nodes of the source model, the last one for the last. *)
StandsFor(m, c, outs) ==
  /\ Len(outs) \in Nat \ {0} /\ DOMAIN outs = 1 .. Len(outs)
  /\ m.outlet[Len(outs)] = LastOf(m)
  /\ \A s \in DOMAIN outs : /\ m.outlet[s] \in 1 .. LastOf(m)
                            /\ outs[s] = c[m.outlet[s]]
                            /\ Once(WireAt(m, c, m.outlet[s]))

(* How often a node was evaluated. *)
Calls(n) == IF status = "running" /\ n > Len(wires) THEN fed - 1 ELSE fed

(* How many runs have ended. *)
Runs == IF status = "running" THEN fed - 1 ELSE fed

(* A feeding of the stream at any moment, for contents c of the wires: what is *)
(* known of the end, the chunk, the wires, the states, what has come out.      *)
FeedFits ==
  /\ fed \in Nat /\ known \in BOOLEAN /\ (known \/ fed * problem.pulse <= problem.len)
  /\ status \in {"waiting", "running", "done"}
  /\ status = "running" => fed > 0 /\ ChunkFits(problem, fed - 1)

WiresCarry(c) ==
  /\ Len(wires) \in Nat /\ Long(wires, Len(wires))
  /\ IF status = "running" THEN Len(wires) < LastOf(model)
                           ELSE Len(wires) = IF fed = 0 THEN 0 ELSE LastOf(model)
  /\ \A n \in 1 .. Len(wires) : Carried(wires[n], WireAt(model, c, n), fed - 1)

StatesFit(c) ==
  /\ DOMAIN states = 1 .. LastOf(model)
  /\ \A n \in 1 .. LastOf(model) :
       StateFits(model.nodes[n].op, states[n], WiresAt(model, c, n), Calls(n))

(* What has come out of the last node, by position. *)
CameOut(frames, n, w) ==
  /\ Long(frames, n)
  /\ \A q \in 0 .. n - 1 : q \in DOMAIN StreamOf(w) => frames[q + 1] = StreamOf(w)[q]

GotFits(c) == CameOut(got, Runs * OutputFactOf.pulse, WireAt(model, c, LastOf(model)))

Fits(c) ==
  /\ WellWired(model, c, problem) /\ StandsFor(model, c, meaning)
  /\ FeedFits /\ WiresCarry(c) /\ StatesFit(c) /\ GotFits(c)

(* One more of a sequence. *)
LEMMA AppendedOne ==
  ASSUME NEW n \in Nat, NEW f, Long(f, n), NEW x
  PROVE  /\ Len(f) = n /\ Len(Append(f, x)) = n + 1 /\ Long(Append(f, x), n + 1)
         /\ \A i \in 1 .. n : Append(f, x)[i] = f[i]
         /\ Append(f, x)[n + 1] = x
<1> DEFINE S == {f[i] : i \in 1 .. n} \cup {x}
<1>1. f \in [1 .. n -> S] /\ x \in S
  BY DEF Long
<1> HIDE DEF S
<1>2. f \in Seq(S) /\ DOMAIN f = 1 .. n
  BY <1>1, SeqDef
<1>3. Len(f) = n
  BY <1>2, LenProperties
<1>4. /\ Append(f, x) \in Seq(S) /\ Len(Append(f, x)) = n + 1
      /\ \A i \in 1 .. n : Append(f, x)[i] = f[i]
      /\ Append(f, x)[n + 1] = x
  BY <1>1, <1>2, <1>3, AppendProperties
<1>5. Append(f, x) \in [1 .. n + 1 -> S]
  BY <1>4, LenProperties
<1>6. Append(f, x) = [i \in 1 .. n + 1 |-> Append(f, x)[i]]
  BY <1>5
<1> QED
  BY <1>3, <1>4, <1>6 DEF Long

(* What a node reads and makes. *)
LEMMA WiredNode ==
  ASSUME NEW m, NEW c, NEW p, WellWired(m, c, p), NEW n \in 1 .. LastOf(m)
  PROVE  /\ IsWire(WireAt(m, c, n)) /\ Makes(m.nodes[n].op, WireAt(m, c, n), WiresAt(m, c, n), p)
         /\ DOMAIN WiresAt(m, c, n) = DOMAIN m.nodes[n].op.inputs
         /\ \A k \in DOMAIN m.nodes[n].op.inputs :
              /\ m.nodes[n].op.inputs[k] \in 1 .. n - 1 /\ m.nodes[n].op.inputs[k] \in 1 .. LastOf(m)
              /\ WiresAt(m, c, n)[k] = WireAt(m, c, m.nodes[n].op.inputs[k])
              /\ IsWire(WireAt(m, c, m.nodes[n].op.inputs[k]))
<1>1. NodeWired(m, c, n, p) /\ LastOf(m) \in Nat
  BY DEF WellWired
<1>2. DOMAIN WiresAt(m, c, n) = DOMAIN m.nodes[n].op.inputs
  BY DEF WiresAt
<1>3. ASSUME NEW k \in DOMAIN m.nodes[n].op.inputs
      PROVE  /\ m.nodes[n].op.inputs[k] \in 1 .. n - 1 /\ m.nodes[n].op.inputs[k] \in 1 .. LastOf(m)
             /\ WiresAt(m, c, n)[k] = WireAt(m, c, m.nodes[n].op.inputs[k])
             /\ IsWire(WireAt(m, c, m.nodes[n].op.inputs[k]))
  <2>1. PICK i : i = m.nodes[n].op.inputs[k]
    OBVIOUS
  <2>2. i \in 1 .. n - 1
    BY <1>1, <2>1 DEF NodeWired
  <2>3. i \in 1 .. LastOf(m)
    BY <1>1, <2>2
  <2>4. IsWire(WireAt(m, c, i))
    BY <2>3 DEF WellWired, NodeWired
  <2> QED
    BY <2>1, <2>2, <2>3, <2>4 DEF WiresAt
<1> QED
  BY <1>1, <1>2, <1>3 DEF NodeWired

(* Before the first chunk, whatever a node remembers is before its input. *)
LEMMA FreshFits ==
  ASSUME NEW op, NEW w, NEW ins, NEW p, Makes(op, w, ins, p), \A k \in DOMAIN ins : IsWire(ins[k])
  PROVE  StateFits(op, FreshState(op), ins, 0)
<1>1. CASE op.kind \notin {"Delay", "PulsePad", "Scan"}
  BY <1>1 DEF StateFits
<1>2. CASE op.kind \in {"Delay", "PulsePad", "Scan"}
  <2>1. PICK i : i = ins[1]
    OBVIOUS
  <2>2. ins = <<i>> /\ (DelayMakes(op, w, i) \/ PadMakes(op, w, i, p) \/ ScanMakes(op, w, i))
    BY <1>2, <2>1 DEF Makes, SourceMakes, MapMakes, SliceMakes, PoolMakes, DownsampleMakes, BinaryMakes
  <2>3. IsWire(i)
    BY <2>2
  <2>4. PICK delay, dim, rate : delay = i.fact.delay /\ dim = i.fact.dim /\ rate = i.rate
    OBVIOUS
  <2>5. delay \in Nat /\ dim \in Nat /\ rate \in Nat /\ i.fact.pulse \in Nat
    BY <2>3, <2>4 DEF IsWire, IsFact
  <2>6. \A q \in DOMAIN StreamOf(i) : q \in Nat
    BY <2>4, <2>5 DEF StreamOf, Shifted
  <2>7. ins[1] = i
    BY <2>1
  <2>8. CASE DelayMakes(op, w, i)
    <3>1. op.kind = "Delay" /\ Buffered(op) \in Nat
      BY <2>8 DEF DelayMakes, Buffered
    <3>2. Holds(op, FreshState(op), InRows(StreamOf(i)), 0)
      BY <2>6, <3>1 DEF Holds, InRows
    <3>3. 0 * i.rate = 0
      BY <2>4, <2>5
    <3> QED
      BY <2>7, <3>1, <3>2, <3>3 DEF StateFits
  <2>9. CASE PadMakes(op, w, i, p)
    <3>1. op.kind = "PulsePad" /\ op.pulse \in Nat /\ op.end_input \in Nat
      BY <2>4, <2>5, <2>9 DEF PadMakes
    <3>2. FreshState(op).pos = 0 * op.pulse /\ FreshState(op).pos = 0
      BY <3>1 DEF FreshState
    <3>3. Least(op.end_input, FreshState(op).pos) - 1 = -1
      BY <3>1, <3>2 DEF Least
    <3>4. LastSeen(op, FreshState(op), StreamOf(i))
      BY <2>6, <3>3 DEF LastSeen
    <3> QED
      BY <2>7, <3>1, <3>2, <3>4 DEF StateFits
  <2>10. CASE ScanMakes(op, w, i)
    <3>1. op.kind = "Scan" /\ op.skip \in Nat
      BY <2>4, <2>5, <2>10 DEF ScanMakes
    <3>2. FreshState(op) = [position |-> 0, hidden |-> <<>>]
      BY <3>1 DEF FreshState
    <3>3. FreshState(op).position = 0 /\ FreshState(op).hidden = <<>> /\ 0 * i.fact.pulse = 0
      BY <2>5, <3>2
    <3>4. Monus(0, op.skip) = 0
      BY <3>1 DEF Monus
    <3>5. Iterated(op, FreshState(op), <<StreamOf(i)>>)
      BY <3>3, <3>4 DEF Iterated, Long
    <3> QED
      BY <2>7, <3>1, <3>3, <3>5 DEF StateFits
  <2> QED
    BY <2>2, <2>8, <2>9, <2>10
<1> QED
  BY <1>1, <1>2

LEMMA InitFits ==
  ASSUME NEW c, Init, WellWired(model, c, problem), StandsFor(model, c, meaning)
  PROVE  Fits(c)
<1>0. LastOf(model) \in Nat \ {0} /\ Long(model.nodes, LastOf(model))
  BY DEF WellWired
<1>1. FeedFits
  <2>1. 0 * problem.pulse = 0 /\ problem.len \in Nat
    BY DEF WellWired
  <2>2. fed = 0 /\ known = FALSE /\ status = "waiting"
    BY DEF Init
  <2>3. fed * problem.pulse <= problem.len
    BY <2>1, <2>2
  <2> QED
    BY <2>2, <2>3 DEF FeedFits
<1>2. WiresCarry(c)
  <2>1. Len(wires) = 0 /\ wires = <<>> /\ fed = 0 /\ status = "waiting"
    BY DEF Init
  <2> QED
    BY <2>1 DEF WiresCarry, Long
<1>3. StatesFit(c)
  <2>1. DOMAIN model.nodes = 1 .. LastOf(model)
    BY <1>0 DEF Long
  <2>2. ASSUME NEW n \in 1 .. LastOf(model)
        PROVE  StateFits(model.nodes[n].op, states[n], WiresAt(model, c, n), Calls(n))
    <3>1. states[n] = FreshState(model.nodes[n].op)
      BY <2>1 DEF Init
    <3>2. Calls(n) = 0
      BY DEF Calls, Init
    <3>3. /\ Makes(model.nodes[n].op, WireAt(model, c, n), WiresAt(model, c, n), problem)
          /\ \A k \in DOMAIN WiresAt(model, c, n) : IsWire(WiresAt(model, c, n)[k])
      BY WiredNode
    <3> QED
      BY <3>1, <3>2, <3>3, FreshFits
  <2>3. DOMAIN states = 1 .. LastOf(model)
    BY <2>1 DEF Init
  <2> QED
    BY <2>2, <2>3 DEF StatesFit
<1>4. GotFits(c)
  <2>1. OutputFactOf.pulse \in Nat
    <3>1. IsWire(WireAt(model, c, LastOf(model)))
      BY <1>0, WiredNode
    <3> QED
      BY <3>1 DEF WireAt, OutputFactOf, IsWire, IsFact
  <2>2. Runs * OutputFactOf.pulse = 0
    BY <2>1 DEF Runs, Init
  <2>3. got = <<>>
    BY DEF Init
  <2> QED
    BY <2>2, <2>3 DEF GotFits, CameOut, Long
<1> QED
  BY <1>1, <1>2, <1>3, <1>4 DEF Fits

(* A chunk is fed. *)
LEMMA FeedKeeps ==
  ASSUME NEW c, Fits(c), Feed
  PROVE  Fits(c)'
<1>0. /\ UNCHANGED <<problem, meaning, model, states, got>> /\ wires' = <<>> /\ fed' = fed + 1
      /\ status = "waiting" /\ status' = "running"
  BY DEF Feed, FeedChunk, FeedLast, FeedFiller, Begin
<1>1. /\ problem.pulse \in Nat \ {0} /\ problem.len \in Nat /\ fed \in Nat
      /\ LastOf(model) \in Nat \ {0}
  BY DEF Fits, WellWired, FeedFits
<1>2. WellWired(model, c, problem)' /\ StandsFor(model, c, meaning)'
  BY <1>0 DEF Fits
<1>3. PICK p, n, at : p = problem.pulse /\ n = problem.len /\ at = fed * problem.pulse
  OBVIOUS
<1>4. at \in Nat /\ (fed + 1) * p = at + p /\ Fed = at
  <2>1. p \in Nat /\ at = fed * p
    BY <1>1, <1>3
  <2>2. fed * p \in Nat /\ (fed + 1) * p = fed * p + p
    BY <1>1, <2>1
  <2> QED
    BY <1>3, <2>1, <2>2 DEF Fed
<1>5. FeedFits'
  <2>1. PICK frames : /\ frames \in Int
                      /\ chunk' = [k \in 0 .. p - 1 |-> IF k < frames THEN <<"x", Fed + k>> ELSE Garbage]
                      /\ \A k \in 0 .. p - 1 : at + k < n => k < frames
                      /\ known' \in BOOLEAN /\ (known' \/ at + p <= n)
    <3>1. CASE FeedChunk
      <4>1. known' \in BOOLEAN /\ at + p <= n
        BY <1>3, <1>4, <3>1 DEF FeedChunk, Fits, FeedFits
      <4>2. chunk' = [k \in 0 .. p - 1 |-> IF k < p THEN <<"x", Fed + k>> ELSE Garbage]
        BY <1>3, <3>1 DEF FeedChunk, Begin
      <4>3. p \in Int /\ \A k \in 0 .. p - 1 : at + k < n => k < p
        BY <1>1, <1>3
      <4> QED
        BY <4>1, <4>2, <4>3
    <3>2. CASE FeedLast
      <4>1. known' = TRUE
        BY <3>2 DEF FeedLast
      <4>2. chunk' = [k \in 0 .. p - 1 |-> IF k < n - at THEN <<"x", Fed + k>> ELSE Garbage]
        BY <1>3, <1>4, <3>2 DEF FeedLast, Begin
      <4>3. n - at \in Int /\ \A k \in 0 .. p - 1 : at + k < n => k < n - at
        BY <1>1, <1>3, <1>4
      <4> QED
        BY <4>1, <4>2, <4>3
    <3>3. CASE FeedFiller
      <4>1. known' \in BOOLEAN /\ known' /\ at > n
        <5>1. at > n /\ known' = known
          BY <1>3, <1>4, <3>3 DEF FeedFiller
        <5>2. known \in BOOLEAN /\ (known \/ at <= n)
          BY <1>3 DEF Fits, FeedFits
        <5>3. ~ (at <= n)
          BY <1>1, <1>3, <1>4, <5>1
        <5> QED
          BY <5>1, <5>2, <5>3
      <4>2. chunk' = [k \in 0 .. p - 1 |-> IF k < 0 THEN <<"x", Fed + k>> ELSE Garbage]
        BY <1>3, <3>3 DEF FeedFiller, Begin
      <4>3. \A k \in 0 .. p - 1 : at + k < n => k < 0
        BY <1>1, <1>3, <1>4, <4>1
      <4> QED
        BY <4>1, <4>2, <4>3
    <3> QED
      BY <3>1, <3>2, <3>3 DEF Feed
  <2>2. \A k \in 0 .. p - 1 : at + k < n => chunk'[k] = <<"x", at + k>>
    BY <1>4, <2>1
  <2>3. /\ DOMAIN chunk' = 0 .. problem'.pulse - 1
        /\ \A k \in 0 .. problem'.pulse - 1 :
             (fed' - 1) * problem'.pulse + k < problem'.len => chunk'[k] = <<"x", (fed' - 1) * problem'.pulse + k>>
        /\ known' \/ ((fed' - 1) + 1) * problem'.pulse <= problem'.len
    <3>1. fed' - 1 = fed /\ (fed' - 1) + 1 = fed + 1 /\ problem' = problem
      BY <1>0, <1>1
    <3> QED
      BY <1>3, <1>4, <2>1, <2>2, <3>1
  <2>4. fed' \in Nat /\ fed' > 0 /\ (known' \/ fed' * problem'.pulse <= problem'.len)
    BY <1>0, <1>1, <1>3, <1>4, <2>1
  <2> QED
    BY <1>0, <2>1, <2>3, <2>4 DEF FeedFits, ChunkFits
<1>6. WiresCarry(c)'
  BY <1>0, <1>1 DEF WiresCarry, Long
<1>7. StatesFit(c)'
  <2>1. ASSUME NEW k \in 1 .. LastOf(model)
        PROVE  Calls(k)' = Calls(k)
    BY <1>0, <1>1 DEF Calls
  <2>2. \A k \in 1 .. LastOf(model) : StateFits(model.nodes[k].op, states[k], WiresAt(model, c, k), Calls(k)')
    BY <2>1 DEF Fits, StatesFit
  <2> QED
    BY <1>0, <2>2 DEF Fits, StatesFit
<1>8. GotFits(c)'
  <2>1. Runs' = Runs
    BY <1>0, <1>1 DEF Runs
  <2> QED
    BY <1>0, <2>1 DEF Fits, GotFits, OutputFactOf
<1> QED
  BY <1>2, <1>5, <1>6, <1>7, <1>8 DEF Fits

(* What came out, and one more chunk. *)
LEMMA MoreCameOut ==
  ASSUME NEW w, IsWire(w), Once(w), NEW calls \in Nat, NEW frames,
         CameOut(frames, calls * w.fact.pulse, w), NEW out, Carried(out, w, calls)
  PROVE  CameOut(frames \o [k \in 1 .. Count(out) |-> out[k - 1]], (calls + 1) * w.fact.pulse, w)
<1>1. PICK pulse, n : pulse = w.fact.pulse /\ n = calls * w.fact.pulse
  OBVIOUS
<1>2. pulse \in Nat \ {0} /\ n \in Nat /\ (calls + 1) * pulse = n + pulse /\ calls * w.rate = n
  <2>1. pulse \in Nat \ {0} /\ w.rate = pulse
    BY <1>1 DEF IsWire, IsFact, Once
  <2>2. calls * pulse \in Nat /\ (calls + 1) * pulse = calls * pulse + pulse
    BY <2>1
  <2> QED
    BY <1>1, <2>1, <2>2
<1>3. Count(out) = pulse
  BY <1>1, <1>2, CountOf DEF Carried
<1>4. Late(out, pulse, StreamOf(w), n)
  BY <1>1, <1>2 DEF Carried
<1> DEFINE more == [k \in 1 .. pulse |-> out[k - 1]]
           all == frames \o more
<1>5. AppendOf(all, frames, n, more, pulse)
  <2>1. Long(more, pulse)
    BY DEF Long
  <2>2. Long(frames, n)
    BY <1>1 DEF CameOut
  <2> HIDE DEF more
  <2> QED
    BY <1>2, <2>1, <2>2, Appended
<1> HIDE DEF all
<1>6. PICK total : total = n + pulse
  OBVIOUS
<1>7. ASSUME NEW q \in 0 .. total - 1, q \in DOMAIN StreamOf(w)
      PROVE  all[q + 1] = StreamOf(w)[q]
  <2>1. CASE q < n
    <3>1. q \in 0 .. n - 1 /\ q + 1 \in 1 .. n
      BY <1>2, <1>6, <2>1
    <3>2. frames[q + 1] = StreamOf(w)[q]
      BY <1>1, <1>7, <3>1 DEF CameOut
    <3> QED
      BY <1>5, <3>1, <3>2 DEF AppendOf
  <2>2. CASE ~ (q < n)
    <3>1. PICK k : k = q - n
      OBVIOUS
    <3>2. k \in 0 .. pulse - 1 /\ n + k = q /\ k + 1 \in 1 .. pulse /\ n + (k + 1) = q + 1 /\ (k + 1) - 1 = k
      BY <1>2, <1>6, <2>2, <3>1
    <3>3. out[k] = StreamOf(w)[q]
      BY <1>4, <1>7, <3>2 DEF Late
    <3>4. all[q + 1] = more[k + 1] /\ more[k + 1] = out[k]
      BY <1>5, <3>2 DEF AppendOf
    <3> QED
      BY <3>3, <3>4
  <2> QED
    BY <2>1, <2>2
<1>8. Long(all, total)
  BY <1>5, <1>6 DEF AppendOf
<1>9. CameOut(all, total, w)
  BY <1>7, <1>8 DEF CameOut
<1>10. all = frames \o [k \in 1 .. Count(out) |-> out[k - 1]] /\ (calls + 1) * w.fact.pulse = total
  BY <1>1, <1>2, <1>3, <1>6 DEF all
<1> QED
  BY <1>9, <1>10

(* The next node of a run goes well. *)
LEMMA RunGoesWell ==
  ASSUME NEW c, Fits(c), status = "running", NEW n, n = Len(wires) + 1
  PROVE  /\ n \in 1 .. LastOf(model)
         /\ GoesWell(model.nodes[n].op, WireAt(model, c, n), WiresAt(model, c, n),
                     EvalNode(model.nodes[n].op,
                              [i \in DOMAIN model.nodes[n].op.inputs |-> wires[model.nodes[n].op.inputs[i]]],
                              states[n]),
                     fed - 1)
<1> DEFINE op == model.nodes[n].op
           given == [i \in DOMAIN op.inputs |-> wires[op.inputs[i]]]
           ins == WiresAt(model, c, n)
           w == WireAt(model, c, n)
<1>1. /\ problem.pulse \in Nat /\ problem.len \in Nat /\ fed \in Nat /\ fed > 0
      /\ LastOf(model) \in Nat /\ Len(wires) \in Nat /\ Len(wires) < LastOf(model)
      /\ ChunkFits(problem, fed - 1) /\ WellWired(model, c, problem)
  BY DEF Fits, WellWired, FeedFits, WiresCarry
<1>2. n \in 1 .. LastOf(model) /\ n > Len(wires) /\ n - 1 = Len(wires)
  BY <1>1
<1>3. /\ IsWire(w) /\ Makes(op, w, ins, problem)
      /\ DOMAIN ins = DOMAIN op.inputs
  BY <1>1, <1>2, WiredNode
<1>4. ASSUME NEW k \in DOMAIN ins PROVE IsWire(ins[k]) /\ Carried(given[k], ins[k], fed - 1)
  <2>1. PICK i : i = op.inputs[k]
    OBVIOUS
  <2>2. i \in 1 .. n - 1 /\ ins[k] = WireAt(model, c, i) /\ IsWire(WireAt(model, c, i))
    BY <1>1, <1>2, <1>3, <2>1, WiredNode
  <2>3. Carried(wires[i], WireAt(model, c, i), fed - 1)
    BY <1>2, <2>2 DEF Fits, WiresCarry
  <2> QED
    BY <1>3, <2>1, <2>2, <2>3
<1>5. AllCarried(given, ins, fed - 1) /\ given = [k \in DOMAIN ins |-> given[k]]
  BY <1>3, <1>4 DEF AllCarried
<1>6. Calls(n) = fed - 1
  BY <1>2 DEF Calls
<1>7. StateFits(op, states[n], ins, fed - 1)
  BY <1>2, <1>6 DEF Fits, StatesFit
<1>8. fed - 1 \in Nat
  BY <1>1
<1> HIDE DEF op, given, ins, w
<1>9. GoesWell(op, w, ins, EvalNode(op, given, states[n]), fed - 1)
  BY <1>1, <1>3, <1>5, <1>7, <1>8, NodeGoesWell
<1> QED
  BY <1>2, <1>9 DEF op, given, ins, w

(* A node is evaluated. *)
LEMMA RunKeeps ==
  ASSUME NEW c, Fits(c), RunNode
  PROVE  Fits(c)'
<1>1. PICK n : n = Len(wires) + 1
  OBVIOUS
<1> DEFINE op == model.nodes[n].op
           r == EvalNode(op, [i \in DOMAIN op.inputs |-> wires[op.inputs[i]]], states[n])
           ends == n = LastOf(model)
<1>2. n \in 1 .. LastOf(model) /\ GoesWell(op, WireAt(model, c, n), WiresAt(model, c, n), r, fed - 1)
  BY <1>1, RunGoesWell DEF RunNode
<1>3. r.ok /\ Carried(r.out, WireAt(model, c, n), fed - 1)
      /\ StateFits(op, r.state, WiresAt(model, c, n), (fed - 1) + 1)
  BY <1>2 DEF GoesWell
<1>4. /\ status = "running"
      /\ states' = [states EXCEPT ![n] = r.state]
      /\ wires' = Append(wires, r.out)
      /\ got' = IF ends THEN got \o [k \in 1 .. Count(r.out) |-> r.out[k - 1]] ELSE got
      /\ IF ends THEN status' \in {"done", "waiting"} ELSE status' = "running"
      /\ UNCHANGED <<problem, meaning, model, fed, known, chunk>>
  BY <1>1, <1>3 DEF RunNode
<1> HIDE DEF r, op
<1>5. /\ problem.pulse \in Nat \ {0} /\ problem.len \in Nat /\ fed \in Nat /\ fed > 0
      /\ LastOf(model) \in Nat \ {0} /\ Len(wires) \in Nat /\ Len(wires) < LastOf(model)
      /\ Long(wires, Len(wires)) /\ ChunkFits(problem, fed - 1)
  BY <1>4 DEF Fits, WellWired, FeedFits, WiresCarry
<1>6. /\ Len(wires) = n - 1 /\ Len(wires') = n /\ Long(wires', n)
      /\ \A i \in 1 .. n - 1 : wires'[i] = wires[i]
      /\ wires'[n] = r.out
  <2>1. PICK m : m = Len(wires)
    OBVIOUS
  <2>2. m \in Nat /\ Long(wires, m) /\ m + 1 = n /\ n - 1 = m
    BY <1>1, <1>5, <2>1
  <2> QED
    BY <1>4, <2>1, <2>2, AppendedOne
<1>7. WellWired(model, c, problem)' /\ StandsFor(model, c, meaning)'
  BY <1>4 DEF Fits
<1>8. FeedFits'
  <2>1. /\ fed \in Nat /\ known \in BOOLEAN /\ (known \/ fed * problem.pulse <= problem.len)
        /\ status' \in {"waiting", "running", "done"}
    BY <1>4 DEF Fits, FeedFits
  <2>2. ChunkFits(problem, fed - 1)'
    BY <1>4, <1>5 DEF ChunkFits
  <2> QED
    BY <1>4, <1>5, <2>1, <2>2 DEF FeedFits
<1>9. WiresCarry(c)'
  <2>1. IF status' = "running" THEN Len(wires') < LastOf(model')
                               ELSE Len(wires') = IF fed' = 0 THEN 0 ELSE LastOf(model')
    BY <1>2, <1>4, <1>5, <1>6
  <2>2. ASSUME NEW i \in 1 .. n PROVE Carried(wires'[i], WireAt(model', c, i), fed' - 1)
    <3>1. CASE i = n
      BY <1>3, <1>4, <1>6, <3>1
    <3>2. CASE i # n
      <4>1. i \in 1 .. n - 1
        BY <1>2, <1>5, <3>2
      <4>2. Carried(wires[i], WireAt(model, c, i), fed - 1)
        BY <1>6, <4>1 DEF Fits, WiresCarry
      <4> QED
        BY <1>4, <1>6, <4>1, <4>2
    <3> QED
      BY <3>1, <3>2
  <2> QED
    BY <1>2, <1>5, <1>6, <2>1, <2>2 DEF WiresCarry
<1>10. StatesFit(c)'
  <2>0. DOMAIN states = 1 .. LastOf(model)
    BY DEF Fits, StatesFit
  <2>1. ASSUME NEW k \in 1 .. LastOf(model)
        PROVE  StateFits(model.nodes[k].op, states'[k], WiresAt(model, c, k), Calls(k)')
    <3>1. CASE k = n
      <4>1. states'[k] = r.state
        BY <1>4, <2>0, <3>1
      <4>2. Calls(k)' = (fed - 1) + 1
        BY <1>2, <1>4, <1>5, <1>6, <3>1 DEF Calls
      <4> QED
        BY <1>3, <3>1, <4>1, <4>2 DEF op
    <3>2. CASE k # n
      <4>1. states'[k] = states[k]
        BY <1>4, <2>0, <3>2
      <4>2. Calls(k)' = Calls(k)
        BY <1>2, <1>4, <1>5, <1>6, <3>2 DEF Calls
      <4>3. StateFits(model.nodes[k].op, states[k], WiresAt(model, c, k), Calls(k))
        BY DEF Fits, StatesFit
      <4> QED
        BY <4>1, <4>2, <4>3
    <3> QED
      BY <3>1, <3>2
  <2>2. DOMAIN states' = 1 .. LastOf(model)
    BY <1>4, <2>0
  <2> QED
    BY <1>4, <2>1, <2>2 DEF StatesFit
<1>11. GotFits(c)'
  <2> DEFINE w == WireAt(model, c, LastOf(model))
  <2>1. Runs = fed - 1 /\ CameOut(got, (fed - 1) * OutputFactOf.pulse, w)
    BY <1>4 DEF Fits, GotFits, Runs
  <2>2. IsWire(w) /\ Once(w) /\ OutputFactOf.pulse = w.fact.pulse
    <3>1. IsWire(w)
      BY <1>5, WiredNode DEF Fits
    <3>2. Once(w)
      BY DEF Fits, StandsFor
    <3> QED
      BY <3>1, <3>2 DEF OutputFactOf, WireAt
  <2>3. fed - 1 \in Nat /\ (fed - 1) + 1 = fed
    BY <1>5
  <2>4. CASE ends
    <3>1. Carried(r.out, w, fed - 1)
      BY <1>3, <2>4
    <3> HIDE DEF w
    <3>2. CameOut(got', ((fed - 1) + 1) * w.fact.pulse, w)
      BY <1>4, <2>1, <2>2, <2>3, <2>4, <3>1, MoreCameOut
    <3>3. Runs' = fed
      BY <1>4, <2>4 DEF Runs
    <3> QED
      BY <1>4, <2>2, <2>3, <3>2, <3>3 DEF GotFits, OutputFactOf, w
  <2>5. CASE ~ ends
    <3>1. Runs' = fed - 1
      BY <1>4, <2>5 DEF Runs
    <3> QED
      BY <1>4, <2>1, <2>5, <3>1 DEF GotFits, OutputFactOf
  <2> QED
    BY <2>4, <2>5
<1> QED
  BY <1>7, <1>8, <1>9, <1>10, <1>11 DEF Fits

(* The rest of a step changes nothing. *)
LEMMA StutterKeeps ==
  ASSUME NEW c, Fits(c), UNCHANGED vars
  PROVE  Fits(c)'
BY DEF vars, Fits, FeedFits, ChunkFits, WiresCarry, StatesFit, GotFits, Runs, Calls, OutputFactOf

(* What fits carries what it should. *)
LEMMA FitsIsRight ==
  ASSUME NEW c, Fits(c)
  PROVE  WiresAreDelayed /\ DelayBuffersHold /\ NeverFails
<1>0. /\ WellWired(model, c, problem) /\ LastOf(model) \in Nat \ {0} /\ Long(model.nodes, LastOf(model))
      /\ fed \in Nat /\ Len(wires) \in Nat
  BY DEF Fits, WellWired, FeedFits, WiresCarry
<1>1. ASSUME NEW s \in DOMAIN meaning, NEW pos
      PROVE  /\ model.outlet[s] \in 1 .. LastOf(model)
             /\ IsWire(WireAt(model, c, model.outlet[s]))
             /\ Once(WireAt(model, c, model.outlet[s]))
             /\ \A f \in Promised(s, pos) : pos \in Int =>
                  /\ pos \in DOMAIN StreamOf(WireAt(model, c, model.outlet[s]))
                  /\ f = StreamOf(WireAt(model, c, model.outlet[s]))[pos]
                  /\ pos >= 0
  <2>1. PICK n, w : n = model.outlet[s] /\ w = WireAt(model, c, n)
    OBVIOUS
  <2>2. n \in 1 .. LastOf(model) /\ meaning[s] = c[n] /\ Once(w)
    BY <2>1 DEF Fits, StandsFor
  <2>3. IsWire(w)
    BY <1>0, <2>1, <2>2, WiredNode
  <2>4. w.fact = FactOf(model, n) /\ w.content = meaning[s]
    BY <2>1, <2>2 DEF WireAt
  <2>5. PICK delay, dim : delay = w.fact.delay /\ dim = w.fact.dim
    OBVIOUS
  <2>6. delay \in Nat /\ dim \in Nat /\ DOMAIN w.content = 0 .. dim - 1
    BY <2>3, <2>5 DEF IsWire, IsFact
  <2>7. ASSUME NEW f \in Promised(s, pos), pos \in Int
        PROVE  pos \in DOMAIN StreamOf(w) /\ f = StreamOf(w)[pos] /\ pos >= 0
    <3>1. pos - delay \in DOMAIN w.content /\ f = w.content[pos - delay]
      BY <2>1, <2>4, <2>5, <2>7 DEF Promised
    <3>2. pos \in delay .. delay + dim - 1
      BY <2>6, <2>7, <3>1
    <3> QED
      BY <2>5, <2>6, <3>1, <3>2 DEF StreamOf, Shifted
  <2> QED
    BY <2>1, <2>2, <2>3, <2>7
<1>2. WiresAreDelayed
  <2> SUFFICES ASSUME NEW s \in DOMAIN meaning, NEW n, n = model.outlet[s], n <= Len(wires),
                      NEW k \in DOMAIN wires[n], NEW f \in Promised(s, ChunkStart(n) + k)
               PROVE  wires[n][k] = f
    BY DEF WiresAreDelayed
  <2>1. PICK w : w = WireAt(model, c, n)
    OBVIOUS
  <2>2. n \in 1 .. LastOf(model) /\ IsWire(w) /\ Once(w)
    BY <1>1, <2>1
  <2>3. n \in 1 .. Len(wires)
    BY <1>0, <2>2
  <2>4. Carried(wires[n], w, fed - 1)
    BY <2>1, <2>3 DEF Fits, WiresCarry
  <2>5. ChunkStart(n) = (fed - 1) * w.rate
    BY <2>1 DEF ChunkStart, WireAt, Rate, FactOf
  <2>6. k \in 0 .. w.fact.pulse - 1
    BY <2>4 DEF Carried
  <2>7. (fed - 1) * w.rate \in Int /\ k \in Int /\ (fed - 1) * w.rate + k \in Int
    <3>1. w.rate \in Nat /\ w.fact.pulse \in Nat
      BY <2>2 DEF IsWire, IsFact
    <3> QED
      BY <1>0, <2>6, <3>1
  <2>8. ChunkStart(n) + k \in DOMAIN StreamOf(w) /\ f = StreamOf(w)[ChunkStart(n) + k]
    BY <1>1, <2>1, <2>5, <2>7
  <2> QED
    BY <2>4, <2>5, <2>6, <2>8 DEF Carried, Late
<1>3. DelayBuffersHold
  <2> SUFFICES ASSUME NEW s \in DOMAIN meaning, NEW n \in DOMAIN model.nodes,
                      model.nodes[n].op.kind = "Delay", model.nodes[n].op.inputs = <<model.outlet[s]>>,
                      NEW row \in 0 .. Rows - 1, NEW col \in 0 .. Buffered(model.nodes[n].op) - 1,
                      NEW f \in Promised(s, Evaluations(n) * FactOf(model, model.outlet[s]).pulse
                                            - Buffered(model.nodes[n].op) + col)
               PROVE  states[n][Flat(row, col, Buffered(model.nodes[n].op))] = <<row, f>>
    BY DEF DelayBuffersHold
  <2>1. PICK op, i, w, b : op = model.nodes[n].op /\ i = model.outlet[s] /\ w = WireAt(model, c, i) /\ b = Buffered(op)
    OBVIOUS
  <2>2. n \in 1 .. LastOf(model)
    BY <1>0 DEF Long
  <2>3. IsWire(w) /\ w.fact = FactOf(model, i) /\ w.rate = w.fact.pulse /\ w.fact.pulse \in Nat \ {0}
    <3>1. IsWire(w) /\ Once(w) /\ w.fact = FactOf(model, i)
      BY <1>1, <2>1 DEF WireAt
    <3> QED
      BY <3>1 DEF Once, IsWire, IsFact
  <2>4. WiresAt(model, c, n)[1] = w
    <3>1. op.inputs = <<i>> /\ 1 \in DOMAIN op.inputs /\ op.inputs[1] = i
      BY <2>1
    <3> QED
      BY <2>1, <3>1 DEF WiresAt
  <2>5. Holds(op, states[n], InRows(StreamOf(w)), Calls(n) * w.fact.pulse) /\ op.kind = "Delay"
    <3>1. StateFits(op, states[n], WiresAt(model, c, n), Calls(n))
      BY <2>1, <2>2 DEF Fits, StatesFit
    <3> QED
      BY <2>1, <2>3, <2>4, <3>1 DEF StateFits
  <2>6. b \in Nat
    <3>1. Makes(op, WireAt(model, c, n), WiresAt(model, c, n), problem)
      BY <1>0, <2>1, <2>2, WiredNode
    <3>2. op.delay \in Nat /\ op.overlap \in Nat
      BY <2>5, <3>1 DEF Makes, SourceMakes, MapMakes, SliceMakes, DelayMakes, PadMakes, PoolMakes,
                        DownsampleMakes, BinaryMakes, ScanMakes
    <3> QED
      BY <2>1, <3>2 DEF Buffered
  <2>7. PICK pos : pos = Evaluations(n) * w.fact.pulse - b + col
    OBVIOUS
  <2>8. Evaluations(n) \in Int /\ col \in 0 .. b - 1 /\ pos \in Int
    <3>1. Evaluations(n) \in Int
      BY <1>0 DEF Evaluations
    <3>2. col \in 0 .. b - 1
      BY <2>1
    <3>3. Evaluations(n) * w.fact.pulse \in Int
      BY <2>3, <3>1
    <3> QED
      BY <2>6, <2>7, <3>1, <3>2, <3>3
  <2>9. f \in Promised(s, pos)
    BY <2>1, <2>3, <2>7
  <2>10. pos \in DOMAIN StreamOf(w) /\ f = StreamOf(w)[pos] /\ pos >= 0
    BY <1>1, <2>1, <2>8, <2>9
  <2>11. Evaluations(n) = Calls(n)
    <3>1. CASE Evaluations(n) = fed
      <4>1. n <= Len(wires) \/ fed # fed - 1
        BY <1>0
      <4>2. n <= Len(wires)
        BY <1>0, <3>1 DEF Evaluations
      <4> QED
        BY <1>0, <2>2, <4>2, <3>1 DEF Calls
    <3>2. CASE Evaluations(n) # fed
      <4>1. Evaluations(n) = fed - 1 /\ ~ (n <= Len(wires))
        BY <3>2 DEF Evaluations
      <4>2. fed # 0
        <5>1. ASSUME fed = 0 PROVE FALSE
          <6>1. Evaluations(n) = -1
            BY <4>1, <5>1
          <6>2. Evaluations(n) * w.fact.pulse = - w.fact.pulse
            BY <2>3, <6>1
          <6>3. - w.fact.pulse < 0
            BY <2>3
          <6> QED
            BY <2>3, <2>6, <2>7, <2>8, <2>10, <6>2, <6>3
        <5> QED
          BY <5>1
      <4>3. status = "running"
        <5>1. status # "running" => Len(wires) = IF fed = 0 THEN 0 ELSE LastOf(model)
          BY DEF Fits, WiresCarry
        <5> QED
          BY <1>0, <2>2, <4>1, <4>2, <5>1
      <4> QED
        BY <1>0, <2>2, <4>1, <4>3 DEF Calls
    <3> QED
      BY <3>1, <3>2
  <2>12. pos = Calls(n) * w.fact.pulse - Buffered(op) + col /\ col \in 0 .. Buffered(op) - 1
    BY <2>1, <2>7, <2>8, <2>11
  <2>13. pos \in DOMAIN InRows(StreamOf(w)) /\ InRows(StreamOf(w))[pos][row] = <<row, f>>
    BY <2>10 DEF InRows
  <2>14. states[n][Flat(row, col, Buffered(op))] = InRows(StreamOf(w))[pos][row]
    BY <2>5, <2>12, <2>13 DEF Holds
  <2> QED
    BY <2>1, <2>13, <2>14
<1>4. NeverFails
  BY DEF Fits, FeedFits, NeverFails
<1> QED
  BY <1>2, <1>3, <1>4

(* How much of a result has come out, and what it is. *)
EmittedLength(w, n) == Least(w.fact.dim, Monus(n, w.fact.delay))

Emits(frames, fact) ==
  [i \in 0 .. Least(fact.dim, Monus(Len(frames), fact.delay)) - 1 |-> frames[fact.delay + i + 1]]

LEMMA EmitsItsContent ==
  ASSUME NEW w, IsWire(w), NEW n \in Nat, NEW frames, CameOut(frames, n, w)
  PROVE  /\ Emits(frames, w.fact) = [i \in 0 .. EmittedLength(w, n) - 1 |-> w.content[i]]
         /\ EmittedLength(w, n) \in {0} \cup {i + 1 : i \in DOMAIN w.content}
<1>1. PICK delay, dim, e : delay = w.fact.delay /\ dim = w.fact.dim /\ e = EmittedLength(w, n)
  OBVIOUS
<1>2. delay \in Nat /\ dim \in Nat /\ DOMAIN w.content = 0 .. dim - 1
  BY <1>1 DEF IsWire, IsFact
<1>3. e \in Nat /\ e <= dim /\ (e > 0 => delay + e <= n)
  BY <1>1, <1>2 DEF EmittedLength, Least, Monus
<1>4. Len(frames) = n
  BY AppendedOne DEF CameOut
<1>5. ASSUME NEW i \in 0 .. e - 1
      PROVE  frames[delay + i + 1] = w.content[i]
  <2>1. PICK q : q = delay + i
    OBVIOUS
  <2>2. q \in 0 .. n - 1 /\ q \in delay .. delay + dim - 1 /\ q - delay = i
    BY <1>2, <1>3, <2>1
  <2>3. q \in DOMAIN StreamOf(w) /\ StreamOf(w)[q] = w.content[i]
    BY <1>1, <2>2 DEF StreamOf, Shifted
  <2> QED
    BY <2>1, <2>2, <2>3 DEF CameOut
<1>6. Emits(frames, w.fact) = [i \in 0 .. e - 1 |-> frames[delay + i + 1]]
  BY <1>1, <1>4 DEF Emits, EmittedLength
<1>7. Emits(frames, w.fact) = [i \in 0 .. e - 1 |-> w.content[i]]
  BY <1>5, <1>6
<1>8. e \in {0} \cup {i + 1 : i \in DOMAIN w.content}
  <2>1. CASE e = 0
    BY <2>1
  <2>2. CASE e # 0
    <3>1. e - 1 \in 0 .. dim - 1 /\ e = (e - 1) + 1
      BY <1>2, <1>3, <2>2
    <3> QED
      BY <1>2, <3>1
  <2> QED
    BY <2>1, <2>2
<1> QED
  BY <1>1, <1>7, <1>8

(* A step of the feeding is a step of the abstract stream, or none. *)
LEMMA FitsEmits ==
  ASSUME NEW c, Fits(c)
  PROVE  /\ Init => Stream!Init
         /\ Fits(c)' /\ [Next]_vars => [Stream!Emit]_(Stream!vars)
<1> DEFINE w == WireAt(model, c, LastOf(model))
           n == Runs * OutputFactOf.pulse
           e == EmittedLength(w, n)
<1>1. IsWire(w) /\ w.fact = OutputFactOf /\ w.content = meaning[Len(meaning)]
  <2>1. IsWire(w)
    BY WiredNode DEF Fits, WellWired
  <2>2. meaning[Len(meaning)] = c[LastOf(model)]
    BY DEF Fits, StandsFor
  <2> QED
    BY <2>1, <2>2 DEF WireAt, OutputFactOf
<1>2. n \in Nat /\ OutputFactOf.pulse \in Nat /\ Runs \in Nat
  <2>1. OutputFactOf.pulse \in Nat /\ Runs \in Nat
    BY <1>1 DEF IsWire, IsFact, Fits, FeedFits, Runs
  <2> QED
    BY <2>1
<1>3. Emitted = Emits(got, w.fact)
  BY <1>1 DEF Emitted, Emits
<1>4. CameOut(got, n, w)
  BY DEF Fits, GotFits
<1>5. Emitted = Stream!Prefix(e) /\ e \in Stream!Lengths
  <2> HIDE DEF w, n
  <2>1. /\ Emits(got, w.fact) = [i \in 0 .. e - 1 |-> w.content[i]]
        /\ e \in {0} \cup {i + 1 : i \in DOMAIN w.content}
    BY <1>1, <1>2, <1>4, EmitsItsContent
  <2> HIDE DEF e
  <2> QED
    BY <1>1, <1>3, <2>1 DEF Stream!Prefix, Stream!Lengths
<1>6. e \in Nat
  BY <1>1, <1>2 DEF EmittedLength, Least, Monus, IsWire, IsFact
<1>7. ASSUME Init PROVE Stream!Init
  <2>1. e = 0
    <3>1. Runs = 0
      BY <1>7 DEF Init, Runs
    <3>2. n = 0
      BY <1>2, <3>1
    <3> QED
      BY <1>1, <3>2 DEF EmittedLength, Least, Monus, IsWire, IsFact
  <2> QED
    BY <1>5, <2>1 DEF Stream!Init
<1>8. ASSUME Fits(c)', [Next]_vars PROVE [Stream!Emit]_(Stream!vars)
  <2> DEFINE m == Runs' * OutputFactOf.pulse
             d == EmittedLength(w, m)
  <2>1. meaning' = meaning /\ model' = model
    BY <1>8 DEF Next, Feed, FeedChunk, FeedLast, FeedFiller, Begin, RunNode, vars
  <2>2. Runs' \in Nat /\ Runs <= Runs'
    <3>1. CASE UNCHANGED vars
      BY <1>2, <3>1 DEF Runs, vars
    <3>2. CASE Feed
      <4>1. status = "waiting" /\ status' = "running" /\ fed' = fed + 1
        BY <3>2 DEF Feed, FeedChunk, FeedLast, FeedFiller, Begin
      <4>2. fed \in Nat
        BY DEF Fits, FeedFits
      <4> QED
        BY <4>1, <4>2 DEF Runs
    <3>3. CASE RunNode
      <4>1. status = "running" /\ fed' = fed
        BY <3>3 DEF RunNode
      <4>2. fed \in Nat /\ fed > 0
        BY <4>1 DEF Fits, FeedFits
      <4> QED
        BY <4>1, <4>2 DEF Runs
    <3> QED
      BY <1>8, <3>1, <3>2, <3>3 DEF Next
  <2>3. m \in Nat /\ n <= m
    <3>1. PICK before, after, pulse : before = Runs /\ after = Runs' /\ pulse = OutputFactOf.pulse
      OBVIOUS
    <3>2. before \in Nat /\ after \in Nat /\ pulse \in Nat /\ before <= after
      BY <1>2, <2>2, <3>1
    <3>3. PICK more : more = after - before
      OBVIOUS
    <3>4. more \in Nat /\ after = before + more
      BY <3>2, <3>3
    <3>5. after * pulse = before * pulse + more * pulse /\ before * pulse \in Nat /\ more * pulse \in Nat
      BY <3>2, <3>4
    <3>6. after * pulse \in Nat /\ before * pulse <= after * pulse
      BY <3>5
    <3> QED
      BY <3>1, <3>6
  <2>4. Emitted' = Emits(got', w.fact)
    BY <1>1, <2>1 DEF Emitted, Emits, OutputFactOf
  <2>5. CameOut(got', m, w)
    BY <1>8, <2>1 DEF Fits, GotFits, OutputFactOf
  <2>6. Emitted' = Stream!Prefix(d) /\ d \in Stream!Lengths
    <3> HIDE DEF w, m
    <3>1. /\ Emits(got', w.fact) = [i \in 0 .. d - 1 |-> w.content[i]]
          /\ d \in {0} \cup {i + 1 : i \in DOMAIN w.content}
      BY <1>1, <2>3, <2>5, EmitsItsContent
    <3> HIDE DEF d
    <3> QED
      BY <1>1, <2>4, <3>1 DEF Stream!Prefix, Stream!Lengths
  <2>7. DOMAIN Emitted \subseteq 0 .. d - 1
    <3>1. DOMAIN Emitted = 0 .. e - 1
      BY <1>5 DEF Stream!Prefix
    <3>2. e <= d /\ d \in Nat
      BY <1>1, <1>2, <2>3 DEF EmittedLength, Least, Monus, IsWire, IsFact
    <3> QED
      BY <1>6, <3>1, <3>2
  <2> QED
    BY <2>1, <2>6, <2>7 DEF Stream!Emit
<1> QED
  BY <1>7, <1>8

-----------------------------------------------------------------------------
(* The pulsifiers: what they wire is wired as it must be.                  *)

(* A model so far; with contents of its wires. *)
Built(m) ==
  /\ m = [nodes |-> m.nodes, outlet |-> m.outlet, refused |-> m.refused]
  /\ LastOf(m) \in Nat /\ Long(m.nodes, LastOf(m))

Grown(m, c, p) == Built(m) /\  \A n \in 1 .. LastOf(m) : NodeWired(m, c, n, p)

(* More nodes, and nothing else. *)
Longer(m2, m) ==
  /\ LastOf(m) <= LastOf(m2)
  /\ m2.outlet = m.outlet /\ m2.refused = m.refused
  /\ \A n \in 1 .. LastOf(m) : m2.nodes[n] = m.nodes[n]

Extends(m2, c2, m, c) == Longer(m2, m) /\ \A n \in 1 .. LastOf(m) : c2[n] = c[n]

(* The wire that a node would put out. *)
NewWire(m, op, content) ==
  [fact |-> OutputFact(op, [i \in DOMAIN op.inputs |-> FactOf(m, op.inputs[i])]),
   rate |-> OutputFact(op, [i \in DOMAIN op.inputs |-> FactOf(m, op.inputs[i])]).pulse
              - IF op.kind = "Delay" THEN op.overlap ELSE 0,
   content |-> content]

(* A model grew, and its last wire is w. *)
GrewTo(m2, m, c, p, w) ==
  \E c2 : /\ Grown(m2, c2, p) /\ Extends(m2, c2, m, c)
          /\ LastOf(m) < LastOf(m2) /\ WireAt(m2, c2, LastOf(m2)) = w

LEMMA SameWire ==
  ASSUME NEW m, NEW c, NEW m2, NEW c2, Extends(m2, c2, m, c), NEW n \in 1 .. LastOf(m)
  PROVE  WireAt(m2, c2, n) = WireAt(m, c, n)
BY DEF Extends, Longer, WireAt, FactOf, Rate

(* wire_node: one more node. *)
LEMMA WireBuilt ==
  ASSUME NEW m, Built(m), NEW op, NEW node,
         node = [op |-> op, fact |-> OutputFact(op, [i \in DOMAIN op.inputs |-> m.nodes[op.inputs[i]].fact])]
  PROVE  /\ Built(Wire(m, op)) /\ Longer(Wire(m, op), m) /\ LastOf(Wire(m, op)) = LastOf(m) + 1
         /\ Wire(m, op).nodes[LastOf(m) + 1] = node
<1>1. PICK nodes, outlet, refused, last :
        nodes = m.nodes /\ outlet = m.outlet /\ refused = m.refused /\ last = LastOf(m)
  OBVIOUS
<1>2. m = [nodes |-> nodes, outlet |-> outlet, refused |-> refused] /\ last \in Nat /\ Long(nodes, last)
  BY <1>1 DEF Built
<1>3. Wire(m, op) = [m EXCEPT !.nodes = Append(@, node)]
  BY DEF Wire
<1>4. PICK m2 : m2 = Wire(m, op)
  OBVIOUS
<1>5. m2 = [nodes |-> Append(nodes, node), outlet |-> outlet, refused |-> refused]
  BY <1>2, <1>3, <1>4
<1>6. /\ Len(Append(nodes, node)) = last + 1 /\ Long(Append(nodes, node), last + 1)
      /\ \A n \in 1 .. last : Append(nodes, node)[n] = nodes[n]
      /\ Append(nodes, node)[last + 1] = node
  BY <1>2, AppendedOne
<1>7. m2.nodes = Append(nodes, node) /\ m2.outlet = outlet /\ m2.refused = refused
  BY <1>5
<1>8. LastOf(m2) = last + 1 /\ last + 1 \in Nat /\ last <= last + 1
  BY <1>2, <1>6, <1>7 DEF LastOf
<1>9. Built(m2)
  BY <1>5, <1>6, <1>7, <1>8 DEF Built
<1>10. Longer(m2, m)
  BY <1>1, <1>6, <1>7, <1>8 DEF Longer
<1> QED
  BY <1>1, <1>4, <1>6, <1>7, <1>8, <1>9, <1>10

(* The same, of a node that makes what it should. *)
LEMMA WireGrows ==
  ASSUME NEW m, NEW c, NEW p, Grown(m, c, p), NEW op, \A k \in DOMAIN op.inputs : op.inputs[k] \in 1 .. LastOf(m),
         NEW content, IsWire(NewWire(m, op, content)),
         Makes(op, NewWire(m, op, content), [k \in DOMAIN op.inputs |-> WireAt(m, c, op.inputs[k])], p)
  PROVE  /\ LastOf(Wire(m, op)) = LastOf(m) + 1
         /\ GrewTo(Wire(m, op), m, c, p, NewWire(m, op, content))
<1> DEFINE w == NewWire(m, op, content)
           node == [op |-> op, fact |-> OutputFact(op, [i \in DOMAIN op.inputs |-> m.nodes[op.inputs[i]].fact])]
           m2 == Wire(m, op)
<1>1. PICK last : last = LastOf(m)
  OBVIOUS
<1>2. last \in Nat /\ Built(m)
  BY <1>1 DEF Grown, Built
<1> DEFINE c2 == [n \in 1 .. last + 1 |-> IF n <= last THEN c[n] ELSE content]
<1> HIDE DEF m2, node
<1>3. Built(m2) /\ Longer(m2, m) /\ LastOf(m2) = last + 1 /\ m2.nodes[last + 1] = node
  BY <1>1, <1>2, WireBuilt DEF m2, node
<1>4. \A n \in 1 .. last : m2.nodes[n] = m.nodes[n]
  BY <1>1, <1>3 DEF Longer
<1>5. Extends(m2, c2, m, c)
  <2>1. \A n \in 1 .. last : c2[n] = c[n]
    BY <1>2
  <2> HIDE DEF c2
  <2> QED
    BY <1>1, <1>3, <2>1 DEF Extends
<1>6. \A n \in 1 .. last : WireAt(m2, c2, n) = WireAt(m, c, n)
  BY <1>1, <1>5, SameWire
<1>7. WireAt(m2, c2, last + 1) = w
  <2>1. c2[last + 1] = content
    BY <1>2
  <2> HIDE DEF c2
  <2>2. PICK fact : fact = OutputFact(op, [i \in DOMAIN op.inputs |-> FactOf(m, op.inputs[i])])
    OBVIOUS
  <2>3. w = [fact |-> fact, rate |-> fact.pulse - IF op.kind = "Delay" THEN op.overlap ELSE 0, content |-> content]
    BY <2>2 DEF NewWire
  <2>4. node.op = op /\ node.fact = fact
    BY <2>2 DEF node, FactOf
  <2> QED
    BY <1>3, <2>1, <2>3, <2>4 DEF WireAt, FactOf, Rate
<1> HIDE DEF c2, w
<1>8. ASSUME NEW n \in 1 .. last + 1 PROVE NodeWired(m2, c2, n, p)
  <2>1. CASE n = last + 1
    <3>1. m2.nodes[n].op = op
      BY <1>3, <2>1 DEF node
    <3>2. \A k \in DOMAIN op.inputs : op.inputs[k] \in 1 .. last
      BY <1>1
    <3>3. WiresAt(m2, c2, n) = [k \in DOMAIN op.inputs |-> WireAt(m, c, op.inputs[k])]
      BY <1>6, <3>1, <3>2 DEF WiresAt
    <3>4. n - 1 = last
      BY <1>2, <2>1
    <3> QED
      BY <1>7, <2>1, <3>1, <3>2, <3>3, <3>4 DEF NodeWired, w
  <2>2. CASE n # last + 1
    <3>1. n \in 1 .. last
      BY <1>2, <2>2
    <3>2. NodeWired(m, c, n, p) /\ m2.nodes[n] = m.nodes[n]
      BY <1>1, <1>4, <3>1 DEF Grown
    <3>3. ASSUME NEW k \in DOMAIN m.nodes[n].op.inputs
          PROVE  WireAt(m2, c2, m.nodes[n].op.inputs[k]) = WireAt(m, c, m.nodes[n].op.inputs[k])
      <4>1. m.nodes[n].op.inputs[k] \in 1 .. n - 1
        BY <3>2 DEF NodeWired
      <4>2. m.nodes[n].op.inputs[k] \in 1 .. last
        BY <1>2, <3>1, <4>1
      <4> QED
        BY <1>6, <4>2
    <3>4. WiresAt(m2, c2, n) = WiresAt(m, c, n)
      BY <3>2, <3>3 DEF WiresAt
    <3> QED
      BY <1>6, <3>1, <3>2, <3>4 DEF NodeWired
  <2> QED
    BY <2>1, <2>2
<1>9. Grown(m2, c2, p)
  BY <1>3, <1>8 DEF Grown
<1>10. last < last + 1
  BY <1>2
<1> QED
  BY <1>1, <1>3, <1>5, <1>7, <1>9, <1>10 DEF GrewTo, m2, w

(* One growth after another. *)
LEMMA GrewFurther ==
  ASSUME NEW m1, NEW c1, NEW m2, NEW c2, NEW m3, NEW c3,
         LastOf(m1) \in Nat, LastOf(m2) \in Nat, LastOf(m3) \in Nat,
         Extends(m2, c2, m1, c1), Extends(m3, c3, m2, c2)
  PROVE  Extends(m3, c3, m1, c1)
<1>1. PICK a, b, d : a = LastOf(m1) /\ b = LastOf(m2) /\ d = LastOf(m3)
  OBVIOUS
<1>2. a \in Nat /\ b \in Nat /\ d \in Nat /\ a <= b /\ b <= d
  BY <1>1 DEF Extends, Longer
<1>3. a <= d /\ 1 .. a \subseteq 1 .. b
  BY <1>2
<1> QED
  BY <1>1, <1>3 DEF Extends, Longer

(* The facts of the pulsed operators, in full. *)
LEMMA OutputFacts ==
  ASSUME NEW op, NEW fact, IsFact(fact)
  PROVE  /\ op.kind = "Delay" => OutputFact(op, <<fact>>) =
              [pulse |-> fact.pulse + op.overlap, dim |-> fact.dim,
               symbolic |-> fact.symbolic, delay |-> fact.delay + op.delay + op.overlap]
         /\ op.kind = "Slice" => OutputFact(op, <<fact>>) =
              [pulse |-> fact.pulse, dim |-> op.take,
               symbolic |-> op.symbolic, delay |-> fact.delay + op.skip]
         /\ op.kind = "PulsePad" => OutputFact(op, <<fact>>) =
              [pulse |-> fact.pulse, dim |-> fact.dim + op.before + op.after,
               symbolic |-> fact.symbolic, delay |-> fact.delay - op.before]
         /\ op.kind = "Pool" => OutputFact(op, <<fact>>) =
              [pulse |-> DivCeil(fact.pulse - KernelLen(op), op.stride), dim |-> DivCeil(fact.dim - KernelLen(op), op.stride),
               symbolic |-> fact.symbolic, delay |-> fact.delay \div op.stride]
         /\ op.kind = "Downsample" => OutputFact(op, <<fact>>) =
              [pulse |-> fact.pulse \div op.stride, dim |-> DivCeil(fact.dim, op.stride),
               symbolic |-> fact.symbolic, delay |-> fact.delay]
<1>1. PICK pulse, dim, symbolic, delay :
        fact = [pulse |-> pulse, dim |-> dim, symbolic |-> symbolic, delay |-> delay]
  BY DEF IsFact
<1>2. fact.pulse = pulse /\ fact.dim = dim /\ fact.symbolic = symbolic /\ fact.delay = delay
  BY <1>1
<1>3. CASE op.kind = "Delay"
  <2>1. PICK new1, new2 :
          new1 = fact.pulse + op.overlap /\ new2 = fact.delay + op.delay + op.overlap
    OBVIOUS
  <2>2. OutputFact(op, <<fact>>) = [fact EXCEPT !.pulse = new1, !.delay = new2]
    BY <1>3, <2>1 DEF OutputFact
  <2>3. PICK g1 : g1 = [fact EXCEPT !.pulse = new1]
    OBVIOUS
  <2>4. g1 = [pulse |-> new1, dim |-> dim, symbolic |-> symbolic, delay |-> delay]
    BY <1>1, <2>3
  <2>5. PICK g2 : g2 = [g1 EXCEPT !.delay = new2]
    OBVIOUS
  <2>6. g2 = [pulse |-> new1, dim |-> dim, symbolic |-> symbolic, delay |-> new2]
    BY <2>4, <2>5
  <2>7. OutputFact(op, <<fact>>) = g2
    BY <2>2, <2>3, <2>5
  <2> QED
    BY <1>2, <1>3, <2>1, <2>7, <2>6
<1>4. CASE op.kind = "Slice"
  <2>1. PICK new1, new2, new3 :
          /\ new1 = fact.delay + op.skip
          /\ new2 = op.take
          /\ new3 = op.symbolic
    OBVIOUS
  <2>2. OutputFact(op, <<fact>>) = [fact EXCEPT !.delay = new1, !.dim = new2, !.symbolic = new3]
    BY <1>4, <2>1 DEF OutputFact
  <2>3. PICK g1 : g1 = [fact EXCEPT !.delay = new1]
    OBVIOUS
  <2>4. g1 = [pulse |-> pulse, dim |-> dim, symbolic |-> symbolic, delay |-> new1]
    BY <1>1, <2>3
  <2>5. PICK g2 : g2 = [g1 EXCEPT !.dim = new2]
    OBVIOUS
  <2>6. g2 = [pulse |-> pulse, dim |-> new2, symbolic |-> symbolic, delay |-> new1]
    BY <2>4, <2>5
  <2>7. PICK g3 : g3 = [g2 EXCEPT !.symbolic = new3]
    OBVIOUS
  <2>8. g3 = [pulse |-> pulse, dim |-> new2, symbolic |-> new3, delay |-> new1]
    BY <2>6, <2>7
  <2>9. OutputFact(op, <<fact>>) = g3
    BY <2>2, <2>3, <2>5, <2>7
  <2> QED
    BY <1>2, <1>4, <2>1, <2>9, <2>8
<1>5. CASE op.kind = "PulsePad"
  <2>1. PICK new1, new2 :
          new1 = fact.dim + op.before + op.after /\ new2 = fact.delay - op.before
    OBVIOUS
  <2>2. OutputFact(op, <<fact>>) = [fact EXCEPT !.dim = new1, !.delay = new2]
    BY <1>5, <2>1 DEF OutputFact
  <2>3. PICK g1 : g1 = [fact EXCEPT !.dim = new1]
    OBVIOUS
  <2>4. g1 = [pulse |-> pulse, dim |-> new1, symbolic |-> symbolic, delay |-> delay]
    BY <1>1, <2>3
  <2>5. PICK g2 : g2 = [g1 EXCEPT !.delay = new2]
    OBVIOUS
  <2>6. g2 = [pulse |-> pulse, dim |-> new1, symbolic |-> symbolic, delay |-> new2]
    BY <2>4, <2>5
  <2>7. OutputFact(op, <<fact>>) = g2
    BY <2>2, <2>3, <2>5
  <2> QED
    BY <1>2, <1>5, <2>1, <2>7, <2>6
<1>6. CASE op.kind = "Pool"
  <2>1. PICK new1, new2, new3 :
          /\ new1 = DivCeil(fact.pulse - KernelLen(op), op.stride)
          /\ new2 = fact.delay \div op.stride
          /\ new3 = DivCeil(fact.dim - KernelLen(op), op.stride)
    OBVIOUS
  <2>2. OutputFact(op, <<fact>>) = [fact EXCEPT !.pulse = new1, !.delay = new2, !.dim = new3]
    BY <1>6, <2>1 DEF OutputFact
  <2>3. PICK g1 : g1 = [fact EXCEPT !.pulse = new1]
    OBVIOUS
  <2>4. g1 = [pulse |-> new1, dim |-> dim, symbolic |-> symbolic, delay |-> delay]
    BY <1>1, <2>3
  <2>5. PICK g2 : g2 = [g1 EXCEPT !.delay = new2]
    OBVIOUS
  <2>6. g2 = [pulse |-> new1, dim |-> dim, symbolic |-> symbolic, delay |-> new2]
    BY <2>4, <2>5
  <2>7. PICK g3 : g3 = [g2 EXCEPT !.dim = new3]
    OBVIOUS
  <2>8. g3 = [pulse |-> new1, dim |-> new3, symbolic |-> symbolic, delay |-> new2]
    BY <2>6, <2>7
  <2>9. OutputFact(op, <<fact>>) = g3
    BY <2>2, <2>3, <2>5, <2>7
  <2> QED
    BY <1>2, <1>6, <2>1, <2>9, <2>8
<1>7. CASE op.kind = "Downsample"
  <2>1. PICK new1, new2 :
          new1 = fact.pulse \div op.stride /\ new2 = DivCeil(fact.dim, op.stride)
    OBVIOUS
  <2>2. OutputFact(op, <<fact>>) = [fact EXCEPT !.pulse = new1, !.dim = new2]
    BY <1>7, <2>1 DEF OutputFact
  <2>3. PICK g1 : g1 = [fact EXCEPT !.pulse = new1]
    OBVIOUS
  <2>4. g1 = [pulse |-> new1, dim |-> dim, symbolic |-> symbolic, delay |-> delay]
    BY <1>1, <2>3
  <2>5. PICK g2 : g2 = [g1 EXCEPT !.dim = new2]
    OBVIOUS
  <2>6. g2 = [pulse |-> new1, dim |-> new2, symbolic |-> symbolic, delay |-> delay]
    BY <2>4, <2>5
  <2>7. OutputFact(op, <<fact>>) = g2
    BY <2>2, <2>3, <2>5
  <2> QED
    BY <1>2, <1>7, <2>1, <2>7, <2>6
<1> QED
  BY <1>3, <1>4, <1>5, <1>6, <1>7

(* The source node of a wire became the last node of m2. *)
Turned(m2, m, c, p, content, ends) ==
  \E w : GrewTo(m2, m, c, p, w) /\ Once(w) /\ w.content = content /\ (ends => LongEnough(w, p))

(* An input that may be read. *)
Readable(m, c, i) ==
  /\ i \in 1 .. LastOf(m) /\ IsWire(WireAt(m, c, i)) /\ Once(WireAt(m, c, i))

LEMMA ReadableFacts ==
  ASSUME NEW m, NEW c, NEW i, NEW v, v = WireAt(m, c, i), Readable(m, c, i)
  PROVE  /\ i \in 1 .. LastOf(m) /\ IsWire(v) /\ IsFact(v.fact) /\ v.rate = v.fact.pulse
         /\ v.fact = FactOf(m, i) /\ v.content = c[i]
         /\ v.fact.pulse \in Nat \ {0} /\ v.fact.dim \in Nat /\ v.fact.delay \in Nat
         /\ DOMAIN v.content = 0 .. v.fact.dim - 1 /\ Count(v.content) = v.fact.dim
<1>1. /\ i \in 1 .. LastOf(m) /\ IsWire(v) /\ IsFact(v.fact) /\ v.rate = v.fact.pulse
      /\ v.fact = FactOf(m, i) /\ v.content = c[i]
  BY DEF Readable, IsWire, Once, WireAt
<1>2. /\ v.fact.pulse \in Nat \ {0} /\ v.fact.dim \in Nat /\ v.fact.delay \in Nat
      /\ DOMAIN v.content = 0 .. v.fact.dim - 1
  BY <1>1 DEF IsWire, IsFact
<1>3. Count(v.content) = v.fact.dim
  BY <1>2, CountOf
<1> QED
  BY <1>1, <1>2, <1>3

(* The wire of a node of one input. *)
LEMMA OneInput ==
  ASSUME NEW m, NEW c, NEW p, Grown(m, c, p), NEW op, NEW i, op.inputs = <<i>>, i \in 1 .. LastOf(m),
         NEW fact, fact = OutputFact(op, <<FactOf(m, i)>>), NEW rate,
         rate = fact.pulse - IF op.kind = "Delay" THEN op.overlap ELSE 0, NEW content,
         NEW w, w = [fact |-> fact, rate |-> rate, content |-> content],
         IsWire(w), Makes(op, w, <<WireAt(m, c, i)>>, p)
  PROVE  LastOf(Wire(m, op)) = LastOf(m) + 1 /\ GrewTo(Wire(m, op), m, c, p, w)
<1>1. DOMAIN op.inputs = {1} /\ op.inputs[1] = i
  OBVIOUS
<1>2. [k \in DOMAIN op.inputs |-> FactOf(m, op.inputs[k])] = <<FactOf(m, i)>>
  BY <1>1
<1>3. [k \in DOMAIN op.inputs |-> WireAt(m, c, op.inputs[k])] = <<WireAt(m, c, i)>>
  BY <1>1
<1>4. NewWire(m, op, content) = w
  BY <1>2 DEF NewWire
<1>5. \A k \in DOMAIN op.inputs : op.inputs[k] \in 1 .. LastOf(m)
  BY <1>1
<1> QED
  BY <1>3, <1>4, <1>5, WireGrows

LEMMA SourceTurned ==
  ASSUME NEW m, NEW c, NEW p, Grown(m, c, p), p.pulse \in Nat \ {0}, p.len \in Nat,
         NEW op, op.kind = "source", NEW ins
  PROVE  Turned(PulsifySource(m, p), m, c, p, BatchNode(op, ins, p.len), TRUE)
<1> DEFINE fact == [pulse |-> p.pulse, dim |-> p.len, symbolic |-> TRUE, delay |-> 0]
           new == [kind |-> "Source", inputs |-> <<>>, output |-> fact]
           content == [k \in 0 .. p.len - 1 |-> <<"x", k>>]
           w == [fact |-> fact, rate |-> p.pulse, content |-> content]
<1>1. BatchNode(op, ins, p.len) = content
  BY DEF BatchNode
<1>2. PulsifySource(m, p) = Wire(m, new)
  BY DEF PulsifySource
<1>3. NewWire(m, new, content) = w
  <2>1. new.kind = "Source" /\ new.output = fact /\ fact.pulse = p.pulse /\ p.pulse = p.pulse - 0
    OBVIOUS
  <2> HIDE DEF new, fact
  <2>2. \A facts : OutputFact(new, facts) = fact
    BY <2>1 DEF OutputFact
  <2> QED
    BY <2>1, <2>2 DEF NewWire
<1>4. IsWire(w) /\ Once(w)
  <2>1. \A k \in DOMAIN content : content[k] # <<"none">>
    OBVIOUS
  <2> QED
    BY <2>1 DEF IsWire, IsFact, Once
<1>5. Makes(new, w, <<>>, p)
  BY <1>4 DEF Makes, SourceMakes
<1>6. GrewTo(Wire(m, new), m, c, p, w)
  <2>1. DOMAIN new.inputs = {}
    OBVIOUS
  <2>2. [k \in DOMAIN new.inputs |-> WireAt(m, c, new.inputs[k])] = <<>>
    BY <2>1
  <2> HIDE DEF w, content, new
  <2> QED
    BY <1>3, <1>4, <1>5, <2>1, <2>2, WireGrows
<1>7. LongEnough(w, p)
  BY DEF LongEnough
<1>8. w.content = content
  OBVIOUS
<1> HIDE DEF w, content, new
<1> QED
  BY <1>1, <1>2, <1>4, <1>6, <1>7, <1>8 DEF Turned

LEMMA MapTurned ==
  ASSUME NEW m, NEW c, NEW p, Grown(m, c, p), NEW i, NEW v, v = WireAt(m, c, i), Readable(m, c, i),
         NEW op, op.kind = "map"
  PROVE  Turned(Wire(m, [kind |-> "Map", inputs |-> <<i>>]), m, c, p,
                BatchNode(op, <<v.content>>, p.len), LongEnough(v, p))
<1> DEFINE new == [kind |-> "Map", inputs |-> <<i>>]
           content == [k \in 0 .. v.fact.dim - 1 |-> <<"map", v.content[k]>>]
           w == [fact |-> v.fact, rate |-> v.fact.pulse, content |-> content]
<1>0. /\ IsWire(v) /\ IsFact(v.fact) /\ v.rate = v.fact.pulse /\ v.fact = FactOf(m, i)
      /\ v.fact.pulse \in Nat \ {0} /\ v.fact.dim \in Nat /\ v.fact.delay \in Nat
      /\ Count(v.content) = v.fact.dim
  BY ReadableFacts
<1>1. BatchNode(op, <<v.content>>, p.len) = content
  BY <1>0 DEF BatchNode
<1>2. OutputFact(new, <<FactOf(m, i)>>) = v.fact /\ v.fact.pulse = v.fact.pulse - IF new.kind = "Delay" THEN new.overlap ELSE 0
  BY <1>0 DEF OutputFact
<1>3. IsWire(w) /\ Once(w)
  <2>1. \A k \in DOMAIN content : content[k] # <<"none">>
    OBVIOUS
  <2>2. DOMAIN content = 0 .. v.fact.dim - 1
    OBVIOUS
  <2> HIDE DEF content
  <2> QED
    BY <1>0, <2>1, <2>2 DEF IsWire, Once
<1>4. Makes(new, w, <<v>>, p)
  <2>1. \A k \in 0 .. v.fact.dim - 1 : content[k] = <<"map", v.content[k]>>
    OBVIOUS
  <2> HIDE DEF content
  <2>2. Alike(w, v)
    BY <1>0 DEF Alike, Once
  <2> QED
    BY <2>1, <2>2 DEF Makes, MapMakes
<1>5. LongEnough(v, p) => LongEnough(w, p)
  BY <1>0 DEF LongEnough
<1>6. w.content = content /\ w = [fact |-> v.fact, rate |-> v.fact.pulse, content |-> content] /\ new.inputs = <<i>>
  OBVIOUS
<1> HIDE DEF w, content, new
<1>7. GrewTo(Wire(m, new), m, c, p, w)
  BY <1>2, <1>3, <1>4, <1>6, OneInput DEF Readable
<1> QED
  BY <1>1, <1>3, <1>5, <1>6, <1>7 DEF Turned, new

LEMMA ScanTurned ==
  ASSUME NEW m, NEW c, NEW p, Grown(m, c, p), NEW i, NEW v, v = WireAt(m, c, i), Readable(m, c, i),
         NEW op, op.kind = "scan"
  PROVE  Turned(PulsifyScan(m, <<i>>, op), m, c, p, BatchNode(op, <<v.content>>, p.len), LongEnough(v, p))
<1> DEFINE new == [kind |-> "Scan", inputs |-> <<i>>, skip |-> v.fact.delay]
           content == [k \in 0 .. v.fact.dim - 1 |->
                         <<"scan", [j \in 1 .. k + 1 |-> Across(<<v.content>>, j - 1)]>>]
           w == [fact |-> v.fact, rate |-> v.fact.pulse, content |-> content]
<1>0. /\ IsWire(v) /\ IsFact(v.fact) /\ v.rate = v.fact.pulse /\ v.fact = FactOf(m, i)
      /\ v.fact.pulse \in Nat \ {0} /\ v.fact.dim \in Nat /\ v.fact.delay \in Nat
      /\ Count(v.content) = v.fact.dim
  BY ReadableFacts
<1>1. BatchNode(op, <<v.content>>, p.len) = content
  BY <1>0 DEF BatchNode
<1>2. OutputFact(new, <<FactOf(m, i)>>) = v.fact /\ v.fact.pulse = v.fact.pulse - IF new.kind = "Delay" THEN new.overlap ELSE 0
  BY <1>0 DEF OutputFact
<1>3. IsWire(w) /\ Once(w)
  <2>1. \A k \in DOMAIN content : content[k] # <<"none">>
    OBVIOUS
  <2>2. DOMAIN content = 0 .. v.fact.dim - 1
    OBVIOUS
  <2> HIDE DEF content
  <2> QED
    BY <1>0, <2>1, <2>2 DEF IsWire, Once
<1>4. Makes(new, w, <<v>>, p)
  <2>1. \A k \in 0 .. v.fact.dim - 1 : content[k] = <<"scan", [j \in 1 .. k + 1 |-> Across(<<v.content>>, j - 1)]>>
    OBVIOUS
  <2> HIDE DEF content
  <2>2. Alike(w, v)
    BY <1>0 DEF Alike, Once
  <2> QED
    BY <2>1, <2>2 DEF Makes, ScanMakes
<1>5. LongEnough(v, p) => LongEnough(w, p)
  BY <1>0 DEF LongEnough
<1>6. /\ w.content = content /\ w = [fact |-> v.fact, rate |-> v.fact.pulse, content |-> content]
      /\ new.inputs = <<i>> /\ PulsifyScan(m, <<i>>, op) = Wire(m, new)
  BY <1>0 DEF PulsifyScan
<1> HIDE DEF w, content, new
<1>7. GrewTo(Wire(m, new), m, c, p, w)
  BY <1>2, <1>3, <1>4, <1>6, OneInput DEF Readable
<1> QED
  BY <1>1, <1>3, <1>5, <1>6, <1>7 DEF Turned

LEMMA SliceTurned ==
  ASSUME NEW m, NEW c, NEW p, Grown(m, c, p), NEW i, NEW v, v = WireAt(m, c, i), Readable(m, c, i),
         NEW op, op.kind = "slice", op.start \in Nat, op.symbolic \in BOOLEAN,
         NEW end, end = SliceEnd(op, v.fact.dim), end \in Nat, op.start <= end, end <= v.fact.dim
  PROVE  Turned(PulsifySlice(m, i, op), m, c, p, BatchNode(op, <<v.content>>, p.len),
                LongEnough(v, p) /\ end = v.fact.dim)
<1>0. /\ IsWire(v) /\ IsFact(v.fact) /\ v.rate = v.fact.pulse /\ v.fact = FactOf(m, i)
      /\ v.fact.pulse \in Nat \ {0} /\ v.fact.dim \in Nat /\ v.fact.delay \in Nat
      /\ DOMAIN v.content = 0 .. v.fact.dim - 1 /\ Count(v.content) = v.fact.dim
  BY ReadableFacts
<1>1. PICK pulse, delay, dim, skip, size :
        /\ pulse = v.fact.pulse /\ delay = v.fact.delay /\ dim = v.fact.dim /\ skip = op.start
        /\ size = end - op.start
  OBVIOUS
<1>2. /\ pulse \in Nat \ {0} /\ delay \in Nat /\ dim \in Nat /\ skip \in Nat /\ size \in Nat
      /\ skip + size = end /\ skip + size <= dim /\ pulse = pulse - 0
  BY <1>0, <1>1
<1> DEFINE symbolic == op.symbolic /\ v.fact.symbolic
           new == [kind |-> "Slice", inputs |-> <<i>>, skip |-> skip, take |-> size, symbolic |-> symbolic]
           content == [k \in 0 .. size - 1 |-> v.content[skip + k]]
           fact == [pulse |-> pulse, dim |-> size, symbolic |-> symbolic, delay |-> delay + skip]
           w == [fact |-> fact, rate |-> pulse, content |-> content]
<1>3. BatchNode(op, <<v.content>>, p.len) = content
  BY <1>0, <1>1 DEF BatchNode
<1>4. PulsifySlice(m, i, op) = Wire(m, new)
  BY <1>0, <1>1 DEF PulsifySlice
<1>5. OutputFact(new, <<FactOf(m, i)>>) = fact
  <2>1. new.kind = "Slice" /\ new.skip = skip /\ new.take = size /\ new.symbolic = symbolic
    OBVIOUS
  <2> HIDE DEF new, symbolic
  <2>2. OutputFact(new, <<v.fact>>)
          = [pulse |-> v.fact.pulse, dim |-> size, symbolic |-> symbolic, delay |-> v.fact.delay + skip]
    BY <1>0, <2>1, OutputFacts
  <2> QED
    BY <1>0, <1>1, <2>2
<1>6. \A k \in 0 .. size - 1 : content[k] = v.content[skip + k] /\ content[k] # <<"none">>
  <2> SUFFICES ASSUME NEW k \in 0 .. size - 1
               PROVE  content[k] = v.content[skip + k] /\ content[k] # <<"none">>
    OBVIOUS
  <2>1. skip + k \in 0 .. dim - 1
    BY <1>2
  <2>2. v.content[skip + k] # <<"none">>
    BY <1>0, <1>1, <2>1 DEF IsWire
  <2> QED
    BY <2>2
<1>7. DOMAIN content = 0 .. size - 1
  OBVIOUS
<1> HIDE DEF symbolic, content
<1>8. IsWire(w) /\ Once(w)
  <2>1. fact.pulse = pulse /\ fact.dim = size /\ fact.delay = delay + skip /\ fact.symbolic = symbolic
    OBVIOUS
  <2>2. fact = [pulse |-> fact.pulse, dim |-> fact.dim, symbolic |-> fact.symbolic, delay |-> fact.delay]
    OBVIOUS
  <2> HIDE DEF fact
  <2>3. IsFact(fact)
    BY <1>2, <2>1, <2>2 DEF IsFact
  <2> QED
    BY <1>2, <1>6, <1>7, <2>1, <2>3 DEF IsWire, Once
<1>9. Makes(new, w, <<v>>, p)
  <2>1. SliceMakes(new, w, v)
    BY <1>0, <1>1, <1>2, <1>6 DEF SliceMakes, Once
  <2> QED
    BY <2>1 DEF Makes
<1>10. ASSUME LongEnough(v, p), end = v.fact.dim PROVE LongEnough(w, p)
  <2>1. w.fact.delay + w.fact.dim = v.fact.delay + v.fact.dim /\ w.rate = v.rate
    BY <1>0, <1>1, <1>2, <1>10
  <2> HIDE DEF w
  <2> QED
    BY <1>10, <2>1 DEF LongEnough
<1>11. /\ w.content = content /\ w = [fact |-> fact, rate |-> pulse, content |-> content]
       /\ new.inputs = <<i>> /\ pulse = fact.pulse - IF new.kind = "Delay" THEN new.overlap ELSE 0
  BY <1>2
<1> HIDE DEF w, new, fact
<1>12. GrewTo(Wire(m, new), m, c, p, w)
  BY <1>0, <1>1, <1>5, <1>8, <1>9, <1>11, OneInput DEF Readable
<1> QED
  BY <1>3, <1>4, <1>8, <1>10, <1>11, <1>12 DEF Turned

(* A wire that comes later, with the frames that are given again. *)
LateBy(v, lack, overlap) ==
  [fact |-> [pulse |-> v.fact.pulse + overlap, dim |-> v.fact.dim, symbolic |-> v.fact.symbolic,
             delay |-> v.fact.delay + lack + overlap],
   rate |-> v.fact.pulse, content |-> v.content]

LEMMA LateByFacts ==
  ASSUME NEW v, IsWire(v), Once(v), NEW lack \in Nat, NEW overlap \in Nat, NEW p
  PROVE  /\ IsWire(LateBy(v, lack, overlap))
         /\ Once(LateBy(v, lack, 0))
         /\ v = [fact |-> v.fact, rate |-> v.rate, content |-> v.content] => LateBy(v, 0, 0) = v
         /\ LongEnough(v, p) /\ p.pulse \in Nat => LongEnough(LateBy(v, lack, overlap), p)
<1>1. /\ v.fact.pulse \in Nat \ {0} /\ v.fact.dim \in Nat /\ v.fact.delay \in Nat /\ v.rate = v.fact.pulse
      /\ DOMAIN v.content = 0 .. v.fact.dim - 1
  BY DEF IsWire, IsFact, Once
<1>2. PICK pulse, dim, symbolic, delay, content :
        /\ pulse = v.fact.pulse /\ dim = v.fact.dim /\ symbolic = v.fact.symbolic /\ delay = v.fact.delay
        /\ content = v.content
  OBVIOUS
<1>3. pulse \in Nat \ {0} /\ dim \in Nat /\ delay \in Nat /\ v.rate = pulse
  BY <1>1, <1>2
<1> DEFINE fact == [pulse |-> pulse + overlap, dim |-> dim, symbolic |-> symbolic, delay |-> delay + lack + overlap]
           w == [fact |-> fact, rate |-> pulse, content |-> content]
<1>4. LateBy(v, lack, overlap) = w
  BY <1>2 DEF LateBy
<1>5. IsFact(fact)
  <2>1. /\ fact.pulse = pulse + overlap /\ fact.dim = dim /\ fact.symbolic = symbolic
        /\ fact.delay = delay + lack + overlap
        /\ fact = [pulse |-> fact.pulse, dim |-> fact.dim, symbolic |-> fact.symbolic, delay |-> fact.delay]
    OBVIOUS
  <2> HIDE DEF fact
  <2>2. pulse + overlap \in Nat \ {0} /\ delay + lack + overlap \in Nat
    BY <1>3
  <2> QED
    BY <1>3, <2>1, <2>2 DEF IsFact
<1>6. w.fact = fact /\ fact.dim = dim /\ fact.delay = delay + lack + overlap /\ w.rate = pulse /\ w.content = content
  OBVIOUS
<1> HIDE DEF fact, w
<1>7. IsWire(w)
  BY <1>1, <1>2, <1>3, <1>5, <1>6 DEF IsWire
<1>8. Once(LateBy(v, lack, 0))
  BY <1>1 DEF LateBy, Once
<1>9. ASSUME v = [fact |-> v.fact, rate |-> v.rate, content |-> v.content] PROVE LateBy(v, 0, 0) = v
  <2>1. pulse + 0 = pulse /\ delay + 0 + 0 = delay
    BY <1>3
  <2>2. v.fact = [pulse |-> pulse, dim |-> dim, symbolic |-> symbolic, delay |-> delay]
    BY <1>2 DEF IsWire, IsFact
  <2>3. LateBy(v, 0, 0) = [fact |-> v.fact, rate |-> v.rate, content |-> v.content]
    BY <1>2, <1>3, <2>1, <2>2 DEF LateBy
  <2> QED
    BY <1>9, <2>3
<1>10. ASSUME LongEnough(v, p), p.pulse \in Nat PROVE LongEnough(w, p)
  <2> SUFFICES ASSUME NEW calls \in Nat, calls * p.pulse <= p.len
               PROVE  calls * w.rate <= w.fact.delay + w.fact.dim
    BY DEF LongEnough
  <2>1. calls * pulse <= delay + dim
    BY <1>2, <1>3, <1>10 DEF LongEnough
  <2>2. calls * pulse \in Nat
    BY <1>3
  <2>3. calls * pulse <= delay + lack + overlap + dim
    BY <1>3, <2>1, <2>2
  <2> QED
    BY <1>6, <2>3
<1> QED
  BY <1>4, <1>7, <1>8, <1>9, <1>10

LEMMA DelayGrew ==
  ASSUME NEW m, NEW c, NEW p, Grown(m, c, p), NEW i, NEW v, v = WireAt(m, c, i), Readable(m, c, i),
         NEW lack \in Nat, NEW overlap \in Nat
  PROVE  /\ LastOf(WireDelay(m, i, lack, overlap)) = LastOf(m) + 1
         /\ GrewTo(WireDelay(m, i, lack, overlap), m, c, p, LateBy(v, lack, overlap))
<1> DEFINE new == [kind |-> "Delay", inputs |-> <<i>>, delay |-> lack, overlap |-> overlap]
<1>0. /\ IsWire(v) /\ IsFact(v.fact) /\ v.rate = v.fact.pulse /\ v.fact = FactOf(m, i) /\ Once(v)
      /\ v.fact.pulse \in Nat \ {0} /\ v.fact.dim \in Nat /\ v.fact.delay \in Nat
  BY ReadableFacts DEF Once
<1>1. WireDelay(m, i, lack, overlap) = Wire(m, new)
  BY DEF WireDelay
<1>2. new.kind = "Delay" /\ new.inputs = <<i>> /\ new.delay = lack /\ new.overlap = overlap
  OBVIOUS
<1> HIDE DEF new
<1> DEFINE w == LateBy(v, lack, overlap)
<1>3. PICK fact, rate, content : fact = w.fact /\ rate = w.rate /\ content = w.content
  OBVIOUS
<1>4. /\ w = [fact |-> fact, rate |-> rate, content |-> content]
      /\ fact = [pulse |-> v.fact.pulse + overlap, dim |-> v.fact.dim, symbolic |-> v.fact.symbolic,
                 delay |-> v.fact.delay + lack + overlap]
      /\ rate = v.fact.pulse /\ content = v.content
  BY <1>3 DEF LateBy
<1>5. fact = OutputFact(new, <<FactOf(m, i)>>)
  BY <1>0, <1>2, <1>4, OutputFacts
<1>6. rate = fact.pulse - IF new.kind = "Delay" THEN new.overlap ELSE 0
  BY <1>0, <1>2, <1>4
<1>7. IsWire(w)
  BY <1>0, LateByFacts
<1>8. DelayMakes(new, w, v)
  <2>1. /\ w.fact.delay = v.fact.delay + Buffered(new) /\ w.fact.pulse = v.fact.pulse + overlap
        /\ w.fact.dim = v.fact.dim /\ w.rate = v.rate /\ w.content = v.content
    BY <1>0, <1>2, <1>3, <1>4 DEF Buffered
  <2> HIDE DEF w
  <2> QED
    BY <1>0, <1>2, <2>1 DEF DelayMakes
<1>9. Makes(new, w, <<v>>, p)
  BY <1>8 DEF Makes
<1> HIDE DEF w
<1> QED
  BY <1>1, <1>2, <1>4, <1>5, <1>6, <1>7, <1>9, OneInput DEF Readable, w

(* A wire that is delayed if it must be, and where it is then. *)
LEMMA DelayedGrew ==
  ASSUME NEW m, NEW c, NEW p, Grown(m, c, p), NEW i, NEW v, v = WireAt(m, c, i), Readable(m, c, i),
         NEW lack \in Nat
  PROVE  \E c2 : /\ Grown(DelayedBy(m, i, lack), c2, p)
                 /\ Extends(DelayedBy(m, i, lack), c2, m, c)
                 /\ Readable(DelayedBy(m, i, lack), c2, DelayedWire(m, i, lack))
                 /\ WireAt(DelayedBy(m, i, lack), c2, DelayedWire(m, i, lack)) = LateBy(v, lack, 0)
<1>0. IsWire(v) /\ Once(v) /\ LastOf(m) \in Nat /\ i \in 1 .. LastOf(m)
  BY DEF Readable, Grown, Built
<1>1. IsWire(LateBy(v, lack, 0)) /\ Once(LateBy(v, lack, 0)) /\ LateBy(v, 0, 0) = v
  <2>1. v = [fact |-> v.fact, rate |-> v.rate, content |-> v.content]
    BY DEF WireAt
  <2> QED
    BY <1>0, <2>1, LateByFacts
<1>2. CASE lack > 0
  <2>1. DelayedBy(m, i, lack) = WireDelay(m, i, lack, 0) /\ DelayedWire(m, i, lack) = LastOf(m) + 1
    BY <1>2 DEF DelayedBy, DelayedWire
  <2>2. /\ LastOf(WireDelay(m, i, lack, 0)) = LastOf(m) + 1
        /\ GrewTo(WireDelay(m, i, lack, 0), m, c, p, LateBy(v, lack, 0))
    BY DelayGrew
  <2>3. LastOf(m) + 1 \in 1 .. LastOf(m) + 1
    BY <1>0
  <2> QED
    BY <1>1, <2>1, <2>2, <2>3 DEF GrewTo, Readable
<1>3. CASE ~ (lack > 0)
  <2>1. DelayedBy(m, i, lack) = m /\ DelayedWire(m, i, lack) = i /\ lack = 0
    BY <1>3 DEF DelayedBy, DelayedWire
  <2>2. Extends(m, c, m, c)
    BY <1>0 DEF Extends, Longer
  <2> QED
    BY <1>1, <2>1, <2>2
<1> QED
  BY <1>2, <1>3

LEMMA TwoInputs ==
  ASSUME NEW m, NEW c, NEW p, Grown(m, c, p), NEW op, NEW i, NEW j, op.inputs = <<i, j>>, op.kind # "Delay",
         Readable(m, c, i), Readable(m, c, j),
         NEW fact, fact = OutputFact(op, <<FactOf(m, i), FactOf(m, j)>>), NEW content,
         NEW w, w = [fact |-> fact, rate |-> fact.pulse, content |-> content], fact.pulse \in Nat,
         IsWire(w), Makes(op, w, <<WireAt(m, c, i), WireAt(m, c, j)>>, p)
  PROVE  GrewTo(Wire(m, op), m, c, p, w)
<1>1. DOMAIN op.inputs = {1, 2} /\ op.inputs[1] = i /\ op.inputs[2] = j
  OBVIOUS
<1>2. [k \in DOMAIN op.inputs |-> FactOf(m, op.inputs[k])] = <<FactOf(m, i), FactOf(m, j)>>
  BY <1>1
<1>3. [k \in DOMAIN op.inputs |-> WireAt(m, c, op.inputs[k])] = <<WireAt(m, c, i), WireAt(m, c, j)>>
  BY <1>1
<1>4. NewWire(m, op, content) = w
  BY <1>2 DEF NewWire
<1>5. \A k \in DOMAIN op.inputs : op.inputs[k] \in 1 .. LastOf(m)
  BY <1>1 DEF Readable
<1> QED
  BY <1>3, <1>4, <1>5, WireGrows

(* What grew later on is still there. *)
LEMMA GrewAfter ==
  ASSUME NEW m, NEW c, NEW p, Grown(m, c, p), NEW m2, NEW c2, Grown(m2, c2, p), Extends(m2, c2, m, c),
         NEW m3, NEW w, GrewTo(m3, m2, c2, p, w)
  PROVE  GrewTo(m3, m, c, p, w)
<1>1. PICK c3 : /\ Grown(m3, c3, p) /\ Extends(m3, c3, m2, c2)
                /\ LastOf(m2) < LastOf(m3) /\ WireAt(m3, c3, LastOf(m3)) = w
  BY DEF GrewTo
<1>2. LastOf(m) \in Nat /\ LastOf(m2) \in Nat /\ LastOf(m3) \in Nat /\ LastOf(m) <= LastOf(m2)
  BY <1>1 DEF Grown, Built, Extends, Longer
<1>3. Extends(m3, c3, m, c) /\ LastOf(m) < LastOf(m3)
  BY <1>1, <1>2, GrewFurther
<1> QED
  BY <1>1, <1>3 DEF GrewTo

LEMMA StillReadable ==
  ASSUME NEW m, NEW c, NEW p, Grown(m, c, p), NEW m2, NEW c2, Grown(m2, c2, p), Extends(m2, c2, m, c),
         NEW i, Readable(m, c, i)
  PROVE  Readable(m2, c2, i) /\ WireAt(m2, c2, i) = WireAt(m, c, i)
<1>1. i \in 1 .. LastOf(m) /\ LastOf(m) \in Nat /\ LastOf(m2) \in Nat /\ LastOf(m) <= LastOf(m2)
  BY DEF Readable, Grown, Built, Extends, Longer
<1>2. i \in 1 .. LastOf(m2)
  BY <1>1
<1>3. WireAt(m2, c2, i) = WireAt(m, c, i)
  BY <1>1, SameWire
<1> QED
  BY <1>2, <1>3 DEF Readable

LEMMA BinaryTurned ==
  ASSUME NEW m, NEW c, NEW p, p.pulse \in Nat, Grown(m, c, p),
         NEW i, NEW u, u = WireAt(m, c, i), Readable(m, c, i),
         NEW j, NEW v, v = WireAt(m, c, j), Readable(m, c, j),
         u.fact.pulse = v.fact.pulse, u.fact.dim = v.fact.dim,
         NEW op, op.kind = "binary"
  PROVE  Turned(PulsifyBinary(m, <<i, j>>, op), m, c, p, BatchNode(op, <<u.content, v.content>>, p.len),
                LongEnough(u, p))
<1>1. /\ IsWire(u) /\ u.fact = FactOf(m, i) /\ Once(u) /\ u.fact.dim \in Nat /\ u.fact.pulse \in Nat \ {0}
      /\ u.fact.delay \in Nat /\ Count(u.content) = u.fact.dim
      /\ IsWire(v) /\ v.fact = FactOf(m, j) /\ Once(v) /\ v.fact.delay \in Nat
  BY ReadableFacts DEF Once
<1>2. PICK latest, lack1, lack2 :
        /\ latest = IF u.fact.delay >= v.fact.delay THEN u.fact.delay ELSE v.fact.delay
        /\ lack1 = latest - u.fact.delay /\ lack2 = latest - v.fact.delay
  OBVIOUS
<1>3. /\ lack1 \in Nat /\ lack2 \in Nat /\ latest \in Nat
      /\ u.fact.delay + lack1 = latest /\ v.fact.delay + lack2 = latest
  BY <1>1, <1>2
<1>4. PICK m1, a : m1 = DelayedBy(m, i, lack1) /\ a = DelayedWire(m, i, lack1)
  OBVIOUS
<1>5. PICK c1 : /\ Grown(m1, c1, p) /\ Extends(m1, c1, m, c) /\ Readable(m1, c1, a)
                /\ WireAt(m1, c1, a) = LateBy(u, lack1, 0)
  BY <1>3, <1>4, DelayedGrew
<1>6. Readable(m1, c1, j) /\ WireAt(m1, c1, j) = v
  BY <1>5, StillReadable
<1>7. PICK m2, b : m2 = DelayedBy(m1, j, lack2) /\ b = DelayedWire(m1, j, lack2)
  OBVIOUS
<1>8. PICK c2 : /\ Grown(m2, c2, p) /\ Extends(m2, c2, m1, c1) /\ Readable(m2, c2, b)
                /\ WireAt(m2, c2, b) = LateBy(v, lack2, 0)
  BY <1>3, <1>5, <1>6, <1>7, DelayedGrew
<1>9. Readable(m2, c2, a) /\ WireAt(m2, c2, a) = LateBy(u, lack1, 0)
  BY <1>5, <1>8, StillReadable
<1>10. Extends(m2, c2, m, c)
  BY <1>5, <1>8, GrewFurther DEF Grown, Built
<1> DEFINE x == LateBy(u, lack1, 0)
           y == LateBy(v, lack2, 0)
           new == [kind |-> "Binary", inputs |-> <<a, b>>]
           content == [k \in 0 .. u.fact.dim - 1 |-> <<"binary", u.content[k], v.content[k]>>]
           w == [fact |-> x.fact, rate |-> x.fact.pulse, content |-> content]
<1>11. PulsifyBinary(m, <<i, j>>, op) = Wire(m2, new)
  <2>1. <<i, j>>[1] = i /\ <<i, j>>[2] = j
    OBVIOUS
  <2>2. PulsifyBinary(m, <<i, j>>, op)
          = Wire(DelayedBy(DelayedBy(m, i, lack1), j, lack2),
                 [kind |-> "Binary", inputs |-> <<DelayedWire(m, i, lack1), DelayedWire(DelayedBy(m, i, lack1), j, lack2)>>])
    BY <1>1, <1>2, <2>1 DEF PulsifyBinary
  <2> QED
    BY <1>4, <1>7, <2>2
<1>12. BatchNode(op, <<u.content, v.content>>, p.len) = content
  BY <1>1 DEF BatchNode
<1>13. /\ IsWire(x) /\ Once(x) /\ IsWire(y) /\ Once(y)
       /\ x.fact.pulse = u.fact.pulse /\ y.fact.pulse = v.fact.pulse
       /\ x.fact.dim = u.fact.dim /\ y.fact.dim = v.fact.dim
       /\ x.fact.delay = latest /\ y.fact.delay = latest
       /\ x.content = u.content /\ y.content = v.content
  <2>1. IsWire(x) /\ Once(x) /\ IsWire(y) /\ Once(y)
    BY <1>1, <1>3, LateByFacts
  <2>2. /\ x.fact.pulse = u.fact.pulse + 0 /\ y.fact.pulse = v.fact.pulse + 0
        /\ x.fact.dim = u.fact.dim /\ y.fact.dim = v.fact.dim
        /\ x.fact.delay = u.fact.delay + lack1 + 0 /\ y.fact.delay = v.fact.delay + lack2 + 0
        /\ x.content = u.content /\ y.content = v.content
    BY DEF LateBy
  <2> QED
    BY <1>1, <1>3, <2>1, <2>2
<1>14. LongEnough(u, p) => LongEnough(x, p)
  BY <1>1, <1>3, LateByFacts
<1> HIDE DEF x, y
<1>15. \A k \in 0 .. u.fact.dim - 1 : content[k] = <<"binary", u.content[k], v.content[k]>> /\ content[k] # <<"none">>
  OBVIOUS
<1>16. DOMAIN content = 0 .. u.fact.dim - 1 /\ w.fact = x.fact /\ w.content = content /\ w.rate = x.fact.pulse
  OBVIOUS
<1>17. w = [fact |-> x.fact, rate |-> x.fact.pulse, content |-> content]
  OBVIOUS
<1> HIDE DEF content, w
<1>18. IsWire(w) /\ Once(w)
  BY <1>13, <1>15, <1>16 DEF IsWire, IsFact, Once
<1>19. LongEnough(u, p) => LongEnough(w, p)
  BY <1>13, <1>14, <1>16 DEF LongEnough, Once
<1>20. Makes(new, w, <<x, y>>, p)
  <2>1. Alike(w, x) /\ Alike(w, y)
    BY <1>13, <1>16, <1>18 DEF Alike
  <2>2. BinaryMakes(new, w, x, y)
    BY <1>13, <1>15, <1>16, <2>1 DEF BinaryMakes
  <2> QED
    BY <2>2 DEF Makes
<1>21. x.fact = OutputFact(new, <<FactOf(m2, a), FactOf(m2, b)>>)
  <2>1. FactOf(m2, a) = x.fact
    BY <1>9 DEF x, WireAt
  <2> QED
    BY <2>1 DEF OutputFact
<1>22. new.inputs = <<a, b>> /\ new.kind # "Delay" /\ x.fact.pulse \in Nat
  BY <1>1, <1>13
<1> HIDE DEF new
<1>23. WireAt(m2, c2, a) = x /\ WireAt(m2, c2, b) = y
  BY <1>8, <1>9 DEF x, y
<1>24. GrewTo(Wire(m2, new), m2, c2, p, w)
  BY <1>8, <1>9, <1>17, <1>18, <1>20, <1>21, <1>22, <1>23, TwoInputs
<1>25. GrewTo(Wire(m2, new), m, c, p, w)
  BY <1>8, <1>10, <1>24, GrewAfter
<1> QED
  BY <1>11, <1>12, <1>16, <1>18, <1>19, <1>25 DEF Turned

(* Enough strides, and no more. *)
LEMMA CeilFacts ==
  ASSUME NEW a \in Nat, NEW s \in Nat \ {0}
  PROVE  DivCeil(a, s) \in Nat /\ a <= DivCeil(a, s) * s
<1> DEFINE d == (a + s - 1) \div s
           r == (a + s - 1) % s
<1>1. d \in Int /\ r \in 0 .. s - 1 /\ a + s - 1 = d * s + r
  OBVIOUS
<1> HIDE DEF d, r
<1>2. PICK x : x = d * s
  OBVIOUS
<1>3. x \in Int /\ a <= x
  BY <1>1, <1>2
<1>4. d >= 0
  <2>1. -1 * s < x
    BY <1>3
  <2>2. 0 * s < d * s + s
    BY <1>2, <1>3, <2>1
  <2> QED
    BY <1>1, <2>2, Multiples
<1> QED
  BY <1>1, <1>2, <1>3, <1>4 DEF DivCeil, d

LEMMA DownsampleTurned ==
  ASSUME NEW m, NEW c, NEW p, p.pulse \in Nat, Grown(m, c, p), NEW i, NEW v, v = WireAt(m, c, i), Readable(m, c, i),
         NEW op, op.kind = "downsample", op.stride \in Nat \ {0}, op.modulo = 0,
         v.fact.delay = 0, v.fact.pulse % op.stride = 0
  PROVE  Turned(PulsifyDownsample(m, i, op), m, c, p, BatchNode(op, <<v.content>>, p.len), LongEnough(v, p))
<1>0. /\ IsWire(v) /\ IsFact(v.fact) /\ v.rate = v.fact.pulse /\ v.fact = FactOf(m, i) /\ Once(v)
      /\ v.fact.pulse \in Nat \ {0} /\ v.fact.dim \in Nat
      /\ DOMAIN v.content = 0 .. v.fact.dim - 1 /\ Count(v.content) = v.fact.dim
  BY ReadableFacts DEF Once
<1>1. PICK s, pulse, dim, size, q :
        /\ s = op.stride /\ pulse = v.fact.pulse /\ dim = v.fact.dim /\ size = DivCeil(dim, s) /\ q = pulse \div s
  OBVIOUS
<1>2. s \in Nat \ {0} /\ pulse \in Nat \ {0} /\ dim \in Nat /\ size \in Nat /\ dim <= size * s
  BY <1>0, <1>1, CeilFacts
<1>3. q \in Nat \ {0} /\ pulse = q * s
  <2>1. pulse % s = 0
    BY <1>1
  <2>2. pulse \div s \in Int /\ pulse = (pulse \div s) * s + (pulse % s)
    BY <1>2
  <2>3. q \in Int /\ pulse = q * s
    <3>1. q = pulse \div s
      BY <1>1
    <3>2. q \in Int /\ q * s \in Int
      BY <1>2, <2>2, <3>1
    <3> QED
      BY <2>1, <2>2, <3>1, <3>2
  <2>4. 1 * s < q * s + s
    BY <1>2, <2>3
  <2>5. 1 <= q
    BY <1>2, <2>3, <2>4, Multiples
  <2> QED
    BY <2>3, <2>5
<1> DEFINE new == [kind |-> "Downsample", inputs |-> <<i>>, stride |-> s, modulo |-> op.modulo]
           content == [k \in 0 .. size - 1 |-> v.content[k * s]]
           fact == [pulse |-> q, dim |-> size, symbolic |-> v.fact.symbolic, delay |-> 0]
           w == [fact |-> fact, rate |-> q, content |-> content]
<1>4. BatchNode(op, <<v.content>>, p.len) = content
  <2>1. BatchNode(op, <<v.content>>, p.len)
          = [k \in 0 .. DivCeil(dim - op.modulo, s) - 1 |-> v.content[op.modulo + k * s]]
    BY <1>0, <1>1 DEF BatchNode
  <2>2. dim - op.modulo = dim
    BY <1>2
  <2>3. DivCeil(dim - op.modulo, s) = size
    BY <1>1, <2>2
  <2>4. \A k \in 0 .. size - 1 : op.modulo + k * s = k * s
    BY <1>2
  <2> HIDE DEF content
  <2>5. BatchNode(op, <<v.content>>, p.len) = [k \in 0 .. size - 1 |-> v.content[op.modulo + k * s]]
    BY <2>1, <2>3
  <2> QED
    BY <2>4, <2>5 DEF content
<1>5. PulsifyDownsample(m, i, op) = Wire(m, new)
  BY <1>0, <1>1 DEF PulsifyDownsample
<1>6. OutputFact(new, <<FactOf(m, i)>>) = fact
  <2>1. new.kind = "Downsample" /\ new.stride = s
    OBVIOUS
  <2> HIDE DEF new
  <2>2. OutputFact(new, <<v.fact>>)
          = [pulse |-> v.fact.pulse \div s, dim |-> DivCeil(v.fact.dim, s),
             symbolic |-> v.fact.symbolic, delay |-> v.fact.delay]
    BY <1>0, <2>1, OutputFacts
  <2>3. v.fact.pulse \div s = q /\ DivCeil(v.fact.dim, s) = size
    BY <1>1
  <2> QED
    BY <1>0, <2>2, <2>3
<1>7. ASSUME NEW k \in 0 .. size - 1
      PROVE  k * s < dim /\ content[k] = v.content[k * s] /\ content[k] # <<"none">>
  <2>1. k * s < dim
    BY <1>1, <1>2, BeforeTheEnd
  <2>2. k * s \in 0 .. dim - 1
    <3>1. k * s \in Nat
      BY <1>2
    <3> QED
      BY <1>2, <2>1, <3>1
  <2>3. v.content[k * s] # <<"none">>
    BY <1>0, <1>1, <2>2 DEF IsWire
  <2> QED
    BY <2>1, <2>3
<1>8. DOMAIN content = 0 .. size - 1 /\ w.content = content /\ w.rate = q /\ w.fact = fact
  OBVIOUS
<1>9. fact.pulse = q /\ fact.dim = size /\ fact.delay = 0 /\ fact = [pulse |-> fact.pulse, dim |-> fact.dim, symbolic |-> fact.symbolic, delay |-> fact.delay]
  OBVIOUS
<1>10. w = [fact |-> fact, rate |-> q, content |-> content] /\ new.inputs = <<i>> /\ new.kind = "Downsample"
       /\ new.stride = s /\ new.modulo = op.modulo
  OBVIOUS
<1> HIDE DEF content, fact, w, new
<1>11. IsWire(w) /\ Once(w)
  BY <1>2, <1>3, <1>7, <1>8, <1>9 DEF IsWire, IsFact, Once
<1>12. Makes(new, w, <<v>>, p)
  <2>1. DownsampleMakes(new, w, v)
    BY <1>0, <1>1, <1>2, <1>3, <1>7, <1>8, <1>9, <1>10, <1>11 DEF DownsampleMakes
  <2> QED
    BY <2>1 DEF Makes
<1>13. ASSUME LongEnough(v, p) PROVE LongEnough(w, p)
  <2> SUFFICES ASSUME NEW calls \in Nat, calls * p.pulse <= p.len
               PROVE  calls * q <= 0 + size
    BY <1>8, <1>9 DEF LongEnough
  <2>1. calls * pulse <= 0 + dim
    BY <1>0, <1>1, <1>13 DEF LongEnough
  <2>2. PICK x : x = calls * q
    OBVIOUS
  <2>3. x \in Nat /\ x * s = calls * pulse
    BY <1>2, <1>3, <2>2
  <2>4. x * s <= size * s
    <3>1. x * s \in Nat /\ size * s \in Nat
      BY <1>2, <2>3
    <3> QED
      BY <1>2, <2>1, <2>3, <3>1
  <2>5. x * s < size * s + s
    <3>1. x * s \in Nat /\ size * s \in Nat
      BY <1>2, <2>3
    <3> QED
      BY <1>2, <2>4, <3>1
  <2>6. x <= size
    BY <1>2, <2>3, <2>5, Multiples
  <2> QED
    BY <1>2, <2>2, <2>3, <2>6
<1>14. q = fact.pulse - IF new.kind = "Delay" THEN new.overlap ELSE 0
  BY <1>3, <1>9, <1>10
<1>15. GrewTo(Wire(m, new), m, c, p, w)
  BY <1>6, <1>10, <1>11, <1>12, <1>14, OneInput DEF Readable
<1> QED
  BY <1>4, <1>5, <1>8, <1>11, <1>13, <1>15 DEF Turned

(* The positions of a model are usizes. *)
NumbersFit(m) == \A n \in 1 .. LastOf(m) : FactOf(m, n).delay + FactOf(m, n).dim <= UsizeMax

LEMMA NumbersFitBefore ==
  ASSUME NEW m, NEW m2, LastOf(m) \in Nat, LastOf(m2) \in Nat, Longer(m2, m), NumbersFit(m2)
  PROVE  NumbersFit(m)
BY DEF NumbersFit, Longer, FactOf

(* The PulsePad that WirePad wires, of a wire of some fact. *)
PadOp(m, i, fact, op, extra) ==
  [kind |-> "PulsePad", inputs |-> <<DelayedWire(m, i, extra)>>,
   pulse |-> fact.pulse, before |-> op.before, after |-> op.after, edge |-> op.edge,
   begin_input |-> fact.delay + extra, end_input |-> fact.delay + extra + fact.dim,
   symbolic |-> fact.symbolic]

PadWire(v, op, extra) ==
  [fact |-> [pulse |-> v.fact.pulse, dim |-> v.fact.dim + op.before + op.after,
             symbolic |-> v.fact.symbolic, delay |-> v.fact.delay + extra - op.before],
   rate |-> v.fact.pulse, content |-> BatchPad(op, v.content)]

LEMMA PadWireFacts ==
  ASSUME NEW p, p.pulse \in Nat, NEW v, IsWire(v), Once(v), LongEnough(v, p),
         NEW op, op.before \in Nat, op.after \in Nat, op.edge \in BOOLEAN, op.edge => v.fact.dim > 0,
         NEW extra \in Nat, op.before <= v.fact.delay + extra
  PROVE  LET w == PadWire(v, op, extra)
         IN  /\ IsWire(w) /\ Once(w) /\ LongEnough(w, p)
             /\ \A k \in 0 .. w.fact.dim - 1 :
                  w.content[k] = IF k < op.before THEN IF op.edge THEN v.content[0] ELSE <<"pad">>
                                 ELSE IF k < op.before + v.fact.dim THEN v.content[k - op.before]
                                 ELSE IF op.edge THEN v.content[v.fact.dim - 1] ELSE <<"pad">>
<1>1. /\ v.fact.pulse \in Nat \ {0} /\ v.fact.dim \in Nat /\ v.fact.delay \in Nat /\ v.rate = v.fact.pulse
      /\ DOMAIN v.content = 0 .. v.fact.dim - 1
      /\ \A k \in DOMAIN v.content : v.content[k] # <<"none">>
  BY DEF IsWire, IsFact, Once
<1>2. PICK pulse, dim, symbolic, delay, in, before, after :
        /\ pulse = v.fact.pulse /\ dim = v.fact.dim /\ symbolic = v.fact.symbolic /\ delay = v.fact.delay
        /\ in = v.content /\ before = op.before /\ after = op.after
  OBVIOUS
<1>3. /\ pulse \in Nat \ {0} /\ dim \in Nat /\ delay \in Nat /\ before \in Nat /\ after \in Nat
      /\ before <= delay + extra /\ DOMAIN in = 0 .. dim - 1 /\ (op.edge => dim > 0)
      /\ \A k \in 0 .. dim - 1 : in[k] # <<"none">>
  BY <1>1, <1>2
<1>4. Count(in) = dim
  BY <1>3, CountOf
<1>5. PICK size, late : size = dim + before + after /\ late = delay + extra - before
  OBVIOUS
<1>6. size \in Nat /\ late \in Nat /\ late + size = delay + extra + dim + after
  BY <1>3, <1>5
<1> DEFINE fact == [pulse |-> pulse, dim |-> size, symbolic |-> symbolic, delay |-> late]
           content == BatchPad(op, in)
           w == [fact |-> fact, rate |-> pulse, content |-> content]
<1>7. PadWire(v, op, extra) = w
  BY <1>2, <1>5 DEF PadWire
<1>8. content = [i \in 0 .. size - 1 |->
                   IF i - before \in DOMAIN in THEN in[i - before] ELSE PadFrame(op, in, i - before)]
  <2>1. dim + before + after - 1 = size - 1
    BY <1>3, <1>5
  <2> QED
    BY <1>2, <1>4, <2>1 DEF BatchPad
<1> HIDE DEF content
<1>9. ASSUME NEW k \in 0 .. size - 1
      PROVE  /\ content[k] = IF k < before THEN IF op.edge THEN in[0] ELSE <<"pad">>
                             ELSE IF k < before + dim THEN in[k - before]
                             ELSE IF op.edge THEN in[dim - 1] ELSE <<"pad">>
             /\ content[k] # <<"none">>
  <2>1. content[k] = IF k - before \in DOMAIN in THEN in[k - before] ELSE PadFrame(op, in, k - before)
    BY <1>8
  <2>2. CASE k < before
    <3>1. k - before < 0 /\ ~ (k - before \in 0 .. dim - 1)
      BY <1>3, <2>2
    <3>2. content[k] = PadFrame(op, in, k - before)
      BY <1>3, <2>1, <3>1
    <3>3. content[k] = IF op.edge THEN in[0] ELSE <<"pad">>
      BY <3>1, <3>2 DEF PadFrame
    <3>4. op.edge => 0 \in 0 .. dim - 1
      BY <1>3
    <3> QED
      BY <1>3, <2>2, <3>3, <3>4
  <2>3. CASE ~ (k < before) /\ k < before + dim
    <3>1. k - before \in 0 .. dim - 1
      BY <1>3, <2>3
    <3> QED
      BY <1>3, <2>1, <2>3, <3>1
  <2>4. CASE ~ (k < before) /\ ~ (k < before + dim)
    <3>1. ~ (k - before < 0) /\ ~ (k - before \in 0 .. dim - 1)
      BY <1>3, <2>4
    <3>2. content[k] = PadFrame(op, in, k - before)
      BY <1>3, <2>1, <3>1
    <3>3. content[k] = IF op.edge THEN in[dim - 1] ELSE <<"pad">>
      BY <1>4, <3>1, <3>2 DEF PadFrame
    <3>4. op.edge => dim - 1 \in 0 .. dim - 1
      BY <1>3
    <3> QED
      BY <1>3, <2>4, <3>3, <3>4
  <2> QED
    BY <2>2, <2>3, <2>4
<1>10. DOMAIN content = 0 .. size - 1
  BY <1>8
<1>11. /\ w.fact = fact /\ w.rate = pulse /\ w.content = content
       /\ fact.pulse = pulse /\ fact.dim = size /\ fact.delay = late
       /\ fact = [pulse |-> fact.pulse, dim |-> fact.dim, symbolic |-> fact.symbolic, delay |-> fact.delay]
  OBVIOUS
<1> HIDE DEF fact, w
<1>12. IsWire(w) /\ Once(w)
  BY <1>3, <1>6, <1>9, <1>10, <1>11 DEF IsWire, IsFact, Once
<1>13. LongEnough(w, p)
  <2> SUFFICES ASSUME NEW calls \in Nat, calls * p.pulse <= p.len
               PROVE  calls * pulse <= late + size
    BY <1>11 DEF LongEnough
  <2>1. calls * pulse <= delay + dim /\ calls * pulse \in Nat
    <3>1. calls * v.rate <= v.fact.delay + v.fact.dim
      BY DEF LongEnough
    <3> QED
      BY <1>1, <1>2, <1>3, <3>1
  <2> QED
    BY <1>3, <1>6, <2>1
<1>14. \A k \in 0 .. w.fact.dim - 1 :
         w.content[k] = IF k < op.before THEN IF op.edge THEN v.content[0] ELSE <<"pad">>
                        ELSE IF k < op.before + v.fact.dim THEN v.content[k - op.before]
                        ELSE IF op.edge THEN v.content[v.fact.dim - 1] ELSE <<"pad">>
  BY <1>2, <1>9, <1>11
<1> QED
  BY <1>7, <1>12, <1>13, <1>14

LEMMA PadGrew ==
  ASSUME NEW m, NEW c, NEW p, p.pulse \in Nat, Grown(m, c, p), NEW i, NEW v, v = WireAt(m, c, i),
         Readable(m, c, i), LongEnough(v, p),
         NEW op, op.before \in Nat, op.after \in Nat, op.edge \in BOOLEAN, op.edge => v.fact.dim > 0,
         NEW extra \in Nat, op.before <= v.fact.delay + extra,
         op.edge => InTime(PadOp(m, i, v.fact, op, extra)),
         NumbersFit(WirePad(m, i, op, extra))
  PROVE  GrewTo(WirePad(m, i, op, extra), m, c, p, PadWire(v, op, extra))
<1>1. /\ IsWire(v) /\ IsFact(v.fact) /\ v.rate = v.fact.pulse /\ v.fact = FactOf(m, i) /\ Once(v)
      /\ v.fact.pulse \in Nat \ {0} /\ v.fact.dim \in Nat /\ v.fact.delay \in Nat
  BY ReadableFacts DEF Once
<1> DEFINE new == PadOp(m, i, v.fact, op, extra)
           u == LateBy(v, extra, 0)
           w == PadWire(v, op, extra)
<1>2. PICK m1, a : m1 = DelayedBy(m, i, extra) /\ a = DelayedWire(m, i, extra)
  OBVIOUS
<1>3. PICK c1 : /\ Grown(m1, c1, p) /\ Extends(m1, c1, m, c) /\ Readable(m1, c1, a)
                /\ WireAt(m1, c1, a) = u
  BY <1>2, DelayedGrew
<1>4. WirePad(m, i, op, extra) = Wire(m1, new)
  BY <1>1, <1>2 DEF WirePad, PadOp
<1>5. /\ new.kind = "PulsePad" /\ new.inputs = <<a>> /\ new.pulse = v.fact.pulse /\ new.before = op.before
      /\ new.after = op.after /\ new.edge = op.edge /\ new.begin_input = v.fact.delay + extra
      /\ new.end_input = v.fact.delay + extra + v.fact.dim
  BY <1>2 DEF PadOp
<1> HIDE DEF new
<1>6. /\ IsWire(w) /\ Once(w)
      /\ \A k \in 0 .. w.fact.dim - 1 :
           w.content[k] = IF k < op.before THEN IF op.edge THEN v.content[0] ELSE <<"pad">>
                          ELSE IF k < op.before + v.fact.dim THEN v.content[k - op.before]
                          ELSE IF op.edge THEN v.content[v.fact.dim - 1] ELSE <<"pad">>
  BY <1>1, PadWireFacts
<1>7. /\ IsWire(u) /\ IsFact(u.fact) /\ Once(u) /\ LongEnough(u, p) /\ u.fact.pulse = v.fact.pulse /\ u.fact.dim = v.fact.dim
      /\ u.fact.delay = v.fact.delay + extra /\ u.content = v.content /\ u.fact.symbolic = v.fact.symbolic
  <2>1. IsWire(u) /\ Once(u) /\ LongEnough(u, p)
    BY <1>1, LateByFacts
  <2>2. /\ u.fact.pulse = v.fact.pulse + 0 /\ u.fact.dim = v.fact.dim
        /\ u.fact.delay = v.fact.delay + extra + 0 /\ u.content = v.content /\ u.fact.symbolic = v.fact.symbolic
    BY DEF LateBy
  <2> HIDE DEF u
  <2> QED
    BY <1>1, <2>1, <2>2 DEF IsWire
<1>8. PICK fact, rate, content : fact = w.fact /\ rate = w.rate /\ content = w.content
  OBVIOUS
<1>9. /\ w = [fact |-> fact, rate |-> rate, content |-> content] /\ rate = fact.pulse
      /\ fact = [pulse |-> v.fact.pulse, dim |-> v.fact.dim + op.before + op.after,
                 symbolic |-> v.fact.symbolic, delay |-> v.fact.delay + extra - op.before]
  BY <1>8 DEF PadWire
<1> HIDE DEF u, w
<1>10. u.fact = FactOf(m1, a)
  BY <1>3 DEF WireAt
<1>11. fact = OutputFact(new, <<FactOf(m1, a)>>)
  <2>1. PICK f : f = u.fact
    OBVIOUS
  <2>2. IsFact(f) /\ new.kind = "PulsePad"
    BY <1>5, <1>7, <2>1
  <2>3. OutputFact(new, <<f>>)
          = [pulse |-> f.pulse, dim |-> f.dim + new.before + new.after,
             symbolic |-> f.symbolic, delay |-> f.delay - new.before]
    BY ONLY <2>2, OutputFacts
  <2>4. /\ f.pulse = v.fact.pulse /\ f.dim = v.fact.dim /\ f.symbolic = v.fact.symbolic
        /\ f.delay = v.fact.delay + extra /\ new.before = op.before /\ new.after = op.after
    BY <1>5, <1>7, <2>1
  <2>5. fact = [pulse |-> f.pulse, dim |-> f.dim + new.before + new.after,
                symbolic |-> f.symbolic, delay |-> f.delay - new.before]
    <3>1. PICK d, n : d = v.fact.delay + extra - op.before /\ n = v.fact.dim + op.before + op.after
      OBVIOUS
    <3>2. f.delay - new.before = d /\ f.dim + new.before + new.after = n
      BY <1>1, <2>4, <3>1
    <3> QED
      BY <1>9, <2>4, <3>1, <3>2
  <2>6. FactOf(m1, a) = f
    BY <1>10, <2>1
  <2> QED
    BY <2>3, <2>5, <2>6
<1>12. rate = fact.pulse - IF new.kind = "Delay" THEN new.overlap ELSE 0
  BY <1>1, <1>5, <1>9
<1>13. /\ w.fact.pulse = v.fact.pulse /\ w.fact.delay = v.fact.delay + extra - op.before
       /\ w.fact.dim = v.fact.dim + op.before + op.after
  BY <1>8, <1>9
<1>14. fact.delay + fact.dim <= UsizeMax
  <2>1. Built(m1)
    BY <1>3 DEF Grown
  <2>2. /\ LastOf(Wire(m1, new)) = LastOf(m1) + 1
        /\ Wire(m1, new).nodes[LastOf(m1) + 1].fact
             = OutputFact(new, [k \in DOMAIN new.inputs |-> m1.nodes[new.inputs[k]].fact])
    <3>1. PICK node : node = [op |-> new, fact |-> OutputFact(new, [k \in DOMAIN new.inputs |-> m1.nodes[new.inputs[k]].fact])]
      OBVIOUS
    <3>2. LastOf(Wire(m1, new)) = LastOf(m1) + 1 /\ Wire(m1, new).nodes[LastOf(m1) + 1] = node
      BY <2>1, <3>1, WireBuilt
    <3> QED
      BY <3>1, <3>2
  <2>3. [k \in DOMAIN new.inputs |-> m1.nodes[new.inputs[k]].fact] = <<FactOf(m1, a)>>
    <3>1. DOMAIN new.inputs = {1} /\ new.inputs[1] = a
      BY <1>5
    <3> QED
      BY <3>1 DEF FactOf
  <2>4. LastOf(m1) + 1 \in 1 .. LastOf(m1) + 1
    BY <2>1 DEF Built
  <2>5. FactOf(Wire(m1, new), LastOf(m1) + 1) = fact
    BY <1>11, <2>2, <2>3 DEF FactOf
  <2> QED
    BY <1>4, <2>2, <2>4, <2>5 DEF NumbersFit
<1>15. Makes(new, w, <<u>>, p)
  <2>1. w.fact.delay + new.before = u.fact.delay /\ w.fact.dim = new.before + u.fact.dim + new.after
    BY <1>1, <1>5, <1>7, <1>13
  <2>2. new.end_input = u.fact.delay + u.fact.dim /\ new.begin_input = u.fact.delay
    BY <1>5, <1>7
  <2>3. w.fact.delay + w.fact.dim <= UsizeMax
    BY <1>8, <1>14
  <2>4. new.edge => u.fact.dim > 0 /\ InTime(new)
    BY <1>5, <1>7 DEF new
  <2>5. \A k \in 0 .. w.fact.dim - 1 :
          w.content[k] = IF k < new.before THEN IF new.edge THEN u.content[0] ELSE <<"pad">>
                         ELSE IF k < new.before + u.fact.dim THEN u.content[k - new.before]
                         ELSE IF new.edge THEN u.content[u.fact.dim - 1] ELSE <<"pad">>
    BY <1>5, <1>6, <1>7
  <2>6. PadMakes(new, w, u, p)
    BY <1>5, <1>6, <1>7, <1>13, <2>1, <2>2, <2>3, <2>4, <2>5 DEF PadMakes
  <2> QED
    BY <2>6 DEF Makes
<1>16. GrewTo(Wire(m1, new), m1, c1, p, w)
  BY <1>3, <1>5, <1>6, <1>9, <1>11, <1>12, <1>15, OneInput DEF Readable
<1> QED
  BY <1>3, <1>4, <1>16, GrewAfter DEF w

LEMMA PadTurned ==
  ASSUME NEW m, NEW c, NEW p, p.pulse \in Nat, Grown(m, c, p), NEW i, NEW v, v = WireAt(m, c, i),
         Readable(m, c, i), LongEnough(v, p),
         NEW op, op.kind = "pad", op.before \in Nat, op.after \in Nat, op.edge \in BOOLEAN,
         op.edge => v.fact.dim > 0, ~ (op.edge /\ op.before >= v.fact.pulse),
         NumbersFit(PulsifyPad(m, i, op))
  PROVE  Turned(PulsifyPad(m, i, op), m, c, p, BatchNode(op, <<v.content>>, p.len), TRUE)
<1>1. /\ IsWire(v) /\ v.fact = FactOf(m, i) /\ Once(v)
      /\ v.fact.pulse \in Nat \ {0} /\ v.fact.dim \in Nat /\ v.fact.delay \in Nat
  BY ReadableFacts DEF Once
<1>2. PICK pulse, delay, before, extra, start :
        /\ pulse = v.fact.pulse /\ delay = v.fact.delay /\ before = op.before
        /\ extra = PadExtraDelay(before, op.edge, delay, pulse)
        /\ start = (delay + Monus(before, delay)) % pulse
  OBVIOUS
<1>3. pulse \in Nat \ {0} /\ delay \in Nat /\ before \in Nat
  BY <1>1, <1>2
<1>4. extra \in Nat /\ before <= delay + extra
  <2>1. PICK lack : lack = Monus(before, delay)
    OBVIOUS
  <2>2. lack \in Nat /\ before <= delay + lack
    BY <1>3, <2>1 DEF Monus
  <2>3. start \in Nat
    BY <1>2, <1>3, <2>1, <2>2
  <2>4. extra = IF op.edge /\ before > start THEN lack + before - start ELSE lack
    BY <1>2, <2>1 DEF PadExtraDelay
  <2> QED
    BY <1>3, <2>2, <2>3, <2>4
<1>5. PulsifyPad(m, i, op) = WirePad(m, i, op, extra)
  BY <1>1, <1>2 DEF PulsifyPad
<1> DEFINE new == PadOp(m, i, v.fact, op, extra)
<1>6. ASSUME op.edge PROVE InTime(new)
  <2>1. new.pulse = pulse /\ new.before = before /\ new.begin_input = delay + extra
    BY <1>2 DEF PadOp
  <2> HIDE DEF new
  <2>2. before < pulse
    BY <1>2, <1>3, <1>6
  <2>3. op.edge = TRUE
    BY <1>6
  <2>4. PICK begin : begin = delay + PadExtraDelay(before, TRUE, delay, pulse)
    OBVIOUS
  <2>5. begin = delay + extra
    BY <1>2, <2>3, <2>4
  <2>6. ASSUME NEW calls \in Nat, NEW pos, pos = calls * pulse, pos < begin, pos + pulse > begin - before
        PROVE  begin < pos + pulse
    BY <1>3, <2>2, <2>4, <2>6, EdgeComesInTime
  <2> QED
    BY <2>1, <2>5, <2>6 DEF InTime
<1>7. GrewTo(WirePad(m, i, op, extra), m, c, p, PadWire(v, op, extra))
  <2> HIDE DEF new
  <2>1. op.edge => InTime(PadOp(m, i, v.fact, op, extra))
    BY <1>6 DEF new
  <2> QED
    BY <1>2, <1>4, <1>5, <2>1, PadGrew
<1>8. Once(PadWire(v, op, extra)) /\ LongEnough(PadWire(v, op, extra), p)
  BY <1>1, <1>2, <1>4, PadWireFacts
<1>9. PadWire(v, op, extra).content = BatchNode(op, <<v.content>>, p.len)
  BY DEF PadWire, BatchNode
<1> QED
  BY <1>5, <1>7, <1>8, <1>9 DEF Turned

(* The pulse of a pool: a window for each stride of the pulse. *)
LEMMA PoolPulse ==
  ASSUME NEW s \in Nat \ {0}, NEW q \in Nat, NEW kl \in Nat
  PROVE  DivCeil(q * s + PoolOverlap(kl, s) - kl, s) = q
<1>1. PICK x, r : x = q * s /\ r = PoolOverlap(kl, s) - kl + s - 1
  OBVIOUS
<1>2. x \in Nat /\ r \in 0 .. s - 1 /\ x + PoolOverlap(kl, s) - kl + s - 1 = x + r
  BY <1>1 DEF PoolOverlap, Monus
<1>3. (x + r) \div s = q
  BY <1>1, <1>2, DivMod
<1> QED
  BY <1>1, <1>2, <1>3 DEF DivCeil

(* A delay of whole pulses is one of whole strides. *)
LEMMA StridesOfPulses ==
  ASSUME NEW s \in Nat \ {0}, NEW q \in Nat \ {0}, NEW pulse, pulse = q * s, NEW delay \in Nat, delay % pulse = 0
  PROVE  delay = (delay \div s) * s
<1>1. pulse \in Nat \ {0}
  <2>1. 1 * s <= q * s
    OBVIOUS
  <2> QED
    BY <2>1
<1>2. PICK t : t = delay \div pulse
  OBVIOUS
<1>3. t \in Int /\ delay = t * pulse
  <2>1. delay \div pulse \in Int /\ delay = (delay \div pulse) * pulse + (delay % pulse)
    BY ONLY <1>1, delay \in Nat
  <2>2. t \in Int /\ t * pulse \in Int
    BY <1>1, <1>2, <2>1
  <2> QED
    BY <1>2, <2>1, <2>2
<1>4. PICK u : u = t * q
  OBVIOUS
<1>5. u \in Int /\ delay = u * s
  BY <1>3, <1>4
<1>6. delay = u * s + 0 /\ 0 \in 0 .. s - 1
  BY <1>5
<1>7. delay \div s = u
  BY <1>5, <1>6, DivMod
<1> QED
  BY <1>5, <1>7

(* The output of a pool is long enough if its input is. *)
LEMMA PoolLongEnough ==
  ASSUME NEW s \in Nat \ {0}, NEW rate \in Nat, NEW late \in Nat, NEW n \in Nat, NEW kl \in Nat, n > kl,
         NEW before \in Nat, before + PoolOverlap(kl, s) <= late * s,
         NEW calls \in Nat, calls * (rate * s) <= before + n
  PROVE  calls * rate <= late + DivCeil(n - kl, s)
<1>1. PICK size, x, y, overlap : /\ size = DivCeil(n - kl, s) /\ x = calls * rate /\ y = late + size
                                 /\ overlap = PoolOverlap(kl, s)
  OBVIOUS
<1>2. n - kl \in Nat
  OBVIOUS
<1>3. size \in Nat /\ n - kl <= size * s
  BY <1>1, <1>2, CeilFacts
<1>4. x \in Nat /\ y \in Nat /\ x * s = calls * (rate * s) /\ y * s = late * s + size * s
  BY <1>1, <1>3
<1>5. overlap \in Nat /\ kl + 1 <= overlap + s
  BY <1>1 DEF PoolOverlap, Monus
<1>6. PICK a, b, d : a = x * s /\ b = late * s /\ d = size * s
  OBVIOUS
<1>7. a \in Nat /\ b \in Nat /\ d \in Nat /\ y * s = b + d /\ a <= before + n /\ before + overlap <= b /\ n - kl <= d
  BY <1>1, <1>3, <1>4, <1>6
<1>8. a < b + d + s
  BY <1>5, <1>7
<1>9. x * s < y * s + s
  BY <1>6, <1>7, <1>8
<1>10. x <= y
  BY <1>4, <1>9, Multiples
<1> QED
  BY <1>1, <1>10

(* A model that was made by wiring more nodes. *)
More(m2, m) == Built(m2) /\ Longer(m2, m)

LEMMA MoreOfMore ==
  ASSUME NEW m1, Built(m1), NEW m2, NEW m3
  PROVE  More(m1, m1) /\ (More(m2, m1) /\ More(m3, m2) => More(m3, m1))
<1>1. More(m1, m1)
  BY DEF More, Longer, Built
<1>2. ASSUME More(m2, m1), More(m3, m2) PROVE More(m3, m1)
  <2>1. PICK a, b, d : a = LastOf(m1) /\ b = LastOf(m2) /\ d = LastOf(m3)
    OBVIOUS
  <2>2. a \in Nat /\ b \in Nat /\ d \in Nat /\ a <= b /\ b <= d
    BY <1>2, <2>1 DEF More, Built, Longer
  <2>3. a <= d /\ 1 .. a \subseteq 1 .. b
    BY <2>2
  <2> QED
    BY <1>2, <2>1, <2>3 DEF More, Longer
<1> QED
  BY <1>1, <1>2

LEMMA WireMore ==
  ASSUME NEW m, Built(m), NEW op
  PROVE  More(Wire(m, op), m) /\ LastOf(Wire(m, op)) = LastOf(m) + 1
<1>1. PICK node : node = [op |-> op, fact |-> OutputFact(op, [i \in DOMAIN op.inputs |-> m.nodes[op.inputs[i]].fact])]
  OBVIOUS
<1> QED
  BY <1>1, WireBuilt DEF More

LEMMA DelayMore ==
  ASSUME NEW m, Built(m), NEW i, NEW lack, NEW overlap
  PROVE  More(WireDelay(m, i, lack, overlap), m) /\ More(DelayedBy(m, i, lack), m)
<1>1. \A more, again : More(WireDelay(m, i, more, again), m)
  BY WireMore DEF WireDelay
<1> QED
  BY <1>1, MoreOfMore DEF DelayedBy

LEMMA PadMore ==
  ASSUME NEW m, Built(m), NEW i, NEW op, NEW extra
  PROVE  More(WirePad(m, i, op, extra), m)
<1>1. PICK m1 : m1 = DelayedBy(m, i, extra)
  OBVIOUS
<1>2. More(m1, m)
  BY <1>1, DelayMore
<1>3. \A new : More(Wire(m1, new), m)
  BY <1>2, WireMore, MoreOfMore DEF More
<1> QED
  BY <1>1, <1>3 DEF WirePad

(* The wires of a pool: its padding, and the Delay that aligns it. *)
PoolPadded(m, i, op) ==
  IF op.before + op.after > 0 THEN WirePad(m, i, op, Monus(op.before, FactOf(m, i).delay)) ELSE m
PoolPaddedWire(m, i, op) == IF op.before + op.after > 0 THEN LastOf(PoolPadded(m, i, op)) ELSE i

IsAligned(pulse, overlap, delay) == ~ (overlap > 0 \/ delay % pulse > 0)
PoolLate(m, i, pulse, op) ==
  IF IsAligned(pulse, PoolOverlap(KernelLen(op), op.stride), FactOf(m, i).delay) THEN m
  ELSE WireDelay(m, i, PoolDelay(PoolOverlap(KernelLen(op), op.stride), op.stride, FactOf(m, i).delay),
                 PoolOverlap(KernelLen(op), op.stride))
PoolLateWire(m, i, pulse, op) ==
  IF IsAligned(pulse, PoolOverlap(KernelLen(op), op.stride), FactOf(m, i).delay) THEN i
  ELSE LastOf(PoolLate(m, i, pulse, op))

PoolOp(i, op) ==
  [kind |-> "Pool", kernel |-> op.kernel, dilation |-> op.dilation, stride |-> op.stride, inputs |-> <<i>>]

LEMMA PulsifyPoolIs ==
  ASSUME NEW m, NEW i, NEW op, NEW pulse, pulse = FactOf(m, i).pulse, NEW m1, m1 = PoolPadded(m, i, op),
         NEW a, a = PoolPaddedWire(m, i, op)
  PROVE  PulsifyPool(m, i, op) =
           IF pulse % op.stride # 0 \/ (op.before + op.after > 0 /\ op.sum)
           THEN Refused(m)
           ELSE Wire(PoolLate(m1, a, pulse, op), PoolOp(PoolLateWire(m1, a, pulse, op), op))
BY DEF PulsifyPool, PoolPadded, PoolPaddedWire, PoolLate, PoolLateWire, IsAligned, PoolOp

LEMMA PoolMore ==
  ASSUME NEW m, Built(m), NEW i, NEW op, NEW pulse, NEW a
  PROVE  /\ More(PoolPadded(m, i, op), m)
         /\ More(PoolLate(m, a, pulse, op), m)
<1>1. More(m, m)
  BY MoreOfMore
<1>2. \A extra : More(WirePad(m, i, op, extra), m)
  BY PadMore
<1>3. \A lack, overlap : More(WireDelay(m, a, lack, overlap), m)
  BY DelayMore
<1> QED
  BY <1>1, <1>2, <1>3 DEF PoolPadded, PoolLate

(* What the padding of a pool makes of a wire. *)
PaddedAs(u, v, op, p) ==
  /\ u.fact.pulse = v.fact.pulse /\ u.fact.dim = op.before + v.fact.dim + op.after
  /\ \A k \in 0 .. u.fact.dim - 1 : u.content[k] = BatchPad(op, v.content)[k]
  /\ LongEnough(v, p) => LongEnough(u, p)

LEMMA PoolPaddedGrew ==
  ASSUME NEW m, NEW c, NEW p, p.pulse \in Nat, Grown(m, c, p), NEW i, NEW v, v = WireAt(m, c, i),
         Readable(m, c, i), NEW op, op.before \in Nat, op.after \in Nat, op.edge = FALSE,
         op.before + op.after > 0 => LongEnough(v, p), NumbersFit(PoolPadded(m, i, op)),
         NEW m1, m1 = PoolPadded(m, i, op), NEW a, a = PoolPaddedWire(m, i, op)
  PROVE  \E c1 : /\ Grown(m1, c1, p) /\ Extends(m1, c1, m, c) /\ Readable(m1, c1, a)
                 /\ PaddedAs(WireAt(m1, c1, a), v, op, p)
<1>0. /\ IsWire(v) /\ Once(v) /\ v.fact = FactOf(m, i) /\ Count(v.content) = v.fact.dim
      /\ v.fact.pulse \in Nat \ {0} /\ v.fact.dim \in Nat /\ v.fact.delay \in Nat
      /\ DOMAIN v.content = 0 .. v.fact.dim - 1 /\ v.content = c[i]
  BY ReadableFacts DEF Once
<1>1. CASE op.before + op.after > 0
  <2>1. PICK extra : extra = Monus(op.before, v.fact.delay)
    OBVIOUS
  <2>2. extra \in Nat /\ op.before <= v.fact.delay + extra
    BY <1>0, <2>1 DEF Monus
  <2>3. m1 = WirePad(m, i, op, extra) /\ a = LastOf(m1)
    BY <1>0, <1>1, <2>1 DEF PoolPadded, PoolPaddedWire
  <2>4. GrewTo(m1, m, c, p, PadWire(v, op, extra))
    BY <1>1, <2>2, <2>3, PadGrew
  <2>5. IsWire(PadWire(v, op, extra)) /\ Once(PadWire(v, op, extra)) /\ LongEnough(PadWire(v, op, extra), p)
    BY <1>0, <1>1, <2>2, PadWireFacts
  <2>6. PICK c1 : Grown(m1, c1, p) /\ Extends(m1, c1, m, c) /\ LastOf(m) < LastOf(m1) /\ WireAt(m1, c1, a) = PadWire(v, op, extra)
    BY <2>3, <2>4 DEF GrewTo
  <2>7. a \in 1 .. LastOf(m1)
    <3>1. LastOf(m) \in Nat /\ LastOf(m1) \in Nat
      BY <2>6 DEF Grown, Built
    <3> QED
      BY <2>3, <2>6, <3>1
  <2>8. /\ PadWire(v, op, extra).fact.pulse = v.fact.pulse
        /\ PadWire(v, op, extra).fact.dim = v.fact.dim + op.before + op.after
        /\ PadWire(v, op, extra).content = BatchPad(op, v.content)
    BY DEF PadWire
  <2>9. v.fact.dim + op.before + op.after = op.before + v.fact.dim + op.after
    BY <1>0
  <2>10. Readable(m1, c1, a)
    BY <2>5, <2>6, <2>7 DEF Readable
  <2> QED
    BY <2>5, <2>6, <2>8, <2>9, <2>10 DEF PaddedAs
<1>2. CASE ~ (op.before + op.after > 0)
  <2>1. m1 = m /\ a = i
    BY <1>2 DEF PoolPadded, PoolPaddedWire
  <2>2. op.before = 0 /\ op.after = 0
    BY <1>2
  <2>3. \A k \in 0 .. v.fact.dim - 1 : v.content[k] = BatchPad(op, v.content)[k]
    <3>1. v.fact.dim + 0 + 0 - 1 = v.fact.dim - 1 /\ \A k \in 0 .. v.fact.dim - 1 : k - 0 = k
      BY <1>0
    <3>2. BatchPad(op, v.content) = [k \in 0 .. v.fact.dim - 1 |-> v.content[k]]
      BY <1>0, <2>2, <3>1 DEF BatchPad
    <3> QED
      BY <3>2
  <2>4. Extends(m, c, m, c)
    BY DEF Extends, Longer, Grown, Built
  <2>5. 0 + v.fact.dim + 0 = v.fact.dim
    BY <1>0
  <2> QED
    BY <2>1, <2>2, <2>3, <2>4, <2>5 DEF PaddedAs
<1> QED
  BY <1>1, <1>2

LEMMA PoolLateGrew ==
  ASSUME NEW m, NEW c, NEW p, p.pulse \in Nat, Grown(m, c, p), NEW i, NEW v, v = WireAt(m, c, i),
         Readable(m, c, i), NEW pulse, pulse = v.fact.pulse,
         NEW op, NEW s \in Nat \ {0}, s = op.stride, NEW q \in Nat \ {0}, pulse = q * s,
         NEW kl \in Nat, kl = KernelLen(op),
         NEW m2, m2 = PoolLate(m, i, pulse, op), NEW b, b = PoolLateWire(m, i, pulse, op)
  PROVE  \E c2, x : /\ Grown(m2, c2, p) /\ Extends(m2, c2, m, c) /\ b \in 1 .. LastOf(m2)
                    /\ x = WireAt(m2, c2, b) /\ IsWire(x)
                    /\ x.rate = pulse /\ x.fact.pulse = pulse + PoolOverlap(kl, s)
                    /\ x.fact.dim = v.fact.dim /\ x.content = v.content
                    /\ x.fact.delay = (x.fact.delay \div s) * s
                    /\ v.fact.delay + PoolOverlap(kl, s) <= x.fact.delay
<1>0. /\ IsWire(v) /\ Once(v) /\ v.fact = FactOf(m, i) /\ v.rate = pulse /\ i \in 1 .. LastOf(m)
      /\ pulse \in Nat \ {0} /\ v.fact.dim \in Nat /\ v.fact.delay \in Nat
  BY ONLY v = WireAt(m, c, i), Readable(m, c, i), pulse = v.fact.pulse, ReadableFacts DEF Once
<1>1. PICK overlap, delay : overlap = PoolOverlap(kl, s) /\ delay = v.fact.delay
  OBVIOUS
<1>2. overlap \in Nat /\ delay \in Nat
  BY <1>0, <1>1 DEF PoolOverlap, Monus
<1>3. CASE IsAligned(pulse, overlap, delay)
  <2>1. m2 = m /\ b = i
    BY <1>0, <1>1, <1>3 DEF PoolLate, PoolLateWire
  <2>2. overlap = 0 /\ delay % pulse = 0
    <3>1. delay % pulse \in Nat
      BY ONLY <1>0, <1>2
    <3> QED
      BY <1>2, <1>3, <3>1 DEF IsAligned
  <2>3. delay = (delay \div s) * s
    BY <1>2, <2>2, StridesOfPulses
  <2>4. Extends(m, c, m, c)
    BY DEF Extends, Longer, Grown, Built
  <2>5. pulse = pulse + overlap /\ delay + overlap <= delay
    BY ONLY <1>0, <1>2, <2>2
  <2> QED
    BY <1>0, <1>1, <2>1, <2>3, <2>4, <2>5
<1>4. CASE ~ IsAligned(pulse, overlap, delay)
  <2>1. PICK lack : lack = PoolDelay(overlap, s, delay)
    OBVIOUS
  <2>2. lack \in 0 .. s - 1 /\ (delay + lack + overlap) % s = 0
    BY <1>2, <2>1, PoolAligns
  <2>3. lack \in Nat
    BY <2>2
  <2>4. m2 = WireDelay(m, i, lack, overlap) /\ b = LastOf(m2)
    BY <1>0, <1>1, <1>4, <2>1 DEF PoolLate, PoolLateWire
  <2>5. LastOf(m2) = LastOf(m) + 1 /\ GrewTo(m2, m, c, p, LateBy(v, lack, overlap))
    BY <1>2, <2>3, <2>4, DelayGrew
  <2>6. PICK c2 : Grown(m2, c2, p) /\ Extends(m2, c2, m, c) /\ WireAt(m2, c2, b) = LateBy(v, lack, overlap)
    BY <2>4, <2>5 DEF GrewTo
  <2>7. b \in 1 .. LastOf(m2)
    BY <2>4, <2>5 DEF Grown, Built
  <2>8. IsWire(LateBy(v, lack, overlap))
    BY <1>0, <1>2, <2>3, LateByFacts
  <2>9. PICK x, late : x = LateBy(v, lack, overlap) /\ late = delay + lack + overlap
    OBVIOUS
  <2>10. /\ x.rate = pulse /\ x.fact.pulse = pulse + overlap /\ x.fact.dim = v.fact.dim
         /\ x.content = v.content /\ x.fact.delay = late
    BY <1>1, <2>9 DEF LateBy
  <2>11. late \in Nat /\ delay + overlap <= late /\ late % s = 0
    BY <1>2, <2>2, <2>3, <2>9
  <2>12. late = (late \div s) * s
    <3>1. late = (late \div s) * s + (late % s)
      BY ONLY <2>11, s \in Nat \ {0}
    <3>2. late \div s \in Int
      BY ONLY <2>11, s \in Nat \ {0}
    <3>3. PICK d : d = late \div s
      OBVIOUS
    <3>4. d \in Int /\ late = d * s + 0 /\ d * s \in Int
      BY <2>11, <3>1, <3>2, <3>3
    <3> QED
      BY <3>3, <3>4
  <2> QED
    BY <1>1, <2>6, <2>7, <2>8, <2>9, <2>10, <2>11, <2>12
<1> QED
  BY <1>3, <1>4

(* A wire as a pool must read it, in pulses of q strides. *)
AlignedAs(x, q, op) ==
  /\ x.rate = q * op.stride /\ x.fact.pulse = q * op.stride + PoolOverlap(KernelLen(op), op.stride)
  /\ KernelLen(op) < x.fact.dim
  /\ x.fact.delay = (x.fact.delay \div op.stride) * op.stride

PoolSize(x, op) == DivCeil(x.fact.dim - KernelLen(op), op.stride)

PooledFrom(content, x, op) ==
  /\ DOMAIN content = 0 .. PoolSize(x, op) - 1
  /\ \A k \in 0 .. PoolSize(x, op) - 1 :
       content[k] # <<"none">> /\ content[k] = Pooled(op, x.content, k * op.stride)

(* What a pool makes of it. *)
PooledAs(w, q, x, op, content) ==
  /\ Once(w) /\ w.content = content /\ w.rate = q /\ w.fact.dim = PoolSize(x, op)
  /\ w.fact.delay = x.fact.delay \div op.stride /\ w.fact.delay \in Nat

LEMMA PoolGrew ==
  ASSUME NEW m, NEW c, NEW p, Grown(m, c, p), NEW i, NEW x, x = WireAt(m, c, i), i \in 1 .. LastOf(m), IsWire(x),
         NEW op, {op.kernel, op.dilation, op.stride} \subseteq Nat \ {0}, NEW q \in Nat \ {0},
         KernelLen(op) \in Nat, AlignedAs(x, q, op), NEW content, PooledFrom(content, x, op)
  PROVE  \E w : GrewTo(Wire(m, PoolOp(i, op)), m, c, p, w) /\ PooledAs(w, q, x, op, content)
<1>0. PICK s, kl, size, late :
        s = op.stride /\ kl = KernelLen(op) /\ size = PoolSize(x, op) /\ late = x.fact.delay \div s
  OBVIOUS
<1>a. /\ kl \in Nat /\ s \in Nat \ {0} /\ x.rate = q * s /\ x.fact.pulse = q * s + PoolOverlap(kl, s)
      /\ kl < x.fact.dim /\ x.fact.delay = (x.fact.delay \div s) * s /\ size = DivCeil(x.fact.dim - kl, s)
      /\ DOMAIN content = 0 .. size - 1
      /\ \A k \in 0 .. size - 1 : content[k] # <<"none">> /\ content[k] = Pooled(op, x.content, k * s)
  BY <1>0 DEF AlignedAs, PoolSize, PooledFrom
<1>1. PICK dim, delay, pulse, symbolic :
        dim = x.fact.dim /\ delay = x.fact.delay /\ pulse = x.fact.pulse /\ symbolic = x.fact.symbolic
  OBVIOUS
<1>2. IsFact(x.fact) /\ dim \in Nat /\ delay \in Nat /\ pulse \in Nat \ {0} /\ s \in Nat \ {0}
  BY <1>1, <1>a DEF IsWire, IsFact
<1>3. dim - kl \in Nat /\ dim - kl \in Int
  BY ONLY <1>1, <1>2, <1>a
<1>4. size \in Nat
  BY ONLY <1>1, <1>2, <1>3, <1>a, CeilFacts
<1>5. late \in Int /\ delay = late * s
  <2>1. late = delay \div s
    BY ONLY <1>0, <1>1
  <2>2. late \in Int
    BY ONLY <1>2, <2>1
  <2>3. delay = (delay \div s) * s
    BY ONLY <1>1, <1>a
  <2> QED
    BY ONLY <2>1, <2>2, <2>3
<1>6. late \in Nat
  <2>1. 0 * s < late * s + s
    <3>1. PICK z : z = late * s
      OBVIOUS
    <3> QED
      BY <1>2, <1>5, <3>1
  <2>2. 0 <= late
    BY <1>2, <1>5, <2>1, Multiples
  <2> QED
    BY <1>5, <2>2
<1>7. DivCeil(pulse - kl, s) = q
  <2>1. DivCeil(q * s + PoolOverlap(kl, s) - kl, s) = q
    BY ONLY <1>2, <1>a, q \in Nat, PoolPulse
  <2>2. pulse = q * s + PoolOverlap(kl, s)
    BY ONLY <1>1, <1>a
  <2>3. PoolOverlap(kl, s) \in Nat /\ q * s \in Nat
    BY <1>2, <1>a DEF PoolOverlap, Monus
  <2>4. pulse - kl = q * s + PoolOverlap(kl, s) - kl
    BY ONLY <1>2, <2>2, <2>3, <1>a
  <2> QED
    BY ONLY <2>1, <2>4
<1> DEFINE fact == [pulse |-> q, dim |-> size, symbolic |-> symbolic, delay |-> late]
           w == [fact |-> fact, rate |-> q, content |-> content]
           new == PoolOp(i, op)
<1>8. new.kind = "Pool" /\ new.kernel = op.kernel /\ new.dilation = op.dilation /\ new.stride = s /\ new.inputs = <<i>>
  BY <1>0 DEF PoolOp
<1>9. /\ w.fact = fact /\ w.rate = q /\ w.content = content
      /\ fact.pulse = q /\ fact.dim = size /\ fact.delay = late /\ fact.symbolic = symbolic
      /\ fact = [pulse |-> fact.pulse, dim |-> fact.dim, symbolic |-> fact.symbolic, delay |-> fact.delay]
      /\ w = [fact |-> fact, rate |-> q, content |-> content]
  OBVIOUS
<1>10. KernelLen(new) = kl
  BY <1>0, <1>8 DEF KernelLen
<1>11. OutputFact(new, <<x.fact>>) = fact
  <2>1. OutputFact(new, <<x.fact>>) =
          [pulse |-> DivCeil(x.fact.pulse - KernelLen(new), new.stride), dim |-> DivCeil(x.fact.dim - KernelLen(new), new.stride),
           symbolic |-> x.fact.symbolic, delay |-> x.fact.delay \div new.stride]
    BY <1>2, <1>8, OutputFacts
  <2>2. DivCeil(x.fact.pulse - KernelLen(new), new.stride) = q
    BY <1>1, <1>7, <1>8, <1>10
  <2>3. DivCeil(x.fact.dim - KernelLen(new), new.stride) = size /\ x.fact.delay \div new.stride = late
    BY <1>0, <1>8, <1>10, <1>a
  <2> QED
    BY <1>1, <2>1, <2>2, <2>3
<1>12. \A at : Pooled(new, x.content, at) = Pooled(op, x.content, at)
  BY <1>8 DEF Pooled
<1> HIDE DEF fact, w, new
<1>13. IsWire(w) /\ Once(w)
  BY <1>2, <1>4, <1>6, <1>9, <1>a DEF IsWire, IsFact, Once
<1>14. ASSUME NEW k \in 0 .. size - 1
       PROVE  k * s + kl < dim /\ w.content[k] = Pooled(new, x.content, k * s)
  <2>1. k * s < dim - kl
    BY ONLY <1>1, <1>2, <1>3, <1>a, k \in 0 .. size - 1, BeforeTheEnd
  <2>2. PICK z : z = k * s
    OBVIOUS
  <2>3. z \in Int
    BY ONLY <1>2, <2>2, k \in 0 .. size - 1
  <2>4. z + kl < dim
    BY ONLY <1>1, <1>2, <1>a, <2>1, <2>2, <2>3
  <2> QED
    BY <1>9, <1>12, <1>a, <2>2, <2>4
<1>15. Makes(new, w, <<x>>, p)
  <2>1. PoolMakes(new, w, x)
    BY <1>1, <1>5, <1>7, <1>8, <1>9, <1>10, <1>13, <1>14, <1>a DEF PoolMakes
  <2> QED
    BY <2>1 DEF Makes
<1>16. q = fact.pulse - IF new.kind = "Delay" THEN new.overlap ELSE 0
  BY <1>8, <1>9
<1>17. FactOf(m, i) = x.fact
  BY DEF WireAt
<1>18. GrewTo(Wire(m, new), m, c, p, w)
  BY <1>8, <1>9, <1>11, <1>13, <1>15, <1>16, <1>17, OneInput
<1> QED
  BY <1>0, <1>6, <1>9, <1>13, <1>18 DEF new, PooledAs

LEMMA PoolTurned ==
  ASSUME NEW m, NEW c, NEW p, p.pulse \in Nat, Grown(m, c, p), NEW i, NEW v, v = WireAt(m, c, i),
         Readable(m, c, i), NEW op, op.kind = "pool", op.before \in Nat, op.after \in Nat, op.edge = FALSE,
         {op.kernel, op.dilation, op.stride} \subseteq Nat \ {0},
         op.before + v.fact.dim + op.after > KernelLen(op),
         v.fact.pulse % op.stride = 0, ~ (op.before + op.after > 0 /\ op.sum),
         op.before + op.after > 0 => LongEnough(v, p), NumbersFit(PulsifyPool(m, i, op))
  PROVE  Turned(PulsifyPool(m, i, op), m, c, p, BatchNode(op, <<v.content>>, p.len), LongEnough(v, p))
<1>0. /\ IsWire(v) /\ Once(v) /\ v.fact = FactOf(m, i) /\ Count(v.content) = v.fact.dim
      /\ v.fact.pulse \in Nat \ {0} /\ v.fact.dim \in Nat /\ v.fact.delay \in Nat
      /\ DOMAIN v.content = 0 .. v.fact.dim - 1
  BY ReadableFacts DEF Once
<1>1. PICK pulse, s, kl, q, dim, kernel, dilation :
        /\ pulse = v.fact.pulse /\ s = op.stride /\ kl = KernelLen(op) /\ q = pulse \div s
        /\ dim = op.before + v.fact.dim + op.after /\ kernel = op.kernel /\ dilation = op.dilation
  OBVIOUS
<1>2. /\ pulse \in Nat \ {0} /\ s \in Nat \ {0} /\ kernel \in Nat \ {0} /\ dilation \in Nat \ {0} /\ dim \in Nat
      /\ kl < dim /\ kl = (kernel - 1) * dilation
  BY <1>0, <1>1 DEF KernelLen
<1>3. kl \in Nat
  BY <1>2
<1>4. q \in Nat \ {0} /\ pulse = q * s
  <2>1. pulse % s = 0
    BY <1>1
  <2>2. pulse \div s \in Int /\ pulse = (pulse \div s) * s + (pulse % s)
    BY ONLY <1>2
  <2>3. q \in Int /\ pulse = q * s
    <3>1. q = pulse \div s
      BY <1>1
    <3>2. q \in Int /\ q * s \in Int
      BY ONLY <1>2, <2>2, <3>1
    <3> QED
      BY ONLY <2>1, <2>2, <3>1, <3>2
  <2>4. 1 * s < q * s + s
    BY ONLY <1>2, <2>3
  <2>5. 1 <= q
    BY ONLY <1>2, <2>3, <2>4, Multiples
  <2> QED
    BY ONLY <2>3, <2>5
<1>5. PICK m1, a, m2, b, m3 :
        /\ m1 = PoolPadded(m, i, op) /\ a = PoolPaddedWire(m, i, op)
        /\ m2 = PoolLate(m1, a, pulse, op) /\ b = PoolLateWire(m1, a, pulse, op) /\ m3 = Wire(m2, PoolOp(b, op))
  OBVIOUS
<1>6. PulsifyPool(m, i, op) = m3
  <2>1. pulse = FactOf(m, i).pulse
    BY <1>0, <1>1
  <2> QED
    BY <1>1, <1>5, <2>1, PulsifyPoolIs
<1>7. NumbersFit(m1)
  <2>1. Built(m)
    BY DEF Grown
  <2>2. Built(m1)
    BY <1>5, <2>1, PoolMore DEF More
  <2>3. More(m2, m1) /\ Built(m2)
    BY <1>5, <2>2, PoolMore DEF More
  <2>4. More(m3, m2)
    BY <1>5, <2>3, WireMore
  <2>5. More(m3, m1)
    BY <2>2, <2>3, <2>4, MoreOfMore
  <2> QED
    BY <1>6, <2>2, <2>5, NumbersFitBefore DEF More, Built
<1>8. PICK c1, u : /\ Grown(m1, c1, p) /\ Extends(m1, c1, m, c) /\ Readable(m1, c1, a) /\ u = WireAt(m1, c1, a)
                   /\ u.fact.pulse = pulse /\ u.fact.dim = dim
                   /\ \A k \in 0 .. dim - 1 : u.content[k] = BatchPad(op, v.content)[k]
                   /\ LongEnough(v, p) => LongEnough(u, p)
  <2>1. NumbersFit(PoolPadded(m, i, op))
    BY ONLY <1>5, <1>7
  <2>2. \E c1 : /\ Grown(m1, c1, p) /\ Extends(m1, c1, m, c) /\ Readable(m1, c1, a)
                /\ PaddedAs(WireAt(m1, c1, a), v, op, p)
    BY ONLY p.pulse \in Nat, Grown(m, c, p), v = WireAt(m, c, i), Readable(m, c, i), op.before \in Nat,
            op.after \in Nat, op.edge = FALSE, op.before + op.after > 0 => LongEnough(v, p), <1>5, <2>1,
            PoolPaddedGrew
  <2> QED
    BY ONLY <1>1, <2>2 DEF PaddedAs
<1>9. u.fact.delay \in Nat /\ u.rate = pulse
  BY <1>8, ReadableFacts
<1>10. PICK c2, x : /\ Grown(m2, c2, p) /\ Extends(m2, c2, m1, c1) /\ b \in 1 .. LastOf(m2)
                    /\ x = WireAt(m2, c2, b) /\ IsWire(x)
                    /\ x.rate = pulse /\ x.fact.pulse = pulse + PoolOverlap(kl, s)
                    /\ x.fact.dim = dim /\ x.content = u.content
                    /\ x.fact.delay = (x.fact.delay \div s) * s
                    /\ u.fact.delay + PoolOverlap(kl, s) <= x.fact.delay
  <2>1. \E c2, x : /\ Grown(m2, c2, p) /\ Extends(m2, c2, m1, c1) /\ b \in 1 .. LastOf(m2)
                   /\ x = WireAt(m2, c2, b) /\ IsWire(x)
                   /\ x.rate = pulse /\ x.fact.pulse = pulse + PoolOverlap(kl, s)
                   /\ x.fact.dim = u.fact.dim /\ x.content = u.content
                   /\ x.fact.delay = (x.fact.delay \div s) * s
                   /\ u.fact.delay + PoolOverlap(kl, s) <= x.fact.delay
    <3>1. s = op.stride /\ kl = KernelLen(op) /\ pulse = u.fact.pulse
      BY ONLY <1>1, <1>8
    <3> QED
      BY ONLY p.pulse \in Nat, <1>2, <1>3, <1>4, <1>5, <1>8, <3>1, PoolLateGrew
  <2> QED
    BY <1>8, <2>1
<1>11. Extends(m2, c2, m, c)
  BY <1>8, <1>10, GrewFurther DEF Grown, Built
<1>12. PICK size, late, content :
         /\ size = DivCeil(dim - kl, s) /\ late = x.fact.delay \div s
         /\ content = [k \in 0 .. size - 1 |-> Pooled(op, BatchPad(op, v.content), k * s)]
  OBVIOUS
<1>13. BatchNode(op, <<v.content>>, p.len) = content
  <2>1. Count(BatchPad(op, v.content)) = dim
    <3>1. DOMAIN BatchPad(op, v.content) = 0 .. v.fact.dim + op.before + op.after - 1
      BY <1>0 DEF BatchPad
    <3>2. v.fact.dim + op.before + op.after = dim
      <4>1. dim = op.before + v.fact.dim + op.after
        BY <1>1
      <4> QED
        BY ONLY <1>0, <4>1, op.before \in Nat, op.after \in Nat
    <3>3. DOMAIN BatchPad(op, v.content) = 0 .. dim - 1
      <4>1. v.fact.dim + op.before + op.after - 1 = dim - 1
        BY ONLY <1>0, <1>2, <3>2, op.before \in Nat, op.after \in Nat
      <4> QED
        BY ONLY <3>1, <4>1
    <3> QED
      BY ONLY <1>2, <3>3, CountOf
  <2>2. BatchNode(op, <<v.content>>, p.len)
          = [k \in 0 .. DivCeil(Count(BatchPad(op, v.content)) - KernelLen(op), op.stride) - 1 |->
               Pooled(op, BatchPad(op, v.content), k * op.stride)]
    BY DEF BatchNode
  <2> QED
    BY <1>1, <1>12, <2>1, <2>2
<1>14. ASSUME NEW k \in 0 .. size - 1
       PROVE  content[k] # <<"none">> /\ content[k] = Pooled(op, x.content, k * s)
  <2>1. content[k] = Pooled(op, BatchPad(op, v.content), k * s)
    BY <1>12
  <2>2. k * s < dim - kl
    <3>1. dim - kl \in Int
      BY <1>2, <1>3
    <3> QED
      BY <1>2, <1>12, <3>1, BeforeTheEnd
  <2>3. PICK at : at = k * s
    OBVIOUS
  <2>4. at \in Nat /\ at + kl < dim
    <3>1. k \in Nat
      OBVIOUS
    <3>2. at \in Nat
      BY ONLY <1>2, <2>3, <3>1
    <3> QED
      BY ONLY <1>2, <1>3, <2>2, <2>3, <3>2
  <2>5. ASSUME NEW j \in 1 .. op.kernel
        PROVE  BatchPad(op, v.content)[at + (j - 1) * op.dilation] = x.content[at + (j - 1) * op.dilation]
    <3>1. PICK y : y = (j - 1) * dilation
      OBVIOUS
    <3>2. y \in Nat /\ y <= kl
      <4>1. j - 1 \in Nat /\ j - 1 <= kernel - 1
        BY <1>1, <1>2
      <4>2. PICK t, r : t = j - 1 /\ r = (kernel - 1) - t
        OBVIOUS
      <4>3. t \in Nat /\ r \in Nat /\ kernel - 1 = t + r
        BY ONLY <1>2, <4>1, <4>2
      <4>4. y = t * dilation /\ kl = (t + r) * dilation
        BY ONLY <1>2, <3>1, <4>2, <4>3
      <4>5. t * dilation \in Nat /\ r * dilation \in Nat /\ (t + r) * dilation = t * dilation + r * dilation
        BY ONLY <1>2, <4>3
      <4> QED
        BY ONLY <4>4, <4>5
    <3>3. at + y \in 0 .. dim - 1
      BY ONLY <1>2, <1>3, <2>4, <3>2
    <3> QED
      BY <1>1, <1>8, <1>10, <3>1, <3>3
  <2>6. Pooled(op, BatchPad(op, v.content), at) = Pooled(op, x.content, at)
    BY <2>5 DEF Pooled
  <2>7. Pooled(op, x.content, at) # <<"none">>
    BY DEF Pooled
  <2> QED
    BY <2>1, <2>3, <2>6, <2>7
<1>15. DOMAIN content = 0 .. size - 1
  BY <1>12
<1>16. PICK w : GrewTo(m3, m2, c2, p, w) /\ PooledAs(w, q, x, op, content)
  <2>1. x.rate = q * s /\ x.fact.pulse = q * s + PoolOverlap(kl, s)
    BY ONLY <1>4, <1>10
  <2>2. kl < x.fact.dim /\ x.fact.delay = (x.fact.delay \div s) * s
    BY ONLY <1>2, <1>10
  <2>3. s = op.stride /\ kl = KernelLen(op)
    BY ONLY <1>1
  <2>4. AlignedAs(x, q, op)
    BY ONLY <2>1, <2>2, <2>3 DEF AlignedAs
  <2>5. PoolSize(x, op) = size
    BY ONLY <1>10, <1>12, <2>3 DEF PoolSize
  <2>6. PooledFrom(content, x, op)
    BY ONLY <1>14, <1>15, <2>3, <2>5 DEF PooledFrom
  <2>7. {op.kernel, op.dilation, op.stride} \subseteq Nat \ {0} /\ KernelLen(op) \in Nat
    BY <1>1, <1>3
  <2>8. \E w : GrewTo(Wire(m2, PoolOp(b, op)), m2, c2, p, w) /\ PooledAs(w, q, x, op, content)
    BY ONLY <1>4, <1>10, <2>4, <2>6, <2>7, PoolGrew
  <2> QED
    BY ONLY <1>5, <2>8
<1>a. /\ Once(w) /\ w.content = content /\ w.rate = q /\ w.fact.dim = size /\ w.fact.delay = late /\ late \in Nat
  BY <1>1, <1>10, <1>12, <1>16 DEF PooledAs, PoolSize
<1>17. GrewTo(m3, m, c, p, w)
  BY <1>10, <1>11, <1>16, GrewAfter
<1>18. ASSUME LongEnough(v, p) PROVE LongEnough(w, p)
  <2> SUFFICES ASSUME NEW calls \in Nat, calls * p.pulse <= p.len
               PROVE  calls * q <= late + size
    BY <1>a DEF LongEnough
  <2>1. calls * u.rate <= u.fact.delay + u.fact.dim
    BY <1>8, <1>18 DEF LongEnough
  <2>2. calls * (q * s) <= u.fact.delay + dim
    BY ONLY <1>4, <1>8, <1>9, <2>1
  <2>3. u.fact.delay + PoolOverlap(kl, s) <= late * s
    BY ONLY <1>10, <1>12
  <2>4. calls * q <= late + DivCeil(dim - kl, s)
    BY <1>2, <1>3, <1>4, <1>9, <1>a, <2>2, <2>3, PoolLongEnough
  <2> QED
    BY ONLY <1>12, <2>4
<1> QED
  BY <1>6, <1>13, <1>17, <1>18, <1>a DEF Turned

-----------------------------------------------------------------------------
(* The translation of a whole model: every node of the source model in turn. *)

(* A set of naturals that is not empty has a least element. *)
LEMMA LeastNatural ==
  ASSUME NEW T \in SUBSET Nat, T # {}
  PROVE  \E m \in T : \A k \in T : m <= k
<1> DEFINE R == OpToRel(<, Nat)
<1>1. IsWellFoundedOn(R, Nat)
  BY NatLessThanWellFounded
<1>a. \A x, y \in Nat : x < y => <<x, y>> \in R
  BY DEF OpToRel
<1> HIDE DEF R
<1>2. PICK x \in T : \A y \in T : ~ (<<y, x>> \in R)
  BY <1>1, WFMin
<1>3. \A y \in T : ~(y < x)
  BY <1>2, <1>a
<1> QED
  BY <1>3

(* Induction, of a set. *)
LEMMA SetInduction ==
  ASSUME NEW S, 0 \in S, \A n \in Nat : n \in S => n + 1 \in S
  PROVE  Nat \subseteq S
<1> SUFFICES ASSUME NEW n \in Nat \ S PROVE FALSE
  OBVIOUS
<1>1. PICK m \in Nat \ S : \A k \in Nat \ S : m <= k
  <2> DEFINE T == Nat \ S
  <2>1. T \in SUBSET Nat /\ T # {}
    OBVIOUS
  <2> HIDE DEF T
  <2>2. \E m \in T : \A k \in T : m <= k
    BY <2>1, LeastNatural
  <2> QED BY <2>2 DEF T
<1>2. m # 0 /\ m - 1 \in Nat /\ m - 1 \notin Nat \ S
  BY <1>1
<1> QED
  BY <1>1, <1>2


(* The outputs of the first nodes, for each number of them. *)
BatchUpTo(f, p, n) ==
  f = [k \in 0 .. n |-> IF k = 0 THEN <<>> ELSE BatchNext(f[k - 1], p.ops[k], p)]

LEMMA BatchExists ==
  ASSUME NEW p, NEW n \in Nat
  PROVE  \E f : BatchUpTo(f, p, n)
<1> DEFINE S == {m \in Nat : \E f : BatchUpTo(f, p, m)}
<1>1. 0 \in S
  <2> DEFINE f == [k \in 0 .. 0 |-> <<>>]
  <2>1. BatchUpTo(f, p, 0)
    BY DEF BatchUpTo
  <2> QED
    BY <2>1
<1>2. ASSUME NEW m \in Nat, m \in S PROVE m + 1 \in S
  <2>1. PICK f : BatchUpTo(f, p, m)
    BY <1>2
  <2> DEFINE g == [k \in 0 .. m + 1 |-> IF k <= m THEN f[k] ELSE BatchNext(f[m], p.ops[k], p)]
  <2>2. ASSUME NEW k \in 0 .. m + 1
        PROVE  g[k] = IF k = 0 THEN <<>> ELSE BatchNext(g[k - 1], p.ops[k], p)
    <3>1. CASE k <= m
      <4>1. k \in 0 .. m
        BY <3>1
      <4>2. f[k] = IF k = 0 THEN <<>> ELSE BatchNext(f[k - 1], p.ops[k], p)
        BY <2>1, <4>1 DEF BatchUpTo
      <4>3. g[k] = f[k]
        BY <3>1
      <4>4. k # 0 => g[k - 1] = f[k - 1]
        BY <4>1
      <4> QED
        BY <4>2, <4>3, <4>4
    <3>2. CASE ~ (k <= m)
      <4>1. k = m + 1 /\ k - 1 = m /\ k # 0
        BY <3>2
      <4>2. g[k - 1] = f[m]
        BY <4>1
      <4> QED
        BY <3>2, <4>1, <4>2
    <3> QED
      BY <3>1, <3>2
  <2>3. BatchUpTo(g, p, m + 1)
    <3>1. g = [k \in 0 .. m + 1 |-> g[k]]
      OBVIOUS
    <3> HIDE DEF g
    <3> QED
      BY <2>2, <3>1 DEF BatchUpTo
  <2> HIDE DEF g
  <2> QED
    BY <2>3
<1> HIDE DEF S
<1>3. Nat \subseteq S
  BY <1>1, <1>2, SetInduction
<1> QED
  BY <1>3 DEF S

NoModel == [nodes |-> <<>>, outlet |-> <<>>, refused |-> FALSE]

(* The models that the first nodes are turned into. *)
PulsifiedUpTo(f, p, n) ==
  f = [k \in 0 .. n |-> IF k = 0 THEN NoModel ELSE PulsifyNode(f[k - 1], p.ops[k], p)]

LEMMA PulsifiedExists ==
  ASSUME NEW p, NEW n \in Nat
  PROVE  \E f : PulsifiedUpTo(f, p, n)
<1> DEFINE S == {m \in Nat : \E f : PulsifiedUpTo(f, p, m)}
<1>1. 0 \in S
  <2> DEFINE f == [k \in 0 .. 0 |-> NoModel]
  <2>1. PulsifiedUpTo(f, p, 0)
    BY DEF PulsifiedUpTo
  <2> QED
    BY <2>1
<1>2. ASSUME NEW m \in Nat, m \in S PROVE m + 1 \in S
  <2>1. PICK f : PulsifiedUpTo(f, p, m)
    BY <1>2
  <2> DEFINE g == [k \in 0 .. m + 1 |-> IF k <= m THEN f[k] ELSE PulsifyNode(f[m], p.ops[k], p)]
  <2>2. ASSUME NEW k \in 0 .. m + 1
        PROVE  g[k] = IF k = 0 THEN NoModel ELSE PulsifyNode(g[k - 1], p.ops[k], p)
    <3>1. CASE k <= m
      <4>1. k \in 0 .. m
        BY <3>1
      <4>2. f[k] = IF k = 0 THEN NoModel ELSE PulsifyNode(f[k - 1], p.ops[k], p)
        BY <2>1, <4>1 DEF PulsifiedUpTo
      <4>3. g[k] = f[k]
        BY <3>1
      <4>4. k # 0 => g[k - 1] = f[k - 1]
        BY <4>1
      <4> QED
        BY <4>2, <4>3, <4>4
    <3>2. CASE ~ (k <= m)
      <4>1. k = m + 1 /\ k - 1 = m /\ k # 0
        BY <3>2
      <4>2. g[k - 1] = f[m]
        BY <4>1
      <4> QED
        BY <3>2, <4>1, <4>2
    <3> QED
      BY <3>1, <3>2
  <2>3. PulsifiedUpTo(g, p, m + 1)
    <3>1. g = [k \in 0 .. m + 1 |-> g[k]]
      OBVIOUS
    <3> HIDE DEF g
    <3> QED
      BY <2>2, <3>1 DEF PulsifiedUpTo
  <2> HIDE DEF g
  <2> QED
    BY <2>3
<1> HIDE DEF S
<1>3. Nat \subseteq S
  BY <1>1, <1>2, SetInduction
<1> QED
  BY <1>3 DEF S

LEMMA BatchIs ==
  ASSUME NEW p, Len(p.ops) \in Nat
  PROVE  \E f : BatchUpTo(f, p, Len(p.ops)) /\ Batch(p) = f[Len(p.ops)]
<1>1. PICK n : n = Len(p.ops)
  OBVIOUS
<1> DEFINE f == CHOOSE g : BatchUpTo(g, p, n)
<1>2. BatchUpTo(f, p, n)
  BY <1>1, BatchExists
<1>3. Batch(p) = f[n]
  BY <1>1 DEF Batch, BatchUpTo
<1> HIDE DEF f
<1> QED
  BY <1>1, <1>2, <1>3

LEMMA PulsifiedIs ==
  ASSUME NEW p, Len(p.ops) \in Nat
  PROVE  \E f : PulsifiedUpTo(f, p, Len(p.ops)) /\ Pulsified(p) = f[Len(p.ops)]
<1>1. PICK n : n = Len(p.ops)
  OBVIOUS
<1> DEFINE f == CHOOSE g : PulsifiedUpTo(g, p, n)
<1>2. PulsifiedUpTo(f, p, n)
  BY <1>1, PulsifiedExists
<1>3. Pulsified(p) = f[n]
  BY <1>1 DEF Pulsified, PulsifiedUpTo, NoModel
<1> HIDE DEF f
<1> QED
  BY <1>1, <1>2, <1>3

(* The frames that the wires a node reads stand for. *)
FramesOf(c, ins) == [i \in DOMAIN ins |-> c[ins[i]]]

(* A node of the source model may be turned: what it needs of its inputs. *)
Turnable(m, c, op, ins, p) ==
  /\ ins = [i \in 1 .. Arity(op) |-> ins[i]]
  /\ \A i \in 1 .. Arity(op) : Readable(m, c, ins[i])
  /\ NodeFits(op, FramesOf(c, ins))
  /\ op.kind = "downsample" => FactOf(m, ins[1]).delay = 0
  /\ op.kind = "binary" => FactOf(m, ins[1]).pulse = FactOf(m, ins[2]).pulse
  /\ IsPadding(op) => \A i \in 1 .. Arity(op) : LongEnough(WireAt(m, c, ins[i]), p)

(* Its output is long enough when its inputs are, and it does not cut them. *)
EndsLater(m, c, op, ins, p) ==
  ~ Cuts(op, FramesOf(c, ins)) /\ \A i \in 1 .. Arity(op) : LongEnough(WireAt(m, c, ins[i]), p)

LEMMA EndsWhenever ==
  ASSUME NEW m2, NEW m, NEW c, NEW p, NEW content, NEW ends, NEW fewer, Turned(m2, m, c, p, content, ends),
         fewer => ends
  PROVE  Turned(m2, m, c, p, content, fewer)
BY DEF Turned

LEMMA RefusedIs ==
  ASSUME NEW m, Built(m)
  PROVE  Refused(m).refused = TRUE
<1>1. PICK nodes, outlet, refused : m = [nodes |-> nodes, outlet |-> outlet, refused |-> refused]
  BY DEF Built
<1> QED
  BY <1>1 DEF Refused

LEMMA SourceTurns ==
  ASSUME NEW m, NEW c, NEW p, p.pulse \in Nat \ {0}, p.len \in Nat, Grown(m, c, p), NEW op, NEW ins,
         Turnable(m, c, op, ins, p), op.kind = "source"
  PROVE  Turned(Pulsifier(m, ins, op, p), m, c, p, BatchNode(op, FramesOf(c, ins), p.len), EndsLater(m, c, op, ins, p))
<1>1. Pulsifier(m, ins, op, p) = PulsifySource(m, p)
  BY DEF Pulsifier
<1>2. Turned(PulsifySource(m, p), m, c, p, BatchNode(op, FramesOf(c, ins), p.len), TRUE)
  BY SourceTurned
<1> QED
  BY <1>1, <1>2, EndsWhenever

(* One input. *)
LEMMA InputOf ==
  ASSUME NEW m, NEW c, NEW p, NEW op, NEW ins, Turnable(m, c, op, ins, p), Arity(op) = 1,
         NEW i, i = ins[1], NEW v, v = WireAt(m, c, i)
  PROVE  /\ ins = <<i>> /\ Readable(m, c, i) /\ FramesOf(c, ins) = <<v.content>>
         /\ v.fact = FactOf(m, i) /\ NodeFits(op, <<v.content>>)
         /\ Count(v.content) = v.fact.dim /\ v.fact.dim \in Nat /\ v.fact.pulse \in Nat \ {0}
         /\ EndsLater(m, c, op, ins, p) => (~ Cuts(op, <<v.content>>) /\ LongEnough(v, p))
         /\ IsPadding(op) => LongEnough(v, p)
         /\ op.kind = "downsample" => v.fact.delay = 0
<1>0. 1 .. Arity(op) = {1}
  OBVIOUS
<1>1. ins = <<i>> /\ DOMAIN ins = {1} /\ Readable(m, c, i)
  BY <1>0 DEF Turnable
<1>2. FramesOf(c, ins) = <<v.content>> /\ v.fact = FactOf(m, i)
  BY <1>1 DEF FramesOf, WireAt
<1>3. Count(v.content) = v.fact.dim /\ v.fact.dim \in Nat /\ v.fact.pulse \in Nat \ {0}
  BY <1>1, ReadableFacts
<1> QED
  BY <1>0, <1>1, <1>2, <1>3 DEF Turnable, EndsLater

(* The operators of one input, as they were turned one by one. *)
LEMMA OneInputTurns ==
  ASSUME NEW m, NEW c, NEW p, p.pulse \in Nat \ {0}, p.len \in Nat, Grown(m, c, p), NEW op, NEW ins,
         Turnable(m, c, op, ins, p), Arity(op) = 1, op.kind # "source",
         NumbersFit(Pulsifier(m, ins, op, p)), ~ Pulsifier(m, ins, op, p).refused
  PROVE  Turned(Pulsifier(m, ins, op, p), m, c, p, BatchNode(op, FramesOf(c, ins), p.len), EndsLater(m, c, op, ins, p))
<1>1. PICK i, v, content, ends :
        /\ i = ins[1] /\ v = WireAt(m, c, i)
        /\ content = BatchNode(op, FramesOf(c, ins), p.len) /\ ends = EndsLater(m, c, op, ins, p)
  OBVIOUS
<1>2. /\ ins = <<i>> /\ Readable(m, c, i) /\ FramesOf(c, ins) = <<v.content>>
      /\ v.fact = FactOf(m, i) /\ NodeFits(op, <<v.content>>)
      /\ Count(v.content) = v.fact.dim /\ v.fact.dim \in Nat /\ v.fact.pulse \in Nat \ {0}
      /\ (ends => (~ Cuts(op, <<v.content>>) /\ LongEnough(v, p)))
      /\ (IsPadding(op) => LongEnough(v, p))
      /\ (op.kind = "downsample" => v.fact.delay = 0)
  BY <1>1, InputOf
<1>3. content = BatchNode(op, <<v.content>>, p.len) /\ p.pulse \in Nat /\ Built(m) /\ Refused(m).refused = TRUE
  BY <1>1, <1>2, RefusedIs DEF Grown
<1>4. <<v.content>>[1] = v.content
  OBVIOUS
<1>5. CASE op.kind = "map"
  <2>1. Pulsifier(m, ins, op, p) = Wire(m, [kind |-> "Map", inputs |-> <<i>>])
    BY <1>2, <1>5 DEF Pulsifier
  <2>2. Turned(Wire(m, [kind |-> "Map", inputs |-> <<i>>]), m, c, p, content, LongEnough(v, p))
    BY <1>1, <1>2, <1>3, <1>5, MapTurned
  <2> QED
    BY <1>1, <1>2, <2>1, <2>2, EndsWhenever
<1>6. CASE op.kind = "scan"
  <2>1. Pulsifier(m, ins, op, p) = PulsifyScan(m, <<i>>, op)
    BY <1>2, <1>6 DEF Pulsifier
  <2>2. Turned(PulsifyScan(m, <<i>>, op), m, c, p, content, LongEnough(v, p))
    BY <1>1, <1>2, <1>3, <1>6, ScanTurned
  <2> QED
    BY <1>1, <1>2, <2>1, <2>2, EndsWhenever
<1>7. CASE op.kind = "slice"
  <2>1. Pulsifier(m, ins, op, p) = PulsifySlice(m, i, op)
    BY <1>1, <1>7 DEF Pulsifier
  <2>2. PICK end : end = SliceEnd(op, v.fact.dim)
    OBVIOUS
  <2>3. op.start \in Nat /\ op.symbolic \in BOOLEAN /\ end \in Nat /\ op.start <= end /\ end <= v.fact.dim
    BY <1>2, <1>4, <1>7, <2>2 DEF NodeFits
  <2>4. Turned(PulsifySlice(m, i, op), m, c, p, content, LongEnough(v, p) /\ end = v.fact.dim)
    BY <1>1, <1>2, <1>3, <1>7, <2>2, <2>3, SliceTurned
  <2>5. ends => LongEnough(v, p) /\ end = v.fact.dim
    BY <1>2, <1>4, <1>7, <2>2 DEF Cuts
  <2> QED
    BY <1>1, <2>1, <2>4, <2>5, EndsWhenever
<1>8. CASE op.kind = "pad"
  <2>1. Pulsifier(m, ins, op, p) = PulsifyPad(m, i, op)
    BY <1>1, <1>8 DEF Pulsifier
  <2>2. op.before \in Nat /\ op.after \in Nat /\ op.edge \in BOOLEAN /\ (op.edge => v.fact.dim > 0)
    BY <1>2, <1>4, <1>8 DEF NodeFits
  <2>3. LongEnough(v, p)
    BY <1>2, <1>8 DEF IsPadding
  <2>4. ~ (op.edge /\ op.before >= v.fact.pulse)
    <3> SUFFICES ASSUME op.edge /\ op.before >= v.fact.pulse PROVE FALSE
      OBVIOUS
    <3>1. PulsifyPad(m, i, op) = Refused(m)
      BY <1>2 DEF PulsifyPad
    <3> QED
      BY <1>3, <2>1, <3>1
  <2>5. NumbersFit(PulsifyPad(m, i, op))
    BY <2>1
  <2>6. Turned(PulsifyPad(m, i, op), m, c, p, content, TRUE)
    BY <1>1, <1>2, <1>3, <1>8, <2>2, <2>3, <2>4, <2>5, PadTurned
  <2> QED
    BY <1>1, <2>1, <2>6, EndsWhenever
<1>9. CASE op.kind = "pool"
  <2>1. Pulsifier(m, ins, op, p) = PulsifyPool(m, i, op)
    BY <1>1, <1>9 DEF Pulsifier
  <2>2. /\ op.before \in Nat /\ op.after \in Nat /\ op.edge = FALSE
        /\ {op.kernel, op.dilation, op.stride} \subseteq Nat \ {0}
        /\ op.before + v.fact.dim + op.after - KernelLen(op) > 0
    BY <1>2, <1>4, <1>9 DEF NodeFits
  <2>3. KernelLen(op) \in Int
    BY <2>2 DEF KernelLen
  <2>4. op.before + v.fact.dim + op.after > KernelLen(op)
    BY <1>2, <2>2, <2>3
  <2>5. op.before + op.after > 0 => LongEnough(v, p)
    BY <1>2, <1>9 DEF IsPadding
  <2>6. v.fact.pulse % op.stride = 0 /\ ~ (op.before + op.after > 0 /\ op.sum)
    <3> SUFFICES ASSUME v.fact.pulse % op.stride # 0 \/ (op.before + op.after > 0 /\ op.sum) PROVE FALSE
      OBVIOUS
    <3>1. PICK pulse, m1, a : pulse = FactOf(m, i).pulse /\ m1 = PoolPadded(m, i, op) /\ a = PoolPaddedWire(m, i, op)
      OBVIOUS
    <3>2. PulsifyPool(m, i, op) = Refused(m)
      BY <1>2, <3>1, PulsifyPoolIs
    <3> QED
      BY <1>3, <2>1, <3>2
  <2>7. NumbersFit(PulsifyPool(m, i, op))
    BY <2>1
  <2>8. Turned(PulsifyPool(m, i, op), m, c, p, content, LongEnough(v, p))
    BY <1>1, <1>2, <1>3, <1>9, <2>2, <2>4, <2>5, <2>6, <2>7, PoolTurned
  <2> QED
    BY <1>1, <1>2, <2>1, <2>8, EndsWhenever
<1>10. CASE op.kind = "downsample"
  <2>1. Pulsifier(m, ins, op, p) = PulsifyDownsample(m, i, op)
    BY <1>1, <1>10 DEF Pulsifier
  <2>2. op.stride \in Nat \ {0} /\ op.modulo = 0
    BY <1>2, <1>10 DEF NodeFits
  <2>3. v.fact.delay = 0
    BY <1>2, <1>10
  <2>4. v.fact.pulse % op.stride = 0
    <3> SUFFICES ASSUME v.fact.pulse % op.stride # 0 PROVE FALSE
      OBVIOUS
    <3>1. PulsifyDownsample(m, i, op) = Refused(m)
      BY <1>2 DEF PulsifyDownsample
    <3> QED
      BY <1>3, <2>1, <3>1
  <2>5. Turned(PulsifyDownsample(m, i, op), m, c, p, content, LongEnough(v, p))
    BY <1>1, <1>2, <1>3, <1>10, <2>2, <2>3, <2>4, DownsampleTurned
  <2> QED
    BY <1>1, <1>2, <2>1, <2>5, EndsWhenever
<1>11. op.kind # "binary"
  BY DEF Arity
<1> QED
  BY <1>2, <1>5, <1>6, <1>7, <1>8, <1>9, <1>10, <1>11 DEF NodeFits

LEMMA BinaryTurns ==
  ASSUME NEW m, NEW c, NEW p, p.pulse \in Nat \ {0}, p.len \in Nat, Grown(m, c, p), NEW op, NEW ins,
         Turnable(m, c, op, ins, p), op.kind = "binary"
  PROVE  Turned(Pulsifier(m, ins, op, p), m, c, p, BatchNode(op, FramesOf(c, ins), p.len), EndsLater(m, c, op, ins, p))
<1>1. PICK i, u, j, v : i = ins[1] /\ u = WireAt(m, c, i) /\ j = ins[2] /\ v = WireAt(m, c, j)
  OBVIOUS
<1>2. Arity(op) = 2 /\ 1 .. Arity(op) = {1, 2}
  BY DEF Arity
<1>3. ins = <<i, j>> /\ DOMAIN ins = {1, 2} /\ Readable(m, c, i) /\ Readable(m, c, j)
  BY <1>1, <1>2 DEF Turnable
<1>4. FramesOf(c, ins) = <<u.content, v.content>>
  BY <1>1, <1>3 DEF FramesOf, WireAt
<1>5. /\ u.fact = FactOf(m, i) /\ v.fact = FactOf(m, j)
      /\ Count(u.content) = u.fact.dim /\ Count(v.content) = v.fact.dim
  BY <1>1, <1>3, ReadableFacts
<1>6. u.fact.pulse = v.fact.pulse
  BY <1>1, <1>5 DEF Turnable
<1>7. u.fact.dim = v.fact.dim
  <2>1. <<u.content, v.content>>[1] = u.content /\ <<u.content, v.content>>[2] = v.content
    OBVIOUS
  <2>2. NodeFits(op, <<u.content, v.content>>)
    BY <1>4 DEF Turnable
  <2> QED
    BY <1>5, <2>1, <2>2 DEF NodeFits
<1>8. Pulsifier(m, ins, op, p) = PulsifyBinary(m, <<i, j>>, op)
  BY <1>3 DEF Pulsifier
<1>9. Turned(PulsifyBinary(m, <<i, j>>, op), m, c, p, BatchNode(op, <<u.content, v.content>>, p.len), LongEnough(u, p))
  BY <1>1, <1>3, <1>6, <1>7, BinaryTurned
<1>10. EndsLater(m, c, op, ins, p) => LongEnough(u, p)
  BY <1>1, <1>2 DEF EndsLater
<1> QED
  BY <1>4, <1>8, <1>9, <1>10, EndsWhenever

LEMMA NodeTurns ==
  ASSUME NEW m, NEW c, NEW p, p.pulse \in Nat \ {0}, p.len \in Nat, Grown(m, c, p), NEW op, NEW ins,
         Turnable(m, c, op, ins, p),
         NumbersFit(Pulsifier(m, ins, op, p)), ~ Pulsifier(m, ins, op, p).refused
  PROVE  Turned(Pulsifier(m, ins, op, p), m, c, p, BatchNode(op, FramesOf(c, ins), p.len), EndsLater(m, c, op, ins, p))
<1>1. CASE op.kind = "source"
  BY <1>1, SourceTurns
<1>2. CASE op.kind = "binary"
  BY <1>2, BinaryTurns
<1>3. CASE op.kind # "source" /\ op.kind # "binary"
  <2>1. Arity(op) = 1
    BY <1>3 DEF Arity
  <2> QED
    BY <1>3, <2>1, OneInputTurns
<1> QED
  BY <1>1, <1>2, <1>3

(* What a pulsifier does to a model, whatever it makes of it. *)
LEMMA PulsifierMore ==
  ASSUME NEW m, Built(m), ~ m.refused, NEW op, NEW ins, NEW p, NEW frames, NodeFits(op, frames),
         NEW wired, wired = Pulsifier(m, ins, op, p)
  PROVE  wired = Refused(m) \/ More(wired, m)
<1>1. \A new : More(Wire(m, new), m)
  BY WireMore
<1>2. CASE op.kind \in {"source", "map", "scan", "slice"}
  BY <1>1, <1>2 DEF Pulsifier, PulsifySource, PulsifyScan, PulsifySlice
<1>3. CASE op.kind = "pad"
  <2>1. \A extra : More(WirePad(m, ins[1], op, extra), m)
    BY PadMore
  <2> QED
    BY <1>3, <2>1 DEF Pulsifier, PulsifyPad
<1>4. CASE op.kind = "pool"
  <2>1. PICK i, pulse, m1, a :
          i = ins[1] /\ pulse = FactOf(m, i).pulse /\ m1 = PoolPadded(m, i, op) /\ a = PoolPaddedWire(m, i, op)
    OBVIOUS
  <2>2. More(m1, m)
    BY <2>1, PoolMore
  <2>3. More(PoolLate(m1, a, pulse, op), m1)
    BY <2>2, PoolMore DEF More
  <2>4. \A new : More(Wire(PoolLate(m1, a, pulse, op), new), PoolLate(m1, a, pulse, op))
    BY <2>3, WireMore DEF More
  <2>5. \A new : More(Wire(PoolLate(m1, a, pulse, op), new), m)
    BY <2>2, <2>3, <2>4, MoreOfMore DEF More
  <2>6. wired = PulsifyPool(m, i, op)
    BY <1>4, <2>1 DEF Pulsifier
  <2> QED
    BY <2>1, <2>5, <2>6, PulsifyPoolIs
<1>5. CASE op.kind = "downsample"
  BY <1>1, <1>5 DEF Pulsifier, PulsifyDownsample
<1>6. CASE op.kind = "binary"
  <2>1. PICK i, j, delay, late : i = ins[1] /\ j = ins[2] /\ delay = FactOf(m, i).delay /\ late = FactOf(m, j).delay
    OBVIOUS
  <2>2. PICK latest : latest = IF delay >= late THEN delay ELSE late
    OBVIOUS
  <2>3. PICK m1, m2 : m1 = DelayedBy(m, i, latest - delay) /\ m2 = DelayedBy(m1, j, latest - late)
    OBVIOUS
  <2>4. More(m1, m) /\ More(m2, m1)
    <3>1. More(m1, m)
      BY <2>3, DelayMore
    <3> QED
      BY <2>3, <3>1, DelayMore DEF More
  <2>5. \A new : More(Wire(m2, new), m2)
    BY <2>4, WireMore DEF More
  <2>6. \A new : More(Wire(m2, new), m)
    BY <2>4, <2>5, MoreOfMore DEF More
  <2>7. \E new : wired = Wire(m2, new)
    BY <1>6, <2>1, <2>2, <2>3 DEF Pulsifier, PulsifyBinary
  <2> QED
    BY <2>6, <2>7
<1> QED
  BY <1>2, <1>3, <1>4, <1>5, <1>6 DEF NodeFits

(* One more node of the source model is turned, and its outlet noted. *)
LEMMA NodePulsified ==
  ASSUME NEW m, Built(m), ~ m.refused, NEW k \in Nat, Long(m.outlet, k), NEW op, NEW p,
         NEW frames, NodeFits(op, frames), NEW m2, m2 = PulsifyNode(m, op, p), ~ m2.refused,
         NEW ins, ins = [i \in DOMAIN op.inputs |-> m.outlet[op.inputs[i]]],
         NEW wired, wired = Pulsifier(m, ins, op, p)
  PROVE  /\ More(wired, m) /\ ~ wired.refused
         /\ m2.nodes = wired.nodes /\ LastOf(m2) = LastOf(wired) /\ Built(m2) /\ Long(m2.outlet, k + 1)
         /\ \A s \in 1 .. k : m2.outlet[s] = m.outlet[s]
         /\ m2.outlet[k + 1] = LastOf(wired)
<1>1. PICK nodes, outlet, refused, last :
        nodes = wired.nodes /\ outlet = wired.outlet /\ refused = wired.refused /\ last = LastOf(wired)
  OBVIOUS
<1>2. m2 = [wired EXCEPT !.outlet = Append(outlet, last)]
  BY <1>1 DEF PulsifyNode
<1>3. wired = [nodes |-> nodes, outlet |-> outlet, refused |-> refused]
  <2>1. wired = Refused(m) \/ More(wired, m)
    BY PulsifierMore
  <2>a. PICK a, b, d : a = m.nodes /\ b = m.outlet /\ d = m.refused
    OBVIOUS
  <2>2. m = [nodes |-> a, outlet |-> b, refused |-> d]
    BY ONLY <2>a, Built(m) DEF Built
  <2>3. Refused(m) = [nodes |-> a, outlet |-> b, refused |-> TRUE]
    <3>1. ASSUME NEW x PROVE [m EXCEPT !.refused = x] = [nodes |-> a, outlet |-> b, refused |-> x]
      BY ONLY <2>2
    <3> QED
      BY ONLY <3>1 DEF Refused
  <2>4. CASE wired = Refused(m)
    BY ONLY <1>1, <2>3, <2>4
  <2>5. CASE More(wired, m)
    BY ONLY <1>1, <2>5 DEF More, Built
  <2> QED
    BY ONLY <2>1, <2>4, <2>5
<1>4. m2 = [nodes |-> nodes, outlet |-> Append(outlet, last), refused |-> refused]
  <2>1. PICK new : new = Append(outlet, last)
    OBVIOUS
  <2>2. m2 = [wired EXCEPT !.outlet = new]
    BY ONLY <1>2, <2>1
  <2>3. m2 = [nodes |-> nodes, outlet |-> new, refused |-> refused]
    BY ONLY <1>3, <2>2
  <2> QED
    BY ONLY <2>1, <2>3
<1>5. m2.nodes = nodes /\ m2.outlet = Append(outlet, last) /\ m2.refused = refused
  BY ONLY <1>4
<1>6. ~ refused
  BY <1>5
<1>7. More(wired, m)
  BY <1>1, <1>6, PulsifierMore, RefusedIs
<1>8. outlet = m.outlet
  BY <1>1, <1>7 DEF More, Longer
<1>9. /\ Long(Append(outlet, last), k + 1) /\ \A s \in 1 .. k : Append(outlet, last)[s] = outlet[s]
      /\ Append(outlet, last)[k + 1] = last
  BY <1>8, AppendedOne
<1>10. LastOf(m2) = last
  BY <1>1, <1>5 DEF LastOf
<1>11. Built(m2)
  <2>1. last \in Nat /\ Long(nodes, last)
    BY <1>1, <1>7 DEF More, Built
  <2>2. m2 = [nodes |-> m2.nodes, outlet |-> m2.outlet, refused |-> m2.refused]
    BY <1>4, <1>5
  <2> QED
    BY <1>5, <1>10, <2>1, <2>2 DEF Built
<1> QED
  BY <1>1, <1>5, <1>6, <1>7, <1>8, <1>9, <1>10, <1>11

(* The first nodes, and where they went, are those of a longer model. *)
Before(m, m2, k) ==
  /\ LastOf(m) <= LastOf(m2)
  /\ \A n \in 1 .. LastOf(m) : m2.nodes[n] = m.nodes[n]
  /\ \A s \in 1 .. k : m2.outlet[s] = m.outlet[s]

LEMMA BeforeBefore ==
  ASSUME NEW m1, NEW m2, NEW m3, NEW j \in Nat, NEW k \in Nat, j <= k,
         LastOf(m1) \in Nat, LastOf(m2) \in Nat, LastOf(m3) \in Nat, Before(m1, m2, j), Before(m2, m3, k)
  PROVE  Before(m1, m3, j)
<1>1. PICK a, b, d : a = LastOf(m1) /\ b = LastOf(m2) /\ d = LastOf(m3)
  OBVIOUS
<1>2. a \in Nat /\ b \in Nat /\ d \in Nat /\ a <= b /\ b <= d
  BY <1>1 DEF Before
<1>3. a <= d /\ 1 .. a \subseteq 1 .. b /\ 1 .. j \subseteq 1 .. k
  BY <1>2
<1> QED
  BY <1>1, <1>3 DEF Before

(* The models that lead to one that was not refused. *)
Leads(f, k) ==
  ~ f[k].refused =>
    /\ Built(f[k]) /\ Long(f[k].outlet, k)
    /\ \A j \in 0 .. k : ~ f[j].refused /\ Built(f[j]) /\ Long(f[j].outlet, j) /\ Before(f[j], f[k], j)

LEMMA ModelsLead ==
  ASSUME NEW p, NEW n \in Nat, NEW f, PulsifiedUpTo(f, p, n),
         \A s \in 1 .. n : \E frames : NodeFits(p.ops[s], frames)
  PROVE  \A k \in 0 .. n : Leads(f, k)
<1> DEFINE S == {k \in Nat : k <= n => Leads(f, k)}
<1>1. 0 \in S
  <2>1. f[0] = NoModel
    BY DEF PulsifiedUpTo
  <2>2. Built(NoModel) /\ Long(NoModel.outlet, 0) /\ LastOf(NoModel) = 0
    <3>1. Long(<<>>, 0) /\ Len(<<>>) = 0 /\ NoModel.nodes = <<>> /\ NoModel.outlet = <<>>
      BY DEF Long, NoModel
    <3>2. NoModel = [nodes |-> NoModel.nodes, outlet |-> NoModel.outlet, refused |-> NoModel.refused]
      BY DEF NoModel
    <3> QED
      BY <3>1, <3>2 DEF Built, LastOf
  <2>3. Before(NoModel, NoModel, 0)
    BY <2>2 DEF Before
  <2>4. \A j \in 0 .. 0 : j = 0
    OBVIOUS
  <2>5. Leads(f, 0)
    BY <2>1, <2>2, <2>3, <2>4 DEF Leads
  <2> QED
    BY <2>5
<1>2. ASSUME NEW k \in Nat, k \in S PROVE k + 1 \in S
  <2> SUFFICES ASSUME k + 1 <= n, ~ f[k + 1].refused
               PROVE  /\ Built(f[k + 1]) /\ Long(f[k + 1].outlet, k + 1)
                      /\ \A j \in 0 .. k + 1 :
                           ~ f[j].refused /\ Built(f[j]) /\ Long(f[j].outlet, j) /\ Before(f[j], f[k + 1], j)
    BY DEF Leads
  <2>1. PICK m, m2, op : m = f[k] /\ m2 = f[k + 1] /\ op = p.ops[k + 1]
    OBVIOUS
  <2>2. m2 = PulsifyNode(m, op, p)
    <3>1. k + 1 \in 0 .. n /\ k + 1 # 0 /\ (k + 1) - 1 = k
      OBVIOUS
    <3>2. f[k + 1] = IF k + 1 = 0 THEN NoModel ELSE PulsifyNode(f[(k + 1) - 1], p.ops[k + 1], p)
      BY <3>1 DEF PulsifiedUpTo
    <3> QED
      BY <2>1, <3>1, <3>2
  <2>3. ~ m.refused
    BY <2>1, <2>2 DEF PulsifyNode
  <2>4. k <= n /\ Leads(f, k)
    BY <1>2
  <2>5. /\ Built(m) /\ Long(m.outlet, k)
        /\ \A j \in 0 .. k : ~ f[j].refused /\ Built(f[j]) /\ Long(f[j].outlet, j) /\ Before(f[j], m, j)
    BY <2>1, <2>3, <2>4 DEF Leads
  <2>6. PICK frames : NodeFits(op, frames)
    BY <2>1
  <2>7. PICK wired : wired = Pulsifier(m, [i \in DOMAIN op.inputs |-> m.outlet[op.inputs[i]]], op, p)
    OBVIOUS
  <2>8. /\ More(wired, m) /\ m2.nodes = wired.nodes /\ LastOf(m2) = LastOf(wired) /\ Built(m2)
        /\ Long(m2.outlet, k + 1) /\ \A s \in 1 .. k : m2.outlet[s] = m.outlet[s]
    <3>1. ~ m2.refused
      BY <2>1
    <3>2. PICK ins : ins = [i \in DOMAIN op.inputs |-> m.outlet[op.inputs[i]]]
      OBVIOUS
    <3>3. wired = Pulsifier(m, ins, op, p)
      BY <2>7, <3>2
    <3> QED
      BY ONLY <2>2, <2>3, <2>5, <2>6, <3>1, <3>2, <3>3, k \in Nat, NodePulsified
  <2>9. Before(m, m2, k)
    BY <2>8 DEF More, Longer, Before
  <2>10. Before(m2, m2, k + 1)
    BY <2>8 DEF Before, Built
  <2>11. ASSUME NEW j \in 0 .. k + 1
         PROVE  ~ f[j].refused /\ Built(f[j]) /\ Long(f[j].outlet, j) /\ Before(f[j], m2, j)
    <3>1. CASE j = k + 1
      BY <2>1, <2>8, <2>10, <3>1
    <3>2. CASE j # k + 1
      <4>1. j \in 0 .. k /\ j \in Nat /\ j <= k
        BY <3>2
      <4>2. ~ f[j].refused /\ Built(f[j]) /\ Long(f[j].outlet, j) /\ Before(f[j], m, j)
        BY <2>5, <4>1
      <4>3. LastOf(f[j]) \in Nat /\ LastOf(m) \in Nat /\ LastOf(m2) \in Nat
        BY <2>5, <2>8, <4>2 DEF Built
      <4> QED
        BY <2>9, <4>1, <4>2, <4>3, BeforeBefore
    <3> QED
      BY <3>1, <3>2
  <2> QED
    BY <2>1, <2>8, <2>11
<1> HIDE DEF S
<1>3. Nat \subseteq S
  BY <1>1, <1>2, SetInduction
<1> QED
  BY <1>3 DEF S

LEMMA BatchLeads ==
  ASSUME NEW p, NEW n \in Nat, NEW f, BatchUpTo(f, p, n)
  PROVE  \A k \in 0 .. n : Long(f[k], k) /\ \A j \in 0 .. k : \A i \in 1 .. j : f[k][i] = f[j][i]
<1> DEFINE Leading(k) == Long(f[k], k) /\ \A j \in 0 .. k : \A i \in 1 .. j : f[k][i] = f[j][i]
           S == {k \in Nat : k <= n => Leading(k)}
<1>1. 0 \in S
  <2>1. f[0] = <<>>
    BY DEF BatchUpTo
  <2>2. Long(<<>>, 0)
    BY DEF Long
  <2>3. Leading(0)
    BY <2>1, <2>2
  <2> QED
    BY <2>3
<1>2. ASSUME NEW k \in Nat, k \in S PROVE k + 1 \in S
  <2> SUFFICES ASSUME k + 1 <= n PROVE Leading(k + 1)
    OBVIOUS
  <2>1. Leading(k)
    BY <1>2
  <2>2. PICK x : x = BatchNode(p.ops[k + 1], [i \in DOMAIN p.ops[k + 1].inputs |-> f[k][p.ops[k + 1].inputs[i]]], p.len)
    OBVIOUS
  <2>3. f[k + 1] = Append(f[k], x)
    <3>1. k + 1 \in 0 .. n /\ k + 1 # 0 /\ (k + 1) - 1 = k
      OBVIOUS
    <3>2. f[k + 1] = IF k + 1 = 0 THEN <<>> ELSE BatchNext(f[(k + 1) - 1], p.ops[k + 1], p)
      BY <3>1 DEF BatchUpTo
    <3> QED
      BY <2>2, <3>1, <3>2 DEF BatchNext
  <2>4. Long(f[k + 1], k + 1) /\ \A i \in 1 .. k : f[k + 1][i] = f[k][i]
    BY <2>1, <2>3, AppendedOne
  <2>5. ASSUME NEW j \in 0 .. k + 1, NEW i \in 1 .. j PROVE f[k + 1][i] = f[j][i]
    <3>1. CASE j = k + 1
      BY <3>1
    <3>2. CASE j # k + 1
      <4>1. j \in 0 .. k /\ i \in 1 .. k
        BY <3>2
      <4> QED
        BY <2>1, <2>4, <4>1
    <3> QED
      BY <3>1, <3>2
  <2> QED
    BY <2>4, <2>5
<1> HIDE DEF S
<1>3. Nat \subseteq S
  BY <1>1, <1>2, SetInduction
<1> QED
  BY <1>3 DEF S

(* Models of the same nodes. *)
LEMMA SameNodes ==
  ASSUME NEW m, NEW m2, m2.nodes = m.nodes, NEW c, NEW p
  PROVE  /\ LastOf(m2) = LastOf(m) /\ \A n : FactOf(m2, n) = FactOf(m, n) /\ WireAt(m2, c, n) = WireAt(m, c, n)
         /\ NumbersFit(m2) => NumbersFit(m)
         /\ Built(m2) /\ Grown(m, c, p) => Grown(m2, c, p)
<1>1. LastOf(m2) = LastOf(m)
  BY DEF LastOf
<1>2. ASSUME NEW n PROVE FactOf(m2, n) = FactOf(m, n) /\ WireAt(m2, c, n) = WireAt(m, c, n)
  BY DEF FactOf, WireAt, Rate
<1>3. ASSUME NEW n PROVE WiresAt(m2, c, n) = WiresAt(m, c, n)
  BY <1>2 DEF WiresAt
<1>4. ASSUME NEW n, NodeWired(m, c, n, p) PROVE NodeWired(m2, c, n, p)
  BY <1>2, <1>3, <1>4 DEF NodeWired
<1> QED
  BY <1>1, <1>2, <1>4 DEF NumbersFit, Grown

(* The first k nodes of the source model, and the wires that stand for them; those *)
(* of which the end was cut are in `cut`.                                          *)
Stands(m, c, outs, k, cut, p) ==
  /\ Long(outs, k) /\ Long(m.outlet, k)
  /\ \A s \in 1 .. k : /\ Readable(m, c, m.outlet[s]) /\ outs[s] = c[m.outlet[s]]
                       /\ (s \notin cut => LongEnough(WireAt(m, c, m.outlet[s]), p))
  /\ k > 0 => m.outlet[k] = LastOf(m)

LEMMA StandsNext ==
  ASSUME NEW m, NEW c, NEW p, p.pulse \in Nat \ {0}, p.len \in Nat, Grown(m, c, p), ~ m.refused,
         NEW k \in Nat, NEW outs, NEW cut, Stands(m, c, outs, k, cut, p),
         NEW op, op.inputs \in [1 .. Arity(op) -> 1 .. k],
         NEW frames, frames = [i \in DOMAIN op.inputs |-> outs[op.inputs[i]]], NodeFits(op, frames),
         NEW m2, m2 = PulsifyNode(m, op, p), ~ m2.refused, NumbersFit(m2),
         op.kind = "downsample" => FactOf(m, m.outlet[op.inputs[1]]).delay = 0,
         op.kind = "binary" => FactOf(m, m.outlet[op.inputs[1]]).pulse = FactOf(m, m.outlet[op.inputs[2]]).pulse,
         (\E i \in DOMAIN op.inputs : op.inputs[i] \in cut) \/ Cuts(op, frames) => k + 1 \in cut,
         (\E i \in DOMAIN op.inputs : op.inputs[i] \in cut) => ~ IsPadding(op)
  PROVE  \E c2 : Grown(m2, c2, p) /\ Stands(m2, c2, BatchNext(outs, op, p), k + 1, cut, p)
<1>1. PICK ins : ins = [i \in DOMAIN op.inputs |-> m.outlet[op.inputs[i]]]
  OBVIOUS
<1>2. DOMAIN op.inputs = 1 .. Arity(op) /\ \A i \in 1 .. Arity(op) : op.inputs[i] \in 1 .. k /\ ins[i] = m.outlet[op.inputs[i]]
  BY <1>1
<1>3. ASSUME NEW i \in 1 .. Arity(op)
      PROVE  /\ Readable(m, c, ins[i]) /\ c[ins[i]] = outs[op.inputs[i]]
             /\ (op.inputs[i] \notin cut => LongEnough(WireAt(m, c, ins[i]), p))
  BY <1>2 DEF Stands
<1>4. FramesOf(c, ins) = frames
  BY <1>1, <1>2, <1>3 DEF FramesOf
<1>5. Arity(op) \in {0, 1, 2} /\ (op.kind = "binary" => Arity(op) = 2) /\ (op.kind = "downsample" => Arity(op) = 1)
  BY DEF Arity
<1>6. Turnable(m, c, op, ins, p)
  <2>1. ins = [i \in 1 .. Arity(op) |-> ins[i]]
    BY <1>1, <1>2
  <2>2. IsPadding(op) => \A i \in 1 .. Arity(op) : LongEnough(WireAt(m, c, ins[i]), p)
    BY <1>2, <1>3
  <2>3. /\ op.kind = "downsample" => FactOf(m, ins[1]).delay = 0
        /\ op.kind = "binary" => FactOf(m, ins[1]).pulse = FactOf(m, ins[2]).pulse
    <3>1. op.kind = "downsample" => ins[1] = m.outlet[op.inputs[1]]
      BY <1>2, <1>5
    <3>2. op.kind = "binary" => ins[1] = m.outlet[op.inputs[1]] /\ ins[2] = m.outlet[op.inputs[2]]
      BY <1>2, <1>5
    <3> QED
      BY <3>1, <3>2
  <2> QED
    BY <1>3, <1>4, <2>1, <2>2, <2>3 DEF Turnable
<1>7. PICK wired : wired = Pulsifier(m, ins, op, p)
  OBVIOUS
<1>8. /\ More(wired, m) /\ ~ wired.refused
      /\ m2.nodes = wired.nodes /\ LastOf(m2) = LastOf(wired) /\ Built(m2) /\ Long(m2.outlet, k + 1)
      /\ \A s \in 1 .. k : m2.outlet[s] = m.outlet[s]
      /\ m2.outlet[k + 1] = LastOf(wired)
  <2>1. Built(m) /\ Long(m.outlet, k)
    BY DEF Grown, Stands
  <2> QED
    BY <1>1, <1>7, <2>1, NodePulsified
<1>9. NumbersFit(wired)
  BY <1>8, SameNodes
<1>10. PICK content, ends : content = BatchNode(op, frames, p.len) /\ ends = EndsLater(m, c, op, ins, p)
  OBVIOUS
<1>11. Turned(wired, m, c, p, content, ends)
  BY <1>4, <1>6, <1>7, <1>8, <1>9, <1>10, NodeTurns
<1>12. PICK w : GrewTo(wired, m, c, p, w) /\ Once(w) /\ w.content = content /\ (ends => LongEnough(w, p))
  BY <1>11 DEF Turned
<1>13. PICK c2 : /\ Grown(wired, c2, p) /\ Extends(wired, c2, m, c)
                 /\ LastOf(m) < LastOf(wired) /\ WireAt(wired, c2, LastOf(wired)) = w
  BY <1>12 DEF GrewTo
<1>14. Grown(m2, c2, p) /\ \A n : WireAt(m2, c2, n) = WireAt(wired, c2, n)
  BY <1>8, <1>13, SameNodes
<1>15. ends \/ k + 1 \in cut
  BY <1>2, <1>3, <1>4, <1>10 DEF EndsLater
<1>16. BatchNext(outs, op, p) = Append(outs, content)
  BY <1>10 DEF BatchNext
<1>17. PICK outs2 : outs2 = Append(outs, content)
  OBVIOUS
<1>18. Long(outs2, k + 1) /\ outs2[k + 1] = content /\ \A s \in 1 .. k : outs2[s] = outs[s]
  BY <1>17, AppendedOne DEF Stands
<1>19. ASSUME NEW s \in 1 .. k
       PROVE  /\ Readable(m2, c2, m2.outlet[s]) /\ outs2[s] = c2[m2.outlet[s]]
              /\ (s \notin cut => LongEnough(WireAt(m2, c2, m2.outlet[s]), p))
  <2>1. PICK i : i = m.outlet[s]
    OBVIOUS
  <2>2. Readable(m, c, i) /\ outs[s] = c[i] /\ (s \notin cut => LongEnough(WireAt(m, c, i), p)) /\ i \in 1 .. LastOf(m)
    BY <2>1 DEF Stands, Readable
  <2>3. Readable(wired, c2, i) /\ WireAt(wired, c2, i) = WireAt(m, c, i)
    BY <1>13, <2>2, StillReadable
  <2>4. Readable(m2, c2, i) /\ WireAt(m2, c2, i) = WireAt(m, c, i)
    BY <1>8, <1>14, <2>3 DEF Readable
  <2>5. c2[i] = c[i]
    BY <1>13, <2>2 DEF Extends
  <2> QED
    BY <1>8, <1>18, <2>1, <2>2, <2>4, <2>5
<1>20. /\ Readable(m2, c2, m2.outlet[k + 1]) /\ outs2[k + 1] = c2[m2.outlet[k + 1]]
       /\ (k + 1 \notin cut => LongEnough(WireAt(m2, c2, m2.outlet[k + 1]), p))
  <2>1. PICK i : i = LastOf(wired)
    OBVIOUS
  <2>2. i \in 1 .. LastOf(m2) /\ m2.outlet[k + 1] = i /\ WireAt(m2, c2, i) = w
    <3>1. LastOf(m) \in Nat /\ LastOf(wired) \in Nat
      BY <1>13 DEF Grown, Built
    <3> QED
      BY <1>8, <1>13, <1>14, <2>1, <3>1
  <2>3. IsWire(w) /\ c2[i] = content
    <3>1. NodeWired(m2, c2, i, p)
      BY <1>14, <2>2 DEF Grown
    <3>2. w.content = c2[i]
      BY <2>2 DEF WireAt
    <3> QED
      BY <1>12, <2>2, <3>1, <3>2 DEF NodeWired
  <2> QED
    BY <1>12, <1>15, <1>18, <2>2, <2>3 DEF Readable
<1>21. Stands(m2, c2, outs2, k + 1, cut, p)
  <2>1. \A s \in 1 .. k + 1 : s \in 1 .. k \/ s = k + 1
    OBVIOUS
  <2> QED
    BY <1>8, <1>18, <1>19, <1>20, <2>1 DEF Stands
<1> QED
  BY <1>14, <1>16, <1>17, <1>21

(* What a problem for which the properties are claimed is known for. *)
FactAt(m, s) == FactOf(m, m.outlet[s])

WhereCut(p, outs, cut) ==
  \A s \in DOMAIN p.ops :
    /\ (\E i \in DOMAIN p.ops[s].inputs : p.ops[s].inputs[i] \in cut) \/ Cuts(p.ops[s], InputsOf(p, outs, s)) => s \in cut
    /\ (\E i \in DOMAIN p.ops[s].inputs : p.ops[s].inputs[i] \in cut) => ~ IsPadding(p.ops[s])

LEMMA PulsableFacts ==
  ASSUME NEW p, Pulsable(p), NEW outs, outs = Batch(p), NEW m, m = Pulsified(p), ~ m.refused
  PROVE  /\ p.pulse \in Nat \ {0} /\ p.len \in Nat
         /\ Len(p.ops) \in Nat \ {0} /\ DOMAIN p.ops = 1 .. Len(p.ops)
         /\ \A s \in 1 .. Len(p.ops) :
              /\ p.ops[s].inputs \in [1 .. Arity(p.ops[s]) -> 1 .. s - 1]
              /\ NodeFits(p.ops[s], InputsOf(p, outs, s))
              /\ p.ops[s].kind = "downsample" => FactAt(m, p.ops[s].inputs[1]).delay = 0
              /\ p.ops[s].kind = "binary" => FactAt(m, p.ops[s].inputs[1]).pulse = FactAt(m, p.ops[s].inputs[2]).pulse
         /\ \A n \in DOMAIN m.nodes : FactOf(m, n).delay + FactOf(m, n).dim <= UsizeMax
         /\ \E cut : WhereCut(p, outs, cut)
<1>1. /\ p.pulse \in Nat \ {0} /\ p.len \in Nat
      /\ p.ops \in Seq(Range(p.ops)) /\ p.ops # <<>>
      /\ \A s \in DOMAIN p.ops :
            p.ops[s].inputs \in [1 .. Arity(p.ops[s]) -> 1 .. s - 1] /\ NodeFits(p.ops[s], InputsOf(p, outs, s))
      /\ m.refused \/ WiresFit(p, m)
  BY DEF Pulsable
<1>2. \E cut \in SUBSET DOMAIN p.ops : WhereCut(p, outs, cut)
  BY DEF Pulsable, EndsOnlyCut, WhereCut
<1>3. Len(p.ops) \in Nat \ {0} /\ DOMAIN p.ops = 1 .. Len(p.ops)
  BY <1>1
<1>4. /\ \A n \in DOMAIN m.nodes : m.nodes[n].fact.delay + m.nodes[n].fact.dim <= UsizeMax
      /\ \A s \in DOMAIN p.ops :
            /\ p.ops[s].kind = "downsample" => FactAt(m, p.ops[s].inputs[1]).delay = 0
            /\ p.ops[s].kind = "binary" => FactAt(m, p.ops[s].inputs[1]).pulse = FactAt(m, p.ops[s].inputs[2]).pulse
  BY <1>1 DEF WiresFit, FactAt
<1>5. \A n \in DOMAIN m.nodes : FactOf(m, n).delay + FactOf(m, n).dim <= UsizeMax
  BY <1>4 DEF FactOf
<1> QED
  BY <1>1, <1>2, <1>3, <1>4, <1>5

(* The turned model: its wires are those of the source model, as its facts say. *)
LEMMA ModelTurned ==
  ASSUME NEW p, Pulsable(p), NEW meant, meant = Batch(p), NEW last, last = Pulsified(p), ~ last.refused
  PROVE  \E c : WellWired(last, c, p) /\ StandsFor(last, c, meant)
<1>1. PICK n : n = Len(p.ops)
  OBVIOUS
<1>2. /\ p.pulse \in Nat \ {0} /\ p.len \in Nat /\ n \in Nat \ {0} /\ DOMAIN p.ops = 1 .. n
      /\ \A s \in 1 .. n :
              /\ p.ops[s].inputs \in [1 .. Arity(p.ops[s]) -> 1 .. s - 1]
              /\ NodeFits(p.ops[s], InputsOf(p, meant, s))
              /\ p.ops[s].kind = "downsample" => FactAt(last, p.ops[s].inputs[1]).delay = 0
              /\ p.ops[s].kind = "binary" => FactAt(last, p.ops[s].inputs[1]).pulse = FactAt(last, p.ops[s].inputs[2]).pulse
      /\ \A k \in DOMAIN last.nodes : FactOf(last, k).delay + FactOf(last, k).dim <= UsizeMax
  BY <1>1, PulsableFacts
<1>3. PICK cut : WhereCut(p, meant, cut)
  BY PulsableFacts
<1>4. PICK B : BatchUpTo(B, p, n) /\ meant = B[n]
  BY <1>1, <1>2, BatchIs
<1>5. PICK P : PulsifiedUpTo(P, p, n) /\ last = P[n]
  BY <1>1, <1>2, PulsifiedIs
<1>6. \A k \in 0 .. n : Long(B[k], k) /\ \A j \in 0 .. k : \A i \in 1 .. j : B[k][i] = B[j][i]
  <2>1. n \in Nat /\ BatchUpTo(B, p, n)
    BY <1>2, <1>4
  <2> QED
    BY ONLY <2>1, BatchLeads
<1>7. \A k \in 0 .. n : ~ P[k].refused /\ Built(P[k]) /\ Long(P[k].outlet, k) /\ Before(P[k], last, k)
  <2>1. \A k \in 0 .. n : Leads(P, k)
    BY <1>2, <1>5, ModelsLead
  <2>2. Leads(P, n)
    BY <1>2, <2>1
  <2> QED
    BY <1>5, <2>2 DEF Leads
<1> DEFINE Done(k) == \E c : Grown(P[k], c, p) /\ Stands(P[k], c, B[k], k, cut, p)
           S == {k \in Nat : k <= n => Done(k)}
<1>8. 0 \in S
  <2>1. P[0] = NoModel /\ B[0] = <<>>
    BY <1>2, <1>4, <1>5 DEF PulsifiedUpTo, BatchUpTo
  <2>2. LastOf(NoModel) = 0 /\ Built(NoModel) /\ Long(NoModel.outlet, 0) /\ Long(<<>>, 0)
    <3>1. Built(P[0]) /\ Long(P[0].outlet, 0) /\ Long(B[0], 0)
      BY <1>2, <1>6, <1>7
    <3>2. LastOf(NoModel) = 0
      BY DEF LastOf, NoModel
    <3> QED
      BY <2>1, <3>1, <3>2
  <2>3. \A c : Grown(NoModel, c, p) /\ Stands(NoModel, c, <<>>, 0, cut, p)
    <3>1. 1 .. 0 = {}
      OBVIOUS
    <3> QED
      BY <2>2, <3>1 DEF Grown, Stands
  <2>4. Done(0)
    BY <2>1, <2>3
  <2> QED
    BY <2>4
<1>9. ASSUME NEW k \in Nat, k \in S PROVE k + 1 \in S
  <2> SUFFICES ASSUME k + 1 <= n PROVE Done(k + 1)
    OBVIOUS
  <2>0. k \in 0 .. n /\ k + 1 \in 0 .. n /\ k + 1 # 0 /\ (k + 1) - 1 = k /\ k + 1 \in 1 .. n
    BY <1>2
  <2>1. PICK m, m2, outs, op : m = P[k] /\ m2 = P[k + 1] /\ outs = B[k] /\ op = p.ops[k + 1]
    OBVIOUS
  <2>2. m2 = PulsifyNode(m, op, p)
    <3>1. P[k + 1] = IF k + 1 = 0 THEN NoModel ELSE PulsifyNode(P[(k + 1) - 1], p.ops[k + 1], p)
      BY <1>5, <2>0 DEF PulsifiedUpTo
    <3> QED
      BY <2>0, <2>1, <3>1
  <2>3. B[k + 1] = BatchNext(outs, op, p)
    <3>1. B[k + 1] = IF k + 1 = 0 THEN <<>> ELSE BatchNext(B[(k + 1) - 1], p.ops[k + 1], p)
      BY <1>4, <2>0 DEF BatchUpTo
    <3> QED
      BY <2>0, <2>1, <3>1
  <2>4. PICK c : Grown(m, c, p) /\ Stands(m, c, outs, k, cut, p)
    <3>1. k <= n
      BY <2>0
    <3> QED
      BY <1>9, <2>1, <3>1
  <2>5. ~ m.refused /\ Before(m, last, k) /\ ~ m2.refused /\ Before(m2, last, k + 1) /\ Built(m) /\ Built(m2) /\ Built(last)
    BY <1>2, <1>5, <1>7, <2>0, <2>1
  <2> HIDE DEF S, Done
  <2>6. op.inputs \in [1 .. Arity(op) -> 1 .. k]
    <3>1. p.ops[k + 1].inputs \in [1 .. Arity(p.ops[k + 1]) -> 1 .. (k + 1) - 1]
      BY <1>2, <2>0
    <3> QED
      BY <2>0, <2>1, <3>1
  <2>7. PICK frames : frames = [i \in DOMAIN op.inputs |-> outs[op.inputs[i]]]
    OBVIOUS
  <2>8. frames = InputsOf(p, meant, k + 1)
    <3>1. \A i \in 1 .. k : meant[i] = outs[i]
      BY <1>2, <1>4, <1>6, <2>0, <2>1
    <3>2. \A i \in DOMAIN op.inputs : op.inputs[i] \in 1 .. k
      BY <2>6
    <3> QED
      BY ONLY <2>1, <2>7, <3>1, <3>2 DEF InputsOf
  <2>9. NodeFits(op, frames)
    BY <1>2, <2>0, <2>1, <2>8
  <2>10. ASSUME NEW j \in 1 .. k
         PROVE  FactOf(m, m.outlet[j]) = FactAt(last, j)
    <3>1. last.outlet[j] = m.outlet[j]
      BY <2>5 DEF Before
    <3>2. m.outlet[j] \in 1 .. LastOf(m)
      BY <2>4 DEF Stands, Readable
    <3>3. last.nodes[m.outlet[j]] = m.nodes[m.outlet[j]]
      BY <2>5, <3>2 DEF Before
    <3> QED
      BY <3>1, <3>3 DEF FactOf, FactAt
  <2>11. NumbersFit(m2)
    <3> SUFFICES ASSUME NEW i \in 1 .. LastOf(m2) PROVE FactOf(m2, i).delay + FactOf(m2, i).dim <= UsizeMax
      BY DEF NumbersFit
    <3>1. last.nodes[i] = m2.nodes[i] /\ LastOf(m2) <= LastOf(last) /\ LastOf(m2) \in Nat /\ LastOf(last) \in Nat
      BY <2>5 DEF Before, Built
    <3>2. i \in DOMAIN last.nodes
      <4>1. DOMAIN last.nodes = 1 .. LastOf(last)
        BY <2>5 DEF Built, Long
      <4> QED
        BY <3>1, <4>1
    <3>3. FactOf(m2, i) = FactOf(last, i)
      BY <3>1 DEF FactOf
    <3> QED
      BY <1>2, <3>2, <3>3
  <2>12. /\ op.kind = "downsample" => FactOf(m, m.outlet[op.inputs[1]]).delay = 0
         /\ op.kind = "binary" => FactOf(m, m.outlet[op.inputs[1]]).pulse = FactOf(m, m.outlet[op.inputs[2]]).pulse
    <3>1. op.kind = "downsample" => op.inputs[1] \in 1 .. k
      <4>1. op.kind = "downsample" => Arity(op) = 1
        BY DEF Arity
      <4> QED
        BY <2>6, <4>1
    <3>2. op.kind = "binary" => op.inputs[1] \in 1 .. k /\ op.inputs[2] \in 1 .. k
      <4>1. op.kind = "binary" => Arity(op) = 2
        BY DEF Arity
      <4> QED
        BY <2>6, <4>1
    <3>3. /\ op.kind = "downsample" => FactAt(last, op.inputs[1]).delay = 0
          /\ op.kind = "binary" => FactAt(last, op.inputs[1]).pulse = FactAt(last, op.inputs[2]).pulse
      BY <1>2, <2>0, <2>1
    <3> QED
      BY <2>10, <3>1, <3>2, <3>3
  <2>13. /\ (\E i \in DOMAIN op.inputs : op.inputs[i] \in cut) \/ Cuts(op, frames) => k + 1 \in cut
         /\ (\E i \in DOMAIN op.inputs : op.inputs[i] \in cut) => ~ IsPadding(op)
    BY <1>2, <1>3, <2>0, <2>1, <2>8 DEF WhereCut
  <2>14. \E c2 : Grown(m2, c2, p) /\ Stands(m2, c2, BatchNext(outs, op, p), k + 1, cut, p)
    BY ONLY <1>2, <2>2, <2>4, <2>5, <2>6, <2>7, <2>9, <2>11, <2>12, <2>13, k \in Nat, StandsNext
  <2> QED
    BY <2>1, <2>3, <2>14 DEF Done
<1> HIDE DEF S
<1>10. n \in S
  BY <1>2, <1>8, <1>9, SetInduction
<1>11. PICK c : Grown(last, c, p) /\ Stands(last, c, meant, n, cut, p)
  BY <1>2, <1>4, <1>5, <1>10 DEF S
<1>12. last.outlet[n] = LastOf(last) /\ last.outlet[n] \in 1 .. LastOf(last)
  BY <1>2, <1>11 DEF Stands, Readable
<1>13. WellWired(last, c, p)
  BY <1>2, <1>11, <1>12 DEF WellWired, Grown, Built
<1>14. StandsFor(last, c, meant)
  BY <1>2, <1>11, <1>12 DEF StandsFor, Stands, Readable, Long
<1> QED
  BY <1>13, <1>14

-----------------------------------------------------------------------------
(* The theorems.                                                           *)


(* The state of a run in which the wires and the buffers hold what they should: the *)
(* inductive invariant.                                                             *)
InGoodOrder == \E c : Fits(c)

LEMMA AlwaysInGoodOrder ==
  ASSUME \A p \in Problems : Pulsable(p)
  PROVE  Spec => []InGoodOrder
<1>1. Init => InGoodOrder
  <2> SUFFICES ASSUME Init PROVE InGoodOrder
    OBVIOUS
  <2>1. Pulsable(problem) /\ meaning = Batch(problem) /\ model = Pulsified(problem) /\ ~ model.refused
    BY DEF Init
  <2>2. PICK c : WellWired(model, c, problem) /\ StandsFor(model, c, meaning)
    BY <2>1, ModelTurned
  <2> QED
    BY <2>2, InitFits DEF InGoodOrder
<1>2. InGoodOrder /\ [Next]_vars => InGoodOrder'
  <2> SUFFICES ASSUME NEW c, Fits(c), [Next]_vars PROVE InGoodOrder'
    BY DEF InGoodOrder
  <2>1. Fits(c)'
    BY FeedKeeps, RunKeeps, StutterKeeps DEF Next
  <2> QED
    BY <2>1 DEF InGoodOrder
<1> QED
  BY <1>1, <1>2, PTL DEF Spec

(* Whatever the model, its operators and their parameters, the pulse and the *)
(* length of the stream: every wire that stands for one of the source model  *)
(* carries its frames, late by the delay of its fact.                        *)
THEOREM CarriedLate ==
  ASSUME \A p \in Problems : Pulsable(p)
  PROVE  Spec => []WiresAreDelayed
<1>1. InGoodOrder => WiresAreDelayed
  BY FitsIsRight DEF InGoodOrder
<1> QED
  BY <1>1, AlwaysInGoodOrder, PTL

(* The buffer of every Delay holds the last frames of its input, whatever it *)
(* was allocated with and however often it was rotated.                      *)
THEOREM BuffersHold ==
  ASSUME \A p \in Problems : Pulsable(p)
  PROVE  Spec => []DelayBuffersHold
<1>1. InGoodOrder => DelayBuffersHold
  BY FitsIsRight DEF InGoodOrder
<1> QED
  BY <1>1, AlwaysInGoodOrder, PTL

(* No operator of a pulsed model fails. *)
THEOREM NoFailure ==
  ASSUME \A p \in Problems : Pulsable(p)
  PROVE  Spec => []NeverFails
<1>1. InGoodOrder => NeverFails
  BY FitsIsRight DEF InGoodOrder
<1> QED
  BY <1>1, AlwaysInGoodOrder, PTL

(* What comes out of the pulsed model is the result of the source model on the *)
(* whole stream: in order, nothing missing, nothing twice.                     *)
THEOREM StreamsTheBatch ==
  ASSUME \A p \in Problems : Pulsable(p)
  PROVE  Spec => ImplementsBatch
<1>1. Init /\ InGoodOrder => Stream!Init
  BY FitsEmits DEF InGoodOrder
<1>2. InGoodOrder /\ [Next]_vars => [Stream!Emit]_(Stream!vars)
  <2> SUFFICES ASSUME NEW c, Fits(c), [Next]_vars PROVE [Stream!Emit]_(Stream!vars)
    BY DEF InGoodOrder
  <2>1. Fits(c)'
    BY FeedKeeps, RunKeeps, StutterKeeps DEF Next
  <2> QED
    BY <2>1, FitsEmits
<1> QED
  BY <1>1, <1>2, AlwaysInGoodOrder, PTL DEF Spec, ImplementsBatch, Stream!Spec
=============================================================================
