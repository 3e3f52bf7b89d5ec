------------------------------ MODULE PulseOps ------------------------------
(***************************************************************************)
(* What the operators of a pulsed model do to one chunk of a stream, and   *)
(* the bits of arithmetic that place their delays: Delay                   *)
(* (pulse-opl/src/delay.rs), PulsePad (pulse-opl/src/pad.rs), the same     *)
(* axis concatenation (pulse/src/ops/array/concat.rs).                     *)
(*                                                                         *)
(* A chunk is a function from 0 .. n - 1 to frames, a frame being what a   *)
(* tensor holds at one position of the streaming axis.  The buffer of a    *)
(* Delay is kept flat, row by row, because the code rotates it so: a row   *)
(* stands for one position of the axes before the streaming one.           *)
(***************************************************************************)
EXTENDS Integers

CONSTANTS
    Rows,      \* how many rows there are before the streaming axis
    UsizeMax   \* std::usize::MAX, the end of a stream whose length is unknown

ASSUME PulseOpsAssumption == Rows \in Nat \ {0} /\ UsizeMax \in Nat

Least(a, b) == IF a <= b THEN a ELSE b

\* usize::saturating_sub
Monus(a, b) == IF a >= b THEN a - b ELSE 0

DivCeil(a, b) == (a + b - 1) \div b

\* The rank of the row and of the column of a flat index, in rows of n.
Flat(row, col, n) == row * n + col

-----------------------------------------------------------------------------
(* Delay: a buffer of delay + overlap frames between its input and itself. *)

Buffered(op) == op.delay + op.overlap

\* The output of a call: what is buffered, then as much of the input as the
\* delay lets through; of the buffer alone when the delay is a pulse or more.
\* `input` and the result map a row and a column to a cell.
DelayOutput(op, buffer, pulse, input) ==
    LET from_buffer == IF op.delay < pulse THEN Buffered(op) ELSE pulse + op.overlap
    IN  [row \in 0 .. Rows - 1 |->
          [col \in 0 .. pulse + op.overlap - 1 |->
             IF col < from_buffer THEN buffer[Flat(row, col, Buffered(op))]
                                  ELSE input[row][col - from_buffer]]]

\* slice::rotate_left of the whole memory of the buffer, rows included.
RotateLeft(op, buffer, by) ==
    [i \in 0 .. Rows * Buffered(op) - 1 |-> buffer[(i + by) % (Rows * Buffered(op))]]

\* A plausible mistake: the buffer is overwritten without being rotated.
DelayBufferUnrotated(op, buffer, pulse, input) ==
    LET n == Buffered(op)
    IN  [i \in 0 .. Rows * n - 1 |->
          IF n < pulse
          THEN input[i \div n][pulse - n + (i % n)]
          ELSE IF (i % n) >= n - pulse THEN input[i \div n][(i % n) - (n - pulse)]
                                       ELSE buffer[i]]

\* The buffer after a call: the end of the input if it is shorter than a pulse;
\* or else it is rotated by a pulse, and the end of each row overwritten.
DelayBuffer(op, buffer, pulse, input) ==
    LET n    == Buffered(op)
        kept == RotateLeft(op, buffer, pulse)
    IN  [i \in 0 .. Rows * n - 1 |->
          IF n < pulse
          THEN input[i \div n][pulse - n + (i % n)]
          ELSE IF (i % n) >= n - pulse THEN input[i \div n][(i % n) - (n - pulse)]
                                     ELSE kept[i]]

-----------------------------------------------------------------------------
(* PulsePad: overwrites what is before the beginning and after the end.    *)

\* What a PulsePad does to a pulse that starts at `pos`, the stream ending at
\* `end` (UsizeMax if it is not known), with `before` and `after` the frames to
\* write and `first` and `last` what to write in them.
PadForwards(op, pos, end, after) ==
    \/ /\ pos >= op.begin_input
       /\ pos + op.pulse <= end
    \/ pos + op.pulse <= op.begin_input - op.before
    \/ pos >= Least(end + after, UsizeMax)

\* How far the beginning of the pulse is filled, and from where its end is.
FillUpTo(op, pos) ==
    IF pos < op.begin_input THEN Least(op.begin_input - pos, op.pulse) ELSE 0

FillFrom(op, pos, end, after) ==
    IF pos + op.pulse > end /\ after > 0
    THEN op.pulse - Least(pos + op.pulse - end, op.pulse)
    ELSE op.pulse

\* The end is written last, over what the beginning may have put there.
Padded(op, pos, end, after, input, first, last) ==
    IF PadForwards(op, pos, end, after)
    THEN input
    ELSE [k \in 0 .. op.pulse - 1 |->
            IF k >= FillFrom(op, pos, end, after) THEN last
            ELSE IF k < FillUpTo(op, pos) THEN first
            ELSE input[k]]

-----------------------------------------------------------------------------
(* Where the delays come from.                                             *)

\* A plausible mistake: an edge padding is placed as a constant one.
PadExtraDelayAnywhere(before, edge, delay, pulse) == Monus(before, delay)

\* The delay a padding puts before itself, so that what it writes before the
\* beginning has a place and, in edge mode, lies in one pulse with the frame it
\* repeats.
PadExtraDelay(before, edge, delay, pulse) ==
    LET extra == Monus(before, delay)
        start_offset == (delay + extra) % pulse
    IN  IF edge /\ before > start_offset THEN extra + before - start_offset ELSE extra

\* The overlap a pool needs of its input, and the delay that aligns it.
PoolOverlap(kernel_len, stride) == Monus(kernel_len + 1, stride)

\* A plausible mistake: the overlap is forgotten in the alignment.
PoolDelayOfInput(overlap, stride, delay) == DivCeil(delay, stride) * stride - delay

PoolDelay(overlap, stride, delay) ==
    DivCeil(overlap + delay, stride) * stride - overlap - delay

-----------------------------------------------------------------------------
(* The same axis concatenation: where a constant lies in a pulse.          *)

\* overwrite_part_of_pulse: the cases of range_in_range, by the positions the
\* pulse and the constant (both ranges) have.
Overwritten(input, pulse, pos, const, length, offset) ==
    LET const_end == offset + length
        pulse_end == pos + pulse
        at == offset - pos
    IN  CASE pulse_end <= offset -> input                                \* Before
          [] pulse_end > offset /\ pos < offset /\ pulse_end < const_end -> \* Begin
               [k \in 0 .. pulse - 1 |-> IF k >= at THEN const[k - at] ELSE input[k]]
          [] pos < offset /\ pulse_end >= const_end ->                    \* Contain
               [k \in 0 .. pulse - 1 |->
                  IF k >= at /\ k < at + length THEN const[k - at] ELSE input[k]]
          [] pos >= offset /\ pos >= const_end -> input                   \* After
          [] pos >= offset /\ pos < const_end /\ pulse_end > const_end -> \* End
               [k \in 0 .. pulse - 1 |-> IF k < const_end - pos THEN const[k - at] ELSE input[k]]
          [] pos >= offset /\ pulse_end <= const_end ->                   \* Inside
               [k \in 0 .. pulse - 1 |-> const[k - at]]
=============================================================================
