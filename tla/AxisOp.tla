------------------------------- MODULE AxisOp -------------------------------
(***************************************************************************)
(* The operators that only move axes (core/src/ops/change_axes.rs): they   *)
(* insert an axis of one, remove one, move an axis, or cut consecutive     *)
(* axes otherwise.  The same values stand for the operator of a node and   *)
(* for a change of the axes of a wire.  Axes are counted from 0.           *)
(***************************************************************************)
EXTENDS Integers, Sequences

None    == <<>>
Some(x) == <<x>>

Add(ix)               == [is |-> "add", at |-> ix]
Rm(ix)                == [is |-> "rm", at |-> ix]
Move(from, to)        == [is |-> "move", from |-> from, to |-> to]
Reshape(at, from, to) == [is |-> "reshape", at |-> at, from |-> from, to |-> to]

If(condition) == IF condition THEN 1 ELSE 0
Least(a, b)   == IF a <= b THEN a ELSE b
Most(a, b)    == IF a >= b THEN a ELSE b

Canonical(op) == IF op.is = "move" /\ op.from = op.to + 1 THEN Move(op.to, op.from) ELSE op

IsNoop(op) == op.is \in {"move", "reshape"} /\ op.from = op.to

\* PartialEq: two moves of neighbours are the same exchange.
SameOp(a, b) ==
    \/ IsNoop(a) /\ IsNoop(b)
    \/ /\ ~ IsNoop(a) /\ ~ IsNoop(b) /\ a.is = b.is
       /\ \/ a = b
          \/ /\ a.is = "move" /\ (a.to = a.from + 1 \/ a.from = a.to + 1)
             /\ b.to = a.from /\ a.to = b.from

\* Where an axis goes, None when it is removed or cut.
TransformAxis(change, axis) ==
    LET op == Canonical(change)
    IN  CASE op.is = "add"  -> Some(axis + If(axis >= op.at))
          [] op.is = "rm"   -> IF axis = op.at THEN None ELSE Some(axis - If(axis > op.at))
          [] op.is = "move" -> IF axis = op.from THEN Some(op.to)
                               ELSE IF op.from < axis /\ axis <= op.to THEN Some(axis - 1)
                               ELSE IF op.to <= axis /\ axis < op.from THEN Some(axis + 1)
                               ELSE Some(axis)
          [] op.is = "reshape" -> IF axis < op.at THEN Some(axis)
                                  ELSE IF axis >= op.at + Len(op.from)
                                  THEN Some(axis + Len(op.to) - Len(op.from)) ELSE None

Merged(op, change) == Some([op |-> op, change |-> change])

\* A mutant: the axes that are moved do not make room for the one that is added.
MergeAddUnshifted(op, c) ==
    CASE c.is = "move" -> IF op.at <= Least(c.from, c.to) \/ op.at > Most(c.from, c.to) THEN Merged(op, c) ELSE None
      [] c.is \in {"add", "rm", "reshape"} -> None

\* What an axis of the input tensor becomes when an operator is pushed aside by a
\* change of the axes of its input: what it is to be replaced by, and the change of
\* its output that is left.  The first argument is the operator.
MergeAdd(op, c) ==
    CASE c.is = "add"  -> Merged(Add(op.at + If(c.at < op.at)), Add(c.at + If(c.at >= op.at)))
      [] c.is = "rm"   -> Merged(Add(op.at - If(c.at < op.at)), Rm(c.at + If(c.at >= op.at)))
      [] c.is = "move" -> IF op.at <= Least(c.from, c.to) THEN Merged(op, Move(c.from + 1, c.to + 1))
                          ELSE IF op.at > Most(c.from, c.to) THEN Merged(op, c) ELSE None
      [] c.is = "reshape" ->
             IF op.at <= c.at THEN Merged(op, Reshape(c.at + 1, c.from, c.to))
             ELSE IF op.at > c.at + Len(c.from) THEN Merged(Add(op.at + Len(c.to) - Len(c.from)), c) ELSE None

MergeRm(op, c) ==
    CASE c.is = "add"  -> Merged(Rm(op.at + If(c.at <= op.at)), Add(c.at - If(op.at < c.at)))
      [] c.is = "rm"   -> Merged(Rm(op.at - If(c.at < op.at)), Rm(c.at - If(op.at <= c.at)))
      [] c.is = "move" -> IF op.at = c.from THEN None
                          ELSE IF op.at < Least(c.from, c.to) THEN Merged(op, Move(c.from - 1, c.to - 1))
                          ELSE IF op.at > Most(c.from, c.to) THEN Merged(op, c)
                          ELSE IF c.from + 1 = c.to /\ op.at = c.to THEN None
                          ELSE IF c.from < c.to THEN Merged(Rm(op.at - 1), Move(c.from, c.to - 1))
                          ELSE Merged(Rm(op.at + 1), Move(c.from - 1, c.to))
      [] c.is = "reshape" ->
             IF op.at < c.at THEN Merged(op, Reshape(c.at - 1, c.from, c.to))
             ELSE IF op.at > c.at + Len(c.from) THEN Merged(Rm(op.at + Len(c.to) - Len(c.from)), c) ELSE None

MergeMove(op, c) ==
    CASE c.is = "add" -> IF c.at <= Least(op.from, op.to) THEN Merged(Move(op.from + 1, op.to + 1), c)
                         ELSE IF c.at > Most(op.from, op.to) THEN Merged(op, c) ELSE None
      [] c.is = "rm"  -> IF c.at < Least(op.from, op.to) THEN Merged(Move(op.from - 1, op.to - 1), c)
                         ELSE IF c.at > Most(op.from, op.to) THEN Merged(op, c) ELSE None
      [] c.is \in {"move", "reshape"} -> None

MergeReshape(op, c) ==
    CASE c.is = "add" -> IF c.at < op.at THEN Merged(Reshape(op.at + 1, op.from, op.to), c)
                         ELSE IF c.at > op.at + Len(op.from)
                         THEN Merged(op, Add(c.at + Len(op.to) - Len(op.from))) ELSE None
      [] c.is = "rm"  -> IF c.at < op.at THEN Merged(Reshape(op.at - 1, op.from, op.to), c)
                         ELSE IF c.at > op.at + Len(op.from)
                         THEN Merged(op, Rm(c.at + Len(op.to) - Len(op.from))) ELSE None
      [] c.is \in {"move", "reshape"} -> None

MergeIncomingChange(op, change) ==
    LET o == Canonical(op)
        c == Canonical(change)
    IN  CASE o.is = "add"     -> MergeAdd(o, c)
          [] o.is = "rm"      -> MergeRm(o, c)
          [] o.is = "move"    -> MergeMove(o, c)
          [] o.is = "reshape" -> MergeReshape(o, c)

Recip(change) ==
    LET op == Canonical(change)
    IN  CASE op.is = "add"  -> Rm(op.at)
          [] op.is = "rm"   -> Add(op.at)
          [] op.is = "move" -> IF op.from = op.to \/ op.from + 1 = op.to THEN op ELSE Move(op.to, op.from)
          [] op.is = "reshape" -> Reshape(op.at, op.to, op.from)

-----------------------------------------------------------------------------
(* Shapes, or any sequence with an item per axis.                          *)

WithAxis(s, ix, d) == [k \in 1 .. Len(s) + 1 |-> IF k <= ix THEN s[k] ELSE IF k = ix + 1 THEN d ELSE s[k - 1]]
Without(s, ix)     == [k \in 1 .. Len(s) - 1 |-> IF k <= ix THEN s[k] ELSE s[k + 1]]
MoveAxis(s, from, to) == WithAxis(Without(s, from), to, s[from + 1])

\* change_shape: None when the change is not for this shape.
ChangeShape(change, shape) ==
    LET op == Canonical(change)
    IN  CASE op.is = "add"  -> IF op.at <= Len(shape) THEN Some(WithAxis(shape, op.at, 1)) ELSE None
          [] op.is = "rm"   -> IF op.at < Len(shape) /\ shape[op.at + 1] = 1 THEN Some(Without(shape, op.at))
                               ELSE None
          [] op.is = "move" -> IF op.from < Len(shape) /\ op.to < Len(shape)
                               THEN Some(MoveAxis(shape, op.from, op.to)) ELSE None
          [] op.is = "reshape" ->
                 IF Len(shape) >= op.at + Len(op.from) /\ SubSeq(shape, op.at + 1, op.at + Len(op.from)) = op.from
                 THEN Some(SubSeq(shape, 1, op.at) \o op.to \o SubSeq(shape, op.at + Len(op.from) + 1, Len(shape)))
                 ELSE None
=============================================================================
