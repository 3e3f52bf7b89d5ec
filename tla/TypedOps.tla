------------------------------ MODULE TypedOps ------------------------------
(***************************************************************************)
(* Tensors, the typed operators (core/src/ops), what each makes of the     *)
(* tensors it reads, and of a change of the axes of one of its wires.  A   *)
(* tensor is its shape and, for each index, what the value there was       *)
(* computed from.                                                          *)
(***************************************************************************)
EXTENDS AxisOp, FiniteSetsExt, SequencesExt

IsAxisOp(op) == op.is \in {"add", "rm", "move", "reshape"}
Identity     == [is |-> "identity"]

-----------------------------------------------------------------------------
(* Tensors and operators.                                                  *)

Indices(shape) ==
    {idx \in [1 .. Len(shape) -> 0 .. Max({0} \cup Range(shape))] : \A k \in DOMAIN shape : idx[k] < shape[k]}
Flat(shape, idx) == FoldLeft(LAMBDA acc, k : acc * shape[k] + idx[k], 0, [k \in DOMAIN shape |-> k])
Size(shape)      == FoldLeft(LAMBDA acc, d : acc * d, 1, shape)

Tensor(shape, data) == [shape |-> shape, data |-> data]

\* The index that an index of the changed tensor comes from.
Origin(op, old, new, idx) ==
    CASE op.is = "add"  -> Without(idx, op.at)
      [] op.is = "rm"   -> WithAxis(idx, op.at, 0)
      [] op.is = "move" -> MoveAxis(idx, op.to, op.from)
      [] op.is = "reshape" -> CHOOSE i \in Indices(old) : Flat(old, i) = Flat(new, idx)

\* AxisOp::change_tensor, None when it fails.  The values of a reshape stay in order.
ChangeTensor(axisOp, t) ==
    LET shape == ChangeShape(axisOp, t.shape)
    IN  IF shape = None \/ Size(shape[1]) # Size(t.shape) THEN None
        ELSE Some(Tensor(shape[1], [idx \in Indices(shape[1]) |-> t.data[Origin(axisOp, t.shape, shape[1], idx)]]))

\* On the constant of an operator, with broadcasting allowed: axes of one are reshaped
\* into as many others, and an axis is removed whatever its length (Tensor::remove_axis).
BroadcastChange(axisOp, t) ==
    LET op   == Canonical(axisOp)
        ones == [i \in 1 .. Len(op.to) |-> 1]
        dims == SubSeq(t.shape, op.at + 1, op.at + Len(op.from))
    IN  CASE op.is = "reshape" /\ op.at + Len(op.from) <= Len(t.shape) /\ Range(dims) \subseteq {1} ->
                 ChangeTensor(Reshape(op.at, dims, ones), t)
          [] op.is = "rm" -> Some(Tensor(Without(t.shape, op.at),
                                         [idx \in Indices(Without(t.shape, op.at)) |-> t.data[WithAxis(idx, op.at, 0)]]))
          [] OTHER -> ChangeTensor(op, t)

\* multi_broadcast, of shapes of the same rank.
BroadcastShape(a, b) == [k \in DOMAIN a |-> Most(a[k], b[k])]
CanBroadcast(a, b)   == Len(a) = Len(b) /\ \A k \in DOMAIN a : a[k] = b[k] \/ 1 \in {a[k], b[k]}
Stretched(shape, idx) == [k \in DOMAIN shape |-> IF shape[k] = 1 THEN 0 ELSE idx[k]]

\* The operators on two tensors are not told apart, but the sums that stand for a
\* matrix product: each is the set of what it adds.
Value2(fn, a, b) == IF fn = "add" THEN <<"sum", a[2] \cup b[2]>> ELSE <<"b", a, b>>

Apply2(fn, a, b) ==
    IF ~ CanBroadcast(a.shape, b.shape) THEN None
    ELSE Some(Tensor(BroadcastShape(a.shape, b.shape),
                     [idx \in Indices(BroadcastShape(a.shape, b.shape)) |->
                         Value2(fn, a.data[Stretched(a.shape, idx)], b.data[Stretched(b.shape, idx)])]))

\* A shape or an index with d more along an axis.
Further(s, axis, d) == [k \in DOMAIN s |-> s[k] + (IF k = axis + 1 THEN d ELSE 0)]

\* The tensors that a concat joins: its constants, and its inputs in the other slots.
Parts(slices, ts) ==
    [i \in DOMAIN slices |-> IF slices[i] # None THEN slices[i][1]
                             ELSE ts[Cardinality({j \in 1 .. i : slices[j] = None})]]

\* TypedConcat::offsets: where each part starts, and where the last one ends.
Offsets(parts, axis) ==
    FoldLeft(LAMBDA acc, t : Append(acc, Last(acc) + t.shape[axis + 1]), <<0>>, parts)

Concatenated(parts, axis) ==
    LET off   == Offsets(parts, axis)
        shape == Further(parts[1].shape, axis, off[Len(parts) + 1] - off[2])
    IN  IF \E j \in DOMAIN parts : \/ Len(parts[j].shape) # Len(shape)
                                   \/ \E k \in DOMAIN shape \ {axis + 1} : parts[j].shape[k] # shape[k] THEN None
        ELSE Some(Tensor(shape, [idx \in Indices(shape) |->
                 LET j == CHOOSE j \in DOMAIN parts : off[j] <= idx[axis + 1] /\ idx[axis + 1] < off[j + 1]
                 IN  parts[j].data[Further(idx, axis, -off[j])]]))

Sliced(t, axis, start, end) ==
    LET shape == Further(t.shape, axis, end - start - t.shape[axis + 1])
    IN  Tensor(shape, [idx \in Indices(shape) |-> t.data[Further(idx, axis, start)]])

\* Every so many items from the modulo-th on; backwards, from the last.
Downsampled(t, op) ==
    LET len   == t.shape[op.axis + 1]
        step  == Most(op.stride, -op.stride)
        shape == Further(t.shape, op.axis, (len - op.modulo + step - 1) \div step - len)
        At(k) == IF op.stride > 0 THEN op.modulo + k * step ELSE len - 1 - k * step
    IN  Tensor(shape, [idx \in Indices(shape) |->
                          t.data[Further(idx, op.axis, At(idx[op.axis + 1]) - idx[op.axis + 1])]])

\* A reduced axis is left with a length of one.
Reduced(t, axes) ==
    LET shape == [k \in DOMAIN t.shape |-> IF k - 1 \in axes THEN 1 ELSE t.shape[k]]
    IN  Tensor(shape, [idx \in Indices(shape) |->
                          <<"sum", {t.data[i] : i \in {i \in Indices(t.shape) : Stretched(shape, i) = idx}}>>])

\* compute_shape and eval of a matrix product: a is m by k, b k by n, c m by n, unless
\* they are transposed; the axes before are broadcast.
Multiplied(op, a, b) ==
    LET r     == Len(a.shape)
        Prefix(s) == SubSeq(s, 1, r - 2)
        Rows(t, trans) == t.shape[IF trans THEN r ELSE r - 1]
        Cols(t, trans) == t.shape[IF trans THEN r - 1 ELSE r]
        Pair(trans, i, j) == IF trans THEN <<j, i>> ELSE <<i, j>>
        shape == BroadcastShape(Prefix(a.shape), Prefix(b.shape)) \o Pair(op.ct, Rows(a, op.at), Cols(b, op.bt))
        At(t, trans, idx, i, j) == t.data[Stretched(Prefix(t.shape), Prefix(idx)) \o Pair(trans, i, j)]
    IN  IF \/ Len(b.shape) # r \/ Cols(a, op.at) # Rows(b, op.bt)
           \/ ~ CanBroadcast(Prefix(a.shape), Prefix(b.shape)) THEN None
        ELSE Some(Tensor(shape, [idx \in Indices(shape) |->
                 LET row == idx[IF op.ct THEN r ELSE r - 1]
                     col == idx[IF op.ct THEN r - 1 ELSE r]
                 IN  <<"sum", {{At(a, op.at, idx, row, k), At(b, op.bt, idx, k, col)} :
                                  k \in 0 .. Cols(a, op.at) - 1}>>]))

\* output_facts and eval: what the operator makes of tensors, None when its output
\* has no fact.
Output(op, ts) ==
    CASE op.is \in {"source", "const"}    -> Some(op.tensor)
      [] op.is \in {"identity", "opaque"} -> Some(ts[1])
      [] op.is = "element" -> Some(Tensor(ts[1].shape, [idx \in DOMAIN ts[1].data |-> <<"f", ts[1].data[idx]>>]))
      [] op.is = "binary"  -> Apply2(op.fn, ts[1], ts[2])
      [] op.is = "unary"   -> IF op.flip THEN Apply2(op.fn, ts[1], op.a) ELSE Apply2(op.fn, op.a, ts[1])
      [] op.is = "concat"  -> Concatenated(Parts(op.slices, ts), op.axis)
      [] op.is = "slice"   -> Some(Sliced(ts[1], op.axis, op.start, op.end))
      [] op.is = "down"    -> Some(Downsampled(ts[1], op))
      [] op.is = "reduce"  -> Some(Reduced(ts[1], op.axes))
      [] op.is = "matmul"  -> Multiplied(op, ts[1], ts[2])
      [] op.is = "matmul_unary" -> Multiplied(op, op.a, ts[1])
      [] IsAxisOp(op)      -> ChangeTensor(op, ts[1])

-----------------------------------------------------------------------------
(* TypedOp::change_axes.  A consequence is the operator to put instead, if *)
(* any, and the changes of the wires of the node; an io is 0 for the       *)
(* output and i for the i-th input.                                        *)

Consequence(op, wires) == Some([op |-> op, wires |-> wires])
Wire(io, c)            == [io |-> io, op |-> c]

\* AxisChangeConsequence::new: the change goes on through all the wires.
Everywhere(arity, op, c) ==
    Consequence(op, [i \in 1 .. arity |-> Wire(i, c)] \o <<Wire(0, c)>>)

\* AxisOp::change_axes, for a change of the input.
AxisOpEntered(op, c) ==
    LET merged == MergeIncomingChange(op, c)
    IN  IF SameOp(c, op) THEN Consequence(Some(Identity), <<>>)
        ELSE IF merged = None THEN None
        ELSE Consequence(Some(merged[1].op),
                         (IF IsNoop(c) THEN <<>> ELSE <<Wire(1, c)>>) \o <<Wire(0, merged[1].change)>>)

\* A mutant: what replaces the reciprocal replaces the operator.
AxisOpBackedAsIs(op, c) ==
    LET more == AxisOpEntered(Recip(op), c)
    IN  IF more = None THEN None
        ELSE Consequence(more[1].op,
                         [i \in DOMAIN more[1].wires |->
                             Wire(IF more[1].wires[i].io = 1 THEN 0 ELSE 1, more[1].wires[i].op)])

\* For a change of the output: that of the reciprocal, the other way round.
AxisOpBacked(op, c) ==
    LET more == AxisOpEntered(Recip(op), c)
    IN  IF more = None THEN None
        ELSE Consequence(IF more[1].op # None /\ IsAxisOp(more[1].op[1]) THEN Some(Recip(more[1].op[1])) ELSE more[1].op,
                         [i \in DOMAIN more[1].wires |->
                             Wire(IF more[1].wires[i].io = 1 THEN 0 ELSE 1, more[1].wires[i].op)])

\* A mutant: the axis of the operator stays where it was.
WithItsAxis(op, ts, c) == Everywhere(Len(ts), None, c)

\* The axis of the operator, unless the change cuts or removes it, and its constants.
WithMovedAxis(op, ts, c) ==
    LET axis == TransformAxis(c, op.axis)
        Changed(slices) == [i \in DOMAIN slices |->
                               IF slices[i] = None THEN None ELSE ChangeTensor(c, slices[i][1])]
    IN  CASE axis = None -> None
          [] axis # None /\ op.is = "slice" -> Everywhere(1, Some([op EXCEPT !.axis = axis[1]]), c)
          [] axis # None /\ op.is = "concat" ->
                 IF \E i \in DOMAIN op.slices : op.slices[i] # None /\ Changed(op.slices)[i] = None THEN None
                 ELSE Everywhere(Len(ts), Some([op EXCEPT !.axis = axis[1], !.slices = Changed(@)]), c)

\* MatMulUnary::change_axes: the two last axes of the input and of the output may be
\* exchanged, others added or removed before them, and one added at the end of a row.
MatMulChanged(op, b, c) ==
    LET rank == Len(b.shape)
        Flipped(o) == [o EXCEPT !.bt = ~ @, !.ct = ~ @]
    IN  CASE c = Move(rank - 2, rank - 1) -> Everywhere(1, Some(Flipped(op)), c)
          [] c.is = "add" /\ c.at < rank - 1 ->
                 Everywhere(1, Some([op EXCEPT !.a = ChangeTensor(Add(c.at), @)[1]]), c)
          [] c = Add(rank) /\ b.shape[rank - 1] = 1 ->
                 Everywhere(1, Some(Flipped([op EXCEPT !.a = ChangeTensor(Add(c.at - 2), @)[1]])), c)
          [] c.is = "rm" /\ rank - c.at > 2 ->
                 Everywhere(1, Some([op EXCEPT !.a = BroadcastChange(Rm(c.at), @)[1]]), c)
          [] OTHER -> None

\* What each operator makes of a change; a source is never asked, its wire is locked.
ChangeOp(op, ts, io, c) ==
    CASE op.is \in {"identity", "opaque", "const", "down", "matmul"} -> None
      [] op.is \in {"element", "binary"}  -> Everywhere(Len(ts), None, c)
      [] op.is = "unary"  ->
             IF BroadcastChange(c, op.a) = None THEN None
             ELSE Everywhere(1, Some([op EXCEPT !.a = BroadcastChange(c, @)[1]]), c)
      [] op.is \in {"slice", "concat"} -> WithMovedAxis(op, ts, c)
      [] op.is = "reduce" ->
             IF \E axis \in op.axes : TransformAxis(c, axis) = None THEN None
             ELSE Everywhere(1, Some([op EXCEPT !.axes = {TransformAxis(c, axis)[1] : axis \in @}]), c)
      [] op.is = "matmul_unary" -> MatMulChanged(op, ts[1], c)
      [] IsAxisOp(op) -> IF io = 0 THEN AxisOpBacked(op, c) ELSE AxisOpEntered(op, c)

-----------------------------------------------------------------------------
\* TypedOp::invariants and unary_track_axis_up: the axis of the inputs that an axis of
\* the output follows, item for item.
TrackAxisUp(op, ts, axis) ==
    LET rank   == Len(ts[1].shape)
        tracks ==
            CASE op.is \in {"element", "binary"} -> TRUE
              [] op.is = "unary"  -> op.a.shape[axis + 1] = 1
              [] op.is = "concat" -> axis # op.axis /\ Range(op.slices) = {None}
              [] op.is = "reduce" -> axis \notin op.axes
              [] op.is = "matmul_unary" -> \/ axis < rank - 2 /\ op.a.shape[axis + 1] = 1
                                           \/ op.bt /\ op.ct /\ axis = rank - 2
                                           \/ ~ op.bt /\ ~ op.ct /\ axis = rank - 1
              [] OTHER -> FALSE
    IN  IF tracks THEN Some(axis) ELSE None
=============================================================================
