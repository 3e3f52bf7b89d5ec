----------------------------- MODULE Declutters -----------------------------
(***************************************************************************)
(* What TypedOp::declutter does of a node for each operator, and the two   *)
(* passes that go over a whole model: PropConst and PushSplitDown.  A      *)
(* model g is its nodes [op, inputs, name], in evaluation order, and the   *)
(* tensors that each gives.  A name is a sequence of numbers, that of a    *)
(* node made from another is longer.                                       *)
(***************************************************************************)
EXTENDS TypedOps

(* A patch: the nodes it adds, which come after those of the model, how many taps  *)
(* it has, the node that was wired last, which nodes give way to which, and what   *)
(* not to apply twice, if anything.                                                *)
NoPatch == [extra |-> <<>>, taps |-> 0, out |-> 0, shunts |-> {}, watchdog |-> None]

Tap(p, n) == [p EXCEPT !.taps = @ + 1, !.out = n]

WireIn(g, p, name, op, inputs) ==
    [p EXCEPT !.extra = Append(@, [op |-> op, inputs |-> inputs, name |-> name]),
              !.out   = Len(g.nodes) + Len(p.extra) + 1]

Shunt(p, n, by) == [p EXCEPT !.shunts = @ \cup {<<n, by>>}]

Ascending(S) == SetToSortSeq(S, <)

Readers(ns, n) ==
    FlattenSeq([m \in DOMAIN ns |->
        LET slots == Ascending({i \in DOMAIN ns[m].inputs : ns[m].inputs[i] = n})
        IN  [i \in DOMAIN slots |-> [node |-> m, io |-> slots[i]]]])

Tensors(g, n) == [i \in DOMAIN g.nodes[n].inputs |-> g.tensors[g.nodes[n].inputs[i]]]

ShuntOne(g, n) == Some(Shunt(Tap(NoPatch, g.nodes[n].inputs[1]), n, g.nodes[n].inputs[1]))

\* replace_single_op, by one that reads some of the inputs.
ReplaceBy(g, n, op, inputs) ==
    LET p == WireIn(g, [NoPatch EXCEPT !.taps = Len(inputs)], g.nodes[n].name, op, inputs)
    IN  Some(Shunt(p, n, p.out))

\* The tensor of a node that is computed from constants only.
RECURSIVE IsKnown(_, _)
IsKnown(g, n) ==
    \/ g.nodes[n].op.is = "const"
    \/ /\ g.nodes[n].op.is # "source"
       /\ \A i \in DOMAIN g.nodes[n].inputs : IsKnown(g, g.nodes[n].inputs[i])

Const(t) == [is |-> "const", tensor |-> t]

-----------------------------------------------------------------------------
(* Slices, that go up as far as they can.                                  *)

Slice(axis, start, end) == [is |-> "slice", axis |-> axis, start |-> start, end |-> end]

\* The first part of a concat that has all of a slice.
PartOf(off, start, end) ==
    LET parts == {i \in 1 .. Len(off) - 1 : start >= off[i] /\ end <= off[i + 1]}
    IN  {i \in parts : \A j \in parts : i <= j}

RECURSIVE SliceOutput(_, _, _, _, _, _)
\* slice_output: the patch with a slice of the output of node n, None when the slice
\* does not go through it.
SliceOutput(g, p, n, axis, start, end) ==
    LET node  == g.nodes[n]
        op    == node.op
        sliced(m, s, e, q) == SliceOutput(g, q, m, axis, s, e)
        parts == Parts(op.slices, Tensors(g, n))
        off   == Offsets(parts, axis)
    IN  CASE op.is = "slice" ->
                 IF axis = op.axis THEN None
                 ELSE LET up == sliced(node.inputs[1], start, end, p)
                      IN  IF up = None THEN None
                          ELSE Some(WireIn(g, up[1], node.name, op, <<up[1].out>>))
          [] op.is = "concat" ->
                 IF axis # op.axis \/ PartOf(off, start, end) = {} THEN None
                 ELSE LET i == CHOOSE i \in PartOf(off, start, end) : TRUE
                      IN  IF op.slices[i] # None
                          THEN Some(WireIn(g, p, node.name \o <<i>>,
                                           Const(Sliced(parts[i], axis, start - off[i], end - off[i])), <<>>))
                          ELSE sliced(node.inputs[Cardinality({j \in 1 .. i : op.slices[j] = None})],
                                      start - off[i], end - off[i], p)
          [] op.is = "binary" ->
                 IF g.tensors[node.inputs[1]].shape # g.tensors[node.inputs[2]].shape THEN None
                 ELSE LET a == sliced(node.inputs[1], start, end, p)
                          b == sliced(node.inputs[2], start, end, a[1])
                      IN  IF a = None \/ b = None THEN None
                          ELSE Some(WireIn(g, b[1], node.name \o <<axis, start, end>>, op, <<a[1].out, b[1].out>>))
          [] op.is = "unary" ->
                 LET up == sliced(node.inputs[1], start, end, p)
                 IN  IF up = None THEN None
                     ELSE Some(WireIn(g, up[1], node.name \o <<start, end>>,
                                      [op EXCEPT !.a = IF @.shape[axis + 1] = 1 THEN @ ELSE Sliced(@, axis, start, end)],
                                      <<up[1].out>>))
          [] OTHER ->
                 IF start = 0 /\ end = g.tensors[n].shape[axis + 1] THEN Some(Tap(p, n))
                 ELSE Some(WireIn(g, Tap(p, n), node.name \o <<0, axis, start, end>>, Slice(axis, start, end), <<n>>))

\* A mutant: slices are exchanged again and again.
NeverWatched(g, n, size) == None

\* When the patch only exchanges two slices, it must not be done both ways.
Watched(g, n, size) ==
    LET prec == g.nodes[g.nodes[n].inputs[1]]
    IN  IF size = 3 /\ prec.op.is = "slice" THEN Some(<<g.nodes[n].name, prec.name>>) ELSE None

\* Slice::declutter: a slice of everything goes, another goes up unless that makes only
\* the same slice again.
DeclutterSlice(g, n) ==
    LET node == g.nodes[n]
        prec == node.inputs[1]
        all  == node.op.start = 0 /\ node.op.end = g.tensors[prec].shape[node.op.axis + 1]
        up   == SliceOutput(g, NoPatch, prec, node.op.axis, node.op.start, node.op.end)
        size == up[1].taps + Len(up[1].extra)
    IN  CASE all -> ShuntOne(g, n)
          [] ~ all /\ up = None -> None
          [] ~ all /\ up # None ->
                 IF size = 2 /\ Len(up[1].extra) = 1 /\ up[1].extra[1].op = node.op THEN None
                 ELSE Some([Shunt(up[1], n, up[1].out) EXCEPT !.watchdog = Watched(g, n, size)])

-----------------------------------------------------------------------------
(* Downsamplings, that go up as well.                                      *)

Down(axis, stride, modulo) == [is |-> "down", axis |-> axis, stride |-> stride, modulo |-> modulo]

\* pull_downsample_over_slice.
PulledOverSlice(g, n, prec) ==
    LET op    == g.nodes[n].op
        slice == g.nodes[prec].op
        left  == (op.modulo + slice.start) \div op.stride
        down  == WireIn(g, Tap(NoPatch, g.nodes[prec].inputs[1]), g.nodes[n].name,
                        Down(op.axis, op.stride, (op.modulo + slice.start) % op.stride), g.nodes[prec].inputs)
        up    == WireIn(g, down, g.nodes[prec].name,
                        Slice(op.axis, left, g.tensors[n].shape[op.axis + 1] + left), <<down.out>>)
    IN  IF op.axis # slice.axis \/ op.stride < 0 THEN None ELSE Some(Shunt(up, n, up.out))

\* The axis, before an operator on axes, that gives the axis of the downsampling.
AxisBefore(g, n, prec) == TransformAxis(Recip(g.nodes[prec].op), g.nodes[n].op.axis)

\* pull_downsample_over_axis_op.
PulledOverAxisOp(g, n, prec) ==
    LET op   == [g.nodes[n].op EXCEPT !.axis = AxisBefore(g, n, prec)[1]]
        down == WireIn(g, Tap(NoPatch, g.nodes[prec].inputs[1]), g.nodes[n].name, op, g.nodes[prec].inputs)
        up   == WireIn(g, down, g.nodes[prec].name, g.nodes[prec].op, <<down.out>>)
    IN  Some(Shunt(up, n, up.out))

\* Over an operator that leaves the axis as it is, on each of its inputs.
PulledOver(g, n, prec, axis) ==
    LET name  == g.nodes[prec].name
        downs == FoldLeft(LAMBDA p, i : WireIn(g, Tap(p, g.nodes[prec].inputs[i]), name \o <<i>>,
                                               [g.nodes[n].op EXCEPT !.axis = axis], <<g.nodes[prec].inputs[i]>>),
                          NoPatch, [i \in DOMAIN g.nodes[prec].inputs |-> i])
        up    == WireIn(g, downs, name, g.nodes[prec].op, [i \in DOMAIN g.nodes[prec].inputs |-> Len(g.nodes) + i])
    IN  Some(Shunt(up, n, up.out))

\* Downsample::declutter and pull_downsample_up, over the node before when nothing else
\* reads it; a convolution or a scan before is left out.
DeclutterDown(g, n) ==
    LET op   == g.nodes[n].op
        prec == g.nodes[n].inputs[1]
        axis == TrackAxisUp(g.nodes[prec].op, Tensors(g, prec), op.axis)
    IN  CASE op.stride = 1 -> ShuntOne(g, n)
          [] op.stride # 1 /\ Len(Readers(g.nodes, prec)) # 1 -> None
          [] OTHER -> CASE g.nodes[prec].op.is \in {"source", "const"} -> None
                        [] g.nodes[prec].op.is = "slice" -> PulledOverSlice(g, n, prec)
                        [] IsAxisOp(g.nodes[prec].op)    -> PulledOverAxisOp(g, n, prec)
                        [] OTHER -> IF axis = None THEN None ELSE PulledOver(g, n, prec, axis[1])

-----------------------------------------------------------------------------
(* Constants.                                                              *)

\* The first of the inputs that is known, 0 if none is.
FirstKnown(g, n) ==
    LET known == {i \in DOMAIN g.nodes[n].inputs : IsKnown(g, g.nodes[n].inputs[i])}
    IN  IF known = {} THEN 0 ELSE CHOOSE i \in known : \A j \in known : i <= j

\* TypedConcat::declutter: a known input becomes a constant of the operator.
DeclutterConcat(g, n) ==
    LET op   == g.nodes[n].op
        i    == FirstKnown(g, n)
        slot == CHOOSE s \in DOMAIN op.slices :
                    op.slices[s] = None /\ Cardinality({r \in 1 .. s : op.slices[r] = None}) = i
    IN  IF i = 0 THEN None
        ELSE ReplaceBy(g, n, [op EXCEPT !.slices = [s \in DOMAIN @ |-> IF s = slot THEN Some(Tensors(g, n)[i]) ELSE @[s]]],
                       RemoveAt(g.nodes[n].inputs, i))

\* declutter_bin_to_unary.
DeclutterBinary(g, n) ==
    LET i == FirstKnown(g, n)
    IN  IF i = 0 THEN None
        ELSE ReplaceBy(g, n, [is |-> "unary", fn |-> g.nodes[n].op.fn, a |-> Tensors(g, n)[i], flip |-> i = 2],
                       RemoveAt(g.nodes[n].inputs, i))

MatMulUnary(a, at, bt, ct) == [is |-> "matmul_unary", a |-> a, at |-> at, bt |-> bt, ct |-> ct]

\* MatMul::declutter: a known operand comes first, and everything is transposed when it
\* was the second.
DeclutterMatMul(g, n) ==
    LET op == g.nodes[n].op
        i  == FirstKnown(g, n)
        a  == Tensors(g, n)[i]
    IN  CASE i = 0 -> None
          [] i = 1 -> ReplaceBy(g, n, MatMulUnary(a, op.at, op.bt, op.ct), <<g.nodes[n].inputs[2]>>)
          [] i = 2 -> ReplaceBy(g, n, MatMulUnary(a, ~ op.bt, ~ op.at, ~ op.ct), <<g.nodes[n].inputs[1]>>)

-----------------------------------------------------------------------------
(* Matrix products that are split.                                         *)

Place(order, n) == CHOOSE k \in DOMAIN order : order[k] = n

\* Leading axes of one are removed, the rows among them.
Stripped(t) ==
    LET ones == {k \in 0 .. Len(t.shape) : \A j \in 1 .. k : t.shape[j] = 1}
        k    == CHOOSE k \in ones : \A j \in ones : j <= k
        shape == SubSeq(t.shape, k + 1, Len(t.shape))
    IN  Tensor(shape, [idx \in Indices(shape) |-> t.data[[j \in 1 .. k |-> 0] \o idx]])

\* declutter_precusor_is_concat: a product by what is joined along k is the sum of the
\* products by each part.
SplitK(g, n) ==
    LET node   == g.nodes[n]
        op     == node.op
        concat == g.nodes[node.inputs[1]]
        slices == concat.op.slices
        off    == Offsets(Parts(slices, Tensors(g, node.inputs[1])), concat.op.axis)
        axis   == Len(op.a.shape) - 1 - If(op.at)
        parts  == DOMAIN slices
        consts == Ascending({i \in parts : slices[i] # None})
        base   == Len(g.nodes) + Len(consts)
        input(i) == IF slices[i] = None THEN concat.inputs[Cardinality({j \in 1 .. i : slices[j] = None})]
                    ELSE Len(g.nodes) + Place(consts, i)
        a(i)   == Stripped(Sliced(op.a, axis, off[i], off[i + 1]))
    IN  IF concat.op.is # "concat" THEN None
        ELSE IF ~ (concat.op.axis = Len(g.tensors[node.inputs[1]].shape) - 1 /\ op.bt) THEN None
        ELSE Some([NoPatch EXCEPT
                !.extra = [j \in DOMAIN consts |->
                              [op |-> Const(slices[consts[j]][1]), inputs |-> <<>>, name |-> node.name \o <<consts[j]>>]]
                          \o [i \in parts |->
                              [op |-> [op EXCEPT !.a = a(i)], inputs |-> <<input(i)>>,
                               name |-> node.name \o <<off[i], off[i + 1]>>]]
                          \o [i \in 1 .. Len(slices) - 1 |->
                              [op |-> [is |-> "binary", fn |-> "add"],
                               inputs |-> <<IF i = 1 THEN base + 1 ELSE base + Len(slices) + i - 1, base + i + 1>>,
                               name |-> node.name \o <<0, 0, i>>]],
                !.shunts = {<<n, base + 2 * Len(slices) - 1>>}])

\* The slices of the rows that a product makes.
RowSlices(g, n) ==
    LET axis == Len(g.tensors[n].shape) - 2 + If(g.nodes[n].op.ct)
    IN  {r.node : r \in {r \in Range(Readers(g.nodes, n)) :
                            g.nodes[r.node].op.is = "slice" /\ g.nodes[r.node].op.axis = axis}}

\* The product cut in rows, at the end of each part, and what each slice joins again: the
\* parts that it is made of, all of them for what reads the product itself.
CutInRows(g, n, slices, cuts) ==
    LET node == g.nodes[n]
        op   == node.op
        axis == Len(g.tensors[n].shape) - 2 + If(op.ct)
        from(i) == IF i = 1 THEN 0 ELSE cuts[i - 1]
        a(i)    == Sliced(op.a, Len(op.a.shape) - 2 + If(op.at), from(i), cuts[i])
        over(m) == IF m = n THEN DOMAIN cuts
                   ELSE {i \in DOMAIN cuts : cuts[i] > g.nodes[m].op.start /\ cuts[i] <= g.nodes[m].op.end}
        joins   == <<n>> \o Ascending({m \in slices : Cardinality(over(m)) > 1})
        part(i) == [op |-> [op EXCEPT !.a = a(i)], inputs |-> node.inputs, name |-> node.name \o <<from(i), cuts[i]>>]
        join(m) == [op     |-> [is |-> "concat", axis |-> axis, slices |-> [i \in 1 .. Cardinality(over(m)) |-> None]],
                    inputs |-> Ascending({Len(g.nodes) + i : i \in over(m)}),
                    name   |-> node.name \o <<m>>]
    IN  [NoPatch EXCEPT
            !.extra  = [i \in DOMAIN cuts |-> part(i)] \o [j \in DOMAIN joins |-> join(joins[j])],
            !.shunts = {<<joins[j], Len(g.nodes) + Len(cuts) + j>> : j \in DOMAIN joins}
                       \cup UNION {{<<m, Len(g.nodes) + i>> : i \in over(m)} : m \in slices \ Range(joins)}]

\* declutter_successors_are_slices: the cuts are where a slice of the rows starts or ends.
SplitM(g, n) ==
    LET slices == RowSlices(g, n)
        all    == g.tensors[n].shape[Len(g.tensors[n].shape) - 1 + If(g.nodes[n].op.ct)]
        bounds == {all} \cup UNION {{g.nodes[m].op.start, g.nodes[m].op.end} : m \in slices}
    IN  IF slices = {} THEN None ELSE Some(CutInRows(g, n, slices, Ascending(bounds \ {0})))

-----------------------------------------------------------------------------
\* TypedOp::declutter, None when there is nothing to do.
Decluttered(g, n) ==
    LET op == g.nodes[n].op
    IN  CASE op.is = "identity" \/ (IsAxisOp(op) /\ IsNoop(op)) -> ShuntOne(g, n)
          [] op.is = "slice"  -> DeclutterSlice(g, n)
          [] op.is = "down"   -> DeclutterDown(g, n)
          [] op.is = "concat" -> DeclutterConcat(g, n)
          [] op.is = "binary" -> DeclutterBinary(g, n)
          [] op.is = "matmul" -> DeclutterMatMul(g, n)
          [] op.is = "matmul_unary" -> IF SplitK(g, n) # None THEN SplitK(g, n) ELSE SplitM(g, n)
          [] OTHER -> None

\* A declutter that gives an error, or panics: a downsampling on an axis that the
\* operator before makes, a slice of no row of a product.
Breaks(g, n) ==
    LET op   == g.nodes[n].op
        prec == g.nodes[n].inputs[1]
    IN  \/ /\ op.is = "down" /\ op.stride # 1 /\ Len(Readers(g.nodes, prec)) = 1
           /\ IsAxisOp(g.nodes[prec].op) /\ AxisBefore(g, n, prec) = None
        \/ /\ op.is = "matmul_unary" /\ SplitK(g, n) = None
           /\ \E m \in RowSlices(g, n) : g.nodes[m].op.start = g.nodes[m].op.end

\* PropConst::next: the first node that reads known tensors only is evaluated.
PropConst(g) ==
    LET known == {n \in DOMAIN g.nodes : g.nodes[n].op.is # "const" /\ IsKnown(g, n)}
    IN  IF known = {} THEN None
        ELSE LET n == CHOOSE n \in known : \A m \in known : n <= m
             IN  ReplaceBy(g, n, Const(g.tensors[n]), <<>>)

\* PushSplitDown::next: of the same slices, or downsamplings, of a tensor one is left.
PushSplitDown(g) ==
    LET Same(m) == {k \in 1 .. m - 1 : g.nodes[k].op = g.nodes[m].op /\ g.nodes[k].inputs = g.nodes[m].inputs}
        twins   == {m \in DOMAIN g.nodes : g.nodes[m].op.is \in {"slice", "down"} /\ Same(m) # {}}
    IN  IF twins = {} THEN None
        ELSE Some([NoPatch EXCEPT !.shunts = {<<m, CHOOSE k \in Same(m) : \A j \in Same(m) : k <= j>> : m \in twins}])

\* ModelPatch::apply: the nodes of the model and of the patch, in which what read a node
\* that gives way reads what it gives way to.
Applied(g, p) ==
    LET By(n) == IF \E s \in p.shunts : s[1] = n THEN (CHOOSE s \in p.shunts : s[1] = n)[2] ELSE n
    IN  [nodes   |-> [n \in DOMAIN g.nodes |-> [g.nodes[n] EXCEPT !.inputs = [i \in DOMAIN @ |-> By(@[i])]]] \o p.extra,
         outputs |-> [i \in DOMAIN g.outputs |-> By(g.outputs[i])]]

RECURSIVE Visit(_, _, _)
Visit(ns, order, n) ==
    IF n \in Range(order) THEN order
    ELSE Append(FoldLeft(LAMBDA acc, m : Visit(ns, acc, m), order, ns[n].inputs), n)

\* eval_order: what the outputs need, each node after its inputs.
EvalOrder(h) == FoldLeft(LAMBDA acc, m : Visit(h.nodes, acc, m), <<>>, h.outputs)

\* compact, but for the sources that nothing reads.
Compacted(h, order) ==
    [nodes   |-> [k \in DOMAIN order |->
                     [h.nodes[order[k]] EXCEPT !.inputs = [i \in DOMAIN @ |-> Place(order, @[i])]]],
     outputs |-> [i \in DOMAIN h.outputs |-> Place(order, h.outputs[i])]]
=============================================================================
