------------------------------ MODULE Convolution ------------------------------
(***************************************************************************)
(* A model of convolutions, poolings and deconvolutions, from its          *)
(* optimization to its runs (core/src/ops/cnn, core/src/ops/matmul,        *)
(* core/src/ops/binary, with the passes of core/src/optim).  A convolution *)
(* becomes a matrix product in one of five ways, what follows is fused in  *)
(* the product, and a run computes the nodes in order.  A model is a       *)
(* sequence of nodes in an order of evaluation; an outlet is the identity  *)
(* of its node, and a node a patch adds has its name after the one it is   *)
(* for.                                                                    *)
(***************************************************************************)
EXTENDS ConvOps

CONSTANTS Problems, \* models to optimize and to run
          Samples,  \* the items inputs are made of
          Huge,     \* the size from which a product is not worth an im2col: 1048576
          MaxTurns  \* how many times a plan is run

ASSUME HugeAssumption == Huge \in Nat

VARIABLES problem, \* the problem
          model,   \* its nodes, the facts of their outlets, and the outlet that is its output
          pass,    \* the pass of the optimizer, "ready" once they are over
          applied, \* whether a pass changed the model since the first of its loop
          symbols, \* the values of the symbols in this turn
          turn,    \* how many turns were started
          values,  \* the outputs of the nodes computed in this turn
          scratch, \* the scratch space of the session
          results  \* the outputs of the turns that are over

vars == <<problem, model, pass, applied, symbols, turn, values, scratch, results>>

Node(id, op, ins)  == [id |-> id, op |-> op, ins |-> ins]
IndexOf(nodes, id) == CHOOSE i \in DOMAIN nodes : nodes[i].id = id
OpAt(m, id)        == m.nodes[IndexOf(m.nodes, id)].op

-----------------------------------------------------------------------------
(* Operators.                                                              *)

Source(dims)  == [is |-> "source", dims |-> dims]
Const(t)      == [is |-> "const", t |-> t]
Conv(pool, kfmt, kernel, group, bias, q) ==
    [is |-> "conv", pool |-> pool, kfmt |-> kfmt, kernel |-> kernel, group |-> group, bias |-> bias, q |-> q]
Deconv(pool, kfmt, kernel, group, bias, adjustments) ==
    [is |-> "deconv", pool |-> pool, kfmt |-> kfmt, kernel |-> kernel, group |-> group, bias |-> bias,
     adjustments |-> adjustments]
MaxPool(pool, indices) == [is |-> "max_pool", pool |-> pool, indices |-> indices]
SumPool(pool, countPad, normalize) ==
    [is |-> "sum_pool", pool |-> pool, countPad |-> countPad, normalize |-> normalize]
Downsample(axis, stride) == [is |-> "downsample", axis |-> axis, stride |-> stride]
Axis(change)      == [is |-> "axis", change |-> change]
Unary(fn, a)      == [is |-> "unary", fn |-> fn, a |-> a]
Binary(fn)        == [is |-> "binary", fn |-> fn]
MergeUnicast(fn)  == [is |-> "unicast", fn |-> fn]
MatMul(a, aTrans, bTrans, cTrans) ==
    [is |-> "matmul", a |-> a, aTrans |-> aTrans, bTrans |-> bTrans, cTrans |-> cTrans]
MatMatMulPack(packer, trans, shape) == [is |-> "pack", packer |-> packer, trans |-> trans, shape |-> shape]

\* How a quantized convolution is given a parameter: AttrOrInput.
Attr(t)     == [is |-> "attr", t |-> t, slot |-> 0]
Input(slot) == [is |-> "input", t |-> <<>>, slot |-> slot]

-----------------------------------------------------------------------------
(* Facts: the shape of an outlet, of dimensions.                           *)

\* change_shape: no shape when the axes to cut are not those of the input.
AxisOpFact(change, dims) ==
    LET c  == Canonical(change)
        at == c.at
    IN  IF c.is = "move" THEN MoveAxis(dims, c.from, c.to)
        ELSE IF SubSeq(dims, at + 1, at + Len(c.from)) # c.from THEN <<>>
        ELSE SubSeq(dims, 1, at) \o c.to \o SubSeq(dims, at + Len(c.from) + 1, Len(dims))

MatMulFact(op, dims) ==
    ComputeShape(Vals(op.a.shape), dims, op.aTrans, op.bTrans, op.cTrans, Val(1)).shape

Im2ColFact(op, dims) ==
    LET out == TimesAll(HwDims(op.pool.fmt, PoolOutput(op.pool, dims)))
    IN  (IF HasN(op.pool.fmt) THEN <<dims[1]>> ELSE <<>>) \o (IF op.group # 1 THEN <<Val(op.group)>> ELSE <<>>)
        \o <<PackedDim(op.packer, out)>>

FactOf(op, ins) ==
    CASE op.is = "source" -> op.dims
      [] op.is = "const"  -> Vals(op.t.shape)
      [] op.is \in {"conv", "max_pool", "sum_pool", "depth_wise"} -> PoolOutput(op.pool, ins[1])
      [] op.is = "deconv" -> DeconvOutput(op.pool, ins[1], op.adjustments)
      [] op.is = "deconv_sum" -> DeconvOutput(op.pool, op.dims, op.adjustments)
      [] op.is = "downsample" -> [ins[1] EXCEPT ![op.axis + 1] = DivCeil(@, op.stride)]
      [] op.is = "axis"   -> AxisOpFact(op.change, ins[1])
      [] op.is = "unary"  -> BroadcastTo(Vals(op.a.shape), ins[1], Val(1))
      [] op.is = "binary" -> BroadcastTo(ins[1], ins[2], Val(1))
      [] op.is = "matmul" -> MatMulFact(op, ins[1])
      [] op.is = "im2col" -> Im2ColFact(op, ins[1])
      [] op.is = "pack"   -> Vals(op.shape)
      [] op.is = "lir"    -> op.finalShape
      [] op.is = "q_sum_b" -> [ins[1] EXCEPT ![Len(ins[1])] = op.n]
      [] op.is \in {"unicast", "compensate", "requant"} -> ins[1]

\* The facts of nodes are told when they are added, from those of their inputs.
WithFacts(facts, nodes) ==
    FoldLeft(LAMBDA known, node :
                 (node.id :> FactOf(node.op, [k \in DOMAIN node.ins |-> known[node.ins[k]]])) @@ known,
             facts, nodes)

-----------------------------------------------------------------------------
(* Convolutions as matrix products: A is the kernel, B what it sees of the *)
(* input, a column for each position of the output.                        *)

HwRankOf(op)       == Len(op.kernel.shape) - 2
InputChannels(op)  == IF op.kfmt = "OIHW" THEN op.kernel.shape[2] * op.group ELSE op.kernel.shape[HwRankOf(op) + 1]
OutputChannels(op) == IF op.kfmt = "OIHW" THEN op.kernel.shape[1] ELSE op.kernel.shape[HwRankOf(op) + 2] * op.group
SpatialShape(op)   == IF op.kfmt = "OIHW" THEN SubSeq(op.kernel.shape, 3, Len(op.kernel.shape))
                      ELSE SubSeq(op.kernel.shape, 1, HwRankOf(op))

\* The axes of a tensor, in another order.
Permuted(t, axes) ==
    FromIndex([k \in DOMAIN axes |-> t.shape[axes[k] + 1]],
              LAMBDA idx : ItemAt(t, [a \in DOMAIN axes |-> idx[CHOOSE k \in DOMAIN axes : axes[k] = a - 1]]))
UpTo(n) == [x \in 1 .. n |-> x - 1]

\* The kernel as groups, output channels of a group, and all the rest.
KernelAsGroupOIHW(op) ==
    LET k     == op.kernel
        r     == HwRankOf(op)
        co    == OutputChannels(op)
        hwigo == T(SubSeq(k.shape, 1, r) \o <<InputChannels(op) \div op.group, op.group, k.shape[r + 2]>>, k.data)
    IN  T(<<op.group, co \div op.group, Len(k.data) \div co>>,
          IF op.kfmt = "OIHW" THEN k.data ELSE Permuted(hwigo, <<r + 1, r + 2, r>> \o UpTo(r)).data)

\* The sizes of the product, and the kernel that computes it.
ProductSizes(op, n) ==
    LET co == OutputChannels(op)
    IN  [m |-> co \div op.group, k |-> Len(op.kernel.data) \div co, n |-> n,
         ker |-> Mmm(IF Known(n) THEN Some(n.n) ELSE None)]
Positions(op, output) == TimesAll(HwDims(op.pool.fmt, output))

FusedSpec(op, v)     == [op |-> op, v |-> v, input |-> None]
FusedInput(op, slot) == [op |-> op, v |-> <<>>, input |-> Some(slot)]

\* A packed for each group, and the bias to add: kernel_as_packed_as, bias_as_non_linear.
MicroOps(op, size) ==
    LET a == KernelAsGroupOIHW(op).data
        packed(g)  == Pack(Packer(size.k, size.ker.mr), a, (g - 1) * size.m * size.k, size.m, 1, size.k)
        biased(g)  == IF op.bias = None THEN <<>>
                      ELSE <<FusedSpec("per_row_add", SubSeq(op.bias[1], (g - 1) * size.m + 1, g * size.m))>>
    IN  [shape |-> (IF HasN(op.pool.fmt) THEN <<1>> ELSE <<>>) \o (IF op.group = 1 THEN <<>> ELSE <<op.group>>),
         items |-> [g \in 1 .. op.group |-> [a |-> packed(g), specs |-> biased(g)]]]

\* The shape of the product, with its axes of output channels and of positions.
InGroups(op, shape, c, h) ==
    IF op.group = 1 THEN [shape |-> shape, c |-> c, h |-> h]
    ELSE [shape |-> WithAxis([shape EXCEPT ![c + 1] = Over(@, op.group)], c, Val(op.group)),
          c |-> c + 1, h |-> h + If(h > c)]
MmmOutputShape(op, output, n) ==
    LET fmt   == op.pool.fmt
        shape == FromNCHW(fmt, IF HasN(fmt) THEN output[1] ELSE Val(1), CDim(fmt, output), <<n>>)
    IN  InGroups(op, shape, CAxis(fmt, Len(shape)), HAxis(fmt))

LirMatMulUnary(m, n, micro, ker, geo, shape) ==
    [is |-> "lir", m |-> m, n |-> n, micro |-> micro, ker |-> ker, geo |-> geo, cShape |-> shape,
     finalShape |-> shape, post |-> <<>>]
LirOf(op, size, store, out) ==
    LirMatMulUnary(out.c, out.h, MicroOps(op, size), size.ker,
                   [m |-> size.m, k |-> size.k, n |-> size.n, store |-> store], out.shape)

Im2Col(op, size, dims) ==
    [is |-> "im2col", pool |-> op.pool, group |-> op.group, packer |-> Packer(size.k, size.ker.nr),
     at |-> IF Concrete(dims) THEN Some(Usizes(dims)) ELSE None]

GroupReshape(op, size, out) ==
    IF op.group = 1 THEN <<>>
    ELSE <<Axis(Reshape(out.c - 1, SubSeq(out.shape, out.c, out.c + 1), <<Val(size.m * op.group)>>))>>
GeoReshape(op, output, n) == Axis(Reshape(HAxis(op.pool.fmt), <<n>>, HwDims(op.pool.fmt, output)))

\* Nodes for an outlet, each one the input of the next.
Chain(id, from, ops) ==
    [k \in DOMAIN ops |-> Node(IF k = Len(ops) THEN id ELSE Append(id, k), ops[k],
                               <<IF k = 1 THEN from ELSE Append(id, k - 1)>>)]

Im2ColPair(id, op, from, dims, output, size, out) ==
    LET pad   == Node(Append(id, 0), Const(Scalar(0)), <<>>)
        chain == Chain(id, from, <<Im2Col(op, size, dims), LirOf(op, size, BPacked, out)>>
                                 \o GroupReshape(op, size, out) \o <<GeoReshape(op, output, size.n)>>)
    IN  <<pad, [chain[1] EXCEPT !.ins = Append(@, pad.id)]>> \o Tail(chain)

\* B is read where it is: an offset for each position, and for each item of the kernel.
Direct(id, op, from, output, size, out, geo) ==
    LET stride == CStride(op.pool.fmt, geo.input)
        rows   == FlattenSeq([ici \in 1 .. InputChannels(op) |->
                      [x \in DOMAIN geo.patch.offsets |-> geo.patch.offsets[x] + (ici - 1) * stride]])
    IN  Chain(id, from, <<LirOf(op, size, BOffsets(size.ker, rows, CentersOffsets(geo.patch)), out),
                          GeoReshape(op, output, size.n)>>)

\* The channels are multiplied at each position: codegen of a kernel of one item.
PointWise(id, op, from, dims, n) ==
    LET fmt   == op.pool.fmt
        last  == CIsLast(fmt)
        hw    == HwDims(fmt, dims)
        rank  == Len(dims) + 1 - HwRankOf(op)
        inRank(shape) == [k \in 1 .. rank - 2 |-> 1] \o shape
        a     == T(inRank(IF op.kfmt = "HWIO" THEN LastDims(op.kernel.shape, 2) ELSE SubSeq(op.kernel.shape, 1, 2)),
                   op.kernel.data)
        bias  == IF op.bias = None THEN <<>>
                 ELSE <<Unary("add", T(inRank(IF last THEN <<1, Len(op.bias[1])>> ELSE <<Len(op.bias[1]), 1>>),
                                       op.bias[1]))>>
    IN  Chain(id, from, <<Axis(Reshape(HAxis(fmt), hw, <<n>>)),
                          MatMul(a, op.kfmt = "HWIO", last, last)>>
                        \o bias \o <<Axis(Reshape(HAxis(fmt), <<n>>, hw))>>)

\* The zero points of a quantized convolution are taken into account after the product.
QuantIm2Col(id, op, ins, dims, output, size, out) ==
    LET hasN   == If(HasN(op.pool.fmt))
        hasG   == If(op.group > 1)
        last   == CIsLast(op.pool.fmt)
        kernel == KernelAsGroupOIHW(op)
        sumA   == T((IF HasN(op.pool.fmt) THEN <<1>> ELSE <<>>) \o (IF op.group = 1 THEN <<>> ELSE <<op.group>>)
                        \o <<size.m>>,
                    [i \in 1 .. op.group * size.m |-> SumOf(SubSeq(kernel.data, (i - 1) * size.k + 1, i * size.k))])
        part(k)   == Append(id, 10 + k)
        params    == <<op.q.a0, op.q.b0, op.q.c0>>
        known     == SelectSeq(<<1, 2, 3>>, LAMBDA k : params[k].is = "attr")
        consts    == [i \in DOMAIN known |-> Node(part(known[i]), Const(params[known[i]].t), <<>>)]
        outlet(k) == IF params[k].is = "attr" THEN part(k) ELSE ins[params[k].slot + 1]
        moved  == op.group > 1 /\ last
    IN  consts
        \o <<Node(part(4), Im2Col(op, size, dims), <<ins[1], outlet(2)>>),
             Node(part(5), Const(sumA), <<>>),
             Node(part(6), [is |-> "q_sum_b", r |-> size.ker.nr, k |-> size.k, n |-> size.n], <<part(4)>>)>>
        \o (IF moved THEN <<Node(part(7), Axis(Move(hasN, 1 + hasN)), <<part(6)>>)>> ELSE <<>>)
        \o <<Node(part(8), LirOf(op, size, BPacked, out), <<part(4)>>),
             Node(part(9), [is |-> "compensate", k |-> size.k, m |-> hasG + hasN + If(last),
                            n |-> IF last THEN hasN ELSE 1 + hasN + hasG],
                  <<part(8), outlet(1), outlet(2), part(5), part(IF moved THEN 7 ELSE 6)>>),
             Node(part(10), [is |-> "requant", shift |-> op.q.shift, min |-> op.q.min, max |-> op.q.max],
                  <<part(9), outlet(3)>>)>>
        \o Chain(id, part(10), GroupReshape(op, size, out) \o <<GeoReshape(op, output, size.n)>>)

\* A dilated kernel, or a matrix that would be too big, on an input of these sizes.
ShouldUseDirect(op, sizes) ==
    /\ op.group = 1
    /\ \A ax \in 1 .. HwRankOf(op) : IsValidDim(op.pool.padding, ax)
    /\ \/ \E ax \in 1 .. HwRankOf(op) : op.pool.dilations[ax] > 1 /\ op.pool.kernel[ax] > 2
       \/ ProductOf(op.pool.kernel) * ProductOf(sizes) > Huge

\* ConvUnary::eval, or wire_as_im2col_pair and wire_as_quant_im2col.
AsIm2Col(id, op, ins, dims, output, size, out) ==
    IF op.q = None THEN Im2ColPair(id, op, ins[1], dims, output, size, out)
    ELSE QuantIm2Col(id, [op EXCEPT !.q = @[1]], ins, dims, output, size, out)

\* ConvUnary::codegen.
Ones(s) == \A k \in DOMAIN s : s[k] = 1
ConvCodegen(id, op, ins, dims, output, size, out) ==
    LET depth == op.group # 1 /\ op.group = OutputChannels(op) /\ op.group = InputChannels(op)
    IN  IF op.q = None /\ Ones(SpatialShape(op)) /\ Ones(op.pool.strides) /\ Ones(op.pool.dilations) /\ op.group = 1
        THEN PointWise(id, op, ins[1], dims, Positions(op, dims))
        ELSE IF op.q = None /\ Concrete(dims) /\ ShouldUseDirect(op, Usizes(dims))
        THEN Direct(id, op, ins[1], output, size, out, PoolGeometry(op.pool, Usizes(dims)))
        ELSE IF op.q = None /\ depth /\ Concrete(dims)
        THEN <<Node(id, [is |-> "depth_wise", pool |-> op.pool, kernel |-> KernelAsGroupOIHW(op),
                         bias |-> op.bias], ins)>>
        ELSE AsIm2Col(id, op, ins, dims, output, size, out)

\* Of a convolution whose output is known: how many positions there are, and the product.
OfSize(Nodes(_, _, _, _, _, _, _), id, op, ins, dims, output, size) ==
    Nodes(id, op, ins, dims, output, size, MmmOutputShape(op, output, size.n))
OfOutput(Nodes(_, _, _, _, _, _, _), id, op, ins, dims, output) ==
    OfSize(Nodes, id, op, ins, dims, output, ProductSizes(op, Positions(op, output)))

-----------------------------------------------------------------------------
(* Deconvolutions: the product of the kernel and the input, then summed    *)
(* where the kernel falls.                                                 *)

\* wire_with_deconv_sum.
DeconvWithSum(id, op, from, dims, n) ==
    LET fmt   == op.pool.fmt
        g     == op.group
        k     == op.kernel
        r     == HwRankOf(op)
        hw    == HwDims(fmt, dims)
        hasN  == If(HasN(fmt))
        i     == hasN + If(CIsLast(fmt))
        ci    == CDim(fmt, dims)
        split == <<Axis(Reshape(i, <<ci>>, <<Val(g), Over(ci, g)>>))>>
                 \o (IF CIsLast(fmt) THEN <<Axis(Move(hasN + 1, hasN))>> ELSE <<>>)
        withG == IF op.kfmt = "OIHW" THEN <<g, k.shape[1] \div g>> \o Tail(k.shape)
                 ELSE SubSeq(k.shape, 1, r) \o <<g, k.shape[r + 1] \div g, k.shape[r + 2]>>
        axes  == IF op.kfmt = "OIHW" THEN <<0, 1>> \o [x \in 1 .. r |-> x + 2] \o <<2>>
                 ELSE <<r, r + 2>> \o UpTo(r) \o <<r + 1>>
        gohwi == Permuted(T(withG, k.data), axes)
        shape == (IF HasN(fmt) THEN <<1>> ELSE <<>>) \o (IF g = 1 THEN <<>> ELSE <<g>>)
                 \o <<ProductOf(SubSeq(gohwi.shape, 2, r + 2)), gohwi.shape[r + 3]>>
    IN  Chain(id, from, <<Axis(Reshape(HAxis(fmt), hw, <<n>>))>> \o (IF g = 1 THEN <<>> ELSE split)
                        \o <<MatMul(T(shape, gohwi.data), FALSE, CIsLast(fmt), FALSE),
                             [is |-> "deconv_sum", pool |-> op.pool, dims |-> dims,
                              adjustments |-> op.adjustments, bias |-> op.bias]>>)

-----------------------------------------------------------------------------
(* Matrix products of a known shape are computed packed:                   *)
(* new_mat_mul_unary_finite.                                               *)

MatMulFinite(id, op, from, b) ==
    LET s     == ComputeShape(op.a.shape, b, op.aTrans, op.bTrans, op.cTrans, 1)
        ker   == Mmm(Some(s.n))
        rank  == Len(s.shape)
        pre   == FirstDims(op.a.shape, 2)
        at    == Coordinates(pre)
        micro == [shape |-> pre,
                  items |-> [x \in DOMAIN at |-> [a |-> PackA(Packer(s.k, ker.mr), op.a, at[x], s.m, op.aTrans),
                                                  specs |-> <<>>]]]
        pack  == Packer(s.k, ker.nr)
    IN  Chain(id, from,
              <<MatMatMulPack(pack, op.bTrans, Append(FirstDims(b, 2), PackedLen(pack, s.n))),
                LirMatMulUnary(rank - 2 + If(op.cTrans), rank - 2 + If(~ op.cTrans), micro, ker,
                               [m |-> s.m, k |-> s.k, n |-> Val(s.n), store |-> BPacked], Vals(s.shape))>>)

-----------------------------------------------------------------------------
(* Patches.  A patch replaces a node by others, or by an outlet; it may    *)
(* take with it the node before.                                           *)

Replace(id, nodes)      == [id |-> id, nodes |-> nodes, by |-> id, gone |-> {}]
ShuntOne(node)          == [id |-> node.id, nodes |-> <<>>, by |-> node.ins[1], gone |-> {}]
FuseInto(succ, op, ins, node) == [id |-> succ.id, nodes |-> <<Node(succ.id, op, ins)>>, by |-> succ.id, gone |-> {node.id}]

Patched(m, patch, facts) ==
    LET at == IndexOf(m.nodes, patch.id)
        renamed(id) == IF id = patch.id THEN patch.by ELSE id
        after  == [k \in 1 .. Len(m.nodes) - at |-> [m.nodes[at + k] EXCEPT !.ins = [s \in DOMAIN @ |-> renamed(@[s])]]]
    IN  [nodes |-> SelectSeq(SubSeq(m.nodes, 1, at - 1) \o patch.nodes \o after, LAMBDA n : n.id \notin patch.gone),
         facts |-> facts, out |-> renamed(m.out)]

\* The inlets that read an outlet.
Successors(m, id) == {is \in UNION {{i} \X DOMAIN m.nodes[i].ins : i \in DOMAIN m.nodes} :
                         m.nodes[is[1]].ins[is[2]] = id}

Strided(op, ax) == IsValidDim(op.pool.padding, ax) /\ op.pool.strides[ax] > 1
                   /\ op.pool.dilations[ax] % op.pool.strides[ax] = 0

\* Items that are never read are left out before: declutter_stride_slice_to_downsample.
\* The other inputs of the node are not those of the one that replaces it.
ConvToDownsample(node, op) ==
    LET ax   == Min({x \in 1 .. HwRankOf(op) : Strided(op, x)})
        by   == op.pool.strides[ax]
        down == Node(node.id \o <<0, ax>>, Downsample(ax - 1 + HAxis(op.pool.fmt), by), <<node.ins[1]>>)
        left == [op EXCEPT !.pool.dilations[ax] = IF @ > 1 THEN @ \div by ELSE @, !.pool.strides[ax] = @ \div by]
    IN  Replace(node.id, <<down, Node(node.id, left, <<down.id>>)>>)

\* declutter_as_matmul, and MatMul::declutter as its left hand side is a constant.
IsMatMul(op) ==
    /\ HwRankOf(op) = 1 /\ op.group = 1 /\ op.pool.strides[1] = 1 /\ op.pool.dilations[1] = 1
    /\ Len(op.kernel.data) = InputChannels(op) * OutputChannels(op)
ConvToMatMul(node, op, rank) ==
    LET ci    == InputChannels(op)
        co    == OutputChannels(op)
        last  == CIsLast(op.pool.fmt)
        shape == [k \in 1 .. rank - 2 |-> 1] \o (IF op.kfmt = "HWIO" THEN <<ci, co>> ELSE <<co, ci>>)
        bias  == [k \in 1 .. rank |-> IF k = CAxis(op.pool.fmt, rank) + 1 THEN co ELSE 1]
    IN  Replace(node.id, Chain(node.id, node.ins[1],
            <<MatMul(T(shape, op.kernel.data), op.kfmt = "HWIO", last, last)>>
            \o (IF op.bias = None THEN <<>> ELSE <<Unary("add", T(bias, op.bias[1]))>>)))

\* The inputs of a quantized convolution that are constants become parameters: inline_static.
Params == {"a0", "b0", "c0"}
IsConst(m, id) == OpAt(m, id).is = "const"
ReadBy(q, slot) == {p \in Params : q[p].is = "input" /\ q[p].slot = slot}
InlineStatic(m, node, op) ==
    LET q == op.q[1]
        next(acc, s) ==
            IF ReadBy(q, s) = {} \/ ~ IsConst(m, node.ins[s + 1])
            THEN [acc EXCEPT !.ins = Append(@, node.ins[s + 1])]
            ELSE [acc EXCEPT !.q = [p \in DOMAIN @ |->
                     IF p \in ReadBy(q, s) THEN Attr(OpAt(m, node.ins[s + 1]).t)
                     ELSE IF p \in Params /\ @[p].slot > Len(acc.ins) THEN Input(@[p].slot - 1) ELSE @[p]]]
        all == FoldLeft(next, [q |-> q, ins |-> <<>>], UpTo(Len(node.ins)))
    IN  Replace(node.id, <<Node(node.id, [op EXCEPT !.q = <<all.q>>], all.ins)>>)

\* The patch of a node, if there is one.
DeclutterNode(m, node) ==
    LET op == node.op
    IN  CASE op.is = "conv" ->
                 IF \E s \in 2 .. Len(node.ins) : IsConst(m, node.ins[s]) THEN Some(InlineStatic(m, node, op))
                 ELSE IF \E ax \in 1 .. HwRankOf(op) : Strided(op, ax) THEN Some(ConvToDownsample(node, op))
                 ELSE IF op.q = None /\ IsMatMul(op)
                 THEN Some(ConvToMatMul(node, op, Len(m.facts[node.ins[1]]))) ELSE None
          [] op.is = "downsample" /\ op.stride = 1 -> Some(ShuntOne(node))
          [] op.is = "axis" /\ IsNoop(op.change) -> Some(ShuntOne(node))
          [] op.is = "unary" /\ \A x \in Range(op.a.data) : x = (IF op.fn = "add" THEN 0 ELSE 1)
               /\ op.fn \in {"add", "mul"} -> Some(ShuntOne(node))
          [] op.is = "max_pool" /\ op.indices /\ m.out # node.id ->
                 Some(Replace(node.id, <<[node EXCEPT !.op.indices = FALSE]>>))
          [] op.is = "im2col" /\ Len(node.ins) = 2 /\ IsConst(m, node.ins[2])
               /\ \A x \in Range(OpAt(m, node.ins[2]).t.data) : x = 0 ->
                 Some(Replace(node.id, <<[node EXCEPT !.ins = SubSeq(@, 1, 1)]>>))
          [] OTHER -> None

CodegenNode(m, node) ==
    LET op   == node.op
        dims == m.facts[node.ins[1]]
    IN  CASE op.is = "conv" ->
                 Some(Replace(node.id, OfOutput(ConvCodegen, node.id, op, node.ins, dims, m.facts[node.id])))
          [] op.is = "deconv" ->
                 Some(Replace(node.id, DeconvWithSum(node.id, op, node.ins[1], dims, Positions(op, dims))))
          [] op.is = "matmul" /\ Concrete(dims) ->
                 Some(Replace(node.id, MatMulFinite(node.id, op, node.ins[1], Usizes(dims))))
          [] op.is = "binary" /\ dims = m.facts[node.ins[2]] ->
                 Some(Replace(node.id, <<[node EXCEPT !.op = MergeUnicast(op.fn)]>>))
          [] OTHER -> None

\* The operations of micro, for each prefix, and then those of specs.
MergedSpecs(op, specs) ==
    LET at == Coordinates(op.micro.shape)
    IN  [op EXCEPT !.micro.items = [i \in DOMAIN @ |-> [@[i] EXCEPT !.specs = Append(@, MicroOp(specs, at[i]))]]]
Everywhere(op, spec) == MergedSpecs(op, [shape |-> [k \in DOMAIN op.micro.shape |-> 1], items |-> <<spec>>])

\* A constant as it was before the axes of the product were reshaped.
BeforeReshape(op, a) == FoldLeft(LAMBDA t, change : BroadcastAxisOp(Recip(change), t), a, Reverse(op.post))

\* One item per row, for each prefix.
RowSpecs(op, fn, a) ==
    [shape |-> FlattenSeq([k \in DOMAIN a.shape |-> IF k \in {op.m + 1, op.n + 1} THEN <<>> ELSE <<a.shape[k]>>]),
     items |-> [i \in 1 .. Len(a.data) \div op.geo.m |->
                   FusedSpec(IF fn = "mul" THEN "per_row_mul" ELSE "per_row_add",
                        SubSeq(a.data, (i - 1) * op.geo.m + 1, i * op.geo.m))]]
PerRowOf(op, a) == a.shape[op.n + 1] = 1 /\ Val(a.shape[op.m + 1]) = op.cShape[op.m + 1]

\* What follows a product is fused in it, and the product is gone: LirMatMulUnary::fuse.
FuseUnary(node, succ, op, fn, a, onRows) ==
    LET with(new) == Some(FuseInto(succ, new, node.ins, node))
    IN  IF Len(a.data) = 1
        THEN IF fn = "add" THEN None
             ELSE with(Everywhere(op, FusedSpec(IF fn = "mul" THEN "scalar_mul" ELSE fn, a.data)))
        ELSE IF PerRowOf(op, onRows) /\ fn \in {"mul", "add"} THEN with(MergedSpecs(op, RowSpecs(op, fn, onRows)))
        ELSE None
FuseSucc(m, node, op, succ, slot) ==
    CASE succ.op.is = "axis" /\ succ.op.change.is # "move" ->
             Some(FuseInto(succ, [op EXCEPT !.finalShape = m.facts[succ.id], !.post = Append(@, succ.op.change)],
                           node.ins, node))
      [] succ.op.is = "unary" -> FuseUnary(node, succ, op, succ.op.fn, succ.op.a, BeforeReshape(op, succ.op.a))
      [] succ.op.is = "unicast" ->
             IF op.n = Len(op.finalShape) - 2 /\ op.m = Len(op.finalShape) - 1 /\ Len(op.micro.items) = 1
                /\ succ.op.fn = "add"
             THEN Some(FuseInto(succ, Everywhere(op, FusedInput("add_unicast", Len(node.ins))),
                                Append(node.ins, succ.ins[3 - slot]), node))
             ELSE None
      [] OTHER -> None
FuseNode(m, node) ==
    LET readers == Successors(m, node.id)
        at      == CHOOSE is \in readers : TRUE
    IN  IF node.op.is # "lir" \/ m.out = node.id \/ Cardinality(readers) # 1 THEN None
        ELSE FuseSucc(m, node, node.op, m.nodes[at[1]], at[2])

-----------------------------------------------------------------------------
(* What a node computes of its inputs, and the scratch space it leaves.  A *)
(* product of a known size has a scratch space of its own.                 *)

Only(t) == <<t>>

KnownDims(dims, syms) == [k \in DOMAIN dims |-> Eval(dims[k], syms).n]

OutputsOf(op, ts, syms, geo) ==
    CASE op.is = "const"     -> Only(op.t)
      [] op.is = "max_pool"  -> MaxPoolOf(op, ts[1], geo)
      [] op.is = "sum_pool"  -> Only(SumPoolOf(op, ts[1], geo))
      [] op.is = "depth_wise" -> Only(DepthWiseOf(op, ts[1], geo))
      [] op.is = "im2col"    -> Only(Im2ColOf(op, ts, geo))
      [] op.is = "downsample" -> Only(DownsampleOf(op.axis, op.stride, ts[1]))
      [] op.is = "axis"      -> Only(AxisOpOf(ResolvedAxisOp(op.change, syms), ts[1]))
      [] op.is = "unary"     -> Only(BinaryOf(op.fn, op.a, ts[1]))
      [] op.is \in {"binary", "unicast"} -> Only(BinaryOf(op.fn, ts[1], ts[2]))
      [] op.is = "matmul"    -> Only(MatMulOf(op.a, ts[1], op.aTrans, op.bTrans, op.cTrans))
      [] op.is = "pack"      -> Only(MatMatMulPackOf(op, ts[1]))
      [] op.is = "q_sum_b"   -> Only(QSumBOf(op, ts[1], Eval(op.n, syms).n))
      [] op.is = "compensate" -> Only(CompensateOf(op, ts))
      [] op.is = "requant"   -> Only(RequantOf(op, ts))
      [] op.is = "deconv_sum" -> Only(DeconvSumOf([op EXCEPT !.dims = Usizes(@)], ts[1]))

LirGeo(op, n) == [op.geo EXCEPT !.n = n]
LirScratch(op, before, done) == [ts |-> Only(done.t), scratch |-> IF Known(op.geo.n) THEN before ELSE done.scratch]
LirOutputs(op, ts, syms, space) ==
    LirScratch(op, space, LirMatMulOf(op, LirGeo(op, Eval(op.geo.n, syms).n), KnownDims(op.cShape, syms),
                                      KnownDims(op.finalShape, syms), ts, IF Known(op.geo.n) THEN <<>> ELSE space))

\* A pool has the geometry of its input; im2col may have the one it was made for.
RunLowered(op, ts, syms, space) ==
    LET shape == IF op.is = "im2col" /\ op.at # None THEN op.at[1] ELSE ts[1].shape
    IN  IF op.is = "lir" THEN LirOutputs(op, ts, syms, space)
        ELSE [ts |-> OutputsOf(op, ts, syms, PoolGeometry(op.pool, shape)), scratch |-> space]

\* A convolution or a deconvolution is run as a model made for its inputs.
AdHocNodes(node, ts) ==
    LET op   == node.op
        dims == Vals(ts[1].shape)
    IN  IF op.is = "conv" THEN OfOutput(AsIm2Col, node.id, op, node.ins, dims, PoolOutput(op.pool, dims))
        ELSE IF op.is = "deconv" THEN DeconvWithSum(node.id, op, node.ins[1], dims, Positions(op, dims))
        ELSE <<node>>

NodeRan(known, id, ran) == [of |-> (id :> ran.ts) @@ known, space |-> ran.scratch]
OutputOf(id, done)      == [ts |-> done.of[id], scratch |-> done.space]
RunNode(node, ts, syms, space) ==
    LET step(known, n) ==
            NodeRan(known.of, n.id, RunLowered(n.op, [k \in DOMAIN n.ins |-> known.of[n.ins[k]][1]], syms, known.space))
        given == [id \in Range(node.ins) |-> Only(ts[CHOOSE k \in DOMAIN ts : node.ins[k] = id])]
    IN  OutputOf(node.id, FoldLeft(step, [of |-> given, space |-> space], AdHocNodes(node, ts)))

-----------------------------------------------------------------------------
(* The passes of the optimizer: a model is used as it is, decluttered, or  *)
(* optimized, in which case passes are done again as long as one changes   *)
(* something.  A patch whose output is not the one of the node it is for   *)
(* is refused.                                                             *)

PatchOf(p, m, node) ==
    CASE p \in {"declutter", "declutter again"} -> DeclutterNode(m, node)
      [] p = "codegen" -> CodegenNode(m, node)
      [] p = "fuse"    -> FuseNode(m, node)

\* The patches of a pass, of the first node it changes first.
PatchesOf(p, m) == SelectSeq([i \in DOMAIN m.nodes |-> PatchOf(p, m, m.nodes[i])], LAMBDA patch : patch # None)

NextPass(p, again) ==
    CASE p = "declutter" -> IF problem.level = "decluttered" THEN "ready" ELSE "codegen"
      [] p = "codegen"   -> "declutter again"
      [] p = "declutter again" -> "fuse"
      [] p = "fuse"      -> IF again THEN "codegen" ELSE "ready"

Init ==
    /\ problem \in Problems
    /\ model = [nodes |-> problem.nodes, facts |-> WithFacts(<<>>, problem.nodes), out |-> problem.out]
    /\ pass = IF problem.level = "as is" THEN "ready" ELSE "declutter"
    /\ applied = FALSE
    /\ symbols = <<>>
    /\ turn = 0
    /\ values = <<>>
    /\ scratch = <<>>
    /\ results = <<>>

\* run_one_pass_inner, of a patch.
Rewrite ==
    /\ pass \notin {"ready", "refused"}
    /\ \E patches \in {PatchesOf(pass, model)} :
           /\ patches # <<>>
           /\ \E patch \in {patches[1][1]} : \E facts \in {WithFacts(model.facts, patch.nodes)} :
                  /\ model' = Patched(model, patch, facts)
                  /\ pass' = IF facts[patch.by] = model.facts[patch.id] THEN pass ELSE "refused"
    /\ applied' = TRUE
    /\ UNCHANGED <<problem, symbols, turn, values, scratch, results>>

EndPass ==
    /\ pass \notin {"ready", "refused"}
    /\ PatchesOf(pass, model) = <<>>
    /\ pass' = NextPass(pass, applied)
    /\ applied' = (applied /\ pass \in {"codegen", "declutter again"})
    /\ UNCHANGED <<problem, model, symbols, turn, values, scratch, results>>

\* A turn is given inputs: they tell what the symbols are.
Given(dims, syms) ==
    LET shape == KnownDims(dims, syms)
    IN  T(shape, [i \in 1 .. ProductOf(shape) |-> Samples[((i + 3 * turn) % Len(Samples)) + 1]])
SourcesOf(m) == {i \in DOMAIN m.nodes : m.nodes[i].op.is = "source"}

StartTurn ==
    /\ pass = "ready"
    /\ turn < MaxTurns
    /\ Len(results) = turn
    /\ turn' = turn + 1
    /\ \E size \in problem.sizes : symbols' = <<size>>
    /\ values' = [id \in {model.nodes[i].id : i \in SourcesOf(model)} |->
                     Only(Given(OpAt(model, id).dims, symbols'))]
    /\ UNCHANGED <<problem, model, pass, applied, scratch, results>>

\* The first node not computed yet is.
EvalNode ==
    /\ turn > Len(results)
    /\ LET left == {i \in DOMAIN model.nodes : model.nodes[i].id \notin DOMAIN values}
           node == model.nodes[Min(left)]
       IN  /\ left # {}
           /\ \E done \in {RunNode(node, [k \in DOMAIN node.ins |-> values[node.ins[k]][1]], symbols, scratch)} :
                  /\ values' = values @@ (node.id :> done.ts)
                  /\ scratch' = done.scratch
    /\ UNCHANGED <<problem, model, pass, applied, symbols, turn, results>>

EndTurn ==
    /\ turn > Len(results)
    /\ \A i \in DOMAIN model.nodes : model.nodes[i].id \in DOMAIN values
    /\ results' = Append(results, values[model.out])
    /\ UNCHANGED <<problem, model, pass, applied, symbols, turn, values, scratch>>

Next == Rewrite \/ EndPass \/ StartTurn \/ EvalNode \/ EndTurn
Spec == Init /\ [][Next]_vars

-----------------------------------------------------------------------------
(* What is promised: each operator of the problem, by its definition.      *)

\* Which item of an axis an item of the kernel sees; how long the output is.
PadBefore(pool, ax, input) ==
    LET field == Field(pool.kernel[ax], pool.dilations[ax])
        pad   == Saturated((CeilDiv(input, pool.strides[ax]) - 1) * pool.strides[ax] + field - input)
    IN  CASE pool.padding.is = "valid" -> 0
          [] pool.padding.is = "explicit" -> pool.padding.bef[ax]
          [] pool.padding.is = "same_upper" -> pad \div 2
          [] pool.padding.is = "same_lower" -> pad - pad \div 2
OutputLength(pool, ax, input) ==
    LET after == IF pool.padding.is = "explicit" THEN pool.padding.aft[ax] ELSE 0
        field == Field(pool.kernel[ax], pool.dilations[ax])
        all   == input + PadBefore(pool, ax, input) + after
    IN  IF pool.padding.is \in {"same_upper", "same_lower"} THEN CeilDiv(input, pool.strides[ax])
        ELSE Cardinality({x \in 0 .. all : x * pool.strides[ax] + field <= all})

\* The items of the kernel that are inside the input, at a position of the output.
SeenBy(pool, hw, at) ==
    LET from(kc) == [ax \in DOMAIN hw |-> at[ax] * pool.strides[ax] + kc[ax] * pool.dilations[ax]
                                          - PadBefore(pool, ax, hw[ax])]
        kernel   == Coordinates(pool.kernel)
        inside(kc) == \A ax \in DOMAIN hw : from(kc)[ax] \in 0 .. hw[ax] - 1
        seen     == SelectSeq(kernel, inside)
    IN  [i \in DOMAIN seen |-> [kc |-> seen[i], from |-> from(seen[i])]]

Slid(pool, t, channels, Of(_, _, _)) ==
    LET hw  == HwDims(pool.fmt, t.shape)
        out == [ax \in DOMAIN hw |-> OutputLength(pool, ax, hw[ax])]
    IN  FromIndex(FromNCHW(pool.fmt, NDim(pool.fmt, t.shape), channels, out),
                  LAMBDA idx : Of(IF HasN(pool.fmt) THEN idx[1] ELSE 0, CDim(pool.fmt, idx),
                                  SeenBy(pool, hw, HwDims(pool.fmt, idx))))
Pixel(pool, t, n, c, hw) == ItemAt(t, FromNCHW(pool.fmt, n, c, hw))

\* The kernel for an output channel, and an input channel of its group.
Weight(op, o, i, kc) ==
    LET co == op.pool.channels[1] \div op.group
        ci == InputChannels(op) \div op.group
    IN  ItemAt(op.kernel, IF op.kfmt = "OIHW" THEN <<o, i>> \o kc ELSE kc \o <<(o \div co) * ci + i, o % co>>)
BiasOf(op, o) == IF op.bias = None THEN 0 ELSE op.bias[1][o + 1]

ConvolutionOf(op, ts) ==
    LET co == op.pool.channels[1] \div op.group
        ci == CDim(op.pool.fmt, ts[1].shape) \div op.group
        zero(p)   == IF op.q = None THEN 0
                     ELSE LET par == op.q[1][p] IN IF par.is = "attr" THEN par.t.data[1] ELSE ts[par.slot + 1].data[1]
        sum(n, o, seen) ==
            SumOf(FlattenSeq([i \in 1 .. ci |-> [s \in DOMAIN seen |->
                (Weight(op, o, i - 1, seen[s].kc) - zero("a0"))
                    * (Pixel(op.pool, ts[1], n, (o \div co) * ci + i - 1, seen[s].from) - zero("b0"))]]))
        scaled(x) == IF op.q = None THEN x
                     ELSE Least(Most(RoundHalfEven(x, 2 ^ op.q[1].shift) + zero("c0"), op.q[1].min), op.q[1].max)
    IN  Slid(op.pool, ts[1], op.pool.channels[1], LAMBDA n, o, seen : scaled(BiasOf(op, o) + sum(n, o, seen)))

\* The first of the largest items, and where it is in the tensor.
MaxPoolingOf(op, t) ==
    LET items(n, c, seen) == [s \in DOMAIN seen |-> Pixel(op.pool, t, n, c, seen[s].from)]
        largest(xs) == CHOOSE s \in DOMAIN xs : \A r \in DOMAIN xs : xs[r] < xs[s] \/ (xs[r] = xs[s] /\ s <= r)
        best(n, c, seen) == items(n, c, seen)[largest(items(n, c, seen))]
        at(n, c, seen)   == Position(HwDims(op.pool.fmt, t.shape), seen[largest(items(n, c, seen))].from)
        channels == CDim(op.pool.fmt, t.shape)
    IN  <<Slid(op.pool, t, channels, best)>> \o (IF op.indices THEN <<Slid(op.pool, t, channels, at)>> ELSE <<>>)

MeanOf(op, t) ==
    LET mean(n, c, seen) ==
            SumOf([s \in DOMAIN seen |-> Pixel(op.pool, t, n, c, seen[s].from)])
                \div (IF op.countPad THEN ProductOf(op.pool.kernel) ELSE Len(seen))
    IN  Slid(op.pool, t, CDim(op.pool.fmt, t.shape), mean)

\* Each item of the input spreads the kernel over the output.
DeconvolutionOf(op, t) ==
    LET pool == op.pool
        hw   == HwDims(pool.fmt, t.shape)
        g    == op.group
        ci   == CDim(pool.fmt, t.shape) \div g
        co   == pool.channels[1] \div g
        open == [ax \in DOMAIN hw |-> (hw[ax] - 1) * pool.strides[ax] + Field(pool.kernel[ax], pool.dilations[ax])]
        cut(ax) == CASE pool.padding.is = "valid" -> 0
                     [] pool.padding.is = "explicit" -> pool.padding.bef[ax] + pool.padding.aft[ax]
                     [] OTHER -> open[ax] + op.adjustments[ax] - hw[ax] * pool.strides[ax]
        bef(ax) == CASE pool.padding.is = "valid" -> 0
                     [] pool.padding.is = "explicit" -> pool.padding.bef[ax]
                     [] pool.padding.is = "same_upper" -> cut(ax) \div 2
                     [] OTHER -> cut(ax) - cut(ax) \div 2
        out  == [ax \in DOMAIN hw |-> open[ax] + op.adjustments[ax] - cut(ax)]
        pairs == Coordinates(hw \o pool.kernel)
        to(pair) == [ax \in DOMAIN hw |-> pair[ax] * pool.strides[ax]
                                          + pair[Len(hw) + ax] * pool.dilations[ax] - bef(ax)]
        weight(o, i, kc) == ItemAt(op.kernel, IF op.kfmt = "OIHW" THEN <<o, i>> \o kc
                                              ELSE kc \o <<(o \div co) * ci + i, o % co>>)
        sum(n, o, at) ==
            SumOf(FlattenSeq([i \in 1 .. ci |-> [p \in DOMAIN pairs |->
                IF to(pairs[p]) # at THEN 0
                ELSE Pixel(pool, t, n, (o \div co) * ci + i - 1, SubSeq(pairs[p], 1, Len(hw)))
                     * weight(o, i - 1, SubSeq(pairs[p], Len(hw) + 1, 2 * Len(hw)))]]))
    IN  FromIndex(FromNCHW(pool.fmt, NDim(pool.fmt, t.shape), pool.channels[1], out),
                  LAMBDA idx : BiasOf(op, CDim(pool.fmt, idx))
                               + sum(IF HasN(pool.fmt) THEN idx[1] ELSE 0, CDim(pool.fmt, idx), HwDims(pool.fmt, idx)))

Promised(op, ts) ==
    CASE op.is = "conv"     -> Only(ConvolutionOf(op, ts))
      [] op.is = "deconv"   -> Only(DeconvolutionOf(op, ts[1]))
      [] op.is = "max_pool" -> MaxPoolingOf(op, ts[1])
      [] op.is = "sum_pool" -> Only(MeanOf(op, ts[1]))
      [] op.is = "const"    -> Only(op.t)
      [] op.is = "unary"    -> Only(BinaryOf(op.fn, op.a, ts[1]))
      [] op.is = "binary"   -> Only(BinaryOf(op.fn, ts[1], ts[2]))

\* The outputs of the problem, from the inputs of the turn.
Expected ==
    LET step(done, node) ==
            IF node.op.is = "source" THEN done
            ELSE done @@ (node.id :> Promised(node.op, [k \in DOMAIN node.ins |-> done[node.ins[k]][1]]))
        given == {problem.nodes[i].id : i \in SourcesOf(problem)}
    IN  FoldLeft(step, [id \in given |-> values[id]], problem.nodes)[problem.out]

\* Every patch is accepted; and at the end of a turn the model gives what the operators
\* of the problem promise, of the shapes that were told from the symbols.
ConvolutionComputed ==
    /\ pass # "refused"
    /\ turn > 0 /\ Len(results) = turn =>
           /\ results[turn] = Expected
           /\ \A id \in DOMAIN values : values[id][1].shape = KnownDims(model.facts[id], symbols)
=============================================================================
