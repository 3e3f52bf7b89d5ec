------------------------------ MODULE ConvOps -------------------------------
(***************************************************************************)
(* What the operators a convolution, a deconvolution or a pooling becomes  *)
(* compute (core/src/ops/cnn, core/src/ops/matmul).  A tensor is its shape *)
(* and its items, in order.                                                *)
(***************************************************************************)
EXTENDS Kernels

T(shape, data)  == [shape |-> shape, data |-> data]
Scalar(x)       == T(<<>>, <<x>>)
ItemAt(t, idx)  == t.data[Position(t.shape, idx) + 1]
FromIndex(shape, Of(_)) == LET at == Coordinates(shape) IN T(shape, [i \in DOMAIN at |-> Of(at[i])] \o <<>>)

\* Where the items of a prefix of the index start, how many there are, and of what shape.
PrefixBase(shape, prefix) == Dot(SubSeq(StridesOf(shape, 1), 1, Len(prefix)), prefix)
LastDims(shape, rank)     == SubSeq(shape, Len(shape) - rank + 1, Len(shape))
FirstDims(shape, rank)    == SubSeq(shape, 1, Len(shape) - rank)

\* AxisOp::change_tensor.
AxisOpOf(op, t) ==
    LET c     == Canonical(op)
        shape == IF c.is = "reshape" THEN SubSeq(t.shape, 1, c.at) \o c.to
                                          \o SubSeq(t.shape, c.at + Len(c.from) + 1, Len(t.shape))
                 ELSE ChangeShape(c, t.shape)[1]
    IN  IF c.is = "move" THEN FromIndex(shape, LAMBDA idx : ItemAt(t, MoveAxis(idx, c.to, c.from)))
        ELSE T(shape, t.data)

\* A reshaping is of dimensions, known once symbols have a value.
ResolvedAxisOp(op, symbols) ==
    LET known(dims) == [i \in DOMAIN dims |-> Eval(dims[i], symbols).n]
    IN  IF op.is = "reshape" THEN Reshape(op.at, known(op.from), known(op.to)) ELSE op

\* On a constant to broadcast: axes of one that are reshaped stay so, in another number.
BroadcastAxisOp(op, t) ==
    IF op.is = "reshape" /\ \A k \in op.at + 1 .. op.at + Len(op.from) : t.shape[k] = 1
    THEN T(SubSeq(t.shape, 1, op.at) \o [i \in DOMAIN op.to |-> 1]
               \o SubSeq(t.shape, op.at + Len(op.from) + 1, Len(t.shape)), t.data)
    ELSE AxisOpOf(ResolvedAxisOp(op, <<>>), t)

\* Unary and binary operators, of tensors of the same rank.
BroadcastTo(a, b, one) == [k \in DOMAIN a |-> IF a[k] = one THEN b[k] ELSE a[k]]
BroadcastShape(a, b)  == BroadcastTo(a, b, 1)
Stretched(shape, idx) == [k \in DOMAIN shape |-> IF shape[k] = 1 THEN 0 ELSE idx[k]]
ElementOf(fn, a, b) ==
    CASE fn = "add" -> a + b [] fn = "mul" -> a * b [] fn = "min" -> Least(a, b) [] fn = "max" -> Most(a, b)
BinaryOf(fn, a, b) ==
    FromIndex(BroadcastShape(a.shape, b.shape),
              LAMBDA idx : ElementOf(fn, ItemAt(a, Stretched(a.shape, idx)), ItemAt(b, Stretched(b.shape, idx))))

\* Downsample from the first item, of an axis.
DownsampleOf(axis, stride, t) ==
    FromIndex([t.shape EXCEPT ![axis + 1] = CeilDiv(@, stride)],
              LAMBDA idx : ItemAt(t, [idx EXCEPT ![axis + 1] = @ * stride]))

-----------------------------------------------------------------------------
(* Poolings and depthwise convolutions: a visitor goes along the output,   *)
(* every channel of every image computed where it is.                      *)

\* Writes of one visit: the channels are those of the output.
VisitWrites(pool, geo, channels, visit, Of(_, _, _)) ==
    LET at == Coordinates(<<NDim(pool.fmt, geo.input), channels>>)
    IN  [i \in DOMAIN at |->
            [at |-> at[i][1] * NStride(pool.fmt, geo.output) + at[i][2] * CStride(pool.fmt, geo.output)
                        + visit.outputOffset,
             to |-> Of(visit, at[i][1], at[i][2])]]

Visited(pool, geo, channels, Of(_, _, _)) ==
    LET visits == Visits(geo.patch)
        written(data, w) == IF w.to = None THEN data ELSE Put0(data, w.at, w.to[1])
    IN  T(geo.output, InTurn(LAMBDA data, visit : InTurn(written, data, VisitWrites(pool, geo, channels, visit, Of)),
                             Memory(ProductOf(geo.output)), visits))

InputOffset(pool, geo, n, c) == n * NStride(pool.fmt, geo.input) + c * CStride(pool.fmt, geo.input)

Lowest == -1000

\* LirMaxPool: the largest, and which of the items of the image it is.
MaxPoolOf(op, t, geo) ==
    LET best(visit, n, c) ==
            FoldLeft(LAMBDA acc, seen :
                         LET x == t.data[seen[2] + InputOffset(op.pool, geo, n, c) + 1]
                         IN  IF acc[2] < x THEN <<seen[2], x>> ELSE acc,
                     <<0, Lowest>>, Seen(geo.patch, visit))
        channels == CDim(op.pool.fmt, t.shape)
    IN  <<Visited(op.pool, geo, channels, LAMBDA visit, n, c : Some(best(visit, n, c)[2]))>>
        \o (IF op.indices
            THEN <<Visited(op.pool, geo, channels,
                           LAMBDA visit, n, c : Some(best(visit, n, c)[1] \div geo.patch.outputInner))>>
            ELSE <<>>)

\* LirSumPool: nothing is written when the sum is not to be divided.
SumPoolOf(op, t, geo) ==
    LET sum(visit, n, c) ==
            SumOf([i \in DOMAIN Seen(geo.patch, visit) |->
                      t.data[Seen(geo.patch, visit)[i][2] + InputOffset(op.pool, geo, n, c) + 1]])
        count(visit) == IF op.countPad THEN Len(geo.patch.offsets) ELSE Len(Seen(geo.patch, visit))
    IN  Visited(op.pool, geo, CDim(op.pool.fmt, t.shape),
                LAMBDA visit, n, c : IF op.normalize THEN Some(sum(visit, n, c) \div count(visit)) ELSE None)

\* DepthWise: as many filters of an input channel each as groups.
DepthWiseOf(op, t, geo) ==
    LET mult  == CDim(op.pool.fmt, geo.output) \div CDim(op.pool.fmt, t.shape)
        size  == op.kernel.shape[3]
        filter(o) == size * (o \div mult) + op.kernel.shape[2] * size * (o % mult)
        sum(visit, n, o) ==
            SumOf([i \in DOMAIN Seen(geo.patch, visit) |->
                      LET seen == Seen(geo.patch, visit)[i]
                      IN  op.kernel.data[filter(o) + seen[1] + 1]
                          * t.data[seen[2] + InputOffset(op.pool, geo, n, o \div mult) + 1]])
        bias(o) == IF op.bias = None THEN 0 ELSE op.bias[1][o + 1]
    IN  Visited(op.pool, geo, CDim(op.pool.fmt, geo.output),
                LAMBDA visit, n, o : Some(bias(o) + sum(visit, n, o)))

-----------------------------------------------------------------------------
(* Im2Col: what the kernel sees at each position of the output, a column   *)
(* each, packed as the right hand side of the product.                     *)

Patcher(geo) ==
    LET rank == Len(geo.patch.input)
    IN  IF ~ geo.patch.padded /\ rank = 2 THEN "valid2d" ELSE IF rank = 2 THEN "padded2d"
        ELSE IF ~ geo.patch.padded /\ rank = 1 THEN "valid1d" ELSE "generic"

\* The shape with the axis of the images.
ShapeWithN(pool, shape) == IF HasN(pool.fmt) THEN shape ELSE <<1>> \o shape

\* The item an element of the kernel, at an offset, sees at a position: in the order of
\* the loops of each patcher.  None is padding.
PatchedItem(pool, geo, with, item, position) ==
    LET steps  == [k \in DOMAIN position |-> HwStrides(WithN(pool.fmt), with)[k] * pool.strides[k]]
        offset == geo.patch.offsets[item] + Dot(position, steps)
        inside == \A k \in DOMAIN position :
                      position[k] * pool.strides[k] + geo.patch.field[item][k] \in 0 .. geo.patch.input[k] - 1
    IN  CASE Patcher(geo) \in {"valid1d", "valid2d"} -> Some(offset)
          [] Patcher(geo) = "padded2d" -> IF inside THEN Some(offset) ELSE None
          [] Patcher(geo) = "generic"  -> At(geo.patch, position)[item]

\* The columns of a group of an image.
Columns(op, geo, with, t, image, g, pad) ==
    LET channels  == CDim(op.pool.fmt, geo.input) \div op.group
        positions == Coordinates(geo.patch.output)
        base(c)   == PrefixBase(with, <<image>>) + (g * channels + c) * CStride(WithN(op.pool.fmt), with)
        items     == Coordinates(<<channels, Len(geo.patch.offsets)>>)
        row(ci)   == [p \in DOMAIN positions |->
                         LET from == PatchedItem(op.pool, geo, with, ci[2] + 1, positions[p])
                         IN  IF from = None THEN pad ELSE t.data[base(ci[1]) + from[1] + 1]]
    IN  [i \in DOMAIN items |-> row(items[i])]

PackedShape(op, input, n) ==
    (IF HasN(op.pool.fmt) THEN <<input[1]>> ELSE <<>>) \o (IF op.group # 1 THEN <<op.group>> ELSE <<>>)
    \o <<PackedLen(op.packer, n)>>

Im2ColOf(op, ts, geo) ==
    LET t     == ts[1]
        with  == ShapeWithN(op.pool, geo.input)
        pad   == IF Len(ts) > 1 THEN ts[2].data[1] ELSE 0
        n     == ProductOf(HwDims(op.pool.fmt, geo.output))
        parts == Coordinates(<<with[1], op.group>>)
    IN  T(PackedShape(op, geo.input, n),
          IF 0 \in Range(geo.output) THEN Memory(ProductOf(PackedShape(op, geo.input, n)))
          ELSE FlattenSeq([i \in DOMAIN parts |->
                   KOuter(op.packer, n, Columns(op, geo, with, t, parts[i][1], parts[i][2], pad))]))

-----------------------------------------------------------------------------
(* Matrix products.                                                        *)

\* Of shapes, or of dimensions: one is the dimension that is broadcast.
ComputeShape(a, b, aTrans, bTrans, cTrans, one) ==
    LET ra == LastDims(a, 2)
        rb == LastDims(b, 2)
        m  == IF aTrans THEN ra[2] ELSE ra[1]
        n  == IF bTrans THEN rb[1] ELSE rb[2]
    IN  [m |-> m, k |-> IF aTrans THEN ra[1] ELSE ra[2], n |-> n,
         shape |-> BroadcastTo(FirstDims(a, 2), FirstDims(b, 2), one)
                      \o (IF cTrans THEN <<n, m>> ELSE <<m, n>>)]

\* A and B of a matrix product packed, those of a prefix of their index.
PackA(packer, t, prefix, m, trans) ==
    LET strides == LastDims(StridesOf(t.shape, 1), 2)
    IN  Pack(packer, t.data, PrefixBase(t.shape, prefix), m, strides[IF trans THEN 1 ELSE 2],
             strides[IF trans THEN 2 ELSE 1])
PackB(packer, t, prefix, n, trans) ==
    LET strides == LastDims(StridesOf(t.shape, 1), 2)
    IN  Pack(packer, t.data, PrefixBase(t.shape, prefix), n, strides[IF trans THEN 2 ELSE 1],
             strides[IF trans THEN 1 ELSE 2])

\* matmul::eval.
MatMulOf(a, b, aTrans, bTrans, cTrans) ==
    LET s    == ComputeShape(a.shape, b.shape, aTrans, bTrans, cTrans, 1)
        ker  == Mmm(Some(s.n))
        last == s.shape[Len(s.shape)]
        at(shape, prefix) == [k \in DOMAIN prefix |-> Least(prefix[k], shape[k] - 1)]
        stored(c, prefix) ==
            RunMmm(ker, s.m, s.k, s.n, PackA(Packer(s.k, ker.mr), a, at(a.shape, prefix), s.m, aTrans),
                   [store |-> BPacked, base |-> 0,
                    data  |-> PackB(Packer(s.k, ker.nr), b, at(b.shape, prefix), s.n, bTrans)],
                   CStore(PrefixBase(s.shape, prefix), IF cTrans THEN 1 ELSE last, IF cTrans THEN last ELSE 1,
                          s.m * s.n),
                   <<>>, [c |-> c, scratch |-> <<>>]).c
    IN  T(s.shape, InTurn(stored, Memory(ProductOf(s.shape)), Coordinates(FirstDims(s.shape, 2))))

\* MatMatMulPack.
MatMatMulPackOf(op, b) ==
    LET prefixes == Coordinates(FirstDims(b.shape, 2))
    IN  T(op.shape, FlattenSeq([i \in DOMAIN prefixes |->
                        PackB(op.packer, b, prefixes[i], b.shape[Len(b.shape) - If(op.trans)], op.trans)]))

\* An operation to fuse reads a constant, or an input of the node.
Resolved(specs, ts) ==
    [i \in DOMAIN specs |-> [op |-> specs[i].op,
                             v  |-> IF specs[i].input = None THEN specs[i].v ELSE ts[specs[i].input[1] + 1].data]]

\* What A is, and what is fused, for a prefix of C: those of the last one there is.
MicroOp(micro, prefix) ==
    micro.items[Position(micro.shape, [k \in DOMAIN prefix |-> Least(prefix[k], micro.shape[k] - 1)]) + 1]

\* LirMatMulUnary: a product for each prefix of C, with the scratch space it is given.
LirResult(shape, done) == [t |-> T(shape, done.c), scratch |-> done.scratch]
LirMatMulOf(op, geo, cShape, finalShape, ts, scratch) ==
    LET inner(k) == k = op.m + 1 \/ k = op.n + 1
        loops    == Coordinates([k \in DOMAIN cShape |-> IF inner(k) THEN 1 ELSE cShape[k]])
        strides  == StridesOf(cShape, 1)
        prefixOf(idx) == FlattenSeq([k \in DOMAIN idx |-> IF inner(k) THEN <<>> ELSE <<idx[k]>>])
        store(idx) == CStore(Dot(strides, idx), strides[op.m + 1], strides[op.n + 1], ProductOf(cShape))
        run(state, idx) ==
            LET micro == MicroOp(op.micro, prefixOf(idx))
            IN  RunMmm(op.ker, geo.m, geo.k, geo.n, micro.a,
                       [store |-> geo.store, base |-> PrefixBase(ts[1].shape, prefixOf(idx)), data |-> ts[1].data],
                       store(idx), Resolved(micro.specs, ts), state)
    IN  LirResult(finalShape, InTurn(run, [c |-> Memory(ProductOf(cShape)), scratch |-> scratch], loops))

-----------------------------------------------------------------------------
(* Quantized convolutions: values are less a zero point, which is taken    *)
(* into account once the product is known.                                 *)

\* QSumB: the sum of each column of packed panels.
QSumBOf(op, t, n) ==
    LET shape    == [t.shape EXCEPT ![Len(t.shape)] = n]
        prefixes == Coordinates(FirstDims(shape, 1))
        sum(base, x) == SumOf([k \in 1 .. op.k |-> t.data[base + ((x \div op.r) * op.k + k - 1) * op.r + (x % op.r) + 1]])
    IN  T(shape, FlattenSeq([i \in DOMAIN prefixes |->
                     [x \in 1 .. n |-> sum(PrefixBase(t.shape, prefixes[i]), x - 1)]]))

\* compensate_zero_points: ts holds the product, a0, b0, sum_a and sum_b.
CompensateOf(op, ts) ==
    LET sumA(idx) == ItemAt(ts[4], Stretched(ts[4].shape, Without(idx, op.n)))
        sumB(idx) == ItemAt(ts[5], Stretched(ts[5].shape, Without(idx, op.m)))
        a0 == ts[2].data[1]
        b0 == ts[3].data[1]
    IN  FromIndex(ts[1].shape, LAMBDA idx :
                      ItemAt(ts[1], idx) + a0 * b0 * op.k - a0 * sumB(idx) - b0 * sumA(idx))

\* requant, of a scale of a half to the power of op.shift: ties are to the even one.
RoundHalfEven(x, d) ==
    LET q == x \div d
        r == x % d
    IN  IF 2 * r < d THEN q ELSE IF 2 * r > d THEN q + 1 ELSE q + (q % 2)
RequantOf(op, ts) ==
    LET clamped(x) == Least(Most(x, op.min), op.max)
    IN  FromIndex(ts[1].shape, LAMBDA idx :
                      clamped(RoundHalfEven(ItemAt(ts[1], idx), 2 ^ op.shift) + ts[2].data[1]))

-----------------------------------------------------------------------------
(* DeconvSum: each item of the input times the kernel is added where the   *)
(* kernel falls in the output.                                             *)

DeconvSumOf(op, t) ==
    LET fmt    == op.pool.fmt
        input  == op.dims
        dims   == CroppedDims(op.pool, HwDims(fmt, Vals(input)), op.adjustments)
        output == Usizes(DeconvOutput(op.pool, Vals(input), op.adjustments))
        from   == Coordinates(<<ProductOf(op.pool.kernel), ProductOf(HwDims(fmt, input))>>)
        kernel == Coordinates(op.pool.kernel)
        pixels == Coordinates(HwDims(fmt, input))
        to(kg) == [x \in DOMAIN op.pool.kernel |->
                      kernel[kg[1] + 1][x] * op.pool.dilations[x] + pixels[kg[2] + 1][x] * op.pool.strides[x]
                          - dims[x].bef.n]
        gemm   == T(<<NDim(fmt, output), CDim(fmt, output), ProductOf(op.pool.kernel), Len(pixels)>>, t.data)
        n(idx) == IF HasN(fmt) THEN idx[1] ELSE 0
        bias(o) == IF op.bias = None THEN 0 ELSE op.bias[1][o + 1]
        sum(idx) == SumOf([i \in DOMAIN from |->
                              IF to(from[i]) = HwDims(fmt, idx)
                              THEN ItemAt(gemm, <<n(idx), CDim(fmt, idx)>> \o from[i]) ELSE 0])
    IN  FromIndex(output, LAMBDA idx : bias(CDim(fmt, idx)) + sum(idx))
=============================================================================
