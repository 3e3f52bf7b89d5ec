----------------------------- MODULE TypedFacts -----------------------------
(***************************************************************************)
(* The facts of the outputs of the typed operators (output_facts of the    *)
(* operators of core/src/ops): the type and the shape of what they return, *)
(* for tensors of known shapes.  An operator that can not be there on such *)
(* inputs returns nothing (Fails).                                         *)
(***************************************************************************)
EXTENDS Factoid

AO == INSTANCE AxisOp

Returns(t) == <<t>>

\* What f makes of x, which is evaluated once.
Once(f(_), x) == CHOOSE y \in {f(v) : v \in {x}} : TRUE

\* What use makes of what is returned, if something is.
Then(returned, use(_)) == Once(LAMBDA found : IF found = Fails THEN Fails ELSE use(found[1]), returned)

Product1(dims)   == FoldLeft(LAMBDA acc, d : acc * d, 1, dims)
DivCeil(n, by)   == (n + by - 1) \div by
AxisFrom(a, rank) == IF a < 0 THEN a + rank ELSE a   \* negative axes count from the end
Spliced(s, at, with) == SubSeq(s, 1, at) \o with \o SubSeq(s, at + 2, Len(s))

\* multi_broadcast, <<>> when the shapes do not go together.
MultiBroadcast(shapes) ==
    LET rank   == Max({Len(shapes[s]) : s \in DOMAIN shapes})
        wide(i) == {shapes[s][Len(shapes[s]) - i] : s \in {x \in DOMAIN shapes : i < Len(shapes[x])}} \ {1}
    IN  IF \E i \in 0 .. rank - 1 : Cardinality(wide(i)) > 1 THEN Fails
        ELSE Returns([k \in 1 .. rank |-> IF wide(rank - k) = {} THEN 1 ELSE CHOOSE d \in wide(rank - k) : TRUE])

\* The axis operators.
AxisFacts(op, t) ==
    LET shape == AO!ChangeShape(op, t.shape)
    IN  IF shape = AO!None THEN Fails ELSE Returns(Tensor(t.dt, shape[1]))

AxesFacts(ops, t) == FoldLeft(LAMBDA ts, op : IF ts = Fails THEN Fails ELSE AxisFacts(op, ts[1]), Returns(t), ops)

SliceFacts(axis, start, end, t) == Returns(Tensor(t.dt, [t.shape EXCEPT ![axis + 1] = end - start]))

\* Downsample::transform_dim
DownsampleFacts(axis, stride, modulo, t) ==
    Returns(Tensor(t.dt, [t.shape EXCEPT ![axis + 1] = DivCeil(@ - modulo, Abs(stride))]))

PadFacts(pads, t) ==
    IF Len(pads) # Len(t.shape) THEN Fails
    ELSE Returns(Tensor(t.dt, [k \in DOMAIN t.shape |-> t.shape[k] + pads[k][1] + pads[k][2]]))

TileFacts(multipliers, t) == Returns(Tensor(t.dt, [k \in DOMAIN t.shape |-> t.shape[k] * multipliers[k]]))

BroadcastToFacts(shape, t) == Returns(Tensor(t.dt, shape))

\* Gather::compute_output_shape: the indices where the axis was.
GatherShape(axis, shape, indices) == Spliced(shape, axis, indices)
GatherFacts(axis, ts)             == Returns(Tensor(ts[1].dt, GatherShape(axis, ts[1].shape, ts[2].shape)))

\* GatherNd::compute_shape: the last dimension of the indices is how many axes they name.
GatherNdFacts(batchDims, ts) ==
    LET indices == ts[2].shape
    IN  Returns(Tensor(ts[1].dt, Front(indices) \o SubSeq(ts[1].shape, Last(indices) + batchDims + 1, Len(ts[1].shape))))

GatherElementsFacts(ts) == Returns(Tensor(ts[1].dt, ts[2].shape))
ScatterElementsFacts(ts) == Returns(Tensor(ts[1].dt, ts[1].shape))
ScatterNdFacts(ts)       == Returns(Tensor(ts[1].dt, ts[1].shape))

OneHotFacts(axis, dim, dt, t) ==
    Returns(Tensor(dt, SubSeq(t.shape, 1, axis) \o <<dim>> \o SubSeq(t.shape, axis + 1, Len(t.shape))))

\* The reduced axes stay, of one.
ReduceFacts(axes, reducer, t) ==
    Returns(Tensor(IF reducer \in {"ArgMax", "ArgMin"} THEN "I64" ELSE t.dt,
                   [k \in DOMAIN t.shape |-> IF k - 1 \in axes THEN 1 ELSE t.shape[k]]))

\* wire_rank_broadcast: axes of one before those of the shorter one.
RankBroadcast(ts) ==
    LET rank == Max({Len(ts[1].shape), Len(ts[2].shape)})
    IN  [i \in 1 .. 2 |-> [ts[i] EXCEPT !.shape = [k \in 1 .. rank - Len(@) |-> 1] \o @]]

Comparisons == {"Equals", "NotEquals", "Lesser", "Greater", "LesserEqual", "GreaterEqual"}

\* BinMiniOp::result_datum_type, of bin_to_super_type and bin_to_bool.
ResultType(fn, a, b) ==
    IF fn \in Comparisons THEN Only("Bool") ELSE CommonSuperType(a, b)

\* TypedBinOp
BinFacts(fn, ts) ==
    IF Len(ts[1].shape) # Len(ts[2].shape) THEN Fails
    ELSE Then(ResultType(fn, ts[1].dt, ts[2].dt), LAMBDA dt :
         Then(MultiBroadcast(<<ts[1].shape, ts[2].shape>>), LAMBDA shape : Returns(Tensor(dt, shape))))

IffFacts(ts) ==
    IF ts[2].dt # ts[3].dt THEN Fails
    ELSE Then(MultiBroadcast(<<ts[1].shape, ts[2].shape, ts[3].shape>>), LAMBDA shape : Returns(Tensor(ts[2].dt, shape)))

CastFacts(dt, t) == Returns(Tensor(dt, t.shape))

\* output_type of a matrix product.
ProductType(dt) == IF dt \in Range(Floats) THEN dt ELSE "I32"

\* compute_shape of a matrix product; its axes are the last two.
ProductShape(op, a, b) ==
    LET turned(s, trans) == IF trans THEN <<s[Len(s)], s[Len(s) - 1]>> ELSE <<s[Len(s) - 1], s[Len(s)]>>
        prefix == MultiBroadcast(<<SubSeq(a, 1, Len(a) - 2), SubSeq(b, 1, Len(b) - 2)>>)
        mk     == turned(a, op.a_trans)
        kn     == turned(b, op.b_trans)
    IN  IF prefix = Fails \/ mk[2] # kn[1] THEN Fails
        ELSE Returns(prefix[1] \o IF op.c_trans THEN <<kn[2], mk[1]>> ELSE <<mk[1], kn[2]>>)

MatMulFacts(op, ts) ==
    IF Len(ts[1].shape) # Len(ts[2].shape) THEN Fails
    ELSE Then(ProductShape(op, ts[1].shape, ts[2].shape), LAMBDA shape : Returns(Tensor(ProductType(ts[1].dt), shape)))

ConcatFacts(axis, dt, ts) ==
    Returns(Tensor(dt, [ts[1].shape EXCEPT ![axis + 1] = FoldLeft(LAMBDA acc, t : acc + t.shape[axis + 1], 0, ts)]))

-----------------------------------------------------------------------------
(* Convolutions and pools.  pool is [format, kernel, padding, dilations,   *)
(* strides, channels]; a padding is [kind, before, after, ceil], where     *)
(* only the explicit kind uses the last three.                             *)

\* The places of the dimensions in a data format (BaseDataShape).
HasN(format)           == format \in {"NCHW", "NHWC"}
CIsLast(format)        == format \in {"NHWC", "HWC"}
CAxis(format, rank)    == IF CIsLast(format) THEN rank - 1 ELSE IF HasN(format) THEN 1 ELSE 0
HAxis(format)          == (IF HasN(format) THEN 1 ELSE 0) + (IF CIsLast(format) THEN 0 ELSE 1)
HwRank(format, rank)   == rank - 1 - (IF HasN(format) THEN 1 ELSE 0)
HwDims(format, shape)  == SubSeq(shape, HAxis(format) + 1, HAxis(format) + HwRank(format, Len(shape)))
FromNCHW(format, n, c, hw) ==
    LET batch   == IF HasN(format) THEN <<n>> ELSE <<>>
    IN  IF CIsLast(format) THEN batch \o hw \o <<c>> ELSE batch \o <<c>> \o hw

SaturatingSub(a, b)           == IF a < b THEN 0 ELSE a - b
KernelField(kernel, dilation) == (kernel - 1) * dilation + 1

\* PaddingSpec::compute_one: how long the output is, and what is added around.
Padded(out, before, after) == [convoluted |-> out, before |-> before, after |-> after]
ComputeOne(padding, d, input, kernel, dilation, stride) ==
    LET field == KernelField(kernel, dilation)
        rest  == SaturatingSub(input + padding.before[d] + padding.after[d], field)
        same  == DivCeil(input, stride)
        pad   == SaturatingSub((same - 1) * stride + field, input)
        less  == pad \div 2
    IN  CASE padding.kind = "valid"    -> Padded(DivCeil(SaturatingSub(input + 1, field), stride), 0, 0)
          [] padding.kind = "explicit" -> Padded((IF padding.ceil THEN DivCeil(rest, stride) ELSE rest \div stride) + 1,
                                                 padding.before[d], padding.after[d])
          [] padding.kind = "upper"    -> Padded(same, less, pad - less)
          [] padding.kind = "lower"    -> Padded(same, pad - less, less)

\* PaddingSpec::compute_one_for_deconv
DeconvOne(padding, d, input, kernel, dilation, stride, adjustment) ==
    LET field == KernelField(kernel, dilation)
        crop  == field - stride + adjustment
        less  == crop \div 2
        whole == (input - 1) * stride + field
        Cropped(before, after) == [deconvoluted |-> whole - before - after, before |-> before, after |-> after]
        Adjusted(c) == [c EXCEPT !.deconvoluted = @ + adjustment]
    IN  CASE padding.kind = "valid"    -> Adjusted(Cropped(0, 0))
          [] padding.kind = "explicit" -> Adjusted(Cropped(padding.before[d], padding.after[d]))
          [] padding.kind = "upper"    -> Cropped(less, crop - less)
          [] padding.kind = "lower"    -> Cropped(crop - less, less)

Ones(n)             == [i \in 1 .. n |-> 1]
OrOnes(option, n)   == IF option = Unknown THEN Ones(n) ELSE option[1]

\* PaddingSpec::compute: the spatial dimensions of the output.
Convoluted(pool, hw, kernel) ==
    LET n == Len(hw)
    IN  [d \in DOMAIN hw |-> ComputeOne(pool.padding, d, hw[d], kernel[d], OrOnes(pool.dilations, n)[d],
                                        OrOnes(pool.strides, n)[d]).convoluted]

\* PoolSpec::output_shape
PoolShape(pool, shape) ==
    LET f == pool.format
    IN  FromNCHW(f, shape[1], IF pool.channels = Unknown THEN shape[CAxis(f, Len(shape)) + 1] ELSE pool.channels[1],
                 Convoluted(pool, HwDims(f, shape), pool.kernel))

SumPoolFacts(pool, t) == Returns(Tensor(t.dt, PoolShape(pool, t.shape)))
MaxPoolFacts(pool, indices, t) ==
    SumPoolFacts(pool, t) \o (IF indices = Unknown THEN <<>> ELSE <<Tensor(indices[1], PoolShape(pool, t.shape))>>)

\* ConvUnary, not quantized; kernel is the shape of the kernel, bias the length of the
\* bias, and the format of the kernel tells where its channels are.
KernelHAxis(format)           == IF format = "OIHW" THEN 2 ELSE 0
KernelSpatial(format, kernel) == SubSeq(kernel, KernelHAxis(format) + 1, KernelHAxis(format) + Len(kernel) - 2)
InputChannels(op, kernel)  == IF op.kernel_fmt = "OIHW" THEN kernel[2] * op.group ELSE kernel[Len(kernel) - 1]
OutputChannels(op, kernel) == IF op.kernel_fmt = "OIHW" THEN kernel[1] ELSE Last(kernel) * op.group
ConvFacts(op, pool, kernel, bias, t) ==
    LET f == pool.format
    IN  IF t.shape[CAxis(f, Len(t.shape)) + 1] # InputChannels(op, kernel) THEN Fails
        ELSE IF pool.channels # Only(OutputChannels(op, kernel)) THEN Fails
        ELSE IF bias # Unknown /\ bias[1] # OutputChannels(op, kernel) THEN Fails
        ELSE SumPoolFacts(pool, t)
=============================================================================
