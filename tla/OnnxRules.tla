------------------------------ MODULE OnnxRules -------------------------------
(***************************************************************************)
(* The operators that only the importer of ONNX has (onnx/src/ops), in an  *)
(* inference model: their rules and what each is replaced by, written as   *)
(* in ArrayRules.  An input whose value is needed must be a constant of    *)
(* the typed model.  An optional input is Unknown or <<its position>>.     *)
(***************************************************************************)
EXTENDS NnRules

\* A fact whose value is known (konst).
IsKonst(t)     == Len(t.data) = Product1(t.shape)
Scalar(dt)     == Tensor(dt, <<>>)
SymbolDim      == -1    \* a dimension that is a new symbol

OneAxes(n)     == [i \in 1 .. n |-> AO!Add(0)]
\* Axes of one are added before the others up to a rank.
WidenedTo(rank, t) == AxesFacts(OneAxes(SaturatingSub(rank, Len(t.shape))), t)

-----------------------------------------------------------------------------
(* On arrays.                                                              *)

CompressRules(op, at, v) ==
    CASE at[1] = "start" -> <<SameType(1, 1), Equals(In(2, "dt"), Val("Bool")), Equals(In(2, "rank"), Val(1))>>
                            \o (IF op.axis = Unknown THEN <<Equals(Out(1, "rank"), Val(1))>>
                                ELSE <<SameRank(1, 1), Given(<<In(1, "rank")>>, <<"rank">>)>>)
      [] at[1] = "rank"  -> LET others == SelectSeq(Axes(v[1]), LAMBDA k : k # AxisFrom(op.axis[1], v[1]))
                            IN  [i \in DOMAIN others |-> Equals(InDim(1, others[i]), OutDim(1, others[i]))]

\* Not a typed operator: it is only evaluated, on constants.
CompressEval(op, ts) ==
    LET kept == Len(SelectSeq(ts[2].data, LAMBDA c : c))
    IN  IF ~ IsKonst(ts[2]) THEN Fails
        ELSE IF op.axis = Unknown THEN Returns(Tensor(ts[1].dt, <<kept>>))
        ELSE Returns(Tensor(ts[1].dt, [ts[1].shape EXCEPT ![AxisFrom(op.axis[1], Len(ts[1].shape)) + 1] = kept]))

\* The begin and the end told of an axis, from 0, or Unknown.
Slice1Spec(op, axis) ==
    IF op.axes = Unknown THEN Only(<<op.starts[axis + 1], op.ends[axis + 1]>>)
    ELSE LET named == {i \in DOMAIN op.axes[1] : op.axes[1][i] = axis}
         IN  IF named = {} THEN Unknown ELSE Only(<<op.starts[Min(named)], op.ends[Min(named)]>>)

\* Not beyond the dimension, and from its end if negative.
Slice1Bound(x, dim) == IF x < 0 THEN dim + x ELSE Min({x, dim})

Slice1Rules(op, at, v) ==
    CASE at[1] = "start" -> (IF op.axes # Unknown THEN <<>>
                             ELSE <<Equals(In(1, "rank"), Val(Len(op.starts))), Equals(In(1, "rank"), Val(Len(op.ends)))>>)
                            \o <<SameRank(1, 1), SameType(1, 1), Given(<<In(1, "shape")>>, <<"shape">>)>>
      [] at[1] = "shape" -> [k \in DOMAIN v[1] |->
                                LET spec == Slice1Spec(op, k - 1)
                                IN  Equals(OutDim(1, k - 1),
                                           Val(IF spec = Unknown THEN v[1][k]
                                               ELSE Slice1Bound(spec[1][2], v[1][k]) - Slice1Bound(spec[1][1], v[1][k])))]

\* Axes that are not cut are not sliced.
Slice1Wire(op, ts) ==
    LET shape   == ts[1].shape
        axis(i) == IF op.axes = Unknown THEN i - 1 ELSE op.axes[1][i]
        dim(i)  == shape[axis(i) + 1]
        begin(i) == Slice1Bound(op.starts[i], dim(i))
        end(i)   == Slice1Bound(op.ends[i], dim(i))
        Cut(t, i) == IF begin(i) > 0 \/ end(i) < dim(i) THEN SliceFacts(axis(i), begin(i), end(i), t)[1] ELSE t
    IN  Returns(FoldLeft(Cut, ts[1], [i \in DOMAIN op.starts |-> i]))

\* The paddings before, then those after.
PadPairs(pads) == [k \in 1 .. Len(pads) \div 2 |-> <<pads[k], pads[k + Len(pads) \div 2]>>]
Pad11Rules(op, at, v) ==
    CASE at[1] = "start" -> (IF op.constant_input = Unknown THEN <<>>
                             ELSE <<Equals(In(1, "dt"), In(op.constant_input[1], "dt")),
                                    Equals(In(op.constant_input[1], "rank"), Val(0))>>)
                            \o <<SameType(1, 1), SameRank(1, 1), Equals(In(2, "rank"), Val(1)),
                                 Equals(InDim(2, 0), Times(2, In(1, "rank"))), Given(<<In(2, "value")>>, <<"pads">>)>>
      [] at[1] = "pads"  -> LET pads == PadPairs(v[1].data)
                            IN  [k \in DOMAIN pads |->
                                    Equals(OutDim(1, k - 1), SumOf(<<InDim(1, k - 1), Val(pads[k][1]), Val(pads[k][2])>>))]
Pad11Wire(op, ts) ==
    IF op.constant_input # Unknown /\ ~ IsKonst(ts[op.constant_input[1]]) THEN Fails
    ELSE IF ~ IsKonst(ts[2]) THEN Fails ELSE PadFacts(PadPairs(ts[2].data), ts[1])

\* Only the axis of the outputs is told, neither their types nor their ranks.
Split13Rules(op, at, v) ==
    CASE at[1] = "start"  -> <<Given(<<In(1, "shape"), In(2, "value")>>, <<"splits">>)>>
      [] at[1] = "splits" -> [i \in 1 .. Min({op.outputs, Len(v[2].data)}) |->
                                 Equals(OutDim(i, AxisFrom(op.axis, Len(v[1]))), Val(v[2].data[i]))]
Split13Wire(op, ts) ==
    IF ~ IsKonst(ts[2]) THEN Fails
    ELSE SplitWire([axis |-> AxisFrom(op.axis, Len(ts[1].shape)), outputs |-> Len(ts[2].data), split |-> <<ts[2].data>>], ts)

\* Squeeze and AddDims, told their axes by the second input.
BySecond(t) == [axes |-> Range(t.data)]
Squeeze13Rules(op, at, v) ==
    CASE at[1] = "start" -> <<Equals(Out(1, "dt"), In(1, "dt")), Given(<<In(1, "shape"), In(2, "value")>>, <<"axes">>)>>
      [] at[1] = "axes"  -> Gives("shape", SqueezeShape([axes |-> <<Range(v[2].data)>>], v[1]), Dims)
Squeeze13Wire(op, ts) == IF IsKonst(ts[2]) THEN SqueezeWire([axes |-> <<Range(ts[2].data)>>], ts) ELSE Fails

Unsqueeze13Rules(op, at, v) ==
    CASE at[1] = "start" -> <<Equals(Out(1, "dt"), In(1, "dt")), Given(<<In(1, "shape"), In(2, "value")>>, <<"axes">>)>>
      [] at[1] = "axes"  -> <<Equals(Out(1, "shape"), Dims(AddDimsShape(BySecond(v[2]), v[1])))>>
Unsqueeze13Wire(op, ts) == IF IsKonst(ts[2]) THEN AddDimsWire(BySecond(ts[2]), ts) ELSE Fails

\* The new axis may be last, so a negative one counts from one further.
HotAxis(op, rank) == AxisFrom(op.axis, rank + 1)
OneHotRules(op, at, v) ==
    CASE at[1] = "start" -> <<SameType(3, 1), Equals(Plus(In(1, "rank"), 1), Out(1, "rank")), Equals(In(3, "rank"), Val(1)),
                              Equals(InDim(3, 0), Val(2)), Given(<<In(1, "rank")>>, <<"rank">>)>>
      [] at[1] = "rank"  -> LET axis == HotAxis(op, v[1])
                            IN  [k \in 1 .. axis |-> Equals(InDim(1, k - 1), OutDim(1, k - 1))]
                                \o [k \in 1 .. v[1] - axis |-> Equals(InDim(1, axis + k - 1), OutDim(1, axis + k))]
                                \o <<Given(<<In(2, "value")>>, <<"dim">>)>>
      [] at[1] = "dim"   -> <<Equals(OutDim(1, HotAxis(op, v[1])), Val(v[2].data[1]))>>
OneHotWire(op, ts) ==
    IF ~ IsKonst(ts[2]) \/ ~ IsKonst(ts[3]) THEN Fails
    ELSE IF ts[2].data[1] < 0 THEN Fails
    ELSE OneHotFacts(HotAxis(op, Len(ts[1].shape)), ts[2].data[1], ts[3].dt, ts[1])

NonZeroRules(op, at, v) ==
    <<Equals(Out(1, "dt"), Val("I64")), Equals(Out(1, "rank"), Val(2)), Equals(OutDim(1, 0), In(1, "rank"))>>

\* How many there are is a symbol until the value is there.
NonZeroWire(op, ts) ==
    Returns(Tensor("I64", <<Len(ts[1].shape),
                            IF IsKonst(ts[1]) THEN Len(SelectSeq(ts[1].data, LAMBDA x : x # 0)) ELSE SymbolDim>>))

ResizedShape(op, shape, scales, sizes) ==
    IF scales # Unknown /\ Len(scales[1]) = Len(shape) THEN Returns([k \in DOMAIN shape |-> shape[k] * scales[1][k]])
    ELSE IF sizes # Unknown /\ Len(sizes[1]) = Len(shape) THEN Returns(sizes[1]) ELSE Fails

\* Scales are whole numbers here.  With four inputs, scales that are not as many as the
\* dimensions are not the ones that matter.
RulesWithScales(op) ==
    LET scales == op.scales[1]
    IN  <<Equals(In(scales, "dt"), Val("F32")), Equals(In(scales, "rank"), Val(1)),
          Equals(InDim(scales, 0), In(1, "rank")), Given(<<In(1, "shape"), In(scales, "value")>>, <<"scales">>)>>
RulesWithSizes(op) ==
    <<Equals(In(op.sizes[1], "rank"), Val(1)), Equals(InDim(op.sizes[1], 0), In(1, "rank")),
      Given(<<In(1, "rank")>>, <<"sizes">>)>>
ResizeRules(op, n, at, v) ==
    CASE at[1] = "start"  -> <<SameType(1, 1), SameRank(1, 1)>>
                             \o (IF n = 3 /\ op.scales = Only(3) THEN RulesWithScales(op)
                                 ELSE IF n = 3 /\ op.sizes = Only(3) THEN RulesWithSizes(op)
                                 ELSE <<Given(<<In(1, "rank"), In(op.scales[1], "shape")>>, <<"both">>)>>)
      [] at[1] = "both"   -> IF v[2] = <<>> \/ v[2][1] # v[1] THEN RulesWithSizes(op) ELSE RulesWithScales(op)
      [] at[1] = "scales" -> LET seen  == SubSeq(v, Len(v) - 1, Len(v))
                                 shape == ResizedShape(op, seen[1], Only(seen[2].data), Unknown)
                             IN  IF shape = Fails THEN <<Bail>>
                                 ELSE [k \in DOMAIN seen[1] |-> Equals(OutDim(1, k - 1), Val(shape[1][k]))]
      [] at[1] = "sizes"  -> [k \in 1 .. Last(v) |-> Equals(OutDim(1, k - 1), InItem(op.sizes[1], k - 1))]

\* The value of an optional input, when it is known.
KonstOf(option, ts) ==
    IF option = Unknown THEN Unknown ELSE IF IsKonst(ts[option[1]]) THEN Only(ts[option[1]].data) ELSE Unknown
ResizeWire(op, ts) ==
    Then(ResizedShape(op, ts[1].shape, KonstOf(op.scales, ts), KonstOf(op.sizes, ts)),
         LAMBDA shape : Returns(Tensor(ts[1].dt, shape)))

-----------------------------------------------------------------------------
(* Arithmetic.                                                             *)

\* Bounds are scalars.
Clip11Rules(op, at, v) ==
    FlattenSeq([i \in DOMAIN (op.min \o op.max) |-> <<Equals(In(1, "dt"), In((op.min \o op.max)[i], "dt")),
                                                      Equals(In((op.min \o op.max)[i], "rank"), Val(0))>>])
    \o <<SameType(1, 1), SameShape(1, 1)>>
Clip11Wire(op, ts) ==
    LET rank     == Len(ts[1].shape)
        bound(i) == AxesFacts([k \in 1 .. rank |-> AO!Add(k - 1)], ts[i])
        Bounded(fn, option, t) ==
            IF option = Unknown THEN Returns(t) ELSE Then(bound(option[1]), LAMBDA b : BinFacts(fn, <<t, b>>))
    IN  Then(Bounded("Max", op.min, ts[1]), LAMBDA t : Bounded("Min", op.max, t))

GemmRules(op, at, v) ==
    LET ca == IF op.a_trans THEN 0 ELSE 1
        cb == IF op.b_trans THEN 0 ELSE 1
    IN  <<SameType(3, 1), Equals(In(1, "rank"), Val(2)), Equals(In(2, "rank"), Val(2)), Equals(Out(1, "rank"), Val(2)),
          SameType(1, 1), SameType(2, 1), Equals(InDim(1, 1 - ca), OutDim(1, 0)),
          Equals(InDim(1, ca), InDim(2, 1 - cb)), Equals(InDim(2, cb), OutDim(1, 1))>>

\* alpha and beta are numbers of 32 bits, of as many axes as the product.
GemmWire(op, ts) ==
    LET factor    == Tensor("F32", Ones(2))
        scaled(t) == IF op.alpha = 1 THEN Returns(t) ELSE BinFacts("Mul", <<factor, t>>)
        more(t)   == IF op.beta = 0 THEN Returns(t)
                     ELSE Then(WidenedTo(Len(t.shape), ts[3]),
                               LAMBDA c : Then(BinFacts("Mul", <<factor, c>>), LAMBDA bc : BinFacts("Add", <<t, bc>>)))
    IN  Then(MatMulFacts([a_trans |-> op.a_trans, b_trans |-> op.b_trans, c_trans |-> FALSE], <<ts[1], ts[2]>>),
             LAMBDA ab : Then(scaled(ab), more))

IsInteger(dt)  == dt \in (Range(Signed) \ {"TDim"}) \cup Range(Unsigned)

\* The output has the shape of the first input, even if the second one is wider.
PowRules(op, at, v) ==
    CASE at[1] = "start"   -> <<SameType(1, 1), SameShape(1, 1), With(In(1, "shape"), <<"a">>)>>
      [] at[1] = "a"       -> <<With(In(2, "shape"), <<"a and b">>)>>
      [] at[1] = "a and b" -> IF Broadcast(v) = <<>> THEN <<>>
                              ELSE <<Equals(Out(1, "shape"), Const(Broadcast(v)[1]))>>

\* Both are made of a type, and the result of that of the first input if it was not
\* their own.
PowWire(op, ts) ==
    LET wide  == RankBroadcast(ts)
        dt    == CommonSuperType(ts[1].dt, ts[2].dt)
        As(t) == BinFacts("Pow", [i \in 1 .. 2 |-> CastFacts(t, wide[i])[1]])
    IN  IF IsInteger(ts[1].dt) # IsInteger(ts[2].dt) THEN Then(As("F64"), LAMBDA t : CastFacts(ts[1].dt, t))
        ELSE IF dt = Unknown THEN Fails ELSE As(dt[1])

\* The signs are told by comparing with a zero of the type and the rank of the first
\* input, as it is before it is made like the second.
RemIntWire(op, ts) ==
    LET dt    == CommonSuperType(ts[1].dt, ts[2].dt)
        zero  == Tensor(ts[1].dt, Ones(Len(ts[1].shape)))
        wide  == RankBroadcast(ts)
        wires == [i \in 1 .. 2 |-> CastFacts(dt[1], wide[i])[1]]
        Signs(t)       == BinFacts("Greater", <<zero, t>>)
        Adjusted(rem)  == BinFacts("Add", <<rem, wires[2]>>)
        Chosen(rem)    == Then(Signs(rem), LAMBDA r : Then(Signs(wires[2]), LAMBDA b :
                          Then(BinFacts("And", <<r, b>>), LAMBDA adjust : Then(Adjusted(rem), LAMBDA adjusted :
                          IffFacts(<<adjust, adjusted, rem>>)))))
    IN  IF dt = Unknown THEN Fails
        ELSE IF dt[1] \in Range(Unsigned) THEN BinFacts("Rem", wires) ELSE Then(BinFacts("Rem", wires), Chosen)

-----------------------------------------------------------------------------
(* Quantized products, which are of the plain ones with a bias that is     *)
(* zero, and parameters.                                                   *)

Plain == [a_trans |-> FALSE, b_trans |-> FALSE, c_trans |-> FALSE]

\* compute_shapes tells the shape of the product as a matrix, third, and the one that
\* has lost the axes that were lent to vectors, fourth: this is the third.
MatrixProduct(a, b) ==
    LET matA == IF Len(a) < 2 THEN <<1>> \o a ELSE a
        matB == IF Len(b) < 2 THEN b \o <<1>> ELSE b
    IN  InferredProduct(Plain, matA, matB)

\* QMatMul::output_facts, when the bias is one zero.
QMatMulFacts(dt, a, b) ==
    IF Len(a.shape) # Len(b.shape) THEN Fails
    ELSE Then(ProductShape(Plain, a.shape, b.shape), LAMBDA shape : Returns(Tensor(dt, shape)))

MatMulIntegerRules(op, at, v) ==
    CASE at[1] = "start"  -> <<Equals(Out(1, "dt"), Val("I32"))>>
                             \o (IF op.a_zp = Unknown THEN <<>> ELSE <<Equals(In(op.a_zp[1], "dt"), In(1, "dt"))>>)
                             \o (IF op.b_zp = Unknown THEN <<>> ELSE <<Equals(In(op.b_zp[1], "dt"), In(2, "dt"))>>)
                             \o <<Given(Each(2, "shape"), <<"shapes">>)>>
      [] at[1] = "shapes" -> Gives("shape", MatrixProduct(v[1], v[2]), Dims)
MatMulIntegerWire(op, ts) == Once(LAMBDA ab : QMatMulFacts("I32", ab[1], ab[2]), RankBroadcast(ts))

\* a, its scale, its zero point, the same of b, the scale and the zero point of c.
QLinearMatMulRules(op, at, v) ==
    CASE at[1] = "start"  -> <<Equals(In(1, "dt"), In(3, "dt")), Equals(In(4, "dt"), In(6, "dt")),
                               Equals(In(2, "dt"), Val("F32")), Equals(In(5, "dt"), Val("F32")),
                               Equals(In(7, "dt"), Val("F32")), Equals(Out(1, "dt"), In(8, "dt")),
                               Equals(In(2, "rank"), In(3, "rank")), Equals(In(5, "rank"), In(6, "rank")),
                               Equals(In(7, "rank"), In(8, "rank")), Given(<<In(1, "shape"), In(4, "shape")>>, <<"shapes">>)>>
      [] at[1] = "shapes" -> Gives("shape", InferredProduct(Plain, v[1], v[2]), Dims)
QLinearMatMulWire(op, ts) ==
    Once(LAMBDA ab : QMatMulFacts(ts[8].dt, ab[1], ab[2]), RankBroadcast(<<ts[1], ts[4]>>))

\* The scale and, if it is an input, the zero point are constants.
QuantizeLinearRules(op, at, v) ==
    <<Equals(In(2, "dt"), Val("F32")), Equals(Out(1, "dt"), IF op.zero_point = Unknown THEN Val("U8") ELSE In(3, "dt")),
      SameShape(1, 1)>>
QuantizeLinearWire(op, ts) ==
    LET dt == IF op.zero_point = Unknown THEN "U8" ELSE ts[3].dt
    IN  IF ~ IsKonst(ts[2]) \/ (op.zero_point # Unknown /\ ~ IsKonst(ts[3])) \/ dt \notin {"U8", "I8"} THEN Fails
        ELSE Returns(Tensor(dt, ts[1].shape))

DequantizeLinearRules(op, at, v) ==
    <<Equals(In(2, "dt"), Val("F32")), Equals(Out(1, "dt"), Val("F32"))>>
    \o (IF op.zero_point = Unknown THEN <<>> ELSE <<Equals(In(1, "dt"), In(3, "dt"))>>) \o <<SameShape(1, 1)>>
DequantizeLinearWire(op, ts) ==
    LET dt == IF op.zero_point = Unknown THEN "U8" ELSE ts[3].dt
    IN  IF ~ IsKonst(ts[2]) \/ (op.zero_point # Unknown /\ ~ IsKonst(ts[3])) \/ dt \notin {"U8", "I8", "I32"} THEN Fails
        ELSE Returns(Tensor("F32", ts[1].shape))

\* The rules say nothing of the shapes of the scale and of the zero point.
DynamicQuantizeLinearRules(op, at, v) ==
    <<Equals(In(1, "dt"), Val("F32")), SameShape(1, 1), Equals(Out(1, "dt"), Val("U8")),
      Equals(Out(2, "dt"), Val("F32")), Equals(Out(3, "dt"), Val("U8"))>>
DynamicQuantizeLinearWire(op, ts) == <<Tensor("U8", ts[1].shape), Scalar("F32"), Scalar("U8")>>

-----------------------------------------------------------------------------
(* Layers.                                                                 *)

PreluRules(op, at, v) == <<SameType(1, 1), SameShape(1, 1)>>
PreluWire(op, ts) ==
    LET a    == ts[1]
        zero == Tensor(a.dt, Ones(Len(a.shape)))
    IN  Then(WidenedTo(Len(a.shape), ts[2]), LAMBDA b : Then(BinFacts("Mul", <<a, b>>), LAMBDA ab :
        Then(BinFacts("Greater", <<zero, a>>), LAMBDA test : IffFacts(<<test, ab, a>>))))

\* Reduce, told its axes by the second input if there is one; no axes are all of them,
\* unless it is a no-op then.
Reduced13(op, rank, axes) ==
    [axes |-> IF axes = {} /\ ~ op.noop THEN <<Range(Axes(rank))>> ELSE <<axes>>, keep |-> op.keep, reducer |-> op.reducer]
Reduce13Rules(op, at, v) ==
    LET axes    == IF op.have_axis_input THEN Range(v[2].data) ELSE {}
        reduced == Reduced13(op, v[1], axes)
    IN  CASE at[1] = "start" -> <<IF op.reducer \in {"ArgMax", "ArgMin"} THEN Equals(Out(1, "dt"), Val("I64")) ELSE SameType(1, 1),
                                  Given(IF op.have_axis_input THEN <<In(1, "rank"), In(2, "value")>> ELSE <<In(1, "rank")>>,
                                        <<"axes">>)>>
          [] at[1] = "axes"  -> <<IF op.keep THEN SameRank(1, 1)
                                  ELSE Equals(Plus(In(1, "rank"), - Cardinality(reduced.axes[1])), Out(1, "rank")),
                                  Given(<<In(1, "shape")>>, <<"shape">>)>>
          [] at[1] = "shape" -> <<Equals(Out(1, "shape"), Dims(ReducedShape(reduced, Last(v))))>>
Reduce13Wire(op, ts) ==
    IF op.have_axis_input /\ ~ IsKonst(ts[2]) THEN Fails
    ELSE ReduceWire(Reduced13(op, Len(ts[1].shape), IF op.have_axis_input THEN Range(ts[2].data) ELSE {}), ts)

\* x, then the scale, the bias, the mean and the variance of its channels; NCHW.
BatchNormRules(op, at, v) ==
    CASE at[1] = "start" -> <<EqualsAll(<<Out(1, "dt")>> \o Each(5, "dt")), SameShape(1, 1),
                              EqualsAll(Tail(Each(5, "shape"))), Given(<<In(1, "shape")>>, <<"shape">>)>>
      [] at[1] = "shape" -> <<Equals(InDim(2, 0), Val(v[1][CAxis("NCHW", Len(v[1])) + 1]))>>
BatchNormWire(op, ts) ==
    LET x       == ts[1]
        channel == CAxis("NCHW", Len(x.shape)) + 1
        \* slope and inter
        param   == Tensor(x.dt, [Ones(Len(x.shape)) EXCEPT ![channel] = x.shape[channel]])
    IN  IF (\E i \in 2 .. 5 : ~ IsKonst(ts[i])) \/ x.dt \notin Range(Floats) THEN Fails
        ELSE Then(BinFacts("Mul", <<param, x>>), LAMBDA t : BinFacts("Add", <<param, t>>))

\* Whether there is a mask or not, the typed operator tells one output.
DropoutRules(op, at, v) ==
    <<SameType(1, 1), SameShape(1, 1)>>
    \o (IF op.mask THEN <<Equals(Out(2, "dt"), Val("Bool")), SameShape(1, 2)>> ELSE <<>>)
DropoutWire(op, ts) ==
    IF op.mask /\ IsKonst(ts[1]) THEN <<ts[1], Tensor("Bool", ts[1].shape)>> ELSE Returns(ts[1])

InstanceNormRules(op, at, v) ==
    <<SameType(1, 1), Equals(In(1, "dt"), In(2, "dt")), Equals(In(1, "dt"), In(3, "dt")),
      Equals(In(2, "shape"), In(3, "shape")), SameShape(1, 1), Equals(InDim(2, 0), InDim(1, 1))>>

\* The mean and the variance are over all the axes but the second; epsilon is of 32 bits.
InstanceNormWire(op, ts) ==
    LET x       == ts[1]
        rank    == Len(x.shape)
        Mean(t) == ReduceWire([axes |-> <<Range(Axes(rank)) \ {1}>>, keep |-> TRUE, reducer |-> "Mean"], <<t>>)
        wide(t) == AxesFacts(<<AO!Add(0)>> \o [i \in 1 .. rank - 2 |-> AO!Add(2)], t)
        Scaled(fn, t, param) == Then(wide(param), LAMBDA p : BinFacts(fn, <<t, p>>))
    IN  Then(Mean(x),                                       LAMBDA mean :
        Then(BinFacts("Sub", <<x, mean>>),                  LAMBDA diff :
        Then(Mean(diff),                                    LAMBDA vari :
        Then(BinFacts("Add", <<Tensor("F32", Ones(rank)), vari>>), LAMBDA div :
        Then(BinFacts("Mul", <<diff, div>>),                LAMBDA divised :
        Then(Scaled("Mul", divised, ts[2]),                 LAMBDA scaled : Scaled("Add", scaled, ts[3])))))))

\* LRN, CategoryMapper: the shape of the input, and types of their own.
LrnRules(op, at, v) == <<SameType(1, 1), SameShape(1, 1)>>
CategoryMapperRules(op, at, v) ==
    <<SameShape(1, 1), Equals(In(1, "dt"), Val(op.from)), Equals(Out(1, "dt"), Val(op.to))>>
CategoryMapperWire(op, ts) == Returns(Tensor(op.to, ts[1].shape))

-----------------------------------------------------------------------------
(* Transposed convolutions: the kernel is IOHW, where O are the channels   *)
(* that come out.                                                          *)

\* output_shape
Deconvoluted(pool, shape, adjustments) ==
    LET f  == pool.format
        hw == HwDims(f, shape)
        n  == Len(hw)
    IN  FromNCHW(f, shape[1], pool.channels[1],
                 [d \in DOMAIN hw |-> DeconvOne(pool.padding, d, hw[d], pool.kernel[d], OrOnes(pool.dilations, n)[d],
                                                OrOnes(pool.strides, n)[d], adjustments[d]).deconvoluted])

\* adjustments: what makes the output as long as it is asked; not for same paddings.
Adjustments(pool, input, output) ==
    LET n      == Len(input)
        pad(d) == IF pool.padding.kind = "explicit" THEN pool.padding.before[d] + pool.padding.after[d] ELSE 0
    IN  IF pool.padding.kind \in {"upper", "lower"} THEN Fails
        ELSE Returns([d \in DOMAIN input |->
                output[d] + pad(d) - OrOnes(pool.strides, n)[d] * (input[d] - 1)
                - (pool.kernel[d] - 1) * OrOnes(pool.dilations, n)[d] - 1])

DeconvPool(op, kernel) ==
    [op.pool EXCEPT !.kernel = SubSeq(kernel, 3, Len(kernel)), !.channels = Only(kernel[2] * op.group)]
AdjustmentsOr0(op, n) == IF op.adjustments = Unknown THEN [d \in 1 .. n |-> 0] ELSE op.adjustments[1]
DeconvShape(op, x, w) ==
    IF op.output_shape # Unknown THEN <<x[1], w[2] * op.group>> \o op.output_shape[1]
    ELSE Deconvoluted(DeconvPool(op, w), x, AdjustmentsOr0(op, Len(x) - 2))

ConvTransposeRules(op, at, v) ==
    CASE at[1] = "start" -> <<SameType(1, 1), Equals(In(1, "dt"), In(2, "dt")), Equals(In(1, "rank"), In(2, "rank")),
                              SameRank(1, 1), Equals(OutDim(1, 0), InDim(1, 0)), Equals(InDim(1, 1), InDim(2, 0)),
                              Equals(OutDim(1, 1), Times(op.group, InDim(2, 1))), Given(Each(2, "shape"), <<"shapes">>)>>
                            \o (IF op.have_bias THEN <<Equals(In(3, "dt"), In(1, "dt")), Equals(In(3, "rank"), Val(1)),
                                                       Equals(InDim(3, 0), OutDim(1, 1))>> ELSE <<>>)
      [] at[1] = "shapes" -> <<Equals(Out(1, "shape"), Dims(DeconvShape(op, v[1], v[2])))>>

\* An output shape that was asked for becomes the adjustments that give it.
ConvTransposeWire(op, ts) ==
    LET x    == ts[1]
        pool == DeconvPool(op, ts[2].shape)
        n    == Len(x.shape) - 2
        adjusted == IF op.output_shape = Unknown THEN Returns(AdjustmentsOr0(op, n))
                    ELSE Adjustments(pool, SubSeq(x.shape, 3, n + 2), op.output_shape[1])
    IN  IF ~ IsKonst(ts[2]) \/ (op.have_bias /\ ~ IsKonst(ts[3])) THEN Fails
        ELSE Then(adjusted, LAMBDA a : Returns(Tensor(x.dt, Deconvoluted(pool, x.shape, a))))
=============================================================================
