------------------------------ MODULE NnRules -------------------------------
(***************************************************************************)
(* The element-wise and binary operators, matrix products, reductions,     *)
(* pools, soft maxima and convolutions of an inference model (hir/src/ops, *)
(* hir/src/ops/nn, hir/src/ops/cnn), written as in ArrayRules.             *)
(***************************************************************************)
EXTENDS ArrayRules

\* A unary operator with the type it always returns, if it has one.
ElementRules(op, at, v) ==
    CASE at[1] = "start" -> <<Given(<<In(1, "dt")>>, <<"type">>), SameShape(1, 1)>>
      [] at[1] = "type"  -> <<Equals(Out(1, "dt"), IF op.result = Unknown THEN Val(v[1]) ELSE Const(op.result))>>
ElementFacts(op, t) == Returns(Tensor(IF op.result = Unknown THEN t.dt ELSE op.result[1], t.shape))

-----------------------------------------------------------------------------
(* Binary operators.                                                       *)

\* infer_shape_broadcasting: the i-th dimension from the end.
BroadcastDim(shapes, i) ==
    LET there  == {s \in DOMAIN shapes : i < Len(shapes[s].dims)}
        dim(s) == shapes[s].dims[Len(shapes[s].dims) - i]
        blind  == {s \in there : dim(s) = Unknown}
        large  == {dim(s) : s \in there} \ {Unknown, Only(1)}
    IN  IF Cardinality(large) + Cardinality(blind) > 1 THEN Clash
        ELSE IF blind # {} THEN Unknown
        ELSE IF large = {} THEN Only(1) ELSE CHOOSE d \in large : TRUE

\* The shape to give the output, <<>> when it can not be told or makes no sense: both
\* are ignored.
Broadcast(shapes) ==
    LET rank == Max({Len(shapes[s].dims) : s \in DOMAIN shapes})
        dims == [k \in 1 .. rank |-> BroadcastDim(shapes, rank - k)]
    IN  IF (\E s \in DOMAIN shapes : shapes[s].open) \/ Clash \in Range(dims) THEN <<>>
        ELSE <<Closed(dims)>>

\* binary::rules, with the type of the result.
BinaryRules(op, at, v) ==
    CASE at[1] = "start"   -> <<With(In(1, "shape"), <<"a">>), Given(Each(2, "dt"), <<"types">>)>>
      [] at[1] = "a"       -> <<With(In(2, "shape"), <<"a and b">>)>>
      [] at[1] = "a and b" -> IF Broadcast(v) = <<>> THEN <<>>
                              ELSE <<Equals(Out(1, "shape"), Const(Broadcast(v)[1]))>>
      [] at[1] = "types"   -> Gives("dt", ResultType(op.fn, v[1], v[2]), Val)

\* Ranks and types are made the same first.
BinaryWire(op, ts) ==
    LET dt   == CommonSuperType(ts[1].dt, ts[2].dt)
        wide == RankBroadcast(ts)
    IN  IF dt = Unknown THEN Fails ELSE BinFacts(op.fn, [i \in 1 .. 2 |-> CastFacts(dt[1], wide[i])[1]])

\* Any number of inputs, of the same type.
NaryRules(op, n, at, v) ==
    CASE at[1] = "start"  -> <<SameType(1, 1), EqualsAll(Each(n, "dt")), Given(Each(n, "shape"), <<"shapes">>)>>
      [] at[1] = "shapes" -> Gives("shape", MultiBroadcast(v), Dims)
NaryWire(op, ts) ==
    FoldLeft(LAMBDA acc, t : IF acc = Fails THEN Fails ELSE BinFacts(op.fn, RankBroadcast(<<acc[1], t>>)),
             Returns(ts[1]), Tail(ts))

IffRules(op, at, v) ==
    CASE at[1] = "start"  -> <<Equals(In(1, "dt"), Val("Bool")), SameType(2, 1), SameType(3, 1),
                               Given(Each(3, "shape"), <<"shapes">>)>>
      [] at[1] = "shapes" -> Gives("shape", MultiBroadcast(v), Dims)

-----------------------------------------------------------------------------
(* Activations: the operators each is made of, with the wires they take: 1 *)
(* is the input, the others are numbered as they are wired, and 0 is a     *)
(* constant with one item, of the type and the rank of the input.          *)

Wire(fn, args) == [fn |-> fn, args |-> args]
ActivationWires ==
    [Clip         |-> <<Wire("Max", <<1, 0>>), Wire("Min", <<2, 0>>)>>,
     Softplus     |-> <<Wire("Exp", <<1>>), Wire("Add", <<2, 0>>), Wire("Ln", <<3>>)>>,
     Softsign     |-> <<Wire("Abs", <<1>>), Wire("Add", <<2, 0>>), Wire("Div", <<1, 3>>)>>,
     Elu          |-> <<Wire("Exp", <<1>>), Wire("Add", <<2, 0>>), Wire("Mul", <<3, 0>>), Wire("Lesser", <<0, 1>>),
                        Wire("Iff", <<5, 1, 4>>)>>,
     HardSigmoid  |-> <<Wire("Mul", <<1, 0>>), Wire("Add", <<2, 0>>), Wire("Min", <<3, 0>>), Wire("Max", <<4, 0>>)>>,
     LeakyRelu    |-> <<Wire("Mul", <<1, 0>>), Wire("Lesser", <<0, 1>>), Wire("Iff", <<3, 1, 2>>)>>,
     ParametricSoftplus |-> <<Wire("Mul", <<1, 0>>), Wire("Exp", <<2>>), Wire("Add", <<3, 0>>), Wire("Ln", <<4>>),
                              Wire("Mul", <<5, 0>>)>>,
     ScaledTanh   |-> <<Wire("Mul", <<1, 0>>), Wire("Tanh", <<2>>), Wire("Mul", <<3, 0>>)>>,
     Selu         |-> <<Wire("Exp", <<1>>), Wire("Mul", <<2, 0>>), Wire("Add", <<3, 0>>), Wire("Lesser", <<0, 1>>),
                        Wire("Iff", <<5, 1, 4>>), Wire("Mul", <<6, 0>>)>>,
     Shrink       |-> <<Wire("Lesser", <<0, 1>>), Wire("Add", <<1, 0>>), Wire("Greater", <<0, 1>>), Wire("Add", <<1, 0>>),
                        Wire("Iff", <<2, 3, 0>>), Wire("Iff", <<4, 5, 6>>)>>,
     ThresholdRelu |-> <<Wire("Lesser", <<0, 1>>), Wire("Iff", <<2, 1, 0>>)>>]

ActivationRules(op, at, v) == <<SameType(1, 1), SameShape(1, 1)>>
ActivationWire(op, ts) ==
    LET scalar == Tensor(ts[1].dt, Ones(Len(ts[1].shape)))
        Applied(fn, args) ==
            IF fn = "Iff" THEN IffFacts(args) ELSE IF Len(args) = 2 THEN BinFacts(fn, args) ELSE Returns(args[1])
        Added(wires, w) ==
            IF wires = Fails THEN Fails
            ELSE Then(Applied(w.fn, [i \in DOMAIN w.args |-> IF w.args[i] = 0 THEN scalar ELSE wires[w.args[i]]]),
                      LAMBDA out : Append(wires, out))
        wired  == FoldLeft(Added, ts, ActivationWires[op.name])
    IN  IF wired = Fails THEN Fails ELSE Returns(Last(wired))

-----------------------------------------------------------------------------
(* Matrix products.                                                        *)

\* compute_shapes: a vector gets the axis it lacks, that the product loses again.
InferredProduct(op, a, b) ==
    LET row   == Len(a) < 2
        col   == Len(b) < 2
        wide(s, n) == Ones(n - Len(s)) \o s
        matA  == IF row THEN InsertAt(a, IF op.a_trans THEN 2 ELSE 1, 1) ELSE a
        matB  == IF col THEN InsertAt(b, IF op.b_trans THEN 1 ELSE 2, 1) ELSE b
        rank  == Max({Len(matA), Len(matB)})
        shape == ProductShape(op, wide(matA, rank), wide(matB, rank))
        lost(k) == IF op.c_trans THEN (k = rank - 1 /\ col) \/ (k = rank /\ row)
                   ELSE (k = rank - 1 /\ row) \/ (k = rank /\ col)
        kept  == SelectSeq([k \in 1 .. rank |-> k], LAMBDA k : ~ lost(k))
    IN  IF shape = Fails THEN Fails ELSE Returns([i \in DOMAIN kept |-> shape[1][kept[i]]])

MatMulRules(op, at, v) ==
    CASE at[1] = "start"  -> <<Equals(In(1, "dt"), In(2, "dt")), SameType(1, 1), Given(Each(2, "shape"), <<"shapes">>)>>
      [] at[1] = "shapes" -> Gives("shape", InferredProduct(op, v[1], v[2]), Dims)
MatMulWire(op, ts) == MatMulFacts(op, RankBroadcast(ts))

-----------------------------------------------------------------------------
(* Reductions, pools over everything, and soft maxima.                     *)

ReducedAxes(op, rank) == IF op.axes = Unknown THEN Range(Axes(rank)) ELSE {AxisFrom(a, rank) : a \in op.axes[1]}
ReducedShape(op, shape) ==
    LET gone == ReducedAxes(op, Len(shape))
        kept == SelectSeq([k \in DOMAIN shape |-> k], LAMBDA k : op.keep \/ k - 1 \notin gone)
    IN  [i \in DOMAIN kept |-> IF kept[i] - 1 \in gone THEN 1 ELSE shape[kept[i]]]

ReduceRules(op, at, v) ==
    CASE at[1] = "start" -> <<IF op.reducer \in {"ArgMax", "ArgMin"} THEN Equals(Out(1, "dt"), Val("I64")) ELSE SameType(1, 1),
                              IF op.keep THEN SameRank(1, 1)
                              ELSE IF op.axes # Unknown
                              THEN Equals(Plus(In(1, "rank"), - Cardinality(op.axes[1])), Out(1, "rank"))
                              ELSE Equals(Out(1, "rank"), Val(0)),
                              Given(<<In(1, "shape")>>, <<"shape">>)>>
      [] at[1] = "shape" -> <<Equals(Out(1, "shape"), Dims(ReducedShape(op, v[1])))>>

\* Reducer::wire is a reduction among element-wise operators, then the axes go.
ReduceWire(op, ts) ==
    LET axes    == ReducedAxes(op, Len(ts[1].shape))
        reduced == ReduceFacts(axes, op.reducer, ts[1])
    IN  IF \E a \in axes : ResolveAxis(a, Len(ts[1].shape)) = Unknown THEN Fails
        ELSE IF op.keep THEN reduced ELSE RmAxes(reduced[1], axes)

\* Global pools: all axes but the first two.
GlobalPoolRules(op, at, v) ==
    CASE at[1] = "start" -> <<Equals(Out(1, "dt"), In(1, "dt")), Equals(Out(1, "rank"), In(1, "rank")),
                              Equals(OutDim(1, 0), InDim(1, 0)), Equals(OutDim(1, 1), InDim(1, 1)),
                              Given(<<In(1, "rank")>>, <<"rank">>)>>
      [] at[1] = "rank"  -> [i \in 1 .. v[1] - 2 |-> Equals(OutDim(1, i + 1), Val(1))]
GlobalPoolWire(op, ts) ==
    LET pooled == ReduceFacts(2 .. Len(ts[1].shape) - 1, op.reducer, ts[1])[1]
    IN  IF op.reducer = "Max" THEN Returns(pooled)
        ELSE BinFacts("Mul", <<Tensor(ts[1].dt, Ones(Len(ts[1].shape))), pooled>>)

LayerRules(op, at, v) == <<Equals(Out(1, "dt"), In(1, "dt")), Equals(Out(1, "rank"), In(1, "rank")),
                           Equals(Out(1, "shape"), In(1, "shape"))>>

\* The axes from one on are made one, if told so, then cut again.
HardmaxWire(op, ts) ==
    LET t      == ts[1]
        axis   == AxisFrom(op.axis, Len(t.shape))
        suffix == SubSeq(t.shape, axis + 1, Len(t.shape))
        flat   == IF op.coerce THEN AxisFacts(AO!Reshape(axis, suffix, <<Product1(suffix)>>), t)[1] ELSE t
        best   == AxisFacts(AO!Rm(axis), ReduceFacts({axis}, "ArgMax", flat)[1])[1]
        hot    == OneHotFacts(axis, flat.shape[axis + 1], t.dt, best)
    IN  IF op.coerce THEN AxisFacts(AO!Reshape(axis, <<Product1(suffix)>>, suffix), hot[1]) ELSE hot

\* The same but for a logarithm of the result.
SoftmaxWire(op, ts) ==
    LET rank == Len(ts[1].shape)
        axis == AxisFrom(op.axis, rank)
        axes == IF op.coerce THEN axis .. rank - 1 ELSE {axis}
    IN  Then(BinFacts("Sub", <<ts[1], ReduceFacts(axes, "Max", ts[1])[1]>>),
             LAMBDA less : BinFacts("Div", <<less, ReduceFacts(axes, "Sum", less)[1]>>))

-----------------------------------------------------------------------------
(* Pools and convolutions.                                                 *)

\* rules_for_shape, for each output
PoolRulesForShape(pool, outputs, shape) ==
    LET f    == pool.format
        rank == Len(shape)
        hw   == Convoluted(pool, HwDims(f, shape), pool.kernel)
    IN  FlattenSeq([o \in 1 .. outputs |->
            [d \in DOMAIN hw |-> Equals(OutDim(o, d - 1 + HAxis(f)), Val(hw[d]))]
            \o (IF HasN(f) THEN <<Equals(OutDim(o, 0), Val(shape[1]))>> ELSE <<>>)
            \o <<Equals(OutDim(o, CAxis(f, rank)),
                        IF pool.channels # Unknown THEN Const(pool.channels) ELSE Val(shape[CAxis(f, rank) + 1]))>>])

SumPoolRules(op, at, v) ==
    CASE at[1] = "start" -> <<Equals(Out(1, "dt"), In(1, "dt")), Equals(Out(1, "rank"), In(1, "rank")),
                              Given(<<In(1, "shape")>>, <<"shape">>)>>
      [] at[1] = "shape" -> PoolRulesForShape(op.pool, 1, v[1])

\* With the type of the indices of the maxima, when they are an output.
MaxPoolRules(op, at, v) ==
    CASE at[1] = "start" -> <<Equals(Out(1, "rank"), In(1, "rank")), Equals(Out(1, "dt"), In(1, "dt"))>>
                            \o (IF op.indices = Unknown THEN <<>>
                                ELSE <<Equals(Out(2, "dt"), Const(op.indices)), Equals(Out(2, "shape"), Out(1, "shape"))>>)
                            \o <<Equals(Out(1, "rank"), In(1, "rank")), Given(<<In(1, "shape")>>, <<"shape">>)>>
      [] at[1] = "shape" -> PoolRulesForShape(op.pool, 1 + Len(op.indices), v[1])

\* The inputs of a convolution are numbered from 1; op.quantized when one of them is a
\* zero point or a scale.
ConvShape(op, shape, kernel) ==
    LET f    == op.pool.format
        hw   == Convoluted(op.pool, HwDims(f, shape), KernelSpatial(op.kernel_fmt, kernel))
    IN  [k \in DOMAIN shape |->
            IF k - 1 = CAxis(f, Len(shape)) THEN OutputChannels(op, kernel)
            ELSE IF k - 1 - HAxis(f) \in 0 .. Len(hw) - 1 THEN hw[k - HAxis(f)] ELSE shape[k]]

ConvRules(op, at, v) ==
    LET f == op.pool.format
        k == op.k_input
    IN  CASE at[1] = "start" ->
               (IF op.kernel_shape = Unknown THEN <<>>
                ELSE <<Equals(In(k, "rank"), Val(Len(op.kernel_shape[1]) + 2))>>
                     \o [d \in DOMAIN op.kernel_shape[1] |->
                            Equals(InDim(k, d - 1 + KernelHAxis(op.kernel_fmt)), Val(op.kernel_shape[1][d]))])
               \o <<Equals(In(1, "rank"), Plus(In(k, "rank"), IF HasN(f) THEN 0 ELSE -1)),
                    Equals(Out(1, "rank"), In(1, "rank")), Equals(In(1, "dt"), In(k, "dt")),
                    Equals(Out(1, "dt"), IF op.dt = Unknown THEN In(1, "dt") ELSE Const(op.dt))>>
               \o (IF op.bias = Unknown THEN <<>>
                   ELSE <<Equals(In(op.bias[1], "rank"), Val(1)), Given(<<In(k, "rank")>>, <<"bias">>)>>)
               \o <<Given(<<In(1, "rank"), In(k, "rank")>>, <<"ranks">>),
                    Given(<<In(1, "shape"), In(k, "shape")>>, <<"shapes">>)>>
          [] at[1] = "bias"   -> <<Equals(InDim(op.bias[1], 0), InDim(k, IF op.kernel_fmt = "OIHW" THEN 0 ELSE v[1] - 1))>>
          [] at[1] = "ranks"  -> <<Equals(InDim(1, IF CIsLast(f) THEN v[1] - 1 ELSE 1),
                                          Times(op.group, InDim(k, IF op.kernel_fmt = "OIHW" THEN 1 ELSE v[2] - 2)))>>
          [] at[1] = "shapes" -> <<Equals(Out(1, "shape"), Dims(ConvShape(op, v[1], v[2])))>>

\* The kernel and the bias, which must be constants, become parts of the operator; the
\* type that was asked for is only kept with quantization parameters.
ConvWire(op, ts) ==
    LET kernel == ts[op.k_input].shape
        pool   == [op.pool EXCEPT !.kernel = KernelSpatial(op.kernel_fmt, kernel),
                                  !.channels = Only(OutputChannels(op, kernel))]
        bias   == IF op.bias = Unknown THEN Unknown ELSE Only(Product1(ts[op.bias[1]].shape))
        out    == ConvFacts(op, pool, kernel, bias, ts[1])
    IN  IF out # Fails /\ op.quantized /\ op.dt # Unknown THEN CastFacts(op.dt[1], out[1]) ELSE out
=============================================================================
