----------------------------- MODULE MCAnalyser -----------------------------
(* Small graphs, the tensors that flow through them, and facts that tell   *)
(* more or less of those tensors; each operator on tensors it takes; a few *)
(* facts that tell what no tensor does.                                    *)
EXTENDS Analyser, OnnxNodes

Node(op, inputs) == [op |-> op, inputs |-> inputs]
From(n)          == <<n, 1>>
F(shape)         == Tensor("F32", shape)
I(data)          == TensorOf("I64", <<Len(data)>>, data)

Source      == Is("Source")
Konst(t)    == [is |-> "Const", value |-> t]
Concat(a)   == [is |-> "Concat", axis |-> a]
AddDims(as) == [is |-> "AddDims", axes |-> as]
RmDims(as)  == [is |-> "RmDims", axes |-> as]
Permute(p)  == [is |-> "Permute", perm |-> p]

\* The tensors that the nodes of a graph output, when the sources have those of `given':
\* found in as many rounds as there are nodes.
Flowing(nodes, given) ==
    LET Ready(ts, n) == \A i \in DOMAIN nodes[n].inputs : nodes[n].inputs[i][1] \in DOMAIN ts
        Added(ts, n) == IF n \in DOMAIN ts \/ ~ Ready(ts, n) THEN ts
                        ELSE (n :> OpWire(nodes[n].op, [i \in DOMAIN nodes[n].inputs |->
                                             ts[nodes[n].inputs[i][1]][nodes[n].inputs[i][2]]])) @@ ts
        Round(ts)    == FoldLeft(Added, ts, [n \in DOMAIN nodes |-> n])
    IN  FoldLeft(LAMBDA ts, i : IF DOMAIN ts = DOMAIN nodes THEN ts ELSE Round(ts),
                 [n \in DOMAIN given |-> <<given[n]>>], nodes)

\* Graphs whose ids need not follow the edges, where the same edge may feed two inputs,
\* dimensions move, or are summed.
G(nodes, given) == [nodes |-> nodes, given |-> given, alone |-> FALSE]
Run(g)          == [nodes |-> g.nodes, truth |-> Flowing(g.nodes, g.given), alone |-> g.alone]
Graphs ==
    {G(<<Node(Source, <<>>), Node(RmDims({0}), <<From(1)>>), Node(Permute(<<<<1, 0>>>>), <<From(2)>>)>>,
       1 :> F(<<1, 2, 3>>)),
     G(<<Node(Concat(0), <<From(2), From(3)>>), Node(Source, <<>>), Node(Konst(Tensor("F64", <<3, 2>>)), <<>>)>>,
       2 :> F(<<1, 2>>)),
     G(<<Node(Bin("Add"), <<From(3), From(2)>>), Node(Source, <<>>), Node(Element(Unknown), <<From(2)>>)>>,
       2 :> F(<<1, 3>>)),
     G(<<Node(Source, <<>>), Node(Concat(-1), <<From(1), From(1)>>), Node(Is("Identity"), <<From(2)>>)>>,
       1 :> F(<<2, 2>>)),
     G(<<Node(AddDims({0}), <<From(2)>>), Node(Bin("Mul"), <<From(3), From(4)>>), Node(Source, <<>>),
         Node(Konst(F(<<2>>)), <<>>)>>, 3 :> F(<<3, 1>>))}

\* What may be told of a tensor: nothing, its type, its rank, its first or its last
\* dimension, everything, or its type and its shape but for the first dimension.
LastKnown(t) == [k \in DOMAIN t.shape |-> IF k = Len(t.shape) THEN Only(t.shape[k]) ELSE Unknown]
All(t)       == [AnyFact EXCEPT !.dt = Only(t.dt), !.shape = ShapeOf(t.shape)]
Rank(t)      == [AnyFact EXCEPT !.shape = Closed(Anys(Len(t.shape)))]
First(t)     == IF t.shape = <<>> THEN AnyFact ELSE [AnyFact EXCEPT !.shape = Open(<<Only(t.shape[1])>>)]
Half(t)      == [AnyFact EXCEPT !.dt = Only(t.dt), !.shape = Closed(LastKnown(t))]
Told(t) ==
    {AnyFact, [AnyFact EXCEPT !.dt = Only(t.dt)], Rank(t), First(t), Half(t), All(t),
     [AnyFact EXCEPT !.shape = ShapeOf(t.shape)]}

Mixes(g) == {fs \in [DOMAIN g.nodes -> UNION {Told(g.truth[n][1]) : n \in DOMAIN g.nodes}] :
                /\ \A n \in DOMAIN g.nodes : fs[n] \in Told(g.truth[n][1])
                /\ Len(g.nodes) = 4 => fs[1] = AnyFact /\ fs[4] = AnyFact}

-----------------------------------------------------------------------------
(* One operator: the inputs are known, or the outputs and the ranks of the *)
(* inputs, or half of each.  Its inputs are sources, or constants where it *)
(* looks at their value.                                                   *)

Case(op, ts, consts) == [op |-> op, ts |-> ts, consts |-> consts]
Alone(c) ==
    [G(<<Node(c.op, [i \in DOMAIN c.ts |-> From(i + 1)])>>
       \o [i \in DOMAIN c.ts |-> Node(IF i \in c.consts THEN Konst(c.ts[i]) ELSE Source, <<>>)],
       [n \in {i + 1 : i \in DOMAIN c.ts \ c.consts} |-> c.ts[n - 1]]) EXCEPT !.alone = TRUE]

FactsBy(g, input(_), output(_)) ==
    [n \in DOMAIN g.nodes |->
        [o \in DOMAIN g.truth[n] |->
            CASE g.nodes[n].op.is = "Source" -> input(g.truth[n][o])
              [] g.nodes[n].op.is = "Const"  -> AnyFact
              [] OTHER                       -> output(g.truth[n][o])]]

Nothing1(t) == AnyFact
Variants(g) == {FactsBy(g, All, Nothing1), FactsBy(g, Rank, All), FactsBy(g, Half, First)}
ElementCases ==
    {Case(Element(<<"Bool">>), <<F(<<2>>)>>, {}),
     Case(Bin("Lesser"), <<F(<<2, 1>>), F(<<3>>)>>, {}),
     Case([is |-> "Nary", fn |-> "Max"], <<F(<<2, 1>>), F(<<3>>), F(<<1>>)>>, {}),
     Case(Is("Iff"), <<Tensor("Bool", <<2, 1>>), F(<<1, 3>>), F(<<2, 3>>)>>, {})}
    \cup {Case([is |-> "Activation", name |-> a], <<F(<<2, 1>>)>>, {}) : a \in DOMAIN ActivationWires}

MatMul(a, b, c)         == [is |-> "MatMul", a_trans |-> a, b_trans |-> b, c_trans |-> c]
Reduce(axes, keep, red) == [is |-> "Reduce", axes |-> axes, keep |-> keep, reducer |-> red]
Layer(name, axis, c)    == [is |-> name, axis |-> axis, coerce |-> c]
NnCases ==
    {Case(MatMul(FALSE, FALSE, FALSE), <<F(<<4, 2, 3>>), F(<<1, 3, 5>>)>>, {}),
     Case(MatMul(TRUE, FALSE, TRUE), <<F(<<3, 2>>), F(<<4, 3, 5>>)>>, {}),
     Case(MatMul(FALSE, TRUE, FALSE), <<F(<<2, 3>>), F(<<5, 3>>)>>, {}),
     Case(Reduce(<<{-1, 0}>>, FALSE, "Sum"), <<F(<<2, 3, 4>>)>>, {}),
     Case(Reduce(<<{1}>>, TRUE, "ArgMax"), <<F(<<2, 3, 4>>)>>, {}),
     Case(Reduce(Unknown, FALSE, "Min"), <<F(<<2, 3>>)>>, {}),
     Case([is |-> "GlobalPool", reducer |-> "Max"], <<F(<<1, 2, 4, 3>>)>>, {}),
     Case([is |-> "GlobalPool", reducer |-> "Sum"], <<F(<<1, 2, 4>>)>>, {}),
     Case(Layer("Hardmax", 1, TRUE), <<F(<<2, 3, 4>>)>>, {}),
     Case(Layer("Softmax", -1, FALSE), <<F(<<2, 3>>)>>, {})}

\* Two spatial dimensions, or one.
Padding(kind, before, after, ceil) == [kind |-> kind, before |-> before, after |-> after, ceil |-> ceil]
Pool(format, kernel, padding, dilations, strides) ==
    [format |-> format, kernel |-> kernel, padding |-> padding, dilations |-> dilations, strides |-> strides,
     channels |-> Unknown]
Conv(pool, fmt, group, bias) ==
    [is |-> "Conv", pool |-> pool, kernel_fmt |-> fmt, kernel_shape |-> Unknown, group |-> group, k_input |-> 2,
     bias |-> bias, dt |-> Unknown, quantized |-> FALSE]
Same   == Padding("upper", <<0, 0>>, <<0, 0>>, FALSE)
Lower  == Padding("lower", <<0, 0>>, <<0, 0>>, FALSE)
Valid  == Padding("valid", <<0>>, <<0>>, FALSE)
Around == Padding("explicit", <<1>>, <<2>>, TRUE)
PoolCases ==
    {Case([is |-> "SumPool", pool |-> Pool("NHWC", <<2, 3>>, Same, Unknown, <<<<2, 1>>>>)], <<F(<<1, 5, 4, 2>>)>>, {}),
     Case([is |-> "SumPool", pool |-> Pool("CHW", <<3>>, Around, Unknown, <<<<2>>>>)], <<F(<<2, 6>>)>>, {}),
     Case([is |-> "MaxPool", pool |-> Pool("NCHW", <<2>>, Valid, <<<<2>>>>, Unknown), indices |-> <<"I64">>],
          <<F(<<1, 2, 5>>)>>, {}),
     Case([is |-> "MaxPool", pool |-> Pool("HWC", <<2, 2>>, Lower, Unknown, Unknown), indices |-> Unknown],
          <<F(<<3, 4, 1>>)>>, {}),
     Case(Conv(Pool("NCHW", <<>>, Around, Unknown, <<<<2>>>>), "OIHW", 2, <<3>>),
          <<F(<<1, 4, 6>>), F(<<2, 2, 3>>), F(<<2>>)>>, {2, 3}),
     Case([Conv(Pool("NHWC", <<>>, Same, Unknown, Unknown), "HWIO", 1, Unknown) EXCEPT !.kernel_shape = <<<<3, 2>>>>],
          <<F(<<1, 4, 5, 2>>), F(<<3, 2, 2, 6>>)>>, {2})}

Squeeze(axes)                    == [is |-> "Squeeze", axes |-> axes]
StridedSlice(axes, steps, b, e, s) ==
    [is |-> "StridedSlice", axes |-> axes, steps |-> steps, begin_mask |-> b, end_mask |-> e, shrink_mask |-> s]
AxesCases ==
    {Case(AddDims({-1, 0}), <<F(<<2, 3>>)>>, {}), Case(RmDims({-1}), <<F(<<2, 1>>)>>, {}),
     Case(Permute(Unknown), <<F(<<2, 3, 4>>)>>, {}), Case(Permute(<<<<3, 1, 0, 2>>>>), <<F(<<2, 3, 4, 5>>)>>, {}),
     Case(Concat(1), <<F(<<2, 3>>), Tensor("F16", <<2, 1>>), F(<<2, 2>>)>>, {}),
     Case([is |-> "Flatten", axis |-> -2], <<F(<<2, 3, 4>>)>>, {}),
     Case([is |-> "Reshape"], <<F(<<2, 3, 4>>), I(<<0, -1, 2>>)>>, {2}),
     Case([is |-> "Reshape"], <<F(<<1, 6>>), I(<<3, 2, 1>>)>>, {2}),
     Case(Squeeze(Unknown), <<F(<<1, 2, 1>>)>>, {}), Case(Squeeze(<<{-1}>>), <<F(<<1, 2, 1>>)>>, {}),
     Case(StridedSlice(Unknown, <<4>>, {}, {1}, {}), <<F(<<5, 4>>), I(<<-4, 1>>), I(<<5, 0>>), I(<<2, 1>>)>>, {2, 3, 4}),
     Case(StridedSlice(<<4>>, Unknown, {}, {}, {0}), <<F(<<3, 4>>), I(<<1, 0>>), I(<<2, 9>>), I(<<0, -1>>)>>, {2, 3, 4})}

ArrayCases ==
    {Case([is |-> "Tile"], <<F(<<2, 3>>), I(<<1, 2>>)>>, {2}),
     Case([is |-> "BroadcastTo"], <<F(<<2, 1>>), I(<<3, 1, 4>>)>>, {2}),
     Case([is |-> "ConstantLike", value |-> 7], <<F(<<2, 1>>)>>, {}),
     Case([is |-> "EyeLike", dt |-> <<"I32">>, k |-> 1], <<F(<<2, 3>>)>>, {}),
     Case([is |-> "EyeLike", dt |-> Unknown, k |-> 0], <<F(<<2, 2>>)>>, {}),
     Case([is |-> "ConstantOfShape", dt |-> "I64"], <<I(<<2, 3>>)>>, {1}),
     Case([is |-> "Size", dt |-> "I64"], <<F(<<2, 3>>)>>, {}),
     Case([is |-> "Shape", dt |-> "I64"], <<F(<<2, 3>>)>>, {}),
     Case([is |-> "Gather", axis |-> -1], <<F(<<2, 3>>), Tensor("I64", <<4, 5>>)>>, {}),
     Case([is |-> "GatherElements"], <<F(<<2, 3>>), Tensor("I64", <<4, 3>>)>>, {}),
     Case([is |-> "GatherNd", batch_dims |-> 0], <<F(<<2, 3>>), Tensor("I64", <<4, 2>>)>>, {1, 2}),
     Case([is |-> "ScatterElements"], <<F(<<2, 3>>), Tensor("I64", <<1, 3>>), F(<<1, 3>>)>>, {}),
     Case([is |-> "ScatterNd"], <<F(<<2, 3>>), Tensor("I64", <<4, 1>>), F(<<4, 3>>)>>, {}),
     Case([is |-> "Split", axis |-> -1, outputs |-> 2, split |-> <<<<1, 2>>>>], <<F(<<2, 3>>)>>, {}),
     Case([is |-> "Split", axis |-> 0, outputs |-> 2, split |-> Unknown], <<F(<<4, 3>>)>>, {}),
     Case([is |-> "Slice", axis |-> 1, start |-> 1, end |-> 3], <<F(<<2, 3>>)>>, {}),
     Case([is |-> "Crop", axis |-> 1, start |-> 1, end |-> 1], <<F(<<2, 5>>)>>, {}),
     Case([is |-> "Pad", pads |-> <<<<0, 0>>, <<1, 2>>>>], <<F(<<2, 3>>)>>, {}),
     Case([is |-> "Downsample", axis |-> 1, stride |-> 2, modulo |-> 1], <<F(<<2, 6>>)>>, {})}

-----------------------------------------------------------------------------
(* One node of ONNX, imported.  Some of its inputs are initializers, some  *)
(* may have no name.                                                       *)

Absent == <<>>
Onnx(version, type, attr, inputs, consts) ==
    [version |-> version, consts |-> consts, inputs |-> inputs, outputs |-> {1},
     node |-> [op_type |-> type, attr |-> attr]]
WithOutputs(c, named) == [c EXCEPT !.outputs = named]

InputNames  == <<"a", "b", "c", "d", "e", "f", "g", "h">>
OutputNames == <<"x", "y", "z">>
Imported(c) ==
    LET there   == SelectSeq([i \in DOMAIN c.inputs |-> i], LAMBDA i : c.inputs[i] # Absent)
        sources == SelectSeq(there, LAMBDA i : i \notin c.consts)
        graph   == [input       |-> [k \in DOMAIN sources |-> InputNames[sources[k]]],
                    initializer |-> [name \in {InputNames[i] : i \in c.consts} |->
                                        c.inputs[CHOOSE i \in c.consts : InputNames[i] = name]],
                    node        |-> <<c.node @@ [input  |-> [i \in DOMAIN c.inputs |->
                                                               IF c.inputs[i] = Absent THEN "" ELSE InputNames[i]],
                                                 output |-> [o \in 1 .. Max(c.outputs) |->
                                                               IF o \in c.outputs THEN OutputNames[o] ELSE ""]]>>]
    IN  [G(ParseGraph(c.version, graph)[1], [k \in DOMAIN sources |-> c.inputs[sources[k]]]) EXCEPT !.alone = TRUE]

NoAttr == <<>>
K(dt, shape)  == Filled(dt, shape, 1)
OnnxArrays ==
    {Onnx(9, "Compress", "axis" :> -1, <<F(<<2, 3>>), Filled("Bool", <<3>>, TRUE)>>, {2}),
     Onnx(9, "Compress", NoAttr, <<F(<<2, 3>>), Filled("Bool", <<5>>, TRUE)>>, {2}),
     Onnx(9, "Slice", "axes" :> <<1>> @@ "starts" :> <<-2>> @@ "ends" :> <<9>>, <<F(<<2, 3>>)>>, {}),
     Onnx(9, "Slice", "starts" :> <<0, 1>> @@ "ends" :> <<1, -1>>, <<F(<<2, 3>>)>>, {}),
     Onnx(10, "Slice", NoAttr, <<F(<<5, 4>>), I(<<1>>), I(<<4>>), Absent, I(<<2>>)>>, {2, 3, 5}),
     Onnx(9, "Pad", "pads" :> <<0, 1, 0, 2>>, <<F(<<2, 3>>)>>, {}),
     Onnx(11, "Pad", "mode" :> "reflect", <<F(<<2, 5>>), I(<<0, 1, 0, 2>>)>>, {2}),
     Onnx(11, "Pad", NoAttr, <<F(<<3>>), I(<<1, 0>>), K("F32", <<>>)>>, {2, 3}),
     WithOutputs(Onnx(11, "Split", "axis" :> 1 @@ "split" :> <<1, 3>>, <<F(<<2, 4>>)>>, {}), 1 .. 2),
     WithOutputs(Onnx(13, "Split", "axis" :> -1, <<F(<<2, 4>>), I(<<1, 3>>)>>, {2}), 1 .. 2),
     Onnx(11, "Squeeze", "axes" :> <<0, 2>>, <<F(<<1, 2, 1>>)>>, {}),
     Onnx(13, "Squeeze", NoAttr, <<F(<<1, 2, 1>>), I(<<-1>>)>>, {2}),
     Onnx(11, "Unsqueeze", "axes" :> <<0, 2>>, <<F(<<2, 3>>)>>, {}),
     Onnx(13, "Unsqueeze", NoAttr, <<F(<<2, 3>>), I(<<0, 3>>)>>, {2}),
     Onnx(9, "OneHot", NoAttr, <<Tensor("I64", <<2, 3>>), TensorOf("I64", <<1>>, <<5>>), K("F32", <<2>>)>>, {2, 3}),
     Onnx(9, "OneHot", "axis" :> 0, <<Tensor("I64", <<2>>), TensorOf("I64", <<>>, <<4>>), K("I32", <<2>>)>>, {2, 3}),
     Onnx(9, "NonZero", NoAttr, <<F(<<2, 3>>)>>, {}),
     Onnx(9, "NonZero", NoAttr, <<TensorOf("F32", <<2, 2>>, <<1, 0, 0, 3>>)>>, {1}),
     Onnx(10, "Resize", "mode" :> "linear", <<F(<<2, 3>>), Absent, TensorOf("F32", <<2>>, <<1, 2>>)>>, {3}),
     Onnx(11, "Resize", "mode" :> "linear", <<F(<<2, 3>>), K("F32", <<1>>), TensorOf("F32", <<2>>, <<1, 2>>)>>, {2, 3}),
     Onnx(11, "Resize", "mode" :> "linear", <<F(<<2, 3>>), K("F32", <<1>>), Tensor("F32", <<0>>), I(<<4, 6>>)>>, {2, 3, 4}),
     Onnx(13, "ConstantLike", "shape" :> <<2>>, <<>>, {}), Onnx(13, "Flatten", NoAttr, <<F(<<2, 3, 4>>)>>, {}),
     Onnx(13, "Transpose", NoAttr, <<F(<<2, 3>>)>>, {}), Onnx(13, "Cast", "to" :> "I64", <<F(<<2>>)>>, {})}

OnnxMath ==
    {Onnx(6, "Clip", NoAttr, <<F(<<2>>)>>, {}), Onnx(11, "Clip", NoAttr, <<F(<<2, 3>>), Absent, Tensor("F32", <<>>)>>, {}),
     Onnx(11, "Clip", NoAttr, <<F(<<2, 3>>), K("F32", <<>>), K("F32", <<>>)>>, {2, 3}),
     Onnx(11, "Gemm", "transA" :> 1, <<F(<<3, 2>>), F(<<3, 4>>), F(<<4>>)>>, {}),
     Onnx(11, "Gemm", "transB" :> 1 @@ "alpha" :> 2 @@ "beta" :> 0, <<F(<<2, 3>>), F(<<4, 3>>), F(<<2, 4>>)>>, {}),
     Onnx(11, "Pow", NoAttr, <<F(<<2, 3>>), Tensor("I64", <<3>>)>>, {}), Onnx(11, "Pow", NoAttr, <<F(<<2>>), F(<<2>>)>>, {}),
     Onnx(11, "Mod", NoAttr, <<Tensor("I32", <<2, 3>>), Tensor("I32", <<2, 1>>)>>, {}),
     Onnx(11, "Mod", NoAttr, <<Tensor("U8", <<3>>), Tensor("U8", <<2, 1>>)>>, {}),
     Onnx(11, "Mod", "fmod" :> 1, <<F(<<2>>), F(<<2>>)>>, {}),
     Onnx(11, "BitShift", "direction" :> "RIGHT", <<Tensor("U8", <<2>>), Tensor("U8", <<1>>)>>, {}),
     Onnx(11, "Mean", NoAttr, <<F(<<2, 1>>), F(<<1, 3>>)>>, {}), Onnx(11, "LessOrEqual", NoAttr, <<F(<<2>>), F(<<2>>)>>, {}),
     Onnx(11, "IsInf", NoAttr, <<F(<<2>>)>>, {}), Onnx(11, "Where", NoAttr, <<Tensor("Bool", <<2>>), F(<<2>>), F(<<1>>)>>, {}),
     Onnx(11, "MatMul", NoAttr, <<F(<<2, 3>>), F(<<2, 3, 4>>)>>, {}),
     Onnx(11, "MatMulInteger", NoAttr, <<Tensor("U8", <<2, 3>>), Tensor("I8", <<3, 4>>), Absent, Tensor("I8", <<>>)>>, {}),
     Onnx(11, "QLinearMatMul", NoAttr,
          <<Tensor("U8", <<2, 3>>), F(<<>>), Tensor("U8", <<>>), Tensor("I8", <<3, 4>>), F(<<>>), Tensor("I8", <<>>), F(<<>>),
            Tensor("U8", <<>>)>>, {})}

OnnxLayers ==
    {Onnx(11, "PRelu", NoAttr, <<F(<<2, 3, 4>>), F(<<3, 1>>)>>, {}), Onnx(11, "ReduceSum", "axes" :> <<0>>, <<F(<<2, 3>>)>>, {}),
     Onnx(13, "ReduceMean", "keepdims" :> 0, <<F(<<2, 3>>), I(<<-1>>)>>, {2}),
     Onnx(13, "ReduceMax", NoAttr, <<F(<<2, 3>>)>>, {}),
     Onnx(13, "ReduceMin", "noop_with_empty_axes" :> 1, <<F(<<2, 3>>)>>, {}),
     Onnx(11, "ArgMax", "keepdims" :> 0, <<F(<<2, 3>>)>>, {}), Onnx(11, "Softmax", NoAttr, <<F(<<2, 3, 4>>)>>, {}),
     Onnx(13, "Softmax", NoAttr, <<F(<<2, 3>>)>>, {}), Onnx(11, "Relu", NoAttr, <<F(<<2>>)>>, {}),
     Onnx(11, "GlobalLpPool", NoAttr, <<F(<<1, 2, 4>>)>>, {}), Onnx(11, "LRN", "size" :> 3, <<F(<<1, 2, 4>>)>>, {}),
     Onnx(11, "BatchNormalization", NoAttr,
          <<F(<<2, 3, 4>>), K("F32", <<3>>), K("F32", <<3>>), K("F32", <<3>>), K("F32", <<3>>)>>, {2, 3, 4, 5}),
     Onnx(11, "Dropout", NoAttr, <<F(<<2, 3>>)>>, {}),
     Onnx(11, "InstanceNormalization", NoAttr, <<F(<<1, 2, 4, 3>>), F(<<2>>), F(<<2>>)>>, {}),
     Onnx(11, "Conv", "kernel_shape" :> <<3>> @@ "strides" :> <<2>>, <<F(<<1, 2, 7>>), F(<<4, 2, 3>>), F(<<4>>)>>, {2, 3}),
     Onnx(11, "Conv", "auto_pad" :> "SAME_LOWER" @@ "dilations" :> <<2>>, <<F(<<1, 2, 7>>), F(<<4, 2, 3>>)>>, {2}),
     Onnx(11, "AveragePool", "kernel_shape" :> <<2>> @@ "pads" :> <<1, 0>> @@ "ceil_mode" :> 1, <<F(<<1, 2, 4>>)>>, {}),
     WithOutputs(Onnx(11, "MaxPool", "kernel_shape" :> <<2>> @@ "auto_pad" :> "VALID", <<F(<<1, 2, 4>>)>>, {}), 1 .. 2),
     Onnx(11, "ConvTranspose", "kernel_shape" :> <<3>> @@ "strides" :> <<2>> @@ "output_padding" :> <<1>>,
          <<F(<<1, 2, 4>>), K("F32", <<2, 3, 3>>), K("F32", <<3>>)>>, {2, 3}),
     Onnx(11, "ConvTranspose", "kernel_shape" :> <<3>> @@ "strides" :> <<2>> @@ "output_shape" :> <<10>>,
          <<F(<<1, 2, 4>>), K("F32", <<2, 3, 3>>)>>, {2}),
     Onnx(11, "ConvTranspose", "auto_pad" :> "SAME_UPPER" @@ "group" :> 2, <<F(<<1, 2, 4>>), K("F32", <<2, 3, 3>>)>>, {2}),
     Onnx(11, "CategoryMapper", "cats_int64s" :> <<1>> @@ "cats_strings" :> <<"a">> @@ "default_int64" :> 0,
          <<Tensor("String", <<2>>)>>, {}),
     Onnx(13, "QuantizeLinear", NoAttr, <<F(<<2, 3>>), K("F32", <<>>)>>, {2}),
     Onnx(13, "QuantizeLinear", NoAttr, <<F(<<2>>), K("F32", <<>>), K("I8", <<>>)>>, {2, 3}),
     Onnx(13, "DequantizeLinear", NoAttr, <<Tensor("I8", <<2>>), K("F32", <<>>), K("I8", <<>>)>>, {2, 3}),
     WithOutputs(Onnx(13, "DynamicQuantizeLinear", NoAttr, <<F(<<2, 3>>)>>, {}), 1 .. 3)}

\* x, w and r; then what there is of the bias, the lengths, h, c and p.
OnnxRecurrent ==
    {WithOutputs(Onnx(13, "RNN", NoAttr, <<F(<<3, 2, 4>>), F(<<1, 5, 4>>), F(<<1, 5, 5>>)>>, {}), {1, 2}),
     WithOutputs(Onnx(13, "RNN", NoAttr, <<F(<<3, 2, 4>>), F(<<1, 5, 4>>), F(<<1, 5, 5>>), F(<<1, 10>>), Absent,
                                           F(<<1, 2, 5>>)>>, {}), {2}),
     WithOutputs(Onnx(13, "GRU", NoAttr, <<F(<<3, 2, 4>>), F(<<2, 15, 4>>), F(<<2, 15, 5>>), F(<<2, 30>>),
                                           Tensor("I64", <<2>>)>>, {}), {1, 2}),
     WithOutputs(Onnx(13, "GRU", NoAttr, <<F(<<3, 2, 4>>), F(<<1, 15, 4>>), F(<<1, 15, 5>>), Absent, Absent,
                                           F(<<1, 2, 5>>)>>, {}), {1}),
     WithOutputs(Onnx(13, "LSTM", NoAttr, <<F(<<3, 2, 4>>), F(<<1, 20, 4>>), F(<<1, 20, 5>>)>>, {}), {2, 3}),
     WithOutputs(Onnx(13, "LSTM", NoAttr, <<F(<<3, 2, 4>>), F(<<2, 20, 4>>), F(<<2, 20, 5>>), F(<<2, 40>>), Absent,
                                            F(<<2, 2, 5>>), F(<<2, 2, 5>>), F(<<2, 15>>)>>, {}), 1 .. 3)}

-----------------------------------------------------------------------------
(* Facts and operators that do not go together.                            *)

Bad(nodes, fs) == [nodes |-> nodes, truth |-> <<>>, facts |-> [n \in DOMAIN fs |-> <<fs[n]>>]]
Of(dt, shape)  == All(Tensor(dt, shape))
False ==
    {Bad(<<Node(Source, <<>>), Node(Permute(<<<<1, 0>>>>), <<From(1)>>), Node(Is("Identity"), <<From(2)>>)>>,
         <<Of("F32", <<2, 3>>), AnyFact, Of("F32", <<2, 3>>)>>),
     Bad(<<Node(Source, <<>>), Node(Source, <<>>), Node(Bin("Add"), <<From(1), From(2)>>),
           Node(Element(Unknown), <<From(3)>>)>>,
         <<Of("Bool", <<2>>), Of("F32", <<2>>), AnyFact, AnyFact>>),
     Bad(<<Node(Source, <<>>), Node(Concat(2), <<From(1), From(1)>>)>>, <<Of("F32", <<2, 3>>), AnyFact>>),
     Bad(<<Node(Konst(F(<<2>>)), <<>>), Node(Konst(F(<<3>>)), <<>>), Node(Bin("Add"), <<From(1), From(2)>>)>>,
         <<AnyFact, AnyFact, AnyFact>>),
     Bad(<<Node(Source, <<>>), Node(RmDims({-1}), <<From(1)>>)>>, <<Of("F32", <<2, 3>>), AnyFact>>),
     Bad(<<Node(Konst(F(<<2>>)), <<>>)>>, <<Of("F32", <<3>>)>>),
     Bad(<<Node(Source, <<>>), Node(Konst(I(<<4, -1>>)), <<>>), Node([is |-> "Reshape"], <<From(1), From(2)>>)>>,
         <<Of("F32", <<2, 3>>), AnyFact, AnyFact>>)}

\* The first facts of a graph.
FactsFor(g) == IF g.alone THEN Variants(g) ELSE {[n \in DOMAIN fs |-> <<fs[n]>>] : fs \in Mixes(g)}
Problem(g, fs, obstinate) == [nodes |-> g.nodes, truth |-> g.truth, facts |-> fs, obstinate |-> obstinate]

Drawn(cases) == Graphs \cup {Alone(c) : c \in cases} \cup {Imported(c) : c \in OnnxArrays \cup OnnxMath \cup OnnxLayers \cup OnnxRecurrent}
MCProblems ==
    UNION {{Problem(g, fs, FALSE) : fs \in FactsFor(g)} :
               g \in {Run(d) : d \in Drawn(ElementCases \cup NnCases \cup PoolCases \cup AxesCases \cup ArrayCases)}}
    \cup {b @@ [obstinate |-> o] : b \in False, o \in BOOLEAN}

-----------------------------------------------------------------------------
(* The operators promise what the theorems about the analysis ask of them. *)

RECURSIVE CallsOf(_, _, _, _, _)
CallsOf(full, op, inputs, new, outer) ==
    UNION {LET rule == Nested(new[i], outer)
           IN  IF rule.kind \notin {"given", "with"} THEN {}
               ELSE UNION {LET seen == rule.seen \o s
                           IN  {<<rule.at, seen>>} \cup CallsOf(full, op, inputs, OpRules(op, inputs, rule.at, seen), seen) :
                               s \in SeenOf(full, rule)} : i \in DOMAIN new}

Promising(p, n) ==
    \E full \in {AllOf(Incoming(p, n), p.truth[n])} : \E op \in {p.nodes[n].op} : \E inputs \in {Len(p.nodes[n].inputs)} :
        Promises(full, op, inputs, CallsOf(full, op, inputs, OpRules(op, inputs, Start, <<>>), <<>>))
ASSUME OperatorsPromise ==
    \A p \in Problems : p.truth # <<>> => Flows(p) /\ \A n \in DOMAIN p.nodes : Promising(p, n)
=============================================================================
