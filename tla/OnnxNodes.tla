------------------------------ MODULE OnnxNodes ------------------------------
(***************************************************************************)
(* How a graph of ONNX becomes an inference model (onnx/src/model.rs): the *)
(* operator each node becomes, from its type, its attributes, which of its *)
(* inputs and outputs have a name and the version of the operator set, and *)
(* how names become edges.  A node is [op_type, attr, input, output], attr *)
(* a function of the attributes that are there and "" the name of an input *)
(* that is not.  Numbers that change no type and no shape are left out.    *)
(***************************************************************************)
EXTENDS InferenceOps

Attr(node, name)            == IF name \in DOMAIN node.attr THEN Only(node.attr[name]) ELSE Unknown
AttrOr(node, name, default) == IF name \in DOMAIN node.attr THEN node.attr[name] ELSE default
Flag(node, name, default)   == AttrOr(node, name, default) = 1

\* get_attr: the node can not do without them.
Needs(node, names, op) == IF names \subseteq DOMAIN node.attr THEN Returns(op) ELSE Fails

Named(names) == SelectSeq(names, LAMBDA name : name # "")

\* optional_inputs, optional_outputs: where the i-th one is among those that have a name.
Optional(names, i) ==
    IF i \in DOMAIN names /\ names[i] # "" THEN Only(Len(Named(SubSeq(names, 1, i)))) ELSE Unknown
OptionalInput(node, i)  == Optional(node.input, i)
OptionalOutput(node, i) == Optional(node.output, i)

Is(name)        == [is |-> name]
Element(result) == [is |-> "Element", result |-> result]
Bin(fn)         == [is |-> "Binary", fn |-> fn]

-----------------------------------------------------------------------------
(* The nodes on arrays.                                                    *)

OnnxSlice(version, node) ==
    IF version \in 1 .. 9
    THEN Needs(node, {"starts", "ends"},
               [is |-> "Slice1", axes |-> Attr(node, "axes"), starts |-> node.attr["starts"], ends |-> node.attr["ends"]])
    ELSE Returns([is |-> "StridedSlice", axes |-> OptionalInput(node, 4), steps |-> OptionalInput(node, 5),
                  begin_mask |-> {}, end_mask |-> {}, shrink_mask |-> {}])

OnnxPad(version, node) ==
    IF version \in 2 .. 10 THEN Needs(node, {"pads"}, [is |-> "Pad", pads |-> PadPairs(node.attr["pads"])])
    ELSE IF version > 10 THEN Returns([is |-> "Pad11", constant_input |-> IF Len(node.input) = 3 THEN Only(3) ELSE Unknown])
    ELSE Fails

OnnxSplit(version, node) ==
    LET axis == AttrOr(node, "axis", 0)
        n    == Len(node.output)
    IN  IF version < 13 \/ Len(node.input) = 1
        THEN Returns([is |-> "Split", axis |-> axis, outputs |-> n, split |-> Attr(node, "split")])
        ELSE Returns([is |-> "Split13", axis |-> axis, outputs |-> n])

OnnxSqueeze(version, node) ==
    IF version < 13 THEN Needs(node, {"axes"}, [is |-> "Squeeze", axes |-> <<Range(node.attr["axes"])>>])
    ELSE Returns(Is("Squeeze13"))
OnnxUnsqueeze(version, node) ==
    IF version < 13 THEN Needs(node, {"axes"}, [is |-> "AddDims", axes |-> Range(node.attr["axes"])])
    ELSE Returns(Is("Unsqueeze13"))

\* A value without inputs is a constant; one of one item is what fills a shape.
OnnxConstantLike(node) ==
    LET value == AttrOr(node, "value", 0)
    IN  IF node.input # <<>> THEN Returns([is |-> "ConstantLike", value |-> value])
        ELSE Needs(node, {"shape"}, [is |-> "Const", value |-> Filled(AttrOr(node, "dtype", "F32"), node.attr["shape"], value)])
OnnxConstantOfShape(node) ==
    LET value == AttrOr(node, "value", TensorOf("F32", <<>>, <<0>>))
    IN  IF Product1(value.shape) # 1 THEN Fails ELSE Returns([is |-> "ConstantOfShape", dt |-> value.dt])

ArrayNode(version, node) ==
    LET Along(name, default) == Returns([is |-> name, axis |-> AttrOr(node, "axis", default)])
        type == node.op_type
    IN  CASE type = "Compress"         -> Returns([is |-> "Compress", axis |-> Attr(node, "axis")])
          [] type = "Concat"           -> Needs(node, {"axis"}, [is |-> "Concat", axis |-> node.attr["axis"]])
          [] type = "ConstantLike"     -> OnnxConstantLike(node)
          [] type = "ConstantOfShape"  -> OnnxConstantOfShape(node)
          [] type = "Expand"           -> Returns(Is("BroadcastTo"))
          [] type = "EyeLike"          -> Returns([is |-> "EyeLike", dt |-> Attr(node, "dtype"), k |-> AttrOr(node, "k", 0)])
          [] type = "Flatten"          -> Along("Flatten", 1)
          [] type = "Gather"           -> Along("Gather", 0)
          [] type = "GatherElements"   -> Along("GatherElements", 0)
          [] type = "GatherND"         -> Returns([is |-> "GatherNd", batch_dims |-> AttrOr(node, "batch_dims", 0)])
          [] type = "OneHot"           -> Along("OneHot", -1)
          [] type = "Pad"              -> OnnxPad(version, node)
          [] type \in {"Scatter", "ScatterElements"} -> Along("ScatterElements", 0)
          [] type = "ScatterND"        -> Returns(Is("ScatterNd"))
          [] type \in {"Shape", "Size"} -> Returns([is |-> type, dt |-> "I64"])
          [] type = "Slice"            -> OnnxSlice(version, node)
          [] type = "Split"            -> OnnxSplit(version, node)
          [] type = "Squeeze"          -> OnnxSqueeze(version, node)
          [] type = "Transpose"        -> Returns([is |-> "Permute", perm |-> Attr(node, "perm")])
          [] type = "Unsqueeze"        -> OnnxUnsqueeze(version, node)
          [] type \in {"NonZero", "Reshape", "Tile"} -> Returns(Is(type))

ArrayTypes ==
    {"Compress", "Concat", "ConstantLike", "ConstantOfShape", "Expand", "EyeLike", "Flatten", "Gather", "GatherElements",
     "GatherND", "NonZero", "OneHot", "Pad", "Reshape", "Scatter", "ScatterElements", "ScatterND", "Shape", "Size", "Slice",
     "Split", "Squeeze", "Tile", "Transpose", "Unsqueeze"}

-----------------------------------------------------------------------------
(* Logic and arithmetic.                                                   *)

OnnxLogic ==
    [And |-> "And", Or |-> "Or", Xor |-> "Xor", Equal |-> "Equals", Greater |-> "Greater", Less |-> "Lesser",
     LessOrEqual |-> "LesserEqual", GreaterOrEqual |-> "GreaterEqual"]

Functions1 ==
    {"Not", "Abs", "Ceil", "Floor", "Round", "Cos", "Sin", "Tan", "Acos", "Asin", "Atan", "Cosh", "Sinh", "Tanh", "Acosh",
     "Asinh", "Atanh", "Erf", "Exp", "Log", "Sqrt", "Rsqrt", "Neg", "Sign", "Reciprocal", "Sigmoid"}

\* Old clips have their bounds in the operator, of which the facts tell nothing.
OnnxClip(version, node) ==
    IF version \in 6 .. 10 THEN Returns([is |-> "Activation", name |-> "Clip"])
    ELSE IF version > 10 THEN Returns([is |-> "Clip11", min |-> OptionalInput(node, 2), max |-> OptionalInput(node, 3)])
    ELSE Fails

OnnxGemm(node) ==
    Returns([is |-> "Gemm", alpha |-> AttrOr(node, "alpha", 1), beta |-> AttrOr(node, "beta", 1),
             a_trans |-> Flag(node, "transA", 0), b_trans |-> Flag(node, "transB", 0)])

MathNode(version, node) ==
    LET type == node.op_type
    IN  CASE type \in {"Add", "Sub", "Mul", "Div"} -> Returns(Bin(type))
          [] type = "Mod"      -> Returns(IF Flag(node, "fmod", 0) THEN Bin("Rem") ELSE Is("RemInt"))
          [] type = "BitShift" -> Returns(Bin(IF AttrOr(node, "direction", "LEFT") = "RIGHT" THEN "ShiftRight" ELSE "ShiftLeft"))
          [] type \in {"Sum", "Mean"} -> Returns([is |-> "Nary", fn |-> "Add"])
          [] type \in {"Max", "Min"}  -> Returns([is |-> "Nary", fn |-> type])
          [] type \in {"IsNaN", "IsInf"} -> Returns(Element(<<"Bool">>))
          [] type = "Clip"     -> OnnxClip(version, node)
          [] type = "Pow"      -> Returns(Is("Pow"))
          [] type = "MatMul"   -> Returns([is |-> "MatMul", a_trans |-> FALSE, b_trans |-> FALSE, c_trans |-> FALSE])
          [] type = "MatMulInteger" ->
                 Returns([is |-> "MatMulInteger", a_zp |-> OptionalInput(node, 3), b_zp |-> OptionalInput(node, 4)])
          [] type = "QLinearMatMul" -> Returns(Is("QLinearMatMul"))
          [] type = "Gemm"     -> OnnxGemm(node)

MathTypes ==
    {"Add", "Sub", "Mul", "Div", "Mod", "BitShift", "Sum", "Mean", "Max", "Min", "IsNaN", "IsInf", "Clip", "Pow", "MatMul",
     "MatMulInteger", "QLinearMatMul", "Gemm"}

-----------------------------------------------------------------------------
(* Layers.                                                                 *)

Halves(pads) == [before |-> SubSeq(pads, 1, Len(pads) \div 2), after |-> SubSeq(pads, Len(pads) \div 2 + 1, Len(pads))]
Kind(kind)   == [kind |-> kind, before |-> <<>>, after |-> <<>>, ceil |-> FALSE]

\* pad: explicit ones if there are some, then what auto_pad says; with the shape of the
\* kernel, the default is none around, where the ceil mode counts.
OnnxPadding(node) ==
    LET ceil     == Flag(node, "ceil_mode", 0)
        Explicit(halves) == [kind |-> "explicit", before |-> halves.before, after |-> halves.after, ceil |-> ceil]
        default  == IF "kernel_shape" \notin DOMAIN node.attr THEN Kind("valid")
                    ELSE Explicit(Halves([i \in 1 .. 2 * Len(node.attr["kernel_shape"]) |-> 0]))
        auto     == AttrOr(node, "auto_pad", "NOTSET")
    IN  IF "pads" \in DOMAIN node.attr THEN Returns(Explicit(Halves(node.attr["pads"])))
        ELSE CASE auto = "NOTSET"     -> Returns(default)
               [] auto = "VALID"      -> Returns(Kind("valid"))
               [] auto = "SAME_UPPER" -> Returns(Kind("upper"))
               [] auto = "SAME_LOWER" -> Returns(Kind("lower"))
               [] OTHER               -> Fails

OnnxPool(node, kernel, dilations, padding) ==
    [format |-> "NCHW", kernel |-> kernel, padding |-> padding, dilations |-> dilations, strides |-> Attr(node, "strides"),
     channels |-> Unknown]

OnnxConv(node) ==
    Then(OnnxPadding(node), LAMBDA padding : Returns(
        [is |-> "Conv", pool |-> OnnxPool(node, <<>>, Attr(node, "dilations"), padding), kernel_fmt |-> "OIHW",
         kernel_shape |-> Attr(node, "kernel_shape"), group |-> AttrOr(node, "group", 1), k_input |-> 2,
         bias |-> IF Len(node.input) = 3 THEN Only(3) ELSE Unknown, dt |-> Unknown, quantized |-> FALSE]))

OnnxConvTranspose(node) ==
    Then(OnnxPadding(node), LAMBDA padding : Returns(
        [is |-> "ConvTranspose", pool |-> OnnxPool(node, <<>>, Attr(node, "dilations"), padding),
         adjustments |-> Attr(node, "output_padding"), output_shape |-> Attr(node, "output_shape"),
         group |-> AttrOr(node, "group", 1), have_bias |-> Len(node.input) = 3]))

\* The dilations of a pool are not looked at; a second output counts even without a name.
OnnxAveragePool(node) ==
    IF "kernel_shape" \notin DOMAIN node.attr THEN Fails
    ELSE Then(OnnxPadding(node), LAMBDA padding :
              Returns([is |-> "SumPool", pool |-> OnnxPool(node, node.attr["kernel_shape"], Unknown, padding)]))
OnnxMaxPool(node) ==
    Then(OnnxAveragePool(node), LAMBDA sum :
         Returns([is |-> "MaxPool", pool |-> sum.pool, indices |-> IF Len(node.output) = 2 THEN Only("I64") ELSE Unknown]))

\* Before version 13, all the axes from one on; after, one.
OnnxLayer(version, node) ==
    LET old == version < 13
    IN  Returns([is |-> node.op_type, axis |-> AttrOr(node, "axis", IF old THEN 1 ELSE -1), coerce |-> old])

Reducers ==
    [ReduceL1 |-> "L1", ReduceL2 |-> "L2", ReduceLogSum |-> "LogSum", ReduceLogSumExp |-> "LogSumExp", ReduceMax |-> "Max",
     ReduceMean |-> "Mean", ReduceMin |-> "Min", ReduceProd |-> "Prod", ReduceSum |-> "Sum", ReduceSumSquare |-> "SumSquare"]

OnnxReduce(version, node) ==
    LET keep    == Flag(node, "keepdims", 1)
        reducer == Reducers[node.op_type]
        axes    == Attr(node, "axes")
    IN  IF version < 13
        THEN Returns([is |-> "Reduce", axes |-> IF axes = Unknown THEN Unknown ELSE <<Range(axes[1])>>, keep |-> keep,
                      reducer |-> reducer])
        ELSE Returns([is |-> "Reduce13", have_axis_input |-> Len(node.input) = 2, keep |-> keep,
                      noop |-> Flag(node, "noop_with_empty_axes", 0), reducer |-> reducer])

OnnxArg(node) ==
    Returns([is |-> "Reduce", axes |-> <<{AttrOr(node, "axis", 0)}>>, keep |-> Flag(node, "keepdims", 1),
             reducer |-> node.op_type])

\* Activations: Relu is a clip, and these two have no default.
Activations ==
    [Elu |-> "Elu", HardSigmoid |-> "HardSigmoid", LeakyRelu |-> "LeakyRelu", ParametricSoftplus |-> "ParametricSoftplus",
     Relu |-> "Clip", ScaledTanh |-> "ScaledTanh", Shrink |-> "Shrink", ThresholdedRelu |-> "ThresholdRelu", Selu |-> "Selu",
     Softplus |-> "Softplus", Softsign |-> "Softsign"]
OnnxActivation(node) ==
    Needs(node, IF node.op_type \in {"ParametricSoftplus", "ScaledTanh"} THEN {"alpha", "beta"} ELSE {},
          [is |-> "Activation", name |-> Activations[node.op_type]])

NnNode(version, node) ==
    LET type == node.op_type
    IN  CASE type \in {"ArgMax", "ArgMin"} -> OnnxArg(node)
          [] type = "AveragePool"       -> OnnxAveragePool(node)
          [] type = "BatchNormalization" -> IF AttrOr(node, "spatial", 1) # 1 THEN Fails ELSE Returns(Is("BatchNorm"))
          [] type = "Conv"              -> OnnxConv(node)
          [] type = "ConvTranspose"     -> OnnxConvTranspose(node)
          [] type = "Dropout"           -> Returns([is |-> "Dropout", mask |-> Len(node.output) = 2])
          [] type = "GlobalAveragePool" -> Returns([is |-> "GlobalPool", reducer |-> "Sum"])
          [] type = "GlobalLpPool"      -> Returns([is |-> "GlobalPool", reducer |-> "Lp"])
          [] type = "GlobalMaxPool"     -> Returns([is |-> "GlobalPool", reducer |-> "Max"])
          [] type \in {"Hardmax", "Softmax", "LogSoftmax"} -> OnnxLayer(version, node)
          [] type = "InstanceNormalization" -> Returns(Is("InstanceNorm"))
          [] type = "LRN"               -> Needs(node, {"size"}, Is("Lrn"))
          [] type = "MaxPool"           -> OnnxMaxPool(node)
          [] type = "PRelu"             -> Returns(Is("Prelu"))
          [] type \in DOMAIN Reducers   -> OnnxReduce(version, node)
          [] type \in DOMAIN Activations -> OnnxActivation(node)

NnTypes ==
    {"ArgMax", "ArgMin", "AveragePool", "BatchNormalization", "Conv", "ConvTranspose", "Dropout", "GlobalAveragePool",
     "GlobalLpPool", "GlobalMaxPool", "Hardmax", "Softmax", "LogSoftmax", "InstanceNormalization", "LRN", "MaxPool", "PRelu"}
    \cup DOMAIN Reducers \cup DOMAIN Activations

-----------------------------------------------------------------------------
(* The others, and the graph.                                              *)

\* Strings to numbers or numbers to strings, by which of the defaults is there.
OnnxCategoryMapper(node) ==
    LET int    == "default_int64" \in DOMAIN node.attr
        string == "default_string" \in DOMAIN node.attr
    IN  IF int = string THEN Fails
        ELSE Needs(node, {"cats_int64s", "cats_strings"},
                   [is |-> "CategoryMapper", from |-> IF int THEN "String" ELSE "I64", to |-> IF int THEN "I64" ELSE "String"])

\* Only the linear interpolation.
OnnxResize(node) ==
    IF AttrOr(node, "mode", "") # "linear" THEN Fails
    ELSE Returns([is |-> "Resize", scales |-> OptionalInput(node, 3), sizes |-> OptionalInput(node, 4)])

Quantizer(node) ==
    Returns([is |-> node.op_type, zero_point |-> IF Len(node.input) = 3 THEN Only(3) ELSE Unknown])

\* Neither the direction nor the activations that are asked for are looked at.
OnnxRec(node) ==
    LET cells == node.op_type = "LSTM"
    IN  Returns([is |-> node.op_type, bias |-> OptionalInput(node, 4), lens |-> OptionalInput(node, 5),
                 h |-> OptionalInput(node, 6), c |-> IF cells THEN OptionalInput(node, 7) ELSE Unknown,
                 p |-> IF cells THEN OptionalInput(node, 8) ELSE Unknown, y |-> OptionalOutput(node, 1),
                 y_h |-> OptionalOutput(node, 2), y_c |-> IF cells THEN OptionalOutput(node, 3) ELSE Unknown])

\* The operator of a node; a type that is not registered is not implemented.
OnnxOp(version, node) ==
    LET type == node.op_type
    IN  CASE type \in ArrayTypes         -> ArrayNode(version, node)
          [] type \in MathTypes          -> MathNode(version, node)
          [] type \in NnTypes            -> NnNode(version, node)
          [] type \in DOMAIN OnnxLogic   -> Returns(Bin(OnnxLogic[type]))
          [] type \in Functions1         -> Returns(Element(Unknown))
          [] type = "Where"              -> Returns(Is("Iff"))
          [] type = "Cast"               -> Needs(node, {"to"}, Element(<<node.attr["to"]>>))
          [] type = "Constant"           -> Needs(node, {"value"}, [is |-> "Const", value |-> node.attr["value"]])
          [] type = "Resize"             -> OnnxResize(node)
          [] type = "CategoryMapper"     -> OnnxCategoryMapper(node)
          [] type \in {"RNN", "GRU", "LSTM"} -> OnnxRec(node)
          [] type \in {"QuantizeLinear", "DequantizeLinear"} -> Quantizer(node)
          [] type \in {"Identity", "DynamicQuantizeLinear"}  -> Returns(Is(type))
          [] OTHER                       -> Returns(Is("Unimplemented"))

Distinct(names) == FoldLeft(LAMBDA seen, name : IF name \in Range(seen) THEN seen ELSE Append(seen, name), <<>>, names)

\* parse_graph: a source or a constant for each input, a constant for each of the other
\* initializers, then the nodes in the order of the file, then a source for each name
\* that nothing makes; a name is the last outlet that was given it.
ParseGraph(version, g) ==
    LET held    == g.input \o SetToSeq(DOMAIN g.initializer \ Range(g.input))
        ops     == [i \in DOMAIN g.node |-> OnnxOp(version, g.node[i])]
        consts  == Len(held)
        made(name)  == {i \in DOMAIN g.node : name \in Range(Named(g.node[i].output))}
        used    == FlattenSeq([i \in DOMAIN g.node |-> Named(g.node[i].input)])
        lost    == Distinct(SelectSeq(used, LAMBDA name : made(name) = {} /\ name \notin Range(held)))
        Place(names, name) == CHOOSE k \in DOMAIN names : names[k] = name
        outlet(name) ==
            IF made(name) # {} THEN <<consts + Max(made(name)), Place(Named(g.node[Max(made(name))].output), name)>>
            ELSE IF name \in Range(held) THEN <<Place(held, name), 1>>
            ELSE <<consts + Len(ops) + Place(lost, name), 1>>
        Leaf(name)  == [inputs |-> <<>>, op |-> IF name \in DOMAIN g.initializer
                                                THEN [is |-> "Const", value |-> g.initializer[name]] ELSE Is("Source")]
        Inner(i)    == [op |-> ops[i][1], inputs |-> [k \in DOMAIN Named(g.node[i].input) |-> outlet(Named(g.node[i].input)[k])]]
    IN  IF Fails \in Range(ops) THEN Fails
        ELSE Returns([k \in DOMAIN held |-> Leaf(held[k])] \o [i \in DOMAIN ops |-> Inner(i)]
                     \o [k \in DOMAIN lost |-> [op |-> Is("Source"), inputs |-> <<>>]])
=============================================================================
