---------------------------- MODULE InferenceOps ----------------------------
(***************************************************************************)
(* The operators of an inference model, by name: their rules, and the      *)
(* tensors that what replaces them in a typed model returns.               *)
(***************************************************************************)
EXTENDS RecRules

\* InferenceRulesOp::rules, or its closure at `at' when v is what the closures have seen;
\* n is the number of the inputs.
OpRules(op, n, at, v) ==
    CASE op.is = "Source"      -> <<>>
      [] op.is = "Const"       -> <<Equals(Out(1, "value"), Val(op.value))>>
      [] op.is = "Identity"    -> <<SameType(1, 1), SameShape(1, 1)>>
      [] op.is = "Element"     -> ElementRules(op, at, v)
      [] op.is = "Binary"      -> BinaryRules(op, at, v)
      [] op.is = "Nary"        -> NaryRules(op, n, at, v)
      [] op.is = "Iff"         -> IffRules(op, at, v)
      [] op.is = "Activation"  -> ActivationRules(op, at, v)
      [] op.is = "MatMul"      -> MatMulRules(op, at, v)
      [] op.is = "Reduce"      -> ReduceRules(op, at, v)
      [] op.is = "GlobalPool"  -> GlobalPoolRules(op, at, v)
      [] op.is \in {"Hardmax", "Softmax", "LogSoftmax"} -> LayerRules(op, at, v)
      [] op.is = "SumPool"     -> SumPoolRules(op, at, v)
      [] op.is = "MaxPool"     -> MaxPoolRules(op, at, v)
      [] op.is = "Conv"        -> ConvRules(op, at, v)
      [] op.is = "AddDims"     -> AddDimsRules(op, at, v)
      [] op.is = "RmDims"      -> RmDimsRules(op, at, v)
      [] op.is = "Permute"     -> PermuteRules(op, at, v)
      [] op.is = "Concat"      -> ConcatRules(op, n, at, v)
      [] op.is = "Tile"        -> TileRules(op, at, v)
      [] op.is = "BroadcastTo" -> MultiBroadcastToRules(op, at, v)
      [] op.is = "ConstantLike"    -> ConstantLikeRules(op, at, v)
      [] op.is = "EyeLike"         -> EyeLikeRules(op, at, v)
      [] op.is = "ConstantOfShape" -> ConstantOfShapeRules(op, at, v)
      [] op.is = "Size"        -> SizeRules(op, at, v)
      [] op.is = "Shape"       -> ShapeRules(op, at, v)
      [] op.is = "Gather"      -> GatherRules(op, at, v)
      [] op.is = "GatherElements"  -> GatherElementsRules(op, at, v)
      [] op.is = "GatherNd"        -> GatherNdRules(op, at, v)
      [] op.is = "ScatterElements" -> ScatterElementsRules(op, at, v)
      [] op.is = "ScatterNd"       -> ScatterNdRules(op, at, v)
      [] op.is = "Split"       -> SplitRules(op, at, v)
      [] op.is = "Slice"       -> SliceRules(op, at, v)
      [] op.is = "Crop"        -> CropRules(op, at, v)
      [] op.is = "Pad"         -> PadRules(op, at, v)
      [] op.is = "Downsample"  -> DownsampleRules(op, at, v)
      [] op.is = "Flatten"     -> FlattenRules(op, at, v)
      [] op.is = "Reshape"     -> ReshapeRules(op, at, v)
      [] op.is = "Squeeze"     -> SqueezeRules(op, at, v)
      [] op.is = "StridedSlice" -> StridedSliceRules(op, at, v)
      [] op.is = "Compress"     -> CompressRules(op, at, v)
      [] op.is = "Slice1"       -> Slice1Rules(op, at, v)
      [] op.is = "Pad11"        -> Pad11Rules(op, at, v)
      [] op.is = "Split13"      -> Split13Rules(op, at, v)
      [] op.is = "Squeeze13"    -> Squeeze13Rules(op, at, v)
      [] op.is = "Unsqueeze13"  -> Unsqueeze13Rules(op, at, v)
      [] op.is = "OneHot"       -> OneHotRules(op, at, v)
      [] op.is = "NonZero"      -> NonZeroRules(op, at, v)
      [] op.is = "Resize"       -> ResizeRules(op, n, at, v)
      [] op.is = "Clip11"       -> Clip11Rules(op, at, v)
      [] op.is = "Gemm"         -> GemmRules(op, at, v)
      [] op.is = "Pow"          -> PowRules(op, at, v)
      [] op.is = "MatMulInteger" -> MatMulIntegerRules(op, at, v)
      [] op.is = "QLinearMatMul" -> QLinearMatMulRules(op, at, v)
      [] op.is = "QuantizeLinear" -> QuantizeLinearRules(op, at, v)
      [] op.is = "DequantizeLinear" -> DequantizeLinearRules(op, at, v)
      [] op.is = "DynamicQuantizeLinear" -> DynamicQuantizeLinearRules(op, at, v)
      [] op.is = "Prelu"        -> PreluRules(op, at, v)
      [] op.is = "Reduce13"     -> Reduce13Rules(op, at, v)
      [] op.is = "BatchNorm"    -> BatchNormRules(op, at, v)
      [] op.is = "Dropout"      -> DropoutRules(op, at, v)
      [] op.is = "InstanceNorm" -> InstanceNormRules(op, at, v)
      [] op.is = "CategoryMapper" -> CategoryMapperRules(op, at, v)
      [] op.is = "ConvTranspose" -> ConvTransposeRules(op, at, v)
      [] op.is = "RemInt"       -> BinaryRules([fn |-> "Rem"], at, v)
      [] op.is = "Lrn"          -> LrnRules(op, at, v)
      [] op.is = "RNN"          -> RnnRules(op, at, v)
      [] op.is = "GRU"          -> GruRules(op, at, v)
      [] op.is = "LSTM"         -> LstmRules(op, at, v)

\* Expansion::wire, then the evaluation of what it made, or the evaluation of an
\* operator that is typed as it is; Fails when that bails.
OpWire(op, ts) ==
    CASE op.is = "Const"       -> Returns(op.value)
      [] op.is = "Identity"    -> Returns(ts[1])
      [] op.is = "Element"     -> ElementFacts(op, ts[1])
      [] op.is = "Binary"      -> BinaryWire(op, ts)
      [] op.is = "Nary"        -> NaryWire(op, ts)
      [] op.is = "Iff"         -> IffFacts(ts)
      [] op.is = "Activation"  -> ActivationWire(op, ts)
      [] op.is = "MatMul"      -> MatMulWire(op, ts)
      [] op.is = "Reduce"      -> ReduceWire(op, ts)
      [] op.is = "GlobalPool"  -> GlobalPoolWire(op, ts)
      [] op.is = "Hardmax"     -> HardmaxWire(op, ts)
      [] op.is \in {"Softmax", "LogSoftmax"} -> SoftmaxWire(op, ts)
      [] op.is = "SumPool"     -> SumPoolFacts(op.pool, ts[1])
      [] op.is = "MaxPool"     -> MaxPoolFacts(op.pool, op.indices, ts[1])
      [] op.is = "Conv"        -> ConvWire(op, ts)
      [] op.is = "AddDims"     -> AddDimsWire(op, ts)
      [] op.is = "RmDims"      -> RmDimsWire(op, ts)
      [] op.is = "Permute"     -> PermuteWire(op, ts)
      [] op.is = "Concat"      -> ConcatWire(op, ts)
      [] op.is = "Tile"        -> TileWire(op, ts)
      [] op.is = "BroadcastTo" -> MultiBroadcastToWire(op, ts)
      [] op.is = "ConstantLike"    -> ConstantLikeEval(op, ts)
      [] op.is = "EyeLike"         -> EyeLikeEval(op, ts)
      [] op.is = "ConstantOfShape" -> ConstantOfShapeWire(op, ts)
      [] op.is = "Size"        -> SizeWire(op, ts)
      [] op.is = "Shape"       -> ShapeWire(op, ts)
      [] op.is = "Gather"      -> GatherWire(op, ts)
      [] op.is = "GatherElements"  -> GatherElementsFacts(ts)
      [] op.is = "GatherNd"        -> GatherNdFacts(op.batch_dims, ts)
      [] op.is = "ScatterElements" -> ScatterElementsFacts(ts)
      [] op.is = "ScatterNd"       -> ScatterNdFacts(ts)
      [] op.is = "Split"       -> SplitWire(op, ts)
      [] op.is = "Slice"       -> SliceFacts(op.axis, op.start, op.end, ts[1])
      [] op.is = "Crop"        -> CropWire(op, ts)
      [] op.is = "Pad"         -> PadFacts(op.pads, ts[1])
      [] op.is = "Downsample"  -> DownsampleFacts(op.axis, op.stride, op.modulo, ts[1])
      [] op.is = "Flatten"     -> FlattenWire(op, ts)
      [] op.is = "Reshape"     -> ReshapeWire(op, ts)
      [] op.is = "Squeeze"     -> SqueezeWire(op, ts)
      [] op.is = "StridedSlice" -> StridedSliceWire(op, ts)
      [] op.is = "Compress"     -> CompressEval(op, ts)
      [] op.is = "Slice1"       -> Slice1Wire(op, ts)
      [] op.is = "Pad11"        -> Pad11Wire(op, ts)
      [] op.is = "Split13"      -> Split13Wire(op, ts)
      [] op.is = "Squeeze13"    -> Squeeze13Wire(op, ts)
      [] op.is = "Unsqueeze13"  -> Unsqueeze13Wire(op, ts)
      [] op.is = "OneHot"       -> OneHotWire(op, ts)
      [] op.is = "NonZero"      -> NonZeroWire(op, ts)
      [] op.is = "Resize"       -> ResizeWire(op, ts)
      [] op.is = "Clip11"       -> Clip11Wire(op, ts)
      [] op.is = "Gemm"         -> GemmWire(op, ts)
      [] op.is = "Pow"          -> PowWire(op, ts)
      [] op.is = "MatMulInteger" -> MatMulIntegerWire(op, ts)
      [] op.is = "QLinearMatMul" -> QLinearMatMulWire(op, ts)
      [] op.is = "QuantizeLinear" -> QuantizeLinearWire(op, ts)
      [] op.is = "DequantizeLinear" -> DequantizeLinearWire(op, ts)
      [] op.is = "DynamicQuantizeLinear" -> DynamicQuantizeLinearWire(op, ts)
      [] op.is = "Prelu"        -> PreluWire(op, ts)
      [] op.is = "Reduce13"     -> Reduce13Wire(op, ts)
      [] op.is = "BatchNorm"    -> BatchNormWire(op, ts)
      [] op.is = "Dropout"      -> DropoutWire(op, ts)
      [] op.is = "InstanceNorm" -> InstanceNormWire(op, ts)
      [] op.is = "CategoryMapper" -> CategoryMapperWire(op, ts)
      [] op.is = "ConvTranspose" -> ConvTransposeWire(op, ts)
      [] op.is = "RemInt"       -> RemIntWire(op, ts)
      [] op.is = "Lrn"          -> Returns(ts[1])
      [] op.is \in {"RNN", "GRU", "LSTM"} -> RecurrentWire(op, ts)
=============================================================================
