----------------------------- MODULE ArrayRules -----------------------------
(***************************************************************************)
(* The operators on arrays of an inference model (hir/src/ops/array): the  *)
(* rules of each (XRules), by place in its code, and what it is replaced   *)
(* by in a typed model (XWire), of which only the types and the shapes are *)
(* told.  v is what the closures have seen, in order.                      *)
(***************************************************************************)
EXTENDS TypedFacts

\* The first output is told what was found, if something was.
Gives(part, found, expr(_)) ==
    <<Once(LAMBDA some : IF some = Fails THEN Bail ELSE Equals(Out(1, part), expr(some[1])), found)>>

TileRules(op, at, v) ==
    CASE at[1] = "start" -> <<SameType(1, 1), SameRank(1, 1), Equals(In(2, "rank"), Val(1)),
                              Equals(InDim(2, 0), In(1, "rank")), Given(<<In(2, "value")>>, <<"mult">>)>>
      [] at[1] = "mult"  -> [i \in DOMAIN v[1].data |-> Equals(Times(v[1].data[i], InDim(1, i - 1)), OutDim(1, i - 1))]
TileWire(op, ts) == TileFacts(ts[2].data, ts[1])

MultiBroadcastToRules(op, at, v) ==
    CASE at[1] = "start" -> <<SameType(1, 1), Equals(In(2, "rank"), Val(1)), Given(<<In(1, "shape")>>, <<"shape">>)>>
      [] at[1] = "shape" -> <<Given(<<In(2, "value")>>, <<"dims">>)>>
      [] at[1] = "dims"  -> Gives("shape", MultiBroadcast(<<v[2].data, v[1]>>), Dims)
MultiBroadcastToWire(op, ts) ==
    LET dims == MultiBroadcast(<<ts[1].shape, ts[2].data>>)
    IN  IF dims = Fails THEN Fails ELSE BroadcastToFacts(dims[1], ts[1])

\* The value is known as soon as the shape is.
Filled(dt, shape, item) == TensorOf(dt, shape, [i \in 1 .. Product1(shape) |-> item])
ConstantLikeRules(op, at, v) ==
    CASE at[1] = "start" -> <<SameType(1, 1), SameRank(1, 1), SameShape(1, 1),
                              Given(<<In(1, "shape"), In(1, "dt")>>, <<"known">>)>>
      [] at[1] = "known" -> <<Equals(Out(1, "value"), Val(Filled(v[2], v[1], op.value)))>>
ConstantLikeEval(op, ts) == Returns(Filled("F32", ts[1].shape, op.value))

Eye(op, dt, shape) ==
    TensorOf(dt, shape, [i \in 1 .. Product1(shape) |->
                            IF (i - 1) % shape[2] = (i - 1) \div shape[2] + op.k THEN 1 ELSE 0])
EyeLikeRules(op, at, v) ==
    CASE at[1] = "start" -> <<IF op.dt = Unknown THEN SameType(1, 1) ELSE Equals(Out(1, "dt"), Const(op.dt)),
                              Equals(In(1, "rank"), Val(2)), SameShape(1, 1), Given(<<In(1, "shape")>>, <<"shape">>)>>
      [] at[1] = "shape" -> <<IF op.dt = Unknown THEN Given(<<In(1, "dt")>>, <<"type">>)
                              ELSE Equals(Out(1, "value"), Val(Eye(op, op.dt[1], v[1])))>>
      [] at[1] = "type"  -> <<Equals(Out(1, "value"), Val(Eye(op, v[2], v[1])))>>
EyeLikeEval(op, ts) == Returns(Eye(op, IF op.dt = Unknown THEN ts[1].dt ELSE op.dt[1], ts[1].shape))

ConstantOfShapeRules(op, at, v) ==
    <<Equals(Out(1, "dt"), Val(op.dt)), Equals(In(1, "rank"), Val(1)), Equals(InDim(1, 0), Out(1, "rank"))>>
ConstantOfShapeWire(op, ts) == BroadcastToFacts(ts[1].data, Tensor(op.dt, <<>>))

SizeRules(op, at, v) == <<Equals(Out(1, "dt"), Val(op.dt)), Equals(Out(1, "rank"), Val(0))>>
SizeWire(op, ts)     == Returns(TensorOf(op.dt, <<>>, <<Product1(ts[1].shape)>>))

\* The shape is known, as a value, as soon as it is known at all; numbers are I32
\* unless I64 is asked for.
ShapeRules(op, at, v) ==
    LET dt == IF op.dt = "I64" THEN "I64" ELSE "I32"
    IN  CASE at[1] = "start" -> <<Equals(Out(1, "rank"), Val(1)), Given(<<In(1, "rank")>>, <<"rank">>),
                                  Given(<<OutDim(1, 0)>>, <<"length">>), Given(<<In(1, "shape")>>, <<"shape">>)>>
          [] at[1] = "rank"   -> <<Equals(OutDim(1, 0), Val(v[1]))>>
          [] at[1] = "length" -> <<Equals(In(1, "rank"), Val(v[1]))>>
          [] at[1] = "shape"  -> <<Equals(Out(1, "dt"), Val(dt)),
                                   Equals(Out(1, "value"), Val(TensorOf(dt, <<Len(v[1])>>, v[1])))>>
ShapeWire(op, ts) == Returns(TensorOf(op.dt, <<Len(ts[1].shape)>>, ts[1].shape))

GatherRules(op, at, v) ==
    CASE at[1] = "start"  -> <<SameType(1, 1), Equals(In(2, "dt"), Val("I64")),
                               Equals(SumOf(<<In(1, "rank"), Val(-1), In(2, "rank")>>), Out(1, "rank")),
                               Given(<<In(1, "shape"), In(2, "shape")>>, <<"shapes">>)>>
      [] at[1] = "shapes" -> <<Equals(Out(1, "shape"), Dims(GatherShape(AxisFrom(op.axis, Len(v[1])), v[1], v[2])))>>
GatherWire(op, ts) == GatherFacts(AxisFrom(op.axis, Len(ts[1].shape)), ts)

\* split_dims: the lengths that are told, or as many equal ones.
SplitDims(op, dim) == IF op.split = Unknown THEN [i \in 1 .. op.outputs |-> dim \div op.outputs] ELSE op.split[1]
SplitRules(op, at, v) ==
    CASE at[1] = "start" -> FlattenSeq([i \in 1 .. op.outputs |-> <<SameType(1, i), SameRank(1, i)>>])
                            \o <<Given(<<In(1, "shape")>>, <<"shape">>)>>
      [] at[1] = "shape" -> LET axis == AxisFrom(op.axis, Len(v[1])) + 1
                            IN  [i \in 1 .. op.outputs |->
                                    Equals(Out(i, "shape"), Dims([v[1] EXCEPT ![axis] = SplitDims(op, @)[i]]))]
SplitWire(op, ts) ==
    LET axis == AxisFrom(op.axis, Len(ts[1].shape))
        lens == SplitDims(op, ts[1].shape[axis + 1])
        from(i) == FoldLeft(+, 0, SubSeq(lens, 1, i - 1))
    IN  [i \in DOMAIN lens |-> SliceFacts(axis, from(i), from(i) + lens[i], ts[1])[1]]

SliceRules(op, at, v) ==
    CASE at[1] = "start" -> <<SameRank(1, 1), SameType(1, 1), Given(<<In(1, "rank")>>, <<"rank">>)>>
      [] at[1] = "rank"  -> [i \in 1 .. v[1] |-> Equals(OutDim(1, i - 1), IF op.axis = i - 1 THEN Val(op.end - op.start)
                                                                          ELSE InDim(1, i - 1))]

CropRules(op, at, v) ==
    CASE at[1] = "start" -> <<SameType(1, 1), SameRank(1, 1), Given(<<In(1, "rank")>>, <<"rank">>)>>
      [] at[1] = "rank"  -> [i \in 1 .. v[1] |->
                                Equals(InDim(1, i - 1), IF op.axis = i - 1
                                                        THEN SumOf(<<OutDim(1, i - 1), Val(op.start), Val(op.end)>>)
                                                        ELSE OutDim(1, i - 1))]
CropWire(op, ts) == SliceFacts(op.axis, op.start, ts[1].shape[op.axis + 1] - op.end, ts[1])

PadRules(op, at, v) ==
    <<SameType(1, 1), SameRank(1, 1)>>
    \o [i \in DOMAIN op.pads |-> Equals(InDim(1, i - 1),
                                        SumOf(<<OutDim(1, i - 1), Val(- op.pads[i][1]), Val(- op.pads[i][2])>>))]

DownsampleRules(op, at, v) ==
    CASE at[1] = "start" -> <<SameRank(1, 1), SameType(1, 1), Given(<<In(1, "rank")>>, <<"rank">>)>>
      [] at[1] = "rank"  -> [i \in 1 .. v[1] |-> IF op.axis = i - 1 THEN Given(<<InDim(1, i - 1)>>, <<"dim">>)
                                                 ELSE Equals(InDim(1, i - 1), OutDim(1, i - 1))]
      [] at[1] = "dim"   -> <<Equals(OutDim(1, op.axis), Val(DivCeil(v[2] - op.modulo, op.stride)))>>

GatherElementsRules(op, at, v) ==
    <<SameType(1, 1), Equals(In(1, "rank"), In(2, "rank")), SameShape(2, 1)>>

ScatterElementsRules(op, at, v) ==
    <<SameType(1, 1), Equals(In(3, "dt"), In(1, "dt")), Equals(In(1, "rank"), In(2, "rank")),
      Equals(In(2, "shape"), In(3, "shape")), SameShape(1, 1)>>

\* The rank of the updates: what the indices do not name of the input.
ScatterNdRules(op, at, v) ==
    CASE at[1] = "start" -> <<SameType(1, 1), Equals(In(3, "dt"), In(1, "dt")), SameShape(1, 1),
                              Given(<<In(1, "rank"), In(2, "rank")>>, <<"ranks">>)>>
      [] at[1] = "ranks" -> <<Given(<<InDim(2, v[2] - 1)>>, <<"names">>)>>
      [] at[1] = "names" -> <<Equals(In(3, "rank"), Val(v[1] + v[2] - v[3] - 1))>>

\* The rank and the dimensions that are left are those of the indices, not those of
\* the input.
GatherNdRules(op, at, v) ==
    CASE at[1] = "start" -> <<SameType(1, 1), Given(<<In(2, "rank")>>, <<"rank">>)>>
      [] at[1] = "rank"  -> [i \in 1 .. v[1] - 1 |-> Equals(OutDim(1, i - 1), InDim(2, i - 1))]
                            \o <<Given(<<InDim(2, v[1] - 1), In(2, "rank")>>, <<"names">>)>>
      [] at[1] = "names" -> [i \in 1 .. v[3] - v[2] |-> Equals(OutDim(1, v[1] + i - 2), InDim(2, i - 1))]

-----------------------------------------------------------------------------
(* Shapes that are flattened, squeezed or cut otherwise.                   *)

Flattened(op, shape) ==
    LET axis == AxisFrom(op.axis, Len(shape))
    IN  <<Product1(SubSeq(shape, 1, axis)), Product1(SubSeq(shape, axis + 1, Len(shape)))>>

\* compute_shape, deal_with_zero: the items of the specification are met in order, up
\* to -1; a 0 stands for the next dimension of the input, and each item takes as
\* many of these as it takes to be a divisor of their product.
MeetItem(input, spec, acc, k) ==
    LET Taken(j) == Product1(SubSeq(input, acc.next, j - 1))
        slot     == IF spec[k] = 0 THEN input[acc.next] ELSE spec[k]
        enough   == {j \in acc.next .. Len(input) + 1 : (acc.rest * Taken(j)) % slot = 0}
    IN  IF ~ acc.ok \/ acc.stopped THEN acc
        ELSE IF spec[k] = -1 THEN [acc EXCEPT !.stopped = TRUE]
        ELSE IF spec[k] = 0 /\ (acc.rest # 1 \/ acc.next > Len(input)) THEN [acc EXCEPT !.ok = FALSE]
        ELSE IF enough = {} THEN [acc EXCEPT !.ok = FALSE]
        ELSE [acc EXCEPT !.shape[k] = slot, !.next = Min(enough), !.rest = (@ * Taken(Min(enough))) \div slot]
DealWithZero(input, spec) ==
    FoldLeft(LAMBDA acc, k : Once(LAMBDA a : MeetItem(input, spec, a, k), acc),
             [ok |-> TRUE, stopped |-> FALSE, shape |-> spec, next |-> 1, rest |-> 1],
             [k \in DOMAIN spec |-> k])

\* From the left, then from the right, then the volume tells what -1 is.
ReshapedBy(input, left, right) ==
    LET shape == Reverse(right.shape)
        free  == {k \in DOMAIN shape : shape[k] = -1}
        told  == Product1(SelectSeq(shape, LAMBDA d : d # -1))
    IN  IF ~ left.ok \/ ~ right.ok THEN Fails
        ELSE IF free = {} THEN Returns(shape)
        ELSE IF Product1(input) % told # 0 THEN Fails
        ELSE Returns([shape EXCEPT ![Min(free)] = Product1(input) \div told])
ReshapedTo(input, spec) ==
    Once(LAMBDA left : Once(LAMBDA right : ReshapedBy(input, left, right),
                            DealWithZero(Reverse(input), Reverse(left.shape))),
         DealWithZero(input, spec))

\* to_axis_ops: what makes the first dimension that differs the wanted one: remove or
\* add a one, or cut the shortest groups of the same volume otherwise; <<>> when there
\* are none (todo!()).
AxisOpTowards(current, final) ==
    LET both   == {k \in DOMAIN current : k <= Len(final)}
        differ == {k \in both : current[k] # final[k]}
        k      == Min(differ)
        group(s, n) == SubSeq(s, k, k + n - 1)
        groups == {<<i, o>> \in (1 .. Len(current) - k + 1) \X (1 .. Len(final) - k + 1) :
                       Product1(group(current, i)) = Product1(group(final, o))}
        g      == CHOOSE x \in groups : \A y \in groups : x[1] < y[1] \/ (x[1] = y[1] /\ x[2] <= y[2])
    IN  IF differ = {} THEN Returns(IF Len(final) > Len(current) THEN AO!Add(Len(current))
                                    ELSE AO!Rm(Len(current) - 1))
        ELSE IF current[k] = 1 THEN Returns(AO!Rm(k - 1))
        ELSE IF final[k] = 1 THEN Returns(AO!Add(k - 1))
        ELSE IF groups = {} THEN Fails
        ELSE Returns(AO!Reshape(k - 1, group(current, g[1]), group(final, g[2])))

WireAxisOp(ts, final) ==
    IF ts = Fails THEN Fails
    ELSE IF ts[1].shape = final THEN ts
    ELSE LET towards == AxisOpTowards(ts[1].shape, final)
         IN  IF towards = Fails THEN Fails ELSE AxisFacts(towards[1], ts[1])
WireAxisOps(t, final) ==
    FoldLeft(LAMBDA ts, i : Once(LAMBDA some : WireAxisOp(some, final), ts),
             Returns(t), [i \in 1 .. 2 * (Len(t.shape) + Len(final)) |-> i])

FlattenRules(op, at, v) ==
    CASE at[1] = "start" -> <<SameType(1, 1), Given(<<In(1, "shape")>>, <<"shape">>)>>
      [] at[1] = "shape" -> <<Equals(Out(1, "shape"), Dims(Flattened(op, v[1])))>>
FlattenWire(op, ts) == WireAxisOps(ts[1], Flattened(op, ts[1].shape))

ReshapeRules(op, at, v) ==
    CASE at[1] = "start" -> <<SameType(1, 1), Given(<<In(1, "shape"), In(2, "value")>>, <<"shapes">>)>>
      [] at[1] = "shapes" -> Gives("shape", ReshapedTo(v[1], v[2].data), Dims)
ReshapeWire(op, ts) ==
    Once(LAMBDA shape : IF shape = Fails THEN Fails ELSE WireAxisOps(ts[1], shape[1]),
         ReshapedTo(ts[1].shape, ts[2].data))

\* The axes, from 0, that a squeeze removes: those that are told, or all those of one.
SqueezedAxes(op, shape) ==
    IF op.axes = Unknown THEN {k - 1 : k \in {k \in DOMAIN shape : shape[k] = 1}}
    ELSE {AxisFrom(a, Len(shape)) : a \in op.axes[1]}
SqueezeShape(op, shape) ==
    LET kept == SelectSeq([k \in DOMAIN shape |-> k], LAMBDA k : k - 1 \notin SqueezedAxes(op, shape))
    IN  IF \E a \in SqueezedAxes(op, shape) : shape[a + 1] # 1 THEN Fails
        ELSE Returns([i \in DOMAIN kept |-> shape[kept[i]]])
SqueezeRules(op, at, v) ==
    CASE at[1] = "start" -> (IF op.axes = Unknown THEN <<SameType(1, 1)>>
                             ELSE <<SameType(1, 1),
                                    Equals(Out(1, "rank"), Plus(In(1, "rank"), - Cardinality(op.axes[1])))>>)
                            \o <<Given(<<In(1, "shape")>>, <<"shape">>)>>
      [] at[1] = "shape" -> Gives("shape", SqueezeShape(op, v[1]), Dims)

\* The axes are removed from the last one.
Descending(axes) == SetToSortSeq(axes, >)
RmAxes(t, axes)  == AxesFacts([i \in DOMAIN Descending(axes) |-> AO!Rm(Descending(axes)[i])], t)
SqueezeWire(op, ts) == RmAxes(ts[1], SqueezedAxes(op, ts[1].shape))

-----------------------------------------------------------------------------
(* Strided slices.  The masks are sets of positions in the parameters.     *)

\* What stands for the largest and the smallest integers of 64 bits.
Huge == 1000000

Strided(begin, end, stride, shrink) == [begin |-> begin, end |-> end, stride |-> stride, shrink |-> shrink]
Nothing(stride)                     == Strided(0, 0, stride, FALSE)

\* prepare_one_dim: where a dimension is cut; ix is the position of its parameters.
PrepareOneDim(op, ix, dim, begins, ends, strides) ==
    LET fix(x)  == IF x < 0 THEN x + dim ELSE x
        told    == IF ix < Len(begins) THEN Only(fix(begins[ix + 1])) ELSE Unknown
        stride  == IF ix < Len(strides) THEN strides[ix + 1] ELSE 1
        open    == ix \in op.end_mask \/ ix >= Len(ends.data)
                   \/ (ends.dt = "I64" /\ Abs(ends.data[ix + 1]) >= Huge)
        end     == IF open THEN (IF stride > 0 THEN dim ELSE -1) ELSE fix(ends.data[ix + 1])
        begin   == IF ix \in op.begin_mask \/ told = Unknown THEN (IF stride > 0 THEN 0 ELSE dim - 1) ELSE told[1]
        first   == IF told = Unknown THEN 0 ELSE told[1]
    IN  IF ix \in op.shrink_mask THEN Strided(first, first + 1, 1, TRUE)
        ELSE IF stride < 0
        THEN IF begin < 0 \/ end > dim - 1 THEN Nothing(stride)
             ELSE Strided(IF begin > dim - 1 THEN dim - 1 ELSE begin, IF end < 0 THEN -1 ELSE end, stride, FALSE)
        ELSE IF begin > dim - 1 \/ end < 0 THEN Nothing(stride)
             ELSE Strided(IF begin < 0 THEN 0 ELSE begin, IF end > dim - 1 THEN dim ELSE end, stride, FALSE)

SoftLen(d) == DivCeil(Abs(d.end - d.begin), Abs(d.stride))

\* The parameters: the begins, the ends and, when they are inputs, the axes and the
\* steps; params are the inputs but the first.
Strides(op, params, rank) == IF op.steps = Unknown THEN [i \in 1 .. rank |-> 1] ELSE params[op.steps[1] - 1].data
SlicedAxes(op, params, rank) ==
    IF op.axes = Unknown THEN Axes(rank)
    ELSE [i \in DOMAIN params[op.axes[1] - 1].data |-> AxisFrom(params[op.axes[1] - 1].data[i], rank)]
Cuts(op, params, shape) ==
    LET axes == SlicedAxes(op, params, Len(shape))
    IN  [i \in DOMAIN axes |-> PrepareOneDim(op, i - 1, shape[axes[i] + 1], params[1].data, params[2],
                                             Strides(op, params, Len(shape)))]

StridedShape(op, params, shape) ==
    LET axes   == SlicedAxes(op, params, Len(shape))
        cuts   == Cuts(op, params, shape)
        length == FoldLeft(LAMBDA acc, i : [acc EXCEPT ![axes[i] + 1] = SoftLen(cuts[i])], shape, [i \in DOMAIN axes |-> i])
        shrunk == {axes[i] : i \in {i \in DOMAIN axes : cuts[i].shrink}}
        kept   == SelectSeq([k \in DOMAIN shape |-> k], LAMBDA k : k - 1 \notin shrunk)
    IN  [i \in DOMAIN kept |-> length[kept[i]]]

\* The parameters follow the first input.
StridedSliceRules(op, at, v) ==
    LET given == 3 + Len(op.axes) + Len(op.steps)
    IN  CASE at[1] = "start"  -> <<SameType(1, 1), Equals(In(2, "rank"), Val(1)), Equals(In(3, "rank"), Val(1)),
                                   Equals(InDim(2, 0), InDim(3, 0))>>
                                 \o [i \in DOMAIN (op.axes \o op.steps) |->
                                        Equals(In(2, "shape"), In((op.axes \o op.steps)[i], "shape"))]
                                 \o <<Given(<<In(1, "shape")>>, <<"shape">>)>>
          [] at[1] = "shape"  -> <<Given([i \in 1 .. given - 1 |-> In(i + 1, "value")], <<"params">>)>>
          [] at[1] = "params" -> <<Equals(Out(1, "shape"), Dims(StridedShape(op, Tail(v), v[1])))>>

\* The wire looks up the dimension, and downsamples the axis, at the position of the
\* parameters where the axis is meant.
StridedSliceWire(op, ts) ==
    LET t     == ts[1]
        axes  == SlicedAxes(op, Tail(ts), Len(t.shape))
        cuts  == Cuts(op, Tail(ts), t.shape)
        whole(i) == IF cuts[i].stride > 0 THEN cuts[i].begin = 0 /\ cuts[i].end = t.shape[i]
                    ELSE cuts[i].end = 0 /\ cuts[i].begin = t.shape[i]
        slice(i, x) == IF whole(i) THEN Returns(x)
                       ELSE IF cuts[i].stride > 0 THEN SliceFacts(axes[i], cuts[i].begin, cuts[i].end, x)
                       ELSE SliceFacts(axes[i], cuts[i].end + 1, cuts[i].begin + 1, x)
        cut(i, x) == IF cuts[i].stride = 1 THEN slice(i, x)
                     ELSE DownsampleFacts(i - 1, cuts[i].stride, 0, slice(i, x)[1])
    IN  RmAxes(FoldLeft(LAMBDA x, i : cut(i, x)[1], t, [i \in DOMAIN axes |-> i]),
               {k \in op.shrink_mask : k < Len(t.shape)})

-----------------------------------------------------------------------------
(* Dimensions that are added, removed, moved or put end to end.            *)

AxesFrom(op, rank) == {AxisFrom(a, rank) : a \in op.axes}
Ascending(axes)    == SetToSortSeq(axes, <)

AddDimsShape(op, shape) ==
    FoldLeft(LAMBDA acc, a : InsertAt(acc, a + 1, 1), shape, Ascending(AxesFrom(op, Len(shape))))
AddDimsRules(op, at, v) ==
    CASE at[1] = "start" -> <<Equals(Out(1, "dt"), In(1, "dt")),
                              Equals(Out(1, "rank"), Plus(In(1, "rank"), Cardinality(op.axes))),
                              Given(<<In(1, "shape")>>, <<"shape">>)>>
      [] at[1] = "shape" -> <<Equals(Out(1, "shape"), Dims(AddDimsShape(op, v[1])))>>
AddDimsWire(op, ts) ==
    LET axes == Ascending(AxesFrom(op, Len(ts[1].shape)))
    IN  AxesFacts([i \in DOMAIN axes |-> AO!Add(axes[i])], ts[1])

RmDimsShape(op, shape) ==
    LET kept == SelectSeq([k \in DOMAIN shape |-> k], LAMBDA k : k - 1 \notin AxesFrom(op, Len(shape)))
    IN  [i \in DOMAIN kept |-> shape[kept[i]]]
RmDimsRules(op, at, v) ==
    CASE at[1] = "start" -> <<Equals(Out(1, "dt"), In(1, "dt")),
                              Equals(Out(1, "rank"), Plus(In(1, "rank"), - Cardinality(op.axes))),
                              Given(<<In(1, "rank")>>, <<"ones">>), Given(<<In(1, "shape")>>, <<"shape">>)>>
      [] at[1] = "ones"  -> LET axes == SetToSeq(AxesFrom(op, v[1]))
                            IN  [i \in DOMAIN axes |-> Equals(InDim(1, axes[i]), Val(1))]
      [] at[1] = "shape" -> <<Equals(Out(1, "shape"), Dims(RmDimsShape(op, v[1])))>>
RmDimsWire(op, ts) == RmAxes(ts[1], AxesFrom(op, Len(ts[1].shape)))

\* perm_to_cycles: each cycle from its smallest item on.
PermToCycles(perm) ==
    LET Image(x)  == perm[x + 1]
        Orbit(x)  == FoldLeft(LAMBDA c, i : IF Image(Last(c)) = x THEN c ELSE Append(c, Image(Last(c))), <<x>>, perm)
        Meet(acc, x) == IF Image(x) = x \/ \E i \in DOMAIN acc : x \in Range(acc[i]) THEN acc
                        ELSE Append(acc, Orbit(x))
    IN  FoldLeft(Meet, <<>>, Axes(Len(perm)))

\* is_rotation_cycle
RotationOf(cycle) ==
    LET n == Len(cycle)
    IN  IF \A i \in 1 .. n - 1 : cycle[i] + 1 = cycle[i + 1] THEN Only(<<cycle[1], cycle[n]>>)
        ELSE IF (\A i \in 2 .. n - 1 : cycle[i] - 1 = cycle[i + 1]) /\ cycle[n] - 1 = cycle[1]
        THEN Only(<<cycle[2], cycle[1]>>) ELSE Unknown

\* perm_to_atoms: moves are added until they make the permutation, at most as many as
\* there are pairs of axes.
PermToAtoms(perm) ==
    LET reached(changes) == FoldLeft(LAMBDA s, c : AO!MoveAxis(s, c[1], c[2]), Axes(Len(perm)), changes)
        more(changes, done) ==
            LET left      == [i \in DOMAIN perm |-> (CHOOSE k \in DOMAIN done : done[k] = perm[i]) - 1]
                cycles    == PermToCycles(left)
                rotations == SelectSeq(cycles, LAMBDA c : RotationOf(c) # Unknown)
            IN  Append(changes, IF rotations # <<>> THEN RotationOf(rotations[1])[1]
                                ELSE <<cycles[1][2], cycles[1][1]>>)
    IN  FoldLeft(LAMBDA changes, i : IF reached(changes) = perm THEN changes ELSE more(changes, reached(changes)),
                 <<>>, Axes(Len(perm) * Len(perm)))

PermOf(op, rank) == IF op.perm = Unknown THEN Reverse(Axes(rank)) ELSE op.perm[1]
PermuteShape(op, shape) ==
    IF Len(PermOf(op, Len(shape))) # Len(shape) THEN Fails
    ELSE Returns([k \in DOMAIN shape |-> shape[PermOf(op, Len(shape))[k] + 1]])
PermuteRules(op, at, v) ==
    CASE at[1] = "start" -> <<Equals(Out(1, "dt"), In(1, "dt")), Equals(Out(1, "rank"), In(1, "rank")),
                              Given(<<In(1, "shape")>>, <<"shape">>)>>
                            \o (IF op.perm = Unknown THEN <<>> ELSE <<Equals(Out(1, "rank"), Val(Len(op.perm[1])))>>)
      [] at[1] = "shape" -> Gives("shape", PermuteShape(op, v[1]), Dims)
PermuteWire(op, ts) ==
    LET moves == PermToAtoms(PermOf(op, Len(ts[1].shape)))
    IN  IF PermuteShape(op, ts[1].shape) = Fails THEN Fails
        ELSE AxesFacts([i \in DOMAIN moves |-> AO!Move(moves[i][1], moves[i][2])], ts[1])

\* Concat::resolve_axis, Unknown when it is out of the rank.
ResolveAxis(axis, rank) ==
    IF 0 <= axis /\ axis <= rank - 1 THEN Only(axis)
    ELSE IF - rank <= axis /\ axis < 0 THEN Only(axis + rank) ELSE Unknown

\* Along the axis the dimensions add up, along the others they are the same.
ConcatDims(n, axis, rank) ==
    LET others == SelectSeq(Axes(rank), LAMBDA k : k # axis)
    IN  <<Equals(SumOf(EachDim(n, axis)), OutDim(1, axis))>>
        \o FlattenSeq([i \in DOMAIN others |-> <<Equals(OutDim(1, others[i]), InDim(1, others[i])),
                                                 EqualsAll(EachDim(n, others[i]))>>])
ConcatRules(op, n, at, v) ==
    CASE at[1] = "start" -> <<Equals(Out(1, "rank"), In(1, "rank")), EqualsAll(Each(n, "rank")),
                              Given(Each(n, "dt"), <<"types">>), Given(<<In(1, "rank")>>, <<"rank">>)>>
      [] at[1] = "types" -> Gives("dt", SuperTypeFor(v), Val)
      [] at[1] = "rank"  -> LET axis == ResolveAxis(op.axis, v[1])
                            IN  IF axis = Unknown THEN <<Bail>> ELSE ConcatDims(n, axis[1], v[1])
ConcatWire(op, ts) ==
    LET dt   == SuperTypeFor([i \in DOMAIN ts |-> ts[i].dt])
        axis == ResolveAxis(op.axis, Len(ts[1].shape))
    IN  IF dt = Unknown \/ axis = Unknown THEN Fails ELSE ConcatFacts(axis[1], dt[1], ts)
=============================================================================
