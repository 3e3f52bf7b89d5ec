------------------------------ MODULE Patches -------------------------------
(***************************************************************************)
(* Where a convolution or a pooling reads (core/src/ops/cnn: padding,      *)
(* patch_axis, patches, pools; core/src/ops/nn/data_formats).  A patch     *)
(* holds, for an input of a known shape, the offsets in memory of what a   *)
(* kernel covers, relative to its center, and cuts the output in zones     *)
(* where the same part of the kernel is inside the input.                  *)
(***************************************************************************)
EXTENDS Dims, AxisOp

ProductOf(s) == FoldLeft(LAMBDA acc, d : acc * d, 1, s)
SumOf(s)     == FoldLeft(LAMBDA acc, d : acc + d, 0, s)

\* FoldLeft, each step of which has a value before the next is taken.
InTurn(op(_, _), base, s) == FoldLeft(LAMBDA acc, x : CHOOSE y \in {op(a, x) : a \in {acc}} : TRUE, base, s)

Dot(a, b)    == SumOf([k \in DOMAIN a |-> a[k] * b[k]])
Saturated(a) == Most(a, 0)

-----------------------------------------------------------------------------
(* Formats: which axes of a shape are N, C, and the spatial ones.          *)

HasN(fmt)     == fmt \in {"NCHW", "NHWC"}
CIsLast(fmt)  == fmt \in {"NHWC", "HWC"}
WithN(fmt)    == CASE fmt = "CHW" -> "NCHW" [] fmt = "HWC" -> "NHWC" [] OTHER -> fmt

HwRank(fmt, rank) == rank - 1 - If(HasN(fmt))
CAxis(fmt, rank)  == IF CIsLast(fmt) THEN rank - 1 ELSE If(HasN(fmt))
HAxis(fmt)        == If(HasN(fmt)) + If(~ CIsLast(fmt))
HwDims(fmt, s)    == SubSeq(s, HAxis(fmt) + 1, HAxis(fmt) + HwRank(fmt, Len(s)))
CDim(fmt, s)      == s[CAxis(fmt, Len(s)) + 1]
FromNCHW(fmt, n, c, hw) ==
    (IF HasN(fmt) THEN <<n>> ELSE <<>>) \o (IF CIsLast(fmt) THEN Append(hw, c) ELSE <<c>> \o hw)

\* How far apart in memory the items of an axis are; those of the last one by inner.
StridesOf(shape, inner) == [k \in DOMAIN shape |-> inner * ProductOf(SubSeq(shape, k + 1, Len(shape)))]
NStride(fmt, s)   == IF HasN(fmt) THEN StridesOf(s, 1)[1] ELSE 0
CStride(fmt, s)   == CDim(fmt, StridesOf(s, 1))
HwStrides(fmt, s) == HwDims(fmt, StridesOf(s, 1))
NDim(fmt, s)      == IF HasN(fmt) THEN s[1] ELSE 1

\* The indices of a shape, in order.
Coordinates(shape) ==
    FoldLeft(LAMBDA found, d : FlattenSeq([i \in DOMAIN found |-> [x \in 1 .. d |-> Append(found[i], x - 1)]]),
             <<<<>>>>, shape)
Position(shape, idx) == Dot(StridesOf(shape, 1), idx)

-----------------------------------------------------------------------------
(* Paddings.                                                               *)

Valid      == [is |-> "valid"]
SameUpper  == [is |-> "same_upper"]
SameLower  == [is |-> "same_lower"]
Explicit(bef, aft, ceil) == [is |-> "explicit", bef |-> bef, aft |-> aft, ceil |-> ceil]

\* Whether an axis is not padded.
IsValidDim(padding, ax) ==
    \/ padding.is = "valid"
    \/ padding.is = "explicit" /\ padding.ceil /\ padding.bef[ax] = 0 /\ padding.aft[ax] = 0

Field(kernel, dilation) == (kernel - 1) * dilation + 1
Computed(out, bef, aft) == [out |-> out, bef |-> bef, aft |-> aft]

\* The halves of a padding, the larger one after or before the input.
InTwo(pad, half, upper) == IF upper THEN <<half, Minus(pad, half)>> ELSE <<Minus(pad, half), half>>
Halves(pad, upper)      == InTwo(pad, Through(pad, <<Quot(2)>>), upper)
WithHalves(out, parts)  == Computed(out, parts[1], parts[2])

ValidDim(input, field, stride) ==
    IF Known(input) THEN Val(CeilDiv(Saturated(input.n + 1 - field), stride))
    ELSE Through(input, <<Inc(1), Inc(- field)>> \o Ceiled(stride))

ExplicitDim(input, field, stride, bef, aft, ceil) ==
    Through(IF Known(input) THEN Val(Saturated(input.n + bef + aft - field)) ELSE input,
            (IF Known(input) THEN <<>> ELSE <<Inc(bef), Inc(aft), Inc(- field)>>)
            \o (IF ceil THEN Ceiled(stride) ELSE <<Quot(stride)>>) \o <<Inc(1)>>)

\* What a kernel that starts so many times goes over, and what the input lacks of it.
Span(times, stride, field) == Through(times, <<Inc(-1), By(stride), Inc(field)>>)
Lacking(span, input) == IF Known(input) THEN Val(Saturated(span.n - input.n)) ELSE Minus(span, input)
SameDim(same, input, field, stride, upper) ==
    WithHalves(same, Halves(Lacking(Span(same, stride, field), input), upper))

\* The length of the output and the paddings of an axis: compute_one.
PaddedDim(padding, ax, input, field, stride) ==
    CASE padding.is = "valid"    -> Computed(ValidDim(input, field, stride), Val(0), Val(0))
      [] padding.is = "explicit" ->
             Computed(ExplicitDim(input, field, stride, padding.bef[ax], padding.aft[ax], padding.ceil),
                      Val(padding.bef[ax]), Val(padding.aft[ax]))
      [] OTHER -> SameDim(DivCeil(input, stride), input, field, stride, padding.is = "same_upper")

\* The same of a deconvolution, of which the convolution has this input as output.
CroppedBy(open, bef, aft, adj) == Computed(Through(open, <<Inc(- bef), Inc(- aft), Inc(adj)>>), Val(bef), Val(aft))
CroppedDim(padding, ax, input, field, stride, adj) ==
    LET crop == field - stride + adj
        bef  == CASE padding.is = "valid"      -> 0
                  [] padding.is = "explicit"   -> padding.bef[ax]
                  [] padding.is = "same_upper" -> crop \div 2
                  [] padding.is = "same_lower" -> crop - crop \div 2
        aft  == CASE padding.is = "valid"      -> 0
                  [] padding.is = "explicit"   -> padding.aft[ax]
                  [] OTHER -> crop - bef
    IN  CroppedBy(Span(input, stride, field), bef, aft, IF padding.is \in {"valid", "explicit"} THEN adj ELSE 0)

-----------------------------------------------------------------------------
(* Pools: what convolutions and poolings have in common.  No channels in   *)
(* channels means as many in the output as in the input.                   *)

Pool(fmt, kernel, padding, dilations, strides, channels) ==
    [fmt |-> fmt, kernel |-> kernel, padding |-> padding, dilations |-> dilations, strides |-> strides,
     channels |-> channels]

PaddedDims(pool, hw) ==
    [k \in DOMAIN hw |-> PaddedDim(pool.padding, k, hw[k], Field(pool.kernel[k], pool.dilations[k]), pool.strides[k])]
CroppedDims(pool, hw, adj) ==
    [k \in DOMAIN hw |-> CroppedDim(pool.padding, k, hw[k], Field(pool.kernel[k], pool.dilations[k]),
                                    pool.strides[k], adj[k])]

Outs(dims) == [k \in DOMAIN dims |-> dims[k].out]
ShapeFor(pool, shape, dims) ==
    FromNCHW(pool.fmt, IF HasN(pool.fmt) THEN shape[1] ELSE Val(1),
             IF pool.channels = None THEN CDim(pool.fmt, shape) ELSE Val(pool.channels[1]), Outs(dims))

\* PoolSpec::output_shape, and its counterpart of a deconvolution.
PoolOutput(pool, shape)        == ShapeFor(pool, shape, PaddedDims(pool, HwDims(pool.fmt, shape)))
DeconvOutput(pool, shape, adj) == ShapeFor(pool, shape, CroppedDims(pool, HwDims(pool.fmt, shape), adj))

Vals(shape)   == [k \in DOMAIN shape |-> Val(shape[k])]
Usizes(shape) == [k \in DOMAIN shape |-> shape[k].n]
Concrete(shape) == \A k \in DOMAIN shape : Known(shape[k])

-----------------------------------------------------------------------------
(* PatchAxis: the regions of an axis of the output, where the same part of *)
(* the kernel falls out of the input.  Ranges are [start, end).            *)

PatchAxis(input, kernel, dims, stride, dilation) ==
    [input |-> input, kernel |-> kernel, before |-> dims.bef.n, output |-> dims.out.n,
     stride |-> stride, dilation |-> dilation]

ValidRange(axis) ==
    LET field == Field(axis.kernel, axis.dilation)
        first == CeilDiv(axis.before, axis.stride)
        last  == Saturated(axis.input + axis.before - field) \div axis.stride
    IN  IF field <= axis.input /\ first <= last THEN Some(<<first, last + 1>>) ELSE None

InvalidAtLeft(axis, pos) == CeilDiv(Saturated(axis.before - pos * axis.stride), axis.dilation)
InvalidAtRight(axis, pos) ==
    Saturated(axis.kernel - CeilDiv(axis.input + axis.before - pos * axis.stride, axis.dilation))

Region(start, end, masked) == [start |-> start, end |-> end, masked |-> masked]
WholeKernel(region)        == region.masked = None

\* A region for each run of positions that miss as many items on each side.
InvalidRegions(axis, start, end) ==
    LET missed(pos) == <<InvalidAtLeft(axis, pos), InvalidAtRight(axis, pos)>>
        masked(pos) == {i \in 0 .. axis.kernel - 1 : i < missed(pos)[1] \/ axis.kernel - 1 - i < missed(pos)[2]}
        extended(found, pos) ==
            IF found # <<>> /\ missed(pos) = missed(pos - 1)
            THEN [found EXCEPT ![Len(found)].end = pos + 1]
            ELSE Append(found, Region(pos, pos + 1, Some(masked(pos))))
    IN  FoldLeft(LAMBDA found, k : extended(found, start + k - 1), <<>>, [k \in 1 .. end - start |-> k])

Regions(axis) ==
    IF ValidRange(axis) = None THEN InvalidRegions(axis, 0, axis.output)
    ELSE LET valid == ValidRange(axis)[1]
         IN  InvalidRegions(axis, 0, valid[1]) \o <<Region(valid[1], valid[2], None)>>
                 \o InvalidRegions(axis, valid[2], axis.output)

-----------------------------------------------------------------------------
(* Patches.                                                                *)

PatchSpec(input, inputInner, outputInner, pool) ==
    [input |-> input, inputInner |-> inputInner, outputInner |-> outputInner, pool |-> pool]

\* The positions a kernel covers, from its center.
DataField(pool, dims) ==
    LET coords == Coordinates(pool.kernel)
    IN  [i \in DOMAIN coords |-> [k \in DOMAIN coords[i] |-> coords[i][k] * pool.dilations[k] - dims[k].bef.n]]

\* A combination of regions, one per axis, and the part of the kernel its positions see.
ZoneOf(regions, kernel, offsets) ==
    LET coords  == Coordinates(kernel)
        seen(i) == \A k \in DOMAIN regions : WholeKernel(regions[k]) \/ coords[i][k] \notin regions[k].masked[1]
    IN  [valid   |-> \A k \in DOMAIN regions : WholeKernel(regions[k]),
         ends    |-> [k \in DOMAIN regions |-> regions[k].end],
         offsets |-> SelectSeq([i \in DOMAIN coords |-> IF seen(i) THEN <<i - 1, offsets[i]>> ELSE <<>>],
                               LAMBDA pair : pair # <<>>)]

\* PatchSpec::into_patch, of the paddings of its axes.
Placed(spec, dims, inputs, field, regions) ==
    LET offsets == [i \in DOMAIN field |-> Dot(field[i], inputs)]
        counts  == [k \in DOMAIN regions |-> Len(regions[k])]
        zones   == Coordinates(counts)
    IN  [input |-> spec.input, output |-> Usizes(Outs(dims)), outputInner |-> spec.outputInner,
         strides |-> spec.pool.strides, padded |-> \E k \in DOMAIN dims : dims[k].bef.n # 0 \/ dims[k].aft.n # 0,
         field   |-> field, offsets |-> offsets,
         inputStrides |-> inputs, steps |-> [k \in DOMAIN inputs |-> inputs[k] * spec.pool.strides[k]],
         zoneStrides  |-> StridesOf(counts, 1),
         zones |-> [z \in DOMAIN zones |->
                       ZoneOf([k \in DOMAIN regions |-> regions[k][zones[z][k] + 1]], spec.pool.kernel, offsets)]]
PatchOfAxes(spec, dims) ==
    Placed(spec, dims, StridesOf(spec.input, spec.inputInner), DataField(spec.pool, dims),
           [k \in DOMAIN dims |-> Regions(PatchAxis(spec.input[k], spec.pool.kernel[k], dims[k],
                                                    spec.pool.strides[k], spec.pool.dilations[k]))])
IntoPatch(spec) == PatchOfAxes(spec, PaddedDims(spec.pool, Vals(spec.input)) \o <<>>)

\* Whether all that the kernel covers is inside the input.
IsValidPatch(patch, coords) ==
    \A k \in DOMAIN coords, i \in DOMAIN patch.field :
        coords[k] * patch.strides[k] + patch.field[i][k] \in 0 .. patch.input[k] - 1

\* Patch::at_hint: the offset of each item of the kernel, None out of the input.
AtHint(patch, coords, valid) ==
    LET center    == Dot(coords, patch.steps)
        inside(i) == \A k \in DOMAIN coords :
                         coords[k] * patch.strides[k] + patch.field[i][k] \in 0 .. patch.input[k] - 1
    IN  [i \in DOMAIN patch.field |-> IF valid \/ inside(i) THEN Some(center + patch.offsets[i]) ELSE None]
At(patch, coords) == AtHint(patch, coords, ~ patch.padded \/ IsValidPatch(patch, coords))

-----------------------------------------------------------------------------
(* The scanner visits the output in order and keeps, along, the zone it is *)
(* in and the offset of the center of the kernel in the input.             *)

Zeros(rank) == [k \in 1 .. rank |-> 0]

NewScanner(patch) ==
    LET rank == Len(patch.input)
    IN  [zone |-> 0, zoneCoords |-> Zeros(rank), outputOffset |-> 0, outputCoords |-> Zeros(rank),
         inputCoords |-> Zeros(rank), center |-> 0, done |-> FALSE]

ZoneAt(patch, scanner) == patch.zones[scanner.zone + 1]

\* One more along an axis, back to the start of the next one.
Carried(patch, ends, scanner, axis) ==
    LET coord == scanner.outputCoords[axis] + 1
    IN  [scanner EXCEPT !.outputCoords[axis + 1] = 0, !.outputCoords[axis] = coord,
                        !.inputCoords[axis + 1] = 0, !.inputCoords[axis] = @ + patch.strides[axis],
                        !.zoneCoords[axis + 1] = 0, !.zoneCoords[axis] = @ + If(coord = ends[axis])]

\* Axes are left as soon as one is not at its end.
CarryFrom(patch, ends, scanner, axis) ==
    FoldLeft(LAMBDA s, a : IF s.outputCoords[a + 1] < patch.output[a + 1] THEN s ELSE Carried(patch, ends, s, a),
             scanner, [k \in 1 .. axis |-> axis + 1 - k])

Relocated(patch, scanner) ==
    [scanner EXCEPT !.zone = Dot(scanner.zoneCoords, patch.zoneStrides),
                    !.center = Dot(scanner.inputCoords, patch.inputStrides)]

\* Scanner::next.
NextScanner(patch, scanner) ==
    LET rank  == Len(patch.input)
        moved == [scanner EXCEPT !.outputCoords[rank] = @ + 1, !.inputCoords[rank] = @ + patch.strides[rank],
                                 !.outputOffset = @ + patch.outputInner, !.center = @ + patch.steps[rank]]
        ends  == ZoneAt(patch, scanner).ends
        row   == CarryFrom(patch, ends, moved, rank - 1)
    IN  IF moved.outputCoords[rank] < ends[rank] THEN moved
        ELSE IF moved.outputCoords[rank] < patch.output[rank]
        THEN [moved EXCEPT !.zone = @ + 1, !.zoneCoords[rank] = @ + 1]
        ELSE IF row.outputCoords[1] = patch.output[1] THEN [row EXCEPT !.done = TRUE]
        ELSE Relocated(patch, row)

\* Where the scanner goes: visit_output.
Visits(patch) ==
    IF patch.zones = <<>> THEN <<>>
    ELSE LET step(visited, k) ==
                 IF visited[Len(visited)].done THEN visited
                 ELSE Append(visited, NextScanner(patch, visited[Len(visited)]))
         IN  Front(FoldLeft(step, <<NewScanner(patch)>>, [k \in 1 .. ProductOf(patch.output) |-> k]))

\* What it sees there: an item of the kernel and its offset in the input.
Seen(patch, scanner) ==
    LET offsets == ZoneAt(patch, scanner).offsets
    IN  [i \in DOMAIN offsets |-> <<offsets[i][1], offsets[i][2] + scanner.center>>]

CentersOffsets(patch) == [v \in DOMAIN Visits(patch) |-> Visits(patch)[v].center]

-----------------------------------------------------------------------------
(* Pools of a known shape (pools.rs: ConcretePoolGeometry).                *)

\* The items of a pixel of a format whose channels are last lie side by side.
WStride(fmt, shape) == IF CIsLast(fmt) THEN CDim(fmt, shape) ELSE 1

PoolGeometry(pool, shape) ==
    LET inner == IF ~ CIsLast(pool.fmt) THEN 1
                 ELSE IF pool.channels = None THEN CDim(pool.fmt, shape) ELSE pool.channels[1]
        from(patch) == [input |-> shape, patch |-> patch,
                        output |-> FromNCHW(pool.fmt, NDim(pool.fmt, shape),
                                            IF pool.channels = None THEN CDim(pool.fmt, shape) ELSE pool.channels[1],
                                            patch.output)]
    IN  from(IntoPatch(PatchSpec(HwDims(pool.fmt, shape), WStride(pool.fmt, shape), inner, pool)))
=============================================================================
