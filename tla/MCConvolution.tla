--------------------------- MODULE MCConvolution ---------------------------
(***************************************************************************)
(* Small instances of Convolution.  Sizes are the smallest at which        *)
(* something happens: three output channels do not fit in a tile of two    *)
(* rows, images are two when there are several, groups are two; a product  *)
(* is huge for some of the inputs that no kernel is dilated on, not all.   *)
(***************************************************************************)
EXTENDS Convolution

Formats == {"NCHW", "NHWC", "CHW", "HWC"}

\* Items for constants, from a seed.
Weights == <<2, -1, 3, 1, -2, 5, 1>>
Filled(shape, seed) == T(shape, [i \in 1 .. ProductOf(shape) |-> Weights[((i + seed) % 7) + 1]])

\* How a kernel goes over an input: the input, the kernel, paddings, dilations, strides.
Geo(hw, kernel, padding, dilations, strides) ==
    [hw |-> hw, kernel |-> kernel, padding |-> padding, dilations |-> dilations, strides |-> strides]

Lines ==
    {Geo(<<4>>, <<3>>, Valid, <<1>>, <<1>>),
     Geo(<<5>>, <<3>>, SameUpper, <<1>>, <<2>>),
     Geo(<<4>>, <<2>>, SameLower, <<2>>, <<1>>),
     Geo(<<3>>, <<2>>, Explicit(<<2>>, <<1>>, FALSE), <<1>>, <<1>>),
     Geo(<<5>>, <<3>>, Valid, <<2>>, <<1>>),
     Geo(<<5>>, <<3>>, Valid, <<2>>, <<2>>),
     Geo(<<3>>, <<1>>, Valid, <<1>>, <<1>>),
     Geo(<<5>>, <<1>>, Valid, <<1>>, <<2>>)}
Images ==
    {Geo(<<3, 2>>, <<2, 2>>, Valid, <<1, 1>>, <<1, 1>>),
     Geo(<<2, 3>>, <<2, 3>>, SameUpper, <<1, 1>>, <<1, 2>>),
     Geo(<<3, 2>>, <<3, 2>>, SameLower, <<1, 1>>, <<2, 1>>),
     Geo(<<2, 2>>, <<2, 2>>, Explicit(<<1, 0>>, <<0, 2>>, FALSE), <<1, 1>>, <<1, 2>>),
     Geo(<<5, 2>>, <<3, 1>>, Valid, <<2, 1>>, <<1, 1>>),
     Geo(<<3, 3>>, <<2, 1>>, Valid, <<2, 1>>, <<2, 2>>),
     Geo(<<2, 2>>, <<1, 1>>, Valid, <<1, 1>>, <<1, 1>>),
     Geo(<<3, 2>>, <<1, 1>>, SameUpper, <<1, 1>>, <<2, 1>>)}

PoolOf(geo, fmt, channels) == Pool(fmt, geo.kernel, geo.padding, geo.dilations, geo.strides, channels)
InputOf(fmt, n, ci, hw)    == Source(Vals(FromNCHW(fmt, n, ci, hw)))
KernelOf(kfmt, co, ci, g, hw) ==
    Filled(IF kfmt = "OIHW" THEN <<co, ci \div g>> \o hw ELSE hw \o <<ci, co \div g>>, co)

ConvOf(geo, fmt, kfmt, ci, co, g, bias) ==
    Conv(PoolOf(geo, fmt, Some(co)), kfmt, KernelOf(kfmt, co, ci, g, geo.kernel), g,
         IF bias THEN Some(Filled(<<co>>, 3).data) ELSE None, None)

Problem(nodes, level, sizes) ==
    [nodes |-> nodes, out |-> nodes[Len(nodes)].id, level |-> level, sizes |-> sizes]
AfterSource(source, ops) == <<Node(<<1>>, source, <<>>)>> \o [k \in DOMAIN ops |-> Node(<<k + 1>>, ops[k], <<<<k>>>>)]

Levels == {"as is", "decluttered", "optimized"}

\* One convolution, of any format.
Convolutions ==
    {Problem(AfterSource(InputOf(fmt, 2, 2, geo.hw), <<ConvOf(geo, fmt, kfmt, 2, co, IF co = 3 THEN 1 ELSE 2, co = 3)>>),
             level, {0}) :
        geo \in Lines \cup Images, fmt \in Formats, kfmt \in {"OIHW", "HWIO"}, co \in {2, 3, 4},
        level \in {"as is", "optimized"}}

\* A length of the input that is not known: the first spatial axis, of a geometry that
\* is good for every length.
Unknown(fmt, n, ci, hw) == Source(FromNCHW(fmt, Val(n), Val(ci), <<Sym(1)>> \o Vals(Tail(hw))))
Symbolic ==
    {Problem(AfterSource(Unknown(fmt, 2, 2, geo.hw), <<ConvOf(geo, fmt, "OIHW", 2, co, IF co = 3 THEN 1 ELSE 2, co = 3)>>),
             level, {geo.hw[1], geo.hw[1] + 1}) :
        geo \in Lines \cup Images, fmt \in Formats, co \in {3, 4}, level \in {"as is", "decluttered", "optimized"}}

\* What follows a convolution.
PerChannel(fmt, rank, co) == [k \in 1 .. rank |-> IF k = CAxis(fmt, rank) + 1 THEN co ELSE 1]
After(fmt, rank, co) ==
    {<<Unary("mul", Filled(PerChannel(fmt, rank, co), 1)), Unary("add", Filled(PerChannel(fmt, rank, co), 2)),
       Unary("max", T([k \in 1 .. rank |-> 1], <<0>>))>>,
     <<Unary("mul", T([k \in 1 .. rank |-> 1], <<3>>)), Unary("min", T([k \in 1 .. rank |-> 1], <<4>>)),
       Unary("mul", Filled(PerChannel(fmt, rank, co), 5))>>,
     <<Unary("add", Filled([k \in 1 .. rank |-> 1], 1)), Unary("add", Filled(PerChannel(fmt, rank, co), 4))>>}
Chains ==
    {Problem(AfterSource(InputOf(fmt, 2, 2, geo.hw), <<ConvOf(geo, fmt, "HWIO", 2, co, IF co = 3 THEN 1 ELSE 2, co = 3)>> \o after),
             "optimized", {0}) :
        <<geo, fmt, co, after>> \in UNION {{geo} \X {fmt} \X {co} \X After(fmt, Len(geo.hw) + 1 + If(HasN(fmt)), co) :
            geo \in Lines \cup Images, fmt \in Formats, co \in {3, 4}}}

\* Two convolutions of two sources added: one is an operand of the product of the other.
Sums ==
    {Problem(<<Node(<<1>>, InputOf(fmt, 1, 2, geo.hw), <<>>), Node(<<2>>, InputOf(fmt, 1, 2, geo.hw), <<>>),
               Node(<<3>>, ConvOf(geo, fmt, "OIHW", 2, 3, 1, TRUE), <<<<1>>>>),
               Node(<<4>>, ConvOf(geo, fmt, "HWIO", 2, 3, 1, FALSE), <<<<2>>>>),
               Node(<<5>>, Binary("add"), IF fmt = "CHW" THEN <<<<3>>, <<4>>>> ELSE <<<<4>>, <<3>>>>),
               Node(<<6>>, Unary("mul", Filled(PerChannel(fmt, Len(geo.hw) + 1 + If(HasN(fmt)), 3), 5)), <<<<5>>>>)>>,
             level, {0}) :
        geo \in Lines \cup Images, fmt \in Formats, level \in {"decluttered", "optimized"}}

\* Poolings, of something at every position.
PoolOps(geo, fmt) ==
    {MaxPool(PoolOf(geo, fmt, None), indices) : indices \in BOOLEAN}
    \cup {SumPool(PoolOf(geo, fmt, None), countPad, TRUE) : countPad \in BOOLEAN}
Covered == {geo \in Lines \cup Images : geo.padding.is # "explicit"}
           \cup {Geo(<<3>>, <<2>>, Explicit(<<1>>, <<1>>, FALSE), <<1>>, <<1>>)}
Pools ==
    UNION {{Problem(AfterSource(InputOf(fmt, 2, 2, geo.hw), <<op>>), "optimized", {0}) : op \in PoolOps(geo, fmt)} :
               geo \in Covered, fmt \in Formats}

\* Deconvolutions, adjusted unless their padding is computed.
Spread ==
    {Geo(<<3>>, <<3>>, Valid, <<1>>, <<2>>), Geo(<<3>>, <<2>>, SameUpper, <<2>>, <<2>>),
     Geo(<<2>>, <<3>>, SameLower, <<1>>, <<2>>), Geo(<<3>>, <<3>>, Explicit(<<1>>, <<0>>, FALSE), <<1>>, <<1>>),
     Geo(<<2, 2>>, <<2, 2>>, Valid, <<1, 2>>, <<2, 1>>), Geo(<<2, 1>>, <<3, 2>>, SameUpper, <<1, 1>>, <<1, 2>>)}
DeconvOf(geo, fmt, kfmt, g, adj) ==
    Deconv(PoolOf(geo, fmt, Some(2)), kfmt,
           Filled(IF kfmt = "OIHW" THEN <<2, 2 \div g>> \o geo.kernel ELSE geo.kernel \o <<2, 2 \div g>>, 2), g,
           Some(Filled(<<2>>, 4).data), [k \in DOMAIN geo.hw |-> IF k = 1 THEN adj ELSE 0])
Deconvs ==
    UNION {{Problem(AfterSource(InputOf(fmt, 2, 2, geo.hw), <<DeconvOf(geo, fmt, kfmt, g, adj)>>), level, {0}) :
               adj \in IF geo.padding.is \in {"same_upper", "same_lower"} THEN {0} ELSE {0, 1}} :
           geo \in Spread, fmt \in Formats, kfmt \in {"OIHW", "HWIO"}, g \in {1, 2}, level \in {"as is", "optimized"}}

\* Quantized convolutions: the zero points are in the operator; or they are constants
\* and an input, but where a downsampling would leave them behind.
Quantized(a0, b0, c0) == Some([a0 |-> a0, b0 |-> b0, c0 |-> c0, shift |-> 1, min |-> -20, max |-> 20])
ConvQ(geo, fmt, co, q) == [ConvOf(geo, fmt, "OIHW", 2, co, IF co = 3 THEN 1 ELSE 2, co = 3) EXCEPT !.q = q]
Zero(k)  == Attr(Scalar(k))
Wider    == {geo \in Lines \cup Images : geo.kernel # <<1>>}
Unstrided == {geo \in Wider : geo.padding # Valid \/ \A ax \in DOMAIN geo.hw : geo.strides[ax] = 1}
Quants ==
    {Problem(AfterSource(InputOf(fmt, 2, 2, geo.hw), <<ConvQ(geo, fmt, co, Quantized(Zero(1), Zero(-2), Zero(3)))>>),
             level, {0}) :
        geo \in Wider, fmt \in Formats, co \in {3, 4}, level \in {"as is", "optimized"}}
QuantInputs ==
    {Problem(<<Node(<<1>>, InputOf(fmt, 2, 2, geo.hw), <<>>), Node(<<2>>, Const(Scalar(2)), <<>>),
               Node(<<3>>, Source(<<>>), <<>>), Node(<<4>>, Const(Scalar(-1)), <<>>),
               Node(<<5>>, ConvQ(geo, fmt, co, Quantized(Input(1), Input(2), Input(3))), <<<<1>>, <<2>>, <<3>>, <<4>>>>)>>,
             level, {0}) :
        geo \in Unstrided, fmt \in Formats, co \in {3, 4}, level \in {"as is", "optimized"}}

MCProblems == Convolutions \cup Symbolic \cup Chains \cup Sums \cup Pools \cup Deconvs \cup Quants \cup QuantInputs
MCSamples == <<3, -2, 5, 0, 1, -4, 2, 7, -1, 4, 6>>
=============================================================================
