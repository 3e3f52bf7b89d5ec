----------------------------- MODULE MCDeclutter -----------------------------
(* Chains of operators, branches that meet, and graphs where a wire is     *)
(* read twice.                                                             *)
EXTENDS Declutter

T(name, shape) == Tensor(shape, [idx \in Indices(shape) |-> <<name, Flat(shape, idx)>>])
Node(op, inputs, i) == [op |-> op, inputs |-> inputs, name |-> <<i>>]

Element  == [is |-> "element"]
Binary   == [is |-> "binary", fn |-> "f"]
Unary(a) == [is |-> "unary", fn |-> "f", a |-> a, flip |-> FALSE]
Concat(axis) == [is |-> "concat", axis |-> axis, slices |-> <<None, None>>]
Reduce(axes) == [is |-> "reduce", axes |-> axes]
MatMul(at, bt, ct) == [is |-> "matmul", at |-> at, bt |-> bt, ct |-> ct]

\* The operators on axes that a shape allows.
AxisOpsOn(shape) ==
    LET rank == Len(shape)
    IN  {Add(ix) : ix \in {ix \in 0 .. rank : rank < 3}}
        \cup {Rm(ix) : ix \in {ix \in 0 .. rank - 1 : rank > 1 /\ shape[ix + 1] = 1}}
        \cup {Move(p[1], p[2]) : p \in {p \in (0 .. rank - 1) \X (0 .. rank - 1) : p[1] # p[2]}}
        \cup {Reshape(at, <<2, 3>>, <<6>>) : at \in {at \in 0 .. rank - 2 : SubSeq(shape, at + 1, at + 2) = <<2, 3>>}}
        \cup {Reshape(at, <<6>>, <<2, 3>>) : at \in {at \in 0 .. rank - 1 : shape[at + 1] = 6}}

\* Slices and downsamplings of the axes that are long enough.
Cuts(shape) ==
    LET axes == {axis \in 0 .. Len(shape) - 1 : shape[axis + 1] >= 2}
    IN  {Slice(axis, start, start + 1) : axis \in axes, start \in {0, 1}}
        \cup {Slice(axis, 1, 3) : axis \in {axis \in axes : shape[axis + 1] >= 3}}
        \cup {Down(axis, stride, 0) : axis \in axes, stride \in {2, -2}}

\* The product of a constant with a matrix, of one row when there is one column.
Product(shape, bt, ct) ==
    LET k == shape[IF bt THEN 2 ELSE 1] IN MatMulUnary(T("k", <<IF k = 1 THEN 1 ELSE 2, k>>), FALSE, bt, ct)

\* The others, for a few of the axes.
OpsOn(shape) ==
    AxisOpsOn(shape) \cup {Element}
    \cup (IF Len(shape) = 2
          THEN {Slice(0, 0, 1), Reduce({1}), Unary(T("k", <<1, shape[2]>>)), Product(shape, FALSE, FALSE),
                Product(shape, TRUE, FALSE)} ELSE {})

\* Graphs that grow by a node: what each node gives is kept along.
Start(inits) == [nodes |-> [i \in DOMAIN inits |-> Node([is |-> "source", tensor |-> inits[i]], <<>>, i)],
                 ts    |-> inits]
Then(g, op, inputs) == [nodes |-> Append(g.nodes, Node(op, inputs, Len(g.nodes) + 1)),
                        ts    |-> Append(g.ts, Output(op, [i \in DOMAIN inputs |-> g.ts[inputs[i]]])[1])]

\* One more operator, or one on axes, that reads node n.
WithOp(gs, n)     == UNION {{Then(g, op, <<n>>) : op \in OpsOn(g.ts[n].shape)} : g \in gs}
WithAxisOp(gs, n) == UNION {{Then(g, op, <<n>>) : op \in AxisOpsOn(g.ts[n].shape)} : g \in gs}

WithCut(gs, n)    == UNION {{Then(g, op, <<n>>) : op \in Cuts(g.ts[n].shape)} : g \in gs}
\* Two nodes joined.
Joins(a, b) == {op \in {Binary, Concat(0), Concat(1)} :
                   /\ Len(a.shape) = Len(b.shape) /\ (op.is = "concat" => op.axis < Len(a.shape))
                   /\ Output(op, <<a, b>>) # None}
WithJoin(gs, m, n) == UNION {{Then(g, op, <<m, n>>) : op \in Joins(g.ts[m], g.ts[n])} : g \in gs}

Starts(shapes) == {Start(<<T("s", shape)>>) : shape \in shapes}
Pairs(shapes)  == {Start(<<T("s", p[1]), T("t", p[2])>>) : p \in shapes \X shapes}

\* s, two operators, one on axes.
Chains == WithAxisOp(WithOp(WithOp(Starts({<<2, 3>>, <<1, 2>>, <<1, 2, 3>>}), 1), 2), 3)

\* A node that two others read, of which each has its output.
Fans == WithAxisOp(WithAxisOp(WithAxisOp(Starts({<<2, 2>>, <<1, 2>>}), 1), 2), 2)

\* s and t joined, after an operator on axes each, and another operator on axes.
Trees == WithAxisOp(WithJoin(WithAxisOp(WithAxisOp(Pairs({<<2>>, <<2, 1>>}), 1), 2), 3, 4), 5)

\* A node that is read by a join twice: as it is, and after one operator.
Diamonds == WithAxisOp(WithJoin(WithOp(WithAxisOp(Starts({<<2, 2>>, <<1, 2>>}), 1), 2), 3, 2), 4)

\* s and t joined, or joined with a constant, before a cut, and one more.
ConstNode(g, shape) == Then(g, Const(T("k", shape)), <<>>)
Joined   == WithJoin(Pairs({<<2, 3>>}), 1, 2) \cup WithJoin({ConstNode(Start(<<T("s", <<2, 3>>)>>), <<2, 3>>)}, 1, 2)
CutTwice == WithCut(WithCut(Joined, 3), 4)

\* s, an operator, a cut, and one more.
CutChains == WithCut(WithCut(WithOp(Starts({<<2, 3>>, <<1, 2, 3>>}), 1), 2), 3)

\* The product of what is joined, by a constant.
Products == LET gs == WithJoin(Pairs({<<2, 2>>}), 1, 2)
            IN  UNION {{Then(g, Product(g.ts[3].shape, bt, ct), <<3>>) : bt, ct \in BOOLEAN} : g \in gs}
CutProducts == WithCut(Products, 4) \cup WithAxisOp(Products, 4)

\* Two slices of the rows of a product, with the product or not.
RowCuts == LET gs == {Then(Start(<<T("s", <<2, 3>>)>>), MatMulUnary(T("k", <<3, 2>>), FALSE, FALSE, ct), <<1>>) : ct \in BOOLEAN}
               ranges == {<<0, 1>>, <<1, 2>>, <<0, 2>>, <<1, 3>>}
               pairs  == {p \in ranges \X ranges : p[1] # p[2] /\ p[1][1] <= p[2][1]}
               RowSlice(g, r) == Slice(If(g.nodes[2].op.ct), r[1], r[2])
           IN  {Then(Then(g, RowSlice(g, p[1]), <<2>>), RowSlice(g, p[2]), <<2>>) : g \in gs, p \in pairs}

\* The product of s and a constant, in any order, whatever is transposed.
ConstProducts ==
    LET g == ConstNode(Start(<<T("s", <<2, 2>>)>>), <<2, 2>>)
    IN  WithAxisOp({Then(g, MatMul(at, bt, ct), ins) : at, bt, ct \in BOOLEAN, ins \in {<<1, 2>>, <<2, 1>>}}, 3)

\* A constant that goes through two operators, and a cut.
Folds == WithCut(WithOp(WithOp({ConstNode(Start(<<T("s", <<2, 3>>)>>), <<2, 3>>)}, 2), 3), 4)

\* Twins: an operator, cut twice, and joined.
Twins == WithJoin(WithCut(WithCut(WithOp(Starts({<<2, 3>>}), 1), 2), 2), 3, 4)

\* A downsampling is never on an axis that an operator on axes has made.
Plain(g) == (\E n \in DOMAIN g.nodes : g.nodes[n].op.is = "down") => \A n \in DOMAIN g.nodes : g.nodes[n].op.is # "reshape"

Model(gs, outs) == {[nodes |-> g.nodes, outputs |-> outs] : g \in gs}

\* Those where an operator on axes is between a node and a join that reads both are
\* apart: a change enters it from both sides.
TwoSided(g) == IsAxisOp(g.nodes[3].op)

AxisProblems == Model(Chains, <<4>>) \cup Model({g \in Fans : g.ts[3] # g.ts[4]}, <<3, 4>>) \cup Model(Trees, <<6>>)
                \cup Model({g \in Diamonds : ~ TwoSided(g)}, <<5>>)
CutProblems  == Model({g \in CutTwice : Plain(g)}, <<5>>) \cup Model({g \in CutChains : Plain(g)}, <<4>>)
                \cup Model({g \in Twins : Plain(g)}, <<5>>) \cup Model({g \in Folds : Plain(g)}, <<5>>)
MatProblems  == Model(CutProducts, <<5>>) \cup Model(RowCuts, <<3, 4>>)
                \cup Model(RowCuts, <<2, 3, 4>>) \cup Model(ConstProducts, <<4>>)
PassProblems    == AxisProblems \cup CutProblems \cup MatProblems
DiamondProblems == Model({g \in Diamonds : TwoSided(g)}, <<5>>)
=============================================================================
