------------------------------ MODULE RecRules ------------------------------
(***************************************************************************)
(* The recurrent layers of ONNX (onnx/src/ops/rec): RNN, GRU and LSTM.     *)
(* Their inputs are x, w and r, and the optional bias, lengths, first      *)
(* states h and c, and peepholes p; each runs as a Scan for each of the    *)
(* one or two directions.                                                  *)
(***************************************************************************)
EXTENDS OnnxRules

Shaped(outlet, dim(_), dims) ==
    <<Equals(outlet, Val(Len(dims)))>> \o [k \in DOMAIN dims |-> Equals(dim(k - 1), dims[k])]
ShapedIn(i, dims)  == Shaped(In(i, "rank"), LAMBDA k : InDim(i, k), dims)
ShapedOut(o, dims) == Shaped(Out(o, "rank"), LAMBDA k : OutDim(o, k), dims)

\* The directions, the batch and the hidden state, as x, w and r tell them; sizes is
\* what tells the size of the hidden state.
Typed(i, dims) == <<Equals(In(i, "dt"), In(1, "dt"))>> \o ShapedIn(i, dims)
ForAll(options, rules(_)) == FlattenSeq([k \in DOMAIN options |-> rules(options[k])])
RecurrentRules(op, gates, sizes) ==
    LET state     == <<InDim(2, 0), InDim(1, 1), InDim(3, 2)>>
        TypeOf(o) == <<Equals(Out(o, "dt"), In(1, "dt"))>>
    IN  <<Equals(In(1, "dt"), In(2, "dt")), Equals(In(1, "dt"), In(3, "dt")), Equals(In(1, "dt"), Out(1, "dt")),
          Equals(In(1, "rank"), Val(3)), Equals(In(2, "rank"), Val(3)), Equals(In(3, "rank"), Val(3)),
          Equals(InDim(2, 0), InDim(3, 0)), Equals(InDim(2, 1), InDim(3, 1)), sizes>>
        \o ForAll(op.bias, LAMBDA i : Typed(i, <<InDim(3, 0), Times(2 * gates, InDim(3, 2))>>))
        \o ForAll(op.lens, LAMBDA i : ShapedIn(i, <<InDim(1, 1)>>))
        \o ForAll(op.h \o op.c, LAMBDA i : Typed(i, state))
        \o ForAll(op.p, LAMBDA i : Typed(i, <<InDim(2, 0), Times(3, InDim(3, 2))>>))
        \o ForAll(op.y, LAMBDA o : ShapedOut(o, <<InDim(1, 0), InDim(2, 0), InDim(1, 1), InDim(3, 2)>>))
        \o ForAll(op.y_h \o op.y_c, LAMBDA o : TypeOf(o) \o ShapedOut(o, state))

RnnRules(op, at, v)  == RecurrentRules(op, 1, Equals(InDim(2, 1), InDim(3, 2)))
GruRules(op, at, v)  == RecurrentRules(op, 3, Equals(InDim(3, 1), Times(3, InDim(3, 2))))
LstmRules(op, at, v) == RecurrentRules(op, 4, Equals(InDim(3, 1), Times(4, InDim(3, 2))))

-----------------------------------------------------------------------------
(* The body of the scan: what its wires are made of, a term at a time.     *)

Wired(option)  == [fn |-> "wire", args |-> <<>>, wire |-> option]
FnOf(fn, a, b) == [fn |-> fn, args |-> <<a, b>>]
Part(k, axis, size, a)  == [fn |-> "part", args |-> <<a>>, k |-> k, axis |-> axis, size |-> size]
ByTransposed == [a_trans |-> FALSE, b_trans |-> TRUE, c_trans |-> FALSE]
WiredAs(term, args) ==
    LET ts == [i \in DOMAIN args |-> args[i][1]]
    IN  IF Fails \in Range(args) THEN Fails
        ELSE CASE term.fn = "wire"   -> term.wire
               [] term.fn = "part"   -> SliceFacts(term.axis, term.k * term.size, (term.k + 1) * term.size, ts[1])
               [] term.fn = "MatMul" -> MatMulFacts(ByTransposed, ts)
               [] OTHER              -> BinFacts(term.fn, ts)
RECURSIVE WireFacts(_)
WireFacts(term) ==
    Once(LAMBDA args : WiredAs(term, args), [i \in DOMAIN term.args |-> WireFacts(term.args[i])])

\* Gate k of a side: of the input and of a state, with its biases and its peephole.
Mixed(s, k, state) ==
    FnOf("Add", FnOf("MatMul", s.x, Part(k, 0, s.size, s.w)), FnOf("MatMul", state, Part(k, 0, s.size, s.r)))
Biased(s, k, term) ==
    IF s.b = Unknown THEN term
    ELSE FnOf("Add", term, FnOf("Add", Part(k, 1, s.size, Wired(s.b)), Part(k + s.gates, 1, s.size, Wired(s.b))))
Peeped(s, k, cell, term) ==
    IF s.p = Unknown THEN term ELSE FnOf("Add", FnOf("Mul", Part(k, 1, s.size, Wired(s.p)), cell), term)
Gate(s, k) == Biased(s, k, Mixed(s, k, s.h))

\* The next hidden state of each kind, then the next cell.
RnnBody(s) == <<Gate(s, 0)>>
GruBody(s) ==
    LET new  == Biased(s, 2, Mixed(s, 2, FnOf("Mul", Gate(s, 1), s.h)))
        rest == FnOf("Sub", Wired(<<Tensor("F32", <<1, 1>>)>>), Gate(s, 0))
    IN  <<FnOf("Add", FnOf("Mul", rest, new), FnOf("Mul", Gate(s, 0), s.h))>>
LstmBody(s) ==
    LET cell == FnOf("Add", FnOf("Mul", Peeped(s, 2, s.c, Gate(s, 2)), s.c),
                            FnOf("Mul", Peeped(s, 0, s.c, Gate(s, 0)), Gate(s, 3)))
    IN  <<FnOf("Mul", Peeped(s, 1, cell, Gate(s, 1)), cell), cell>>

\* One direction of a tensor, without its axis.
Whole(t)          == AxisFacts(AO!Rm(0), t)
Direction(dir, t) == Whole(SliceFacts(0, dir, dir + 1, t)[1])

\* wire_one_side.  The states have the type of x, whatever they start from.
Side(op, ts, dir, gates, w) ==
    LET state == Wired(<<Tensor(ts[1].dt, <<ts[1].shape[2], ts[3].shape[3]>>)>>)
        Cut(options) == IF options = Unknown THEN Unknown ELSE SliceFacts(0, dir, dir + 1, ts[options[1]])
    IN  [x |-> Wired(<<Tensor(ts[1].dt, Tail(ts[1].shape))>>), h |-> state, c |-> state, w |-> Wired(w),
         r |-> Wired(Direction(dir, ts[3])), b |-> Cut(op.bias), p |-> Cut(op.p), size |-> ts[3].shape[3], gates |-> gates]

\* The weights of an RNN are not those of the direction, nor is the first state of a GRU.
RnnSide(op, ts, dir)  == Side(op, ts, dir, 1, Whole(ts[2]))
GruSide(op, ts, dir)  == Side(op, ts, dir, 3, Direction(dir, ts[2]))
LstmSide(op, ts, dir) == Side(op, ts, dir, 4, Direction(dir, ts[2]))
Starts(op, ts, dir) ==
    [k \in DOMAIN (op.h \o op.c) |-> IF op.is = "GRU" THEN Whole(ts[op.h[1]]) ELSE Direction(dir, ts[(op.h \o op.c)[k]])]
Bodies(op, ts, dir) ==
    CASE op.is = "RNN" -> RnnBody(RnnSide(op, ts, dir))
      [] op.is = "GRU" -> GruBody(GruSide(op, ts, dir))
      [] op.is = "LSTM" -> LstmBody(LstmSide(op, ts, dir))

\* Scan::output_facts, by slot: all the hidden states, as many as the steps, with an axis
\* for the direction, or the last states.
Scanned(op, ts, body) ==
    LET Kept(k)   == AxisFacts(AO!Add(0), body[k][1])[1]
        Joined(t) == Tensor(t.dt, [t.shape EXCEPT ![1] = @ * DivCeil(ts[1].shape[1], 1)])
        Slot(o)   == IF op.y = Only(o) THEN AxisFacts(AO!Add(1), Joined(Kept(1)))[1]
                     ELSE IF op.y_h = Only(o) THEN Kept(1) ELSE Kept(2)
    IN  [o \in 1 .. Len(op.y \o op.y_h \o op.y_c) |-> Slot(o)]

OneWay(op, ts, dir) ==
    Once(LAMBDA body : IF Fails \in Range(body \o Starts(op, ts, dir)) THEN Fails ELSE Scanned(op, ts, body),
         Once(LAMBDA terms : [k \in DOMAIN terms |-> WireFacts(terms[k])], Bodies(op, ts, dir)))

\* The two directions, one after the other.
TwoWays(op, ways) ==
    [o \in DOMAIN ways[1] |-> ConcatFacts(IF op.y = Only(o) THEN 1 ELSE 0, ways[1][o].dt, <<ways[1][o], ways[2][o]>>)[1]]
RecurrentWire(op, ts) ==
    Once(LAMBDA ways : IF Fails \in Range(ways) THEN Fails ELSE IF Len(ways) = 1 THEN ways[1] ELSE TwoWays(op, ways),
         [k \in 1 .. IF ts[2].shape[1] = 2 THEN 2 ELSE 1 |-> OneWay(op, ts, k - 1)])
=============================================================================
