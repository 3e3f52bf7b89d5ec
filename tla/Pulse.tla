------------------------------- MODULE Pulse --------------------------------
(***************************************************************************)
(* A model made to run on a stream, chunk by chunk, by tract-pulse.        *)
(*                                                                         *)
(* A source model is turned, node by node, into a pulsed one: each         *)
(* operator's pulsifier wires an operator that takes a pulse of frames,    *)
(* with Delay nodes where it needs frames of the past, and each wire has a *)
(* fact that says how late it is.  Then the stream is fed as the test      *)
(* harness does (harness/core-proptest-pulse/src/lib.rs): the length S of  *)
(* the stream becomes known with the first incomplete chunk, which is      *)
(* completed with garbage, and garbage is fed until all of the result has  *)
(* come out.                                                               *)
(*                                                                         *)
(* A frame is a term: <<"x", i>> is the ith frame of the input.            *)
(***************************************************************************)
EXTENDS PulseOps, Sequences, SequencesExt

CONSTANT Problems  \* set of [pulse, len, ops]: a pulse, a length, a source model

VARIABLES
    problem,  \* the problem being solved
    meaning,  \* the outputs of the source model's nodes on the whole stream
    model,    \* the pulsed nodes, in order, and where each source node went
    fed,      \* how many chunks have been fed
    known,    \* is the length of the stream known
    chunk,    \* the last one
    states,   \* the state of each node
    wires,    \* the outputs of the nodes evaluated so far in this run
    got,      \* all that has come out of the last node
    status    \* "waiting" for a chunk, "running", "failed" (error or panic), "done"

vars == <<problem, meaning, model, fed, known, chunk, states, wires, got, status>>

Garbage == <<"nan">>     \* what the caller completes the stream with
Uninit  == <<"uninit">>  \* uninitialized memory

-----------------------------------------------------------------------------
(* The meaning of the source model on the whole input: for each node, the  *)
(* frames of its output, as a function from 0.                             *)

Count(f) == Cardinality(DOMAIN f)

NoFrame == [i \in {} |-> Garbage]

\* An end given by a constant, or by the length of the input.
SliceEnd(op, n) == IF op.symbolic THEN n - op.end ELSE op.end

KernelLen(op) == (op.kernel - 1) * op.dilation

PadFrame(op, in, i) ==
    IF op.edge THEN in[IF i < 0 THEN 0 ELSE Count(in) - 1] ELSE <<"pad">>

Pooled(op, in, at) == <<"pool", [j \in 1 .. op.kernel |-> in[at + (j - 1) * op.dilation]]>>

BatchPad(op, in) ==
    [i \in 0 .. Count(in) + op.before + op.after - 1 |->
       IF i - op.before \in DOMAIN in THEN in[i - op.before] ELSE PadFrame(op, in, i - op.before)]

\* The frames that several inputs have at the same position.
Across(ins, i) == [j \in DOMAIN ins |-> ins[j][i]]

BatchNode(op, ins, len) ==
    LET in == IF ins = <<>> THEN NoFrame ELSE ins[1]
        n  == Count(in)
    IN  CASE op.kind = "source" -> [i \in 0 .. len - 1 |-> <<"x", i>>]
          [] op.kind = "map"    -> [i \in 0 .. n - 1 |-> <<"map", in[i]>>]
          [] op.kind = "slice"  -> [i \in 0 .. SliceEnd(op, n) - op.start - 1 |-> in[op.start + i]]
          [] op.kind = "pad"    -> BatchPad(op, in)
          [] op.kind = "pool"   ->
               LET padded == BatchPad(op, in)
               IN  [i \in 0 .. DivCeil(Count(padded) - KernelLen(op), op.stride) - 1 |->
                      Pooled(op, padded, i * op.stride)]
          [] op.kind = "downsample" ->
               [i \in 0 .. DivCeil(n - op.modulo, op.stride) - 1 |-> in[op.modulo + i * op.stride]]
          [] op.kind = "concat" ->
               [i \in 0 .. op.before + n + op.after - 1 |->
                  IF i < op.before THEN <<"pre", i>>
                  ELSE IF i < op.before + n THEN in[i - op.before]
                  ELSE <<"post", i - op.before - n>>]
          [] op.kind = "binary" -> [i \in 0 .. n - 1 |-> <<"binary", in[i], ins[2][i]>>]
          [] op.kind = "scan"   ->
               [i \in 0 .. n - 1 |-> <<"scan", [j \in 1 .. i + 1 |-> Across(ins, j - 1)]>>]

\* The outputs of the nodes of the source model, with one more.
BatchNext(outs, op, p) ==
    Append(outs, BatchNode(op, [i \in DOMAIN op.inputs |-> outs[op.inputs[i]]], p.len))

\* The outputs of all of them.
Batch(p) ==
    LET upto[k \in 0 .. Len(p.ops)] == IF k = 0 THEN <<>> ELSE BatchNext(upto[k - 1], p.ops[k], p)
    IN  upto[Len(p.ops)]

-----------------------------------------------------------------------------
(* Pulsification.                                                          *)

\* The pulsed_output_facts of each pulsed operator.  A dimension is its value
\* for the length of this stream, and whether S is in it.
OutputFact(op, facts) ==
    LET fact == facts[1]
    IN  CASE op.kind = "Source" -> op.output
          [] op.kind = "Delay"  -> [fact EXCEPT !.pulse = @ + op.overlap,
                                                !.delay = @ + op.delay + op.overlap]
          [] op.kind = "Slice"  -> [fact EXCEPT !.delay = @ + op.skip,
                                                !.dim = op.take, !.symbolic = op.symbolic]
          [] op.kind \in {"PulsePad", "Concat"} ->
               [fact EXCEPT !.dim = @ + op.before + op.after, !.delay = @ - op.before]
          [] op.kind = "Pool" ->
               [fact EXCEPT !.pulse = DivCeil(@ - KernelLen(op), op.stride),
                            !.delay = @ \div op.stride,
                            !.dim = DivCeil(@ - KernelLen(op), op.stride)]
          [] op.kind = "Downsample" ->
               [fact EXCEPT !.pulse = @ \div op.stride, !.dim = DivCeil(@, op.stride)]
          [] op.kind \in {"Map", "Binary", "Scan"} -> fact

\* wire_node
Wire(m, op) ==
    [m EXCEPT !.nodes = Append(@, [op |-> op,
        fact |-> OutputFact(op, [i \in DOMAIN op.inputs |-> m.nodes[op.inputs[i]].fact])])]

WireDelay(m, input, delay, overlap) ==
    Wire(m, [kind |-> "Delay", inputs |-> <<input>>, delay |-> delay, overlap |-> overlap])

FactOf(m, n) == m.nodes[n].fact
LastOf(m)    == Len(m.nodes)
Refused(m)   == [m EXCEPT !.refused = TRUE]

\* A wire that is delayed if something is lacking, and what reads it then.
DelayedBy(m, input, lack)   == IF lack > 0 THEN WireDelay(m, input, lack, 0) ELSE m
DelayedWire(m, input, lack) == IF lack > 0 THEN LastOf(m) + 1 ELSE input

\* A PulsePad, after the Delay it needs.
WirePad(m, input, op, extra) ==
    LET fact == FactOf(m, input)
    IN  Wire(DelayedBy(m, input, extra),
             [kind |-> "PulsePad", inputs |-> <<DelayedWire(m, input, extra)>>,
              pulse |-> fact.pulse, before |-> op.before, after |-> op.after, edge |-> op.edge,
              begin_input |-> fact.delay + extra,
              end_input |-> fact.delay + extra + fact.dim, symbolic |-> fact.symbolic])

PulsifyPad(m, input, op) ==
    LET fact == FactOf(m, input)
    IN  IF op.edge /\ op.before >= fact.pulse
        THEN Refused(m)
        ELSE WirePad(m, input, op, PadExtraDelay(op.before, op.edge, fact.delay, fact.pulse))

\* A slice is the identity, late by what it skips.
PulsifySlice(m, input, op) ==
    LET fact == FactOf(m, input)
    IN  Wire(m, [kind |-> "Slice", inputs |-> <<input>>, skip |-> op.start,
                 take |-> SliceEnd(op, fact.dim) - op.start,
                 symbolic |-> op.symbolic /\ fact.symbolic])

\* A pool or a convolution: its padding, then the Delay that gives it the frames
\* its kernel overlaps, aligned on its stride.
PulsifyPool(m, input, op) ==
    LET pulse    == FactOf(m, input).pulse
        padding  == op.before + op.after > 0
        padded   == IF padding
                    THEN WirePad(m, input, op, Monus(op.before, FactOf(m, input).delay))
                    ELSE m
        wire     == IF padding THEN LastOf(padded) ELSE input
        delay    == FactOf(padded, wire).delay
        overlap  == PoolOverlap(KernelLen(op), op.stride)
        aligned  == ~ (overlap > 0 \/ delay % pulse > 0)
        delayed  == IF aligned THEN padded
                    ELSE WireDelay(padded, wire, PoolDelay(overlap, op.stride, delay), overlap)
    IN  IF pulse % op.stride # 0 \/ (padding /\ op.sum)
        THEN Refused(m)
        ELSE Wire(delayed, [kind |-> "Pool", kernel |-> op.kernel, dilation |-> op.dilation,
                            stride |-> op.stride,
                            inputs |-> <<IF aligned THEN wire ELSE LastOf(delayed)>>])

PulsifyDownsample(m, input, op) ==
    IF FactOf(m, input).pulse % op.stride # 0
    THEN Refused(m)
    ELSE Wire(m, [kind |-> "Downsample", inputs |-> <<input>>,
                  stride |-> op.stride, modulo |-> op.modulo])

\* The delay of the operator is that of the wire before the Delay was put in.
PulsifyConcat(m, input, op) ==
    LET fact    == FactOf(m, input)
        late    == fact.delay >= op.before
        delayed == IF late THEN m ELSE WireDelay(m, input, op.before - fact.delay, 0)
    IN  IF op.before = 0 \/ op.after = 0   \* stack_tensors of nothing
        THEN Refused(m)
        ELSE Wire(delayed, [kind |-> "Concat", inputs |-> <<IF late THEN input ELSE LastOf(delayed)>>,
                            before |-> op.before, after |-> op.after,
                            input_delay |-> Monus(fact.delay, op.before),
                            input_len |-> fact.dim, symbolic |-> fact.symbolic])

\* sync_inputs: both inputs are delayed as the later one is.
PulsifyBinary(m, inputs, op) ==
    LET delay(i) == FactOf(m, inputs[i]).delay
        latest   == IF delay(1) >= delay(2) THEN delay(1) ELSE delay(2)
        first    == DelayedBy(m, inputs[1], latest - delay(1))
    IN  Wire(DelayedBy(first, inputs[2], latest - delay(2)),
             [kind |-> "Binary",
              inputs |-> <<DelayedWire(m, inputs[1], latest - delay(1)),
                           DelayedWire(first, inputs[2], latest - delay(2))>>])

\* A plausible mistake: the late frames are not skipped.
PulsifyScanAtOnce(m, inputs, op) ==
    Wire(m, [kind |-> "Scan", inputs |-> inputs, skip |-> 0])

\* A scan of one frame per iteration skips as many iterations as its first
\* input is late.
PulsifyScan(m, inputs, op) ==
    Wire(m, [kind |-> "Scan", inputs |-> inputs, skip |-> FactOf(m, inputs[1]).delay])

PulsifySource(m, p) ==
    Wire(m, [kind |-> "Source", inputs |-> <<>>,
             output |-> [pulse |-> p.pulse, dim |-> p.len, symbolic |-> TRUE, delay |-> 0]])

\* What the pulsifier of an operator makes of a model.
Pulsifier(m, inputs, op, p) ==
    CASE op.kind = "source"     -> PulsifySource(m, p)
      [] op.kind = "map"        -> Wire(m, [kind |-> "Map", inputs |-> inputs])
      [] op.kind = "slice"      -> PulsifySlice(m, inputs[1], op)
      [] op.kind = "pad"        -> PulsifyPad(m, inputs[1], op)
      [] op.kind = "pool"       -> PulsifyPool(m, inputs[1], op)
      [] op.kind = "downsample" -> PulsifyDownsample(m, inputs[1], op)
      [] op.kind = "concat"     -> PulsifyConcat(m, inputs[1], op)
      [] op.kind = "binary"     -> PulsifyBinary(m, inputs, op)
      [] op.kind = "scan"       -> PulsifyScan(m, inputs, op)

PulsifyNode(m, op, p) ==
    LET wired == Pulsifier(m, [i \in DOMAIN op.inputs |-> m.outlet[op.inputs[i]]], op, p)
    IN  IF m.refused THEN m ELSE [wired EXCEPT !.outlet = Append(@, LastOf(wired))]

\* The translation of a model, in its evaluation order, until a node is refused.
Pulsified(p) ==
    LET upto[k \in 0 .. Len(p.ops)] ==
          IF k = 0 THEN [nodes |-> <<>>, outlet |-> <<>>, refused |-> FALSE]
          ELSE PulsifyNode(upto[k - 1], p.ops[k], p)
    IN  upto[Len(p.ops)]

-----------------------------------------------------------------------------
(* The evaluation of a chunk.                                              *)

\* The state of a node before the first chunk.
FreshState(op) ==
    CASE op.kind = "Delay"    -> [i \in 0 .. Rows * Buffered(op) - 1 |-> <<i \div Buffered(op), Uninit>>]
      [] op.kind = "PulsePad" -> [pos |-> 0, last |-> <<"none">>]
      [] op.kind = "Concat"   -> [pos |-> 0]
      [] op.kind = "Scan"     -> [position |-> 0, hidden |-> <<>>]
      [] OTHER                -> <<>>

Result(out, state) == [out |-> out, state |-> state, ok |-> TRUE]
Failure(state)     == [out |-> NoFrame, state |-> state, ok |-> FALSE]

\* A frame is whole if all its rows are of the same one.
Joined(cells, col) ==
    LET frame == cells[0][col][2]
    IN  IF \A row \in 0 .. Rows - 1 : cells[row][col] = <<row, frame>> THEN frame ELSE <<"torn">>

EvalDelay(op, in, state) ==
    LET pulse == Count(in)
        input == [row \in 0 .. Rows - 1 |-> [col \in 0 .. pulse - 1 |-> <<row, in[col]>>]]
        cells == DelayOutput(op, state, pulse, input)
    IN  Result([col \in 0 .. pulse + op.overlap - 1 |-> Joined(cells, col)],
               DelayBuffer(op, state, pulse, input))

\* What a length is for the operators: S may not be known yet.
Resolved(op, n) == IF op.symbolic /\ ~ known THEN UsizeMax ELSE n

EvalPad(op, in, state) ==
    LET pos   == state.pos
        end   == Resolved(op, op.end_input)
        last  == IF op.edge /\ op.after # 0 /\ pos < end
                 THEN in[Least(end - pos, op.pulse) - 1] ELSE state.last
        upto  == FillUpTo(op, pos)
        from  == FillFrom(op, pos, end, op.after)
        moved == [pos |-> pos + op.pulse, last |-> last]
        writes == ~ PadForwards(op, pos, end, op.after)
    IN  IF writes /\ op.edge /\ \/ upto > 0 /\ upto \notin DOMAIN in
                                \/ from < op.pulse /\ last = <<"none">>
        THEN Failure(moved)
        ELSE Result(Padded(op, pos, end, op.after, in,
                           IF ~ op.edge THEN <<"pad">> ELSE IF upto \in DOMAIN in THEN in[upto] ELSE Garbage,
                           IF ~ op.edge THEN <<"pad">> ELSE last),
                    moved)

EvalConcat(op, in, state) ==
    LET pulse == Count(in)
        moved == [pos |-> state.pos + pulse]
        pre   == Overwritten(in, pulse, state.pos, [i \in 0 .. op.before - 1 |-> <<"pre", i>>],
                             op.before, op.input_delay - op.before)
    IN  IF op.input_delay < op.before
        THEN Failure(moved)
        ELSE Result(IF op.symbolic /\ ~ known THEN pre
                    ELSE Overwritten(pre, pulse, state.pos, [i \in 0 .. op.after - 1 |-> <<"post", i>>],
                                     op.after, op.input_delay + op.input_len),
                    moved)

\* One iteration per frame; the first ones, in all, are skipped, and their
\* output is left as it was allocated.
EvalScan(op, ins, state) ==
    LET pulse == Count(ins[1])
        from  == Least(Monus(op.skip, state.position), pulse)
        upto(k) == state.hidden \o [j \in 1 .. k - from + 1 |-> Across(ins, from + j - 1)]
    IN  Result([k \in 0 .. pulse - 1 |-> IF k < from THEN Uninit ELSE <<"scan", upto(k)>>],
               [position |-> state.position + pulse, hidden |-> upto(pulse - 1)])

EvalNode(op, ins, state) ==
    LET in == IF ins = <<>> THEN chunk ELSE ins[1]
    IN  CASE op.kind = "Source" -> Result(chunk, state)
          [] op.kind = "Map"    -> Result([k \in DOMAIN in |-> <<"map", in[k]>>], state)
          [] op.kind = "Slice"  -> Result(in, state)
          [] op.kind = "Delay"  -> EvalDelay(op, in, state)
          [] op.kind = "PulsePad" -> EvalPad(op, in, state)
          [] op.kind = "Concat" -> EvalConcat(op, in, state)
          [] op.kind = "Pool"   ->
               Result([k \in 0 .. DivCeil(Count(in) - KernelLen(op), op.stride) - 1 |->
                         Pooled(op, in, k * op.stride)], state)
          [] op.kind = "Downsample" ->
               Result([k \in 0 .. DivCeil(Monus(Count(in), op.modulo), op.stride) - 1 |->
                         in[op.modulo + k * op.stride]], state)
          [] op.kind = "Binary" -> Result([k \in DOMAIN in |-> <<"binary", in[k], ins[2][k]>>], state)
          [] op.kind = "Scan"   -> EvalScan(op, ins, state)

-----------------------------------------------------------------------------
(* Feeding the stream, and running the plan on each chunk.                 *)

Init ==
    /\ problem \in Problems
    /\ meaning = Batch(problem)
    /\ model = Pulsified(problem)
    /\ ~ model.refused
    /\ fed = 0
    /\ known = FALSE
    /\ chunk = NoFrame
    /\ states = [n \in DOMAIN model.nodes |-> FreshState(model.nodes[n].op)]
    /\ wires = <<>>
    /\ got = <<>>
    /\ status = "waiting"

Fed == fed * problem.pulse
OutputFactOf == FactOf(model, LastOf(model))

\* A run begins on a chunk of which the first frames are those of the stream.
Begin(frames) ==
    /\ status = "waiting"
    /\ status' = "running"
    /\ chunk' = [k \in 0 .. problem.pulse - 1 |->
                   IF k < frames THEN <<"x", Fed + k>> ELSE Garbage]
    /\ fed' = fed + 1
    /\ wires' = <<>>
    /\ UNCHANGED <<problem, meaning, model, states, got>>

\* A chunk of frames of the stream.
FeedChunk ==
    /\ Fed + problem.pulse <= problem.len
    /\ Begin(problem.pulse)
    /\ UNCHANGED known

\* The first incomplete chunk, maybe of no frame at all: the end is known.
FeedLast ==
    /\ Fed <= problem.len
    /\ Fed + problem.pulse > problem.len
    /\ Begin(problem.len - Fed)
    /\ known' = TRUE

\* After the end, until all of the output is there.
FeedFiller ==
    /\ Fed > problem.len
    /\ Begin(0)
    /\ UNCHANGED known

Feed == FeedChunk \/ FeedLast \/ FeedFiller

\* A plausible mistake: the delay is forgotten.
GotAllButDelayed(n) == known /\ n >= OutputFactOf.dim

\* The caller stops when the result is as long as its fact says, after the delay.
GotAll(n) == known /\ n >= OutputFactOf.dim + OutputFactOf.delay

\* The run evaluates the next node; an error ends it. The last one's output goes
\* to what was got.
RunNode ==
    LET n    == Len(wires) + 1
        node == model.nodes[n]
        r    == EvalNode(node.op, [i \in DOMAIN node.op.inputs |-> wires[node.op.inputs[i]]],
                         states[n])
        ends == r.ok /\ n = LastOf(model)
    IN  /\ status = "running"
        /\ states' = [states EXCEPT ![n] = r.state]
        /\ wires' = IF r.ok THEN Append(wires, r.out) ELSE wires
        /\ got' = IF ends THEN got \o [k \in 1 .. Count(r.out) |-> r.out[k - 1]] ELSE got
        /\ status' = IF ~ r.ok THEN "failed"
                     ELSE IF ~ ends THEN "running"
                     ELSE IF GotAll(Len(got')) THEN "done" ELSE "waiting"
        /\ UNCHANGED <<problem, meaning, model, fed, known, chunk>>

Next == Feed \/ RunNode
Spec == Init /\ [][Next]_vars

\* A run goes on to its end, and the caller feeds the stream until the result is
\* there.
FairSpec == Spec /\ WF_vars(Next)

-----------------------------------------------------------------------------
(* The problems for which the properties are claimed.                      *)

Arity(op) == CASE op.kind = "source" -> 0 [] op.kind = "binary" -> 2 [] OTHER -> 1

\* A node of the source model, with the frames of its inputs: its numbers make
\* sense, and its output has a length.  A downsampling begins with the first frame:
\* its output fact is not told of a modulo.
NodeFits(op, ins) ==
    LET n == Count(ins[1])
        frames == op.before + n + op.after - KernelLen(op)
    IN  \/ op.kind \in {"source", "map", "scan"}
        \/ op.kind = "binary" /\ n = Count(ins[2])
        \/ op.kind = "slice" /\ {op.start, SliceEnd(op, n)} \subseteq Nat /\ op.symbolic \in BOOLEAN
           /\ op.start <= SliceEnd(op, n) /\ SliceEnd(op, n) <= n
        \/ op.kind = "pad" /\ {op.before, op.after} \subseteq Nat /\ op.edge \in BOOLEAN
           /\ (op.edge => n > 0)
        \/ op.kind = "pool" /\ {op.before, op.after} \subseteq Nat /\ op.edge = FALSE
           /\ {op.kernel, op.dilation, op.stride} \subseteq Nat \ {0} /\ frames > 0
        \/ op.kind = "downsample" /\ op.stride \in Nat \ {0} /\ op.modulo = 0

IsPadding(op) == op.kind = "pad" \/ (op.kind = "pool" /\ op.before + op.after > 0)

\* A slice that cuts the end of a stream.
Cuts(op, ins) == op.kind = "slice" /\ SliceEnd(op, Count(ins[1])) # Count(ins[1])

\* The frames of the inputs of a node, among the outputs.
InputsOf(p, outs, s) == [i \in DOMAIN p.ops[s].inputs |-> outs[p.ops[s].inputs[i]]]

\* Nothing is padded of what comes, maybe not at once, from where `cut` says that an
\* end was cut: nobody would know that the end is past before the length is known.
EndsOnlyCut(p, outs, cut) ==
    \A s \in DOMAIN p.ops :
        LET op == p.ops[s]
            late == \E i \in DOMAIN op.inputs : op.inputs[i] \in cut
        IN  /\ late \/ Cuts(op, InputsOf(p, outs, s)) => s \in cut
            /\ late => ~ IsPadding(op)

\* The numbers are those of a usize; a downsampling, which does not change the delay
\* of the stream, has a stream that is not late; the inputs of a binary operator
\* have come to the same pulse.
WiresFit(p, m) ==
    LET fact(s) == FactOf(m, m.outlet[s])
    IN  /\ \A n \in DOMAIN m.nodes : m.nodes[n].fact.delay + m.nodes[n].fact.dim <= UsizeMax
        /\ \A s \in DOMAIN p.ops :
              /\ p.ops[s].kind = "downsample" => fact(p.ops[s].inputs[1]).delay = 0
              /\ p.ops[s].kind = "binary" => fact(p.ops[s].inputs[1]).pulse = fact(p.ops[s].inputs[2]).pulse

\* The models that are turned into the same computation on a stream.
Pulsable(p) ==
    \E outs \in {Batch(p)} : \E m \in {Pulsified(p)} :
        /\ p.pulse \in Nat \ {0} /\ p.len \in Nat
        /\ p.ops \in Seq(Range(p.ops)) /\ p.ops # <<>>
        /\ \A s \in DOMAIN p.ops :
              /\ p.ops[s].inputs \in [1 .. Arity(p.ops[s]) -> 1 .. s - 1]
              /\ NodeFits(p.ops[s], InputsOf(p, outs, s))
        /\ \E cut \in SUBSET DOMAIN p.ops : EndsOnlyCut(p, outs, cut)
        /\ m.refused \/ WiresFit(p, m)

-----------------------------------------------------------------------------
(* Properties.                                                             *)

\* The part of what came out that the fact of the output says is the result:
\* what comes after the delay, as long as the output is.
Emitted ==
    LET delay == OutputFactOf.delay
    IN  [i \in 0 .. Least(OutputFactOf.dim, Monus(Len(got), delay)) - 1 |->
           got[delay + i + 1]]

\* The position, in its stream, of the first frame of the last chunk of a wire;
\* the frames its fact promises, by position; how often a node was evaluated.
ChunkStart(n) ==
    LET node == model.nodes[n]
    IN  (fed - 1) * (node.fact.pulse - IF node.op.kind = "Delay" THEN node.op.overlap ELSE 0)

Evaluations(n) == IF n <= Len(wires) THEN fed ELSE fed - 1

Promised(s, pos) ==
    LET i == pos - FactOf(model, model.outlet[s]).delay
    IN  IF i \in DOMAIN meaning[s] THEN {meaning[s][i]} ELSE {}

\* Every wire that stands for one of the source model carries its frames, late
\* by the delay of its fact, whatever the chunks and however late the length of
\* the stream is known (pulse/src/fact.rs, the delay; each pulsed_output_facts).
WiresAreDelayed ==
    \A s \in DOMAIN meaning :
        LET n == model.outlet[s]
        IN  n <= Len(wires) => \A k \in DOMAIN wires[n] : \A f \in Promised(s, ChunkStart(n) + k) : wires[n][k] = f

\* The buffer of a Delay holds the last frames of its input, in each row, in
\* order, however it was rotated and with whatever uninitialized memory it began
\* (pulse-opl/src/delay.rs:66-81).
DelayBuffersHold ==
    \A s \in DOMAIN meaning : \A n \in DOMAIN model.nodes :
        LET op == model.nodes[n].op
        IN  op.kind = "Delay" /\ op.inputs = <<model.outlet[s]>> =>
              \A row \in 0 .. Rows - 1 : \A col \in 0 .. Buffered(op) - 1 :
                LET pos == Evaluations(n) * FactOf(model, model.outlet[s]).pulse - Buffered(op) + col
                IN  \A f \in Promised(s, pos) : states[n][Flat(row, col, Buffered(op))] = <<row, f>>

\* No operator of a pulsed model fails: the frame an edge padding repeats is in
\* the pulse, the last frame has been seen when it is needed, and no position is
\* less than zero (pulse-opl/src/pad.rs:103 and :119; concat.rs, the offsets).
NeverFails == status # "failed"

\* A pulsed model implements the computation on the whole stream: the harness
\* asserts it at the end (core-proptest-pulse/src/lib.rs, the last prop_assert).
Stream == INSTANCE BatchStream WITH whole <- meaning[Len(meaning)], out <- Emitted
ImplementsBatch == Stream!Spec
DeliversAll     == Stream!Complete
=============================================================================
