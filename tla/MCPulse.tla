------------------------------ MODULE MCPulse -------------------------------
(* Instances of Pulse: short streams, small pulses, models of a few nodes. *)
EXTENDS Pulse

Source == [kind |-> "source", inputs |-> <<>>]
Map    == [kind |-> "map"]
Slice(start, cut)    == [kind |-> "slice", start |-> start, end |-> cut, symbolic |-> TRUE]
SliceTo(start, end)  == [kind |-> "slice", start |-> start, end |-> end, symbolic |-> FALSE]
Pad(before, after, edge) == [kind |-> "pad", before |-> before, after |-> after, edge |-> edge]
Pool(kernel, dilation, stride, before, after) ==
    [kind |-> "pool", kernel |-> kernel, dilation |-> dilation, stride |-> stride,
     before |-> before, after |-> after, edge |-> FALSE, sum |-> FALSE]
Down(stride, modulo) == [kind |-> "downsample", stride |-> stride, modulo |-> modulo]
Concat(before, after) == [kind |-> "concat", before |-> before, after |-> after]
Scan   == [kind |-> "scan"]
Binary == [kind |-> "binary"]

\* An operator reading some nodes.
On(op, inputs) ==
    [f \in DOMAIN op \cup {"inputs"} |-> IF f = "inputs" THEN inputs ELSE op[f]]

Chain(ops) == <<Source>> \o [i \in DOMAIN ops |-> On(ops[i], <<i>>)]

\* Operators that may come anywhere, and those that may only come last: they cut
\* the end, or need an input that is not late.
Inner ==
    {Slice(1, 0), Slice(2, 0), Pad(1, 0, FALSE), Pad(0, 1, FALSE), Pad(2, 1, FALSE),
     Pad(1, 2, TRUE), Pad(2, 0, TRUE),
     Pool(2, 1, 1, 0, 0), Pool(3, 1, 2, 0, 0), Pool(2, 2, 1, 1, 1), Pool(1, 1, 2, 0, 0),
     Pool(2, 1, 2, 1, 0), Scan, Map}
Final == Inner \cup {Slice(1, 1), Slice(0, 2), SliceTo(1, 2), SliceTo(0, 0)}

Some  == {Slice(1, 0), Pad(1, 2, TRUE), Pad(2, 1, FALSE), Pool(3, 1, 2, 0, 0), Pool(2, 2, 1, 1, 1), Scan}

Chains ==
    {Chain(<<a>>) : a \in Final \cup {Down(2, 0)}} \cup {Chain(<<a, b>>) : a \in Inner, b \in Final}
    \cup {Chain(<<a, b, c>>) : a, b, c \in Some}

\* Two branches of a wire, made to agree in length, meet; with something after.
Branches ==
    {<<Source, On(a[1], <<1>>), On(a[2], <<1>>), On(Binary, <<2, 3>>), On(b, <<4>>)>> :
       a \in {<<Pool(2, 1, 1, 0, 0), Slice(1, 0)>>, <<Slice(1, 0), Pool(2, 1, 1, 0, 0)>>,
              <<Pool(3, 1, 1, 1, 1), Map>>, <<Map, Pool(3, 1, 1, 1, 1)>>,
              <<Pad(2, 0, FALSE), Pad(1, 1, FALSE)>>, <<Scan, Pool(2, 2, 1, 1, 1)>>},
       b \in {Scan, Pool(2, 1, 1, 0, 0), Pad(1, 1, FALSE), Pad(1, 1, TRUE)}}

\* The lengths the source model has, node by node, are not negative.
Legal(p) ==
    LET Lens(acc, op) ==
          LET n == IF op.inputs = <<>> THEN p.len ELSE acc[op.inputs[1]]
          IN  Append(acc,
                CASE op.kind = "slice" -> SliceEnd(op, n) - op.start
                  [] op.kind = "pad"   -> IF op.edge /\ n <= 0 THEN -1 ELSE n + op.before + op.after
                  [] op.kind = "pool"  -> IF n < 0 THEN n
                       ELSE LET m == n + op.before + op.after - KernelLen(op)
                            IN  IF m <= 0 THEN -1 ELSE DivCeil(m, op.stride)
                  [] op.kind = "downsample" -> DivCeil(n - op.modulo, op.stride)
                  [] op.kind = "concat" -> n + op.before + op.after
                  [] OTHER -> n)
        lens == FoldLeft(Lens, <<>>, p.ops)
    IN  \A i \in DOMAIN lens :
          /\ lens[i] >= 0
          /\ p.ops[i].kind = "slice" => SliceEnd(p.ops[i], lens[p.ops[i].inputs[1]]) <= lens[p.ops[i].inputs[1]]

MCProblems ==
    {p \in [pulse : 1 .. 4, len : 0 .. 6, ops : Chains \cup Branches] : Legal(p) /\ Pulsable(p)}
\* The end is cut off, then something is put after it.
CroppedProblems ==
    {p \in [pulse : 1 .. 2, len : 3 .. 4, ops : {Chain(<<Slice(0, 2), Pad(0, 1, FALSE)>>)}] : Legal(p)}

MCRows == 2
MCUsizeMax == 1000
=============================================================================
