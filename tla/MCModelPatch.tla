---------------------------- MODULE MCModelPatch ----------------------------
(***************************************************************************)
(* Small instances of ModelPatch: one or two inputs, read or not, operators *)
(* wired in any way, one or two outputs, and the patches that the helpers   *)
(* and the axes pass make; and the pass PushSplitDown on operators that can *)
(* be compared, under a binary one or with two of them as the outputs.      *)
(***************************************************************************)
EXTENDS PushSplitDown

CONSTANTS
  Size,         \* how many nodes the first graphs have
  MaxRewrites   \* bound: patches of the helpers and of the axes pass

NodeChoices(n) ==
  [op : {<<"f">>, <<"id">>}, inputs : {<<m>> : m \in 1..(n - 1)}]
    \cup [op : {<<"g">>}, inputs : [1..2 -> 1..(n - 1)]]

RECURSIVE Grown(_)
Grown(n) ==
  IF n = 1 THEN {AddNode(Empty, Source)}
  ELSE {Wire(AddNode(g, c.op), n, c.inputs) : g \in Grown(n - 1), c \in NodeChoices(n)}
         \cup IF n = 2 THEN {AddNode(g, Source) : g \in Grown(1)} ELSE {}

Rewritten ==
  {[g EXCEPT !.interface = IF g.op[2] = Source THEN <<2, 1>> ELSE <<1>>,
             !.outputs = outputs] :
     g \in Grown(Size), outputs \in {<<Size>>, <<Size, Size - 1>>}}

(* Patches that replace operators by equivalent ones. *)
Rewrites(g) ==
  LET live == Live(g) \ ToSet(g.interface) IN
  {ReplaceSingleOp(g, n, Append(g.op[n], "id")) : n \in {m \in live : Len(g.op[m]) = 1}}
    \cup {FuseWithNext(g, n, g.op[n] \o g.op[SingleSucc(g, n)]) :
            n \in {m \in live : SingleSucc(g, m) # 0}}
    \cup {ShuntOneOp(g, n) : n \in {m \in live : g.op[m] = <<"id">>}}
    \cup {Intercept(g, n, <<"id">>) : n \in Live(g)}
    \cup {ChangeNodes(g, [n \in W |-> IF g.op[n] = Source THEN Source ELSE Append(g.op[n], "id")]) :
            W \in {V \in SUBSET Live(g) : Cardinality(V) = 2}}

(* Slice, Downsample, QSumB, MatMatMulPack, Delay read one tensor. *)
Unary == {<<"h">>, <<"k">>}

RECURSIVE Trees(_)
Trees(n) ==
  IF n = 1 THEN {AddNode(Empty, Source)}
  ELSE {Wire(AddNode(g, op), n, <<m>>) : g \in Trees(n - 1), op \in Unary, m \in 1..(n - 1)}

(* The pass gets compacted models. *)
UnderBinary ==
  {Compact([Wire(AddNode(g, <<"g">>), 6, <<i, j>>)
             EXCEPT !.interface = <<1>>, !.outputs = outputs]) :
     g \in Trees(5), i, j \in 2..5, outputs \in {<<6>>, <<6, 5>>, <<5, 4>>}}

MCModels == Rewritten \cup UnderBinary

MCPatches(g) ==
  IF Merging(g) THEN PassPatches(g) ELSE IF applied < MaxRewrites THEN Rewrites(g) ELSE {}

=============================================================================
