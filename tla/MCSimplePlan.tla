---------------------------- MODULE MCSimplePlan ----------------------------
(***************************************************************************)
(* Small instances of SimplePlan.  The nodes are numbered along the order, *)
(* which loses no case: every topological order of every graph is the      *)
(* ascending order of a renamed graph.                                     *)
(***************************************************************************)
EXTENDS SimplePlan

CONSTANT S

MCNode == 1..4

(* A tensor is known by its size. *)
MCTensor == {<<1>>, <<2>>}

MCSize == [t \in MCTensor |-> t[1]]

(* Symbolic evaluation: the value of a node is the term that computes it, the
   state of an operator how often it was evaluated. *)
MCOp(n, state, args) == <<n, state, args>>

MCAdvance(n, state, args) == state + 1

Below(n, len) == UNION {[1..k -> 1..(n - 1)] : k \in 0..len}

(* Node 1 is read by 2, then anything: chains, diamonds, a wire read twice,
   nodes without inputs, two model inputs. *)
Wirings ==
  {<< <<>>, i2, i3, i4 >> : i2 \in {<<>>, <<1>>}, i3 \in {<<1, 2>>, <<2>>},
                            i4 \in {<<1, 3>>, <<3, 2>>, <<3, 3>>}}

One(f) == [n \in MCNode |-> f]

Wide == [symbol |-> S, factor |-> 1, offset |-> 0]     \* S
Double == [symbol |-> S, factor |-> 2, offset |-> 0]   \* 2 * S
More == [symbol |-> S, factor |-> 1, offset |-> 1]     \* S + 1
Fixed == [symbol |-> NoSymbol, factor |-> 1, offset |-> 2]

MCFacts == {<<Wide, Double>>, <<More, Wide>>, <<Fixed, Wide>>}

PlanOf(w, outputs, facts) ==
  LET sources == {n \in 1..2 : w[n] = <<>>} IN
  [inputs |-> w, sources |-> sources, stateful |-> MCNode \ sources,
   interface |-> IF 2 \in sources THEN <<2, 1>> ELSE <<1>>,
   fact |-> [n \in MCNode |-> facts[(n % 2) + 1]], outputs |-> outputs,
   order |-> IF outputs = <<3>> THEN <<1, 2, 3>> ELSE <<1, 2, 3, 4>>]

(* A model whose input is a computed node: eval_order stops there. *)
RawInput(w, outputs, facts) ==
  [PlanOf(w, outputs, facts) EXCEPT !.interface = <<2>>, !.order = <<2, 3, 4>>]

SmallPlans == {PlanOf(w, o, f) : w \in Wirings, o \in {<<4>>, <<2, 4>>, <<3>>}, f \in MCFacts}

RawPlans ==
  {RawInput(<< <<>>, <<1>>, <<2>>, <<3, 2>> >>, <<4>>, <<Wide, Wide>>)}

MCPlans == SmallPlans \cup RawPlans

=============================================================================
