----------------------------- MODULE SimplePlan -----------------------------
(***************************************************************************)
(* SimplePlan and SimpleState (core/src/plan.rs): the executor of a model. *)
(* A plan is a graph, the order its nodes are evaluated in and, for each   *)
(* step, the wires that can be dropped.  A state holds the wires' values,  *)
(* the operators' own states and what the session knows: the input tensors *)
(* and the values of the symbols.  It outlives the runs.                   *)
(*                                                                         *)
(* The slots of a node are not told apart: its value stands for the vector *)
(* of its outputs.  A tensor has one dimension, its Size.                  *)
(***************************************************************************)
EXTENDS PostOrder

CONSTANTS
  Node,             \* the node ids of the graphs
  Plans,            \* the plans that are run
  Tensor, Size,     \* the tensors the caller has, and their sizes
  Symbol, NoSymbol, \* the symbols the size of an input may be made of
  Op(_, _, _),      \* node, operator state, inputs: the value it computes
  Advance(_, _, _), \* node, operator state, inputs: its next state
  FreshState,       \* what EvalOp::state returns
  DebugAssertions,  \* cfg!(debug_assertions)
  MaxFeed,          \* bound: tensors given to one call
  MaxCalls          \* bound: calls on one state

(* The size a model input expects: factor * symbol + offset, or the offset. *)
Fact == [symbol : Symbol \cup {NoSymbol}, factor : Nat \ {0}, offset : Nat]

(***************************************************************************)
(* A plan.  Of the model: the wiring, the nodes whose operator is a Source *)
(* (it reads the session's inputs), those whose operator has a state of    *)
(* its own, the model's input nodes with their facts.  Of the plan: the    *)
(* outputs asked for and the order of evaluation.                          *)
(***************************************************************************)
Plan == [inputs : [Node -> Seq(Node)], sources : SUBSET Node, stateful : SUBSET Node,
         interface : Seq(Node), fact : [Node -> Fact], outputs : Seq(Node),
         order : Seq(Node)]

Members(s) == {s[k] : k \in 1..Len(s)}

(* What eval_order_for_nodes promises of the order (OrderFitsPlans in the proofs of
   EvalOrder): it looks at the inputs of a node unless it is a model input. *)
WellOrdered(p) == RunsInOrder(p.order, p.inputs, Members(p.interface), p.outputs)

(* No node waits for itself: wire_node only wires nodes that are there. *)
Acyclic(p) ==
  \A S \in SUBSET Node : S # {} => \E n \in S : Members(p.inputs[n]) \cap S = {}

ASSUME PlansAssumption == \A p \in Plans : p \in Plan /\ WellOrdered(p)
ASSUME GraphAssumption == \A p \in Plans : Acyclic(p)
ASSUME SizeAssumption == Size \in [Tensor -> Nat]
ASSUME SymbolAssumption == NoSymbol \notin Symbol
ASSUME DebugAssumption == DebugAssertions \in BOOLEAN
ASSUME BoundsAssumption == MaxFeed \in Nat /\ MaxCalls \in Nat

VARIABLES
  plan,     \* the plan, constant
  values,   \* the wires that are computed, a function on the nodes that have one
  states,   \* the operators' states
  session,  \* session_state.inputs: the tensors by input node
  symbols,  \* session_state.resolved_symbols: the known ones
  call,     \* what is executing, and where it is, or what the last call returned
  calls,    \* how many calls were made
  since     \* history: what evaluation began with, and what ran since

vars == <<plan, values, states, session, symbols, call, calls, since>>

Outputs == Members(plan.outputs)
InputsOf(n) == Members(plan.inputs[n])

(* HashMap::insert, and the assignment of Some to a wire. *)
Store(f, n, v) == [m \in DOMAIN f \cup {n} |-> IF m = n THEN v ELSE f[m]]

Drop(f, S) == Restrict(f, DOMAIN f \ S)

(* Mutants of FlushList: dropped at the first read, dropped one step
   late. *)
FlushListFirstRead(k) == {n \in Node \ Outputs : k > 1 /\ n \in InputsOf(plan.order[k])}

FlushListLate(k) ==
  {n \in Node \ Outputs :
    /\ k > 1
    /\ n \in InputsOf(plan.order[k - 1])
    /\ \A j \in k..Len(plan.order) : n \notin InputsOf(plan.order[j])}

(* The wires read for the last time at step k: not outputs, not read again.
   A last use at the first step is coded like no use at all, and ignored. *)
FlushList(k) ==
  {n \in Node \ Outputs :
    /\ k > 1
    /\ n \in InputsOf(plan.order[k])
    /\ \A j \in (k + 1)..Len(plan.order) : n \notin InputsOf(plan.order[j])}

Args(n) == [j \in 1..Len(plan.inputs[n]) |-> values[plan.inputs[n][j]]]

Computed(n) == n \in DOMAIN values
HasInputs(n) == \A m \in InputsOf(n) : Computed(m)

Idle(method, outcome, result) ==
  [at |-> "idle", method |-> method, outcome |-> outcome, result |-> result]

Feeding(method, feed, next) ==
  [at |-> "feeding", method |-> method, feed |-> feed, next |-> next]

Running(step) == [at |-> "running", step |-> step]

Recursing(stack) == [at |-> "recursing", stack |-> stack]

Panicked == [at |-> "panicked"]

Nothing == [n \in {} |-> n]

(* An evaluation begins, with operators in some states, and takes some wires for given. *)
Evaluating(sts, held) == [states |-> sts, held |-> held, ran |-> <<>>]

-----------------------------------------------------------------------------

Init ==
  /\ plan \in Plans
  /\ values = Nothing
  /\ states = [n \in Node |-> FreshState]
  /\ session = Nothing
  /\ symbols = Nothing
  /\ call = Idle("new", "ok", <<>>)
  /\ calls = 0
  /\ since = Evaluating(states, Nothing)

(* A call starts when no other executes: the methods take &mut self. *)
Call(held) ==
  /\ call.at = "idle"
  /\ calls < MaxCalls
  /\ calls' = calls + 1
  /\ since' = Evaluating(states, held)
  /\ UNCHANGED plan

-----------------------------------------------------------------------------
(* set_input, set_inputs, and the same at the start of run. *)

Tensors == UNION {[1..k -> Tensor] : k \in 0..MaxFeed}

(* run(inputs) and set_inputs(inputs) start with input 0; set_input sets one. *)
CallWithInputs ==
  /\ Call(Nothing)
  /\ \/ \E ts \in Tensors, method \in {"set", "run"} : call' = Feeding(method, ts, 0)
     \/ \E t \in Tensor, ix \in 0..Len(plan.interface) : call' = Feeding("set", <<t>>, ix)
  /\ UNCHANGED <<values, states, session, symbols>>

HasTensor == call.at = "feeding" /\ call.feed # <<>>

ValidIndex == call.next < Len(plan.interface)

InputNode == plan.interface[call.next + 1]

(* Mutant of Resolved: a symbol that is known stays as it is. *)
ResolvedOnce(f, t) ==
  IF f.symbol # NoSymbol /\ f.offset = 0 /\ f.symbol \notin DOMAIN symbols
  THEN Store(symbols, f.symbol, Size[t] \div f.factor)
  ELSE symbols

(* Mutant of Resolved: a constant size is taken for a symbol. *)
ResolvedAlways(f, t) == Store(symbols, f.symbol, Size[t] \div f.factor)

(* The symbols once the size of tensor t is set against what is expected: a
   symbol, or a multiple of one, is resolved by a division that drops the
   remainder, and loses the value it may already have. *)
Resolved(f, t) ==
  IF f.symbol # NoSymbol /\ f.offset = 0
  THEN Store(symbols, f.symbol, Size[t] \div f.factor)
  ELSE symbols

Determined(f, known) == f.symbol = NoSymbol \/ f.symbol \in DOMAIN known

(* TypedFact::matches *)
Matches(f, t) ==
  Size[t] = f.offset + IF f.symbol = NoSymbol THEN 0 ELSE f.factor * symbols[f.symbol]

RejectIndex ==
  /\ HasTensor
  /\ ~ValidIndex
  /\ call' = Idle(call.method, "index", <<>>)
  /\ UNCHANGED <<plan, values, states, session, symbols, calls, since>>

(* The fact cannot be evaluated: the tensor is refused, the symbols stay. *)
RejectUndetermined ==
  /\ HasTensor
  /\ ValidIndex
  /\ symbols' = Resolved(plan.fact[InputNode], Head(call.feed))
  /\ ~Determined(plan.fact[InputNode], symbols')
  /\ call' = Idle(call.method, "undetermined", <<>>)
  /\ UNCHANGED <<plan, values, states, session, calls, since>>

(* Whether the tensor matches the fact is computed, and not looked at. *)
SetInput ==
  /\ HasTensor
  /\ ValidIndex
  /\ symbols' = Resolved(plan.fact[InputNode], Head(call.feed))
  /\ Determined(plan.fact[InputNode], symbols')
  /\ session' = Store(session, InputNode, Head(call.feed))
  /\ call' = Feeding(call.method, Tail(call.feed), call.next + 1)
  /\ UNCHANGED <<plan, values, states, calls, since>>

InputsSet ==
  /\ call.at = "feeding"
  /\ call.feed = <<>>
  /\ call' = IF call.method = "run" THEN Running(1) ELSE Idle("set", "ok", <<>>)
  /\ UNCHANGED <<plan, values, states, session, symbols, calls, since>>

-----------------------------------------------------------------------------
(* The evaluation of one node, common to all callers. *)

(* SourceState::eval indexes the session's inputs, which panics on a missing
   one; the others compute. *)
CanEval(n) == n \in plan.sources => n \in DOMAIN session

(* Mutant of ValueOf: a wire that has a value is not computed again. *)
ValueOfCached(n) ==
  IF n \in plan.sources THEN session[n]
  ELSE IF Computed(n) THEN values[n] ELSE Op(n, states[n], Args(n))

ValueOf(n) == IF n \in plan.sources THEN session[n] ELSE Op(n, states[n], Args(n))

StateAfter(n) ==
  IF n \in plan.stateful THEN Advance(n, states[n], Args(n)) ELSE states[n]

Evaluate(n) ==
  /\ states' = [states EXCEPT ![n] = StateAfter(n)]
  /\ since' = [since EXCEPT !.ran = Append(@, n)]
  /\ UNCHANGED <<plan, session, symbols, calls>>

(* An operator may fail, before or after it has updated its state. *)
FailEval(n) ==
  /\ n \notin plan.sources
  /\ states' \in {states, [states EXCEPT ![n] = StateAfter(n)]}
  /\ UNCHANGED <<plan, session, symbols, calls, since>>

(* The debug build checks what a node reads against the facts, and what it
   computed when another node reads it.  Only sources can be of a wrong size
   here: the sizes of the values the other operators compute are not modelled. *)
InputAssertionFails(n) ==
  /\ DebugAssertions
  /\ \E m \in InputsOf(n) \cap plan.sources :
       ~(Determined(plan.fact[m], symbols) /\ Matches(plan.fact[m], values[m]))

AssertionFails(n) ==
  /\ DebugAssertions
  /\ n \in plan.sources
  /\ \E m \in Node : n \in InputsOf(m)
  /\ ~Matches(plan.fact[n], ValueOf(n))

-----------------------------------------------------------------------------
(* run: one action per step of the order. *)

AtStep == call.at = "running" /\ call.step <= Len(plan.order)

Current == plan.order[call.step]

ReadyToEval == AtStep /\ HasInputs(Current)

RunMissingPrecursor ==
  /\ AtStep
  /\ ~HasInputs(Current)
  /\ call' = Idle("run", "precursor", <<>>)
  /\ UNCHANGED <<plan, values, states, session, symbols, calls, since>>

RunInputAssertionFails ==
  /\ ReadyToEval
  /\ InputAssertionFails(Current)
  /\ values' = Drop(values, FlushList(call.step))
  /\ call' = Idle("run", "assertion", <<>>)
  /\ UNCHANGED <<plan, states, session, symbols, calls, since>>

RunStep ==
  /\ ReadyToEval
  /\ ~InputAssertionFails(Current)
  /\ CanEval(Current)
  /\ ~AssertionFails(Current)
  /\ values' = Store(Drop(values, FlushList(call.step)), Current, ValueOf(Current))
  /\ Evaluate(Current)
  /\ call' = Running(call.step + 1)

RunAssertionFails ==
  /\ ReadyToEval
  /\ ~InputAssertionFails(Current)
  /\ CanEval(Current)
  /\ AssertionFails(Current)
  /\ values' = Drop(values, FlushList(call.step))
  /\ Evaluate(Current)
  /\ call' = Idle("run", "assertion", <<>>)

RunEvalFails ==
  /\ ReadyToEval
  /\ ~InputAssertionFails(Current)
  /\ FailEval(Current)
  /\ values' = Drop(values, FlushList(call.step))
  /\ call' = Idle("run", "eval", <<>>)

RunPanics ==
  /\ ReadyToEval
  /\ ~InputAssertionFails(Current)
  /\ ~CanEval(Current)
  /\ values' = Drop(values, FlushList(call.step))
  /\ call' = Panicked
  /\ UNCHANGED <<plan, states, session, symbols, calls, since>>

(* The outputs are extracted, and all wires reset.  The code unwraps the
   values: OutputsReady says that they are there. *)
RunReturns ==
  /\ call.at = "running"
  /\ call.step > Len(plan.order)
  /\ \A n \in Outputs : Computed(n)
  /\ call' = Idle("run", "ok", [k \in 1..Len(plan.outputs) |-> values[plan.outputs[k]]])
  /\ values' = Nothing
  /\ UNCHANGED <<plan, states, session, symbols, calls, since>>

-----------------------------------------------------------------------------
(* compute_recursively: a depth-first evaluation that trusts the wires it finds. *)

Frame(n, i) == [node |-> n, input |-> i]

CallCompute ==
  /\ Call(values)
  /\ \E n \in Node : call' = Recursing(<<Frame(n, 0)>>)
  /\ UNCHANGED <<values, states, session, symbols>>

Depth == Len(call.stack)
Top == call.stack[Depth]

InLoop == call.at = "recursing" /\ Top.input < Len(plan.inputs[Top.node])

Precursor == plan.inputs[Top.node][Top.input + 1]

(* Mutant of RecurseInto: what is computed is computed again. *)
RecurseAgain ==
  /\ InLoop
  /\ call' = Recursing(Append(call.stack, Frame(Precursor, 0)))
  /\ UNCHANGED <<plan, values, states, session, symbols, calls, since>>

RecurseInto ==
  /\ InLoop
  /\ ~Computed(Precursor)
  /\ call' = Recursing(Append(call.stack, Frame(Precursor, 0)))
  /\ UNCHANGED <<plan, values, states, session, symbols, calls, since>>

(* Taken after the recursive call too, which has computed the precursor. *)
SkipComputed ==
  /\ InLoop
  /\ Computed(Precursor)
  /\ call' = Recursing([call.stack EXCEPT ![Depth] = Frame(@.node, @.input + 1)])
  /\ UNCHANGED <<plan, values, states, session, symbols, calls, since>>

(* The code unwraps the inputs: RecursionReady says that they are there. *)
AfterLoop ==
  /\ call.at = "recursing"
  /\ Top.input = Len(plan.inputs[Top.node])
  /\ HasInputs(Top.node)

EvalTop ==
  /\ AfterLoop
  /\ CanEval(Top.node)
  /\ values' = Store(values, Top.node, ValueOf(Top.node))
  /\ Evaluate(Top.node)
  /\ call' = IF Depth > 1
             THEN Recursing(SubSeq(call.stack, 1, Depth - 1))
             ELSE Idle("compute", "ok", <<values'[Top.node]>>)

EvalTopFails ==
  /\ AfterLoop
  /\ FailEval(Top.node)
  /\ call' = Idle("compute", "eval", <<>>)
  /\ UNCHANGED values

EvalTopPanics ==
  /\ AfterLoop
  /\ ~CanEval(Top.node)
  /\ call' = Panicked
  /\ UNCHANGED <<plan, values, states, session, symbols, calls, since>>

-----------------------------------------------------------------------------
(* The methods that complete in one go. *)

(* set_value and set_values *)
SetValue ==
  /\ Call(Nothing)
  /\ \E n \in Node, t \in Tensor : values' = Store(values, n, t)
  /\ call' = Idle("set_value", "ok", <<>>)
  /\ UNCHANGED <<states, session, symbols>>

(* take removes the value from the wire. *)
Take ==
  /\ Call(Nothing)
  /\ \E n \in Node :
       \/ Computed(n) /\ values' = Drop(values, {n}) /\ call' = Idle("take", "ok", <<values[n]>>)
       \/ ~Computed(n) /\ call' = Idle("take", "missing", <<>>) /\ UNCHANGED values
  /\ UNCHANGED <<states, session, symbols>>

ResetWires ==
  /\ Call(Nothing)
  /\ values' = Nothing
  /\ call' = Idle("reset_wires", "ok", <<>>)
  /\ UNCHANGED <<states, session, symbols>>

(* The states are made again; the session, symbols included, is kept. *)
ResetOpStates ==
  /\ Call(Nothing)
  /\ states' = [n \in Node |-> FreshState]
  /\ call' = Idle("reset_op_states", "ok", <<>>)
  /\ UNCHANGED <<values, session, symbols>>

(* compute_one: prepare_inputs, then compute_one_with_inputs. *)
ComputeOne ==
  /\ Call(Nothing)
  /\ \E n \in Node :
       \/ /\ ~HasInputs(n)
          /\ call' = Idle("compute_one", "precursor", <<>>)
          /\ UNCHANGED <<values, states>>
       \/ /\ HasInputs(n)
          /\ CanEval(n)
          /\ values' = Store(values, n, ValueOf(n))
          /\ states' = [states EXCEPT ![n] = StateAfter(n)]
          /\ call' = Idle("compute_one", "ok", <<>>)
       \/ /\ HasInputs(n)
          /\ n \notin plan.sources
          /\ states' \in {states, [states EXCEPT ![n] = StateAfter(n)]}
          /\ call' = Idle("compute_one", "eval", <<>>)
          /\ UNCHANGED values
       \/ /\ HasInputs(n)
          /\ ~CanEval(n)
          /\ call' = Panicked
          /\ UNCHANGED <<values, states>>
  /\ UNCHANGED <<session, symbols>>

Next ==
  \/ CallWithInputs
  \/ RejectIndex
  \/ RejectUndetermined
  \/ SetInput
  \/ InputsSet
  \/ RunMissingPrecursor
  \/ RunInputAssertionFails
  \/ RunStep
  \/ RunAssertionFails
  \/ RunEvalFails
  \/ RunPanics
  \/ RunReturns
  \/ CallCompute
  \/ RecurseInto
  \/ SkipComputed
  \/ EvalTop
  \/ EvalTopFails
  \/ EvalTopPanics
  \/ SetValue
  \/ Take
  \/ ResetWires
  \/ ResetOpStates
  \/ ComputeOne

Spec == Init /\ [][Next]_vars

-----------------------------------------------------------------------------
(* The reference: what the graph means. *)

(* The value of each node, from the tensors of the session, the states the
   operators had when the evaluation began and the wires it takes for given. *)
Meant(p, tensors, sts, held) ==
  LET value[n \in Node] ==
        IF n \in DOMAIN held THEN held[n]
        ELSE IF n \in p.sources THEN tensors[n]
        ELSE Op(n, sts[n], [j \in 1..Len(p.inputs[n]) |-> value[p.inputs[n][j]]])
  IN value

Meaning == Meant(plan, session, since.states, since.held)

(* What a node makes of what its inputs mean, whatever its own wire holds. *)
Remade(n) ==
  IF n \in plan.sources THEN session[n]
  ELSE Op(n, since.states[n], [j \in 1..Len(plan.inputs[n]) |-> Meaning[plan.inputs[n][j]]])

Succeeded(method) ==
  call.at = "idle" /\ call.method = method /\ call.outcome = "ok"

(* The model inputs have no inputs of their own, like the Source operators
   every translation of a model makes of them. *)
InputsAreLeaves == \A n \in Members(plan.interface) : plan.inputs[n] = <<>>

(* The nodes of the order this run has gone past that no step reads any more
   although one did. *)
LastReadBefore(step) ==
  {n \in Node \ Outputs :
    /\ \E k \in 1..Len(plan.order) : n \in InputsOf(plan.order[k])
    /\ \A k \in step..Len(plan.order) : n \notin InputsOf(plan.order[k])}

-----------------------------------------------------------------------------

TypeOK ==
  /\ plan \in Plans
  /\ DOMAIN values \subseteq Node
  /\ DOMAIN states = Node
  /\ DOMAIN session \subseteq Members(plan.interface)
  /\ DOMAIN symbols \subseteq Symbol
  /\ calls \in 0..MaxCalls
  /\ call.at \in {"idle", "feeding", "running", "recursing", "panicked"}
  /\ call.at = "feeding" => call.next \in 0..Len(plan.interface)
  /\ call.at = "running" => call.step \in 1..(Len(plan.order) + 1)
  /\ call.at = "recursing" => call.stack \in Seq([node : Node, input : Nat]) \ {<<>>}

(* A run never misses a value it needs: whatever the flush lists have dropped,
   each step finds its inputs (it reports "precursor not done" otherwise). *)
PrecursorsReady == AtStep /\ InputsAreLeaves => HasInputs(Current)

(* The extraction of the results, which unwraps, finds the outputs. *)
OutputsReady ==
  call.at = "running" /\ call.step > Len(plan.order) => \A n \in Outputs : Computed(n)

(* The recursive evaluation unwraps its inputs after its loop: they are there
   although deeper calls have gone over the same wires. *)
RecursionReady ==
  call.at = "recursing" =>
    \A j \in 1..Top.input : Computed(plan.inputs[Top.node][j])

(* No evaluation misses a value: nothing reports a precursor or panics. *)
NoValueMissing == PrecursorsReady /\ OutputsReady /\ RecursionReady

(* What a run returns is what the graph means for the tensors of the session
   and the operators' states at its start.  No value left by a failed run, by
   set_value or by compute_* reaches the result. *)
RunMeansTheGraph ==
  Succeeded("run") /\ InputsAreLeaves =>
    call.result = [k \in 1..Len(plan.outputs) |-> Meaning[plan.outputs[k]]]

(* The recursive evaluation makes its target, the last node it evaluates, of the
   wires that were there when it began, and of those only: it uses them even if the
   tensors of the session have changed since, and what is missing means the graph. *)
RecursionMeansTheGraph ==
  Succeeded("compute") => call.result = <<Remade(since.ran[Len(since.ran)])>>

(* Whatever the calls before, a result means the graph. *)
MeansTheGraph == RunMeansTheGraph /\ RecursionMeansTheGraph

(* No call evaluates a node twice: a node with a state is advanced once, when
   several others read it too. *)
EachNodeOnce ==
  \A j, k \in 1..Len(since.ran) : since.ran[j] = since.ran[k] => j = k

(* The inputs whose size gives a symbol a value, and the value. *)
Resolves(n, s) == plan.fact[n].symbol = s /\ plan.fact[n].offset = 0
Says(n) == Size[session[n]] \div plan.fact[n].factor

(* A symbol is worth what a tensor of the session says, an old one maybe. *)
SymbolsAreSaid ==
  \A s \in DOMAIN symbols : \E n \in DOMAIN session : Resolves(n, s) /\ symbols[s] = Says(n)

(* No tensor is kept for an input whose size is not determined. *)
TensorsAreDetermined == \A n \in DOMAIN session : Determined(plan.fact[n], symbols)

(* A run begins with what its last input that resolves a symbol says. *)
LastInputSays ==
  call.at = "feeding" /\ call.method = "run" =>
    \A i \in 1..call.next, s \in Symbol :
      Resolves(plan.interface[i], s)
        /\ (\A j \in (i + 1)..call.next : ~Resolves(plan.interface[j], s)) =>
      /\ plan.interface[i] \in DOMAIN session
      /\ s \in DOMAIN symbols /\ symbols[s] = Says(plan.interface[i])

(* The symbols and the tensors of the session stay together, over runs that give fewer
   inputs, calls that fail and resets: each overwrites what the ones before have
   resolved, and nothing is ever cleared (set_input, SessionState). *)
SymbolsFollowTensors == SymbolsAreSaid /\ TensorsAreDetermined /\ LastInputSays

(* The memory of a run is what it still needs: no wire its earlier steps have
   computed is held when it is neither an output nor going to be read. *)
NothingHeldTooLong ==
  call.at = "running" /\ InputsAreLeaves =>
    LastReadBefore(call.step) \cap Members(since.ran) \cap DOMAIN values = {}

(* The checks of the debug build on the values of a run do not fail: what
   set_input has accepted is of the size the model expects. *)
AssertionsHold == call.at = "idle" => call.outcome # "assertion"

=============================================================================
