# Verification of tract

This directory holds TLA+ models of tract (an inference engine for neural networks, written
in Rust), the TLC configurations that check them on small instances, and proofs checked by
TLAPS. Every definition is translated from the code; `PROJECT.json` gives, definition by
definition, the lines it stands for.

    tlc -config MCEvalOrder_search.cfg MCEvalOrder      # model checking
    tlapm EvalOrder_proofs.tla                          # proofs

## 1. The system

A model goes through tract like this:

    onnx / tensorflow / kaldi / nnef file
      -> InferenceModel (hir): types and shapes are inferred
      -> TypedModel (core): declutter, then codegen: the optimizer's passes
      -> [PulsedModel (pulse): the same computation, chunk by chunk]
      -> SimplePlan (core): an order and what to drop after each step
      -> SimpleState: runs, one after the other, with a state in between

All of it is sequential: no thread is started in `core`, no lock is taken. What makes it
hard is not interleaving but **histories**: facts that wake nodes up and down a graph until
nothing more can be learnt; a graph that is rewritten in place hundreds of times, in an order
given by hash maps, with dead nodes left in it; changes of axes that spread until they meet;
a state that outlives the runs, and the failed runs; streams whose chunks have to add up to
what the operators mean on the whole.

| component | source | state | operations | what makes it correct | modelled |
|---|---|---|---|---|---|
| evaluation order | `core/src/model/order.rs` | an explicit stack, pending and done sets, the order | one function | ends on every graph; an order exactly of what is needed; a loop is reported iff there is one | yes |
| plans and states | `core/src/plan.rs`, `ops/source.rs` | wires' values, operators' states, session inputs, resolved symbols | `run`, `set_input(s)`, `compute_recursively`, `compute_one`, `set_value(s)`, `take`, `reset_*` | results are the meaning of the graph, whatever came before; nothing needed is dropped, nothing is kept too long | yes |
| graph, patches, translation | `core/src/model/{graph,patch,translator,typed,...}.rs` | nodes, edges in both directions, interface | `add_node`, `add_edge`, patch helpers, `apply`, `compact` | edges agree; meaning and signature are kept | partly |
| optimizer loops | `core/src/optim/{mod,op_optim}.rs` | counters, cursor, watchdogs seen | `optimize`, sessions over passes | the result is a fixpoint; the limit holds; it ends | yes |
| push_split_down | `core/src/optim/push_split_down.rs` | none (a pass) | `next` | merges all duplicates, obliterates nothing in use | yes |
| change_axes, prop_const | `core/src/optim/{change_axes,prop_const}.rs` | suggestions left to try | `next` | the graph means the same; the pass does not go round in circles | partly |
| axis operators | `core/src/ops/change_axes.rs` | none | merging, recipes, propagation | each transformation is the permutation it stands for | partly |
| scan | `core/src/ops/scan/` | position, hidden states, inner state | `eval`, declutter rules | the loop is its unrolling | partly |
| other operators | `core/src/ops/` | few have a state | `eval`, `declutter`, `axes_info`, `output_facts` | what a rewriting leaves computes the same | partly |
| tensors, dimensions | `data/` | none | `TDim` arithmetic and simplification, `Tensor` | simplification keeps the value | partly |
| kernels | `linalg/` | scratch space | packing, matrix multiplication tile by tile with what is fused in it | each item of the result, whatever the sizes and the layout | partly |
| inference | `hir/src/infer/`, `hir/src/ops/` | facts of the outlets, a worklist, the rules of a node | `analyse`, unification, rules and `wire` of each operator | what is inferred is true, all that can be is, and it ends; what an operator becomes has the facts that were inferred | partly |
| streaming | `pulse/`, `pulse-opl/` | delay buffers, position in the stream | `pulsify` of each operator, `eval` of Delay, PulsePad, concat | the chunks, delayed, are the result on the whole stream | partly |
| NNEF | `nnef/`, `onnx-opl/` | none | parser, writer, registries | what is written reads back as the same graph | no |
| importers | `onnx/`, `tensorflow/`, `kaldi/` | few | translation of each operator | the meaning given by the format | partly (ONNX) |
| command line, harness, examples | `cli/`, `harness/`, `examples/` | - | clients of the above | - | no |

How they interact: by calls. `SimplePlan::new` calls `eval_order`; `compact` and every
translation do, too; the analyser calls the rules of the operators, and `into_typed` their
`wire`; the optimizer calls the passes, which call the `declutter` of the operators and the
patch helpers, then applies the patches to the graph, then compacts it; an `OpOptim` keeps a
cursor into an evaluation order that its own last patch has changed; a `Scan` owns a plan and
a state of its own; a pulsed model is run as a plan, chunk after chunk.

The hazards, each at the line where it bites, are listed in `PROJECT.json`.

## 2. The modules

| module | what it is | about |
|---|---|---|
| `PostOrder` | the order of a depth-first search as a recursion; what the callers of `eval_order` rely on | `model/order.rs`, `plan.rs` |
| `EvalOrder` | `eval_order_for_nodes`, turn by turn | `model/order.rs` |
| `SimplePlan` | the executor: plan, state, session | `plan.rs`, `ops/source.rs` |
| `ModelPatch` | graph, patch application, `compact` | `model/graph.rs`, `patch.rs`, `translator.rs`, the patches of `optim/change_axes.rs` |
| `PushSplitDown` | one pass, on top of `ModelPatch` | `optim/push_split_down.rs`, the inner loop of `optim/mod.rs` |
| `Optimizer` | the nested loops, the passes abstract | `optim/mod.rs`, `op_optim.rs` |
| `AxisOp` | the algebra of the axis operators | `ops/change_axes.rs` |
| `TypedOps` | tensors and what the operators of a typed model compute | `ops/` |
| `Declutters` | the `declutter` and `change_axes` of each operator, PropConst, PushSplitDown | `ops/`, `optim/` |
| `ChangeAxes` | the propagation of a change of axes, step by step | `ops/change_axes.rs`, `optim/change_axes.rs` |
| `Declutter` | `TypedModel::declutter`: all the passes over a model | `optim/` |
| `Scan` | the rules of the declutter of a Scan, then `LirScan` call by call | `ops/scan/{mir,lir}.rs` |
| `PulseOps` | buffers, paddings, overlaps of the pulsed operators | `pulse/src/ops/`, `pulse-opl/src/` |
| `BatchStream` | what a streaming computation promises | (abstract) |
| `Pulse` | pulsification, then the stream fed chunk by chunk | `pulse/`, `pulse-opl/` |
| `Factoid` | partial facts, unification, paths and rules | `hir/src/infer/{fact,factoid}.rs`, `infer/rules/` |
| `TypedFacts` | `output_facts` of the operators of a typed model | `core/src/ops/` |
| `ArrayRules`, `NnRules` | the rules and the `wire` of the inference operators | `hir/src/ops/` |
| `OnnxRules` | the rules and the `wire` of the operators that only ONNX has | `onnx/src/ops/` |
| `RecRules` | the recurrent layers: their rules and the Scan they become, one per direction | `onnx/src/ops/rec/` |
| `OnnxNodes` | the nodes of an ONNX graph, read as operators; the graph as a model | `onnx/src/{model,pb_helpers}.rs`, `onnx/src/ops/` |
| `InferenceOps` | the operators, by name | |
| `Analyser` | the worklist and the solver, for any operators (`RulesOf`, `WireOf`) | `hir/src/infer/analyser.rs`, `infer/rules/solver.rs` |
| `Dims` | dimensions with symbols: terms, simplification, arithmetic | `data/src/dim/` |
| `Patches` | data formats, padding, patches and their zones, pools' shapes | `core/src/ops/cnn/`, `core/src/ops/nn/data_formats.rs` |
| `Kernels` | packing, stores, tiles, scratch space, the generic kernels | `linalg/src/frame/`, `linalg/src/generic/mmm.rs` |
| `ConvOps` | what the operators a convolution becomes compute | `core/src/ops/cnn/`, `core/src/ops/matmul/` |
| `Convolution` | declutter, codegen and fusion of convolutions, deconvolutions and pools, then their runs | `core/src/ops/cnn/`, `core/src/ops/matmul/`, `core/src/ops/binary.rs` |
| `MC*` | the small instances | |
| `EvalOrder_proofs`, `SimplePlan_proofs`, `Optimizer_proofs`, `AxisOp_proofs`, `ModelPatch_proofs`, `PushSplitDown_proofs`, `Analyser_proofs` | theorems of the module they extend | |
| `Pulse_proofs` | what each pulsed operator promises, for every size, then a pulsed model, for every model | |

The modules meet in stated interfaces. `SimplePlan` assumes of its orders (`WellOrdered`)
that they are `RunsInOrder`, an operator of `PostOrder`, and `OrderFitsPlans` proves of
`EvalOrder` that whatever its search returns is. `ModelPatch` takes the order from the recursion of
`PostOrder`, and `OrderIsRecursive` proves that the search returns that one.
`PushSplitDown` extends `ModelPatch`: its patches
are applied by the actions of that module. `Optimizer` assumes that compacting a compacted
graph changes nothing, which is `CompactIsNormal` of `ModelPatch` and proved of all graphs
(`CompactIsFinal`); that each patch of a pass brings
it closer to its end is `EachPatchMerges` of `PushSplitDown`, and that the passes of declutter
end is `Settles` of `Declutter`. `Declutter` composes the operators, the passes and the propagation of axes on one
model. `TypedFacts` instantiates `AxisOp`, so that inference and declutter share the shapes
that an operator on axes makes. `Pulse` implements `BatchStream`. `Convolution` stands on the tower of `ConvOps`, `Kernels`,
`Patches` and `Dims`, and on the shapes of `AxisOp`.

### EvalOrder

The variables are the locals of the function: `stack` is `current_stack`, with the index of
the next dependency of each frame; `pending` and `done` are the two bit sets; `order` the
result. One action is one turn of the `while`, or of the `for` over the targets. A target
already done is skipped (`SkipTarget`), another starts a search with an empty `pending`
(`StartTarget`): the target itself is never marked pending, so it can be pushed a second
time below itself when it is part of a loop, and the loop is only met one turn later. `Emit`
is the pop of a ready node, `Advance` the turn of the inner loop over a dependency that is
done, `DetectLoop` and `Descend` its other two outcomes. Additional dependencies are given
as a list per node, after its inputs, since the code filters the pairs.

What an order has to be is stated without the search: `Needed` is the least set of nodes
closed under dependency (an intersection over all closed sets) and `Cyclic` says that a set
of needed nodes has no node that could come first. Which of the possible orders it is matters to
the passes, which meet the nodes in it: `DepthFirst` says that the order is that of the plain
recursion, `PostOrder`, on every part of the graph that is closed under dependency and has no
loop (`Grounds`).

### SimplePlan

A plan is constant: wiring, `Source` nodes, stateful nodes, interface, facts, outputs,
order. The flush lists are computed from it (`FlushList`), with the code's encoding of
"never read" as "last read at step 0": a wire last read at the first step is not flushed.

The state is `values` (the wires that have a value), `states`, `session`, `symbols`. The
machine has the calls as its large steps and what happens inside as its small ones: `call`
says which call executes and where it is. A call ends in an outcome, or the thread panics
(the code unwraps a missing tensor of a source). Errors leave everything half done, and the
next call starts from that; an operator can fail before or after its state advanced. The
methods:

- `CallWithInputs` begins `set_input`, `set_inputs` and `run`; `SetInput`, `RejectIndex`,
  `RejectUndetermined` take one tensor each, resolving symbols on the way by the code's
  truncating division; `InputsSet` ends it, or begins the evaluation.
- `RunStep` is one turn of the loop of `run`; the actions next to it are its exits: a
  precursor is missing, a debug assertion on an input or an output fails, the operator
  fails, a source has no tensor. `RunReturns` takes the results and resets the wires.
- `CallCompute`, `RecurseInto`, `SkipComputed`, `EvalTop` and its failures are
  `compute_recursively`, with the call stack as a variable.
- `ComputeOne`, `SetValue`, `Take`, `ResetWires`, `ResetOpStates` are atomic.

Operators are constants `Op` and `Advance` of the node, its state and its inputs; the
instances take terms, so that two values are equal only if they were computed in the same
way. `since` is a history variable: the operator states and the wires when the evaluation
began, and what has run since. `Meaning` is the reference: the value of a node as a function
of the session, of these states and of the wires that are taken for given: none by a run, those
that are there by a recursive evaluation, which computes what is missing and trusts the rest,
even when the session has changed since. `SymbolsFollowTensors` relates what `set_input` keeps
of several calls: each symbol is worth what some tensor of the session says (the division
truncates), a run begins with what the last of its inputs says, and no tensor is kept whose
size is not determined.

Abstracted: the slots of a node (its value stands for all its outlets; the code drops all
the outlets of a node at once), shapes (one dimension), the facts of the nodes that are no
sources.

### ModelPatch

A graph holds `op`, `inputs`, `succ` per node, and the `interface` and `outputs`; `succ` is
maintained by hand, as in the code, by `AddEdge`. The application of a patch is a small
machine: `StartPatch` adds the nodes, `ShuntOne` moves the consumers of one shunted outlet,
taken from the hash map in any order, `RefuseOutputs`/`AcceptOutputs` is the check of the
outputs (after the shunts, so a refused patch leaves the graph half rewritten), `WireOne`
connects one of the new nodes, in any order, `FinishPatch` obliterates and renames the
inputs. `CompactModel` translates the graph to itself. The patches are those the helpers
make (`replace_single_op`, `fuse_with_next`, `shunt_one_op`, `intercept`) and the one
`change_axes` ends with. An operator is a sequence of elementary ones, so that fusion and
identity mean something, and `Meaning` gives the outputs as terms. What a patch may be is
the guards of the helpers: `Fits` is what `tap_model`, `shunt_outside` and `obliterate` can
be given, `Ordered` that `eval_order` found no loop. `ModelsAssumption` is what `add_node`,
`add_edge` and the setters of the interface make, of the models of which `eval_order` finds
no loop (`Acyclic`).

Abstracted: nodes have one outlet; facts, names and control edges are left out.

### PushSplitDown

`NextPatch` is the patch the pass makes of a graph: for each outlet of the evaluation order,
for each pair of its readers, the second is shunted by the first if it is the same, unless
it is obliterated already. The patches are applied until there is none, on a graph that is
not compacted in between: dead nodes are still readers. The runs compact it in between as
well, which the pass leaves to its caller.

### Optimizer

The graphs are values, and a request says what each pass offers on each graph, position by
position. `ApplyPatch` and `SkipSeen` are the two ways through the innermost loop (a patch
with a watchdog seen before is stepped over), `RepeatPass`, `NextPass`, `Repeat` and
`Return` are what the loops around do when it returns, each after a `compact()`. `Resume` is
the cursor of an `OpOptim`. The counter is compared with its value at the entry of each loop
to see whether something was done, as in the code.

### AxisOp, TypedOps, Declutters, ChangeAxes, Declutter

`AxisOp` has the four operators (`Add`, `Rm`, `Move`, `Reshape`): what each does to a shape,
to one index, and to an axis that is tracked through it, its inverse (`Recip`), its canonical
form, and `merge_incoming_change`, the heart of the pass: an operator and a change of its
input, turned into the change of its output and the operator that is left.

`TypedOps` has tensors whose items are symbolic (a term of the items of the inputs) and what
an operator computes (`Output`): axis operators, slices, concatenations, downsamplings,
element-wise operators, operators of two tensors and of a tensor and a constant, reductions,
matrix products. `Declutters` translates the `declutter` of each (slices of concatenations,
of products, of element-wise operators; downsamplings pulled up; products of a concatenation;
constants folded into operators) and the answer of each to a change of axes, then PropConst
and PushSplitDown. `ChangeAxes` is `change_axes` with its stack of changes: `Suggest` takes a
suggestion, `PopChange` a change of a wire, `EnterNode` asks the node at one end of it,
`Blocked` gives up, `Propagated` makes the patch. A patched model is wired node by node
(`WireNode`), since the facts of what replaces a node are only known then, and refused when
they differ (`Patched`). `Declutter` runs the four passes in their loops.

Abstracted: nodes have one output; the model is compacted after every patch, where the code
compacts after each pass and the passes see dead readers until then; sources that are not
read are dropped; the mini-operators' own rewritings (a multiplication by one), uniform
facts, the downsampling of convolutions and scans, quantized products are left out.

### Scan

The body of the loop is a term per output over its inputs, whose operators work frame by
frame. First the rules of `declutter` rewrite the mappings (`Declutter` actions, one rule at
a time, in the order of the code, stopping anywhere), then `LirScan` is called, once in a
batch or over and over on a stream: states live across the calls, the first iterations are
skipped when the input is late, chunks go forwards or backwards, the last one may be
incomplete, an iteration may fail and leave the call half done. What the outputs must be is
the unrolled loop, from the frames fed since the last failure.

Left out: `declutter_body`, the changes of axes of the body, `concretize_dims`.

### PulseOps, BatchStream, Pulse

`Pulsified` translates a source model node by node, in its evaluation order, by the
pulsifiers of the operators: each wires the pulsed operator, after the `Delay` it needs, and
each wire gets a fact, its pulse, its dimension and how late it is. Then the model runs as a
plan, chunk after chunk, as the harness of the repository does: the length of the stream is
known with the first incomplete chunk, which is completed with garbage, and garbage is fed
until all of the result has come out. A frame is a term, so that garbage, uninitialized
memory and torn rows are seen wherever they go. The buffer of a `Delay` is modelled cell by
cell, since it is rotated in place as one flat array.

`BatchStream` says what is promised: the frames that come out are those of the batch
computation, in order. `Pulsable` names the source models for which the properties are
claimed; the instance of `pulse_streams` is filtered by it, and the proofs have it as their
hypothesis (section 4). `Pulse` implements it by `whole <- the batch meaning of the last node`
and `out <- what came out so far, without the first frames its delay says to drop`.

Abstracted: one streaming axis; lengths are numbers with a flag for "the length of the stream
is in it". Left out: the concatenation of several streams, axis operators, matrix products.

### Factoid, TypedFacts, ArrayRules, NnRules, OnnxRules, RecRules, OnnxNodes, InferenceOps, Analyser

`Factoid` is the lattice of partial facts, the paths to their parts, the expressions on them
and the three kinds of rules. The rules of an operator are `XRules(op, at, v)`, the rules that
the code gives the solver: `at` is `"start"` for the body of `rules` and the name of a closure
for what the closure adds when its items `v` are known. `XWire(op, ts)` is what `wire` makes
of it in a typed model, composed of the `output_facts` of the operators it wires
(`TypedFacts`). Sixty-eight kinds of operators are written so.

`Analyser` is the worklist and the solver. `Visit` takes the first node of the list and
collects its rules; `SkipRule`, `UnifyItems`, `SetItem` and `CallClosure` are the turns of the
solver's loop, item by item; `NextPass` repeats it as long as something has changed;
`Finish` evaluates an operator whose inputs are constants, unifies the facts with those of the
model and wakes the nodes around; `Fail` stops the analysis, or goes on in the obstinate mode.
`Again` is the analysis that `incorporate` makes after `into_typed`'s.

The operators are parameters of `Analyser`: `RulesOf` gives the rules and the closures of one,
`WireOf` what it becomes, and `MCAnalyser` puts those of `InferenceOps` there. What `Analyser`
needs of them is stated with it (`Honest`): the tensors that the graph really carries satisfy
the rules of each node, and so do the rules that a closure adds, whatever true values it is
called with.

`OnnxNodes` reads a graph of ONNX as `parse_graph` does: `OnnxOp` is the operator of a node, by its
type, its version, its attributes and which of its inputs have a name; `ParseGraph` gives the
nodes of the model. `OnnxRules` has the operators that only that importer knows.

Abstracted: dimensions are numbers (no symbols); a tensor carries its items only where rules
read them; `incorporate`'s rewriting passes between the two analyses, outlets observed by the
caller, quantized types are left out.

### Dims, Patches, Kernels, ConvOps, Convolution

`Dims` is the arithmetic of dimensions: a `TDim` is a term of symbols, sums, products and
divisions; `Simplify` is its simplification, by forms and costs as in `tree.rs`, and `Eval`
its value. `Patches` computes what a convolution reads: the padding of an axis (`PaddedDim`,
`CroppedDim` for a deconvolution), the offsets of a patch, its zones (where the same part of the kernel is inside the input), and
the shapes of the outputs, symbolic or concrete. `Kernels` is the matrix product: `A` and `B` are
packed in panels, memory being a sequence of items that begin as garbage; the result is computed a
tile at a time; the tiles that cross the border go through the scratch space; the operations
fused in the product are done on the tile. `ConvOps` has the operators that codegen makes (im2col,
the lowered products, depthwise, direct, sums of a deconvolution, pools).

`Convolution` takes a model as it is, decluttered, or optimized: `Rewrite` applies the patch of
the first node that a pass changes, `EndPass` goes on to the next one; then `StartTurn`, `EvalNode`
and `EndTurn` run the plan on some inputs, twice with the same scratch space.
`ConvolutionComputed` says that what comes out is the
definition of a convolution, a pooling or a deconvolution, item by item, whichever of the five
lowerings was taken and whatever was fused.

Abstracted: a compensation or a requantization is one operator; `QMatMul` as a node (quantized
kernels of one item on a line), the fusing of casts and scales, `AddRowColProducts`, the
downsampling pulled over other operators, products of slices and concatenations are left out.

## 3. What is checked

| run | asks | instance | distinct states |
|---|---|---|---|
| `eval_order` | is the result the order of what is needed, and the one of the recursion, or a loop reported iff there is one; does the search end | all wirings of 3 nodes, up to 2 inputs each; up to 2 targets (repeated ones too); one additional dependency; a model input with inputs of its own or none | 3.0 M |
| `plan_runs` | is what a state returns what the graph means; is all there that is unwrapped; is memory released; do symbols and tensors stay together over calls | 4 nodes, 109 plans (diamonds, a wire read twice, an output read by others, an unread input, an input that is computed; 3 combinations of facts); tensors of sizes 1 and 2, up to 2 of them per call; 3 calls | 1.4 M |
| `plan_assertions` | finding, below | 1 call | - |
| `model_patch_rewrites` | do edges, meaning and signature survive patches, a refused one too; does PushSplitDown merge all and only what it may | all graphs of 4 nodes, one or two inputs, one or two outputs, 2 patches, compaction anywhere; for the pass, trees of 5 nodes with two unary operators, under a binary node or with several outputs | 2.1 M |
| `optimizer_loops` | fixpoint, limit, end | 3 graphs, an `OpOptim` and a whole-graph pass in either order; all offers that simplify, or that have a watchdog; under a limit, passes that undo each other | 204 k |
| `declutter_models` | does a model compute the same after all the passes; does each wire change as recorded; does every patch fit; does it end | chains of three operators with operators on axes, slices, downsamplings, reductions, products; fans, trees and one-sided diamonds of operators on axes; cuts of joins, of products, of twins, of constants; products of two tensors with all transpositions | 248 k |
| `declutter_diamonds` | finding, below | two-sided diamonds | - |
| `scan_loops` | do rewritten loops, called in a batch or on a stream, give the unrolled loop | four shapes of body (a cell, two states, a parameter and two sequences, a delay) with every set of outputs that are read, constant or given states, chunks of 1 or 2, forwards and backwards, 1 to 4 frames, one failing iteration | 19 k |
| `pulse_streams` | does every wire carry the frames its fact says; is the stream the batch result; does it come whole | chains of one to three of 17 operators, two branches that meet; pulses of 1 to 4, streams of 0 to 6 frames, two rows | 178 k |
| `pulse_cropped` | finding, below | a cut end that is padded | - |
| `analyser_facts` | is nothing untrue inferred; is nothing forgotten or missed; does it end; is what operators become what was inferred | five graphs of 3 or 4 nodes (ids that do not follow the edges, an edge read twice, sums of dimensions) with every fact told of every node; each operator alone on tensors it takes, and 75 nodes of ONNX read as graphs, from their inputs, from their outputs, from half of each; 7 graphs with untrue facts, in both modes | 179 k |
| `convolutions` | does a convolution compute what it should, as it is, decluttered or optimized, alone or with what follows fused in it | 8 families (convolutions, symbolic lengths, chains of operators that are fused, sums of two convolutions, pools, deconvolutions, quantized kernels and inputs), 8 geometries on a line and 8 on an image (strides, dilations, paddings, groups), 4 data formats, 2 kernel formats; tiles of 2 by 2; 2 turns | 49 k |

Why these bounds. A loop in a graph needs one node, a loop that misses the target two, and a
shared dependency with a loop beside it three. A state reaches a result through at most one
call that leaves garbage (values, symbols, advanced states), one that changes the session,
and the one whose result is looked at: three calls. Two patches are enough for the second
one to be made of a graph with dead nodes, with or without compaction before it. The unary
trees have cascades: two nodes become the same when their inputs were merged, twice over.
The optimizer's loops need a patch that gives an earlier pass something to do again, and a
position behind the cursor that gets something: three graphs do. A change of axes meets
another one when it goes through two nodes, from one side or from both, so that the graphs of
`declutter_models` have an operator on axes at each end; every pair of rules of `AxisOp` is
met, on ranks 1 to 3. A stream shorter than a pulse, as long, and longer than the delays of
three operators is met with 0 to 6 frames and pulses of 1 to 4; a buffer longer than a pulse,
and one that is not, too. Tiles of 2 by 2 have full tiles, tiles that cross one border and both
with products of 1 to 3 rows and columns. A kernel and an input whose
product is above `Huge` (1048576 in the code, unary.rs:1018) go through the direct product
instead of im2col: it is 40 here, so that some geometries are above it and others are not; a geometry has up to three zones on an axis. The states
of a loop go from one call to the next with two calls of
every size, backwards chunks with one.

Deadlock is not checked where a machine stops: a function returns, a stream ends, a panicked
state cannot be used, and calls are bounded (`MaxCalls`, `MaxPatches`, `MaxFails`).

**Refinement.** `ImplementsBatch` is `BatchStream!Spec` under the mapping of `Pulse`:
whatever comes out at a step is a longer prefix of the batch result; `DeliversAll` is its
liveness.

**Fairness.** `FairSpec` is, each time, weak fairness of the steps of one thread that runs a
loop without waiting for anything: `EvalOrder` (the search), `Optimizer` and `Declutter` (the
passes; `Optimizer!Fail`, an error returned by a pass, is not forced to happen), `Analyser`
(the worklist and the solver), `Scan` (the rules, then the iterations of a call), `Pulse` (the
run of a chunk; the caller feeds the stream until its result is there, as the harness does).
`Terminates` of `Optimizer` holds for the requests of the instance, whose patches without a
watchdog simplify the graph; the code does not make its passes do so, and the limit on steps
is there for the ones that do not. `Settles` of `Declutter` shows for the actual passes that
they come to an end on the models of the instance.

**Findings.**

- `plan.rs:307`: `set_input` computes whether the tensor matches the fact of the input, and
  propagates only the error; the boolean is dropped. A tensor of a wrong shape is accepted;
  in a debug build an assertion of the run then fails (`plan_assertions`), in a release
  build the operators compute with it.
- `pulse-opl/src/pad.rs:65`: the end of a stream is known late. A stream of which the end is
  cut, then padded, is padded too late, over frames that have gone out (`pulse_cropped`).
- `ops/change_axes.rs:627`: a node that a change reaches twice is asked both times with its
  operator as it was, and the second answer replaces the first. With s, M = Move(s),
  e = Move(M), P = Move(e) and a binary operator of P and e, all three become the identity
  (`declutter_diamonds`).

**Observed**, and kept out of the instances of the passing runs:

- plans: symbols are kept by `reset_op_states` and overwritten by each input; a session's
  tensors are never cleared, so a run with fewer inputs reads those of the last one
  (`Meaning` takes the session as it is);
- `push_split_down.rs:17`: a pair is skipped if its second node was obliterated by the same
  patch, the first one is not looked at. Two equal nodes that read two outlets, listed in
  opposite orders among their readers, obliterate each other; few operators of two inputs
  have a `same_as` that can be true, so the trees are unary;
- declutter: `UnaryOp::slice_output` slices an input along an axis that is broadcast by the
  constant (binary.rs:409); a downsampling with a broadcast input and a modulo is pulled up
  wrongly; `pull_downsample_over_axis_op` bails on an axis made by the operator
  (`Declutters!Breaks`); `declutter_precusor_is_concat` takes the row axis for a leading one
  when there is one row (mir_unary.rs:281); the `Add` rule of `MatMulUnary::change_axes` needs
  one row; an empty slice of rows panics;
- scan: a body input that nothing reads may itself be an output (mir.rs:219); an output with
  both a full and a last value that is not a state is pulled for ever; dropping the input of
  a state leaves an output marked as one; dropping the only scanned input panics; chunks of
  more than one frame, backwards, are written at a wrong offset;
- pulse: the concatenation along the stream underflows on late inputs, a downsampling has to
  be early and without modulo, a Scan with inputs of different delays skips what the first
  one says;
- inference: `GatherNd` uses the rank of the indices where the input's is meant;
  `ConstantLike` gives an F32 whatever its rule says; `StridedSlice` looks at the wrong axis
  when the axes are an input; the channels and the bias of a grouped HWIO convolution are
  inferred otherwise than they are wired; a `Downsample` with a negative stride casts it to
  an unsigned number; `MultiBroadcastTo` and `Reduce` unwrap errors; a matrix product of
  integers is inferred to be of their type and wired as I32; the 0 of a `Reshape` copies the
  next dimension, not the one at its place.
- inference, again: the rules of `InstanceNorm` equate the shapes of its input and output
  before the size of the channels is known from the scale; the rule is used by then, so the
  output learns its channels in the next analysis only, against "Apply the rules until
  reaching a fixed point" (solver.rs:349; `Shortsighted` names the operator); a product of a
  vector and a matrix is inferred without the axis lent to the vector and wired with it
  ("Output mismatch after rewiring expansion"); `Pow` equates the shape of its output with
  that of its first input, though the second may be wider; the zero that `RemInt` compares
  with has the type and the rank of its first input;
- convolutions: `declutter_stride_slice_to_downsample` drops the zero points of a quantized
  convolution (unary.rs:486); a downsampling pulled into a convolution ignores the modulo, and is
  wrong under `Same` padding or a ceiled shape; `declutter_as_matmul` and the codegen of a kernel
  of one item ignore an explicit padding; a patch underflows when a padding is wider than the
  field, and a ceiled shape without padding takes the unchecked path out of bounds;
  `ConvUnary::change_axes` looks for the spatial axes of the kernel without the offset of its format
  and keeps an explicit padding; `AddUnicast` fused in a product with a batch adds the values
  of the first image to all; a batched constant with a product is read out of bounds;
  the same padding of a deconvolution with adjustments gives a shorter output; a pool whose
  window sees nothing divides by zero; with symbolic batch and known images im2col panics, and
  so does the sum of a deconvolution with any symbol;
- dimensions: a division by a number rounds `(5 - s) / 2` after simplification otherwise than
  before it, since numerators may be negative; `slope` folds sums from (1, 1);
- ONNX: a pool does not look at `dilations`; a second output, a third input count even when
  their name is empty; `Resize` interpolates linearly only; `Gemm` needs its third input; a
  Dropout with a mask tells one output fact; a bidirectional RNN can not be wired, for its
  weights are not cut by direction (rnn.rs:209), nor a bidirectional GRU with a first state
  (gru.rs:245); the LSTM states no type for its first output; directions, activations and
  `linear_before_reset` are not in the model.

## 4. What is proved

Every theorem holds for all values of the constants, under the assumptions named in the
modules, which TLC evaluates on every instance, and under the hypotheses that some theorems
name, of which the paragraphs below say why the code needs them: `Pulsable` for streams,
by which TLC filters the instance; `Honest` for the analysis, which TLC evaluates on it;
`Equivalent` for patches, which is proved of those that the helpers make.

**EvalOrder** (`ProblemsAssumption`: the arguments are well typed; `Node` may be infinite).
The invariant is not what is checked, but what makes it inductive:

- `FramesOK`: each frame of the stack is of a needed node that is not ordered yet, has gone
  past a prefix of its dependencies, all of it done, and waits for the node of the frame
  above;
- `PendingOnStack`: the pending nodes are on the stack, so that meeting one is a path from
  it to itself;
- `DoneOK`: done is the set of the ordered nodes, all needed, and it is closed under
  dependency;
- `Grounded`: every non-empty set of ordered nodes has one that waits for none of the
  others;
- `TargetsOK`: the targets gone past are done, or the one at the bottom of the stack.

Then: `OrderHasNoDuplicates`, `OrderIsTopological`, `OrderIsExact` (`Closed(done)` gives
that nothing is missing, `done \subseteq Needed` that nothing is there without need), together
`OrderIsRight`, which states `ExactOrder`; `LoopsAreReported`, which states `LoopVerdict` (the
frames from the pending node upwards are a set in which each waits for another one; on success
`Grounded`, applied to the needed nodes, says that they have no such set).

`ExactOrder` also says which order it is (`DepthFirst`). For this there is a second invariant,
`DInv`: whatever function `v` visits a part of the graph as the recursion does (`Visitor`), the
search follows it (`Follows`). A frame is a visit that has begun. `Started` gives each frame the
order that its visit began with: a frame is where the frame below was after the dependencies
that it has gone past (`Upto`, the fold of the first dependencies), and the order now is where
the top frame is. Descending into a dependency that is done would change nothing, since
visiting a node of the order returns it (`VisitorFacts`): this is why the code may skip it,
and may take up a frame where it left it. That such a function exists is not given: on
a part of the graph with a loop there is none. It is shown for a part that has none
(`Grounds`), by a minimal counterexample. `SearchIsDepthFirst` is the theorem;
`OrderIsRecursive` takes the nodes needed for the part, of which `Grounded` shows that they
have no loop when the search succeeds, so that no condition is left. `OrderFitsPlans` is what
the plans assume.

**SimplePlan** (`PlansAssumption`: plans are typed and `WellOrdered`). `IInv` adds to the
types: `StartsFresh` (nothing has run while the inputs are set), `RunPrefix` (a run has
evaluated exactly the steps it has gone past), `GonePast` (what a step gone past computed is
there unless no later step reads it and it is not an output), `NothingHeldTooLong` itself,
and `StackReady` (each frame of the recursion has computed what it has gone past). Then:
`RunFindsPrecursors`, `RunFindsOutputs`, `RecursionFindsInputs`, together
`EvaluationFindsValues`, which states `NoValueMissing`, and `RunHoldsNothingTooLong`. The first
is the reason that flushing is safe: `WellOrdered` puts an input at an earlier step,
`GonePast` says its value is still there.

What the values are comes on top of it, with one more assumption, `GraphAssumption`: no set of
nodes waits for itself, since `wire_node` wires only outlets that exist. Without it the
meaning of a graph would not be defined: `MeantExists` shows by well-founded induction that
the recursive function `Meant` exists, `MeantUnfolds` that it satisfies its equation. `MInv`
adds to `IInv`: `StatesSince` (an operator that has not run since the call has the state it had
then), `RunValues` (a value that a run has computed is what the graph means), `RunTakesNothing`
(it takes no wire for given), `RecursionValues` (the wires of a recursion are those it has begun with
and those it has evaluated, each what the graph makes of the first), `StackFresh` (no node of the recursion, but maybe its target, has a value, and each
frame waits for the next one, so that none is computed twice). Then: `EvaluationMeansTheGraph`,
which states `MeansTheGraph`, and `NodesRunOnce`, which states `EachNodeOnce`, for every plan,
every operator, every session, and whatever calls came before, the failed ones included.
`SInv` is enough for the session: `SessionStaysTogether` states `SymbolsFollowTensors`.

**ModelPatch** (`ModelsAssumption`: the models are graphs with reciprocal edges, as `add_node`
and `add_edge` make them, in which `eval_order` finds no loop). `AddEdgeConnects` is the core: adding an edge at an inlet, new or
not, keeps `Reciprocal`, whatever the inlet read before. From it, by induction over the edges,
`AddEdges` does; then wiring a node, applying a patch in any of its orders, and translating a
model do (`TranslatedIsMade`: the k-th node of a translation is the k-th of the order, reading
what that one read). `IInv` is that, with where the nodes of the patch are (`PatchIsIn`) while
one is being applied. Then: `EdgesStayReciprocal`, which states `EdgesReciprocal` (`check_edges`
never fails), and `SignatureStays`, which states `SignatureKept` at every step, a refusal in the
middle of a patch included. `compact` needs of the order
what `EvalOrder` promises, and states it as its guard (`Ordered`: `eval_order` returns an error
otherwise); `EvalOrder_proofs` is where it is proved of the search, and where the recursion
that stands for `eval_order` here is shown to be what it returns (`OrderIsRecursive`).

What the model means comes on top of it. `Terms` is a recursive function, so that it says
something only of a graph without a loop: `AcyclicIsLevelled` gives the nodes levels,
`TermsExist` and `TermsUnfold` then give the function and its equation. `TranslatedMeans`: a
translation on an order that respects the inputs means the same; `compact` is one. A patch
takes more, because half way through it the graph means something else: the new nodes read
nothing yet, consumers have moved and others have not, and the model still has its old
inputs. `TInv` therefore tells each node, when a patch starts, the term that it will have in
the end, with two levels (`own`, below which it reads, and `seen`, at which it is replaced)
and the set of nodes that are kept (`Grafting`). A kept node that is wired agrees with its term
(`Told`), a new one that is not will (`Unwired`), what replaces a node has its term and
stands no higher (`Replaceable`), the outputs have the terms that they had (`Shows`). One lemma
per action shows that it stays so, in any order of the shunts and of the wiring
(`StartPatchGrafts`, `ShuntOneGrafts`, `AcceptOutputsGrafts`, `WireOneGrafts`, `FinishPatchMeans`);
together they are `TermsInvariance`.

`PatchesPreserveMeaning` states `MeaningPreserved` under the hypothesis that every patch is
`Equivalent` to what it replaces: `LevelsFit` (no loop is made), `TermsFit` (each shunted node
has the term of what replaces it), `NodesFit` (nothing that is kept reads what is obliterated,
or an input that is taken away). These are the three things that a pass can get wrong.
It says of a refusal, too, that two outputs meant the same before the patch: the order of the
shunts never makes one (`RefusedMeanSame`).
`HelpersPreserveMeaning` gets rid of it for the helpers: `ReplaceSingleOpFits`,
`FuseWithNextFits`, `ShuntOneOpFits`, `InterceptFits` and `MergesFit` show that the patch of each
is equivalent as soon as its operator computes what it must (`SameOp`, `FusedOp`, `Identity`).
Of `fuse_with_next` one needs `SingleSuccReads`: the only reader reads nothing else. Of merged
nodes one needs that none is replaced by a node that is obliterated too.

The patches of the axes pass (`ChangeNodes`) are made by what `change_axes` tells, which
`ModelPatch` does not have: that the model keeps its meaning with them is what the run
`model_patch_rewrites` checks.

**PushSplitDown**, under two hypotheses: `PassOnly`, the patches applied are those of this pass,
as in `run_one_pass_inner`; `PassModels`, the models have no Dummy at first, and the operators
whose `same_as` may be true read one tensor. The second one is needed: two equal nodes of two
inputs can obliterate each other (section 3, *Observed*). The argument has three parts.

- *The order.* `eval_order` is a depth-first search by folds. `EvalOrderVisits`: on a graph
  without a loop the recursive function exists (`VisitExists`, by induction over levels), and a
  visit adds what its targets need and the order has not, once each, after what it reads
  (`Visits`, `Sorted`). Hence `LiveIs`: the order has exactly what the outputs need.
- *The pairs.* `MetMeets`: the pass meets the pairs of readers of one outlet in the order of the
  list, outlet after outlet. `MergedIntoKept`: the node that replaces another is not replaced
  itself, though the pass looks at the second node of a pair only. A node that reads one tensor
  is among the readers of one outlet, and had an earlier reader replaced the first node of the
  pair, it would have replaced the second one before, since being the same is transitive. So
  `NextPatchMerges`, and with `MergesFit` the patch is `Equivalent`.
- *The loop.* The graph is not compacted between two patches: dead nodes and Dummies stay among
  the readers, are met, and may even replace others. `PInv` says that all the outputs need are
  operators (`Sound`), and while a patch is applied, that what will be kept and what is
  obliterated are operators (`Merges1`). `PassKeeps` chooses what is kept: what the outputs needed
  and the nodes that replace, without those that are replaced. A dead node that replaces one
  reads what a node in use read, which is what makes it right.

The theorems: `PassPreservesMeaning` states `MeaningPreserved`, `NoDummyIsLive` states `NoLiveDummy`,
`AllIsMerged` states `AllMerged`, and `PatchesMerge` states `EachPatchMerges`, which bounds the
loop by the nodes of the model.

**compact()** (last part of `PushSplitDown_proofs`). A graph that was made again is searched as the
old one was: `FoldRenamed`, `VisitedRenamed` and `VisitRenamed` carry each visit from the new numbers
to the old ones, by induction over folds and levels, and `EvalOrderRenamed` says that the old
order is the new one with the old numbers (`Renamed`). The nodes were made in the old order, hence
the new one is 1, 2, 3...; the inputs that nothing reads come after (`UnreadIs`), and making the
nodes again in the order they are in makes the same (`TranslatedAgain`). `TranslationIsOrdered`
shows on the way that the guard of `CompactModel` always holds. `CompactIsFinal` states
`CompactIsNormal`, of models whose patches are `Equivalent` (what is used is that they make no loop)
and whose inputs are different nodes (`InputsDiffer`): `add_source` makes a node for each, and
`InputsStayDifferent` shows that no patch makes two of them one.

**Optimizer** (`RequestsAssumption`: requests are typed; compaction is idempotent). The
invariant `Loops` relates the counter to what is known of the passes: while the counter has
not moved since the inner loop was entered, the graph is compacted and a position behind the
cursor has nothing to apply; while it has not moved since the round began, every pass gone
past is exhausted on this very graph. Then: `ResultIsFixpoint`, `LimitIsRespected`.

**AxisOp**, for all operators and ranks, `Reshape` included. `MergeKeepsTrack`: when
`merge_incoming_change` turns an operator and a change of its input into an operator and a
change of its output, an axis tracked through the change, then the new operator, ends where
it ends through the old operator, then the new change, and it is lost by both or by none. It
is what makes pushing a transposition past a hundred nodes safe. The lemmas take the first
operator by kind, and under each the second. `RecipUndoes`: the inverse of an operator brings
back every axis that the operator keeps; `RecipTwice`: the inverse of the inverse is the
operator.

**Streaming.** `Pulse_proofs` takes the pulsed operators one by one, for all sizes: given a
stream that is late by the delay of its fact, each puts out its own, late by the delay of
*its* fact. `DelayIsLate` is about the flat, rotated buffer and its overlap; `PadIsLate`,
with `EdgeComesInTime` (the extra delay puts the frame to repeat into the first pulse that
repeats it: why `PulsePad` never fails), `ConcatIsLate` (the six cases of `range_in_range`),
`PoolAligns` and `PoolIsLate` (a stride is met in step with the pulses), `DownsampleIsLate`,
`ScanIsLate` (the iterations skipped over the calls are as many as the delay).

The second part of the module puts them together. A wire is its fact, its rate (how far a chunk goes
forward in the stream: its pulse, less what the `Delay` that made it gives again) and its
content, what it stands for. `Makes` says, operator by operator, how a node has to be wired to
make its wire of those it reads. There are two halves:

- *the run*. `Fits(c)`, for contents `c`, says that the model is wired well (`WellWired`, and
  `StandsFor`: the outlets noted for the source model have the batch results as contents),
  that each wire computed in this run and each state carries what its content says after as
  many calls as the node has had, and so does what has come out. It is inductive (`InitFits`,
  `FeedKeeps`, `RunKeeps`): a chunk of each node in turn. `FitsIsRight` and `FitsEmits` read
  the properties off it;
- *the translation*. Each pulsifier adds nodes that are wired well and make the batch result
  of the operator (`PadTurned`, `PoolTurned`, ..., together `NodeTurns`); `StandsNext` is one
  step of the translation of a model, and `ModelTurned` the induction over its nodes. Models
  and results are functions of the number of nodes translated (`upto`); that such functions
  exist and unfold is `BatchIs` and `PulsifiedIs`.

Then, for every set of problems that are `Pulsable`: `CarriedLate`, which states
`WiresAreDelayed`, `BuffersHold`, which states `DelayBuffersHold`, `NoFailure`, which states
`NeverFails`, and `StreamsTheBatch`, which states `ImplementsBatch`: a pulsed model refines
`BatchStream`. `Pulsable` says what the code relies on without checking it:

- the numbers of an operator make sense (a slice is inside its input, a kernel fits) and
  nodes read nodes before them;
- nothing is padded of what comes after an end was cut (`EndsOnlyCut`): the end is known too
  late there, which is the finding of `pulse_cropped`;
- a downsampling has no modulo and a stream that is not late, since the fact it computes does
  not say otherwise; the inputs of a binary operator come in pulses of the same size;
- numbers stay within `usize`;
- the source model has no concatenation along the stream: it underflows on late inputs. The
  operator alone is in `ConcatIsLate`.

All the problems of the instance of `pulse_streams` are `Pulsable`, and all these kinds of
operators are in it.

**Analyser**, for any operators, any graph and any order in which the nodes wake each other,
under the hypothesis that every problem with a `truth` (tensors that do what its first facts
say) is `Honest`. It is what the author of an operator has to see to: no rule says anything that
is not so of tensors that the operator can have. TLC evaluates it on the 1827 such problems of the
instance, of all the operators of `InferenceOps` (`OperatorsPromise`): each rule, and those of each
closure on every true value that it may be called with, complete or not; an operator that is
evaluated eagerly computes the tensors that are there. What is proved is that
the worklist and the solver then add nothing that is not true, which no operator can see to:

- *unification* (`UnifyFactTrue`): what two true facts say together is true, and they do unify;
- *setting* (`SetTrue`): to set an expression to what it is leaves true facts, be it a path, a
  multiple of one, or a sum with one unknown, whose other terms are subtracted;
- *the solver*: `TrueInv` says, half way through a node, that all that is still to be done is
  true: the facts of the context, each rule that is left or that a closure has added, the value
  being set, the items that are still to be set to it. Items were read when the rule was looked
  at and are set later, when others have changed: it is true still, since they are the
  items of the true tensors.

`TrueInvariant` is the invariant; `AnalysisIsTrue` states `FactsAreTrue`. `TrueIsRemembered` is
the action property: every step on a true problem only completes the facts, those of the graph and
those of the node being solved. `NothingForgotten` states `NeverForgets`, of sets of problems that
all have a truth.

**How data is reasoned about.** The induction theorems of the library take an operator as a
parameter and cannot be used here. Where an induction is needed it is over a set of numbers
(`SetInduction`, from the well-foundedness of `<`), and the recursion of the models is
written as a function of a number or of a sequence, never with `RECURSIVE`. It is enough for
folds over the nodes of a model, the edges of a patch, the steps of an order.

**Only model-checked.**

- Liveness (`Termination`, `Terminates`, `Settles`, `DeliversAll`): the prover has no fairness rule.
- The properties of `Scan`, `Declutter` and `Convolution`: bodies, terms and patterns are trees, and
  these modules stand on operators that recur over them, which the prover does not support; an
  induction over trees would need the induction theorems that it cannot instantiate.
- `NothingMoreToLearn` and `SourcesAreEnough` of `Analyser`: they are not about the worklist alone.
  A rule that was used is not looked at again, so that whether all is learnt depends on how each
  operator splits what it knows into rules, and for some operators it is not so (`Shortsighted`,
  `TellsLess`).
- `NeverForgets` on problems whose facts contradict each other.
- The meaning of a model under the patches of the axes pass (`ChangeNodes`) in `ModelPatch`.

## 5. What is not modelled

- Assembly and SIMD kernels (`linalg`), the element-wise functions, the choice of a kernel by
  processor: tested against references in the repository. The generic kernels are in `Kernels`.
- Codegen of recurrent layers and of scans beyond `LirScan`; `QMatMul` as a node; fused casts and
  scales.
- Dimensions of `tract-data` beyond what shapes of convolutions need (`maybe_div`, `slope`,
  parsing); data types, the memory of tensors.
- `nnef`, the importers of TensorFlow and Kaldi, the trees of ONNX: conversions without a state.
- `InferenceScan`, whose body is inferred with the loop; quantized types in inference.
- Facts and symbolic shapes in `ModelPatch`; names; more than one outlet per node there and in
  `Declutter`.
- The `cli`, the harness and the examples: clients.

## 6. Plan

The map covers about a fifth of the lines of the implementation. Next, the most important first:

1. **NNEF**: what is written reads back as the same graph, with the parser of its expressions.
2. **The importers** to the inference graph: the operators of TensorFlow and Kaldi.
3. **Quantized products** (`matmul/mir_quant.rs`) and `QMatMul` as a node of `Convolution`.
4. **The algebra of dimensions** without recursive operators, so that `Simplify` can be proved to keep
   the value; then `Convolution` without them.
