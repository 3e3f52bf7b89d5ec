------------------------------ MODULE Analyser ------------------------------
(***************************************************************************)
(* The analysis of an inference model (hir/src/infer/analyser.rs): a work  *)
(* list of nodes, the solver run on each of them, and what it learns put   *)
(* back in the model, which wakes the nodes around.  A problem is a graph  *)
(* of nodes, the facts the analysis starts from, the tensors that flow     *)
(* through the graph (<<>> when no tensors do what the facts say), and     *)
(* whether the caller is obstinate.  An outlet is <<node, slot>>.          *)
(***************************************************************************)
EXTENDS Factoid

CONSTANTS
    Problems,
    RulesOf(_, _, _, _),   \* the rules of an operator with so many inputs, or of its closure at
                           \* a place of its code, when it is called with what was seen
    WireOf(_, _)           \* what the operator returns for some tensors, Fails when it bails

VARIABLES problem,
          facts,      \* the facts of each node's outputs
          toVisit,    \* nodes_to_visit
          node,       \* the node being analysed, 0 when there is none
          ctx,        \* its facts, in the solver
          rules,      \* [rule, used] for each of the solver's rules
          added,      \* added_rules
          rix,        \* the next rule of the pass
          todo,       \* the items that rule has yet to set, if it is an EqualsRule,
          value,      \* and what to
          changed,    \* whether this pass changed anything
          failed,     \* first_error
          phase,      \* "pick", "solve", "end"
          round,      \* which analysis of the model this is
          settled     \* the facts it started from

place    == <<rix, todo, value>>
solver   == <<node, ctx, rules, added, changed, place>>
vars     == <<problem, facts, toVisit, solver, failed, phase, round, settled>>

Nodes         == problem.nodes
NodeIds       == DOMAIN Nodes
Successors(o) == {m \in NodeIds : o \in Range(Nodes[m].inputs)}
FactOn(o)     == facts[o[1]][o[2]]

-----------------------------------------------------------------------------
Idle == [inputs |-> <<>>, outputs |-> <<>>, ok |-> TRUE, changed |-> FALSE]

GoToRule(r) == rix' = r /\ todo' = <<>> /\ value' = <<>>
DropSolver  == node' = 0 /\ ctx' = Idle /\ rules' = <<>> /\ added' = <<>> /\ changed' = FALSE /\ GoToRule(1)

Init == /\ problem \in Problems
        /\ facts = problem.facts
        /\ toVisit = NodeIds
        /\ node = 0 /\ ctx = Idle /\ rules = <<>> /\ added = <<>> /\ changed = FALSE
        /\ rix = 1 /\ todo = <<>> /\ value = <<>>
        /\ failed = FALSE
        /\ phase = "pick"
        /\ round = 1
        /\ settled = problem.facts

Fresh(newRules) == [i \in DOMAIN newRules |-> [rule |-> newRules[i], used |-> FALSE]]

\* The first node of the list: its facts are cloned and its rules collected.
Visit ==
    /\ phase = "pick" /\ toVisit # {}
    /\ \E n \in toVisit :
          /\ \A other \in toVisit : n <= other
          /\ node' = n
          /\ ctx' = [Idle EXCEPT !.inputs = [i \in DOMAIN Nodes[n].inputs |-> FactOn(Nodes[n].inputs[i])],
                                 !.outputs = facts[n]]
          /\ rules' = Fresh(RulesOf(Nodes[n].op, Len(Nodes[n].inputs), Start, <<>>))
    /\ added' = <<>> /\ changed' = FALSE /\ GoToRule(1)
    /\ phase' = "solve"
    /\ UNCHANGED <<problem, facts, toVisit, failed, round, settled>>

\* An error in a rule, in the eager evaluation or when the facts are put back:
\* the node leaves the list if the caller is obstinate, the analysis stops if not.
Fail ==
    /\ failed' = TRUE
    /\ IF problem.obstinate THEN toVisit' = toVisit \ {node} /\ phase' = "pick"
       ELSE toVisit' = toVisit /\ phase' = "end"
    /\ DropSolver
    /\ UNCHANGED <<problem, facts, round, settled>>

Applying == phase = "solve" /\ ctx.ok /\ todo = <<>> /\ rix <= Len(rules)
Current  == rules[rix].rule
Equating == Current.kind = "equals"

\* A rule that was used is not looked at again, nor is one whose items are not
\* known yet in this pass.
SkipRule ==
    /\ Applying /\ (rules[rix].used \/ ~ (Equating \/ Triggered(ctx, Current) \/ Missing(ctx, Current)))
    /\ GoToRule(rix + 1)
    /\ UNCHANGED <<problem, facts, toVisit, node, ctx, rules, added, changed, failed, phase, round, settled>>

UnifyItems ==
    /\ Applying /\ ~ rules[rix].used /\ Equating
    /\ value' = Unified(ctx, Current.items)
    /\ todo' = Current.items
    /\ ctx' = [ctx EXCEPT !.changed = FALSE, !.ok = ~ ClashPart(Current.items[1], value')]
    /\ UNCHANGED <<problem, facts, toVisit, node, rules, added, changed, rix, failed, phase, round, settled>>

\* The rule is used when one of its items was changed.
SetItem ==
    /\ phase = "solve" /\ ctx.ok /\ todo # <<>>
    /\ ctx' = Set(ctx, Head(todo), value)
    /\ IF Len(todo) > 1 THEN todo' = Tail(todo) /\ UNCHANGED <<rules, changed, rix, value>>
       ELSE /\ rules' = [rules EXCEPT ![rix].used = ctx'.changed]
            /\ changed' = (changed \/ ctx'.changed)
            /\ GoToRule(rix + 1)
    /\ UNCHANGED <<problem, facts, toVisit, node, added, failed, phase, round, settled>>

\* The values of a given rule, what is known for a with rule.
Seen(rule) ==
    rule.seen \o [i \in DOMAIN rule.items |->
                     IF rule.kind = "with" THEN Get(ctx, rule.items[i])
                     ELSE ValueOf(rule.items[i], Get(ctx, rule.items[i]))]

\* What the closure adds knows what the closures around it have seen.
Nested(rule, seen) == IF rule.kind \in {"given", "with"} THEN [rule EXCEPT !.seen = seen] ELSE rule
Within(new, seen)  == [i \in DOMAIN new |-> Nested(new[i], seen)]

CallClosure ==
    /\ Applying /\ ~ rules[rix].used /\ ~ Equating /\ Triggered(ctx, Current) /\ ~ Missing(ctx, Current)
    /\ \E seen \in {Seen(Current)} :
       \E new \in {RulesOf(Nodes[node].op, Len(Nodes[node].inputs), Current.at, seen)} :
          IF Bail \in Range(new) THEN ctx' = [ctx EXCEPT !.ok = FALSE] /\ UNCHANGED <<rules, added, changed>>
          ELSE /\ rules' = [rules EXCEPT ![rix].used = TRUE]
               /\ added' = added \o Within(new, seen)
               /\ changed' = TRUE
               /\ UNCHANGED ctx
    /\ GoToRule(rix + 1)
    /\ UNCHANGED <<problem, facts, toVisit, node, failed, phase, round, settled>>

Lacking  == Applying /\ ~ rules[rix].used /\ ~ Equating /\ Missing(ctx, Current)
FailRule == phase = "solve" /\ (~ ctx.ok \/ Lacking) /\ Fail

PassOver == phase = "solve" /\ ctx.ok /\ todo = <<>> /\ rix > Len(rules)

\* The rules that were added in a pass are there for the next one.
NextPass ==
    /\ PassOver /\ changed
    /\ rules' = rules \o Fresh(added)
    /\ added' = <<>> /\ changed' = FALSE /\ GoToRule(1)
    /\ UNCHANGED <<problem, facts, toVisit, node, ctx, failed, phase, round, settled>>

\* Only a source is not evaluated.
Stateless(op) == op.is # "Source"

\* The outputs that infer returns; Fails when the eager evaluation does.
Inferred ==
    LET op    == Nodes[node].op
        eager == Stateless(op) /\ \A i \in DOMAIN ctx.inputs : IsConcrete(ctx.inputs[i].value)
        ts    == WireOf(op, [i \in DOMAIN ctx.inputs |-> ctx.inputs[i].value[1]])
    IN  IF eager THEN [o \in DOMAIN ts |-> FactOf(ts[o])] ELSE ctx.outputs

\* The facts of the inputs and of the outputs, unified with those of the model.
Edge(outlet, fact) == [outlet |-> outlet, fact |-> UnifyFact(FactOn(outlet), fact)]
PutBack(outputs) ==
    [i \in DOMAIN ctx.inputs |-> Edge(Nodes[node].inputs[i], ctx.inputs[i])]
    \o [o \in DOMAIN outputs |-> Edge(<<node, o>>, outputs[o])]

\* All the edges of the node, changed or not.
NoticedEdges(edges) == edges

\* Those that changed, at their places.
ChangedEdges(edges) == RestrictValues(edges, LAMBDA e : e.fact # FactOn(e.outlet))

\* The nodes it would wake if facts only went down, or up, the graph.
WokenDown(edges) == UNION {Successors(e.outlet) \ {e.outlet[1]} : e \in Range(edges)}
WokenUp(edges)   == {e.outlet[1] : e \in Range(edges)} \ {node}

\* The nodes that a change of edges wakes: the successors of an edge and the node
\* it comes from.
Woken(edges) ==
    (UNION {Successors(e.outlet) \ {e.outlet[1]} : e \in Range(edges)})
    \cup ({e.outlet[1] : e \in Range(edges)} \ {node})

\* The facts, when edges are written in their order.
Written(edges) ==
    [n \in DOMAIN facts |-> [o \in DOMAIN facts[n] |->
        LET places == {i \in DOMAIN edges : edges[i].outlet = <<n, o>>}
        IN  IF places = {} THEN facts[n][o] ELSE edges[Max(places)].fact]]

Finish ==
    /\ PassOver /\ ~ changed
    /\ \E outputs \in {Inferred} :
          IF outputs = Fails THEN Fail
          ELSE \E edges \in {PutBack(outputs)} :
               IF \E i \in DOMAIN edges : IsClash(edges[i].fact) THEN Fail
               ELSE /\ facts' = Written(ChangedEdges(edges))
                    /\ toVisit' = (toVisit \cup Woken(ChangedEdges(edges))) \ {node}
                    /\ DropSolver
                    /\ phase' = "pick"
                    /\ UNCHANGED <<problem, failed, round, settled>>

End ==
    /\ phase = "pick" /\ toVisit = {}
    /\ phase' = "end"
    /\ UNCHANGED <<problem, facts, toVisit, solver, failed, round, settled>>

\* into_typed analyses the model, then incorporate analyses it once more.
Again ==
    /\ phase = "end" /\ ~ failed /\ round = 1
    /\ round' = 2
    /\ settled' = facts
    /\ toVisit' = NodeIds
    /\ phase' = "pick"
    /\ UNCHANGED <<problem, facts, solver, failed>>

Step == \/ Visit \/ SkipRule \/ UnifyItems \/ SetItem \/ CallClosure \/ FailRule
        \/ NextPass \/ Finish \/ End \/ Again
Done == phase = "end" /\ (failed \/ round = 2)
Next == Step \/ (Done /\ UNCHANGED vars)

Spec     == Init /\ [][Next]_vars
FairSpec == Spec /\ WF_vars(Step)

-----------------------------------------------------------------------------
(* What the operators promise, when tensors do what the facts say: that    *)
(* what their rules make equal is equal, whatever the rules have been told.*)

IsTuple(s)          == Len(s) \in Nat /\ s = [k \in 1 .. Len(s) |-> s[k]]
IsShapeFactoid(s)   == s = [open |-> s.open, dims |-> s.dims] /\ s.open \in BOOLEAN /\ IsTuple(s.dims)
IsInferenceFact(f)  == f = [dt |-> f.dt, shape |-> f.shape, value |-> f.value] /\ IsShapeFactoid(f.shape)

\* The tensors of a node, and all that is true of them.
TruthOn(p, o)  == p.truth[o[1]][o[2]]
Incoming(p, n) == [i \in DOMAIN p.nodes[n].inputs |-> TruthOn(p, p.nodes[n].inputs[i])]
AllOf(ins, outs) == [inputs |-> [i \in DOMAIN ins |-> FactOf(ins[i])],
                     outputs |-> [o \in DOMAIN outs |-> FactOf(outs[o])], ok |-> TRUE, changed |-> FALSE]

\* A path to something that is there, an expression that means something.
Names(full, e) ==
    /\ e.is = "path" /\ e.side \in {"in", "out"} /\ e.k \in Nat
    /\ e.part \in {"dt", "rank", "shape", "dim", "value", "item"}
    /\ e.ix \in IF e.side = "in" THEN DOMAIN full.inputs ELSE DOMAIN full.outputs
    /\ e.part = "dim" => e.k < Len(FactAt(full, e).shape.dims)
MeansOne(full, e) ==
    \/ e.is = "const"
    \/ Names(full, e)
    \/ /\ e.is = "scaled" /\ e.by \in Int
       /\ Names(full, e.item) /\ ~ IsShape(e.item) /\ GetPath(FactAt(full, e.item), e.item)[1] \in Int
IsNumber(full, e) ==
    MeansOne(full, e) /\ ~ IsShape(e) /\ \E x \in {Term(full, e)} : IsConcrete(x) /\ x = Only(x[1]) /\ x[1] \in Int
Means(full, e) ==
    MeansOne(full, e) \/ (e.is = "sum" /\ IsTuple(e.items) /\ \A i \in DOMAIN e.items : IsNumber(full, e.items[i]))

\* f says x, or nothing; s says of a shape that it is x, or less.
Partly(f, x) == f \in {Unknown, x}
PartlyShape(s, x) ==
    /\ Len(s.dims) <= Len(x.dims)
    /\ s.open \/ Len(s.dims) = Len(x.dims)
    /\ \A k \in DOMAIN s.dims : Partly(s.dims[k], x.dims[k])
PartOfShape(x, open, n, known) ==
    [open |-> open, dims |-> [k \in 1 .. n |-> IF k \in known THEN x.dims[k] ELSE Unknown]]
PartsOfShape(x) ==
    {s \in {PartOfShape(x, open, n, known) :
                open \in BOOLEAN, n \in 0 .. Len(x.dims), known \in SUBSET DOMAIN x.dims} : PartlyShape(s, x)}

\* x is what an item is.  A constant may say less.
IsOf(full, e, x, shapes) ==
    IF shapes THEN IF e.is = "const" THEN IsShapeFactoid(e.v) /\ PartlyShape(e.v, x)
                   ELSE Names(full, e) /\ IsShape(e) /\ Get(full, e) = x
    ELSE Means(full, e) /\ ~ IsShape(e) /\ (Get(full, e) = x \/ (e.is = "const" /\ e.v = Unknown))
Holds(full, items) ==
    /\ IsTuple(items) /\ items # <<>>
    /\ \E x \in {Get(full, items[i]) : i \in DOMAIN items} :
          /\ IsShape(items[1]) \/ (IsConcrete(x) /\ x = Only(x[1]))
          /\ \A i \in DOMAIN items : IsOf(full, items[i], x, IsShape(items[1]))

\* An item that a closure is called with, and what it may be called with.
Reads(full, e) ==
    IF IsShape(e) THEN Names(full, e)
    ELSE Means(full, e) /\ \E x \in {Get(full, e)} : IsConcrete(x) /\ x = Only(x[1])
SeenOf(full, rule) ==
    IF rule.kind = "given" THEN {[i \in DOMAIN rule.items |-> ValueOf(rule.items[i], Get(full, rule.items[i]))]}
    ELSE {<<f>> : f \in IF IsShape(rule.items[1]) THEN PartsOfShape(Get(full, rule.items[1]))
                        ELSE {Unknown, Get(full, rule.items[1])}}

\* calls are the <<at, seen>> of the calls of closures.
Keeps(full, calls, rule) ==
    \/ rule.kind = "equals" /\ Holds(full, rule.items)
    \/ /\ rule.kind \in {"given", "with"} /\ IsTuple(rule.items)
       /\ rule.kind = "with" => Len(rule.items) = 1
       /\ \A i \in DOMAIN rule.items : Reads(full, rule.items[i])
       /\ \A seen \in SeenOf(full, rule) : <<rule.at, rule.seen \o seen>> \in calls
KeepsAll(full, calls, new) == IsTuple(new) /\ \A i \in DOMAIN new : Keeps(full, calls, new[i])
Answers(full, op, inputs, calls) ==
    \A call \in calls :
        \E new \in {RulesOf(op, inputs, call[1], call[2])} : IsTuple(new) /\ KeepsAll(full, calls, Within(new, call[2]))
Promises(full, op, inputs, calls) ==
    KeepsAll(full, calls, RulesOf(op, inputs, Start, <<>>)) /\ Answers(full, op, inputs, calls)

\* The tensors of a problem flow through its nodes, and the first facts are true.
Flows(p) ==
    /\ DOMAIN p.nodes \subseteq Nat \ {0} /\ DOMAIN p.facts = DOMAIN p.nodes
    /\ \A n \in DOMAIN p.nodes :
          /\ IsTuple(p.nodes[n].inputs)
          /\ \A i \in DOMAIN p.nodes[n].inputs :
                \E m \in DOMAIN p.nodes : \E o \in DOMAIN p.truth[m] : p.nodes[n].inputs[i] = <<m, o>>
          /\ IsTuple(p.truth[n]) /\ p.truth[n] # <<>> /\ DOMAIN p.facts[n] = DOMAIN p.truth[n]
          /\ \A o \in DOMAIN p.truth[n] :
                /\ IsTuple(p.truth[n][o].shape)
                /\ IsInferenceFact(p.facts[n][o]) /\ Matches(p.facts[n][o], p.truth[n][o])
          /\ Stateless(p.nodes[n].op) => WireOf(p.nodes[n].op, Incoming(p, n)) = p.truth[n]

\* A problem whose operators keep their promises.
Honest(p) ==
    p.truth # <<>> =>
        /\ Flows(p)
        /\ \A n \in DOMAIN p.nodes :
              \E calls : Promises(AllOf(Incoming(p, n), p.truth[n]), p.nodes[n].op, Len(p.nodes[n].inputs), calls)

-----------------------------------------------------------------------------
(* Properties.                                                             *)

\* What is written of a graph is true: as long as some tensors do what the first
\* facts say, no node fails, and no fact says anything else of these tensors, even
\* half way through a node (analyse_one, the rules and the eager evaluation).
FactsAreTrue ==
    problem.truth # <<>> =>
        /\ ~ failed
        /\ ctx.ok
        /\ \A n \in NodeIds : \A o \in DOMAIN facts[n] : Matches(facts[n][o], problem.truth[n][o])
        /\ node # 0 => \A o \in DOMAIN ctx.outputs : Matches(ctx.outputs[o], problem.truth[node][o])

\* Operators with a rule that reads a shape before a later rule completes it: it is
\* used by then, so the outlets that only it reaches are completed by the next analysis.
Shortsighted(op) == op.is \in {"InstanceNorm"}

\* The analysis ends where nothing more can be learnt: the one that incorporate
\* makes changes nothing, whatever the order of the nodes, although a rule that was
\* used is not looked at again and a node that changed its own inputs is not
\* visited again (the solver's "Apply the rules until reaching a fixed point").
\* The shortsighted operators are the exceptions.
NothingMoreToLearn == (round = 2 /\ \A n \in NodeIds : ~ Shortsighted(Nodes[n].op)) => facts = settled

\* What is known of an outlet, as a tensor.
TensorOn(o) ==
    LET fact == FactOn(o)
    IN  IF fact.value # Unknown THEN fact.value[1]
        ELSE Tensor(fact.dt[1], [k \in DOMAIN fact.shape.dims |-> fact.shape.dims[k][1]])

\* Expansion::to_typed: "Output mismatch after rewiring expansion"
WiredAsInferred(n) ==
    \E ts \in {WireOf(Nodes[n].op, [i \in DOMAIN Nodes[n].inputs |-> TensorOn(Nodes[n].inputs[i])])} :
        /\ Len(ts) = Len(facts[n])
        /\ \A o \in DOMAIN ts : Matches(facts[n][o], ts[o])

\* Operators whose rules tell less than what they are replaced by.
TellsLess(op) == op.is \in {"Split13", "NonZero", "Compress", "DynamicQuantizeLinear"}

\* A model whose sources and constants are known may be typed in the end: everything
\* is known everywhere (missing_type_shape, into_typed), and what each operator is
\* rewired as has the outputs that its rules have inferred (Expansion::to_typed).
SourcesAreEnough ==
    (phase = "end" /\ ~ failed /\ \A n \in NodeIds : Nodes[n].op.is = "Source" => Known(facts[n][1])) =>
        /\ \A n \in NodeIds : TellsLess(Nodes[n].op) \/ \A o \in DOMAIN facts[n] : Known(facts[n][o])
        /\ \A n \in NodeIds : Nodes[n].op.is # "Source" => WiredAsInferred(n)

\* a is at least as precise as b.
Refines(a, b) == UnifyFact(a, b) = a

\* No step forgets: a fact only becomes more precise, in the model and in the solver
\* (Factoid::unify, which every fact goes through).
Remembers ==
    /\ \A n \in DOMAIN facts : \A o \in DOMAIN facts[n] : Refines(facts'[n][o], facts[n][o])
    /\ node # 0 /\ node' = node =>
           \A i \in DOMAIN ctx.inputs : Refines(ctx'.inputs[i], ctx.inputs[i])
NeverForgets == [][Remembers]_vars

\* Every analysis ends: nodes wake each other up and down the graph, itself maybe
\* included, and passes follow passes, but not for ever.
Terminates == <>Done
=============================================================================
