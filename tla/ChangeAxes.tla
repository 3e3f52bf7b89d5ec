----------------------------- MODULE ChangeAxes -----------------------------
(***************************************************************************)
(* The pass that moves the operators on axes through the graph until they  *)
(* meet one that undoes them (core/src/optim/change_axes.rs, change_axes   *)
(* in core/src/ops/change_axes.rs), and how a patched model is wired.  A   *)
(* model is a sequence of nodes [op, inputs, name] with one output each,   *)
(* in evaluation order.                                                    *)
(***************************************************************************)
EXTENDS Declutters

VARIABLES nodes, outputs,
          tensors,      \* the facts of the model, and what a run of it computes
          original,     \* what the model gave at first
          wired,        \* the facts of the first nodes of a patched model
          replaced,     \* [node, shape]: a node and the shape of what it replaces
          suggestions,  \* the changes that next has yet to try
          todo,         \* todo_changes, the last one on top
          visiting,     \* the nodes a change of a wire has yet to enter
          change,       \* that change
          changedWires, changedOps,
          phase         \* "wire", "pick", "propagate", "done", "failed"

model       == <<nodes, outputs, tensors, original, wired, replaced>>
propagation == <<todo, visiting, change, changedWires, changedOps>>

NodeIds == DOMAIN nodes
Inputs  == {n \in NodeIds : nodes[n].op.is = "source"}
Locked  == Inputs \cup Range(outputs)
Graph   == [nodes |-> nodes, outputs |-> outputs, tensors |-> tensors]

-----------------------------------------------------------------------------
(* Patched models.                                                         *)

\* The model gets these nodes, some of which replace one of another shape or not.
Rewired(h, pairs) ==
    /\ nodes' = h.nodes /\ outputs' = h.outputs
    /\ wired' = <<>> /\ replaced' = pairs
    /\ phase' = "wire"
    /\ UNCHANGED <<tensors, original>>

\* wire_node.
WireNode ==
    /\ phase = "wire" /\ Len(wired) < Len(nodes)
    /\ \E n \in {Len(wired) + 1} :
       \E output \in {Output(nodes[n].op, [i \in DOMAIN nodes[n].inputs |-> wired[nodes[n].inputs[i]]])} :
          IF output = None THEN phase' = "failed" /\ UNCHANGED wired
          ELSE wired' = Append(wired, output[1]) /\ UNCHANGED phase
    /\ UNCHANGED <<nodes, outputs, tensors, original, replaced, suggestions, propagation>>

\* suggested_axis_changes: only the operators on axes make some.
Suggested(ns) ==
    FlattenSeq([n \in DOMAIN ns |->
        IF IsAxisOp(ns[n].op)
        THEN <<[node |-> n, op |-> Recip(ns[n].op)], [node |-> ns[n].inputs[1], op |-> ns[n].op]>> ELSE <<>>])

\* shunt_outside wants the facts of what replaces and of what is replaced to agree, and
\* apply no node to be two outputs.
Patched ==
    /\ phase = "wire" /\ Len(wired) = Len(nodes)
    /\ IF \/ \E r \in replaced : wired[r[1]].shape # r[2]
          \/ Cardinality(Range(outputs)) < Len(outputs)
       THEN phase' = "failed" /\ UNCHANGED <<tensors, original, suggestions>>
       ELSE /\ tensors' = wired
            /\ original' = (IF original = <<>> THEN [i \in DOMAIN outputs |-> wired[outputs[i]]] ELSE original)
            /\ suggestions' = Suggested(nodes)
            /\ phase' = "pick"
    /\ UNCHANGED <<nodes, outputs, wired, replaced, propagation>>

-----------------------------------------------------------------------------
(* The propagation of a change.                                            *)

Nowhere == [n \in NodeIds |-> None]

Suggest ==
    /\ phase = "pick" /\ suggestions # <<>>
    /\ \E s \in {Head(suggestions)} :
          /\ todo' = <<[node |-> s.node, op |-> s.op, emitter |-> 0]>>
          /\ changedWires' = [Nowhere EXCEPT ![s.node] = Some(s.op)]
    /\ suggestions' = Tail(suggestions)
    /\ changedOps' = Nowhere
    /\ phase' = "propagate"
    /\ UNCHANGED <<model, visiting, change>>

Blocked ==
    /\ todo' = <<>> /\ visiting' = <<>> /\ change' = None
    /\ changedWires' = Nowhere /\ changedOps' = Nowhere
    /\ phase' = "pick"

PopChange ==
    /\ phase = "propagate" /\ visiting = <<>> /\ todo # <<>>
    /\ \E c \in {Last(todo)} :
          IF c.node \in Locked THEN Blocked
          ELSE /\ change' = c
               /\ todo' = Front(todo)
               /\ visiting' = <<[node |-> c.node, io |-> 0]>> \o Readers(nodes, c.node)
               /\ UNCHANGED <<changedWires, changedOps, phase>>
    /\ UNCHANGED <<model, suggestions>>

\* The node at the other end of a wire of n.
OutletOf(n, io) == IF io = 0 THEN n ELSE nodes[n].inputs[io]

\* What a change is recorded for, wire after wire: a wire keeps the first.
Record(wires, n, state) ==
    FoldLeft(LAMBDA acc, w :
                 IF acc.changed[OutletOf(n, w.io)] # None THEN acc
                 ELSE [changed |-> [acc.changed EXCEPT ![OutletOf(n, w.io)] = Some(w.op)],
                       todo    |-> Append(acc.todo, [node |-> OutletOf(n, w.io), op |-> w.op, emitter |-> n])],
             state, wires)

EnterNode ==
    /\ phase = "propagate" /\ visiting # <<>>
    /\ \E v \in {Head(visiting)} :
       \E more \in {IF v.node = change.emitter THEN None
                    ELSE ChangeOp(nodes[v.node].op, Tensors(Graph, v.node), v.io, change.op)} :
          CASE v.node = change.emitter -> /\ visiting' = Tail(visiting)
                                          /\ UNCHANGED <<todo, change, changedWires, changedOps, phase>>
            [] v.node # change.emitter /\ more = None -> Blocked
            [] v.node # change.emitter /\ more # None ->
                   \E state \in {Record(more[1].wires, v.node, [changed |-> changedWires, todo |-> todo])} :
                      /\ visiting' = Tail(visiting)
                      /\ changedOps' = (IF more[1].op = None THEN changedOps
                                        ELSE [changedOps EXCEPT ![v.node] = more[1].op])
                      /\ changedWires' = state.changed
                      /\ todo' = state.todo
                      /\ UNCHANGED <<change, phase>>
    /\ UNCHANGED <<model, suggestions>>

\* The change has gone everywhere: it is translated to a patch.  A node that has no
\* change stays, and what it reads is replaced, by what has to have the same shape.
Propagated ==
    /\ phase = "propagate" /\ visiting = <<>> /\ todo = <<>>
    /\ \E kept \in {{n \in NodeIds : changedWires[n] = None /\ changedOps[n] = None}} :
          Rewired([nodes   |-> [n \in NodeIds |-> IF changedOps[n] = None THEN nodes[n]
                                                 ELSE [nodes[n] EXCEPT !.op = changedOps[n][1]]],
                   outputs |-> outputs],
                  {<<m, tensors[m].shape>> : m \in UNION {Range(nodes[n].inputs) : n \in kept}})
    /\ UNCHANGED <<suggestions, propagation>>
=============================================================================
