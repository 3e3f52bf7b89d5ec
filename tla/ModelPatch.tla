----------------------------- MODULE ModelPatch -----------------------------
(***************************************************************************)
(* Graph rewriting (core/src/model/{graph,patch,translator}.rs): a model   *)
(* is a mutable graph, a ModelPatch a small graph to be grafted on it.     *)
(* Applying one adds its nodes, moves the consumers of the outlets it      *)
(* shunts, wires the new nodes and obliterates others.  The shunts and the *)
(* new nodes' wiring are taken from hash maps, in any order.  The nodes a  *)
(* patch cuts off stay in the graph until compact() translates it.         *)
(*                                                                         *)
(* Nodes have one outlet.  An operator is the sequence of the elementary   *)
(* ones it applies: it is fused by appending, and "id" computes nothing.   *)
(***************************************************************************)
EXTENDS PostOrder, FiniteSets

CONSTANTS
  Models,       \* the graphs that are rewritten
  Patches(_),   \* the patches that may be made of a graph
  MaxPatches    \* bound: patches applied to a graph

VARIABLES
  model,    \* the graph
  job,      \* the application of a patch, where it is
  applied,  \* how many patches were applied
  meant     \* history: what the outputs meant in the first place

vars == <<model, job, applied, meant>>

(***************************************************************************)
(* A graph: for node n its operator, op[n], the nodes it reads, inputs[n], *)
(* the inlets that read it, succ[n], in the order they were connected; the *)
(* nodes that are the model's inputs and outputs.                          *)
(***************************************************************************)
Source == <<"source">>
Dummy == <<"dummy">>

Inlet(n, slot) == [node |-> n, slot |-> slot]

Nodes(g) == 1..Len(g.op)

AddNode(g, op) ==
  [g EXCEPT !.op = Append(@, op), !.inputs = Append(@, <<>>), !.succ = Append(@, <<>>)]

(* Mutant of AddEdge: the outlet the inlet had keeps it as a consumer. *)
AddEdgeOnly(g, n, inlet) ==
  LET old == g.inputs[inlet.node] IN
  [g EXCEPT !.succ[n] = Append(@, inlet),
            !.inputs[inlet.node] = IF inlet.slot <= Len(old)
                                   THEN [old EXCEPT ![inlet.slot] = n]
                                   ELSE Append(old, n)]

(* The elements of a sequence at some places, in order. *)
Chosen(s, places) ==
  LET kept[k \in 0..Len(s)] ==
        IF k = 0 THEN <<>> ELSE IF k \in places THEN Append(kept[k - 1], s[k]) ELSE kept[k - 1]
  IN kept[Len(s)]

(* retain: what is left of a sequence without an element. *)
Without(s, x) == Chosen(s, {k \in DOMAIN s : s[k] # x})

(* Graph::add_edge: the inlet leaves the outlet that had it. *)
AddEdge(g, n, inlet) ==
  LET old == g.inputs[inlet.node]
      left == IF inlet.slot <= Len(old)
              THEN [g.succ EXCEPT ![old[inlet.slot]] = Without(@, inlet)]
              ELSE g.succ
  IN [g EXCEPT !.succ = [left EXCEPT ![n] = Append(@, inlet)],
               !.inputs[inlet.node] = IF inlet.slot <= Len(old)
                                      THEN [old EXCEPT ![inlet.slot] = n]
                                      ELSE Append(old, n)]

Edge(n, inlet) == [from |-> n, to |-> inlet]

(* Edges are added one after another. *)
AddEdges(g, edges) ==
  LET added[k \in 0..Len(edges)] ==
        IF k = 0 THEN g ELSE AddEdge(added[k - 1], edges[k].from, edges[k].to)
  IN added[Len(edges)]

(* What a graph is. *)
IsGraph(g) ==
  g \in [op : Seq(ToSet(g.op)),
         inputs : [Nodes(g) -> Seq(Nodes(g))],
         succ : [Nodes(g) -> Seq([node : Nodes(g), slot : Nat \ {0}])],
         interface : Seq(Nodes(g)),
         outputs : Seq(Nodes(g))]

Unique(s) == \A j, k \in DOMAIN s : s[j] = s[k] => j = k

(* The consumers of a node are the inlets that read it, once each. *)
Reciprocal(g) ==
  \A n \in Nodes(g) :
    /\ Unique(g.succ[n])
    /\ ToSet(g.succ[n]) =
         UNION {{Inlet(m, s) : s \in {t \in DOMAIN g.inputs[m] : g.inputs[m][t] = n}} : m \in Nodes(g)}

(* Of some nodes, one reads none of them. *)
Acyclic(g) ==
  \A W \in SUBSET Nodes(g) : W # {} => \E n \in W : ToSet(g.inputs[n]) \cap W = {}

(* What add_node, add_edge and the functions that set the inputs and the
   outputs make, when eval_order finds no loop. *)
ASSUME ModelsAssumption ==
  \A g \in Models :
    /\ IsGraph(g) /\ Reciprocal(g) /\ Acyclic(g)
    /\ Unique(g.outputs)
    /\ \A k \in DOMAIN g.interface : g.op[g.interface[k]] = Source

(* Connect node n to all it reads, slot after slot. *)
Wire(g, n, ins) == AddEdges(g, [slot \in DOMAIN ins |-> Edge(ins[slot], Inlet(n, slot))])

Empty == [op |-> <<>>, inputs |-> <<>>, succ |-> <<>>, interface |-> <<>>, outputs |-> <<>>]

(* eval_order: module EvalOrder shows that the search returns this. *)
EvalOrder(g) == PostOrder(Nodes(g), g.inputs, ToSet(g.interface), g.outputs)

Unread(g) ==
  LET order == EvalOrder(g) IN
  Chosen(g.interface, {k \in DOMAIN g.interface : ~Contains(order, g.interface[k])})

(* Where the nodes of a sequence have gone, when those of an order were made
   again. *)
Mapped(order, s) == [k \in DOMAIN s |-> CHOOSE j \in DOMAIN order : order[j] = s[k]]

(* The nodes of an order are made again, one after another, with the inputs
   that they read, and the interface is mapped. *)
Translated(g, order) ==
  LET made[k \in 0..Len(order)] ==
        IF k = 0 THEN Empty
        ELSE IF Contains(g.interface, order[k]) THEN AddNode(made[k - 1], Source)
        ELSE Wire(AddNode(made[k - 1], g.op[order[k]]), k, Mapped(order, g.inputs[order[k]]))
  IN [made[Len(order)] EXCEPT !.interface = Mapped(order, g.interface),
                              !.outputs = Mapped(order, g.outputs)]

(* Mutant of TranslationOrder: the inputs that nothing reads come first. *)
InputsFirst(g) == Unread(g) \o EvalOrder(g)

(* The nodes in use, then the inputs that nothing reads. *)
TranslationOrder(g) == EvalOrder(g) \o Unread(g)

Compact(g) == Translated(g, TranslationOrder(g))

(* Mutant of SingleSucc: the reader may read something else. *)
SingleReader(g, n) == IF Len(g.succ[n]) = 1 THEN g.succ[n][1].node ELSE 0

(* Graph::single_succ: the only reader, when it reads nothing else; 0 if none. *)
SingleSucc(g, n) ==
  IF Len(g.succ[n]) = 1 /\ Len(g.inputs[g.succ[n][1].node]) = 1
  THEN g.succ[n][1].node ELSE 0

-----------------------------------------------------------------------------
(***************************************************************************)
(* A patch: its nodes, which are taps of the model or new ones with inputs *)
(* among the patch's; the model's outlets to shunt, with the patch's       *)
(* outlets that replace them; the nodes to obliterate; for a new Source,   *)
(* the model input that it replaces.                                       *)
(***************************************************************************)
Tap(n) == [tap |-> n, op |-> Source, inputs |-> <<>>, replaces |-> 0]
NewNode(op, ins) == [tap |-> 0, op |-> op, inputs |-> ins, replaces |-> 0]

Patch(nodes, shunt, obliterate) ==
  [nodes |-> nodes, shunt |-> shunt, obliterate |-> obliterate]

Shunt(n, by) == [m \in {n} |-> by]

ReplaceSingleOp(g, n, op) ==
  LET k == Len(g.inputs[n]) IN
  Patch(Append([i \in 1..k |-> Tap(g.inputs[n][i])], NewNode(op, [i \in 1..k |-> i])),
        Shunt(n, k + 1), {})

FuseWithNext(g, n, op) ==
  LET k == Len(g.inputs[n]) IN
  Patch(<<NewNode(op, [i \in 1..k |-> i + 1])>> \o [i \in 1..k |-> Tap(g.inputs[n][i])],
        Shunt(SingleSucc(g, n), 1), {})

ShuntOneOp(g, n) == Patch(<<Tap(g.inputs[n][1])>>, Shunt(n, 1), {})

Intercept(g, n, op) == Patch(<<Tap(n), NewNode(op, <<1>>)>>, Shunt(n, 2), {})

(* change_axes: the nodes of new are made again with its operators, after taps
   of what they read; what the others read of the wires that have a copy, be
   it a tap, is shunted. *)
ChangeNodes(g, new) ==
  LET Known(acc, n, node) ==
        [acc EXCEPT !.nodes = Append(@, node), !.wires = (n :> Len(acc.nodes) + 1) @@ @]
      Tapped(acc, m) == IF m \in DOMAIN acc.wires THEN acc ELSE Known(acc, m, Tap(m))
      Changed(acc, n) ==
        LET t == FoldLeft(Tapped, acc, g.inputs[n]) IN
        Known(t, n, [NewNode(new[n], [j \in DOMAIN g.inputs[n] |-> t.wires[g.inputs[n][j]]])
                       EXCEPT !.replaces = IF new[n] = Source THEN n ELSE 0])
      Visited(acc, n) ==
        IF n \in DOMAIN new THEN Changed(acc, n)
        ELSE [acc EXCEPT !.shunt = @ \cup (ToSet(g.inputs[n]) \cap DOMAIN acc.wires)]
      all == FoldLeft(Visited, [nodes |-> <<>>, wires |-> <<>>, shunt |-> {}], EvalOrder(g))
      shunt == all.shunt \cup (ToSet(g.outputs) \cap DOMAIN all.wires)
  IN Patch(all.nodes, [n \in shunt |-> all.wires[n]], {})

-----------------------------------------------------------------------------
(* What a graph means: its outputs as terms over its inputs, by position. *)

Position(s, n) == CHOOSE k \in DOMAIN s : s[k] = n

Apply(op, args) ==
  FoldLeft(LAMBDA ins, f : IF f = "id" THEN ins ELSE <<<<f>> \o ins>>, args, op)[1]

Terms(g) ==
  LET term[n \in Nodes(g)] ==
        IF Contains(g.interface, n) THEN <<"source", Position(g.interface, n)>>
        ELSE Apply(g.op[n], [j \in DOMAIN g.inputs[n] |-> term[g.inputs[n][j]]])
  IN term

Meaning(g) == [k \in DOMAIN g.outputs |-> Terms(g)[g.outputs[k]]]

-----------------------------------------------------------------------------

Idle == [at |-> "idle"]

Init ==
  /\ model \in Models
  /\ job = Idle
  /\ applied = 0
  /\ meant = Meaning(model)

IsTap(patch, i) == patch.nodes[i].tap # 0

Added(patch) == {i \in DOMAIN patch.nodes : ~IsTap(patch, i)}

(* Where each node of the patch ends up in the model. *)
Mapping(patch) ==
  [i \in DOMAIN patch.nodes |->
    IF IsTap(patch, i) THEN patch.nodes[i].tap
    ELSE Len(model.op) + Cardinality({j \in Added(patch) : j <= i})]

(* The model inputs, once the sources of the patch have replaced some. *)
NewInterface(patch) ==
  LET mapping == Mapping(patch)
      By(n) == {i \in Added(patch) : patch.nodes[i].op = Source /\ patch.nodes[i].replaces = n}
  IN [k \in DOMAIN model.interface |->
       IF By(model.interface[k]) = {} THEN model.interface[k]
       ELSE mapping[CHOOSE i \in By(model.interface[k]) : TRUE]]

(* The nodes of a model and those of a patch, in order, not wired yet. *)
WithNodes(g, patch, mapping) ==
  LET all == 1..(Len(g.op) + Cardinality(Added(patch)))
      By(n) == CHOOSE i \in Added(patch) : mapping[i] = n
  IN [g EXCEPT !.op = [n \in all |-> IF n \in Nodes(g) THEN @[n] ELSE patch.nodes[By(n)].op],
               !.inputs = [n \in all |-> IF n \in Nodes(g) THEN @[n] ELSE <<>>],
               !.succ = [n \in all |-> IF n \in Nodes(g) THEN @[n] ELSE <<>>]]

(* What the methods of ModelPatch let one put in a patch: taps of the model's
   outlets, nodes wired on the patch's, the model's outlets to shunt.  No input
   of the model is obliterated: the only caller does it to nodes that it shunts
   by others that read the same. *)
Fits(patch, g) ==
  /\ patch.nodes \in Seq(ToSet(patch.nodes))
  /\ \A i \in DOMAIN patch.nodes :
       /\ IsTap(patch, i) => patch.nodes[i].tap \in Nodes(g)
       /\ patch.nodes[i].inputs \in Seq(DOMAIN patch.nodes)
  /\ DOMAIN patch.shunt \subseteq Nodes(g)
  /\ \A n \in DOMAIN patch.shunt : patch.shunt[n] \in DOMAIN patch.nodes
  /\ patch.obliterate \subseteq Nodes(g) \ ToSet(g.interface)

StartPatch(patch) ==
  /\ Fits(patch, model)
  /\ model' = WithNodes(model, patch, Mapping(patch))
  /\ job' = [at |-> "shunting", patch |-> patch, mapping |-> Mapping(patch),
             interface |-> NewInterface(patch), left |-> DOMAIN patch.shunt]
  /\ UNCHANGED <<applied, meant>>

(* The consumers of one outlet, and the output it may be, go to another. *)
ShuntOne ==
  /\ job.at = "shunting"
  /\ \E n \in job.left :
       LET by == job.mapping[job.patch.shunt[n]]
           g == AddEdges(model, [k \in DOMAIN model.succ[n] |-> Edge(by, model.succ[n][k])])
       IN /\ model' = [g EXCEPT !.outputs = [k \in DOMAIN @ |-> IF @[k] = n THEN by ELSE @[k]]]
          /\ job' = [job EXCEPT !.left = @ \ {n}]
  /\ UNCHANGED <<applied, meant>>

(* "Duplicate usage of node as output": the patch is half applied. *)
RefuseOutputs ==
  /\ job.at = "shunting"
  /\ job.left = {}
  /\ ~Unique(model.outputs)
  /\ job' = [at |-> "failed"]
  /\ UNCHANGED <<model, applied, meant>>

(* Mutant of AcceptOutputs: the check is forgotten. *)
AcceptAnyOutputs ==
  /\ job.at = "shunting"
  /\ job.left = {}
  /\ job' = [job EXCEPT !.at = "wiring", !.left = Added(job.patch)]
  /\ UNCHANGED <<model, applied, meant>>

AcceptOutputs ==
  /\ job.at = "shunting"
  /\ job.left = {}
  /\ Unique(model.outputs)
  /\ job' = [job EXCEPT !.at = "wiring", !.left = Added(job.patch)]
  /\ UNCHANGED <<model, applied, meant>>

WireOne ==
  /\ job.at = "wiring"
  /\ \E i \in job.left :
       LET ins == job.patch.nodes[i].inputs IN
       /\ model' = Wire(model, job.mapping[i], [s \in DOMAIN ins |-> job.mapping[ins[s]]])
       /\ job' = [job EXCEPT !.left = @ \ {i}]
  /\ UNCHANGED <<applied, meant>>

FinishPatch ==
  /\ job.at = "wiring"
  /\ job.left = {}
  /\ model' = [model EXCEPT
       !.op = [n \in DOMAIN @ |-> IF n \in job.patch.obliterate THEN Dummy ELSE @[n]],
       !.interface = job.interface]
  /\ job' = Idle
  /\ applied' = applied + 1
  /\ UNCHANGED meant

MayStart == job.at = "idle" /\ applied < MaxPatches

AnyPatch == MayStart /\ \E patch \in Patches(model) : StartPatch(patch)

(* eval_order has found each node after those it reads, and no loop. *)
Ordered(g, order) ==
  /\ order \in Seq(Nodes(g)) /\ Unique(order)
  /\ \A k \in DOMAIN order :
       ~Contains(g.interface, order[k]) =>
         \A s \in DOMAIN g.inputs[order[k]] :
           \E j \in 1..(k - 1) : order[j] = g.inputs[order[k]][s]
  /\ ToSet(g.outputs) \cup ToSet(g.interface) \subseteq ToSet(order)

CompactModel ==
  /\ job.at = "idle"
  /\ Ordered(model, TranslationOrder(model))
  /\ model' = Compact(model)
  /\ UNCHANGED <<job, applied, meant>>

Next ==
  \/ AnyPatch
  \/ ShuntOne
  \/ RefuseOutputs
  \/ AcceptOutputs
  \/ WireOne
  \/ FinishPatch
  \/ CompactModel

Spec == Init /\ [][Next]_vars

-----------------------------------------------------------------------------

Live(g) == ToSet(EvalOrder(g))

(* What check_edges asserts of the nodes in use holds of all, the ones cut off
   included, at every step. *)
EdgesReciprocal == Reciprocal(model)

(* A patch whose operators are equivalent leaves the model equivalent, in
   whatever order the hash maps give its shunts and nodes, and after earlier
   patches have left dead nodes among the consumers; so does compact().  It is
   refused only if two outputs mean the same, never for the order of its shunts. *)
MeaningPreserved ==
  /\ job.at = "idle" => Meaning(model) = meant
  /\ job.at = "failed" => ~Unique(meant)

(* The model keeps its signature at every step, in one that is refused half written
   too: as many outputs, and inputs that are all Sources.  The outputs are all
   different but while they are shunted, and in a model that is refused. *)
SignatureKept ==
  /\ Len(model.outputs) = Len(meant)
  /\ \A k \in DOMAIN model.interface : model.op[model.interface[k]] = Source
  /\ job.at \notin {"shunting", "failed"} => Unique(model.outputs)

(* What is compacted is in evaluation order, with no node but those in use and
   the model's inputs (check_compact), and compacting it again changes nothing. *)
CompactIsNormal ==
  job.at = "idle" =>
    LET g == Compact(model) IN
    /\ \A k \in 1..Len(EvalOrder(g)) : EvalOrder(g)[k] = k
    /\ Live(g) \cup ToSet(g.interface) = Nodes(g)
    /\ Compact(g) = g

=============================================================================
