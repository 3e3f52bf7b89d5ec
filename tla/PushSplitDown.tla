---------------------------- MODULE PushSplitDown ----------------------------
(***************************************************************************)
(* The pass PushSplitDown (core/src/optim/push_split_down.rs), in the loop *)
(* that applies its patches (run_one_pass_inner): nodes that read the same *)
(* and compute the same are merged.  The graph is not compacted between    *)
(* two patches, so the second one is made of a graph with dead nodes.      *)
(*                                                                         *)
(* ModelPatch applies the patches, PassPatches are the ones of this pass.  *)
(***************************************************************************)
EXTENDS ModelPatch

CONSTANT Comparable   \* the operators with a same_as that may be true

ASSUME ComparableAssumption == Dummy \notin Comparable /\ Source \notin Comparable

(* Node::same_as *)
SameAs(g, a, b) ==
  g.op[a] \in Comparable /\ g.op[a] = g.op[b] /\ g.inputs[a] = g.inputs[b]

(* Mutant of Pairs: only neighbours are compared. *)
AdjacentPairs(s) ==
  [i \in {k \in DOMAIN s : k < Len(s)} |-> <<s[i].node, s[i + 1].node>>]

(* tuple_combinations: the pairs, the first one before the second. *)
Pairs(s) ==
  FlattenSeq([i \in DOMAIN s |-> [d \in 1..(Len(s) - i) |-> <<s[i].node, s[i + d].node>>]])

(* The pairs of readers of each outlet of the evaluation order. *)
Met(g) ==
  LET order == EvalOrder(g) IN FlattenSeq([k \in DOMAIN order |-> Pairs(g.succ[order[k]])])

(* The pairs of nodes to merge, in the order they are met. *)
Candidates(g) ==
  LET met == Met(g) IN Chosen(met, {k \in DOMAIN met : SameAs(g, met[k][1], met[k][2])})

(* Merge the second node of each pair into the first. *)
MergePatch(merged) ==
  LET second == {merged[k][2] : k \in DOMAIN merged}
      LastMerge(b) == CHOOSE k \in DOMAIN merged :
                   merged[k][2] = b /\ \A j \in DOMAIN merged : merged[j][2] = b => j <= k
  IN Patch([k \in DOMAIN merged |-> Tap(merged[k][1])], [b \in second |-> LastMerge(b)], second)

(* The pairs whose second node is met for the first time. *)
FirstMerges(pairs) ==
  Chosen(pairs, {k \in DOMAIN pairs : \A j \in 1..(k - 1) : pairs[j][2] # pairs[k][2]})

(* Mutants of NextPatch: a node is merged again although it already is; the
   merged nodes are kept. *)
NextPatchAgain(g) == MergePatch(Candidates(g))

NextPatchAlive(g) ==
  [MergePatch(FirstMerges(Candidates(g))) EXCEPT !.obliterate = {}]

(* One patch merges all it can see: a node is shunted by the first it is the
   same as, and obliterated, and skipped in the other pairs where it comes
   second; whether the node that shunts it is obliterated is not looked at. *)
NextPatch(g) == MergePatch(FirstMerges(Candidates(g)))

PassPatches(g) == {patch \in {NextPatch(g)} : patch.nodes # <<>>}

(* The models the pass is run on, of those a run has. *)
Merging(g) == \E n \in Nodes(g) : g.op[n] \in Comparable

(* The loop ends when no patch is left. *)
Exhausted == job.at = "idle" /\ PassPatches(model) = {}

-----------------------------------------------------------------------------

(* No operator in use is replaced by a Dummy: "eval() called on a Dummy op.
   This is a bug." *)
NoLiveDummy == job.at = "idle" => \A n \in Live(model) : model.op[n] # Dummy

(* The pass merges all there is to merge, the nodes whose inputs have become
   the same by an earlier merge included. *)
AllMerged ==
  Exhausted =>
    \A a, b \in Live(model) \ ToSet(model.interface) :
      SameAs(model, a, b) /\ model.inputs[a] # <<>> => a = b

Dummies(g) == {n \in Nodes(g) : g.op[n] = Dummy}

(* Every patch of the pass makes dummies of nodes that were not: the loop over
   the patches ends, since none of them adds a node. *)
EachPatchMerges ==
  [][applied' > applied /\ Merging(model) =>
       /\ Dummies(model) \subseteq Dummies(model')
       /\ Dummies(model) # Dummies(model')]_vars

=============================================================================
