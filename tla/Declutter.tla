------------------------------ MODULE Declutter ------------------------------
(***************************************************************************)
(* TypedModel::declutter: the passes of Optimizer::declutter over a model, *)
(* in turn, until none of them changes it (core/src/optim/mod.rs).  Each   *)
(* is asked for its next patch, which is wired and applied, as long as it  *)
(* has one.                                                                *)
(***************************************************************************)
EXTENDS ChangeAxes

CONSTANT Problems    \* [nodes, outputs]

VARIABLES pass,       \* the pass that runs
          skip,       \* OpOptim: how many nodes it has gone over
          dirty,      \* the pass has applied a patch since it was reset
          roundDirty, \* a pass has, since the first one
          seen        \* the patches that are not to be applied twice

loop == <<pass, skip, dirty, roundDirty, seen>>
vars == <<model, suggestions, propagation, phase, loop>>

Passes == <<"op", "const", "split", "axes">>

Init == \E problem \in Problems :
            /\ nodes = problem.nodes /\ outputs = problem.outputs
            /\ tensors = <<>> /\ original = <<>>
            /\ wired = <<>> /\ replaced = {}
            /\ suggestions = <<>>
            /\ todo = <<>> /\ visiting = <<>> /\ change = None
            /\ changedWires = <<>> /\ changedOps = <<>>
            /\ phase = "wire"
            /\ pass = 1 /\ skip = 0
            /\ dirty = FALSE /\ roundDirty = FALSE
            /\ seen = {}

\* The patch p is applied, and what the outputs no longer need is left out.
Apply(p) ==
    /\ \E h \in {Applied(Graph, p)} : \E order \in {EvalOrder(h)} :
          Rewired(Compacted(h, order),
                  {<<Place(order, s[2]), tensors[s[1]].shape>> : s \in {s \in p.shunts : s[2] \in Range(order)}})
    /\ dirty' = TRUE
    /\ UNCHANGED <<suggestions, propagation, pass, roundDirty>>

\* OpOptim::full_pass: the next node.  A patch that was seen before is not applied
\* again, and the pass goes on with the node after.
DeclutterNode ==
    /\ phase = "pick" /\ Passes[pass] = "op" /\ skip < Len(nodes)
    /\ \E n \in {skip + 1} :
          IF Breaks(Graph, n)
          THEN phase' = "failed" /\ UNCHANGED <<model, suggestions, propagation, loop>>
          ELSE \E p \in {Decluttered(Graph, n)} :
               IF p = None \/ (p # None /\ p[1].watchdog # None /\ p[1].watchdog[1] \in seen)
               THEN /\ skip' = skip + 1
                    /\ UNCHANGED <<model, suggestions, propagation, phase, pass, dirty, roundDirty, seen>>
               ELSE /\ Apply(p[1])
                    /\ skip' = skip + Len(p[1].watchdog)
                    /\ seen' = seen \cup Range(p[1].watchdog)

PropagateConst ==
    /\ phase = "pick" /\ Passes[pass] = "const"
    /\ \E p \in {PropConst(Graph)} : p # None /\ Apply(p[1])
    /\ UNCHANGED <<skip, seen>>

PushSplit ==
    /\ phase = "pick" /\ Passes[pass] = "split"
    /\ \E p \in {PushSplitDown(Graph)} : p # None /\ Apply(p[1])
    /\ UNCHANGED <<skip, seen>>

SuggestChange == Passes[pass] = "axes" /\ Suggest /\ UNCHANGED loop
Propagate     == (PopChange \/ EnterNode) /\ UNCHANGED loop
ChangeDone    == Propagated /\ dirty' = TRUE /\ UNCHANGED <<pass, skip, roundDirty, seen>>

NothingLeft ==
    CASE Passes[pass] = "op"    -> skip >= Len(nodes)
      [] Passes[pass] = "const" -> PropConst(Graph) = None
      [] Passes[pass] = "split" -> PushSplitDown(Graph) = None
      [] Passes[pass] = "axes"  -> suggestions = <<>>

\* run_one_pass_outer, run_all_passes and optimize: a pass that has changed the model
\* is run again, then the next one; the last one is followed by the first if any has.
EndPass ==
    /\ phase = "pick" /\ NothingLeft
    /\ skip' = 0 /\ dirty' = FALSE
    /\ suggestions' = Suggested(nodes)
    /\ CASE dirty -> roundDirty' = TRUE /\ UNCHANGED <<pass, phase>>
         [] ~ dirty /\ pass < Len(Passes) -> pass' = pass + 1 /\ UNCHANGED <<roundDirty, phase>>
         [] ~ dirty /\ pass = Len(Passes) /\ roundDirty -> pass' = 1 /\ roundDirty' = FALSE /\ UNCHANGED phase
         [] ~ dirty /\ pass = Len(Passes) /\ ~ roundDirty -> phase' = "done" /\ UNCHANGED <<pass, roundDirty>>
    /\ UNCHANGED <<model, propagation, seen>>

Wire1 == (WireNode \/ Patched) /\ UNCHANGED loop

Step == \/ Wire1 \/ DeclutterNode \/ PropagateConst \/ PushSplit
        \/ SuggestChange \/ Propagate \/ ChangeDone \/ EndPass
Next == Step \/ (phase \in {"done", "failed"} /\ UNCHANGED vars)

Spec     == Init /\ [][Next]_vars
FairSpec == Spec /\ WF_vars(Step)

-----------------------------------------------------------------------------
(* Properties.                                                             *)

\* What the model computes never changes, whatever has moved through it or was split,
\* cut or merged (each declutter, change_axes, merge_incoming_change; the checks of the
\* proptests axis_ops and crop_then_down).
MeaningKept ==
    phase \in {"pick", "propagate", "done"} => \A i \in DOMAIN outputs : tensors[outputs[i]] = original[i]

\* When a change of axes is applied, each wire carries the tensor it carried, with the
\* change that was recorded for it and no other: the first that reached it, when several
\* did, and although each node was told of one change at a time.
WiresChangeAsRecorded ==
    phase = "wire" /\ Passes[pass] = "axes" =>
        \A n \in DOMAIN wired :
            wired[n] = IF changedWires[n] = None THEN tensors[n]
                       ELSE ChangeTensor(changedWires[n][1], tensors[n])[1]

\* Whatever is rewritten, the patch can be wired: no operator gets a shape that it can
\* not take, and what replaces a node has its shape.
PatchesFit == phase # "failed"

\* The passes come to an end: no two rewritings undo each other for ever.
Settles == <>(phase \in {"done", "failed"})
=============================================================================
