----------------------------- MODULE EvalOrder -----------------------------
(***************************************************************************)
(* eval_order_for_nodes (core/src/model/order.rs): the depth-first search  *)
(* that turns a graph of nodes into an evaluation order.  Every plan and   *)
(* every graph translation starts with it.                                 *)
(*                                                                         *)
(* One step of this machine is one turn of the while loop, or one turn of  *)
(* the loop over the targets.                                              *)
(***************************************************************************)
EXTENDS PostOrder

CONSTANTS
  Node,      \* the node ids of the graphs that are ordered
  Problems   \* the arguments the function may be called with

(***************************************************************************)
(* The arguments of one call.  inputs is the wiring (the slot of a wire    *)
(* does not matter to the order), more the additional dependencies, listed *)
(* per dependent node instead of as pairs, boundary the model inputs.      *)
(***************************************************************************)
Problem == [inputs : [Node -> Seq(Node)], more : [Node -> Seq(Node)],
            boundary : SUBSET Node, targets : Seq(Node)]

ASSUME ProblemsAssumption == Problems \subseteq Problem

VARIABLES
  problem,   \* the arguments, constant
  upcoming,  \* index of the next target to look at
  stack,     \* current_stack: nodes being explored, with the next dependency of each
  pending,   \* nodes pushed as a dependency and not yet ordered
  done,      \* nodes already ordered
  order,     \* the result so far
  status     \* "running", or how the function returned: "ok", "loop"

vars == <<problem, upcoming, stack, pending, done, order, status>>

(* What node n waits for, in the order it is looked at. *)
Deps(n) == problem.inputs[n] \o problem.more[n]

Frame(n, i) == [node |-> n, input |-> i]

Top == stack[Len(stack)]

(* A node is ready when it bounds the search or when all of its
   dependencies have been gone through. *)
Ready(f) == f.node \in problem.boundary \/ f.input = Len(Deps(f.node))

Precursor(f) == Deps(f.node)[f.input + 1]

Exploring == status = "running" /\ stack # <<>>

-----------------------------------------------------------------------------

(* Mutant of Init: off by one. *)
InitAtZero ==
  /\ problem \in Problems
  /\ upcoming = 0
  /\ stack = <<>>
  /\ pending = {}
  /\ done = {}
  /\ order = <<>>
  /\ status = "running"

Init ==
  /\ problem \in Problems
  /\ upcoming = 1
  /\ stack = <<>>
  /\ pending = {}
  /\ done = {}
  /\ order = <<>>
  /\ status = "running"

BetweenTargets == status = "running" /\ stack = <<>>

SkipTarget ==
  /\ BetweenTargets
  /\ upcoming <= Len(problem.targets)
  /\ problem.targets[upcoming] \in done
  /\ upcoming' = upcoming + 1
  /\ UNCHANGED <<problem, stack, pending, done, order, status>>

(* The target itself is pushed without being marked pending. *)
StartTarget ==
  /\ BetweenTargets
  /\ upcoming <= Len(problem.targets)
  /\ problem.targets[upcoming] \notin done
  /\ stack' = <<Frame(problem.targets[upcoming], 0)>>
  /\ pending' = {}
  /\ upcoming' = upcoming + 1
  /\ UNCHANGED <<problem, done, order, status>>

Emit ==
  /\ Exploring
  /\ Ready(Top)
  /\ order' = Append(order, Top.node)
  /\ done' = done \cup {Top.node}
  /\ pending' = pending \ {Top.node}
  /\ stack' = SubSeq(stack, 1, Len(stack) - 1)
  /\ UNCHANGED <<problem, upcoming, status>>

(* Mutants of Advance: it does not wait for the dependency, or goes over it
   again and again. *)
AdvanceAnyway ==
  /\ Exploring
  /\ ~Ready(Top)
  /\ stack' = [stack EXCEPT ![Len(stack)] = Frame(@.node, @.input + 1)]
  /\ UNCHANGED <<problem, upcoming, pending, done, order, status>>

AdvanceNowhere ==
  /\ Exploring
  /\ ~Ready(Top)
  /\ Precursor(Top) \in done
  /\ UNCHANGED vars

Advance ==
  /\ Exploring
  /\ ~Ready(Top)
  /\ Precursor(Top) \in done
  /\ stack' = [stack EXCEPT ![Len(stack)] = Frame(@.node, @.input + 1)]
  /\ UNCHANGED <<problem, upcoming, pending, done, order, status>>

(* Mutant of DetectLoop: a dependency not yet ordered makes a loop. *)
DetectLoopEager ==
  /\ Exploring
  /\ ~Ready(Top)
  /\ Precursor(Top) \notin done
  /\ status' = "loop"
  /\ UNCHANGED <<problem, upcoming, stack, pending, done, order>>

DetectLoop ==
  /\ Exploring
  /\ ~Ready(Top)
  /\ Precursor(Top) \notin done
  /\ Precursor(Top) \in pending
  /\ status' = "loop"
  /\ UNCHANGED <<problem, upcoming, stack, pending, done, order>>

Descend ==
  /\ Exploring
  /\ ~Ready(Top)
  /\ Precursor(Top) \notin done \cup pending
  /\ pending' = pending \cup {Precursor(Top)}
  /\ stack' = Append(stack, Frame(Precursor(Top), 0))
  /\ UNCHANGED <<problem, upcoming, done, order, status>>

Return ==
  /\ BetweenTargets
  /\ upcoming > Len(problem.targets)
  /\ status' = "ok"
  /\ UNCHANGED <<problem, upcoming, stack, pending, done, order>>

Next ==
  \/ SkipTarget
  \/ StartTarget
  \/ Emit
  \/ Advance
  \/ DetectLoop
  \/ Descend
  \/ Return

Spec == Init /\ [][Next]_vars

(* The function is a loop run by one thread: it keeps going. *)
FairSpec == Spec /\ WF_vars(Next)

-----------------------------------------------------------------------------
(* The reference the result is compared with. *)

DepSet(n) ==
  IF n \in problem.boundary THEN {} ELSE {Deps(n)[j] : j \in 1..Len(Deps(n))}

Closed(S) == \A n \in S : DepSet(n) \subseteq S

Targets == {problem.targets[k] : k \in 1..Len(problem.targets)}

(* The nodes the targets need: the least set closed under dependency. *)
Needed ==
  {n \in Node : \A S \in SUBSET Node : Targets \subseteq S /\ Closed(S) => n \in S}

(* Some of the nodes needed wait for one another. *)
Cyclic ==
  \E S \in SUBSET Needed : S # {} /\ \A n \in S : DepSet(n) \cap S # {}

-----------------------------------------------------------------------------

TypeOK ==
  /\ problem \in Problem
  /\ upcoming \in Nat \ {0}
  /\ stack \in Seq([node : Node, input : Nat])
  /\ pending \in SUBSET Node
  /\ done \in SUBSET Node
  /\ order \in Seq(Node)
  /\ status \in {"running", "ok", "loop"}

(* No node is evaluated twice in a run: the order never repeats a node, even
   though a target is on the stack without being marked pending and can be
   pushed a second time below itself. *)
NoDuplicates ==
  \A j, k \in 1..Len(order) : order[j] = order[k] => j = k

(* Whatever a node of the order waits for (its wires and the additional
   dependencies) comes before it, unless it is a model input. *)
Topological ==
  \A k \in 1..Len(order) :
    order[k] \notin problem.boundary =>
      \A j \in 1..Len(Deps(order[k])) :
        \E i \in 1..(k - 1) : order[i] = Deps(order[k])[j]

(* On success the order holds exactly the nodes the targets need: nothing is
   missing (the executor would find a precursor not done) and nothing else is
   evaluated. *)
ExactlyNeeded ==
  status = "ok" => {order[k] : k \in 1..Len(order)} = Needed

(* Nodes some of which wait for none of the others, whichever one looks at. *)
Grounds(N) == \A S \in SUBSET N : S # {} => \E n \in S : DepSet(n) \cap S = {}

(* The search finds the order of the recursion, node for node, on any part of the
   graph with what the targets need: an explicit stack whose frames are taken up
   again where they were left, a node pushed twice, and the set of the pending
   nodes change nothing of it.  The passes on graphs rely on this order. *)
DepthFirst ==
  status = "ok" =>
    \A N \in SUBSET Node :
      Targets \subseteq N /\ Closed(N) /\ Grounds(N) =>
        order = PostOrder(N, [n \in N |-> Deps(n)], problem.boundary, problem.targets)

(* What plans and passes take for granted of the order. *)
ExactOrder == NoDuplicates /\ Topological /\ ExactlyNeeded /\ DepthFirst

(* The function fails exactly on the graphs that cannot be ordered: "Loop
   detected" is reported only when needed nodes wait for one another, and
   success only when they do not. *)
LoopVerdict ==
  /\ status = "loop" => Cyclic
  /\ status = "ok" => ~Cyclic

(* The search ends, on graphs with loops too: the dodge_loop test runs
   eval_order in a thread with a one second timeout for this. *)
Termination == <>(status # "running")

=============================================================================
