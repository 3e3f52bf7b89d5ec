---------------------------- MODULE MCEvalOrder ----------------------------
(* Small instances of EvalOrder: every wiring of a few nodes. *)
EXTENDS EvalOrder, FiniteSets

CONSTANTS MaxInputs, MaxTargets, MaxMore, a

(* Sequences of at most n elements of S. *)
UpTo(S, n) == UNION {[1..k -> S] : k \in 0..n}

NoMore == [n \in Node |-> <<>>]

(* No additional dependency, or up to MaxMore of them for one node. *)
MoreDeps ==
  {NoMore} \cup
  {[NoMore EXCEPT ![n] = s] : n \in Node, s \in UpTo(Node, MaxMore)}

(* Node a is a model input in half of the problems, with whatever it is wired to. *)
MCProblems ==
  [inputs : [Node -> UpTo(Node, MaxInputs)], more : MoreDeps,
   boundary : {{}, {a}}, targets : UpTo(Node, MaxTargets)]

=============================================================================
