----------------------------- MODULE PostOrder ------------------------------
(***************************************************************************)
(* The order that a depth-first search finds (core/src/model/order.rs), as *)
(* a recursion: each target with what it needs and is not there yet, what  *)
(* a node waits for before the node.  EvalOrder shows that the search that *)
(* the code does with a stack finds it; the passes on graphs rely on it.   *)
(* And what those who run a graph rely on.                                 *)
(***************************************************************************)
EXTENDS Naturals, Sequences, SequencesExt

\* Of the nodes N, that do not wait for one another: inputs is what each waits for, in
\* order, and nothing is waited for by those that bound the search.
PostOrder(N, inputs, bounds, targets) ==
  LET visit[n \in N] ==
        [order \in Seq(N) |->
          IF Contains(order, n) THEN order
          ELSE IF n \in bounds THEN Append(order, n)
          ELSE Append(FoldLeft(LAMBDA o, m : visit[m][o], order, inputs[n]), n)]
  IN FoldLeft(LAMBDA o, n : visit[n][o], <<>>, targets)

\* An order in which the nodes may run: each once, after those it reads unless it bounds
\* the search, the targets among them.
RunsInOrder(order, inputs, bounds, targets) ==
  /\ \A j, k \in 1 .. Len(order) : order[j] = order[k] => j = k
  /\ \A k \in 1 .. Len(order) : order[k] \notin bounds =>
       \A j \in 1 .. Len(inputs[order[k]]) :
         \E i \in 1 .. (k - 1) : order[i] = inputs[order[k]][j]
  /\ \A t \in 1 .. Len(targets) : \E k \in 1 .. Len(order) : order[k] = targets[t]
=============================================================================
