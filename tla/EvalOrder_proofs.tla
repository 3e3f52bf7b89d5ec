-------------------------- MODULE EvalOrder_proofs --------------------------
(***************************************************************************)
(* Proofs about the evaluation order, for every set of nodes and every     *)
(* set of graphs.  The inductive invariant describes the stack: each frame *)
(* waits for the node of the frame above it, what it has gone through is   *)
(* ordered, and no node of the stack is ordered yet.                       *)
(***************************************************************************)
EXTENDS EvalOrder, TLAPS, SequenceTheorems, WellFoundedInduction

(* One frame of the stack, position p. *)
FrameOK(p) ==
  /\ stack[p].input <= Len(Deps(stack[p].node))
  /\ stack[p].node \notin done
  /\ stack[p].node \in Needed
  /\ \A j \in 1..stack[p].input : Deps(stack[p].node)[j] \in done
  /\ p < Len(stack) => /\ ~Ready(stack[p])
                       /\ Precursor(stack[p]) = stack[p + 1].node

FramesOK == \A p \in 1..Len(stack) : FrameOK(p)

PendingOnStack == \A n \in pending : \E p \in 1..Len(stack) : stack[p].node = n

(* done is the set of the ordered nodes, all of them needed, and it is closed
   under dependency. *)
DoneOK ==
  /\ done = {order[k] : k \in 1..Len(order)}
  /\ done \subseteq Needed
  /\ Closed(done)

(* Every set of ordered nodes has one that waits for none of the others. *)
Grounded ==
  \A S \in SUBSET done : S # {} => \E n \in S : DepSet(n) \cap S = {}

TargetsOK ==
  /\ \A k \in 1..Len(problem.targets) :
       k < upcoming => \/ problem.targets[k] \in done
                       \/ stack # <<>> /\ stack[1].node = problem.targets[k]
  /\ status = "ok" => stack = <<>> /\ upcoming > Len(problem.targets)

IInv ==
  /\ TypeOK
  /\ FramesOK
  /\ PendingOnStack
  /\ DoneOK
  /\ Grounded
  /\ TargetsOK
  /\ NoDuplicates
  /\ Topological
  /\ status = "loop" => Cyclic

-----------------------------------------------------------------------------
(* Facts about the operators. *)

(* The dependencies of a node are a sequence of nodes. *)
LEMMA DepsType ==
  ASSUME problem \in Problem, NEW n \in Node
  PROVE  /\ Deps(n) \in Seq(Node)
         /\ Len(Deps(n)) \in Nat
         /\ \A j \in 1..Len(Deps(n)) : Deps(n)[j] \in Node
<1>1. problem.inputs[n] \in Seq(Node) /\ problem.more[n] \in Seq(Node)
  BY DEF Problem
<1>2. Deps(n) \in Seq(Node)
  BY <1>1 DEF Deps
<1> QED
  BY <1>2

(* A frame that is not ready waits for one of the dependencies of its node. *)
LEMMA PrecursorIsDep ==
  ASSUME problem \in Problem, NEW f \in [node : Node, input : Nat],
         f.input <= Len(Deps(f.node)), ~Ready(f)
  PROVE  /\ f.input + 1 \in 1..Len(Deps(f.node))
         /\ Precursor(f) \in DepSet(f.node)
         /\ Precursor(f) \in Node
<1>1. f.node \in Node /\ f.input \in Nat
  OBVIOUS
<1>2. Len(Deps(f.node)) \in Nat
  BY <1>1, DepsType
<1>3. f.input + 1 \in 1..Len(Deps(f.node))
  BY <1>1, <1>2 DEF Ready
<1>4. f.node \notin problem.boundary
  BY DEF Ready
<1> QED
  BY <1>1, <1>3, <1>4, DepsType DEF Precursor, DepSet

(* A needed node needs its dependencies. *)
LEMMA NeededClosed ==
  ASSUME problem \in Problem, NEW n \in Needed
  PROVE  DepSet(n) \subseteq Needed
<1>1. n \in Node
  BY DEF Needed
<1>2. SUFFICES ASSUME NEW d \in DepSet(n) PROVE d \in Needed
  OBVIOUS
<1>3. d \in Node
  BY <1>1, <1>2, DepsType DEF DepSet
<1>4. ASSUME NEW S \in SUBSET Node, Targets \subseteq S, Closed(S) PROVE d \in S
  BY <1>2, <1>4 DEF Needed, Closed
<1> QED
  BY <1>3, <1>4 DEF Needed

(* The targets are needed. *)
LEMMA TargetsNeeded ==
  ASSUME problem \in Problem, NEW k \in 1..Len(problem.targets)
  PROVE  problem.targets[k] \in Needed
<1>1. problem.targets \in Seq(Node)
  BY DEF Problem
<1>2. problem.targets[k] \in Node /\ problem.targets[k] \in Targets
  BY <1>1 DEF Targets
<1> QED
  BY <1>2 DEF Needed

(* The operators that only look at the arguments do not change. *)
LEMMA ProblemFixed ==
  ASSUME problem' = problem
  PROVE  /\ \A n : Deps(n)' = Deps(n) /\ DepSet(n)' = DepSet(n)
         /\ \A f : Ready(f)' = Ready(f) /\ Precursor(f)' = Precursor(f)
         /\ Needed' = Needed
         /\ Targets' = Targets
         /\ Cyclic' = Cyclic
         /\ \A S : Closed(S)' = Closed(S)
<1>1. \A n : Deps(n)' = Deps(n)
  BY DEF Deps
<1>2. \A n : DepSet(n)' = DepSet(n)
  BY <1>1 DEF DepSet
<1>3. \A S : Closed(S)' = Closed(S)
  BY <1>2 DEF Closed
<1>4. Targets' = Targets
  BY DEF Targets
<1>5. Needed' = Needed
  BY <1>3, <1>4 DEF Needed
<1>6. Cyclic' = Cyclic
  BY <1>2, <1>5 DEF Cyclic
<1>7. \A f : Ready(f)' = Ready(f) /\ Precursor(f)' = Precursor(f)
  BY <1>1 DEF Ready, Precursor
<1> QED
  BY <1>1, <1>2, <1>3, <1>4, <1>5, <1>6, <1>7

-----------------------------------------------------------------------------
(* The invariant is inductive: one lemma per action. *)

LEMMA InitIInv == Init => IInv
<1> SUFFICES ASSUME Init PROVE IInv
  OBVIOUS
<1>1. problem \in Problem
  BY ProblemsAssumption DEF Init
<1>2. TypeOK
  BY <1>1 DEF Init, TypeOK
<1>3. DoneOK
  BY DEF Init, DoneOK, Closed
<1> QED
  BY <1>2, <1>3 DEF Init, IInv, FramesOK, PendingOnStack, Grounded, TargetsOK,
                    NoDuplicates, Topological

(* A target that is ordered is skipped. *)
LEMMA SkipTargetIInv == IInv /\ SkipTarget => IInv'
<1> SUFFICES ASSUME IInv, SkipTarget PROVE IInv'
  OBVIOUS
<1> USE DEF IInv, SkipTarget, BetweenTargets
<1>0. problem' = problem /\ problem \in Problem
  BY DEF TypeOK
<1>1. TypeOK'
  BY DEF TypeOK
<1>2. FramesOK'
  BY DEF FramesOK
<1>3. PendingOnStack'
  BY DEF PendingOnStack
<1>4. DoneOK'
  BY <1>0, ProblemFixed DEF DoneOK
<1>5. Grounded'
  BY <1>0, ProblemFixed DEF Grounded
<1>6. TargetsOK'
  BY DEF TargetsOK, TypeOK
<1>7. NoDuplicates' /\ Topological'
  BY <1>0, ProblemFixed DEF NoDuplicates, Topological
<1> QED
  BY <1>0, <1>1, <1>2, <1>3, <1>4, <1>5, <1>6, <1>7

(* The search from a target starts. *)
LEMMA StartTargetIInv == IInv /\ StartTarget => IInv'
<1> SUFFICES ASSUME IInv, StartTarget PROVE IInv'
  OBVIOUS
<1> DEFINE t == problem.targets[upcoming]
<1>0. problem' = problem /\ problem \in Problem
  BY DEF IInv, StartTarget, TypeOK
<1>1. upcoming \in 1..Len(problem.targets) /\ t \in Needed /\ t \in Node
  <2>1. upcoming \in 1..Len(problem.targets)
    BY DEF IInv, StartTarget, TypeOK, Problem
  <2> QED
    BY <1>0, <2>1, TargetsNeeded DEF Needed
<1>2. stack' = <<Frame(t, 0)>> /\ Frame(t, 0) \in [node : Node, input : Nat]
  BY <1>1 DEF StartTarget, Frame
<1>3. TypeOK'
  BY <1>0, <1>1, <1>2 DEF IInv, TypeOK, StartTarget
<1>4. FramesOK'
  BY <1>0, <1>1, <1>2, ProblemFixed, DepsType DEF FramesOK, FrameOK, StartTarget, Frame
<1>5. PendingOnStack'
  BY DEF PendingOnStack, StartTarget
<1>6. DoneOK' /\ Grounded'
  BY <1>0, ProblemFixed DEF IInv, StartTarget, DoneOK, Grounded
<1>7. TargetsOK'
  <2> SUFFICES ASSUME NEW k \in 1..Len(problem.targets), k < upcoming + 1
               PROVE  problem.targets[k] \in done \/ stack'[1].node = problem.targets[k]
    BY <1>0, <1>2 DEF TargetsOK, StartTarget, BetweenTargets
  <2>1. CASE k < upcoming
    BY <2>1 DEF IInv, TargetsOK, StartTarget, BetweenTargets
  <2>2. CASE ~(k < upcoming)
    BY <2>2, <1>1, <1>2 DEF Frame
  <2> QED
    BY <2>1, <2>2
<1>8. NoDuplicates' /\ Topological'
  BY <1>0, ProblemFixed DEF IInv, StartTarget, NoDuplicates, Topological
<1> QED
  BY <1>3, <1>4, <1>5, <1>6, <1>7, <1>8 DEF IInv, StartTarget, BetweenTargets

(* What a sequence holds, and what it keeps when its last element goes. *)
LEMMA SeqFacts ==
  ASSUME NEW S, NEW s \in Seq(S)
  PROVE  /\ Len(s) \in Nat
         /\ \A p \in 1..Len(s) : s[p] \in S
         /\ s # <<>> => /\ Len(s) \in Nat \ {0}
                        /\ s[Len(s)] \in S
                        /\ SubSeq(s, 1, Len(s) - 1) \in Seq(S)
                        /\ Len(SubSeq(s, 1, Len(s) - 1)) = Len(s) - 1
                        /\ \A p \in 1..(Len(s) - 1) : SubSeq(s, 1, Len(s) - 1)[p] = s[p]
  OBVIOUS

(* The frames of a stack are frames. *)
LEMMA StackFrames ==
  ASSUME stack \in Seq([node : Node, input : Nat])
  PROVE  /\ Len(stack) \in Nat
         /\ \A p \in 1..Len(stack) : stack[p] \in [node : Node, input : Nat]
  BY SeqFacts, Zenon

(* The frame on top of the stack, while there is one. *)
LEMMA TopFacts ==
  ASSUME IInv, Exploring
  PROVE  /\ problem \in Problem
         /\ Len(stack) \in Nat \ {0}
         /\ Top = stack[Len(stack)]
         /\ Top \in [node : Node, input : Nat]
         /\ FrameOK(Len(stack))
         /\ Top.node \notin done
<1>1. stack \in Seq([node : Node, input : Nat]) /\ stack # <<>>
  BY DEF IInv, TypeOK, Exploring
<1>2. Len(stack) \in Nat \ {0}
  BY <1>1
<1>3. Top \in [node : Node, input : Nat]
  <2>1. \A p \in 1..Len(stack) : stack[p] \in [node : Node, input : Nat]
    BY <1>1, StackFrames
  <2>2. Len(stack) \in 1..Len(stack)
    BY <1>2
  <2>3. stack[Len(stack)] \in [node : Node, input : Nat]
    BY <2>1, <2>2
  <2> QED
    BY <2>3, Zenon DEF Top
<1>4. FrameOK(Len(stack))
  BY <1>2 DEF IInv, FramesOK
<1> QED
  BY <1>2, <1>3, <1>4 DEF IInv, TypeOK, FrameOK, Top

(* The next dependency is looked at. *)
LEMMA AdvanceIInv == IInv /\ Advance => IInv'
<1> SUFFICES ASSUME IInv, Advance PROVE IInv'
  OBVIOUS
<1> DEFINE L == Len(stack)
<1>0. problem' = problem /\ Exploring
  BY DEF Advance
<1>1. /\ problem \in Problem /\ L \in Nat \ {0} /\ Top = stack[L]
      /\ Top \in [node : Node, input : Nat] /\ FrameOK(L)
  BY <1>0, TopFacts
<1>2. Top.input + 1 \in 1..Len(Deps(Top.node))
  BY <1>1, PrecursorIsDep DEF Advance, FrameOK
<1>3. /\ stack' \in Seq([node : Node, input : Nat])
      /\ Len(stack') = L
      /\ \A p \in 1..L : stack'[p].node = stack[p].node
      /\ \A p \in 1..L : p # L => stack'[p] = stack[p]
      /\ stack'[L] = Frame(Top.node, Top.input + 1)
  BY <1>1 DEF Advance, Frame, IInv, TypeOK
<1>4. TypeOK'
  BY <1>3 DEF IInv, TypeOK, Advance
<1>5. FramesOK'
  <2> SUFFICES ASSUME NEW p \in 1..L PROVE FrameOK(p)'
    BY <1>3 DEF FramesOK
  <2>1. FrameOK(p) /\ done' = done
    BY DEF IInv, FramesOK, Advance
  <2>2. CASE p # L
    <3>1. p + 1 \in 1..L
      BY <1>1, <2>2
    <3> QED
      BY <1>0, <1>3, <2>1, <2>2, <3>1, ProblemFixed DEF FrameOK
  <2>3. CASE p = L
    <3>1. \A j \in 1..(Top.input + 1) : Deps(Top.node)[j] \in done
      <4>1. Deps(Top.node)[Top.input + 1] \in done
        BY DEF Advance, Precursor
      <4> QED
        BY <1>1, <4>1 DEF FrameOK
    <3> QED
      BY <1>0, <1>1, <1>2, <1>3, <2>1, <2>3, <3>1, ProblemFixed DEF FrameOK, Frame
  <2> QED
    BY <2>2, <2>3
<1>6. PendingOnStack'
  BY <1>3 DEF IInv, PendingOnStack, Advance
<1>7. DoneOK' /\ Grounded'
  BY <1>0, ProblemFixed DEF IInv, Advance, DoneOK, Grounded
<1>8. TargetsOK'
  <2>1. stack' # <<>> /\ stack'[1].node = stack[1].node
    BY <1>1, <1>3
  <2> QED
    BY <1>0, <2>1 DEF IInv, TargetsOK, Advance, Exploring
<1>9. NoDuplicates' /\ Topological'
  BY <1>0, ProblemFixed DEF IInv, Advance, NoDuplicates, Topological
<1> QED
  BY <1>4, <1>5, <1>6, <1>7, <1>8, <1>9 DEF IInv, Advance, Exploring

(* A dependency is explored. *)
LEMMA DescendIInv == IInv /\ Descend => IInv'
<1> SUFFICES ASSUME IInv, Descend PROVE IInv'
  OBVIOUS
<1> DEFINE L == Len(stack)
           d == Precursor(Top)
<1>0. problem' = problem /\ Exploring
  BY DEF Descend
<1>1. /\ problem \in Problem /\ L \in Nat \ {0} /\ Top = stack[L]
      /\ Top \in [node : Node, input : Nat] /\ FrameOK(L)
  BY <1>0, TopFacts
<1>2. d \in DepSet(Top.node) /\ d \in Node
  BY <1>1, PrecursorIsDep DEF Descend, FrameOK
<1>3. d \in Needed
  BY <1>1, <1>2, NeededClosed DEF FrameOK
<1>4. /\ stack' \in Seq([node : Node, input : Nat])
      /\ Len(stack') = L + 1
      /\ \A p \in 1..L : stack'[p] = stack[p]
      /\ stack'[L + 1] = Frame(d, 0)
  BY <1>1, <1>2 DEF Descend, Frame, IInv, TypeOK
<1>5. TypeOK'
  BY <1>2, <1>4 DEF IInv, TypeOK, Descend
<1>6. FramesOK'
  <2> SUFFICES ASSUME NEW p \in 1..(L + 1) PROVE FrameOK(p)'
    BY <1>4 DEF FramesOK
  <2>0. done' = done /\ d \notin done
    BY DEF Descend
  <2>1. CASE p = L + 1
    BY <1>0, <1>1, <1>2, <1>3, <1>4, <2>0, <2>1, ProblemFixed, DepsType DEF FrameOK, Frame
  <2>2. CASE p = L
    BY <1>0, <1>1, <1>4, <2>0, <2>2, ProblemFixed DEF FrameOK, Descend, Frame
  <2>3. CASE p < L
    <3>1. p \in 1..L /\ p + 1 \in 1..L /\ FrameOK(p)
      BY <1>1, <2>3 DEF IInv, FramesOK
    <3> QED
      BY <1>0, <1>1, <1>4, <2>0, <2>3, <3>1, ProblemFixed DEF FrameOK
  <2> QED
    BY <1>1, <2>1, <2>2, <2>3
<1>7. PendingOnStack'
  BY <1>1, <1>4 DEF IInv, PendingOnStack, Descend, Frame
<1>8. DoneOK' /\ Grounded'
  BY <1>0, ProblemFixed DEF IInv, Descend, DoneOK, Grounded
<1>9. TargetsOK'
  <2>1. stack' # <<>> /\ stack'[1].node = stack[1].node
    BY <1>1, <1>4
  <2> QED
    BY <1>0, <2>1 DEF IInv, TargetsOK, Descend, Exploring
<1>10. NoDuplicates' /\ Topological'
  BY <1>0, ProblemFixed DEF IInv, Descend, NoDuplicates, Topological
<1> QED
  BY <1>5, <1>6, <1>7, <1>8, <1>9, <1>10 DEF IInv, Descend, Exploring

(* Emitting the top of the stack.  That its node is nowhere else on the stack
   is what keeps the order free of duplicates: another frame of the same node
   would wait for a dependency the top frame has found ordered. *)
LEMMA EmitIInv == IInv /\ Emit => IInv'
<1> SUFFICES ASSUME IInv, Emit PROVE IInv'
  OBVIOUS
<1> DEFINE L == Len(stack)
           n == Top.node
<1>0. problem' = problem /\ Exploring /\ Ready(Top)
  BY DEF Emit
<1>1. /\ problem \in Problem /\ L \in Nat \ {0} /\ Top = stack[L]
      /\ Top \in [node : Node, input : Nat] /\ FrameOK(L) /\ n \notin done
  BY <1>0, TopFacts
<1>a. L \in Nat \ {0}
  BY <1>1
<1>b. stack \in Seq([node : Node, input : Nat])
  BY DEF IInv, TypeOK
<1>2. n \in Node /\ n \in Needed
  BY <1>1 DEF FrameOK
<1>3. /\ stack' \in Seq([node : Node, input : Nat])
      /\ Len(stack') = L - 1
      /\ \A p \in 1..(L - 1) : stack'[p] = stack[p]
  <2>1. stack' = SubSeq(stack, 1, L - 1) /\ stack # <<>>
    BY DEF Emit, Exploring
  <2> QED
    BY <1>b, <2>1, SeqFacts, Zenon
<1>4. /\ order \in Seq(Node) /\ Len(order) \in Nat
      /\ order' \in Seq(Node) /\ Len(order') = Len(order) + 1
      /\ \A k \in 1..Len(order) : order'[k] = order[k]
      /\ order'[Len(order) + 1] = n
      /\ done' = done \cup {n}
  BY <1>2 DEF Emit, IInv, TypeOK
<1>5. DepSet(n) \subseteq done
  <2>1. CASE n \in problem.boundary
    BY <2>1 DEF DepSet
  <2>2. CASE n \notin problem.boundary
    <3>1. Top.input = Len(Deps(n))
      BY <1>0, <2>2 DEF Ready
    <3>2. \A j \in 1..Len(Deps(n)) : Deps(n)[j] \in done
      BY <1>1, <3>1 DEF FrameOK
    <3> QED
      BY <2>2, <3>2 DEF DepSet
  <2> QED
    BY <2>1, <2>2
<1>6. \A p \in 1..(L - 1) : stack[p].node # n
  <2> SUFFICES ASSUME NEW p \in 1..(L - 1), stack[p].node = n
               PROVE  FALSE
    OBVIOUS
  <2>1. FrameOK(p) /\ FrameOK(p + 1) /\ p < L /\ p \in 1..L
    BY <1>1 DEF IInv, FramesOK
  <2>2. stack[p] \in [node : Node, input : Nat]
    BY <1>b, <2>1, StackFrames
  <2>3. Precursor(stack[p]) \in DepSet(n)
    BY <1>1, <2>1, <2>2, PrecursorIsDep DEF FrameOK
  <2>4. stack[p + 1].node \in done
    BY <1>5, <2>1, <2>3 DEF FrameOK
  <2> QED
    BY <2>1, <2>4 DEF FrameOK
<1>7. TypeOK'
  BY <1>2, <1>3, <1>4 DEF IInv, TypeOK, Emit
<1>8. FramesOK'
  <2> SUFFICES ASSUME NEW p \in 1..(L - 1) PROVE FrameOK(p)'
    BY <1>3 DEF FramesOK
  <2>1. p \in 1..L /\ p < L
    BY <1>a
  <2>2. FrameOK(p)
    BY <2>1 DEF IInv, FramesOK
  <2>3. p < L - 1 => p + 1 \in 1..(L - 1)
    BY <1>a
  <2>4. stack'[p] = stack[p] /\ (p < L - 1 => stack'[p + 1] = stack[p + 1])
    BY <1>3, <2>3
  <2>5. stack[p].node \notin done'
    BY <1>4, <1>6, <2>2 DEF FrameOK
  <2>6. \A j \in 1..stack[p].input : Deps(stack[p].node)[j] \in done'
    BY <1>4, <2>2 DEF FrameOK
  <2>7. ~Ready(stack[p]) /\ Precursor(stack[p]) = stack[p + 1].node
    BY <2>1, <2>2 DEF FrameOK
  <2> QED
    BY <1>0, <1>3, <2>2, <2>4, <2>5, <2>6, <2>7, ProblemFixed DEF FrameOK
<1>9. PendingOnStack'
  <2> SUFFICES ASSUME NEW m \in pending, m # n
               PROVE  \E p \in 1..(L - 1) : stack'[p].node = m
    BY <1>3 DEF PendingOnStack, Emit
  <2>1. PICK p \in 1..L : stack[p].node = m
    BY DEF IInv, PendingOnStack
  <2>2. p \in 1..(L - 1)
    BY <1>1, <2>1
  <2> QED
    BY <1>3, <2>1, <2>2
<1>10. DoneOK'
  <2>1. done' = {order'[k] : k \in 1..Len(order')}
    <3>1. 1..Len(order') = 1..Len(order) \cup {Len(order) + 1}
      BY <1>4
    <3>2. done = {order[k] : k \in 1..Len(order)}
      BY DEF IInv, DoneOK
    <3>3. {order'[k] : k \in 1..Len(order')}
            = {order'[k] : k \in 1..Len(order)} \cup {order'[Len(order) + 1]}
      BY <3>1
    <3>4. {order'[k] : k \in 1..Len(order)} = done
      BY <1>4, <3>2
    <3> QED
      BY <1>4, <3>3, <3>4
  <2>2. done' \subseteq Needed'
    BY <1>0, <1>2, <1>4, ProblemFixed DEF IInv, DoneOK
  <2>3. Closed(done')
    BY <1>4, <1>5 DEF IInv, DoneOK, Closed
  <2>4. Closed(done)'
    BY <1>0, <2>3, ProblemFixed DEF Closed
  <2> QED
    BY <2>1, <2>2, <2>4 DEF DoneOK
<1>11. Grounded'
  <2> SUFFICES ASSUME NEW S \in SUBSET (done \cup {n}), S # {}
               PROVE  \E m \in S : DepSet(m) \cap S = {}
    BY <1>0, <1>4, ProblemFixed DEF Grounded
  <2>1. CASE S \subseteq {n}
    BY <1>1, <1>5, <2>1
  <2>2. CASE ~(S \subseteq {n})
    <3>1. S \ {n} \in SUBSET done /\ S \ {n} # {}
      BY <2>2
    <3>2. PICK m \in S \ {n} : DepSet(m) \cap (S \ {n}) = {}
      BY <3>1 DEF IInv, Grounded
    <3>3. DepSet(m) \subseteq done
      BY <3>1, <3>2 DEF IInv, DoneOK, Closed
    <3> QED
      BY <1>1, <3>2, <3>3
  <2> QED
    BY <2>1, <2>2
<1>12. TargetsOK'
  <2> SUFFICES ASSUME NEW k \in 1..Len(problem.targets), k < upcoming
               PROVE  \/ problem.targets[k] \in done'
                      \/ stack' # <<>> /\ stack'[1].node = problem.targets[k]
    BY <1>0 DEF TargetsOK, Emit, Exploring
  <2>1. CASE problem.targets[k] \in done
    BY <1>4, <2>1
  <2>2. CASE stack[1].node = problem.targets[k]
    <3>1. CASE L = 1
      BY <1>1, <1>4, <2>2, <3>1
    <3>2. CASE L # 1
      <4> HIDE DEF L
      <4>1. 1 \in 1..(L - 1) /\ L - 1 # 0
        BY <1>a, <3>2
      <4> QED
        BY <1>3, <2>2, <4>1
    <3> QED
      BY <3>1, <3>2
  <2> QED
    BY <2>1, <2>2 DEF IInv, TargetsOK
<1>13. NoDuplicates'
  <2>1. \A k \in 1..Len(order) : order[k] # n
    BY <1>1 DEF IInv, DoneOK
  <2> QED
    BY <1>4, <2>1 DEF IInv, NoDuplicates
<1>14. Topological'
  <2> SUFFICES ASSUME NEW k \in 1..(Len(order) + 1),
                      order'[k] \notin problem.boundary,
                      NEW j \in 1..Len(Deps(order'[k]))
               PROVE  \E i \in 1..(k - 1) : order'[i] = Deps(order'[k])[j]
    BY <1>0, <1>4, ProblemFixed DEF Topological
  <2>1. CASE k \in 1..Len(order)
    <3>1. PICK i \in 1..(k - 1) : order[i] = Deps(order[k])[j]
      BY <1>4, <2>1 DEF IInv, Topological
    <3>2. i \in 1..Len(order)
      BY <1>4, <2>1
    <3> QED
      BY <1>4, <2>1, <3>1, <3>2
  <2>2. CASE k = Len(order) + 1
    <3>1. order'[k] = n
      BY <1>4, <2>2
    <3>2. Deps(n)[j] \in DepSet(n)
      BY <3>1 DEF DepSet
    <3>3. PICK i \in 1..Len(order) : order[i] = Deps(n)[j]
      BY <1>5, <3>2 DEF IInv, DoneOK
    <3> QED
      BY <1>4, <2>2, <3>1, <3>3
  <2> QED
    BY <1>4, <2>1, <2>2
<1> QED
  BY <1>7, <1>8, <1>9, <1>10, <1>11, <1>12, <1>13, <1>14 DEF IInv, Emit, Exploring

(* A pending dependency is on the stack: from there up, each node waits for
   the next and the last one for the first. *)
LEMMA DetectLoopIInv == IInv /\ DetectLoop => IInv'
<1> SUFFICES ASSUME IInv, DetectLoop PROVE IInv'
  OBVIOUS
<1> DEFINE L == Len(stack)
<1>0. problem' = problem /\ Exploring
  BY DEF DetectLoop
<1>1. /\ problem \in Problem /\ L \in Nat \ {0} /\ Top = stack[L]
      /\ Top \in [node : Node, input : Nat] /\ FrameOK(L)
  BY <1>0, TopFacts
<1>2. PICK p \in 1..L : stack[p].node = Precursor(Top)
  BY DEF IInv, PendingOnStack, DetectLoop
<1>3. Cyclic
  <2> DEFINE S == {stack[q].node : q \in p..L}
  <2>1. S \subseteq Needed
    <3>1. \A q \in p..L : q \in 1..L
      BY <1>1, <1>2
    <3> QED
      BY <3>1 DEF IInv, FramesOK, FrameOK
  <2>2. Precursor(Top) \in S
    BY <1>1, <1>2
  <2>3. ASSUME NEW q \in p..L PROVE DepSet(stack[q].node) \cap S # {}
    <3>1. q \in 1..L /\ FrameOK(q) /\ stack[q] \in [node : Node, input : Nat]
      <4>1. L \in Nat /\ stack \in Seq([node : Node, input : Nat])
        BY <1>1 DEF IInv, TypeOK
      <4>2. q \in 1..L
        BY <2>3, <4>1
      <4> QED
        BY <4>1, <4>2, StackFrames DEF IInv, FramesOK
    <3>2. CASE q = L
      <4>1. Precursor(Top) \in DepSet(stack[q].node)
        BY <1>1, <3>2, PrecursorIsDep DEF DetectLoop, FrameOK
      <4> QED
        BY <2>2, <4>1
    <3>3. CASE q # L
      <4>1. q + 1 \in p..L /\ q < L
        BY <1>1, <1>2, <2>3, <3>3
      <4>2. ~Ready(stack[q]) /\ Precursor(stack[q]) = stack[q + 1].node
        BY <3>1, <4>1 DEF FrameOK
      <4>3. Precursor(stack[q]) \in DepSet(stack[q].node)
        BY <1>1, <3>1, <4>2, PrecursorIsDep DEF FrameOK
      <4>4. stack[q + 1].node \in S
        BY <4>1
      <4> QED
        BY <4>2, <4>3, <4>4
    <3> QED
      BY <3>2, <3>3
  <2> QED
    BY <2>1, <2>2, <2>3 DEF Cyclic
<1>4. Cyclic'
  BY <1>0, <1>3, ProblemFixed
<1>5. TypeOK' /\ FramesOK' /\ PendingOnStack' /\ DoneOK' /\ Grounded'
  <2>1. TypeOK'
    BY DEF IInv, TypeOK, DetectLoop
  <2>2. FramesOK'
    <3> SUFFICES ASSUME NEW q \in 1..L PROVE FrameOK(q)'
      BY DEF FramesOK, DetectLoop
    <3>1. FrameOK(q)
      BY DEF IInv, FramesOK
    <3> QED
      BY <1>0, <3>1, ProblemFixed DEF FrameOK, DetectLoop
  <2>3. PendingOnStack'
    BY DEF IInv, PendingOnStack, DetectLoop
  <2> QED
    BY <1>0, <2>1, <2>2, <2>3, ProblemFixed DEF IInv, DetectLoop, DoneOK, Grounded
<1>6. TargetsOK' /\ NoDuplicates' /\ Topological'
  BY <1>0, ProblemFixed DEF IInv, DetectLoop, TargetsOK, NoDuplicates, Topological
<1> QED
  BY <1>4, <1>5, <1>6 DEF IInv

(* The order is returned. *)
LEMMA ReturnIInv == IInv /\ Return => IInv'
<1> SUFFICES ASSUME IInv, Return PROVE IInv'
  OBVIOUS
<1>0. problem' = problem
  BY DEF Return
<1>1. TypeOK' /\ FramesOK' /\ PendingOnStack'
  BY <1>0, ProblemFixed
     DEF IInv, Return, BetweenTargets, TypeOK, FramesOK, PendingOnStack
<1>2. DoneOK' /\ Grounded'
  BY <1>0, ProblemFixed DEF IInv, Return, DoneOK, Grounded
<1>3. TargetsOK'
  BY DEF IInv, Return, BetweenTargets, TargetsOK
<1>4. NoDuplicates' /\ Topological'
  BY <1>0, ProblemFixed DEF IInv, Return, NoDuplicates, Topological
<1> QED
  BY <1>1, <1>2, <1>3, <1>4 DEF IInv, Return

(* Nothing changes, nothing breaks. *)
LEMMA StutterIInv == IInv /\ UNCHANGED vars => IInv'
<1> SUFFICES ASSUME IInv, UNCHANGED vars PROVE IInv'
  OBVIOUS
<1>0. problem' = problem
  BY DEF vars
<1>1. TypeOK' /\ PendingOnStack' /\ TargetsOK'
  BY DEF IInv, vars, TypeOK, PendingOnStack, TargetsOK
<1>2. FramesOK'
  BY <1>0, ProblemFixed DEF IInv, vars, FramesOK, FrameOK
<1> QED
  BY <1>0, <1>1, <1>2, ProblemFixed
     DEF IInv, vars, DoneOK, Grounded, NoDuplicates, Topological

(* The invariant holds in every reachable state, for every graph. *)
THEOREM Invariance == Spec => []IInv
<1>1. IInv /\ [Next]_vars => IInv'
  BY SkipTargetIInv, StartTargetIInv, EmitIInv, AdvanceIInv, DetectLoopIInv,
     DescendIInv, ReturnIInv, StutterIInv DEF Next
<1> QED
  BY InitIInv, <1>1, PTL DEF Spec

-----------------------------------------------------------------------------
(* Induction on the naturals, and folds.  The definition of a fold names a
   function of the places that are left to fold; what it does is to go through
   them from the first to the last. *)

(* A set of numbers has a least one. *)
LEMMA LeastNatural ==
  ASSUME NEW T \in SUBSET Nat, T # {}
  PROVE  \E m \in T : \A k \in T : m <= k
<1> DEFINE R == OpToRel(<, Nat)
<1>1. IsWellFoundedOn(R, Nat)
  BY NatLessThanWellFounded
<1>a. \A x, y \in Nat : x < y => <<x, y>> \in R
  BY DEF OpToRel
<1> HIDE DEF R
<1>2. PICK x \in T : \A y \in T : ~ (<<y, x>> \in R)
  BY <1>1, WFMin
<1>3. \A y \in T : ~(y < x)
  BY <1>2, <1>a
<1> QED
  BY <1>3

(* Induction, of a set. *)
LEMMA SetInduction ==
  ASSUME NEW S, 0 \in S, \A n \in Nat : n \in S => n + 1 \in S
  PROVE  Nat \subseteq S
<1> SUFFICES ASSUME NEW n \in Nat \ S PROVE FALSE
  OBVIOUS
<1>1. PICK m \in Nat \ S : \A k \in Nat \ S : m <= k
  <2> DEFINE T == Nat \ S
  <2>1. T \in SUBSET Nat /\ T # {}
    OBVIOUS
  <2> HIDE DEF T
  <2>2. \E m \in T : \A k \in T : m <= k
    BY <2>1, LeastNatural
  <2> QED BY <2>2 DEF T
<1>2. m # 0 /\ m - 1 \in Nat /\ m - 1 \notin Nat \ S
  BY <1>1
<1> QED
  BY <1>1, <1>2

(* f folds the elements at any of the places. *)
FoldsOn(f, v, base, s, places) ==
  f = [S \in SUBSET places |-> IF S = {} THEN base ELSE LET x == Max(S) IN v[s[x]][f[S \ {x}]]]

Folded(v, base, s) == FoldLeft(LAMBDA o, m : v[m][o], base, s)

(* What is left to do when k elements are folded. *)
Steps(h, v, base, s) ==
  h = [k \in 0 .. Len(s) |-> IF k = 0 THEN base ELSE v[s[k]][h[k - 1]]]

(* The function that the definition of a fold names exists. *)
LEMMA FoldExists ==
  ASSUME NEW v, NEW base, NEW s, NEW n \in Nat
  PROVE  \E f : FoldsOn(f, v, base, s, 1 .. n)
<1> DEFINE T == {m \in Nat : \E f : FoldsOn(f, v, base, s, 1 .. m)}
<1>1. 0 \in T
  <2> DEFINE f == [S \in SUBSET (1 .. 0) |-> base]
  <2>1. 1 .. 0 = {}
    OBVIOUS
  <2>2. FoldsOn(f, v, base, s, 1 .. 0)
    BY <2>1 DEF FoldsOn
  <2> QED
    BY <2>2
<1>2. ASSUME NEW m \in Nat, m \in T PROVE m + 1 \in T
  <2>1. PICK f : FoldsOn(f, v, base, s, 1 .. m)
    BY <1>2
  <2> DEFINE D == SUBSET (1 .. m)
             E == SUBSET (1 .. m + 1)
             g == [S \in E |-> IF S \in D THEN f[S] ELSE v[s[m + 1]][f[S \ {m + 1}]]]
  <2>2. 1 .. m + 1 = (1 .. m) \cup {m + 1} /\ m + 1 \notin 1 .. m
    OBVIOUS
  <2>3. ASSUME NEW S \in E
        PROVE  g[S] = IF S = {} THEN base ELSE LET x == Max(S) IN v[s[x]][g[S \ {x}]]
    <3>1. CASE S \in D
      <4>1. f[S] = IF S = {} THEN base ELSE LET x == Max(S) IN v[s[x]][f[S \ {x}]]
        BY <2>1, <3>1 DEF FoldsOn
      <4>2. \A x : S \ {x} \in D /\ S \ {x} \in E
        BY <2>2, <3>1
      <4>3. g[S] = f[S] /\ \A x : g[S \ {x}] = f[S \ {x}]
        BY <3>1, <4>2
      <4> HIDE DEF g
      <4> QED
        BY <4>1, <4>3
    <3>2. CASE S \notin D
      <4>1. m + 1 \in S /\ S \ {m + 1} \in D /\ S \ {m + 1} \in E /\ S # {}
        BY <2>2, <3>2
      <4>2. Max(S) = m + 1
        <5>1. \A y \in S : m + 1 >= y
          OBVIOUS
        <5>2. \A x \in S : (\A y \in S : x >= y) => x = m + 1
          BY <4>1
        <5> QED
          BY <4>1, <5>1, <5>2 DEF Max
      <4>3. g[S] = v[s[m + 1]][f[S \ {m + 1}]] /\ g[S \ {m + 1}] = f[S \ {m + 1}]
        BY <3>2, <4>1
      <4> HIDE DEF g
      <4> QED
        BY <4>1, <4>2, <4>3
    <3> QED
      BY <3>1, <3>2
  <2>4. g = [S \in E |-> g[S]]
    OBVIOUS
  <2> HIDE DEF g
  <2>5. FoldsOn(g, v, base, s, 1 .. m + 1)
    BY <2>3, <2>4 DEF FoldsOn
  <2> QED
    BY <2>5
<1> HIDE DEF T
<1>3. Nat \subseteq T
  BY <1>1, <1>2, SetInduction
<1> QED
  BY <1>3 DEF T

(* A fold goes step by step. *)
LEMMA FoldSteps ==
  ASSUME NEW S, NEW s \in Seq(S), NEW v, NEW base
  PROVE  \E h : Steps(h, v, base, s) /\ Folded(v, base, s) = h[Len(s)]
<1> DEFINE n == Len(s)
           f == CHOOSE u : FoldsOn(u, v, base, s, 1 .. n)
           h == [k \in 0 .. n |-> f[1 .. k]]
<1>1. n \in Nat /\ DOMAIN s = 1 .. n
  BY LenProperties
<1>2. Folded(v, base, s) = (CHOOSE u : FoldsOn(u, v, base, s, DOMAIN s))[DOMAIN s]
  BY DEF Folded, FoldLeft, MapThenFoldSet, FoldsOn
<1>3. FoldsOn(f, v, base, s, 1 .. n)
  <2> HIDE DEF n
  <2> QED
    BY <1>1, FoldExists
<1>4. Folded(v, base, s) = f[1 .. n]
  BY <1>1, <1>2
<1> HIDE DEF f, n
<1>5. ASSUME NEW k \in 0 .. n
      PROVE  h[k] = IF k = 0 THEN base ELSE v[s[k]][h[k - 1]]
  <2>1. (1 .. k) \in SUBSET (1 .. n)
    BY <1>1
  <2>2. f[1 .. k] = IF 1 .. k = {} THEN base ELSE LET x == Max(1 .. k) IN v[s[x]][f[(1 .. k) \ {x}]]
    BY <1>3, <2>1 DEF FoldsOn
  <2>3. CASE k = 0
    <3>1. 1 .. k = {}
      BY <2>3
    <3> QED
      BY <2>2, <2>3, <3>1
  <2>4. CASE k # 0
    <3>0. k \in 1 .. k /\ k - 1 \in 0 .. n
      BY <1>1, <2>4
    <3>1. k \in 1 .. k /\ 1 .. k # {} /\ k - 1 \in 0 .. n
      BY <3>0
    <3>2. Max(1 .. k) = k
      <4>1. \A y \in 1 .. k : k >= y
        OBVIOUS
      <4>2. \A x \in 1 .. k : (\A y \in 1 .. k : x >= y) => x = k
        BY <3>1
      <4> QED
        BY <3>1, <4>1, <4>2 DEF Max
    <3>3. (1 .. k) \ {k} = 1 .. k - 1
      BY <1>1
    <3> QED
      BY <2>2, <2>4, <3>1, <3>2, <3>3
  <2> QED
    BY <2>3, <2>4
<1>6. h = [k \in 0 .. n |-> h[k]]
  OBVIOUS
<1>7. n \in 0 .. n
  BY <1>1
<1>8. h[n] = f[1 .. n]
  BY <1>7
<1> HIDE DEF h
<1>9. Steps(h, v, base, s)
  BY <1>5, <1>6 DEF Steps, n
<1> QED
  BY <1>4, <1>8, <1>9 DEF n

(* Two folds that do the same with the elements are the same. *)
LEMMA FoldSame ==
  ASSUME NEW S, NEW s \in Seq(S), NEW v, NEW w, NEW base, \A k \in DOMAIN s : v[s[k]] = w[s[k]]
  PROVE  Folded(v, base, s) = Folded(w, base, s)
<1> DEFINE n == Len(s)
<1>1. n \in Nat /\ DOMAIN s = 1 .. n
  BY LenProperties
<1>2. PICK h : Steps(h, v, base, s) /\ Folded(v, base, s) = h[n]
  BY FoldSteps
<1>3. PICK i : Steps(i, w, base, s) /\ Folded(w, base, s) = i[n]
  BY FoldSteps
<1> DEFINE T == {k \in Nat : k <= n => h[k] = i[k]}
<1>4. 0 \in T
  BY <1>1, <1>2, <1>3 DEF Steps
<1>5. ASSUME NEW k \in Nat, k \in T PROVE k + 1 \in T
  <2> SUFFICES ASSUME k + 1 <= n PROVE h[k + 1] = i[k + 1]
    OBVIOUS
  <2>1. k + 1 \in 0 .. n /\ k + 1 \in DOMAIN s /\ k + 1 # 0 /\ (k + 1) - 1 = k /\ h[k] = i[k]
    BY <1>1, <1>5
  <2>2. h[k + 1] = v[s[k + 1]][h[k]] /\ i[k + 1] = w[s[k + 1]][i[k]]
    BY <1>2, <1>3, <2>1 DEF Steps
  <2> QED
    BY <2>1, <2>2
<1>6. Nat \subseteq T
  <2> HIDE DEF T
  <2> QED
    BY <1>4, <1>5, SetInduction
<1>7. h[n] = i[n]
  BY <1>1, <1>6
<1> QED
  BY <1>2, <1>3, <1>7

(* The fold of the first k elements. *)
Upto(v, base, s, k) ==
  (CHOOSE h : Steps(h, v, base, s) /\ Folded(v, base, s) = h[Len(s)])[k]

(* A fold begins with the base, ends with all the elements, and folds each after
   those before it. *)
LEMMA UptoIs ==
  ASSUME NEW S, NEW s \in Seq(S), NEW v, NEW base
  PROVE  /\ Upto(v, base, s, 0) = base
         /\ Folded(v, base, s) = Upto(v, base, s, Len(s))
<1> DEFINE h == CHOOSE h : Steps(h, v, base, s) /\ Folded(v, base, s) = h[Len(s)]
<1>1. Steps(h, v, base, s) /\ Folded(v, base, s) = h[Len(s)]
  BY FoldSteps
<1>2. \A k : Upto(v, base, s, k) = h[k]
  BY DEF Upto
<1> HIDE DEF h
<1>3. Len(s) \in Nat
  OBVIOUS
<1>4. h[0] = base
  BY <1>1, <1>3 DEF Steps
<1> QED
  BY <1>1, <1>2, <1>4

LEMMA UptoNext ==
  ASSUME NEW S, NEW s \in Seq(S), NEW v, NEW base, NEW k \in Nat, NEW j, j = k + 1, j <= Len(s),
         NEW o, o = Upto(v, base, s, k), NEW e, e = s[j]
  PROVE  Upto(v, base, s, j) = v[e][o]
<1> DEFINE h == CHOOSE h : Steps(h, v, base, s) /\ Folded(v, base, s) = h[Len(s)]
<1>1. Steps(h, v, base, s)
  BY FoldSteps
<1>2. \A i : Upto(v, base, s, i) = h[i]
  BY DEF Upto
<1> HIDE DEF h
<1>3. j \in 0 .. Len(s) /\ j # 0 /\ j - 1 = k
  OBVIOUS
<1>4. h[j] = v[s[j]][h[k]]
  BY <1>1, <1>3 DEF Steps
<1> QED
  BY <1>2, <1>4

-----------------------------------------------------------------------------
(* The recursion of PostOrder: the function that it names exists, on nodes that do
   not wait for one another. *)

(* What visit makes of an order when v visits the dependencies. *)
Visited(ins, bounds, v, n, o) ==
  IF Contains(o, n) THEN o
  ELSE IF n \in bounds THEN Append(o, n)
  ELSE Append(Folded(v, o, ins[n]), n)

Visit(N, ins, bounds, v, n) == [o \in Seq(N) |-> Visited(ins, bounds, v, n, o)]

Visiting(N, ins, bounds, v) == v = [n \in N |-> Visit(N, ins, bounds, v, n)]

Waits(N) == [n \in N |-> Deps(n)]

LEMMA PostOrderIs ==
  ASSUME NEW N, NEW ins, NEW bounds, NEW targets, \E v : Visiting(N, ins, bounds, v)
  PROVE  \E v : /\ Visiting(N, ins, bounds, v)
                /\ PostOrder(N, ins, bounds, targets) = Folded(v, <<>>, targets)
<1> DEFINE v == CHOOSE u : Visiting(N, ins, bounds, u)
<1>1. PostOrder(N, ins, bounds, targets) = Folded(v, <<>>, targets)
  BY DEF PostOrder, Folded, Visited, Visit, Visiting
<1>2. Visiting(N, ins, bounds, v)
  OBVIOUS
<1> QED
  BY <1>1, <1>2

(* A visit depends on what is done with the dependencies only. *)
LEMMA VisitDepends ==
  ASSUME problem \in Problem, NEW N \in SUBSET Node, NEW n \in N, NEW v, NEW w,
         \A m \in DepSet(n) : v[m] = w[m]
  PROVE  Visit(N, Waits(N), problem.boundary, v, n) = Visit(N, Waits(N), problem.boundary, w, n)
<1> DEFINE b == problem.boundary
<1>1. Deps(n) \in Seq(Node) /\ Waits(N)[n] = Deps(n)
  BY DepsType DEF Waits
<1>2. ASSUME NEW o
      PROVE  Visited(Waits(N), b, v, n, o) = Visited(Waits(N), b, w, n, o)
  <2>1. CASE n \in b
    BY <2>1 DEF Visited
  <2>2. CASE n \notin b
    <3>1. DOMAIN Deps(n) = 1 .. Len(Deps(n))
      BY <1>1
    <3>2. \A k \in DOMAIN Deps(n) : v[Deps(n)[k]] = w[Deps(n)[k]]
      BY <2>2, <3>1 DEF DepSet
    <3>3. Folded(v, o, Deps(n)) = Folded(w, o, Deps(n))
      BY <1>1, <3>2, FoldSame
    <3> QED
      BY <1>1, <3>3 DEF Visited
  <2> QED
    BY <2>1, <2>2
<1> QED
  BY <1>2 DEF Visit

(* The function, on a part of the nodes with what they wait for. *)
Partial(N, f) ==
  /\ DOMAIN f \subseteq N
  /\ \A n \in DOMAIN f : DepSet(n) \subseteq DOMAIN f
  /\ \A n \in DOMAIN f : f[n] = Visit(N, Waits(N), problem.boundary, f, n)

(* Where two parts meet they agree. *)
LEMMA PartialsAgree ==
  ASSUME problem \in Problem, NEW N \in SUBSET Node, Grounds(N),
         NEW f, Partial(N, f), NEW g, Partial(N, g)
  PROVE  \A n \in DOMAIN f \cap DOMAIN g : f[n] = g[n]
<1> DEFINE D == {m \in DOMAIN f \cap DOMAIN g : f[m] # g[m]}
<1>1. SUFFICES ASSUME D # {} PROVE FALSE
  OBVIOUS
<1>2. D \in SUBSET N
  BY DEF Partial
<1>3. PICK m \in D : DepSet(m) \cap D = {}
  BY <1>1, <1>2 DEF Grounds
<1>4. \A k \in DepSet(m) : f[k] = g[k]
  BY <1>3 DEF Partial
<1>5. Visit(N, Waits(N), problem.boundary, f, m) = Visit(N, Waits(N), problem.boundary, g, m)
  BY <1>2, <1>4, VisitDepends
<1> QED
  BY <1>3, <1>5 DEF Partial

(* The parts put together cover the nodes: a first node left out could be added. *)
LEMMA VisitExists ==
  ASSUME problem \in Problem, NEW N \in SUBSET Node, Grounds(N), Closed(N)
  PROVE  \E v : Visiting(N, Waits(N), problem.boundary, v)
<1> DEFINE V(f, n) == Visit(N, Waits(N), problem.boundary, f, n)
           Covers(f, n) == Partial(N, f) /\ n \in DOMAIN f
           C == {n \in N : \E f : Covers(f, n)}
           h == [n \in C |-> (CHOOSE f : Covers(f, n))[n]]
<1>1. ASSUME NEW f, NEW n, Covers(f, n)
      PROVE  n \in C /\ h[n] = f[n]
  <2>1. n \in C
    BY <1>1 DEF Partial
  <2>2. Covers(CHOOSE g : Covers(g, n), n)
    BY <1>1
  <2> QED
    BY <1>1, <2>1, <2>2, PartialsAgree
<1>2. ASSUME NEW n \in C
      PROVE  DepSet(n) \subseteq C /\ h[n] = V(h, n)
  <2>1. PICK f : Covers(f, n)
    OBVIOUS
  <2>2. \A m \in DepSet(n) : Covers(f, m)
    BY <2>1 DEF Partial
  <2>3. \A m \in DepSet(n) : m \in C /\ h[m] = f[m]
    BY <1>1, <2>2
  <2>4. V(f, n) = V(h, n)
    <3>1. n \in N
      OBVIOUS
    <3> HIDE DEF C, h
    <3> QED
      BY <2>3, <3>1, VisitDepends
  <2>5. h[n] = f[n] /\ f[n] = V(f, n)
    BY <1>1, <2>1 DEF Partial
  <2> QED
    BY <2>3, <2>4, <2>5
<1>3. C = N
  <2>1. SUFFICES ASSUME N \ C # {} PROVE FALSE
    OBVIOUS
  <2>2. PICK n \in N \ C : DepSet(n) \cap (N \ C) = {}
    BY <2>1 DEF Grounds
  <2>3. DepSet(n) \subseteq C
    BY <2>2 DEF Closed
  <2> DEFINE e == [m \in C \cup {n} |-> IF m = n THEN V(h, n) ELSE h[m]]
  <2>4. \A m \in C \cup {n} : \A k \in DepSet(m) : k \in C /\ e[k] = h[k]
    BY <1>2, <2>3, <2>2
  <2>5. \A m \in C \cup {n} : V(e, m) = V(h, m)
    <3> SUFFICES ASSUME NEW m \in C \cup {n}
                 PROVE  V(e, m) = V(h, m)
      OBVIOUS
    <3>1. m \in N
      OBVIOUS
    <3> HIDE DEF e, h, C
    <3> QED
      BY <2>4, <3>1, VisitDepends
  <2>6. \A m \in C \cup {n} : e[m] = V(e, m)
    BY <1>2, <2>2, <2>5
  <2>7. Covers(e, n)
    <3>1. DOMAIN e = C \cup {n} /\ C \cup {n} \subseteq N
      OBVIOUS
    <3> HIDE DEF e, h, C
    <3> QED
      BY <2>4, <2>6, <3>1 DEF Partial
  <2> HIDE DEF e, h
  <2> QED
    BY <2>2, <2>7
<1>4. h = [n \in N |-> h[n]] /\ \A n \in N : h[n] = V(h, n)
  BY <1>2, <1>3
<1> HIDE DEF C, h, Covers
<1> QED
  BY <1>4 DEF Visiting

-----------------------------------------------------------------------------
(* The search does what the recursion does.  A frame is a visit that has begun: it
   has folded, from the order that it started with, the dependencies that it went
   through.  Visiting a node again changes nothing, since it is in the order. *)

(* What the order is, with the top frame f and the order o that it started with: the
   dependency the frame waits for may be in it already. *)
Reached(v, o, f) ==
  \/ order = Upto(v, o, Deps(f.node), f.input)
  \/ /\ ~Ready(f) /\ Precursor(f) \in done
     /\ order = Upto(v, o, Deps(f.node), f.input + 1)

(* The frames start with the orders start. *)
Started(v, N, start) ==
  /\ start \in [1 .. Len(stack) -> Seq(N)]
  /\ start[1] = Upto(v, <<>>, problem.targets, upcoming - 2)
  /\ \A p \in 1 .. Len(stack) :
       /\ ~Contains(start[p], stack[p].node)
       /\ stack[p].node \in problem.boundary => stack[p].input = 0
       /\ p < Len(stack) =>
            start[p + 1] = Upto(v, start[p], Deps(stack[p].node), stack[p].input)
  /\ Reached(v, start[Len(stack)], Top)

Follows(v, N) ==
  /\ upcoming - 1 <= Len(problem.targets)
  /\ stack = <<>> => order = Upto(v, <<>>, problem.targets, upcoming - 1)
  /\ stack # <<>> =>
       /\ upcoming >= 2 /\ stack[1].node = problem.targets[upcoming - 1]
       /\ \E start : Started(v, N, start)

(* v visits the nodes N, with what the targets need. *)
Visitor(v, N) ==
  /\ N \in SUBSET Node /\ Targets \subseteq N /\ Closed(N)
  /\ Visiting(N, Waits(N), problem.boundary, v)

DInv == \A N, v : Visitor(v, N) => Follows(v, N)

(* What a visitor does. *)
LEMMA VisitorFacts ==
  ASSUME IInv, NEW N, NEW v, Visitor(v, N)
  PROVE  /\ order \in Seq(N) /\ <<>> \in Seq(N)
         /\ Needed \subseteq N /\ Targets \subseteq N
         /\ \A n : Contains(order, n) <=> n \in done
         /\ \A n \in done : v[n][order] = order
         /\ \A n \in N, o \in Seq(N) : ~Contains(o, n) /\ n \in problem.boundary =>
              v[n][o] = Append(o, n)
         /\ \A n \in N, o \in Seq(N) : ~Contains(o, n) /\ n \notin problem.boundary =>
              v[n][o] = Append(Upto(v, o, Deps(n), Len(Deps(n))), n)
<1>0. /\ problem \in Problem /\ order \in Seq(Node) /\ N \in SUBSET Node
      /\ Targets \subseteq N /\ Closed(N) /\ DoneOK
  BY DEF IInv, TypeOK, Visitor
<1>1. Needed \subseteq N
  BY <1>0 DEF Needed
<1>2. Len(order) \in Nat /\ \A k \in 1 .. Len(order) : order[k] \in N
  BY <1>0, <1>1 DEF DoneOK
<1>3. order \in Seq(N) /\ <<>> \in Seq(N)
  <2>1. order \in [1 .. Len(order) -> N]
    BY <1>0, <1>2
  <2> QED
    BY <1>2, <2>1, SeqDef
<1>4. \A n : Contains(order, n) <=> n \in done
  BY <1>0 DEF DoneOK, Contains
<1>5. \A n \in N, o \in Seq(N) : v[n][o] = Visited(Waits(N), problem.boundary, v, n, o)
  <2> DEFINE F(n, o) == Visited(Waits(N), problem.boundary, v, n, o)
  <2>1. v = [n \in N |-> [o \in Seq(N) |-> F(n, o)]]
    BY DEF Visitor, Visiting, Visit
  <2> HIDE DEF F
  <2>2. \A n \in N, o \in Seq(N) : v[n][o] = F(n, o)
    BY <2>1
  <2> QED
    BY <2>2 DEF F
<1>6. \A n \in done : n \in N
  BY <1>0, <1>1 DEF DoneOK
<1>7. \A n \in done : v[n][order] = order
  BY <1>3, <1>4, <1>5, <1>6 DEF Visited
<1>8. \A n \in N, o \in Seq(N) : ~Contains(o, n) /\ n \in problem.boundary =>
              v[n][o] = Append(o, n)
  BY <1>5 DEF Visited
<1>9. ASSUME NEW n \in N, NEW o \in Seq(N), ~Contains(o, n), n \notin problem.boundary
      PROVE  v[n][o] = Append(Upto(v, o, Deps(n), Len(Deps(n))), n)
  <2>1. Deps(n) \in Seq(Node) /\ Waits(N)[n] = Deps(n)
    BY <1>0, DepsType DEF Waits
  <2>2. Folded(v, o, Deps(n)) = Upto(v, o, Deps(n), Len(Deps(n)))
    BY <2>1, UptoIs
  <2> QED
    BY <1>5, <1>9, <2>1, <2>2 DEF Visited
<1> QED
  BY <1>0, <1>1, <1>3, <1>4, <1>7, <1>8, <1>9

(* The visitors are the same after a step. *)
LEMMA VisitorFixed ==
  ASSUME problem' = problem, NEW N, NEW v, Visitor(v, N)'
  PROVE  Visitor(v, N)
<1>1. Waits(N)' = Waits(N)
  BY ProblemFixed DEF Waits
<1> QED
  BY <1>1, ProblemFixed DEF Visitor

(* The top frame is reached when the dependencies it went through are folded, or
   also the one that it waits for. *)
LEMMA TopReached ==
  ASSUME problem' = problem, NEW v, NEW o, NEW f, Top' = f,
         order' = Upto(v, o, Deps(f.node), f.input)
  PROVE  Reached(v, o, Top)'
  BY ProblemFixed DEF Reached

LEMMA TopWaits ==
  ASSUME problem' = problem, NEW v, NEW o, NEW f, Top' = f, ~Ready(f), Precursor(f) \in done',
         order' = Upto(v, o, Deps(f.node), f.input + 1)
  PROVE  Reached(v, o, Top)'
  BY ProblemFixed DEF Reached

LEMMA StartedAfter ==
  ASSUME problem' = problem, upcoming' = upcoming, NEW v, NEW N, NEW L, Len(stack') = L,
         NEW start \in [1 .. L -> Seq(N)],
         start[1] = Upto(v, <<>>, problem.targets, upcoming - 2),
         \A p \in 1 .. L :
           /\ ~Contains(start[p], stack'[p].node)
           /\ stack'[p].node \in problem.boundary => stack'[p].input = 0
           /\ p < L => start[p + 1] = Upto(v, start[p], Deps(stack'[p].node), stack'[p].input),
         \A o : o = start[L] => Reached(v, o, Top)'
  PROVE  Started(v, N, start)'
<1>1. start[1] = Upto(v, <<>>, problem'.targets, upcoming' - 2)
  OBVIOUS
<1>2. ASSUME NEW p \in 1 .. Len(stack')
      PROVE  /\ ~Contains(start[p], stack'[p].node)
             /\ stack'[p].node \in problem'.boundary => stack'[p].input = 0
             /\ p < Len(stack') =>
                  start[p + 1] = Upto(v, start[p], Deps(stack[p].node)', stack'[p].input)
  BY ProblemFixed
<1> QED
  BY <1>1, <1>2 DEF Started

LEMMA InitDInv == Init => DInv
<1> SUFFICES ASSUME Init, NEW N, NEW v, Visitor(v, N) PROVE Follows(v, N)
  BY DEF DInv
<1>1. problem.targets \in Seq(Node) /\ Len(problem.targets) \in Nat
  BY ProblemsAssumption DEF Init, Problem
<1>2. Upto(v, <<>>, problem.targets, 0) = <<>>
  BY <1>1, UptoIs
<1> QED
  BY <1>1, <1>2 DEF Init, Follows

(* A target in the order: its visit changes nothing. *)
LEMMA SkipTargetFollows ==
  ASSUME IInv, NEW N, NEW v, Visitor(v, N), Follows(v, N), SkipTarget
  PROVE  Follows(v, N)'
<1>1. /\ problem' = problem /\ stack' = stack /\ stack = <<>> /\ order' = order
      /\ upcoming' = upcoming + 1
  BY DEF SkipTarget, BetweenTargets
<1>2. /\ problem.targets \in Seq(Node) /\ Len(problem.targets) \in Nat
      /\ upcoming \in Nat \ {0} /\ upcoming - 1 < Len(problem.targets)
  BY DEF IInv, TypeOK, Problem, SkipTarget
<1>3. order = Upto(v, <<>>, problem.targets, upcoming - 1)
  BY <1>1 DEF Follows
<1>4. v[problem.targets[upcoming]][order] = order
  BY VisitorFacts DEF SkipTarget
<1>5. Upto(v, <<>>, problem.targets, upcoming) = v[problem.targets[upcoming]][order]
  <2>1. upcoming - 1 \in Nat /\ (upcoming - 1) + 1 = upcoming
    BY <1>2
  <2>2. upcoming <= Len(problem.targets)
    BY <1>2
  <2> QED
    BY <1>2, <1>3, <2>1, <2>2, UptoNext
<1> QED
  BY <1>1, <1>2, <1>4, <1>5 DEF Follows

(* The visit of a target begins. *)
LEMMA StartTargetFollows ==
  ASSUME IInv, NEW N, NEW v, Visitor(v, N), Follows(v, N), StartTarget
  PROVE  Follows(v, N)'
<1> DEFINE t == problem.targets[upcoming]
           start == [p \in 1 .. 1 |-> order]
<1>1. /\ problem' = problem /\ stack = <<>> /\ order' = order /\ done' = done
      /\ upcoming' = upcoming + 1 /\ stack' = <<Frame(t, 0)>>
  BY DEF StartTarget, BetweenTargets
<1>2. /\ problem \in Problem /\ upcoming \in Nat \ {0} /\ Len(problem.targets) \in Nat
      /\ upcoming \in 1 .. Len(problem.targets)
  BY DEF IInv, TypeOK, Problem, StartTarget
<1>3. order = Upto(v, <<>>, problem.targets, upcoming - 1)
  BY <1>1 DEF Follows
<1>4. /\ order \in Seq(N) /\ ~Contains(order, t)
  BY VisitorFacts DEF StartTarget
<1>5. Deps(t) \in Seq(Node)
  BY <1>2, TargetsNeeded, DepsType DEF Needed
<1>6. order = Upto(v, order, Deps(t), 0)
  BY <1>5, UptoIs
<1>7. Len(stack') = 1 /\ stack'[1] = Frame(t, 0) /\ stack' # <<>>
  BY <1>1
<1>8. Top' = Frame(t, 0)
  BY <1>7 DEF Top
<1>9. \A o : o = order => Reached(v, o, Top)'
  BY <1>1, <1>6, <1>8, TopReached DEF Frame
<1>10. Started(v, N, start)'
  BY <1>1, <1>2, <1>3, <1>4, <1>7, <1>8, <1>9 DEF Started, Frame
<1> QED
  BY <1>1, <1>2, <1>7, <1>10 DEF Follows, Frame

(* The frames, while there is one. *)
LEMMA FollowsFacts ==
  ASSUME IInv, NEW N, NEW v, Visitor(v, N), Follows(v, N), Exploring
  PROVE  /\ problem \in Problem
         /\ upcoming \in Nat /\ upcoming >= 2 /\ upcoming - 1 <= Len(problem.targets)
         /\ stack[1].node = problem.targets[upcoming - 1]
         /\ Len(stack) \in Nat \ {0} /\ Top = stack[Len(stack)]
         /\ Top.node \in N /\ Top.node \in Node /\ Top.node \notin done
         /\ Top.input \in Nat /\ Top.input <= Len(Deps(Top.node))
         /\ Deps(Top.node) \in Seq(Node)
         /\ \E start : Started(v, N, start)
<1>1. /\ problem \in Problem /\ Len(stack) \in Nat \ {0} /\ Top = stack[Len(stack)]
      /\ Top \in [node : Node, input : Nat] /\ FrameOK(Len(stack)) /\ Top.node \notin done
  BY TopFacts
<1>2. Top.node \in Needed /\ Top.input <= Len(Deps(Top.node))
  BY <1>1 DEF FrameOK
<1>3. Top.node \in Node /\ Top.input \in Nat
  BY <1>1
<1>4. Deps(Top.node) \in Seq(Node)
  BY <1>1, <1>3, DepsType
<1>5. Top.node \in N
  BY <1>2, VisitorFacts
<1>6. upcoming \in Nat /\ stack # <<>>
  BY DEF IInv, TypeOK, Exploring
<1> QED
  BY <1>1, <1>2, <1>3, <1>4, <1>5, <1>6 DEF Follows

(* A dependency in the order: its visit changes nothing. *)
LEMMA AdvanceFollows ==
  ASSUME IInv, NEW N, NEW v, Visitor(v, N), Follows(v, N), Advance
  PROVE  Follows(v, N)'
<1> DEFINE L == Len(stack)
           n == Top.node
           i == Top.input
<1>0. problem' = problem /\ Exploring /\ order' = order /\ done' = done /\ upcoming' = upcoming
  BY DEF Advance
<1>1. /\ problem \in Problem
      /\ upcoming \in Nat /\ upcoming >= 2 /\ upcoming - 1 <= Len(problem.targets)
      /\ stack[1].node = problem.targets[upcoming - 1]
      /\ L \in Nat \ {0} /\ Top = stack[L] /\ n \in Node
      /\ i \in Nat /\ i <= Len(Deps(n)) /\ Deps(n) \in Seq(Node)
      /\ \E start : Started(v, N, start)
  BY <1>0, FollowsFacts
<1>2. /\ ~Ready(Top) /\ Precursor(Top) \in done /\ Precursor(Top) = Deps(n)[i + 1]
      /\ n \notin problem.boundary /\ i # Len(Deps(n))
  BY DEF Advance, Precursor, Ready
<1>3. /\ Len(stack') = L
      /\ \A p \in 1..L : stack'[p].node = stack[p].node
      /\ \A p \in 1..L : p # L => stack'[p] = stack[p]
      /\ stack'[L] = Frame(n, i + 1)
  BY <1>1 DEF Advance, Frame, IInv, TypeOK
<1>4. PICK start : Started(v, N, start)
  BY <1>1
<1> DEFINE o == start[L]
<1>5. order = Upto(v, o, Deps(n), i + 1)
  <2>1. CASE order = Upto(v, o, Deps(n), i)
    <3>1. Upto(v, o, Deps(n), i + 1) = v[Deps(n)[i + 1]][order]
      <4>1. i + 1 <= Len(Deps(n)) /\ i \in Nat /\ Deps(n) \in Seq(Node)
        BY <1>1, <1>2
      <4> HIDE DEF n, i, o
      <4> QED
        BY ONLY <2>1, <4>1, UptoNext
    <3> QED
      BY <1>2, <3>1, VisitorFacts
  <2> QED
    BY <1>4, <2>1 DEF Started, Reached
<1>6. Top' = Frame(n, i + 1)
  BY <1>3 DEF Top
<1>7. \A q : q = o => Reached(v, q, Top)'
  BY <1>0, <1>5, <1>6, TopReached DEF Frame
<1>8. \A p \in 1 .. L :
        /\ ~Contains(start[p], stack'[p].node)
        /\ stack'[p].node \in problem.boundary => stack'[p].input = 0
        /\ p < L => start[p + 1] = Upto(v, start[p], Deps(stack'[p].node), stack'[p].input)
  <2> SUFFICES ASSUME NEW p \in 1 .. L
               PROVE  /\ ~Contains(start[p], stack'[p].node)
                      /\ stack'[p].node \in problem.boundary => stack'[p].input = 0
                      /\ p < L => start[p + 1] = Upto(v, start[p], Deps(stack'[p].node), stack'[p].input)
    OBVIOUS
  <2>1. CASE p = L
    BY <1>1, <1>2, <1>3, <1>4, <2>1 DEF Started
  <2>2. CASE p # L
    BY <1>3, <1>4, <2>2 DEF Started
  <2> QED
    BY <2>1, <2>2
<1>9. Started(v, N, start)'
  BY <1>0, <1>3, <1>4, <1>6, <1>7, <1>8, ProblemFixed DEF Started
<1>10. stack' # <<>> /\ stack'[1].node = stack[1].node
  BY <1>1, <1>3
<1> QED
  BY <1>0, <1>1, <1>9, <1>10 DEF Follows

(* The visit of a dependency begins. *)
LEMMA DescendFollows ==
  ASSUME IInv, NEW N, NEW v, Visitor(v, N), Follows(v, N), Descend
  PROVE  Follows(v, N)'
<1> DEFINE L == Len(stack)
           n == Top.node
           i == Top.input
           d == Precursor(Top)
<1>0. /\ problem' = problem /\ Exploring /\ order' = order /\ done' = done /\ upcoming' = upcoming
      /\ d \notin done
  BY DEF Descend
<1>1. /\ problem \in Problem
      /\ upcoming \in Nat /\ upcoming >= 2 /\ upcoming - 1 <= Len(problem.targets)
      /\ stack[1].node = problem.targets[upcoming - 1]
      /\ L \in Nat \ {0} /\ Top = stack[L] /\ n \in Node
      /\ i \in Nat /\ i <= Len(Deps(n)) /\ Deps(n) \in Seq(Node)
      /\ \E start : Started(v, N, start)
  BY <1>0, FollowsFacts
<1>2. d \in Node /\ Deps(d) \in Seq(Node)
  <2>1. Top \in [node : Node, input : Nat] /\ ~Ready(Top)
    BY <1>0, TopFacts DEF Descend
  <2> QED
    BY <1>1, <2>1, PrecursorIsDep, DepsType
<1>3. /\ Len(stack') = L + 1
      /\ \A p \in 1..L : stack'[p] = stack[p]
      /\ stack'[L + 1] = Frame(d, 0)
  BY <1>1 DEF Descend, Frame, IInv, TypeOK
<1>4. PICK start : Started(v, N, start)
  BY <1>1
<1>5. order = Upto(v, start[L], Deps(n), i)
  BY <1>0, <1>4 DEF Started, Reached
<1>m. PICK more : more = [p \in 1 .. L + 1 |-> IF p = L + 1 THEN order ELSE start[p]]
  OBVIOUS
<1>6. order \in Seq(N) /\ ~Contains(order, d)
  BY <1>0, VisitorFacts
<1>7. /\ more \in [1 .. L + 1 -> Seq(N)]
      /\ more[L + 1] = order /\ \A p \in 1 .. L : more[p] = start[p]
  <2>1. \A p \in 1 .. L + 1 : p # L + 1 => p \in 1 .. L
    BY <1>1
  <2>2. \A p \in 1 .. L : p \in 1 .. L + 1 /\ p # L + 1
    BY <1>1
  <2>3. L + 1 \in 1 .. L + 1
    BY <1>1
  <2>4. start \in [1 .. L -> Seq(N)]
    BY <1>4 DEF Started
  <2> HIDE DEF L
  <2> QED
    BY <1>m, <1>6, <2>1, <2>2, <2>3, <2>4
<1>8. Top' = Frame(d, 0)
  BY <1>3 DEF Top
<1>9. \A q : q = order => Reached(v, q, Top)'
  <2>1. order = Upto(v, order, Deps(d), 0)
    <3> HIDE DEF d
    <3> QED
      BY <1>2, UptoIs
  <2> QED
    BY <1>0, <1>8, <2>1, TopReached DEF Frame
<1>10. \A p \in 1 .. L + 1 :
        /\ ~Contains(more[p], stack'[p].node)
        /\ stack'[p].node \in problem.boundary => stack'[p].input = 0
        /\ p < L + 1 => more[p + 1] = Upto(v, more[p], Deps(stack'[p].node), stack'[p].input)
  <2> SUFFICES ASSUME NEW p \in 1 .. L + 1
               PROVE  /\ ~Contains(more[p], stack'[p].node)
                      /\ stack'[p].node \in problem.boundary => stack'[p].input = 0
                      /\ p < L + 1 =>
                           more[p + 1] = Upto(v, more[p], Deps(stack'[p].node), stack'[p].input)
    OBVIOUS
  <2>1. CASE p = L + 1
    BY <1>1, <1>3, <1>6, <1>7, <2>1 DEF Frame
  <2>2. CASE p = L
    <3>0. L \in 1 .. L
      BY <1>1
    <3>1. more[p] = start[L] /\ more[p + 1] = order /\ stack'[p] = stack[L] /\ L \in 1 .. L
      <4> HIDE DEF L
      <4> QED
        BY <1>3, <1>7, <2>2, <3>0
    <3> QED
      BY <1>1, <1>4, <1>5, <3>1 DEF Started
  <2>3. CASE p < L
    <3>1. /\ p \in 1 .. L /\ p + 1 \in 1 .. L
          /\ more[p] = start[p] /\ more[p + 1] = start[p + 1] /\ stack'[p] = stack[p]
      BY <1>1, <1>3, <1>7, <2>3
    <3> QED
      BY <1>4, <2>3, <3>1 DEF Started
  <2> QED
    BY <1>1, <2>1, <2>2, <2>3
<1>11. Started(v, N, more)'
  <2>1. more[1] = start[1] /\ more[L + 1] = order
    BY <1>1, <1>7
  <2>2. start[1] = Upto(v, <<>>, problem.targets, upcoming - 2)
    BY <1>4 DEF Started
  <2> QED
    <3>1. start[1] = Upto(v, <<>>, problem.targets, upcoming - 2) /\ more[1] = start[1]
      BY <2>1, <2>2
    <3>2. \A q : q = more[L + 1] => Reached(v, q, Top)'
      BY <1>9, <2>1
    <3> HIDE DEF L
    <3> QED
      BY <1>0, <1>3, <1>7, <1>10, <3>1, <3>2, StartedAfter
<1>12. stack' # <<>> /\ stack'[1] = stack[1]
  BY <1>1, <1>3
<1> QED
  BY <1>0, <1>1, <1>11, <1>12 DEF Follows

(* A visit ends: the frame below, or the target, has its next node visited. *)
LEMMA EmitFollows ==
  ASSUME IInv, NEW N, NEW v, Visitor(v, N), Follows(v, N), Emit
  PROVE  Follows(v, N)'
<1> DEFINE L == Len(stack)
           n == Top.node
           i == Top.input
<1>0. /\ problem' = problem /\ Exploring /\ Ready(Top) /\ upcoming' = upcoming
      /\ order' = Append(order, n) /\ done' = done \cup {n}
  BY DEF Emit
<1>1. /\ problem \in Problem
      /\ upcoming \in Nat /\ upcoming >= 2 /\ upcoming - 1 <= Len(problem.targets)
      /\ stack[1].node = problem.targets[upcoming - 1]
      /\ L \in Nat \ {0} /\ Top = stack[L] /\ n \in N
      /\ i \in Nat /\ i <= Len(Deps(n)) /\ Deps(n) \in Seq(Node)
      /\ \E start : Started(v, N, start)
  BY <1>0, FollowsFacts
<1>2. /\ stack' \in Seq([node : Node, input : Nat])
      /\ Len(stack') = L - 1
      /\ \A p \in 1..(L - 1) : stack'[p] = stack[p]
  <2>1. stack' = SubSeq(stack, 1, L - 1) /\ stack # <<>>
    BY DEF Emit, Exploring
  <2>2. stack \in Seq([node : Node, input : Nat])
    BY DEF IInv, TypeOK
  <2> QED
    BY <2>1, <2>2, SeqFacts, Zenon
<1>3. PICK start : Started(v, N, start)
  BY <1>1
<1> DEFINE o == start[L]
<1>4. L \in 1 .. L /\ o \in Seq(N) /\ ~Contains(o, n) /\ (n \in problem.boundary => i = 0)
  <2>1. L \in 1 .. L
    BY <1>1
  <2> QED
    BY <1>1, <1>3, <2>1 DEF Started
<1>5. order = Upto(v, o, Deps(n), i)
  BY <1>0, <1>3 DEF Started, Reached
<1>6. order' = v[n][o]
  <2>1. CASE n \in problem.boundary
    <3>1. order = o
      <4> HIDE DEF n, i, o
      <4> QED
        BY <1>1, <1>4, <1>5, <2>1, UptoIs
    <3> QED
      BY <1>0, <1>1, <1>4, <2>1, <3>1, VisitorFacts
  <2>2. CASE n \notin problem.boundary
    <3>1. i = Len(Deps(n))
      BY <1>0, <2>2 DEF Ready
    <3> HIDE DEF n, i, o
    <3>2. v[n][o] = Append(Upto(v, o, Deps(n), Len(Deps(n))), n)
      BY <1>1, <1>4, <2>2, VisitorFacts
    <3> QED
      BY <1>0, <1>5, <3>1, <3>2
  <2> QED
    BY <2>1, <2>2
<1>7. CASE L = 1
  <2>1. stack' = <<>>
    BY <1>2, <1>7
  <2>2. o = Upto(v, <<>>, problem.targets, upcoming - 2) /\ n = problem.targets[upcoming - 1]
    BY <1>1, <1>3, <1>7 DEF Started
  <2>3. Upto(v, <<>>, problem.targets, upcoming - 1) = v[n][o]
    <3>1. /\ upcoming - 2 \in Nat /\ (upcoming - 2) + 1 = upcoming - 1
          /\ upcoming - 2 < Len(problem.targets) /\ problem.targets \in Seq(Node)
      BY <1>1 DEF Problem
    <3> HIDE DEF n, o
    <3>2. upcoming - 1 <= Len(problem.targets)
      BY <1>1
    <3> QED
      BY ONLY <2>2, <3>1, <3>2, UptoNext
  <2> QED
    BY <1>0, <1>1, <1>6, <2>1, <2>3 DEF Follows
<1>8. CASE L # 1
  <2> DEFINE K == L - 1
             f == stack[K]
  <2>0. PICK less : less = [p \in 1 .. K |-> start[p]]
    OBVIOUS
  <2>1. K \in Nat \ {0} /\ K \in 1 .. L /\ K < L /\ K + 1 = L /\ 1 \in 1 .. K
    <3>1. L \in Nat \ {0}
      BY <1>1
    <3> HIDE DEF L
    <3> QED
      BY <1>8, <3>1
  <2>2. /\ FrameOK(K) /\ ~Ready(f) /\ Precursor(f) = n
        /\ f \in [node : Node, input : Nat]
    <3>1. FrameOK(K) /\ stack \in Seq([node : Node, input : Nat])
      BY <2>1 DEF IInv, FramesOK, TypeOK
    <3>2. f \in [node : Node, input : Nat]
      BY <2>1, <3>1, StackFrames
    <3> QED
      BY <1>1, <2>1, <3>1, <3>2 DEF FrameOK
  <2>3. /\ f.node \in Node /\ f.input \in Nat /\ f.input <= Len(Deps(f.node))
        /\ Deps(f.node) \in Seq(Node) /\ n = Deps(f.node)[f.input + 1]
        /\ f.input # Len(Deps(f.node))
    BY <1>1, <2>2, DepsType DEF FrameOK, Precursor, Ready
  <2>4. o = Upto(v, start[K], Deps(f.node), f.input)
    BY <1>3, <2>1 DEF Started
  <2>5. order' = Upto(v, start[K], Deps(f.node), f.input + 1)
    <3>1. f.input + 1 <= Len(Deps(f.node))
      BY <2>3
    <3> HIDE DEF f, K, n, o
    <3>2. Upto(v, start[K], Deps(f.node), f.input + 1) = v[n][o]
      BY ONLY <2>3, <2>4, <3>1, UptoNext
    <3> QED
      BY <1>6, <3>2
  <2>6. Top' = f
    BY <1>2, <2>1 DEF Top
  <2>7. \A q : q = start[K] => Reached(v, q, Top)'
    <3>1. n \in done'
      BY <1>0
    <3> HIDE DEF f, K
    <3> QED
      BY <1>0, <2>2, <2>5, <2>6, <3>1, TopWaits
  <2>8. less \in [1 .. K -> Seq(N)] /\ \A p \in 1 .. K : less[p] = start[p]
    <3>1. start \in [1 .. L -> Seq(N)] /\ \A p \in 1 .. K : p \in 1 .. L
      BY <1>3, <2>1 DEF Started
    <3> HIDE DEF K, L
    <3> QED
      BY <2>0, <3>1
  <2>9. \A p \in 1 .. K :
        /\ ~Contains(start[p], stack'[p].node)
        /\ stack'[p].node \in problem.boundary => stack'[p].input = 0
        /\ p < K => start[p + 1] = Upto(v, start[p], Deps(stack'[p].node), stack'[p].input)
    <3> SUFFICES ASSUME NEW p \in 1 .. K
                 PROVE  /\ ~Contains(start[p], stack'[p].node)
                        /\ stack'[p].node \in problem.boundary => stack'[p].input = 0
                        /\ p < K => start[p + 1] = Upto(v, start[p], Deps(stack'[p].node), stack'[p].input)
      OBVIOUS
    <3>1. p \in 1 .. L /\ p < L /\ stack'[p] = stack[p]
      BY <1>2, <2>1
    <3> QED
      BY <1>3, <3>1 DEF Started
  <2>10. less[1] = start[1] /\ less[K] = start[K] /\ Len(stack') = K
    BY <1>2, <2>1, <2>8
  <2>11. start[1] = Upto(v, <<>>, problem.targets, upcoming - 2)
    BY <1>3 DEF Started
  <2>12. \A p \in 1 .. K : p < K => less[p] = start[p] /\ less[p + 1] = start[p + 1]
    BY <2>1, <2>8
  <2> HIDE DEF K
  <2>13. Started(v, N, less)'
    <3>1. \A p \in 1 .. K :
        /\ ~Contains(less[p], stack'[p].node)
        /\ stack'[p].node \in problem.boundary => stack'[p].input = 0
        /\ p < K => less[p + 1] = Upto(v, less[p], Deps(stack'[p].node), stack'[p].input)
      BY <2>8, <2>9, <2>12
    <3>2. \A q : q = less[K] => Reached(v, q, Top)'
      BY <2>7, <2>10
    <3>3. less[1] = Upto(v, <<>>, problem.targets, upcoming - 2)
      BY <2>10, <2>11
    <3> QED
      BY <1>0, <2>8, <2>10, <3>1, <3>2, <3>3, StartedAfter
  <2>14. stack' # <<>> /\ stack'[1] = stack[1]
    BY <1>2, <2>1, <2>10
  <2> QED
    BY <1>0, <1>1, <2>13, <2>14 DEF Follows
<1> QED
  BY <1>7, <1>8

(* The search follows the recursion in every reachable state. *)
LEMMA NextDInv == IInv /\ DInv /\ [Next]_vars => DInv'
<1> SUFFICES ASSUME IInv, DInv, [Next]_vars, NEW N, NEW v, Visitor(v, N)'
             PROVE  Follows(v, N)'
  BY DEF DInv
<1>1. problem' = problem
  BY DEF Next, vars, SkipTarget, StartTarget, Emit, Advance, DetectLoop, Descend, Return
<1>2. Visitor(v, N) /\ Follows(v, N)
  BY <1>1, VisitorFixed DEF DInv
<1>3. CASE DetectLoop \/ Return \/ UNCHANGED vars
  <2>1. /\ order' = order /\ stack' = stack /\ upcoming' = upcoming /\ done' = done
        /\ Top' = Top
    BY <1>3 DEF DetectLoop, Return, vars, Top
  <2>2. \A start : Started(v, N, start)' <=> Started(v, N, start)
    BY <1>1, <2>1, ProblemFixed DEF Started, Reached
  <2> QED
    BY <1>1, <1>2, <2>1, <2>2 DEF Follows
<1> QED
  BY <1>2, <1>3, SkipTargetFollows, StartTargetFollows, EmitFollows, AdvanceFollows,
     DescendFollows DEF Next

-----------------------------------------------------------------------------
(* What a caller may rely on. *)

(* On success every needed node is ordered: the ordered nodes include the
   targets and are closed under dependency. *)
LEMMA IInvExactlyNeeded == IInv => ExactlyNeeded
<1> SUFFICES ASSUME IInv, status = "ok" PROVE done = Needed
  BY DEF IInv, DoneOK, ExactlyNeeded
<1>1. Targets \subseteq done
  <2> SUFFICES ASSUME NEW k \in 1..Len(problem.targets)
               PROVE  problem.targets[k] \in done
    BY DEF Targets
  <2>1. Len(problem.targets) \in Nat /\ upcoming \in Nat
    BY DEF IInv, TypeOK, Problem
  <2>2. stack = <<>> /\ k < upcoming
    BY <2>1 DEF IInv, TargetsOK
  <2> QED
    BY <2>2 DEF IInv, TargetsOK
<1>2. Closed(done) /\ done \subseteq Needed /\ done \in SUBSET Node
  BY DEF IInv, TypeOK, DoneOK
<1>3. Needed \subseteq done
  BY <1>1, <1>2 DEF Needed
<1> QED
  BY <1>2, <1>3

(* The verdict is right: a set of needed nodes that wait for one another has
   no node that waits for none of the others, so it cannot be all ordered. *)
LEMMA IInvLoopVerdict == IInv => LoopVerdict
<1> SUFFICES ASSUME IInv PROVE LoopVerdict
  OBVIOUS
<1>1. ASSUME status = "ok", Cyclic PROVE FALSE
  <2>1. done = Needed
    BY <1>1, IInvExactlyNeeded DEF ExactlyNeeded, IInv, DoneOK
  <2>2. PICK S \in SUBSET done : S # {} /\ \A n \in S : DepSet(n) \cap S # {}
    BY <1>1, <2>1 DEF Cyclic
  <2> QED
    BY <2>2 DEF IInv, Grounded
<1> QED
  BY <1>1 DEF IInv, LoopVerdict

(* The state of the search has the types of the code's collections. *)
THEOREM TypeCorrect == Spec => []TypeOK
<1>1. IInv => TypeOK
  BY DEF IInv
<1> QED
  BY <1>1, Invariance, PTL

(* No node is ordered twice, whatever the graph. *)
THEOREM OrderHasNoDuplicates == Spec => []NoDuplicates
<1>1. IInv => NoDuplicates
  BY DEF IInv
<1> QED
  BY <1>1, Invariance, PTL

(* Dependencies come first, whatever the graph. *)
THEOREM OrderIsTopological == Spec => []Topological
<1>1. IInv => Topological
  BY DEF IInv
<1> QED
  BY <1>1, Invariance, PTL

(* The search with its stack finds the order of the recursion: when it ends, the
   targets are folded. *)
LEMMA IInvDepthFirst == IInv /\ DInv => DepthFirst
<1> SUFFICES ASSUME IInv, DInv, status = "ok", NEW N \in SUBSET Node,
                    Targets \subseteq N, Closed(N), Grounds(N)
             PROVE  order = PostOrder(N, Waits(N), problem.boundary, problem.targets)
  BY DEF DepthFirst, Waits
<1>1. /\ problem \in Problem /\ problem.targets \in Seq(Node)
      /\ Len(problem.targets) \in Nat /\ upcoming \in Nat
  BY DEF IInv, TypeOK, Problem
<1>2. PICK v : /\ Visiting(N, Waits(N), problem.boundary, v)
               /\ PostOrder(N, Waits(N), problem.boundary, problem.targets)
                    = Folded(v, <<>>, problem.targets)
  BY <1>1, VisitExists, PostOrderIs
<1>3. Follows(v, N)
  BY <1>2 DEF DInv, Visitor
<1>4. stack = <<>> /\ upcoming > Len(problem.targets)
  BY DEF IInv, TargetsOK
<1>5. upcoming - 1 = Len(problem.targets)
  BY <1>1, <1>3, <1>4 DEF Follows
<1>6. order = Upto(v, <<>>, problem.targets, Len(problem.targets))
  BY <1>3, <1>4, <1>5 DEF Follows
<1> QED
  BY <1>1, <1>2, <1>6, UptoIs

(* An order is the one that the recursion gives, whatever the graph, on any part of
   it without a loop that has what the targets need. *)
THEOREM SearchIsDepthFirst == Spec => []DepthFirst
<1>1. Init => IInv /\ DInv
  BY InitIInv, InitDInv
<1>2. IInv /\ DInv /\ [Next]_vars => IInv' /\ DInv'
  <2>1. IInv /\ [Next]_vars => IInv'
    BY SkipTargetIInv, StartTargetIInv, EmitIInv, AdvanceIInv, DetectLoopIInv,
       DescendIInv, ReturnIInv, StutterIInv DEF Next
  <2> QED
    BY <2>1, NextDInv
<1> QED
  BY <1>1, <1>2, IInvDepthFirst, PTL DEF Spec

(* In particular on the nodes that the targets need, which have no loop when the search
   succeeds: a successful order is that of the recursion, with no condition. *)
THEOREM OrderIsRecursive ==
  Spec => [](status = "ok" =>
               order = PostOrder(Needed, Waits(Needed), problem.boundary, problem.targets))
<1>1. ASSUME IInv, DepthFirst, status = "ok"
      PROVE  order = PostOrder(Needed, Waits(Needed), problem.boundary, problem.targets)
  <2>1. done = Needed /\ Needed \in SUBSET Node
    BY <1>1, IInvExactlyNeeded DEF ExactlyNeeded, IInv, DoneOK, Needed
  <2>2. Targets \subseteq Needed
    BY <1>1, TargetsNeeded DEF Targets, IInv, TypeOK
  <2>3. Closed(Needed) /\ Grounds(Needed)
    BY <1>1, <2>1 DEF IInv, DoneOK, Grounded, Grounds
  <2> QED
    BY <1>1, <2>1, <2>2, <2>3 DEF DepthFirst, Waits
<1>2. IInv /\ DepthFirst =>
        (status = "ok" =>
           order = PostOrder(Needed, Waits(Needed), problem.boundary, problem.targets))
  BY <1>1
<1> QED
  BY <1>2, Invariance, SearchIsDepthFirst, PTL

(* A successful order is exactly what the targets need. *)
THEOREM OrderIsExact == Spec => []ExactlyNeeded
  BY IInvExactlyNeeded, Invariance, PTL

(* What a plan takes for granted of an order, whatever the graph. *)
THEOREM OrderIsRight == Spec => []ExactOrder
<1>1. IInv => NoDuplicates /\ Topological /\ ExactlyNeeded
  BY IInvExactlyNeeded DEF IInv
<1>2. NoDuplicates /\ Topological /\ ExactlyNeeded /\ DepthFirst => ExactOrder
  BY DEF ExactOrder
<1> QED
  BY <1>1, <1>2, Invariance, SearchIsDepthFirst, PTL

(* What SimplePlan assumes of the order of a plan is what the search returns, whatever
   the graph and the additional dependencies. *)
THEOREM OrderFitsPlans ==
  Spec => [](status = "ok" =>
               RunsInOrder(order, problem.inputs, problem.boundary, problem.targets))
<1>1. ASSUME IInv, status = "ok"
      PROVE  RunsInOrder(order, problem.inputs, problem.boundary, problem.targets)
  <2>1. problem \in Problem /\ order \in Seq(Node)
    BY <1>1 DEF IInv, TypeOK
  <2>2. \A j, k \in 1 .. Len(order) : order[j] = order[k] => j = k
    BY <1>1 DEF IInv, NoDuplicates
  <2>3. ASSUME NEW k \in 1 .. Len(order), order[k] \notin problem.boundary,
               NEW j \in 1 .. Len(problem.inputs[order[k]])
        PROVE  \E i \in 1 .. (k - 1) : order[i] = problem.inputs[order[k]][j]
    <3>1. order[k] \in Node
      BY <2>1
    <3>2. /\ problem.inputs[order[k]] \in Seq(Node) /\ problem.more[order[k]] \in Seq(Node)
      BY <2>1, <3>1 DEF Problem
    <3>3. /\ j \in 1 .. Len(Deps(order[k]))
          /\ Deps(order[k])[j] = problem.inputs[order[k]][j]
      <4> DEFINE a == problem.inputs[order[k]]
                 b == problem.more[order[k]]
      <4>1. a \in Seq(Node) /\ b \in Seq(Node) /\ j \in 1 .. Len(a) /\ Deps(order[k]) = a \o b
        BY <2>3, <3>2 DEF Deps
      <4> HIDE DEF a, b
      <4>2. j \in 1 .. Len(a \o b) /\ (a \o b)[j] = a[j]
        BY <4>1
      <4> QED
        BY <4>1, <4>2 DEF a
    <3>4. \E i \in 1 .. (k - 1) : order[i] = Deps(order[k])[j]
      BY <1>1, <2>3, <3>3 DEF IInv, Topological
    <3> QED
      BY <3>3, <3>4
  <2>4. ASSUME NEW t \in 1 .. Len(problem.targets)
        PROVE  \E k \in 1 .. Len(order) : order[k] = problem.targets[t]
    <3>1. problem.targets[t] \in Needed
      BY <2>1, TargetsNeeded
    <3>2. {order[k] : k \in 1 .. Len(order)} = Needed
      BY <1>1, IInvExactlyNeeded DEF ExactlyNeeded
    <3> QED
      BY <3>1, <3>2
  <2> QED
    BY <2>2, <2>3, <2>4 DEF RunsInOrder
<1> QED
  BY <1>1, Invariance, PTL

(* "Loop detected" is reported on the graphs with a loop and on no other. *)
THEOREM LoopsAreReported == Spec => []LoopVerdict
  BY IInvLoopVerdict, Invariance, PTL

=============================================================================
