-------------------------- MODULE SimplePlan_proofs --------------------------
(***************************************************************************)
(* Proofs about SimplePlan, for every plan, operator and number of calls.  *)
(* The argument follows the run: a node that a step has gone past has a    *)
(* value, or is neither an output nor read by the steps that are left.     *)
(***************************************************************************)
EXTENDS SimplePlan, TLAPS

(* The nodes evaluated by the run so far are those of the steps it is past. *)
RunPrefix ==
  call.at = "running" =>
    since.ran = [i \in 1..(call.step - 1) |-> plan.order[i]]

(* A node gone past is computed unless nothing needs it any more. *)
GonePast ==
  call.at = "running" =>
    \A i \in 1..(call.step - 1) :
      \/ Computed(plan.order[i])
      \/ /\ plan.order[i] \notin Outputs
         /\ \A k \in call.step..Len(plan.order) : plan.order[i] \notin InputsOf(plan.order[k])

StartsFresh == call.at = "feeding" => since.ran = <<>>

(* Each nested call has the inputs its loop went past. *)
FrameReady(f, wiring, computed) ==
  /\ f.input <= Len(wiring[f.node])
  /\ \A j \in 1..f.input : wiring[f.node][j] \in computed

StackReady ==
  call.at = "recursing" =>
    \A p \in 1..Depth : FrameReady(call.stack[p], plan.inputs, DOMAIN values)

IInv ==
  /\ TypeOK
  /\ StartsFresh
  /\ RunPrefix
  /\ GonePast
  /\ NothingHeldTooLong
  /\ StackReady

(* The facts on a plan that the proofs use. *)
LEMMA PlanFacts ==
  ASSUME plan \in Plans
  PROVE  /\ plan.order \in Seq(Node) /\ Len(plan.order) \in Nat
         /\ plan.interface \in Seq(Node) /\ Len(plan.interface) \in Nat
         /\ \A k \in 1..Len(plan.order) : plan.order[k] \in Node
         /\ Outputs \subseteq Members(plan.order)
         /\ plan.fact \in [Node -> Fact] /\ plan.inputs \in [Node -> Seq(Node)]
         /\ \A k \in 1..Len(plan.interface) : plan.interface[k] \in Node
         /\ \A j, k \in 1..Len(plan.order) : plan.order[j] = plan.order[k] => j = k
         /\ \A k \in 1..Len(plan.order) : plan.order[k] \notin Members(plan.interface) =>
              \A m \in InputsOf(plan.order[k]) :
                \E i \in 1..(k - 1) : plan.order[i] = m
<1>1. plan \in Plan /\ WellOrdered(plan)
  BY PlansAssumption
<1>2. /\ plan.order \in Seq(Node) /\ plan.interface \in Seq(Node)
      /\ plan.inputs \in [Node -> Seq(Node)] /\ plan.fact \in [Node -> Fact]
  BY <1>1 DEF Plan
<1>3. /\ \A k \in 1..Len(plan.order) : plan.order[k] \in Node
      /\ \A k \in 1..Len(plan.interface) : plan.interface[k] \in Node
      /\ Len(plan.order) \in Nat /\ Len(plan.interface) \in Nat
  BY <1>2
<1>4. Outputs \subseteq Members(plan.order)
  BY <1>1 DEF WellOrdered, RunsInOrder, Outputs, Members
<1>5. \A j, k \in 1..Len(plan.order) : plan.order[j] = plan.order[k] => j = k
  BY <1>1 DEF WellOrdered, RunsInOrder
<1>6. ASSUME NEW k \in 1..Len(plan.order), plan.order[k] \notin Members(plan.interface),
             NEW m \in InputsOf(plan.order[k])
      PROVE  \E i \in 1..(k - 1) : plan.order[i] = m
  <2>1. PICK j \in 1..Len(plan.inputs[plan.order[k]]) : m = plan.inputs[plan.order[k]][j]
    BY <1>6 DEF InputsOf, Members
  <2> QED
    BY <1>1, <1>6, <2>1 DEF WellOrdered, RunsInOrder
<1> QED
  BY <1>2, <1>3, <1>4, <1>5, <1>6

-----------------------------------------------------------------------------
(* Type correctness. *)

(* The initial states are of the right type. *)
LEMMA InitTypeOK == Init => TypeOK
BY BoundsAssumption DEF Init, TypeOK, Nothing, Idle

(* What a stack holds... *)
LEMMA StackFacts ==
  ASSUME NEW F, NEW s \in Seq(F) \ {<<>>}
  PROVE  Len(s) \in Nat \ {0} /\ \A p \in 1..Len(s) : s[p] \in F
OBVIOUS

(* ... when a frame is pushed, ... *)
LEMMA PushFacts ==
  ASSUME NEW F, NEW s \in Seq(F) \ {<<>>}, NEW f \in F
  PROVE  /\ Append(s, f) \in Seq(F) \ {<<>>}
         /\ Len(Append(s, f)) = Len(s) + 1
         /\ Append(s, f)[Len(s) + 1] = f
         /\ \A p \in 1..Len(s) : Append(s, f)[p] = s[p]
OBVIOUS

WithTop(s, f) == [s EXCEPT ![Len(s)] = f]

(* ... when the last one is replaced, ... *)
LEMMA ReplaceFacts ==
  ASSUME NEW F, NEW s \in Seq(F) \ {<<>>}, NEW f \in F
  PROVE  /\ WithTop(s, f) \in Seq(F) \ {<<>>}
         /\ Len(WithTop(s, f)) = Len(s)
         /\ WithTop(s, f)[Len(s)] = f
         /\ \A p \in 1..(Len(s) - 1) : WithTop(s, f)[p] = s[p]
BY DEF WithTop

(* ... and when it is popped and others remain. *)
LEMMA PopFacts ==
  ASSUME NEW F, NEW s \in Seq(F) \ {<<>>}, Len(s) > 1
  PROVE  /\ SubSeq(s, 1, Len(s) - 1) \in Seq(F) \ {<<>>}
         /\ Len(SubSeq(s, 1, Len(s) - 1)) = Len(s) - 1
         /\ \A p \in 1..(Len(s) - 1) : SubSeq(s, 1, Len(s) - 1)[p] = s[p]
<1>0. Len(s) \in Nat /\ \A p \in 1..Len(s) : s[p] \in F
  OBVIOUS
<1>1. Len(s) - 1 \in Nat \ {0} /\ \A p \in 1..(Len(s) - 1) : s[p] \in F
  BY <1>0
<1>2. /\ SubSeq(s, 1, Len(s) - 1) \in Seq(F)
      /\ Len(SubSeq(s, 1, Len(s) - 1)) = Len(s) - 1
      /\ \A p \in 1..(Len(s) - 1) : SubSeq(s, 1, Len(s) - 1)[p] = s[p]
  BY <1>1
<1>3. SubSeq(s, 1, Len(s) - 1) # <<>>
  BY <1>1, <1>2
<1> QED
  BY <1>2, <1>3

(* The frame on top of the stack. *)
LEMMA TopFacts ==
  ASSUME TypeOK, call.at = "recursing"
  PROVE  /\ call.stack \in Seq([node : Node, input : Nat]) \ {<<>>}
         /\ Depth \in Nat \ {0}
         /\ Top \in [node : Node, input : Nat]
<1>1. call.stack \in Seq([node : Node, input : Nat]) \ {<<>>}
  BY DEF TypeOK
<1>2. /\ Len(call.stack) \in Nat \ {0}
      /\ \A p \in 1..Len(call.stack) : call.stack[p] \in [node : Node, input : Nat]
  BY <1>1, StackFacts, Zenon
<1>3. Len(call.stack) \in 1..Len(call.stack)
  BY <1>2
<1>4. call.stack[Len(call.stack)] \in [node : Node, input : Nat]
  BY <1>2, <1>3
<1> QED
  BY <1>1, <1>2, <1>4, Zenon DEF Depth, Top

(* Every step keeps the types. *)
LEMMA StepTypeOK ==
  ASSUME TypeOK, [Next]_vars
  PROVE  TypeOK'
<1> USE BoundsAssumption DEF TypeOK, Idle, Feeding, Running, Recursing, Panicked
<1>1. CASE CallWithInputs
  <2>1. /\ call.at' = "feeding" /\ call.next' \in 0..Len(plan.interface)
        /\ calls' = calls + 1 /\ calls < MaxCalls
        /\ UNCHANGED <<plan, values, states, session, symbols>>
    BY <1>1, PlanFacts DEF CallWithInputs, Call
  <2> QED
    BY <2>1
<1>2. CASE RejectIndex
  BY <1>2 DEF RejectIndex
<1>3. CASE RejectUndetermined
  <2>1. call.next \in Nat /\ call.next + 1 \in 1..Len(plan.interface)
    BY <1>3, PlanFacts DEF RejectUndetermined, HasTensor, ValidIndex
  <2>2. DOMAIN symbols' \subseteq Symbol
    BY <1>3, <2>1, PlanFacts DEF RejectUndetermined, Resolved, Store, Fact, InputNode
  <2> QED
    BY <1>3, <2>2 DEF RejectUndetermined
<1>4. CASE SetInput
  <2>1. call.next \in Nat /\ call.next + 1 \in 1..Len(plan.interface)
    BY <1>4, PlanFacts DEF SetInput, HasTensor, ValidIndex
  <2>2. DOMAIN symbols' \subseteq Symbol
    BY <1>4, <2>1, PlanFacts DEF SetInput, Resolved, Store, Fact, InputNode
  <2>3. DOMAIN session' \subseteq Members(plan.interface)
    BY <1>4, <2>1 DEF SetInput, Store, InputNode, Members
  <2> QED
    BY <1>4, <2>1, <2>2, <2>3 DEF SetInput
<1>5. CASE InputsSet
  BY <1>5, PlanFacts DEF InputsSet
<1>6. CASE RunMissingPrecursor
  BY <1>6 DEF RunMissingPrecursor
<1>7. CASE RunStep
  <2>1. call.step \in 1..Len(plan.order) /\ Current \in Node
    BY <1>7, PlanFacts DEF RunStep, ReadyToEval, AtStep, Current
  <2>2. DOMAIN values' \subseteq Node /\ DOMAIN states' = Node
    BY <1>7, <2>1 DEF RunStep, Evaluate, Store, Drop, Restrict
  <2> QED
    BY <1>7, <2>1, <2>2, PlanFacts DEF RunStep, Evaluate
<1>8. CASE RunAssertionFails
  <2>1. DOMAIN values' \subseteq Node /\ DOMAIN states' = Node
    BY <1>8 DEF RunAssertionFails, Evaluate, Drop, Restrict
  <2> QED
    BY <1>8, <2>1 DEF RunAssertionFails, Evaluate
<1>24. CASE RunInputAssertionFails
  <2>1. DOMAIN values' \subseteq Node
    BY <1>24 DEF RunInputAssertionFails, Drop, Restrict
  <2> QED
    BY <1>24, <2>1 DEF RunInputAssertionFails
<1>9. CASE RunEvalFails
  <2>1. DOMAIN values' \subseteq Node /\ DOMAIN states' = Node
    BY <1>9 DEF RunEvalFails, FailEval, Drop, Restrict
  <2> QED
    BY <1>9, <2>1 DEF RunEvalFails, FailEval
<1>10. CASE RunPanics
  <2>1. DOMAIN values' \subseteq Node
    BY <1>10 DEF RunPanics, Drop, Restrict
  <2> QED
    BY <1>10, <2>1 DEF RunPanics
<1>11. CASE RunReturns
  BY <1>11 DEF RunReturns, Nothing
<1>12. CASE CallCompute
  <2>1. PICK n \in Node : call' = Recursing(<<Frame(n, 0)>>)
    BY <1>12 DEF CallCompute
  <2>2. <<Frame(n, 0)>> \in Seq([node : Node, input : Nat]) \ {<<>>}
    BY DEF Frame
  <2> QED
    BY <1>12, <2>1, <2>2 DEF CallCompute, Call
<1>13. CASE RecurseInto
  <2>1. Precursor \in Node
    <3>1. Top.node \in Node /\ Top.input + 1 \in 1..Len(plan.inputs[Top.node])
      BY <1>13, TopFacts, PlanFacts DEF RecurseInto, InLoop
    <3> QED
      BY <3>1, PlanFacts DEF Precursor
  <2>2. Frame(Precursor, 0) \in [node : Node, input : Nat]
    BY <2>1 DEF Frame
  <2>3. Append(call.stack, Frame(Precursor, 0)) \in Seq([node : Node, input : Nat]) \ {<<>>}
    BY <1>13, <2>2, TopFacts, PushFacts, Zenon DEF RecurseInto, InLoop
  <2> QED
    BY <1>13, <2>3 DEF RecurseInto
<1>14. CASE SkipComputed
  <2>1. Frame(Top.node, Top.input + 1) \in [node : Node, input : Nat]
    BY <1>14, TopFacts DEF Frame, SkipComputed, InLoop
  <2>2. WithTop(call.stack, Frame(Top.node, Top.input + 1))
          \in Seq([node : Node, input : Nat]) \ {<<>>}
    <3>1. call.stack \in Seq([node : Node, input : Nat]) \ {<<>>}
      BY <1>14, TopFacts, Zenon DEF SkipComputed, InLoop
    <3> QED
      BY <2>1, <3>1, ReplaceFacts, Zenon
  <2> QED
    BY <1>14, <2>2 DEF SkipComputed, Top, Depth, WithTop
<1>15. CASE EvalTop
  <2>1. Top.node \in Node
    BY <1>15, TopFacts DEF EvalTop, AfterLoop
  <2>2. DOMAIN values' \subseteq Node /\ DOMAIN states' = Node
    BY <1>15, <2>1 DEF EvalTop, Evaluate, Store
  <2>3. Depth > 1 => SubSeq(call.stack, 1, Depth - 1) \in Seq([node : Node, input : Nat]) \ {<<>>}
    BY <1>15, TopFacts, PopFacts, Zenon DEF EvalTop, AfterLoop, Depth
  <2> QED
    BY <1>15, <2>2, <2>3 DEF EvalTop, Evaluate
<1>16. CASE EvalTopFails
  BY <1>16 DEF EvalTopFails, FailEval
<1>17. CASE EvalTopPanics
  BY <1>17 DEF EvalTopPanics
<1>18. CASE SetValue
  BY <1>18 DEF SetValue, Call, Store
<1>19. CASE Take
  BY <1>19 DEF Take, Call, Drop, Restrict
<1>20. CASE ResetWires
  BY <1>20 DEF ResetWires, Call, Nothing
<1>21. CASE ResetOpStates
  BY <1>21 DEF ResetOpStates, Call
<1>22. CASE ComputeOne
  BY <1>22 DEF ComputeOne, Call, Store
<1>23. CASE UNCHANGED vars
  BY <1>23 DEF vars
<1> QED
  BY <1>1, <1>2, <1>3, <1>4, <1>5, <1>6, <1>7, <1>8, <1>9, <1>10, <1>11, <1>12, <1>13,
     <1>14, <1>15, <1>16, <1>17, <1>18, <1>19, <1>20, <1>21, <1>22, <1>23,
     <1>24 DEF Next

-----------------------------------------------------------------------------
(* The run. *)

(* Nothing runs in the initial states. *)
LEMMA InitIInv == Init => IInv
<1> SUFFICES ASSUME Init PROVE IInv
  OBVIOUS
<1>1. call.at = "idle"
  BY DEF Init, Idle
<1> QED
  BY <1>1, InitTypeOK DEF IInv, StartsFresh, RunPrefix, GonePast, NothingHeldTooLong, StackReady

(* A run starts with nothing behind it. *)
LEMMA StartIInv ==
  ASSUME IInv, InputsSet
  PROVE  IInv'
<1>1. TypeOK'
  BY StepTypeOK DEF IInv, Next
<1>2. CASE call.method = "run"
  <2>1. call'.at = "running" /\ call'.step = 1 /\ since' = since /\ since.ran = <<>>
    BY <1>2 DEF IInv, InputsSet, Running, StartsFresh
  <2>2. since'.ran = [i \in 1..(call'.step - 1) |-> plan'.order[i]]
    BY <2>1
  <2>3. Members(since'.ran) = {}
    BY <2>1 DEF Members
  <2> QED
    BY <1>1, <2>1, <2>2, <2>3
    DEF IInv, StartsFresh, RunPrefix, GonePast, NothingHeldTooLong, StackReady
<1>3. CASE call.method # "run"
  <2>1. call'.at = "idle"
    BY <1>3 DEF InputsSet, Idle
  <2> QED
    BY <1>1, <2>1
    DEF IInv, StartsFresh, RunPrefix, GonePast, NothingHeldTooLong, StackReady
<1> QED
  BY <1>2, <1>3

(* What a step of the run changes. *)
LEMMA RunStepFacts ==
  ASSUME IInv, RunStep
  PROVE  /\ call.at = "running" /\ call'.at = "running"
         /\ call.step \in 1..Len(plan.order) /\ call'.step = call.step + 1
         /\ Len(plan.order) \in Nat
         /\ plan' = plan
         /\ DOMAIN values' = (DOMAIN values \ FlushList(call.step)) \cup {Current}
         /\ since'.ran = Append(since.ran, Current)
         /\ HasInputs(Current)
<1>1. call.step \in 1..Len(plan.order) /\ Len(plan.order) \in Nat
  BY PlanFacts DEF IInv, TypeOK, RunStep, ReadyToEval, AtStep
<1>2. DOMAIN values' = (DOMAIN values \ FlushList(call.step)) \cup {Current}
  BY DEF RunStep, Store, Drop, Restrict
<1>3. since'.ran = Append(since.ran, Current)
  BY DEF RunStep, Evaluate
<1> QED
  BY <1>1, <1>2, <1>3 DEF RunStep, ReadyToEval, AtStep, Running, Evaluate

(* A step evaluates its node after the ones before it. *)
LEMMA StepRunPrefix ==
  ASSUME IInv, RunStep
  PROVE  RunPrefix'
<1>1. /\ call.at = "running" /\ call'.step = call.step + 1 /\ plan' = plan
      /\ call.step \in Nat \ {0}
      /\ since'.ran = Append(since.ran, plan.order[call.step])
  BY RunStepFacts DEF Current
<1>2. since.ran = [i \in 1..(call.step - 1) |-> plan.order[i]]
  BY <1>1 DEF IInv, RunPrefix
<1>3. Len(since.ran) = call.step - 1
  BY <1>1, <1>2
<1>4. Append(since.ran, plan.order[call.step]) = [i \in 1..call.step |-> plan.order[i]]
  BY <1>1, <1>2, <1>3
<1> QED
  BY <1>1, <1>4 DEF RunPrefix

(* What is flushed is not needed by the steps that are left. *)
LEMMA StepGonePast ==
  ASSUME IInv, RunStep
  PROVE  GonePast'
<1> DEFINE s == call.step
           Dead(n, k) == /\ n \notin Outputs
                         /\ \A j \in k..Len(plan.order) : n \notin InputsOf(plan.order[j])
<1>0. /\ call.at = "running" /\ s \in 1..Len(plan.order) /\ call'.step = s + 1
      /\ Len(plan.order) \in Nat /\ plan' = plan
      /\ DOMAIN values' = (DOMAIN values \ FlushList(s)) \cup {plan.order[s]}
  BY RunStepFacts DEF Current
<1>1. SUFFICES ASSUME NEW i \in 1..s
               PROVE  plan.order[i] \in DOMAIN values' \/ Dead(plan.order[i], s + 1)
  BY <1>0 DEF GonePast, Computed, Outputs, InputsOf
<1>2. CASE i = s
  BY <1>0, <1>2
<1>3. CASE i # s
  <2>1. plan.order[i] \in DOMAIN values \/ Dead(plan.order[i], s)
    BY <1>0, <1>3 DEF IInv, GonePast, Computed
  <2>2. CASE plan.order[i] \in FlushList(s)
    BY <1>0, <2>2 DEF FlushList
  <2>3. CASE plan.order[i] \notin FlushList(s) /\ plan.order[i] \in DOMAIN values
    BY <1>0, <2>3
  <2>4. CASE Dead(plan.order[i], s)
    BY <1>0, <2>4
  <2> QED
    BY <2>1, <2>2, <2>3, <2>4
<1> QED
  BY <1>2, <1>3

(* When the inputs are leaves, what a step reads was computed by earlier ones. *)
LEMMA ReadLater ==
  ASSUME plan \in Plans, InputsAreLeaves, NEW k \in 1..Len(plan.order),
         NEW n \in InputsOf(plan.order[k])
  PROVE  \E i \in 1..(k - 1) : plan.order[i] = n
<1>1. plan.order[k] \notin Members(plan.interface)
  BY DEF InputsAreLeaves, InputsOf, Members
<1> QED
  BY <1>1, PlanFacts

(* The wires in question, at any step. *)
LEMMA LastReadFacts ==
  ASSUME NEW s, NEW n
  PROVE  n \in LastReadBefore(s) <=>
           /\ n \in Node \ Outputs
           /\ \E k \in 1..Len(plan.order) : n \in InputsOf(plan.order[k])
           /\ \A k \in s..Len(plan.order) : n \notin InputsOf(plan.order[k])
BY DEF LastReadBefore

(* A wire read for the last time at step s, and computed before, is flushed. *)
LEMMA LastReadIsFlushed ==
  ASSUME plan \in Plans, InputsAreLeaves, NEW s \in 1..Len(plan.order),
         NEW n, n \in LastReadBefore(s + 1), n \notin LastReadBefore(s)
  PROVE  n \in FlushList(s)
<1>0. Len(plan.order) \in Nat
  BY PlanFacts
<1>1. /\ n \in Node \ Outputs
      /\ \E k \in 1..Len(plan.order) : n \in InputsOf(plan.order[k])
      /\ \A k \in (s + 1)..Len(plan.order) : n \notin InputsOf(plan.order[k])
  BY LastReadFacts
<1>2. PICK k \in s..Len(plan.order) : n \in InputsOf(plan.order[k])
  BY <1>1, LastReadFacts
<1>3. k = s
  BY <1>0, <1>1, <1>2
<1>4. n \in InputsOf(plan.order[s])
  BY <1>2, <1>3
<1>5. \E i \in 1..(s - 1) : plan.order[i] = n
  BY <1>4, ReadLater
<1>6. s > 1
  BY <1>0, <1>5
<1> QED
  BY <1>1, <1>4, <1>6 DEF FlushList

(* A wire that is not read from step s on was computed before the last of its
   readers, so it is not what step s computes. *)
LEMMA LastReadIsNotCurrent ==
  ASSUME plan \in Plans, InputsAreLeaves, NEW s \in 1..Len(plan.order),
         NEW n, n \in LastReadBefore(s + 1)
  PROVE  n # plan.order[s]
<1>0. Len(plan.order) \in Nat
  BY PlanFacts
<1>1. /\ \E k \in 1..Len(plan.order) : n \in InputsOf(plan.order[k])
      /\ \A k \in (s + 1)..Len(plan.order) : n \notin InputsOf(plan.order[k])
  BY LastReadFacts
<1>2. PICK k \in 1..Len(plan.order) : n \in InputsOf(plan.order[k])
  BY <1>1
<1>3. k <= s
  BY <1>0, <1>1, <1>2
<1>4. PICK i \in 1..(k - 1) : plan.order[i] = n
  BY <1>2, ReadLater
<1>5. i \in 1..Len(plan.order) /\ i # s
  BY <1>0, <1>2, <1>3, <1>4
<1> QED
  BY <1>4, <1>5, PlanFacts

(* A step drops what it is the last to read. *)
LEMMA StepNothingHeld ==
  ASSUME IInv, RunStep
  PROVE  NothingHeldTooLong'
<1> DEFINE s == call.step
<1>1. /\ call.at = "running" /\ s \in 1..Len(plan.order) /\ call'.step = s + 1
      /\ Len(plan.order) \in Nat /\ plan' = plan /\ plan \in Plans
  BY RunStepFacts DEF IInv, TypeOK
<1>2. DOMAIN values' = (DOMAIN values \ FlushList(s)) \cup {plan.order[s]}
  BY RunStepFacts DEF Current
<1>3. Members(since'.ran) \subseteq Members(since.ran) \cup {plan.order[s]}
  <2>1. since.ran = [i \in 1..(s - 1) |-> plan.order[i]]
    BY <1>1 DEF IInv, RunPrefix
  <2>2. since'.ran = [i \in 1..s |-> plan.order[i]]
    <3>1. call'.at = "running" /\ call'.step - 1 = s
      BY <1>1, RunStepFacts
    <3> QED
      BY <1>1, <3>1, StepRunPrefix DEF RunPrefix
  <2>3. Len(since.ran) = s - 1 /\ Len(since'.ran) = s
    BY <1>1, <2>1, <2>2
  <2>4. Members(since.ran) = {plan.order[i] : i \in 1..(s - 1)}
    BY <2>1, <2>3 DEF Members
  <2>5. Members(since'.ran) = {plan.order[i] : i \in 1..s}
    BY <2>2, <2>3 DEF Members
  <2> QED
    BY <1>1, <2>4, <2>5
<1>4. LastReadBefore(call.step)' = LastReadBefore(s + 1) /\ InputsAreLeaves' = InputsAreLeaves
  BY <1>1 DEF LastReadBefore, InputsAreLeaves, Outputs, InputsOf
<1>5. SUFFICES ASSUME InputsAreLeaves, NEW n \in LastReadBefore(s + 1),
                      n \in Members(since'.ran), n \in DOMAIN values'
               PROVE  FALSE
  BY <1>4 DEF NothingHeldTooLong
<1>6. n # plan.order[s]
  BY <1>1, <1>5, LastReadIsNotCurrent
<1>7. n \in Members(since.ran) /\ n \in DOMAIN values /\ n \notin FlushList(s)
  BY <1>2, <1>3, <1>5, <1>6
<1>8. n \notin LastReadBefore(s)
  BY <1>1, <1>5, <1>7 DEF IInv, NothingHeldTooLong
<1> QED
  BY <1>1, <1>5, <1>7, <1>8, LastReadIsFlushed

(* A step of the run keeps the invariant. *)
LEMMA RunStepIInv ==
  ASSUME IInv, RunStep
  PROVE  IInv'
<1>1. TypeOK'
  BY StepTypeOK DEF IInv, Next
<1>2. call'.at = "running"
  BY RunStepFacts
<1> QED
  BY <1>1, <1>2, StepRunPrefix, StepGonePast, StepNothingHeld DEF IInv, StartsFresh, StackReady

-----------------------------------------------------------------------------
(* The recursive evaluation. *)

(* A call starts with an empty loop behind it. *)
LEMMA CallComputeIInv ==
  ASSUME IInv, CallCompute
  PROVE  IInv'
<1>1. TypeOK'
  BY StepTypeOK DEF IInv, Next
<1>2. PICK n \in Node : call' = Recursing(<<Frame(n, 0)>>)
  BY DEF CallCompute
<1>3. call'.at = "recursing" /\ call'.stack = <<[node |-> n, input |-> 0]>>
  BY <1>2 DEF Recursing, Frame
<1>4. Len(plan'.inputs[n]) \in Nat
  BY <1>1, PlanFacts DEF CallCompute, Call, TypeOK
<1>5. StackReady'
  BY <1>3, <1>4 DEF StackReady, FrameReady, Depth
<1> QED
  BY <1>1, <1>3, <1>5 DEF IInv, StartsFresh, RunPrefix, GonePast, NothingHeldTooLong

(* So does a nested call. *)
LEMMA RecurseIntoIInv ==
  ASSUME IInv, RecurseInto
  PROVE  IInv'
<1> DEFINE L == Len(call.stack)
           f == Frame(Precursor, 0)
           Ready(g) == FrameReady(g, plan.inputs, DOMAIN values)
<1>1. TypeOK'
  BY StepTypeOK DEF IInv, Next
<1>2. /\ call.stack \in Seq([node : Node, input : Nat]) \ {<<>>}
      /\ L \in Nat \ {0}
      /\ Top \in [node : Node, input : Nat]
  BY TopFacts DEF IInv, RecurseInto, InLoop, Depth
<1>3. Precursor \in Node
  <2>1. Top.node \in Node /\ Top.input + 1 \in 1..Len(plan.inputs[Top.node])
    BY <1>2, PlanFacts DEF RecurseInto, InLoop, IInv, TypeOK
  <2> QED
    BY <2>1, PlanFacts DEF Precursor, IInv, TypeOK
<1>4. f \in [node : Node, input : Nat] /\ f.node = Precursor /\ f.input = 0
  BY <1>3 DEF Frame
<1>5. call'.at = "recursing" /\ call'.stack = Append(call.stack, f)
  BY DEF RecurseInto, Recursing
<1> HIDE DEF f
<1>6. /\ Len(Append(call.stack, f)) = L + 1 /\ Append(call.stack, f)[L + 1] = f
      /\ \A p \in 1..L : Append(call.stack, f)[p] = call.stack[p]
  <2>1. call.stack \in Seq([node : Node, input : Nat]) \ {<<>>}
    BY <1>2
  <2>2. f \in [node : Node, input : Nat]
    BY <1>4
  <2> QED
    BY <2>1, <2>2, PushFacts, SMT
<1>7. plan' = plan /\ values' = values /\ Len(plan.inputs[Precursor]) \in Nat
  BY <1>3, PlanFacts DEF RecurseInto, IInv, TypeOK
<1>8. Ready(f)
  BY <1>4, <1>7 DEF FrameReady
<1>9. \A p \in 1..L : Ready(call.stack[p])
  BY DEF IInv, StackReady, RecurseInto, InLoop, Depth
<1>10. \A p \in 1..(L + 1) : Ready(Append(call.stack, f)[p])
  <2> SUFFICES ASSUME NEW p \in 1..(L + 1) PROVE Ready(Append(call.stack, f)[p])
    OBVIOUS
  <2>1. p = L + 1 \/ p \in 1..L
    BY <1>2
  <2> QED
    BY <1>6, <1>8, <1>9, <2>1, Zenon
<1>11. StackReady'
  BY <1>5, <1>6, <1>7, <1>10, Zenon DEF StackReady, Depth
<1> QED
  BY <1>1, <1>5, <1>11 DEF IInv, StartsFresh, RunPrefix, GonePast, NothingHeldTooLong

(* The loop moves on from an input that is computed. *)
LEMMA SkipComputedIInv ==
  ASSUME IInv, SkipComputed
  PROVE  IInv'
<1> DEFINE L == Len(call.stack)
           f == Frame(Top.node, Top.input + 1)
           Ready(g) == FrameReady(g, plan.inputs, DOMAIN values)
<1>1. TypeOK'
  BY StepTypeOK DEF IInv, Next
<1>2. /\ call.stack \in Seq([node : Node, input : Nat]) \ {<<>>}
      /\ L \in Nat \ {0}
      /\ Top \in [node : Node, input : Nat]
  BY TopFacts DEF IInv, SkipComputed, InLoop, Depth
<1>3. f \in [node : Node, input : Nat] /\ f.node = Top.node /\ f.input = Top.input + 1
  BY <1>2 DEF Frame
<1>4. call'.at = "recursing" /\ call'.stack = WithTop(call.stack, f)
  BY DEF SkipComputed, Recursing, WithTop, Depth, Top
<1> HIDE DEF f
<1>5. /\ Len(WithTop(call.stack, f)) = L /\ WithTop(call.stack, f)[L] = f
      /\ \A p \in 1..(L - 1) : WithTop(call.stack, f)[p] = call.stack[p]
  <2>1. call.stack \in Seq([node : Node, input : Nat]) \ {<<>>}
    BY <1>2
  <2>2. f \in [node : Node, input : Nat]
    BY <1>3
  <2> QED
    BY <2>1, <2>2 DEF WithTop
<1>6. /\ plan' = plan /\ values' = values /\ Len(plan.inputs[Top.node]) \in Nat
      /\ Top.input < Len(plan.inputs[Top.node])
      /\ plan.inputs[Top.node][Top.input + 1] \in DOMAIN values
  BY <1>2, PlanFacts DEF SkipComputed, InLoop, Precursor, Computed, IInv, TypeOK
<1>7. \A p \in 1..L : Ready(call.stack[p])
  BY DEF IInv, StackReady, SkipComputed, InLoop, Depth
<1>8. Ready(f)
  <2>1. Ready(Top)
    BY <1>2, <1>7 DEF Top, Depth
  <2>2. f.input <= Len(plan.inputs[f.node])
    BY <1>2, <1>3, <1>6
  <2>3. ASSUME NEW j \in 1..f.input PROVE plan.inputs[f.node][j] \in DOMAIN values
    <3>1. j \in 1..Top.input \/ j = Top.input + 1
      BY <1>2, <1>3
    <3> QED
      BY <1>3, <1>6, <2>1, <3>1 DEF FrameReady
  <2> QED
    BY <2>2, <2>3 DEF FrameReady
<1>9. \A p \in 1..L : Ready(WithTop(call.stack, f)[p])
  <2> SUFFICES ASSUME NEW p \in 1..L PROVE Ready(WithTop(call.stack, f)[p])
    OBVIOUS
  <2>1. p = L \/ p \in 1..(L - 1)
    BY <1>2
  <2> QED
    BY <1>5, <1>7, <1>8, <2>1, Zenon
<1>10. StackReady'
  BY <1>4, <1>5, <1>6, <1>9, Zenon DEF StackReady, Depth
<1> QED
  BY <1>1, <1>4, <1>10 DEF IInv, StartsFresh, RunPrefix, GonePast, NothingHeldTooLong

(* A nested call that returns leaves its value, and no other changes. *)
LEMMA EvalTopIInv ==
  ASSUME IInv, EvalTop
  PROVE  IInv'
<1> DEFINE L == Len(call.stack)
           rest == SubSeq(call.stack, 1, L - 1)
<1>1. TypeOK'
  BY StepTypeOK DEF IInv, Next
<1>2. CASE L > 1
  <2>1. call.stack \in Seq([node : Node, input : Nat]) \ {<<>>} /\ L \in Nat
    BY TopFacts DEF IInv, EvalTop, AfterLoop, Depth
  <2>2. call'.at = "recursing" /\ call'.stack = rest
    BY <1>2 DEF EvalTop, Recursing, Depth
  <2>3. Len(rest) = L - 1 /\ \A p \in 1..(L - 1) : rest[p] = call.stack[p]
    BY <1>2, <2>1, PopFacts, Zenon
  <2>4. plan' = plan /\ DOMAIN values \subseteq DOMAIN values'
    BY DEF EvalTop, Evaluate, Store
  <2>5. \A p \in 1..L : FrameReady(call.stack[p], plan.inputs, DOMAIN values)
    BY DEF IInv, StackReady, EvalTop, AfterLoop, Depth
  <2>6. \A p \in 1..(L - 1) : FrameReady(rest[p], plan.inputs, DOMAIN values')
    <3> SUFFICES ASSUME NEW p \in 1..(L - 1)
                 PROVE  FrameReady(rest[p], plan.inputs, DOMAIN values')
      OBVIOUS
    <3>1. p \in 1..L /\ rest[p] = call.stack[p]
      BY <2>1, <2>3
    <3> QED
      BY <2>4, <2>5, <3>1 DEF FrameReady
  <2>7. StackReady'
    BY <2>2, <2>3, <2>4, <2>6, Zenon DEF StackReady, Depth
  <2> QED
    BY <1>1, <2>2, <2>7 DEF IInv, StartsFresh, RunPrefix, GonePast, NothingHeldTooLong
<1>3. CASE ~(L > 1)
  <2>1. call'.at = "idle"
    BY <1>3 DEF EvalTop, Idle, Depth
  <2> QED
    BY <1>1, <2>1 DEF IInv, StartsFresh, RunPrefix, GonePast, NothingHeldTooLong, StackReady
<1> QED
  BY <1>2, <1>3

-----------------------------------------------------------------------------
(* The other steps return, or take the inputs. *)

(* Where the other steps lead. *)
LEMMA OtherSteps ==
  ASSUME Next, ~InputsSet, ~RunStep, ~CallCompute, ~RecurseInto, ~SkipComputed, ~EvalTop
  PROVE  \/ call'.at \in {"idle", "panicked"}
         \/ call'.at = "feeding" /\ since'.ran = <<>>
         \/ call'.at = "feeding" /\ call.at = "feeding" /\ since' = since
<1> USE DEF Idle, Panicked
<1>1. CASE CallWithInputs
  BY <1>1 DEF CallWithInputs, Call, Feeding, Evaluating
<1>2. CASE SetInput
  BY <1>2 DEF SetInput, HasTensor, Feeding
<1>3. CASE RejectIndex \/ RejectUndetermined
  BY <1>3 DEF RejectIndex, RejectUndetermined
<1>4. CASE \/ RunMissingPrecursor \/ RunInputAssertionFails \/ RunAssertionFails
           \/ RunEvalFails \/ RunPanics \/ RunReturns
  BY <1>4 DEF RunMissingPrecursor, RunInputAssertionFails, RunAssertionFails, RunEvalFails,
              RunPanics, RunReturns
<1>5. CASE EvalTopFails \/ EvalTopPanics
  BY <1>5 DEF EvalTopFails, EvalTopPanics
<1>6. CASE SetValue
  BY <1>6 DEF SetValue
<1>8. CASE Take
  BY <1>8 DEF Take
<1>9. CASE ResetWires
  BY <1>9 DEF ResetWires
<1>10. CASE ResetOpStates
  BY <1>10 DEF ResetOpStates
<1>7. CASE ComputeOne
  BY <1>7 DEF ComputeOne
<1> QED
  BY <1>1, <1>2, <1>3, <1>4, <1>5, <1>6, <1>7, <1>8, <1>9, <1>10 DEF Next

(* They keep the invariant. *)
LEMMA OtherIInv ==
  ASSUME IInv, Next, ~InputsSet, ~RunStep, ~CallCompute, ~RecurseInto, ~SkipComputed, ~EvalTop
  PROVE  IInv'
<1>1. TypeOK'
  BY StepTypeOK DEF IInv
<1>2. /\ call'.at # "running" /\ call'.at # "recursing"
      /\ call'.at = "feeding" => since'.ran = <<>>
  BY OtherSteps DEF IInv, StartsFresh
<1> QED
  BY <1>1, <1>2 DEF IInv, StartsFresh, RunPrefix, GonePast, NothingHeldTooLong, StackReady

(* Nothing changes, nothing breaks. *)
LEMMA StutterIInv ==
  ASSUME IInv, UNCHANGED vars
  PROVE  IInv'
BY DEF IInv, TypeOK, StartsFresh, RunPrefix, GonePast, NothingHeldTooLong, StackReady, vars,
       Computed, Outputs, InputsOf, Depth, LastReadBefore, InputsAreLeaves

-----------------------------------------------------------------------------

(* The invariant holds in every reachable state, for every plan. *)
THEOREM Invariance == Spec => []IInv
<1>1. Init => IInv
  BY InitIInv
<1>2. IInv /\ [Next]_vars => IInv'
  BY StartIInv, RunStepIInv, CallComputeIInv, RecurseIntoIInv, SkipComputedIInv,
     EvalTopIInv, OtherIInv, StutterIInv
<1> QED
  BY <1>1, <1>2, PTL DEF Spec

(* SimpleState keeps its types: no wire, tensor or symbol outside the model. *)
THEOREM TypeCorrect == Spec => []TypeOK
<1>1. IInv => TypeOK
  BY DEF IInv
<1> QED
  BY <1>1, Invariance, PTL

(* Whatever has been flushed, run never reports a precursor that is not done. *)
THEOREM RunFindsPrecursors == Spec => []PrecursorsReady
<1>1. IInv => PrecursorsReady
  <2> SUFFICES ASSUME IInv, AtStep, InputsAreLeaves, NEW m \in InputsOf(Current)
               PROVE  Computed(m)
    BY DEF PrecursorsReady, HasInputs
  <2>1. /\ call.at = "running" /\ plan \in Plans
        /\ call.step \in 1..Len(plan.order) /\ Len(plan.order) \in Nat
    BY PlanFacts DEF IInv, TypeOK, AtStep
  <2>2. PICK i \in 1..(call.step - 1) : plan.order[i] = m
    BY <2>1, ReadLater DEF Current
  <2> QED
    BY <2>1, <2>2 DEF IInv, GonePast, Current
<1> QED
  BY <1>1, Invariance, PTL

(* At the end of a run the outputs are there to be unwrapped. *)
THEOREM RunFindsOutputs == Spec => []OutputsReady
<1>1. IInv => OutputsReady
  <2> SUFFICES ASSUME IInv, call.at = "running", call.step > Len(plan.order), NEW n \in Outputs
               PROVE  Computed(n)
    BY DEF OutputsReady
  <2>1. call.step = Len(plan.order) + 1 /\ Len(plan.order) \in Nat /\ plan \in Plans
    BY PlanFacts DEF IInv, TypeOK
  <2>2. PICK i \in 1..Len(plan.order) : plan.order[i] = n
    BY <2>1, PlanFacts DEF Members
  <2> QED
    BY <2>1, <2>2 DEF IInv, GonePast
<1> QED
  BY <1>1, Invariance, PTL

(* The recursive evaluation finds the values it unwraps. *)
THEOREM RecursionFindsInputs == Spec => []RecursionReady
<1>1. IInv => RecursionReady
  <2> SUFFICES ASSUME IInv, call.at = "recursing"
               PROVE  FrameReady(Top, plan.inputs, DOMAIN values)
    BY DEF RecursionReady, FrameReady, Computed
  <2>1. Depth \in 1..Depth
    BY TopFacts DEF IInv
  <2> QED
    BY <2>1 DEF IInv, StackReady, Top
<1> QED
  BY <1>1, Invariance, PTL

(* No evaluation misses a value, whatever the plan and the calls. *)
THEOREM EvaluationFindsValues == Spec => []NoValueMissing
<1>1. PrecursorsReady /\ OutputsReady /\ RecursionReady => NoValueMissing
  BY DEF NoValueMissing
<1> QED
  BY <1>1, RunFindsPrecursors, RunFindsOutputs, RecursionFindsInputs, PTL

(* The memory of a run is bounded by what is left to read. *)
THEOREM RunHoldsNothingTooLong == Spec => []NothingHeldTooLong
<1>1. IInv => NothingHeldTooLong
  BY DEF IInv
<1> QED
  BY <1>1, Invariance, PTL

-----------------------------------------------------------------------------
(* The meaning of a graph. *)

(* What a node is worth when its inputs have the values of f. *)
Body(p, tensors, sts, held, f, n) ==
  IF n \in DOMAIN held THEN held[n]
  ELSE IF n \in p.sources THEN tensors[n]
  ELSE Op(n, sts[n], [j \in 1..Len(p.inputs[n]) |-> f[p.inputs[n][j]]])

(* The values of a part of the graph that is closed under inputs. *)
Partial(p, tensors, sts, held, f) ==
  /\ DOMAIN f \subseteq Node
  /\ f = [n \in DOMAIN f |-> f[n]]
  /\ \A n \in DOMAIN f : /\ Members(p.inputs[n]) \subseteq DOMAIN f
                         /\ f[n] = Body(p, tensors, sts, held, f, n)

(* It reads its inputs only. *)
LEMMA BodyDepends ==
  ASSUME NEW p, NEW tensors, NEW sts, NEW held, NEW f, NEW g, NEW n,
         \A m \in Members(p.inputs[n]) : f[m] = g[m]
  PROVE  Body(p, tensors, sts, held, f, n) = Body(p, tensors, sts, held, g, n)
<1>1. \A j \in 1..Len(p.inputs[n]) : f[p.inputs[n][j]] = g[p.inputs[n][j]]
  BY DEF Members
<1>2. [j \in 1..Len(p.inputs[n]) |-> f[p.inputs[n][j]]]
        = [j \in 1..Len(p.inputs[n]) |-> g[p.inputs[n][j]]]
  BY <1>1
<1> QED
  BY <1>2 DEF Body

(* Two parts mean the same where both are defined: a first node on which they
   differ would read the same values in both. *)
LEMMA PartialsAgree ==
  ASSUME NEW p \in Plans, NEW tensors, NEW sts, NEW held, NEW f, NEW g,
         Partial(p, tensors, sts, held, f), Partial(p, tensors, sts, held, g),
         NEW n \in DOMAIN f \cap DOMAIN g
  PROVE  f[n] = g[n]
<1> DEFINE D == {m \in DOMAIN f \cap DOMAIN g : f[m] # g[m]}
<1>1. SUFFICES ASSUME D # {} PROVE FALSE
  OBVIOUS
<1>2. D \in SUBSET Node
  BY DEF Partial
<1>3. PICK m \in D : Members(p.inputs[m]) \cap D = {}
  BY <1>1, <1>2, GraphAssumption DEF Acyclic
<1>4. \A k \in Members(p.inputs[m]) : f[k] = g[k]
  BY <1>3 DEF Partial
<1>5. Body(p, tensors, sts, held, f, m) = Body(p, tensors, sts, held, g, m)
  BY <1>4, BodyDepends
<1> QED
  BY <1>3, <1>5 DEF Partial

(* The parts put together cover the graph: a first node left out could be added. *)
LEMMA MeantExists ==
  ASSUME NEW p \in Plans, NEW tensors, NEW sts, NEW held
  PROVE  \E f : f = [n \in Node |-> Body(p, tensors, sts, held, f, n)]
<1> DEFINE Covers(f, n) == Partial(p, tensors, sts, held, f) /\ n \in DOMAIN f
           C == {n \in Node : \E f : Covers(f, n)}
           h == [n \in C |-> (CHOOSE f : Covers(f, n))[n]]
<1>1. ASSUME NEW f, NEW n, Covers(f, n)
      PROVE  n \in C /\ h[n] = f[n]
  <2>1. n \in C
    BY <1>1 DEF Partial
  <2>2. Covers(CHOOSE g : Covers(g, n), n)
    BY <1>1
  <2> QED
    BY <1>1, <2>1, <2>2, PartialsAgree
<1>2. ASSUME NEW n \in C
      PROVE  Members(p.inputs[n]) \subseteq C /\ h[n] = Body(p, tensors, sts, held, h, n)
  <2>1. PICK f : Covers(f, n)
    OBVIOUS
  <2>2. \A m \in Members(p.inputs[n]) : Covers(f, m)
    BY <2>1 DEF Partial
  <2>3. \A m \in Members(p.inputs[n]) : m \in C /\ h[m] = f[m]
    BY <1>1, <2>2
  <2>4. Body(p, tensors, sts, held, f, n) = Body(p, tensors, sts, held, h, n)
    <3> HIDE DEF C, h
    <3> QED
      BY <2>3, BodyDepends
  <2>5. h[n] = f[n] /\ f[n] = Body(p, tensors, sts, held, f, n)
    BY <1>1, <2>1 DEF Partial
  <2> QED
    BY <2>3, <2>4, <2>5
<1>3. C = Node
  <2>1. SUFFICES ASSUME Node \ C # {} PROVE FALSE
    OBVIOUS
  <2>2. PICK n \in Node \ C : Members(p.inputs[n]) \cap (Node \ C) = {}
    BY <2>1, GraphAssumption DEF Acyclic
  <2>3. Members(p.inputs[n]) \subseteq C
    <3>1. p.inputs[n] \in Seq(Node)
      BY PlansAssumption DEF Plan
    <3>2. Members(p.inputs[n]) \subseteq Node
      BY <3>1 DEF Members
    <3> QED
      BY <2>2, <3>2
  <2> DEFINE e == [m \in C \cup {n} |->
                     IF m = n THEN Body(p, tensors, sts, held, h, n) ELSE h[m]]
  <2>4. \A m \in C \cup {n} : \A k \in Members(p.inputs[m]) : k \in C /\ e[k] = h[k]
    BY <1>2, <2>3, <2>2
  <2>5. \A m \in C \cup {n} :
          Body(p, tensors, sts, held, e, m) = Body(p, tensors, sts, held, h, m)
    <3> SUFFICES ASSUME NEW m \in C \cup {n}
                 PROVE  Body(p, tensors, sts, held, e, m) = Body(p, tensors, sts, held, h, m)
      OBVIOUS
    <3> HIDE DEF e, h, C
    <3> QED
      BY <2>4, BodyDepends
  <2>6. \A m \in C \cup {n} : e[m] = Body(p, tensors, sts, held, e, m)
    BY <1>2, <2>2, <2>5
  <2>7. Covers(e, n)
    <3>1. DOMAIN e = C \cup {n} /\ C \cup {n} \subseteq Node
      OBVIOUS
    <3>2. e = [m \in DOMAIN e |-> e[m]]
      OBVIOUS
    <3> HIDE DEF e, h, C
    <3> QED
      BY <2>4, <2>6, <3>1, <3>2 DEF Partial
  <2> HIDE DEF e, h
  <2> QED
    BY <2>2, <2>7
<1> HIDE DEF C
<1>4. h = [n \in Node |-> Body(p, tensors, sts, held, h, n)]
  BY <1>2, <1>3
<1> QED
  BY <1>4

(* Hence the recursive definition defines something, and unfolds. *)
LEMMA MeantUnfolds ==
  ASSUME NEW p \in Plans, NEW tensors, NEW sts, NEW held, NEW n \in Node
  PROVE  Meant(p, tensors, sts, held)[n]
           = Body(p, tensors, sts, held, Meant(p, tensors, sts, held), n)
<1> DEFINE F == Meant(p, tensors, sts, held)
<1>1. F = CHOOSE f : f = [m \in Node |-> Body(p, tensors, sts, held, f, m)]
  BY DEF Meant, Body
<1> HIDE DEF F
<1>2. F = [m \in Node |-> Body(p, tensors, sts, held, F, m)]
  BY <1>1, MeantExists
<1>3. F[n] = Body(p, tensors, sts, held, F, n)
  BY <1>2
<1> QED
  BY <1>3 DEF F

-----------------------------------------------------------------------------
(* The values of an evaluation. *)

(* The operators that have not run since the evaluation began are in the states
   they had then. *)
StatesSince ==
  call.at \in {"feeding", "running", "recursing"} =>
    \A n \in Node \ Members(since.ran) : states[n] = since.states[n]

(* What the run has evaluated, and still holds, is what the graph means. *)
RunValues ==
  call.at = "running" /\ InputsAreLeaves =>
    \A n \in Members(since.ran) \cap DOMAIN values : values[n] = Meaning[n]

(* A run takes no wire for given. *)
RunTakesNothing == call.at \in {"feeding", "running"} => DOMAIN since.held = {}

(* The wires of a recursive evaluation are those it has begun with and those it has
   evaluated, and they mean what they should. *)
RecursionValues ==
  call.at = "recursing" =>
    /\ DOMAIN values = DOMAIN since.held \cup Members(since.ran)
    /\ \A n \in DOMAIN values : values[n] = Meaning[n]

(* No node of the stack, but maybe the target of the call, has a value: each
   frame waits for the next one. *)
StackFresh ==
  call.at = "recursing" =>
    /\ Members(since.ran) \subseteq DOMAIN values
    /\ call.stack[1].node \notin Members(since.ran)
    /\ \A q \in 2..Depth : call.stack[q].node \notin DOMAIN values
    /\ \A q \in 1..(Depth - 1) :
         /\ call.stack[q].input < Len(plan.inputs[call.stack[q].node])
         /\ plan.inputs[call.stack[q].node][call.stack[q].input + 1] = call.stack[q + 1].node

(* The nodes evaluated since the call. *)
RanTyped == since.ran \in Seq(Node)

(* What the two evaluations keep true of the values. *)
MInv ==
  /\ RanTyped
  /\ StatesSince
  /\ RunValues
  /\ RunTakesNothing
  /\ RecursionValues
  /\ StackFresh
  /\ EachNodeOnce
  /\ MeansTheGraph

(* The meaning does not change in the course of an evaluation. *)
LEMMA MeaningKept ==
  ASSUME plan' = plan, session' = session, since'.states = since.states, since'.held = since.held
  PROVE  Meaning' = Meaning
BY DEF Meaning

(* A node evaluated in its first state on what its inputs mean gives what it makes of
   them. *)
LEMMA ValueRemade ==
  ASSUME NEW n \in Node, states[n] = since.states[n],
         \A m \in InputsOf(n) : values[m] = Meaning[m]
  PROVE  ValueOf(n) = Remade(n)
<1>1. \A j \in 1..Len(plan.inputs[n]) : values[plan.inputs[n][j]] = Meaning[plan.inputs[n][j]]
  BY DEF InputsOf, Members
<1>2. Args(n) = [j \in 1..Len(plan.inputs[n]) |-> Meaning[plan.inputs[n][j]]]
  BY <1>1 DEF Args
<1> QED
  BY <1>2 DEF ValueOf, Remade

(* It is what the node means, unless its wire was there from the beginning. *)
LEMMA RemadeMeans ==
  ASSUME plan \in Plans, NEW n \in Node, n \notin DOMAIN since.held
  PROVE  Remade(n) = Meaning[n]
<1>1. Meaning[n] = Body(plan, session, since.states, since.held, Meaning, n)
  BY MeantUnfolds DEF Meaning
<1> QED
  BY <1>1 DEF Remade, Body

(* Adding what is not there yet repeats nothing. *)
LEMMA AppendOnce ==
  ASSUME NEW s \in Seq(Node), NEW n \in Node, n \notin Members(s),
         \A j, k \in 1..Len(s) : s[j] = s[k] => j = k
  PROVE  /\ \A j, k \in 1..Len(Append(s, n)) : Append(s, n)[j] = Append(s, n)[k] => j = k
         /\ Members(Append(s, n)) = Members(s) \cup {n}
         /\ Append(s, n)[Len(Append(s, n))] = n
         /\ Append(s, n) \in Seq(Node)
<1>1. /\ Len(Append(s, n)) = Len(s) + 1 /\ Append(s, n)[Len(s) + 1] = n
      /\ Len(s) \in Nat /\ \A j \in 1..Len(s) : Append(s, n)[j] = s[j]
  OBVIOUS
<1>2. \A j \in 1..Len(s) : s[j] # n
  BY DEF Members
<1>3. \A j \in 1..(Len(s) + 1) : j \in 1..Len(s) \/ j = Len(s) + 1
  BY <1>1
<1>4. \A j, k \in 1..(Len(s) + 1) : Append(s, n)[j] = Append(s, n)[k] => j = k
  BY <1>1, <1>2, <1>3
<1>5. Members(Append(s, n)) = Members(s) \cup {n}
  BY <1>1, <1>3 DEF Members
<1> QED
  BY <1>1, <1>4, <1>5

(* The first elements of a sequence. *)
LEMMA PrefixFacts ==
  ASSUME NEW F, NEW s \in Seq(F), NEW n \in 0..Len(s)
  PROVE  /\ [i \in 1..n |-> s[i]] \in Seq(F)
         /\ Len([i \in 1..n |-> s[i]]) = n
<1>1. n \in Nat /\ \A i \in 1..n : s[i] \in F
  OBVIOUS
<1> QED
  BY <1>1

(* What a run has evaluated. *)
LEMMA RanFacts ==
  ASSUME IInv, call.at = "running"
  PROVE  /\ since.ran \in Seq(Node)
         /\ Members(since.ran) = {plan.order[i] : i \in 1..(call.step - 1)}
         /\ call.step <= Len(plan.order) => Current \in Node \ Members(since.ran)
<1>1. /\ plan \in Plans /\ call.step \in 1..(Len(plan.order) + 1) /\ Len(plan.order) \in Nat
      /\ since.ran = [i \in 1..(call.step - 1) |-> plan.order[i]]
  BY PlanFacts DEF IInv, TypeOK, RunPrefix
<1>2. \A i \in 1..(call.step - 1) : i \in 1..Len(plan.order) /\ plan.order[i] \in Node
  BY <1>1, PlanFacts
<1>3. since.ran \in Seq(Node) /\ Len(since.ran) = call.step - 1
  <2>1. call.step - 1 \in 0..Len(plan.order) /\ plan.order \in Seq(Node)
    BY <1>1, PlanFacts
  <2> QED
    BY <1>1, <2>1, PrefixFacts
<1>4. Members(since.ran) = {plan.order[i] : i \in 1..(call.step - 1)}
  BY <1>1, <1>3 DEF Members
<1>5. ASSUME call.step <= Len(plan.order)
      PROVE  Current \in Node \ Members(since.ran)
  <2>1. call.step \in 1..Len(plan.order)
    BY <1>1, <1>5
  <2>2. \A i \in 1..(call.step - 1) : plan.order[i] # plan.order[call.step]
    BY <1>1, <1>2, <2>1, PlanFacts
  <2> QED
    BY <1>1, <1>4, <2>1, <2>2, PlanFacts DEF Current
<1> QED
  BY <1>3, <1>4, <1>5

(* A call that returns something else than results, or panics. *)
LEMMA OutsideMInv ==
  ASSUME call'.at \in {"idle", "panicked"}, RanTyped', EachNodeOnce',
         call'.at = "idle" => ~(call'.method \in {"run", "compute"} /\ call'.outcome = "ok")
  PROVE  MInv'
BY DEF MInv, RanTyped, StatesSince, RunValues, RunTakesNothing,
   RecursionValues, StackFresh, MeansTheGraph,
       RunMeansTheGraph, RecursionMeansTheGraph, Succeeded

(* A call begins. *)
LEMMA CallMInv ==
  ASSUME IInv, MInv, CallWithInputs \/ CallCompute \/ SetValue \/ Take \/ ResetWires
                 \/ ResetOpStates \/ ComputeOne
  PROVE  MInv'
<1>1. plan' = plan /\ \E held : since' = Evaluating(states, held)
  BY DEF CallWithInputs, CallCompute, SetValue, Take, ResetWires, ResetOpStates, ComputeOne, Call
<1>2. since'.ran = <<>> /\ since'.states = states
  BY <1>1 DEF Evaluating
<1>3. EachNodeOnce' /\ Members(since'.ran) = {}
  BY <1>2 DEF EachNodeOnce, Members
<1>t. RanTyped'
  BY <1>2 DEF RanTyped
<1>4. CASE CallWithInputs
  <2>1. call'.at = "feeding" /\ states' = states /\ DOMAIN since'.held = {}
    BY <1>4 DEF CallWithInputs, Call, Feeding, Evaluating, Nothing
  <2> QED
    BY <1>2, <1>3, <1>t, <2>1 DEF MInv, StatesSince, RunValues, RunTakesNothing,
       RecursionValues, StackFresh,
       MeansTheGraph, RunMeansTheGraph, RecursionMeansTheGraph, Succeeded
<1>5. CASE CallCompute
  <2>1. PICK n \in Node : call' = Recursing(<<Frame(n, 0)>>)
    BY <1>5 DEF CallCompute
  <2>2. call'.at = "recursing" /\ Len(call'.stack) = 1 /\ states' = states /\ values' = values
    BY <1>5, <2>1 DEF Recursing, CallCompute
  <2>3. 2..Len(call'.stack) = {} /\ 1..(Len(call'.stack) - 1) = {}
    BY <2>2
  <2>4. StackFresh'
    BY <1>3, <2>2, <2>3 DEF StackFresh, Depth
  <2>5. RecursionValues'
    <3>1. plan' \in Plans /\ since'.held = values' /\ DOMAIN values' \subseteq Node
      BY <1>1, <1>5, <2>2 DEF CallCompute, Call, Evaluating, IInv, TypeOK
    <3>2. ASSUME NEW m \in DOMAIN values' PROVE values'[m] = Meaning'[m]
      <4>1. Meaning'[m]
              = Body(plan', session', since'.states, since'.held, Meaning', m)
        BY <3>1, MeantUnfolds DEF Meaning
      <4> QED
        BY <3>1, <4>1 DEF Body
    <3> QED
      BY <1>3, <3>1, <3>2 DEF RecursionValues
  <2> QED
    BY <1>2, <1>3, <1>t, <2>2, <2>4, <2>5 DEF MInv, StatesSince, RunValues, RunTakesNothing,
       MeansTheGraph, RunMeansTheGraph, RecursionMeansTheGraph, Succeeded
<1>6. CASE SetValue \/ Take \/ ResetWires \/ ResetOpStates \/ ComputeOne
  <2>1. \/ call'.at = "panicked"
        \/ call'.at = "idle" /\ call'.method \notin {"run", "compute"}
    <3>1. CASE SetValue
      BY <3>1 DEF SetValue, Idle
    <3>2. CASE Take
      BY <3>2 DEF Take, Idle
    <3>3. CASE ResetWires \/ ResetOpStates
      BY <3>3 DEF ResetWires, ResetOpStates, Idle
    <3>4. CASE ComputeOne
      BY <3>4 DEF ComputeOne, Idle, Panicked
    <3> QED
      BY <1>6, <3>1, <3>2, <3>3, <3>4
  <2> QED
    BY <1>3, <1>t, <2>1, OutsideMInv
<1> QED
  BY <1>4, <1>5, <1>6

(* The inputs are taken, or refused. *)
LEMMA FeedMInv ==
  ASSUME IInv, MInv, RejectIndex \/ RejectUndetermined \/ SetInput \/ InputsSet
  PROVE  MInv'
<1>1. since' = since /\ states' = states /\ call.at = "feeding" /\ since.ran = <<>>
  BY DEF RejectIndex, RejectUndetermined, SetInput, InputsSet, HasTensor, IInv, StartsFresh
<1>2. EachNodeOnce' /\ RanTyped' /\ Members(since'.ran) = {}
  BY <1>1 DEF EachNodeOnce, RanTyped, Members
<1>3. \/ call'.at \in {"feeding", "running"}
      \/ call'.at = "idle" /\ call'.outcome \in {"index", "undetermined"}
      \/ call'.at = "idle" /\ call'.method = "set"
  BY DEF RejectIndex, RejectUndetermined, SetInput, InputsSet, Idle, Feeding, Running
<1>4. CASE call'.at \in {"feeding", "running"}
  BY <1>1, <1>2, <1>4 DEF MInv, RanTyped, StatesSince, RunValues, RunTakesNothing,
     RecursionValues, StackFresh,
     MeansTheGraph, RunMeansTheGraph, RecursionMeansTheGraph, Succeeded
<1> QED
  BY <1>2, <1>3, <1>4, OutsideMInv

(* A step of the run computes what its node means: it reads what earlier steps
   have computed, in the state the operator had at the start. *)
LEMMA RunStepMInv ==
  ASSUME IInv, MInv, RunStep
  PROVE  MInv'
<1>1. /\ call.at = "running" /\ call'.at = "running" /\ call.step \in 1..Len(plan.order)
      /\ plan' = plan /\ plan \in Plans /\ Len(plan.order) \in Nat
      /\ DOMAIN values' = (DOMAIN values \ FlushList(call.step)) \cup {Current}
      /\ since'.ran = Append(since.ran, Current)
      /\ HasInputs(Current)
  BY RunStepFacts DEF IInv, TypeOK
<1>2. /\ since'.states = since.states /\ since'.held = since.held /\ session' = session
      /\ states' = [states EXCEPT ![Current] = StateAfter(Current)]
      /\ values' = Store(Drop(values, FlushList(call.step)), Current, ValueOf(Current))
  BY DEF RunStep, Evaluate
<1>3. since.ran \in Seq(Node) /\ Current \in Node /\ Current \notin Members(since.ran)
  BY <1>1, RanFacts
<1>4. EachNodeOnce' /\ RanTyped' /\ Members(since'.ran) = Members(since.ran) \cup {Current}
  BY <1>1, <1>3, AppendOnce DEF MInv, EachNodeOnce, RanTyped
<1>5. StatesSince'
  BY <1>1, <1>2, <1>4 DEF MInv, RanTyped, StatesSince, IInv, TypeOK
<1>6. Meaning' = Meaning /\ InputsAreLeaves' = InputsAreLeaves
  BY <1>1, <1>2, MeaningKept DEF InputsAreLeaves
<1>7. ASSUME InputsAreLeaves
      PROVE  ValueOf(Current) = Meaning[Current]
  <2>1. \A m \in InputsOf(Current) : m \in Members(since.ran)
    <3> SUFFICES ASSUME NEW m \in InputsOf(Current) PROVE m \in Members(since.ran)
      OBVIOUS
    <3>1. \E i \in 1..(call.step - 1) : plan.order[i] = m
      BY <1>1, <1>7, ReadLater DEF Current
    <3> QED
      BY <1>1, <3>1, RanFacts
  <2>2. \A m \in InputsOf(Current) : values[m] = Meaning[m]
    BY <1>1, <1>7, <2>1 DEF MInv, RunValues, HasInputs, Computed
  <2>3. states[Current] = since.states[Current]
    BY <1>1, <1>3 DEF MInv, RanTyped, StatesSince
  <2>4. Current \notin DOMAIN since.held
    BY <1>1 DEF MInv, RunTakesNothing
  <2> QED
    BY <1>1, <1>3, <2>2, <2>3, <2>4, ValueRemade, RemadeMeans
<1>8. RunValues'
  <2> SUFFICES ASSUME InputsAreLeaves, NEW n \in Members(since'.ran) \cap DOMAIN values'
               PROVE  values'[n] = Meaning[n]
    BY <1>6 DEF RunValues
  <2>1. CASE n = Current
    BY <1>2, <1>7, <2>1 DEF Store
  <2>2. CASE n # Current
    <3>1. n \in Members(since.ran) \cap DOMAIN values /\ n \notin FlushList(call.step)
      BY <1>1, <1>4, <2>2
    <3>2. values'[n] = values[n]
      BY <1>2, <2>2, <3>1 DEF Store, Drop, Restrict
    <3> QED
      BY <1>1, <3>1, <3>2 DEF MInv, RunValues
  <2> QED
    BY <2>1, <2>2
<1> QED
  BY <1>1, <1>2, <1>4, <1>5, <1>8 DEF MInv, RunTakesNothing, RecursionValues, StackFresh,
     MeansTheGraph, RunMeansTheGraph, RecursionMeansTheGraph, Succeeded

(* A run that ends returns what its outputs mean, or an error. *)
LEMMA RunEndsMInv ==
  ASSUME IInv, MInv, RunMissingPrecursor \/ RunInputAssertionFails \/ RunAssertionFails
                 \/ RunEvalFails \/ RunPanics \/ RunReturns
  PROVE  MInv'
<1>1. CASE RunReturns
  <2>1. /\ call.at = "running" /\ call.step = Len(plan.order) + 1 /\ Len(plan.order) \in Nat
        /\ plan \in Plans /\ plan' = plan /\ session' = session /\ since' = since
        /\ \A n \in Outputs : Computed(n)
        /\ call' = Idle("run", "ok", [k \in 1..Len(plan.outputs) |-> values[plan.outputs[k]]])
    BY <1>1, PlanFacts DEF RunReturns, IInv, TypeOK
  <2>2. Meaning' = Meaning /\ InputsAreLeaves' = InputsAreLeaves
    BY <2>1, MeaningKept DEF InputsAreLeaves
  <2>3. ASSUME InputsAreLeaves, NEW k \in 1..Len(plan.outputs)
        PROVE  values[plan.outputs[k]] = Meaning[plan.outputs[k]]
    <3>1. plan.outputs[k] \in Outputs
      BY DEF Outputs, Members
    <3>2. plan.outputs[k] \in Members(since.ran)
      <4>1. Members(since.ran) = {plan.order[i] : i \in 1..(call.step - 1)}
        BY <2>1, RanFacts
      <4>2. Members(plan.order) = {plan.order[i] : i \in 1..(call.step - 1)}
        BY <2>1 DEF Members
      <4> QED
        BY <2>1, <3>1, <4>1, <4>2, PlanFacts
    <3> QED
      BY <2>1, <2>3, <3>1, <3>2 DEF MInv, RunValues, Computed
  <2>4. RunMeansTheGraph'
    BY <2>1, <2>2, <2>3 DEF RunMeansTheGraph, Idle
  <2>5. call'.at = "idle" /\ call'.method = "run" /\ EachNodeOnce' /\ RanTyped'
    BY <2>1 DEF Idle, MInv, EachNodeOnce, RanTyped
  <2> QED
    BY <2>4, <2>5 DEF MInv, StatesSince, RunValues, RunTakesNothing,
       RecursionValues, StackFresh,
       MeansTheGraph, RecursionMeansTheGraph, Succeeded
<1>2. CASE RunAssertionFails
  <2>1. call.at = "running" /\ call.step <= Len(plan.order) /\ since'.ran = Append(since.ran, Current)
    BY <1>2 DEF RunAssertionFails, ReadyToEval, AtStep, Evaluate
  <2>2. since.ran \in Seq(Node) /\ Current \in Node /\ Current \notin Members(since.ran)
    BY <2>1, RanFacts
  <2>3. \A j, k \in 1..Len(since.ran) : since.ran[j] = since.ran[k] => j = k
    BY DEF MInv, EachNodeOnce
  <2>4. /\ \A j, k \in 1..Len(Append(since.ran, Current)) :
              Append(since.ran, Current)[j] = Append(since.ran, Current)[k] => j = k
        /\ Append(since.ran, Current) \in Seq(Node)
    BY <2>2, <2>3, AppendOnce
  <2>5. EachNodeOnce' /\ RanTyped'
    BY <2>1, <2>4 DEF EachNodeOnce, RanTyped
  <2> QED
    BY <1>2, <2>5, OutsideMInv DEF RunAssertionFails, Idle
<1>3. CASE RunMissingPrecursor \/ RunInputAssertionFails \/ RunEvalFails \/ RunPanics
  <2>1. EachNodeOnce' /\ RanTyped'
    BY <1>3 DEF RunMissingPrecursor, RunInputAssertionFails, RunEvalFails, RunPanics, FailEval,
       MInv, EachNodeOnce, RanTyped
  <2> QED
    BY <1>3, <2>1, OutsideMInv
    DEF RunMissingPrecursor, RunInputAssertionFails, RunEvalFails, RunPanics, Idle, Panicked
<1> QED
  BY <1>1, <1>2, <1>3

(* A nested call is for a node without a value. *)
LEMMA RecurseIntoMInv ==
  ASSUME IInv, MInv, RecurseInto
  PROVE  MInv'
<1> DEFINE L == Len(call.stack)
           f == Frame(Precursor, 0)
<1>1. /\ call.at = "recursing" /\ call'.at = "recursing" /\ call'.stack = Append(call.stack, f)
      /\ UNCHANGED <<plan, values, states, session, since>>
      /\ Top.input < Len(plan.inputs[Top.node])
      /\ Precursor \notin DOMAIN values
  BY DEF RecurseInto, Recursing, InLoop, Computed
<1>2. call.stack \in Seq([node : Node, input : Nat]) \ {<<>>} /\ L \in Nat \ {0}
  BY <1>1, TopFacts DEF IInv, Depth
<1>3. f \in [node : Node, input : Nat] /\ f.node = Precursor
  <2>1. call'.stack \in Seq([node : Node, input : Nat]) \ {<<>>}
    BY <1>1, StepTypeOK DEF IInv, Next, TypeOK
  <2>2. Len(call'.stack) = L + 1 /\ call'.stack[L + 1] = f
    BY <1>1, <1>2
  <2> QED
    BY <1>2, <2>1, <2>2 DEF Frame
<1> HIDE DEF f
<1>4. /\ Len(Append(call.stack, f)) = L + 1 /\ Append(call.stack, f)[L + 1] = f
      /\ \A p \in 1..L : Append(call.stack, f)[p] = call.stack[p]
  BY <1>2, <1>3
<1>5. /\ call'.stack[1].node \notin Members(since.ran)
      /\ \A q \in 2..(L + 1) : call'.stack[q].node \notin DOMAIN values
  <2>1. \A q \in 2..L : call'.stack[q].node \notin DOMAIN values
    BY <1>1, <1>2, <1>4 DEF MInv, StackFresh, Depth
  <2>2. \A q \in 2..(L + 1) : q \in 2..L \/ q = L + 1
    BY <1>2
  <2>3. call'.stack[L + 1].node \notin DOMAIN values
    BY <1>1, <1>3, <1>4
  <2>4. call'.stack[1] = call.stack[1]
    BY <1>1, <1>2, <1>4
  <2> QED
    BY <1>1, <2>1, <2>2, <2>3, <2>4 DEF MInv, StackFresh
<1>6. ASSUME NEW q \in 1..L
      PROVE  /\ call'.stack[q].input < Len(plan.inputs[call'.stack[q].node])
             /\ plan.inputs[call'.stack[q].node][call'.stack[q].input + 1]
                  = call'.stack[q + 1].node
  <2>1. CASE q = L
    BY <1>1, <1>2, <1>3, <1>4, <2>1 DEF Top, Depth, Precursor
  <2>2. CASE q # L
    <3>1. q \in 1..(L - 1) /\ q + 1 \in 1..L
      BY <1>2, <2>2
    <3> QED
      BY <1>1, <1>4, <3>1 DEF MInv, StackFresh, Depth
  <2> QED
    BY <2>1, <2>2
<1>7. StackFresh'
  <2>1. Len(call'.stack) = L + 1 /\ 1..(L + 1 - 1) = 1..L
    BY <1>1, <1>2, <1>4
  <2> QED
    BY <1>1, <1>5, <1>6, <2>1 DEF StackFresh, Depth, MInv
<1>8. Meaning' = Meaning
  BY <1>1, MeaningKept
<1> QED
  BY <1>1, <1>7, <1>8 DEF MInv, RanTyped, StatesSince, RunValues, RunTakesNothing,
     RecursionValues, EachNodeOnce,
     MeansTheGraph, RunMeansTheGraph, RecursionMeansTheGraph, Succeeded

(* Going over an input changes no wire. *)
LEMMA SkipComputedMInv ==
  ASSUME IInv, MInv, SkipComputed
  PROVE  MInv'
<1> DEFINE L == Len(call.stack)
           f == Frame(Top.node, Top.input + 1)
<1>1. /\ call.at = "recursing" /\ call'.at = "recursing"
      /\ call'.stack = WithTop(call.stack, f)
      /\ UNCHANGED <<plan, values, states, session, since>>
  BY DEF SkipComputed, Recursing, InLoop, WithTop, Depth, Top
<1>2. /\ call.stack \in Seq([node : Node, input : Nat]) \ {<<>>} /\ L \in Nat \ {0}
      /\ Top \in [node : Node, input : Nat]
  BY <1>1, TopFacts DEF IInv, Depth
<1>3. f \in [node : Node, input : Nat] /\ f.node = Top.node
  BY <1>2 DEF Frame
<1> HIDE DEF f
<1>4. /\ Len(WithTop(call.stack, f)) = L /\ WithTop(call.stack, f)[L] = f
      /\ \A p \in 1..(L - 1) : WithTop(call.stack, f)[p] = call.stack[p]
  <2>1. call.stack \in Seq([node : Node, input : Nat]) \ {<<>>}
    BY <1>2
  <2>2. f \in [node : Node, input : Nat]
    BY <1>3
  <2> QED
    BY <2>1, <2>2 DEF WithTop
<1>5. \A p \in 1..L : call'.stack[p].node = call.stack[p].node
  <2>1. \A p \in 1..L : p = L \/ p \in 1..(L - 1)
    BY <1>2
  <2>2. call.stack[L].node = f.node
    BY <1>3 DEF Top, Depth
  <2> QED
    BY <1>1, <1>4, <2>1, <2>2
<1>6. \A p \in 1..(L - 1) : call'.stack[p] = call.stack[p] /\ p \in 1..L /\ p + 1 \in 1..L
  BY <1>1, <1>2, <1>4
<1>7. StackFresh'
  <2>1. Len(call'.stack) = L /\ 1 \in 1..L /\ \A q \in 2..L : q \in 1..L
    BY <1>1, <1>2, <1>4
  <2> QED
    BY <1>1, <1>5, <1>6, <2>1 DEF StackFresh, Depth, MInv
<1>8. Meaning' = Meaning
  BY <1>1, MeaningKept
<1> QED
  BY <1>1, <1>7, <1>8 DEF MInv, RanTyped, StatesSince, RunValues, RunTakesNothing,
     RecursionValues, EachNodeOnce,
     MeansTheGraph, RunMeansTheGraph, RecursionMeansTheGraph, Succeeded

(* The node on top of the stack has not been evaluated in this call, nor does it
   wait below: the frame would wait for a value that it has. *)
LEMMA TopIsNew ==
  ASSUME IInv, MInv, AfterLoop
  PROVE  /\ Top.node \in Node
         /\ Top.node \notin Members(since.ran)
         /\ \A q \in 1..(Depth - 1) : call.stack[q].node # Top.node
<1>1. /\ call.at = "recursing" /\ Depth \in Nat \ {0} /\ Top \in [node : Node, input : Nat]
      /\ HasInputs(Top.node)
  BY TopFacts DEF IInv, AfterLoop
<1>2. Top.node \notin Members(since.ran)
  <2>1. CASE Depth = 1
    BY <1>1, <2>1 DEF MInv, StackFresh, Top
  <2>2. CASE Depth # 1
    <3>1. Depth \in 2..Depth
      BY <1>1, <2>2
    <3> QED
      BY <1>1, <3>1 DEF MInv, StackFresh, Top
  <2> QED
    BY <2>1, <2>2
<1>3. ASSUME NEW q \in 1..(Depth - 1), call.stack[q].node = Top.node
      PROVE  FALSE
  <2>1. q + 1 \in 2..Depth
    BY <1>1
  <2>2. /\ call.stack[q].input < Len(plan.inputs[Top.node])
        /\ plan.inputs[Top.node][call.stack[q].input + 1] \notin DOMAIN values
    BY <1>1, <1>3, <2>1 DEF MInv, StackFresh
  <2>3. call.stack[q].input + 1 \in 1..Len(plan.inputs[Top.node])
    <3>1. call.stack \in Seq([node : Node, input : Nat]) \ {<<>>}
      BY <1>1, TopFacts DEF IInv
    <3>2. q \in 1..Len(call.stack)
      BY <1>1 DEF Depth
    <3>3. call.stack[q] \in [node : Node, input : Nat]
      BY <3>1, <3>2, StackFacts
    <3>4. Len(plan.inputs[Top.node]) \in Nat
      BY <1>1, PlanFacts DEF IInv, TypeOK
    <3> QED
      BY <2>2, <3>3, <3>4
  <2> QED
    BY <1>1, <2>2, <2>3 DEF HasInputs, InputsOf, Members, Computed
<1> QED
  BY <1>1, <1>2, <1>3

(* The last input is there: the node gets its value, and its meaning. *)
LEMMA EvalTopMInv ==
  ASSUME IInv, MInv, EvalTop
  PROVE  MInv'
<1> DEFINE L == Len(call.stack)
           n == Top.node
<1>1. /\ AfterLoop /\ call.at = "recursing" /\ plan' = plan /\ session' = session
      /\ plan \in Plans /\ HasInputs(n)
      /\ values' = Store(values, n, ValueOf(n))
      /\ states' = [states EXCEPT ![n] = StateAfter(n)]
      /\ since'.ran = Append(since.ran, n) /\ since'.states = since.states
      /\ since'.held = since.held
  BY DEF EvalTop, Evaluate, AfterLoop, IInv, TypeOK
<1>2. /\ n \in Node /\ n \notin Members(since.ran)
      /\ \A q \in 1..(Depth - 1) : call.stack[q].node # n
  BY <1>1, TopIsNew
<1>3. L \in Nat \ {0} /\ call.stack \in Seq([node : Node, input : Nat]) \ {<<>>}
  BY <1>1, TopFacts DEF IInv, Depth
<1>4. since.ran \in Seq(Node)
  BY DEF MInv, RanTyped
<1> HIDE DEF n
<1>5. /\ EachNodeOnce' /\ Members(since'.ran) = Members(since.ran) \cup {n}
      /\ since'.ran[Len(since'.ran)] = n /\ RanTyped'
  BY <1>1, <1>2, <1>4, AppendOnce DEF MInv, EachNodeOnce, RanTyped
<1>6. /\ DOMAIN values' = DOMAIN values \cup {n} /\ values'[n] = ValueOf(n)
      /\ \A m \in DOMAIN values \ {n} : values'[m] = values[m]
  BY <1>1 DEF Store
<1>7. Meaning' = Meaning
  BY <1>1, MeaningKept
<1>8. StatesSince'
  BY <1>1, <1>2, <1>5 DEF MInv, RanTyped, StatesSince, IInv, TypeOK
<1>9. /\ DOMAIN values = DOMAIN since.held \cup Members(since.ran)
      /\ \A m \in DOMAIN values : values[m] = Meaning[m]
  BY <1>1 DEF MInv, RecursionValues
<1>v. ValueOf(n) = Remade(n)
  <2>1. states[n] = since.states[n]
    BY <1>1, <1>2 DEF MInv, RanTyped, StatesSince
  <2>2. \A m \in InputsOf(n) : values[m] = Meaning[m]
    BY <1>1, <1>9 DEF HasInputs, Computed
  <2> QED
    BY <1>2, <2>1, <2>2, ValueRemade
<1>10. CASE L > 1
  <2> DEFINE rest == SubSeq(call.stack, 1, L - 1)
  <2>1. call'.at = "recursing" /\ call'.stack = rest
    BY <1>10 DEF EvalTop, Recursing, Depth
  <2>2. Len(rest) = L - 1 /\ \A p \in 1..(L - 1) : rest[p] = call.stack[p]
    BY <1>3, <1>10, PopFacts
  <2> HIDE DEF rest
  <2>3. StackFresh'
    <3>1. Members(since'.ran) \subseteq DOMAIN values'
      BY <1>1, <1>5, <1>6 DEF MInv, StackFresh
    <3>2. call'.stack[1].node \notin Members(since'.ran)
      <4>1. 1 \in 1..(L - 1)
        BY <1>3, <1>10
      <4> QED
        BY <1>1, <1>2, <1>5, <2>1, <2>2, <4>1 DEF MInv, StackFresh, Depth
    <3>3. ASSUME NEW q \in 2..(L - 1)
          PROVE  call'.stack[q].node \notin DOMAIN values'
      <4>1. q \in 1..(L - 1) /\ q \in 2..L
        BY <1>3
      <4> QED
        BY <1>1, <1>2, <1>6, <2>1, <2>2, <4>1 DEF MInv, StackFresh, Depth
    <3>4. ASSUME NEW q \in 1..((L - 1) - 1)
          PROVE  /\ call'.stack[q].input < Len(plan.inputs[call'.stack[q].node])
                 /\ plan.inputs[call'.stack[q].node][call'.stack[q].input + 1]
                      = call'.stack[q + 1].node
      <4>1. q \in 1..(L - 1) /\ q + 1 \in 1..(L - 1)
        BY <1>3
      <4> QED
        BY <1>1, <2>1, <2>2, <4>1 DEF MInv, StackFresh, Depth
    <3> QED
      BY <1>1, <2>1, <2>2, <3>1, <3>2, <3>3, <3>4 DEF StackFresh, Depth
  <2>4. RecursionValues'
    <3>1. L \in 2..Depth /\ n = call.stack[L].node
      BY <1>3, <1>10 DEF Depth, Top, n
    <3>2. n \notin DOMAIN since.held
      BY <1>1, <1>9, <3>1 DEF MInv, StackFresh
    <3>3. ValueOf(n) = Meaning[n]
      BY <1>1, <1>2, <1>v, <3>2, RemadeMeans
    <3> QED
      BY <1>1, <1>5, <1>6, <1>7, <1>9, <3>3 DEF RecursionValues
  <2> QED
    BY <1>5, <1>8, <2>1, <2>3, <2>4 DEF MInv, RunValues, RunTakesNothing,
       MeansTheGraph, RunMeansTheGraph, RecursionMeansTheGraph, Succeeded
<1>11. CASE ~(L > 1)
  <2>1. call' = Idle("compute", "ok", <<values'[n]>>)
    BY <1>11 DEF EvalTop, Depth, n
  <2>2. \A m : Remade(m)' = Remade(m)
    BY <1>1, <1>7 DEF Remade
  <2>3. RecursionMeansTheGraph'
    BY <1>5, <1>6, <1>v, <2>1, <2>2 DEF RecursionMeansTheGraph, Idle
  <2> QED
    BY <1>5, <2>1, <2>3 DEF MInv, StatesSince, RunValues, RunTakesNothing, RecursionValues,
       StackFresh, MeansTheGraph, RunMeansTheGraph, Succeeded, Idle
<1> QED
  BY <1>10, <1>11

(* A recursive evaluation that fails returns no value. *)
LEMMA EvalTopFailsMInv ==
  ASSUME IInv, MInv, EvalTopFails \/ EvalTopPanics
  PROVE  MInv'
<1>1. EachNodeOnce' /\ RanTyped'
  BY DEF EvalTopFails, EvalTopPanics, FailEval, MInv, EachNodeOnce, RanTyped
<1> QED
  BY <1>1, OutsideMInv DEF EvalTopFails, EvalTopPanics, Idle, Panicked

(* Nothing changes, nothing breaks. *)
LEMMA StutterMInv ==
  ASSUME MInv, UNCHANGED vars
  PROVE  MInv'
<1>1. /\ UNCHANGED <<plan, values, states, session, call, since>>
      /\ Meaning' = Meaning
  BY MeaningKept DEF vars
<1>2. \A m : Remade(m)' = Remade(m)
  BY <1>1 DEF Remade
<1> QED
  BY <1>1, <1>2 DEF MInv, RanTyped, StatesSince, RunValues, RunTakesNothing,
     RecursionValues, StackFresh, EachNodeOnce,
     MeansTheGraph, RunMeansTheGraph, RecursionMeansTheGraph, Succeeded, Depth, InputsAreLeaves

(* Nothing has run. *)
LEMMA InitMInv == Init => MInv
<1> SUFFICES ASSUME Init PROVE MInv
  OBVIOUS
<1>1. call.at = "idle" /\ call.method = "new" /\ since.ran = <<>>
  BY DEF Init, Idle, Evaluating
<1> QED
  BY <1>1 DEF MInv, RanTyped, StatesSince, RunValues, RunTakesNothing,
     RecursionValues, StackFresh, EachNodeOnce,
     MeansTheGraph, RunMeansTheGraph, RecursionMeansTheGraph, Succeeded

(* The values of an evaluation are those of the graph, in every reachable state. *)
THEOREM ValuesInvariance == Spec => []MInv
<1>1. IInv /\ MInv /\ [Next]_vars => MInv'
  BY CallMInv, FeedMInv, RunStepMInv, RunEndsMInv, RecurseIntoMInv, SkipComputedMInv,
     EvalTopMInv, EvalTopFailsMInv, StutterMInv DEF Next
<1> QED
  BY <1>1, InitMInv, Invariance, PTL DEF Spec

(* The result of run is what the graph means for the tensors of the session, and that
   of compute_recursively what it means for them and the wires that were there,
   whatever was called before. *)
THEOREM EvaluationMeansTheGraph == Spec => []MeansTheGraph
<1>1. MInv => MeansTheGraph
  BY DEF MInv
<1> QED
  BY <1>1, ValuesInvariance, PTL

(* Neither evaluation runs a node twice, so no state advances twice. *)
THEOREM NodesRunOnce == Spec => []EachNodeOnce
<1>1. MInv => EachNodeOnce
  BY DEF MInv
<1> QED
  BY <1>1, ValuesInvariance, PTL

-----------------------------------------------------------------------------
(* The symbols and the tensors of the session. *)

(* What the calls keep true of the session. *)
SInv == TypeOK /\ SymbolsFollowTensors

(* The other steps leave the session as it is, and a run begins at its first input. *)
LEMMA SessionKept ==
  ASSUME Next, ~SetInput, ~RejectUndetermined
  PROVE  /\ UNCHANGED <<plan, session, symbols>>
         /\ call'.at = "feeding" /\ call'.method = "run" => call'.next = 0
<1> USE DEF Idle, Panicked, Feeding, Running, Recursing
<1>1. CASE CallWithInputs
  BY <1>1 DEF CallWithInputs, Call
<1>2. CASE RejectIndex \/ InputsSet
  BY <1>2 DEF RejectIndex, InputsSet
<1>3. CASE RunMissingPrecursor \/ RunInputAssertionFails \/ RunPanics \/ RunReturns
  BY <1>3 DEF RunMissingPrecursor, RunInputAssertionFails, RunPanics, RunReturns
<1>4. CASE RunStep \/ RunAssertionFails \/ RunEvalFails
  BY <1>4 DEF RunStep, RunAssertionFails, RunEvalFails, Evaluate, FailEval
<1>5. CASE CallCompute \/ RecurseInto \/ SkipComputed
  BY <1>5 DEF CallCompute, Call, RecurseInto, SkipComputed
<1>6. CASE EvalTop \/ EvalTopFails \/ EvalTopPanics
  BY <1>6 DEF EvalTop, EvalTopFails, EvalTopPanics, Evaluate, FailEval
<1>7. CASE SetValue
  BY <1>7 DEF SetValue, Call
<1>8. CASE Take
  BY <1>8 DEF Take, Call
<1>9. CASE ResetWires \/ ResetOpStates
  BY <1>9 DEF ResetWires, ResetOpStates, Call
<1>10. CASE ComputeOne
  BY <1>10 DEF ComputeOne, Call
<1> QED
  BY <1>1, <1>2, <1>3, <1>4, <1>5, <1>6, <1>7, <1>8, <1>9, <1>10 DEF Next

(* What follows the session keeps following it. *)
LEMMA KeptSInv ==
  ASSUME SInv, TypeOK', UNCHANGED <<plan, session, symbols>>,
         call'.at = "feeding" /\ call'.method = "run" =>
           call'.next = 0 \/ UNCHANGED call
  PROVE  SInv'
<1>1. SymbolsAreSaid' /\ TensorsAreDetermined'
  BY DEF SInv, SymbolsFollowTensors, SymbolsAreSaid, TensorsAreDetermined, Resolves, Says,
     Determined
<1>2. ASSUME call'.next = 0 PROVE LastInputSays'
  BY <1>2 DEF LastInputSays
<1>3. ASSUME UNCHANGED call PROVE LastInputSays'
  BY <1>3 DEF SInv, SymbolsFollowTensors, LastInputSays, Resolves, Says
<1>4. ASSUME ~(call'.at = "feeding" /\ call'.method = "run") PROVE LastInputSays'
  BY <1>4 DEF LastInputSays
<1>5. LastInputSays'
  BY <1>2, <1>3, <1>4
<1> QED
  BY <1>1, <1>5 DEF SInv, SymbolsFollowTensors

(* A tensor is refused for a symbol that nothing gives a value, and gives none. *)
LEMMA RefuseSInv ==
  ASSUME SInv, TypeOK', RejectUndetermined
  PROVE  SInv'
<1>1. /\ UNCHANGED <<plan, session>> /\ call'.at = "idle"
      /\ symbols' = Resolved(plan.fact[InputNode], Head(call.feed))
      /\ ~Determined(plan.fact[InputNode], symbols')
  BY DEF RejectUndetermined, Idle
<1>2. symbols' = symbols
  BY <1>1 DEF Resolved, Determined, Store
<1> QED
  BY <1>1, <1>2, KeptSInv

(* A tensor that is kept gives its symbol a value, and leaves the others theirs. *)
LEMMA SetInputSInv ==
  ASSUME SInv, TypeOK', SetInput
  PROVE  SInv'
<1>0. PICK n, t : n = InputNode /\ t = Head(call.feed)
  OBVIOUS
<1> DEFINE f == plan.fact[n]
<1>1. /\ plan' = plan /\ plan \in Plans /\ call.at = "feeding" /\ call'.at = "feeding"
      /\ call.next \in Nat /\ call.next + 1 \in 1..Len(plan.interface)
      /\ call'.method = call.method /\ call'.next = call.next + 1
      /\ n = plan.interface[call.next + 1]
      /\ symbols' = Resolved(f, t) /\ Determined(f, symbols')
      /\ session' = Store(session, n, t)
  BY <1>0, PlanFacts DEF SetInput, HasTensor, ValidIndex, Feeding, InputNode, SInv, TypeOK
<1>2. /\ DOMAIN session' = DOMAIN session \cup {n} /\ session'[n] = t
      /\ \A m \in DOMAIN session : m # n => session'[m] = session[m]
  BY <1>1 DEF Store
<1>3. \A m, s : Resolves(m, s)' = Resolves(m, s)
  BY <1>1 DEF Resolves
<1>4. \A m \in DOMAIN session : m # n => Says(m)' = Says(m)
  BY <1>1, <1>2 DEF Says
<1>5. ASSUME NEW s \in Symbol, Resolves(n, s)
      PROVE  s \in DOMAIN symbols' /\ symbols'[s] = Says(n)'
  <2>1. f.symbol = s /\ f.offset = 0 /\ s # NoSymbol
    BY <1>5, SymbolAssumption DEF Resolves
  <2>2. symbols' = Store(symbols, s, Size[t] \div f.factor)
    BY <1>1, <2>1 DEF Resolved
  <2>3. Says(n)' = Size[t] \div f.factor
    <3>1. \A m : Says(m)' = Size[session'[m]] \div plan.fact[m].factor
      BY <1>1 DEF Says
    <3> QED
      BY <1>2, <3>1
  <2> QED
    BY <2>2, <2>3 DEF Store
<1>6. ASSUME NEW s, ~Resolves(n, s), s # NoSymbol
      PROVE  /\ s \in DOMAIN symbols' <=> s \in DOMAIN symbols
             /\ s \in DOMAIN symbols => symbols'[s] = symbols[s]
  BY <1>1, <1>6 DEF Resolved, Resolves, Store
<1>7. DOMAIN symbols \subseteq DOMAIN symbols' /\ DOMAIN symbols' \subseteq Symbol
  BY <1>1 DEF Resolved, Store, TypeOK
<1>8. SymbolsAreSaid'
  <2> SUFFICES ASSUME NEW s \in DOMAIN symbols'
               PROVE  \E m \in DOMAIN session' : Resolves(m, s) /\ symbols'[s] = Says(m)'
    BY <1>3 DEF SymbolsAreSaid
  <2>1. CASE Resolves(n, s)
    BY <1>2, <1>5, <1>7, <2>1
  <2>2. CASE ~Resolves(n, s)
    <3>1. s \in DOMAIN symbols /\ symbols'[s] = symbols[s]
      BY <1>6, <1>7, <2>2, SymbolAssumption
    <3>2. PICK m \in DOMAIN session : Resolves(m, s) /\ symbols[s] = Says(m)
      BY <3>1 DEF SInv, SymbolsFollowTensors, SymbolsAreSaid
    <3>3. m # n
      BY <2>2, <3>2
    <3> QED
      BY <1>2, <1>4, <3>1, <3>2, <3>3
  <2> QED
    BY <2>1, <2>2
<1>9. TensorsAreDetermined'
  <2> SUFFICES ASSUME NEW m \in DOMAIN session'
               PROVE  Determined(plan.fact[m], symbols')
    BY <1>1 DEF TensorsAreDetermined
  <2>1. CASE m = n
    BY <1>1, <2>1
  <2>2. CASE m # n
    BY <1>2, <1>7, <2>2 DEF SInv, SymbolsFollowTensors, TensorsAreDetermined, Determined
  <2> QED
    BY <2>1, <2>2
<1>10. LastInputSays'
  <2> SUFFICES ASSUME call.method = "run", NEW i \in 1..(call.next + 1), NEW s \in Symbol,
                      Resolves(plan.interface[i], s),
                      \A j \in (i + 1)..(call.next + 1) : ~Resolves(plan.interface[j], s)
               PROVE  /\ plan.interface[i] \in DOMAIN session'
                      /\ s \in DOMAIN symbols'
                      /\ symbols'[s] = Says(plan.interface[i])'
    BY <1>1, <1>3 DEF LastInputSays
  <2>1. CASE i = call.next + 1
    BY <1>1, <1>2, <1>5, <2>1
  <2>2. CASE i # call.next + 1
    <3>1. i \in 1..call.next /\ call.next + 1 \in (i + 1)..(call.next + 1)
      BY <1>1, <2>2
    <3>2. ~Resolves(n, s) /\ plan.interface[i] # n
      BY <1>1, <3>1
    <3>3. \A j \in (i + 1)..call.next : ~Resolves(plan.interface[j], s)
      <4>1. (i + 1)..call.next \subseteq (i + 1)..(call.next + 1)
        BY <1>1, <3>1
      <4> QED
        BY <4>1
    <3>4. /\ plan.interface[i] \in DOMAIN session
          /\ s \in DOMAIN symbols /\ symbols[s] = Says(plan.interface[i])
      BY <1>1, <3>1, <3>3 DEF SInv, SymbolsFollowTensors, LastInputSays
    <3>5. symbols'[s] = symbols[s] /\ s \in DOMAIN symbols'
      BY <1>6, <1>7, <3>2, <3>4, SymbolAssumption
    <3>6. Says(plan.interface[i])' = Says(plan.interface[i])
      BY <1>1, <1>2, <3>2, <3>4 DEF Says
    <3> QED
      BY <1>2, <3>4, <3>5, <3>6
  <2> QED
    BY <2>1, <2>2
<1> QED
  BY <1>8, <1>9, <1>10 DEF SInv, SymbolsFollowTensors

(* However runs, calls that fail and resets follow each other, a symbol is worth what a
   tensor the session still has says, and in a run the last input that says it. *)
THEOREM SessionStaysTogether == Spec => []SymbolsFollowTensors
<1>1. Init => SInv
  <2> SUFFICES ASSUME Init PROVE SInv
    OBVIOUS
  <2>1. /\ TypeOK /\ DOMAIN symbols = {} /\ DOMAIN session = {} /\ call.at = "idle"
    BY InitTypeOK DEF Init, Nothing, Idle
  <2> QED
    BY <2>1 DEF SInv, SymbolsFollowTensors, SymbolsAreSaid, TensorsAreDetermined, LastInputSays
<1>2. SInv /\ [Next]_vars => SInv'
  <2> SUFFICES ASSUME SInv, [Next]_vars PROVE SInv'
    OBVIOUS
  <2>1. TypeOK'
    BY StepTypeOK DEF SInv
  <2>2. CASE SetInput
    BY <2>1, <2>2, SetInputSInv
  <2>3. CASE RejectUndetermined
    BY <2>1, <2>3, RefuseSInv
  <2>4. CASE Next /\ ~SetInput /\ ~RejectUndetermined
    BY <2>1, <2>4, SessionKept, KeptSInv
  <2>5. CASE UNCHANGED vars
    BY <2>1, <2>5, KeptSInv DEF vars
  <2> QED
    BY <2>2, <2>3, <2>4, <2>5
<1>3. SInv => SymbolsFollowTensors
  BY DEF SInv
<1> QED
  BY <1>1, <1>2, <1>3, PTL DEF Spec
=============================================================================
