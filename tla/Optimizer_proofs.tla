-------------------------- MODULE Optimizer_proofs --------------------------
(***************************************************************************)
(* The result of the optimizer is a fixpoint of its passes: proved for all *)
(* passes, graphs and limits.                                              *)
(*                                                                         *)
(* The invariant says what the counters are compared for.  As long as the  *)
(* counter is what it was when the pass was entered, the graph is the one  *)
(* it was given, compacted, and the positions it is past have nothing to   *)
(* offer; as long as it is what it was when the round began, the passes    *)
(* before this one are exhausted on this very graph.                       *)
(***************************************************************************)
EXTENDS Optimizer, TLAPS

Unchanged == counter = innerStart

(* What the cursor is past has no patch to apply. *)
PastIsDone ==
  \A ix \in Positions(pass) : ix <= cursor => ~Applicable(Offers(pass)[ix])

Loops ==
  status = "running" =>
    /\ roundStart <= innerStart /\ innerStart <= counter
    /\ Unchanged => request.compact[model] = model
    /\ Unchanged => PastIsDone
    /\ counter = roundStart /\ ~Limited => \A q \in 1..(pass - 1) : Exhausted(q)

(* The inductive invariant. *)
IInv == TypeOK /\ Loops /\ FixpointReached /\ StepsRespected

(* An element of a sequence. *)
LEMMA ElementType ==
  ASSUME NEW S, NEW s \in Seq(S), NEW i \in 1..Len(s)
  PROVE  s[i] \in S
OBVIOUS

(* What a pass offers on the graph, position after position. *)
LEMMA OffersType ==
  ASSUME TypeOK, NEW p \in Passes
  PROVE  Offers(p) \in Seq(Patch \cup {NoPatch})
<1>1. request.offers \in Seq([Model -> Seq(Patch \cup {NoPatch})])
  BY DEF TypeOK, Request
<1>2. request.offers[p] \in [Model -> Seq(Patch \cup {NoPatch})]
  BY <1>1, ElementType, Zenon DEF Passes
<1> QED
  BY <1>2 DEF Offers, TypeOK

(* A position where a patch is found, the label it has, where to resume. *)
LEMMA FoundFacts ==
  ASSUME TypeOK, NEW ix \in Positions(pass), Found(ix)
  PROVE  /\ ix \in Nat /\ ix > cursor
         /\ Offers(pass)[ix] # NoPatch
         /\ Offers(pass)[ix].to \in Model
         /\ Offers(pass)[ix].watchdog \in Watchdog \cup {NoWatchdog}
         /\ Resume(ix) \in Nat
         /\ \A j \in Positions(pass) : cursor < j /\ j < ix => Offers(pass)[j] = NoPatch
         /\ Seen(Offers(pass)[ix]) => Resume(ix) = ix
<1>1. /\ pass \in Passes /\ cursor \in Nat /\ seen \in SUBSET Watchdog
      /\ WellFormed(request) /\ model \in Model
  BY DEF TypeOK
<1>2. Offers(pass) \in Seq(Patch \cup {NoPatch})
  BY <1>1, OffersType
<1>3. Len(Offers(pass)) \in Nat
  BY <1>2
<1>4. ix \in Nat /\ ix > cursor /\ ix >= 1 /\ Offers(pass)[ix] # NoPatch
  BY <1>3 DEF Found, Remaining, Positions
<1>5. Offers(pass)[ix] \in Patch \cup {NoPatch}
  BY <1>2, ElementType, Zenon DEF Positions
<1>6. Offers(pass)[ix] \in Patch
  BY <1>4, <1>5
<1>7. \A j \in Positions(pass) : cursor < j /\ j < ix => Offers(pass)[j] = NoPatch
  BY <1>1, <1>3, <1>4 DEF Found, Remaining, Positions
<1>8. ASSUME Seen(Offers(pass)[ix]) PROVE Resume(ix) = ix
  <2>1. Offers(pass)[ix].watchdog # NoWatchdog
    BY <1>1, <1>8, NamesAssumption DEF Seen
  <2>2. pass \in request.ops
    BY <1>1, <1>4, <2>1 DEF WellFormed, Offers, Positions, Passes
  <2> QED
    BY <2>1, <2>2 DEF Resume
<1>9. Resume(ix) \in Nat
  BY <1>4 DEF Resume
<1> QED
  BY <1>4, <1>6, <1>7, <1>8, <1>9 DEF Patch

(* compact() gives a compacted graph. *)
LEMMA CompactFacts ==
  ASSUME TypeOK
  PROVE  /\ request.compact[model] \in Model
         /\ request.compact[request.compact[model]] = request.compact[model]
BY DEF TypeOK, Request, WellFormed

-----------------------------------------------------------------------------

(* Initially the model is compacted and nothing was looked at. *)
LEMMA InitIInv == Init => IInv
<1> SUFFICES ASSUME Init PROVE IInv
  OBVIOUS
<1>1. request \in Request /\ WellFormed(request)
  BY RequestsAssumption DEF Init
<1>2. Len(request.offers) \in Nat \ {0}
  BY <1>1 DEF Request, WellFormed
<1>3. TypeOK
  BY <1>1, <1>2 DEF Init, TypeOK, Request, Passes
<1>4. request.compact[model] = model
  BY <1>1 DEF Init, Request, WellFormed
<1>5. PastIsDone
  <2> SUFFICES ASSUME NEW ix \in Positions(pass), ix <= cursor PROVE FALSE
    BY DEF PastIsDone
  <2>1. Len(Offers(pass)) \in Nat
    BY <1>3, OffersType DEF TypeOK
  <2> QED
    BY <2>1 DEF Init, Positions
<1>6. Loops
  BY <1>4, <1>5 DEF Init, Loops
<1>7. FixpointReached
  BY DEF Init, FixpointReached
<1>8. StepsRespected
  BY <1>1, NamesAssumption DEF Init, StepsRespected, Request
<1> QED
  BY <1>3, <1>6, <1>7, <1>8 DEF IInv

(* A patch that is applied makes the counter differ from both marks. *)
LEMMA ApplyPatchIInv == ASSUME IInv, ApplyPatch PROVE IInv'
<1> USE DEF IInv
<1>1. PICK ix \in Positions(pass) :
        /\ Found(ix)
        /\ ~Seen(Offers(pass)[ix])
        /\ model' = Offers(pass)[ix].to
        /\ seen' = seen \cup Watched(Offers(pass)[ix])
        /\ cursor' = Resume(ix)
  BY DEF ApplyPatch
<1>2. /\ Offers(pass)[ix].to \in Model
      /\ Offers(pass)[ix].watchdog \in Watchdog \cup {NoWatchdog}
      /\ Resume(ix) \in Nat
  BY <1>1, FoundFacts
<1>3. /\ status = "running" /\ status' = status /\ counter' = counter + 1 /\ ~Limited
      /\ UNCHANGED <<request, pass, innerStart, roundStart>>
  BY DEF ApplyPatch
<1>4. TypeOK'
  BY <1>1, <1>2, <1>3 DEF TypeOK, Watched, Passes
<1>5. counter' # innerStart' /\ counter' # roundStart' /\ roundStart' <= innerStart'
        /\ innerStart' <= counter'
  BY <1>3 DEF Loops, TypeOK
<1>6. Loops'
  BY <1>5 DEF Loops, Unchanged
<1>7. FixpointReached'
  BY <1>3 DEF FixpointReached
<1>8. StepsRespected'
  BY <1>3 DEF StepsRespected, Limited, TypeOK, Request
<1> QED
  BY <1>4, <1>6, <1>7, <1>8

(* A patch that was applied before is stepped over: there is nothing to do
   where it is. *)
LEMMA SkipSeenIInv == ASSUME IInv, SkipSeen PROVE IInv'
<1> USE DEF IInv
<1>1. PICK ix \in Positions(pass) :
        Found(ix) /\ Seen(Offers(pass)[ix]) /\ cursor' = Resume(ix)
  BY DEF SkipSeen
<1>2. /\ ix \in Nat /\ ix > cursor /\ Resume(ix) = ix
      /\ \A j \in Positions(pass) : cursor < j /\ j < ix => Offers(pass)[j] = NoPatch
  BY <1>1, FoundFacts
<1>3. /\ status = "running" /\ status' = status
      /\ UNCHANGED <<request, model, pass, counter, innerStart, roundStart, seen>>
  BY DEF SkipSeen
<1>4. TypeOK'
  BY <1>1, <1>2, <1>3 DEF TypeOK, Passes
<1>5. PastIsDone => PastIsDone'
  <2> SUFFICES ASSUME PastIsDone, NEW j \in Positions(pass), j <= ix
               PROVE  ~Applicable(Offers(pass)[j])
    BY <1>1, <1>2, <1>3 DEF PastIsDone, Positions, Offers, Applicable, Seen
  <2>1. j \in Nat /\ cursor \in Nat
    <3>1. Len(Offers(pass)) \in Nat
      BY OffersType DEF TypeOK
    <3> QED
      BY <3>1 DEF Positions, TypeOK
  <2>2. CASE j <= cursor
    BY <2>2 DEF PastIsDone
  <2>3. CASE cursor < j /\ j < ix
    BY <2>3, <1>2 DEF Applicable
  <2>4. CASE j = ix
    BY <2>4, <1>1 DEF Applicable
  <2> QED
    BY <2>1, <2>2, <2>3, <2>4, <1>2
<1>6. Loops'
  BY <1>3, <1>5 DEF Loops, Unchanged, Limited, Exhausted, Offers, Positions, Applicable, Seen
<1>7. FixpointReached' /\ StepsRespected'
  BY <1>3 DEF FixpointReached, StepsRespected
<1> QED
  BY <1>4, <1>6, <1>7

(* An error is returned: nothing is promised. *)
LEMMA FailIInv == ASSUME IInv, Fail PROVE IInv'
BY DEF IInv, Fail, TypeOK, Loops, FixpointReached, StepsRespected, Passes

(* A pass that has no patch, and has applied none since it was entered, is
   exhausted, unless the steps are. *)
LEMMA PassExhausted ==
  ASSUME IInv, InnerReturns, Unchanged, ~Limited
  PROVE  Exhausted(pass)
<1> SUFFICES ASSUME NEW ix \in Positions(pass)
             PROVE  ~Applicable(Offers(pass)[ix])
  BY DEF Exhausted
<1>1. ix \in Nat /\ cursor \in Nat
  <2>1. Len(Offers(pass)) \in Nat
    BY OffersType DEF TypeOK, IInv
  <2> QED
    BY <2>1 DEF Positions, TypeOK, IInv
<1>2. PastIsDone /\ Remaining = {}
  BY DEF IInv, Loops, InnerReturns
<1>3. CASE ix <= cursor
  BY <1>2, <1>3 DEF PastIsDone
<1>4. CASE ix > cursor
  BY <1>2, <1>4 DEF Remaining, Applicable
<1> QED
  BY <1>1, <1>3, <1>4

(* When a pass is entered, on a compacted graph and with its cursor at 0. *)
LEMMA EnterFacts ==
  ASSUME IInv, NEW p \in Passes, Enter(p)
  PROVE  /\ TypeOK' \/ ~(roundStart' \in Nat)
         /\ request.compact[model'] = model'
         /\ PastIsDone'
<1> USE DEF IInv
<1>1. /\ model' = request.compact[model] /\ pass' = p /\ cursor' = 0 /\ innerStart' = counter
      /\ UNCHANGED <<request, counter, seen, status>>
  BY DEF Enter
<1>2. request.compact[model] \in Model /\ request.compact[model'] = model'
  BY <1>1, CompactFacts
<1>3. ASSUME roundStart' \in Nat PROVE TypeOK'
  BY <1>1, <1>2, <1>3 DEF TypeOK, Passes
<1>4. request.offers[p] \in [Model -> Seq(Patch \cup {NoPatch})]
  <2>1. request.offers \in Seq([Model -> Seq(Patch \cup {NoPatch})])
    BY DEF TypeOK, Request
  <2> QED
    BY <2>1, ElementType, Zenon DEF Passes
<1>5. request.offers[p][model'] \in Seq(Patch \cup {NoPatch})
  BY <1>1, <1>2, <1>4
<1>6. \A ix \in 1..Len(request.offers[p][model']) : ~(ix <= 0)
  BY <1>5
<1>7. PastIsDone'
  BY <1>1, <1>6 DEF PastIsDone, Positions, Offers
<1> QED
  BY <1>2, <1>3, <1>7

(* The pass is entered again, after it has changed the graph. *)
LEMMA RepeatPassIInv == ASSUME IInv, RepeatPass PROVE IInv'
<1> USE DEF IInv
<1>1. /\ status = "running" /\ counter # innerStart /\ Enter(pass) /\ roundStart' = roundStart
  BY DEF RepeatPass, InnerReturns
<1>2. pass \in Passes /\ roundStart \in Nat /\ innerStart \in Nat /\ counter \in Nat
  BY DEF TypeOK
<1>3. TypeOK' /\ request.compact[model'] = model' /\ PastIsDone'
  BY <1>1, <1>2, EnterFacts
<1>4. /\ pass' = pass /\ innerStart' = counter
      /\ UNCHANGED <<request, counter, seen, status>>
  BY <1>1 DEF Enter
<1>5. roundStart' <= innerStart' /\ innerStart' <= counter' /\ counter' # roundStart'
  BY <1>1, <1>2, <1>4 DEF Loops
<1>6. Loops'
  BY <1>3, <1>4, <1>5 DEF Loops
<1>7. FixpointReached' /\ StepsRespected'
  BY <1>1, <1>4 DEF FixpointReached, StepsRespected
<1> QED
  BY <1>3, <1>6, <1>7

(* The next pass is entered: the one before has changed nothing. *)
LEMMA NextPassIInv == ASSUME IInv, NextPass PROVE IInv'
<1> USE DEF IInv
<1>1. /\ status = "running" /\ InnerReturns /\ Unchanged /\ Enter(pass + 1)
      /\ roundStart' = roundStart /\ pass < Len(request.offers)
  BY DEF NextPass, InnerReturns, Unchanged
<1>2. /\ pass \in Nat /\ pass + 1 \in Passes
      /\ roundStart \in Nat /\ innerStart \in Nat /\ counter \in Nat
  BY <1>1 DEF TypeOK, Passes, Request
<1>3. TypeOK' /\ request.compact[model'] = model' /\ PastIsDone'
  BY <1>1, <1>2, EnterFacts
<1>4. /\ pass' = pass + 1 /\ innerStart' = counter /\ model' = request.compact[model]
      /\ UNCHANGED <<request, counter, seen, status>>
  BY <1>1 DEF Enter
<1>5. model' = model
  BY <1>1, <1>4 DEF Loops
<1>6. roundStart' <= innerStart' /\ innerStart' <= counter'
  BY <1>1, <1>2, <1>4 DEF Loops
<1>7. ASSUME counter = roundStart, ~Limited, NEW q \in 1..(pass' - 1)
      PROVE  Exhausted(q)
  <2>1. CASE q \in 1..(pass - 1)
    BY <1>1, <1>7, <2>1 DEF Loops
  <2>2. CASE q = pass
    BY <1>1, <1>7, <2>2, PassExhausted
  <2> QED
    BY <1>2, <1>4, <2>1, <2>2
<1>8. \A q : Exhausted(q) => Exhausted(q)'
  BY <1>4, <1>5 DEF Exhausted, Applicable, Seen, Offers, Positions
<1>9. Limited' <=> Limited
  BY <1>4 DEF Limited
<1>10. Loops'
  BY <1>1, <1>3, <1>4, <1>6, <1>7, <1>8, <1>9 DEF Loops
<1>11. FixpointReached' /\ StepsRespected'
  BY <1>1, <1>4 DEF FixpointReached, StepsRespected
<1> QED
  BY <1>3, <1>10, <1>11

(* Another round begins. *)
LEMMA RepeatIInv == ASSUME IInv, Repeat PROVE IInv'
<1> USE DEF IInv
<1>1. /\ status = "running" /\ Enter(1) /\ roundStart' = counter
  BY DEF Repeat, InnerReturns
<1>2. 1 \in Passes /\ counter \in Nat
  BY DEF TypeOK, Passes, Request
<1>3. TypeOK' /\ request.compact[model'] = model' /\ PastIsDone'
  BY <1>1, <1>2, EnterFacts
<1>4. /\ pass' = 1 /\ innerStart' = counter
      /\ UNCHANGED <<request, counter, seen, status>>
  BY <1>1 DEF Enter
<1>5. Loops'
  BY <1>1, <1>2, <1>3, <1>4 DEF Loops
<1>6. FixpointReached' /\ StepsRespected'
  BY <1>1, <1>4 DEF FixpointReached, StepsRespected
<1> QED
  BY <1>3, <1>5, <1>6

(* All the passes have gone over the graph that is returned. *)
LEMMA ReturnIInv == ASSUME IInv, Return PROVE IInv'
<1> USE DEF IInv
<1>1. /\ status = "running" /\ InnerReturns /\ Unchanged /\ counter = roundStart
      /\ pass = Len(request.offers) /\ model' = request.compact[model] /\ status' = "ok"
      /\ UNCHANGED <<request, pass, cursor, counter, innerStart, roundStart, seen>>
  BY DEF Return, InnerReturns, Unchanged
<1>2. model' = model /\ request.compact[model] = model
  BY <1>1 DEF Loops
<1>3. TypeOK'
  BY <1>1, <1>2 DEF TypeOK, Passes
<1>4. ASSUME ~Limited, NEW p \in Passes PROVE Exhausted(p)
  <2>1. CASE p \in 1..(pass - 1)
    BY <1>1, <1>4, <2>1 DEF Loops
  <2>2. CASE p = pass
    BY <1>1, <1>4, <2>2, PassExhausted
  <2> QED
    BY <1>1, <2>1, <2>2 DEF Passes, TypeOK, Request
<1>5. FixpointReached'
  BY <1>1, <1>2, <1>4
  DEF FixpointReached, Limited, Passes, Exhausted, Applicable, Seen, Offers, Positions
<1>6. Loops' /\ StepsRespected'
  BY <1>1 DEF Loops, StepsRespected
<1> QED
  BY <1>3, <1>5, <1>6

-----------------------------------------------------------------------------

(* The invariant is one of the specification. *)
THEOREM Invariance == Spec => []IInv
<1>1. Init => IInv
  BY InitIInv
<1>2. IInv /\ [Next]_vars => IInv'
  <2> SUFFICES ASSUME IInv, [Next]_vars PROVE IInv'
    OBVIOUS
  <2>1. CASE ApplyPatch
    BY <2>1, ApplyPatchIInv
  <2>2. CASE SkipSeen
    BY <2>2, SkipSeenIInv
  <2>3. CASE Fail
    BY <2>3, FailIInv
  <2>4. CASE RepeatPass
    BY <2>4, RepeatPassIInv
  <2>5. CASE NextPass
    BY <2>5, NextPassIInv
  <2>6. CASE Repeat
    BY <2>6, RepeatIInv
  <2>7. CASE Return
    BY <2>7, ReturnIInv
  <2>8. CASE UNCHANGED vars
    BY <2>8 DEF vars, IInv, TypeOK, Loops, FixpointReached, StepsRespected, Unchanged,
       PastIsDone, Passes, Limited, Exhausted, Applicable, Seen, Offers, Positions
  <2> QED
    BY <2>1, <2>2, <2>3, <2>4, <2>5, <2>6, <2>7, <2>8 DEF Next, Step
<1> QED
  BY <1>1, <1>2, PTL DEF Spec

(* The graph, the marks and the watchdogs are what they are declared to be. *)
THEOREM TypeCorrect == Spec => []TypeOK
<1>1. IInv => TypeOK
  BY DEF IInv
<1> QED
  BY <1>1, Invariance, PTL

(* What optimize returns is compacted and, unless the steps are exhausted, a
   fixpoint of all its passes but for the patches already applied. *)
THEOREM ResultIsFixpoint == Spec => []FixpointReached
<1>1. IInv => FixpointReached
  BY DEF IInv
<1> QED
  BY <1>1, Invariance, PTL

(* No more patches are applied than stopping_at allows. *)
THEOREM LimitIsRespected == Spec => []StepsRespected
<1>1. IInv => StepsRespected
  BY DEF IInv
<1> QED
  BY <1>1, Invariance, PTL

=============================================================================
