-------------------------- MODULE Analyser_proofs ---------------------------
(***************************************************************************)
(* The analysis writes only what is true, and keeps it, for any graph of   *)
(* any operators: the rules of an operator are a parameter (RulesOf) and   *)
(* are only supposed to be honest, that is to say nothing of tensors that  *)
(* the operator can have that is not so (Honest, checked of the operators  *)
(* of OnnxNodes by the run of MCAnalyser).                                 *)
(*                                                                         *)
(* The facts unify as a meet: what two facts that are true say together is *)
(* true (UnifyFactTrue), so setting an expression that is true to what it  *)
(* is leaves true facts, be it a path, a multiple of one or a sum with one *)
(* unknown (SetTrue); and no such setting fails. TrueInv says of the       *)
(* solver, half way through a node, that what it still has to do is true:  *)
(* each rule holds, what is still to be set is, and the value is known of  *)
(* it.                                                                     *)
(***************************************************************************)
EXTENDS Analyser, TLAPS, SequenceTheorems, FiniteSetTheorems, WellFoundedInduction

-----------------------------------------------------------------------------
(* Sequences and numbers.                                                  *)

LEMMA Tuples ==
  ASSUME NEW s, IsTuple(s)
  PROVE  /\ Len(s) \in Nat /\ DOMAIN s = 1 .. Len(s)
         /\ s \in Seq({s[k] : k \in DOMAIN s})
<1>1. Len(s) \in Nat /\ s = [k \in 1 .. Len(s) |-> s[k]]
  BY DEF IsTuple
<1>2. DOMAIN s = 1 .. Len(s)
  BY <1>1
<1> DEFINE T == {s[k] : k \in DOMAIN s}
<1>3. s \in [1 .. Len(s) -> T]
  BY <1>1, <1>2
<1>4. s \in Seq(T)
  BY <1>1, <1>3, SeqDef
<1> QED
  BY <1>1, <1>2, <1>4

LEMMA SeqsAreTuples ==
  ASSUME NEW S, NEW s \in Seq(S)
  PROVE  IsTuple(s)
BY LenProperties DEF IsTuple

LEMMA FunctionsAreTuples ==
  ASSUME NEW n \in Nat, NEW f, f = [k \in 1 .. n |-> f[k]]
  PROVE  IsTuple(f) /\ Len(f) = n
<1> DEFINE T == {f[k] : k \in 1 .. n}
<1>1. f \in [1 .. n -> T]
  OBVIOUS
<1>2. f \in Seq(T)
  BY <1>1, SeqDef
<1>3. Len(f) = n
  BY <1>1, <1>2, LenProperties
<1> QED
  BY <1>3 DEF IsTuple

(* Two tuples of the same length that say the same are the same. *)
LEMMA TuplesEqual ==
  ASSUME NEW s, NEW t, IsTuple(s), IsTuple(t), Len(s) = Len(t), \A k \in 1 .. Len(s) : s[k] = t[k]
  PROVE  s = t
BY DEF IsTuple

LEMMA Single == \A x : Len(<<x>>) = 1 /\ <<x>>[1] = x /\ <<x>> # <<>>
OBVIOUS

LEMMA ConstantsDiffer ==
  /\ Len(Unknown) = 0 /\ Len(Clash) = 2 /\ Unknown # Clash
  /\ \A x : Only(x) # Unknown /\ Only(x) # Clash /\ IsConcrete(Only(x)) /\ Only(x)[1] = x
  /\ ~ IsConcrete(Unknown) /\ ~ IsConcrete(Clash)
  /\ \A x, y : Only(x) = Only(y) => x = y
BY DEF Unknown, Clash, Only, IsConcrete

(* A set of numbers has a least one. *)
LEMMA LeastNatural ==
  ASSUME NEW T \in SUBSET Nat, T # {}
  PROVE  \E m \in T : \A k \in T : m <= k
<1> DEFINE R == OpToRel(<, Nat)
<1>1. IsWellFoundedOn(R, Nat)
  BY NatLessThanWellFounded
<1>a. \A x, y \in Nat : x < y => <<x, y>> \in R
  BY DEF OpToRel
<1> HIDE DEF R
<1>2. PICK x \in T : \A y \in T : ~ (<<y, x>> \in R)
  BY <1>1, WFMin
<1>3. \A y \in T : ~(y < x)
  BY <1>2, <1>a
<1> QED
  BY <1>3

(* Induction, of a set. *)
LEMMA SetInduction ==
  ASSUME NEW S, 0 \in S, \A n \in Nat : n \in S => n + 1 \in S
  PROVE  Nat \subseteq S
<1> SUFFICES ASSUME NEW n \in Nat \ S PROVE FALSE
  OBVIOUS
<1>1. PICK m \in Nat \ S : \A k \in Nat \ S : m <= k
  <2> DEFINE T == Nat \ S
  <2>1. T \in SUBSET Nat /\ T # {}
    OBVIOUS
  <2> HIDE DEF T
  <2>2. \E m \in T : \A k \in T : m <= k
    BY <2>1, LeastNatural
  <2> QED BY <2>2 DEF T
<1>2. m # 0 /\ m - 1 \in Nat /\ m - 1 \notin Nat \ S
  BY <1>1
<1> QED
  BY <1>1, <1>2

(* The greatest of some numbers, none of them greater than n. *)
LEMMA MaxOf ==
  ASSUME NEW n \in Nat, NEW S, S \subseteq 0 .. n, S # {}
  PROVE  Max(S) \in S /\ \A y \in S : y <= Max(S)
<1> DEFINE T == {m \in Nat : \E x \in S : m = n - x}
<1>1. T \in SUBSET Nat /\ T # {}
  <2>1. PICK x \in S : TRUE
    OBVIOUS
  <2>2. n - x \in T
    BY <2>1
  <2> QED
    BY <2>2
<1>2. PICK m \in T : \A k \in T : m <= k
  <2> HIDE DEF T
  <2> QED BY <1>1, LeastNatural
<1>3. PICK x \in S : m = n - x
  BY <1>2
<1>4. \A y \in S : x >= y
  <2> SUFFICES ASSUME NEW y \in S PROVE x >= y
    OBVIOUS
  <2>1. x \in 0 .. n /\ y \in 0 .. n
    OBVIOUS
  <2>2. n - y \in T
    BY <2>1
  <2>3. m <= n - y
    BY <1>2, <2>2
  <2> QED
    BY <1>3, <2>1, <2>3
<1>5. Max(S) \in S /\ \A y \in S : Max(S) >= y
  BY <1>4 DEF Max
<1> QED
  BY <1>5

-----------------------------------------------------------------------------
(* Unification.                                                            *)

LEMMA UnifyIs ==
  ASSUME NEW a, NEW b
  PROVE  Unify(a, b) = IF a = Unknown THEN b ELSE IF b = Unknown \/ a = b THEN a ELSE Clash
<1> DEFINE known == {a, b} \ {Unknown}
<1>1. CASE a = Unknown /\ b = Unknown
  BY <1>1 DEF Unify, UnifyAll
<1>2. CASE a = Unknown /\ b # Unknown
  <2>1. known = {b}
    BY <1>2
  <2> QED
    BY <1>2, <2>1 DEF Unify, UnifyAll
<1>3. CASE a # Unknown /\ (b = Unknown \/ a = b)
  <2>1. known = {a}
    BY <1>3
  <2> QED
    BY <1>3, <2>1 DEF Unify, UnifyAll
<1>4. CASE a # Unknown /\ b # Unknown /\ a # b
  <2>1. known = {a, b}
    BY <1>4
  <2> QED
    BY <1>4, <2>1 DEF Unify, UnifyAll
<1> QED
  BY <1>1, <1>2, <1>3, <1>4

(* What is said together by those that say x or nothing. *)
LEMMA UnifyAllPartly ==
  ASSUME NEW S, NEW x, \A f \in S : Partly(f, x)
  PROVE  UnifyAll(S) = IF x \in S THEN x ELSE Unknown
<1> DEFINE known == S \ {Unknown}
<1>1. S \subseteq {Unknown, x}
  BY DEF Partly
<1>2. CASE known = {}
  BY <1>1, <1>2 DEF UnifyAll
<1>3. CASE known # {}
  <2>1. known = {x} /\ x \in S
    BY <1>1, <1>3
  <2>2. (CHOOSE y \in known : TRUE) = x
    BY <2>1
  <2>3. \A y, z \in known : y = z
    BY <2>1
  <2> QED
    BY <1>3, <2>1, <2>2, <2>3 DEF UnifyAll
<1> QED
  BY <1>2, <1>3

LEMMA UnifyPartly ==
  ASSUME NEW a, NEW b, NEW x, Partly(a, x), Partly(b, x)
  PROVE  Partly(Unify(a, b), x) /\ (Unify(a, b) = Unknown <=> a = Unknown /\ b = Unknown)
BY UnifyIs DEF Partly

(* The same for shapes. *)
LEMMA UnifyShapesPartly ==
  ASSUME NEW S, NEW x, S # {}, IsShapeFactoid(x),
         \A s \in S : IsShapeFactoid(s) /\ PartlyShape(s, x)
  PROVE  IsShapeFactoid(UnifyShapes(S)) /\ PartlyShape(UnifyShapes(S), x)
<1> DEFINE lens == {Len(s.dims) : s \in S}
           n == Max(lens)
           dims == [k \in 1 .. n |-> UnifyAll({s.dims[k] : s \in {y \in S : k <= Len(y.dims)}})]
           u == [open |-> \A s \in S : s.open, dims |-> dims]
<1>1. Len(x.dims) \in Nat
  BY DEF IsShapeFactoid, IsTuple
<1>2. \A s \in S : Len(s.dims) \in Nat /\ Len(s.dims) <= Len(x.dims) /\ DOMAIN s.dims = 1 .. Len(s.dims) /\ s.open \in BOOLEAN
  BY Tuples DEF IsShapeFactoid, PartlyShape
<1>3. lens \subseteq 0 .. Len(x.dims) /\ lens # {}
  BY <1>1, <1>2
<1>4. n \in lens /\ \A y \in lens : y <= n
  <2> HIDE DEF lens
  <2> QED BY <1>1, <1>3, MaxOf
<1>5. n \in Nat /\ n <= Len(x.dims) /\ \A s \in S : Len(s.dims) <= n
  BY <1>1, <1>3, <1>4
<1>6. \A s \in S : s.open \/ Len(s.dims) = Len(x.dims)
  BY DEF PartlyShape
<1>7. \A s \in S : ~ s.open => n = Len(x.dims)
  BY <1>1, <1>2, <1>5, <1>6
<1> HIDE DEF n
<1>8. UnifyShapes(S) = u
  <2>1. ~ \E s \in S : ~ s.open /\ Len(s.dims) < n
    BY <1>1, <1>2, <1>5, <1>6
  <2> QED
    BY <2>1 DEF UnifyShapes, n
<1>9. IsTuple(dims) /\ Len(dims) = n
  BY <1>5, FunctionsAreTuples
<1>10. IsShapeFactoid(u)
  BY <1>9 DEF IsShapeFactoid
<1>11. ASSUME NEW k \in 1 .. n PROVE Partly(dims[k], x.dims[k])
  <2> DEFINE D == {s.dims[k] : s \in {y \in S : k <= Len(y.dims)}}
  <2>1. \A f \in D : Partly(f, x.dims[k])
    <3> SUFFICES ASSUME NEW s \in S, k <= Len(s.dims) PROVE Partly(s.dims[k], x.dims[k])
      OBVIOUS
    <3> QED
      BY <1>2, <1>5 DEF PartlyShape
  <2>2. dims[k] = UnifyAll(D)
    OBVIOUS
  <2> HIDE DEF D, dims
  <2> QED
    BY <2>1, <2>2, UnifyAllPartly DEF Partly
<1>12. PartlyShape(u, x)
  <2>1. u.dims = dims /\ u.open = (\A s \in S : s.open)
    OBVIOUS
  <2>2. DOMAIN dims = 1 .. n
    OBVIOUS
  <2>3. u.open \/ n = Len(x.dims)
    BY <1>7
  <2> HIDE DEF u, dims
  <2> QED
    BY <1>5, <1>9, <1>11, <2>1, <2>2, <2>3 DEF PartlyShape
<1> QED
  BY <1>8, <1>10, <1>12

LEMMA MaxIs ==
  ASSUME NEW S, NEW n \in S, \A y \in S : y \in Int /\ y <= n
  PROVE  Max(S) = n
<1>1. \A y \in S : n >= y
  OBVIOUS
<1>2. \A x \in S : (\A y \in S : x >= y) => x = n
  OBVIOUS
<1> QED
  BY <1>1, <1>2 DEF Max

LEMMA UnifyAllOne == \A x : UnifyAll({x}) = x
<1> TAKE x
<1>1. UnifyAll({x}) = Unify(x, x)
  BY DEF Unify
<1> QED
  BY <1>1, UnifyIs

(* Two shapes together. *)
LEMMA UnifyShapeIs ==
  ASSUME NEW a, NEW b, IsShapeFactoid(a), IsShapeFactoid(b)
  PROVE  LET n == IF Len(a.dims) < Len(b.dims) THEN Len(b.dims) ELSE Len(a.dims)
         IN  UnifyShape(a, b) =
               IF (~ a.open /\ Len(a.dims) < n) \/ (~ b.open /\ Len(b.dims) < n) THEN BadShape
               ELSE [open |-> a.open /\ b.open,
                     dims |-> [k \in 1 .. n |-> IF k <= Len(a.dims)
                                                THEN IF k <= Len(b.dims) THEN Unify(a.dims[k], b.dims[k]) ELSE a.dims[k]
                                                ELSE b.dims[k]]]
<1> DEFINE n == IF Len(a.dims) < Len(b.dims) THEN Len(b.dims) ELSE Len(a.dims)
           both == [k \in 1 .. n |-> UnifyAll({s.dims[k] : s \in {x \in {a, b} : k <= Len(x.dims)}})]
<1>1. Len(a.dims) \in Nat /\ Len(b.dims) \in Nat /\ a.open \in BOOLEAN /\ b.open \in BOOLEAN
  BY DEF IsShapeFactoid, IsTuple
<1>2. Max({Len(s.dims) : s \in {a, b}}) = n
  <2>1. {Len(s.dims) : s \in {a, b}} = {Len(a.dims), Len(b.dims)}
    OBVIOUS
  <2>2. n \in {Len(a.dims), Len(b.dims)} /\ \A y \in {Len(a.dims), Len(b.dims)} : y \in Int /\ y <= n
    BY <1>1
  <2> HIDE DEF n
  <2>3. Max({Len(a.dims), Len(b.dims)}) = n
    BY <2>2, MaxIs
  <2> QED
    BY <2>1, <2>3
<1> HIDE DEF n
<1>3. ASSUME NEW k \in 1 .. n
      PROVE  both[k] = IF k <= Len(a.dims)
                       THEN IF k <= Len(b.dims) THEN Unify(a.dims[k], b.dims[k]) ELSE a.dims[k]
                       ELSE b.dims[k]
  <2> DEFINE there == {s.dims[k] : s \in {x \in {a, b} : k <= Len(x.dims)}}
  <2>1. both[k] = UnifyAll(there)
    OBVIOUS
  <2>2. k <= Len(a.dims) \/ k <= Len(b.dims)
    BY <1>1 DEF n
  <2>3. there = IF k <= Len(a.dims) THEN IF k <= Len(b.dims) THEN {a.dims[k], b.dims[k]} ELSE {a.dims[k]} ELSE {b.dims[k]}
    BY <2>2
  <2> HIDE DEF there, both
  <2>4. CASE k <= Len(a.dims) /\ k <= Len(b.dims)
    BY <2>1, <2>3, <2>4 DEF Unify
  <2>5. CASE k <= Len(a.dims) /\ ~ (k <= Len(b.dims))
    BY <2>1, <2>3, <2>5, UnifyAllOne
  <2>6. CASE ~ (k <= Len(a.dims))
    BY <2>1, <2>3, <2>6, UnifyAllOne
  <2> QED
    BY <2>4, <2>5, <2>6
<1>4. UnifyShape(a, b) = IF (~ a.open /\ Len(a.dims) < n) \/ (~ b.open /\ Len(b.dims) < n) THEN BadShape
                         ELSE [open |-> a.open /\ b.open, dims |-> both]
  <2>1. UnifyShape(a, b) = IF \E s \in {a, b} : ~ s.open /\ Len(s.dims) < n THEN BadShape
                           ELSE [open |-> \A s \in {a, b} : s.open, dims |-> both]
    BY <1>2 DEF UnifyShape, UnifyShapes
  <2>2. (\A s \in {a, b} : s.open) = (a.open /\ b.open)
    OBVIOUS
  <2> HIDE DEF both
  <2> QED
    BY <2>1, <2>2
<1>5. both = [k \in 1 .. n |-> IF k <= Len(a.dims)
                               THEN IF k <= Len(b.dims) THEN Unify(a.dims[k], b.dims[k]) ELSE a.dims[k]
                               ELSE b.dims[k]]
  <2>1. both = [k \in 1 .. n |-> both[k]]
    OBVIOUS
  <2> HIDE DEF both
  <2> QED
    BY <1>3, <2>1
<1> HIDE DEF both
<1> QED
  BY <1>4, <1>5 DEF n

(* What is known in f is known in g, that may say more. *)
FinerShape(g, f) ==
  /\ g.open => f.open
  /\ Len(f.dims) <= Len(g.dims) /\ (f.open \/ Len(f.dims) = Len(g.dims))
  /\ \A k \in DOMAIN f.dims : f.dims[k] = Unknown \/ g.dims[k] = f.dims[k]
Finer(g, f) ==
  (f.dt = Unknown \/ g.dt = f.dt) /\ (f.value = Unknown \/ g.value = f.value) /\ FinerShape(g.shape, f.shape)

LEMMA UnifyShapeFiner ==
  ASSUME NEW x, NEW a, NEW b, IsShapeFactoid(x), IsShapeFactoid(a), IsShapeFactoid(b), PartlyShape(a, x), PartlyShape(b, x)
  PROVE  FinerShape(UnifyShape(a, b), a) /\ FinerShape(UnifyShape(a, b), b)
<1> DEFINE n == IF Len(a.dims) < Len(b.dims) THEN Len(b.dims) ELSE Len(a.dims)
           u == UnifyShape(a, b)
<1>1. /\ Len(a.dims) \in Nat /\ Len(b.dims) \in Nat /\ Len(x.dims) \in Nat /\ a.open \in BOOLEAN /\ b.open \in BOOLEAN
      /\ DOMAIN a.dims = 1 .. Len(a.dims) /\ DOMAIN b.dims = 1 .. Len(b.dims)
  BY Tuples DEF IsShapeFactoid
<1>2. /\ Len(a.dims) <= Len(x.dims) /\ Len(b.dims) <= Len(x.dims)
      /\ (a.open \/ Len(a.dims) = Len(x.dims)) /\ (b.open \/ Len(b.dims) = Len(x.dims))
      /\ \A k \in 1 .. Len(a.dims) : Partly(a.dims[k], x.dims[k])
      /\ \A k \in 1 .. Len(b.dims) : Partly(b.dims[k], x.dims[k])
  BY <1>1 DEF PartlyShape
<1>3. ~ (~ a.open /\ Len(a.dims) < n) /\ ~ (~ b.open /\ Len(b.dims) < n)
  BY <1>1, <1>2
<1>4. u = [open |-> a.open /\ b.open,
           dims |-> [k \in 1 .. n |-> IF k <= Len(a.dims)
                                      THEN IF k <= Len(b.dims) THEN Unify(a.dims[k], b.dims[k]) ELSE a.dims[k]
                                      ELSE b.dims[k]]]
  BY <1>3, UnifyShapeIs
<1>5. /\ u.open = (a.open /\ b.open) /\ n \in Nat
      /\ u.dims = [k \in 1 .. n |-> IF k <= Len(a.dims)
                                    THEN IF k <= Len(b.dims) THEN Unify(a.dims[k], b.dims[k]) ELSE a.dims[k]
                                    ELSE b.dims[k]]
  BY <1>1, <1>4
<1> HIDE DEF u
<1>6. Len(u.dims) = n
  BY <1>5
<1>7. ASSUME NEW k \in 1 .. Len(a.dims)
      PROVE  a.dims[k] = Unknown \/ u.dims[k] = a.dims[k]
  <2>1. u.dims[k] = IF k <= Len(b.dims) THEN Unify(a.dims[k], b.dims[k]) ELSE a.dims[k]
    BY <1>1, <1>5
  <2>2. k <= Len(b.dims) => Unify(a.dims[k], b.dims[k]) = a.dims[k] \/ a.dims[k] = Unknown
    <3>1. k <= Len(b.dims) => Partly(a.dims[k], x.dims[k]) /\ Partly(b.dims[k], x.dims[k])
      BY <1>1, <1>2
    <3> QED
      BY <3>1, UnifyIs DEF Partly
  <2> QED
    BY <2>1, <2>2
<1>8. ASSUME NEW k \in 1 .. Len(b.dims)
      PROVE  b.dims[k] = Unknown \/ u.dims[k] = b.dims[k]
  <2>1. u.dims[k] = IF k <= Len(a.dims) THEN Unify(a.dims[k], b.dims[k]) ELSE b.dims[k]
    BY <1>1, <1>5
  <2>2. k <= Len(a.dims) => Unify(a.dims[k], b.dims[k]) = b.dims[k] \/ b.dims[k] = Unknown
    <3>1. k <= Len(a.dims) => Partly(a.dims[k], x.dims[k]) /\ Partly(b.dims[k], x.dims[k])
      BY <1>1, <1>2
    <3> QED
      BY <3>1, UnifyIs DEF Partly
  <2> QED
    BY <2>1, <2>2
<1>9. FinerShape(u, a)
  <2>1. (u.open => a.open) /\ Len(a.dims) <= n /\ (a.open \/ Len(a.dims) = n)
    BY <1>1, <1>2, <1>5
  <2> HIDE DEF n
  <2> QED
    BY <1>1, <1>6, <1>7, <2>1 DEF FinerShape
<1>10. FinerShape(u, b)
  <2>1. (u.open => b.open) /\ Len(b.dims) <= n /\ (b.open \/ Len(b.dims) = n)
    BY <1>1, <1>2, <1>5
  <2> HIDE DEF n
  <2> QED
    BY <1>1, <1>6, <1>8, <2>1 DEF FinerShape
<1> QED
  BY <1>9, <1>10 DEF u

LEMMA UnifyShapePartly ==
  ASSUME NEW x, NEW a, NEW b, IsShapeFactoid(x), IsShapeFactoid(a), IsShapeFactoid(b), PartlyShape(a, x), PartlyShape(b, x)
  PROVE  IsShapeFactoid(UnifyShape(a, b)) /\ PartlyShape(UnifyShape(a, b), x)
BY UnifyShapesPartly DEF UnifyShape

-----------------------------------------------------------------------------
(* Facts that are true of a tensor, and their parts.                       *)

IsTrue(f, t) == IsInferenceFact(f) /\ Matches(f, t)

Parts == {"dt", "rank", "shape", "dim", "value", "item"}
IsPart(p, t) == p.part \in Parts /\ p.k \in Nat /\ (p.part = "dim" => p.k < Len(t.shape))

(* What is known of a part, when all of it is x. *)
Knows(shapes, v, x) == IF shapes THEN IsShapeFactoid(v) /\ PartlyShape(v, x) ELSE Partly(v, x)

LEMMA AllOfATensor ==
  ASSUME NEW t, IsTuple(t.shape)
  PROVE  /\ IsInferenceFact(FactOf(t)) /\ IsShapeFactoid(FactOf(t).shape)
         /\ FactOf(t).dt = Only(t.dt) /\ FactOf(t).value = Only(t) /\ ~ FactOf(t).shape.open
         /\ Len(FactOf(t).shape.dims) = Len(t.shape) /\ DOMAIN FactOf(t).shape.dims = DOMAIN t.shape
         /\ \A k \in DOMAIN t.shape : FactOf(t).shape.dims[k] = Only(t.shape[k])
<1> DEFINE dims == [k \in DOMAIN t.shape |-> Only(t.shape[k])]
<1>1. DOMAIN t.shape = 1 .. Len(t.shape) /\ Len(t.shape) \in Nat
  BY Tuples
<1>2. IsTuple(dims) /\ Len(dims) = Len(t.shape)
  BY <1>1, FunctionsAreTuples
<1> QED
  BY <1>2 DEF IsInferenceFact, IsShapeFactoid, FactOf, Closed

LEMMA TrueShapes ==
  ASSUME NEW f, NEW t, IsTuple(t.shape), IsInferenceFact(f)
  PROVE  IsTrue(f, t) <=> /\ Partly(f.dt, Only(t.dt)) /\ Partly(f.value, Only(t))
                          /\ PartlyShape(f.shape, FactOf(t).shape)
<1>1. /\ DOMAIN t.shape = 1 .. Len(t.shape) /\ Len(t.shape) \in Nat
      /\ DOMAIN f.shape.dims = 1 .. Len(f.shape.dims) /\ Len(f.shape.dims) \in Nat
  BY Tuples DEF IsInferenceFact, IsShapeFactoid
<1>2. Len(f.shape.dims) <= Len(t.shape) =>
        \A k \in DOMAIN f.shape.dims : k \in DOMAIN t.shape /\ FactOf(t).shape.dims[k] = Only(t.shape[k])
  BY <1>1, AllOfATensor
<1>3. f.shape.open \in BOOLEAN
  BY DEF IsInferenceFact, IsShapeFactoid
<1> QED
  BY <1>1, <1>2, <1>3, AllOfATensor DEF IsTrue, Matches, PartlyShape, Partly

LEMMA AllIsTrue ==
  ASSUME NEW t, IsTuple(t.shape)
  PROVE  IsTrue(FactOf(t), t)
<1>1. PartlyShape(FactOf(t).shape, FactOf(t).shape)
  BY AllOfATensor, Tuples DEF PartlyShape, Partly
<1> QED
  BY <1>1, AllOfATensor, TrueShapes DEF Partly

LEMMA TrueIsNoClash ==
  ASSUME NEW f, NEW t, IsTuple(t.shape), IsTrue(f, t)
  PROVE  ~ IsClash(f) /\ ~ (Clash \in Range(f.shape.dims))
<1>1. \A k \in DOMAIN f.shape.dims : f.shape.dims[k] # Clash
  BY ConstantsDiffer DEF IsTrue, Matches
<1>2. f.dt # Clash /\ f.value # Clash
  BY ConstantsDiffer DEF IsTrue, Matches
<1> QED
  BY <1>1, <1>2 DEF IsClash, Range

LEMMA UnifyFactTrue ==
  ASSUME NEW a, NEW b, NEW t, IsTuple(t.shape), IsTrue(a, t), IsTrue(b, t)
  PROVE  IsTrue(UnifyFact(a, b), t) /\ Finer(UnifyFact(a, b), a) /\ Finer(UnifyFact(a, b), b)
<1> DEFINE x == FactOf(t)
           u == UnifyFact(a, b)
<1>1. IsInferenceFact(a) /\ IsInferenceFact(b) /\ IsShapeFactoid(x.shape)
  BY AllOfATensor DEF IsTrue
<1>2. IsShapeFactoid(a.shape) /\ IsShapeFactoid(b.shape)
  BY <1>1 DEF IsInferenceFact
<1>3. PartlyShape(a.shape, x.shape) /\ PartlyShape(b.shape, x.shape)
  BY <1>1, TrueShapes
<1>4. IsShapeFactoid(UnifyShape(a.shape, b.shape)) /\ PartlyShape(UnifyShape(a.shape, b.shape), x.shape)
  BY <1>1, <1>2, <1>3, UnifyShapePartly
<1>5. Partly(Unify(a.dt, b.dt), Only(t.dt)) /\ Partly(Unify(a.value, b.value), Only(t))
  BY <1>1, TrueShapes, UnifyPartly
<1>6. u = [dt |-> Unify(a.dt, b.dt), shape |-> UnifyShape(a.shape, b.shape), value |-> Unify(a.value, b.value)]
  BY DEF UnifyFact
<1>7. IsInferenceFact(u)
  BY <1>4, <1>6 DEF IsInferenceFact
<1>8. IsTrue(u, t)
  BY <1>4, <1>5, <1>6, <1>7, TrueShapes
<1>9. FinerShape(u.shape, a.shape) /\ FinerShape(u.shape, b.shape)
  BY <1>1, <1>2, <1>3, <1>6, UnifyShapeFiner
<1>10. Partly(a.dt, Only(t.dt)) /\ Partly(a.value, Only(t)) /\ Partly(b.dt, Only(t.dt)) /\ Partly(b.value, Only(t))
  BY <1>1, TrueShapes
<1>11. /\ a.dt = Unknown \/ u.dt = a.dt
       /\ a.value = Unknown \/ u.value = a.value
       /\ b.dt = Unknown \/ u.dt = b.dt
       /\ b.value = Unknown \/ u.value = b.value
  BY <1>6, <1>10, UnifyIs DEF Partly
<1> HIDE DEF u
<1>12. Finer(u, a) /\ Finer(u, b)
  BY <1>9, <1>11 DEF Finer
<1> QED
  BY <1>8, <1>12 DEF u

(* Nothing is lost where nothing is changed. *)
LEMMA FinerItself ==
  ASSUME NEW f, IsInferenceFact(f)
  PROVE  Finer(f, f) /\ FinerShape(f.shape, f.shape)
<1>1. Len(f.shape.dims) \in Nat
  BY Tuples DEF IsInferenceFact, IsShapeFactoid
<1> QED
  BY <1>1 DEF Finer, FinerShape

LEMMA PartsOfAll ==
  ASSUME NEW t, IsTuple(t.shape), NEW p, IsPart(p, t)
  PROVE  /\ p.part = "dt" => GetPath(FactOf(t), p) = Only(t.dt)
         /\ p.part = "rank" => GetPath(FactOf(t), p) = Only(Len(t.shape))
         /\ p.part = "shape" => GetPath(FactOf(t), p) = FactOf(t).shape
         /\ p.part = "dim" => GetPath(FactOf(t), p) = Only(t.shape[p.k + 1])
         /\ p.part = "value" => GetPath(FactOf(t), p) = Only(t)
         /\ p.part = "item" => GetPath(FactOf(t), p) = Only(t.data[p.k + 1])
<1>1. DOMAIN t.shape = 1 .. Len(t.shape) /\ Len(t.shape) \in Nat
  BY Tuples
<1>2. p.part = "dim" => p.k + 1 \in DOMAIN t.shape
  BY <1>1 DEF IsPart
<1>3. CASE p.part = "dim"
  <2>1. p.k < Len(FactOf(t).shape.dims) /\ FactOf(t).shape.dims[p.k + 1] = Only(t.shape[p.k + 1])
    BY <1>2, <1>3, AllOfATensor DEF IsPart
  <2> QED
    BY <1>3, <2>1 DEF GetPath
<1>4. CASE p.part = "item"
  <2>1. FactOf(t).value # Unknown /\ FactOf(t).value[1] = t
    BY AllOfATensor, ConstantsDiffer
  <2> QED
    BY <1>4, <2>1 DEF GetPath
<1>5. CASE p.part \in {"dt", "rank", "shape", "value"}
  BY <1>5, AllOfATensor DEF GetPath
<1> QED
  BY <1>3, <1>4, <1>5 DEF IsPart, Parts

(* A part of a true fact is true. *)
LEMMA PartsAreTrue ==
  ASSUME NEW f, NEW t, IsTuple(t.shape), IsTrue(f, t), NEW p, IsPart(p, t)
  PROVE  Knows(p.part = "shape", GetPath(f, p), GetPath(FactOf(t), p))
<1>1. IsInferenceFact(f) /\ IsShapeFactoid(f.shape)
  BY DEF IsTrue, IsInferenceFact
<1>2. Partly(f.dt, Only(t.dt)) /\ Partly(f.value, Only(t)) /\ PartlyShape(f.shape, FactOf(t).shape)
  BY <1>1, TrueShapes
<1>3. /\ DOMAIN t.shape = 1 .. Len(t.shape) /\ Len(t.shape) \in Nat
      /\ DOMAIN f.shape.dims = 1 .. Len(f.shape.dims) /\ Len(f.shape.dims) \in Nat
  BY <1>1, Tuples DEF IsShapeFactoid
<1>4. CASE p.part = "dt"
  BY <1>2, <1>4, PartsOfAll DEF GetPath, Knows
<1>5. CASE p.part = "rank"
  BY <1>2, <1>5, PartsOfAll, AllOfATensor DEF GetPath, Knows, Partly, PartlyShape
<1>6. CASE p.part = "shape"
  BY <1>1, <1>2, <1>6, PartsOfAll DEF GetPath, Knows
<1>7. CASE p.part = "value"
  BY <1>2, <1>7, PartsOfAll DEF GetPath, Knows
<1>8. CASE p.part = "item"
  <2>1. f.value = Unknown \/ f.value = Only(t)
    BY <1>2 DEF Partly
  <2> QED
    BY <1>8, <2>1, PartsOfAll, ConstantsDiffer DEF GetPath, Knows, Partly
<1>9. CASE p.part = "dim"
  <2>1. p.k < Len(t.shape) /\ p.k \in Nat
    BY <1>9 DEF IsPart
  <2>2. CASE p.k < Len(f.shape.dims)
    <3>1. p.k + 1 \in DOMAIN f.shape.dims /\ p.k + 1 \in DOMAIN t.shape
      BY <1>3, <2>1, <2>2
    <3>2. Partly(f.shape.dims[p.k + 1], Only(t.shape[p.k + 1]))
      BY <1>2, <3>1, AllOfATensor DEF PartlyShape
    <3> QED
      BY <1>9, <2>2, <3>2, PartsOfAll DEF GetPath, Knows
  <2>3. CASE ~ (p.k < Len(f.shape.dims))
    <3>1. f.shape.open
      BY <1>2, <1>3, <2>1, <2>3, AllOfATensor DEF PartlyShape
    <3> QED
      BY <1>9, <2>3, <3>1 DEF GetPath, Knows, Partly
  <2> QED
    BY <2>2, <2>3
<1> QED
  BY <1>4, <1>5, <1>6, <1>7, <1>8, <1>9 DEF IsPart, Parts

(* A fact stays true when what is true is said of a part of it. *)
LEMMA AnyShape ==
  ASSUME NEW t, IsTuple(t.shape), NEW n \in Nat, NEW open \in BOOLEAN, n <= Len(t.shape), open \/ n = Len(t.shape),
         NEW dims, dims = [k \in 1 .. n |-> dims[k]], \A k \in 1 .. n : Partly(dims[k], Only(t.shape[k]))
  PROVE  LET s == [open |-> open, dims |-> dims]
         IN  IsShapeFactoid(s) /\ PartlyShape(s, FactOf(t).shape)
<1> DEFINE s == [open |-> open, dims |-> dims]
<1>1. IsTuple(dims) /\ Len(dims) = n
  BY FunctionsAreTuples
<1>2. DOMAIN t.shape = 1 .. Len(t.shape) /\ Len(t.shape) \in Nat
  BY Tuples
<1>3. \A k \in 1 .. n : FactOf(t).shape.dims[k] = Only(t.shape[k])
  BY <1>2, AllOfATensor
<1>4. s.open = open /\ s.dims = dims /\ DOMAIN dims = 1 .. n
  OBVIOUS
<1>5. IsShapeFactoid(s)
  BY <1>1 DEF IsShapeFactoid
<1> HIDE DEF s
<1>6. PartlyShape(s, FactOf(t).shape)
  BY <1>1, <1>3, <1>4, AllOfATensor DEF PartlyShape
<1> QED
  BY <1>5, <1>6 DEF s

LEMMA SetPathTrue ==
  ASSUME NEW f, NEW t, IsTuple(t.shape), IsTrue(f, t), NEW p, IsPart(p, t),
         NEW v, Knows(p.part = "shape", v, GetPath(FactOf(t), p))
  PROVE  IsTrue(SetPath(f, p, v), t) /\ Finer(SetPath(f, p, v), f)
<1> DEFINE g == SetPath(f, p, v)
           x == FactOf(t)
<1> SUFFICES IsTrue(g, t) /\ Finer(g, f)
  OBVIOUS
<1>0. Finer(f, f) /\ FinerShape(f.shape, f.shape)
  BY FinerItself DEF IsTrue
<1>1. IsInferenceFact(f) /\ IsShapeFactoid(f.shape) /\ f = [dt |-> f.dt, shape |-> f.shape, value |-> f.value]
  BY DEF IsTrue, IsInferenceFact
<1>2. Partly(f.dt, Only(t.dt)) /\ Partly(f.value, Only(t)) /\ PartlyShape(f.shape, x.shape)
  BY <1>1, TrueShapes
<1>3. Len(t.shape) \in Nat /\ IsShapeFactoid(x.shape)
  BY Tuples, AllOfATensor
<1>4. ASSUME NEW s, IsShapeFactoid(s), PartlyShape(s, x.shape)
      PROVE  IsShapeFactoid(UnifyShape(f.shape, s)) /\ PartlyShape(UnifyShape(f.shape, s), x.shape)
             /\ IsShapeFactoid(UnifyShape(s, f.shape)) /\ PartlyShape(UnifyShape(s, f.shape), x.shape)
             /\ FinerShape(UnifyShape(f.shape, s), f.shape) /\ FinerShape(UnifyShape(s, f.shape), f.shape)
  BY <1>1, <1>2, <1>3, <1>4, UnifyShapePartly, UnifyShapeFiner
<1>5. ASSUME NEW s, IsShapeFactoid(s), PartlyShape(s, x.shape), FinerShape(s, f.shape), NEW h, h = [f EXCEPT !.shape = s]
      PROVE  IsTrue(h, t) /\ Finer(h, f)
  <2>1. h = [dt |-> f.dt, shape |-> s, value |-> f.value]
    BY <1>1, <1>5
  <2>2. IsInferenceFact(h)
    BY <1>5, <2>1 DEF IsInferenceFact
  <2>3. Finer(h, f)
    BY <1>5, <2>1 DEF Finer
  <2> QED
    BY <1>2, <1>5, <2>1, <2>2, <2>3, TrueShapes
<1>6. CASE p.part = "dt"
  <2>1. Partly(Unify(v, f.dt), Only(t.dt))
    BY <1>2, <1>6, PartsOfAll, UnifyPartly DEF Knows
  <2>2. g = [f EXCEPT !.dt = Unify(v, f.dt)]
    BY <1>6 DEF SetPath
  <2>3. g = [dt |-> Unify(v, f.dt), shape |-> f.shape, value |-> f.value]
    BY <1>1, <2>2
  <2>4. IsInferenceFact(g)
    BY <1>1, <2>3 DEF IsInferenceFact
  <2>5. f.dt = Unknown \/ Unify(v, f.dt) = f.dt
    <3>1. Partly(v, Only(t.dt))
      BY <1>6, PartsOfAll DEF Knows
    <3> QED
      BY <1>2, <3>1, UnifyIs DEF Partly
  <2>6. Finer(g, f)
    BY <1>0, <2>3, <2>5 DEF Finer
  <2> QED
    BY <1>2, <2>1, <2>3, <2>4, <2>6, TrueShapes
<1>7. CASE p.part = "rank"
  <2>1. v = Unknown \/ v = Only(Len(t.shape))
    BY <1>7, PartsOfAll DEF Knows, Partly
  <2>2. CASE v = Unknown
    BY <1>0, <1>7, <2>2 DEF SetPath
  <2>3. CASE v = Only(Len(t.shape))
    <3> DEFINE s == Closed(Anys(Len(t.shape)))
    <3>1. v # Unknown /\ v[1] = Len(t.shape)
      BY <2>3, ConstantsDiffer
    <3>2. g = [f EXCEPT !.shape = UnifyShape(f.shape, s)]
      BY <1>3, <1>7, <3>1 DEF SetPath
    <3>3. IsShapeFactoid(s) /\ PartlyShape(s, x.shape)
      <4> DEFINE dims == Anys(Len(t.shape))
      <4>1. dims = [k \in 1 .. Len(t.shape) |-> dims[k]] /\ \A k \in 1 .. Len(t.shape) : Partly(dims[k], Only(t.shape[k]))
        BY DEF Anys, Partly
      <4>2. s = [open |-> FALSE, dims |-> dims]
        BY DEF Closed
      <4>3. Len(t.shape) <= Len(t.shape) /\ FALSE \in BOOLEAN
        BY <1>3
      <4> HIDE DEF dims, s
      <4> QED
        BY <1>3, <4>1, <4>2, <4>3, AnyShape
    <3> HIDE DEF s, g
    <3> QED
      BY <1>4, <1>5, <3>2, <3>3
  <2> QED
    BY <2>1, <2>2, <2>3
<1>8. CASE p.part = "shape"
  <2>1. IsShapeFactoid(v) /\ PartlyShape(v, x.shape)
    BY <1>8, PartsOfAll DEF Knows
  <2>2. g = [f EXCEPT !.shape = UnifyShape(v, f.shape)]
    BY <1>8 DEF SetPath
  <2> HIDE DEF g
  <2> QED
    BY <1>4, <1>5, <2>1, <2>2
<1>9. CASE p.part = "dim"
  <2> DEFINE dims == Append(Anys(p.k), v)
             s == Open(dims)
  <2>1. p.k \in Nat /\ p.k < Len(t.shape) /\ Partly(v, Only(t.shape[p.k + 1]))
    BY <1>9, PartsOfAll DEF IsPart, Knows
  <2>2. Anys(p.k) \in Seq({Unknown}) /\ Len(Anys(p.k)) = p.k
    <3>1. Anys(p.k) \in [1 .. p.k -> {Unknown}]
      BY DEF Anys
    <3>2. Anys(p.k) \in Seq({Unknown})
      BY <2>1, <3>1, SeqDef
    <3> QED
      BY <2>1, <3>1, <3>2, LenProperties
  <2>3. dims = [k \in 1 .. p.k + 1 |-> dims[k]] /\ \A k \in 1 .. p.k + 1 : dims[k] = IF k = p.k + 1 THEN v ELSE Unknown
    <3>1. Anys(p.k) \in Seq({Unknown, v}) /\ v \in {Unknown, v}
      BY <2>2
    <3>2. dims \in Seq({Unknown, v}) /\ Len(dims) = p.k + 1
      BY <2>2, <3>1, AppendProperties
    <3>3. \A k \in 1 .. p.k : Anys(p.k)[k] = Unknown
      BY DEF Anys
    <3>4. \A k \in 1 .. p.k + 1 : dims[k] = IF k = p.k + 1 THEN v ELSE Anys(p.k)[k]
      BY <2>1, <2>2, <3>1, AppendProperties
    <3>5. dims = [k \in 1 .. Len(dims) |-> dims[k]]
      BY <3>2, SeqsAreTuples DEF IsTuple
    <3> HIDE DEF dims
    <3> QED
      BY <2>1, <3>2, <3>3, <3>4, <3>5
  <2>4. IsShapeFactoid(s) /\ PartlyShape(s, x.shape)
    <3>1. \A k \in 1 .. p.k + 1 : Partly(dims[k], Only(t.shape[k]))
      BY <2>1, <2>3 DEF Partly
    <3>2. s = [open |-> TRUE, dims |-> dims]
      BY DEF Open
    <3>3. p.k + 1 \in Nat /\ p.k + 1 <= Len(t.shape)
      BY <1>3, <2>1
    <3> HIDE DEF dims, s
    <3> QED
      BY <2>3, <3>1, <3>2, <3>3, AnyShape
  <2>5. g = [f EXCEPT !.shape = UnifyShape(f.shape, s)]
    BY <1>9 DEF SetPath
  <2> HIDE DEF g, s
  <2> QED
    BY <1>4, <1>5, <2>4, <2>5
<1>10. CASE p.part = "item"
  BY <1>0, <1>10 DEF SetPath
<1>11. CASE p.part = "value"
  <2> DEFINE u == Unify(f.value, v)
  <2>1. Partly(v, Only(t))
    BY <1>11, PartsOfAll DEF Knows
  <2>2. Partly(u, Only(t)) /\ Partly(Unify(v, f.value), Only(t))
    BY <1>2, <2>1, UnifyPartly
  <2>3. CASE u = Unknown
    <3>1. g = [f EXCEPT !.value = u]
      BY <1>11, <2>3 DEF SetPath
    <3>2. g = [dt |-> f.dt, shape |-> f.shape, value |-> u]
      BY <1>1, <3>1
    <3>3. IsInferenceFact(g)
      BY <1>1, <3>2 DEF IsInferenceFact
    <3>4. f.value = Unknown
      BY <2>1, <1>2, <2>3, UnifyPartly
    <3>5. Finer(g, f)
      BY <1>0, <3>2, <3>4 DEF Finer
    <3> HIDE DEF u, g
    <3> QED
      BY <1>2, <2>2, <3>2, <3>3, <3>5, TrueShapes
  <2>4. CASE u = Only(t)
    <3>1. ~ (u \in {Unknown, Clash}) /\ u[1] = t
      BY <2>4, ConstantsDiffer
    <3>2. g = [value |-> x.value, shape |-> UnifyShape(f.shape, x.shape), dt |-> Unify(f.dt, x.dt)]
      BY <1>11, <3>1 DEF SetPath
    <3>3. g = UnifyFact([f EXCEPT !.value = Unknown], x)
      <4>1. Unify(Unknown, x.value) = x.value
        BY UnifyIs
      <4>2. [f EXCEPT !.value = Unknown] = [dt |-> f.dt, shape |-> f.shape, value |-> Unknown]
        BY <1>1
      <4> QED
        BY <3>2, <4>1, <4>2 DEF UnifyFact
    <3>4. IsTrue([f EXCEPT !.value = Unknown], t)
      <4> DEFINE h == [dt |-> f.dt, shape |-> f.shape, value |-> Unknown]
      <4>1. IsInferenceFact(h)
        BY <1>1 DEF IsInferenceFact
      <4>2. IsTrue(h, t)
        BY <1>2, <4>1, TrueShapes DEF Partly
      <4> QED
        BY <1>1, <4>2
    <3>5. IsTrue(g, t) /\ Finer(g, [f EXCEPT !.value = Unknown])
      <4> HIDE DEF g
      <4> QED
        BY <3>3, <3>4, AllIsTrue, UnifyFactTrue
    <3>6. f.value = Unknown \/ g.value = f.value
      <4>1. g.value = Only(t)
        BY <1>3, <3>2, AllOfATensor
      <4> QED
        BY <1>2, <4>1 DEF Partly
    <3> HIDE DEF g
    <3>7. Finer(g, f)
      BY <1>1, <3>5, <3>6 DEF Finer
    <3> QED
      BY <3>5, <3>7
  <2> QED
    BY <2>2, <2>3, <2>4 DEF Partly
<1> QED
  BY <1>6, <1>7, <1>8, <1>9, <1>10, <1>11 DEF IsPart, Parts

-----------------------------------------------------------------------------
(* The facts of a node that are true of its tensors, in the solver, and    *)
(* what expressions say of them.                                           *)

AreTensors(ts) == \A i \in DOMAIN ts : IsTuple(ts[i].shape)

IsTrueContext(c, ins, outs) ==
  /\ c = [inputs |-> c.inputs, outputs |-> c.outputs, ok |-> c.ok, changed |-> c.changed]
  /\ DOMAIN c.inputs = DOMAIN ins /\ \A i \in DOMAIN ins : IsTrue(c.inputs[i], ins[i])
  /\ DOMAIN c.outputs = DOMAIN outs /\ \A o \in DOMAIN outs : IsTrue(c.outputs[o], outs[o])

(* What is known in c is known in d. *)
Learns(ins, outs, c, d) ==
  (\A i \in DOMAIN ins : Finer(d.inputs[i], c.inputs[i])) /\ (\A o \in DOMAIN outs : Finer(d.outputs[o], c.outputs[o]))

LEMMA LearnsItself ==
  ASSUME NEW ins, NEW outs, NEW c, IsTrueContext(c, ins, outs)
  PROVE  Learns(ins, outs, c, c)
BY FinerItself DEF IsTrueContext, IsTrue, Learns

TensorAt(ins, outs, p) == IF p.side = "in" THEN ins[p.ix] ELSE outs[p.ix]

LEMMA NamedParts ==
  ASSUME NEW ins, NEW outs, AreTensors(ins), AreTensors(outs), NEW c, IsTrueContext(c, ins, outs),
         NEW e, Names(AllOf(ins, outs), e)
  PROVE  LET t == TensorAt(ins, outs, e)
         IN  /\ IsTuple(t.shape) /\ IsPart(e, t)
             /\ FactAt(AllOf(ins, outs), e) = FactOf(t)
             /\ IsTrue(FactAt(c, e), t)
             /\ IsShape(e) <=> e.part = "shape"
<1> DEFINE full == AllOf(ins, outs)
           t == TensorAt(ins, outs, e)
<1>1. /\ e.is = "path" /\ e.side \in {"in", "out"} /\ e.k \in Nat /\ e.part \in Parts
      /\ e.ix \in IF e.side = "in" THEN DOMAIN full.inputs ELSE DOMAIN full.outputs
      /\ e.part = "dim" => e.k < Len(FactAt(full, e).shape.dims)
  BY DEF Names, Parts
<1>2. /\ DOMAIN full.inputs = DOMAIN ins /\ DOMAIN full.outputs = DOMAIN outs
      /\ \A i \in DOMAIN ins : full.inputs[i] = FactOf(ins[i])
      /\ \A o \in DOMAIN outs : full.outputs[o] = FactOf(outs[o])
  BY DEF AllOf
<1>3. IsTuple(t.shape) /\ FactAt(full, e) = FactOf(t) /\ IsTrue(FactAt(c, e), t)
  <2>1. CASE e.side = "in"
    <3>1. e.ix \in DOMAIN ins /\ t = ins[e.ix] /\ FactAt(full, e) = full.inputs[e.ix] /\ FactAt(c, e) = c.inputs[e.ix]
      BY <1>1, <1>2, <2>1 DEF TensorAt, FactAt
    <3> HIDE DEF full, t
    <3> QED
      BY <1>2, <3>1 DEF AreTensors, IsTrueContext
  <2>2. CASE e.side # "in"
    <3>1. e.ix \in DOMAIN outs /\ t = outs[e.ix] /\ FactAt(full, e) = full.outputs[e.ix] /\ FactAt(c, e) = c.outputs[e.ix]
      BY <1>1, <1>2, <2>2 DEF TensorAt, FactAt
    <3> HIDE DEF full, t
    <3> QED
      BY <1>2, <3>1 DEF AreTensors, IsTrueContext
  <2> QED
    BY <2>1, <2>2
<1>4. IsPart(e, t)
  BY <1>1, <1>3, AllOfATensor DEF IsPart
<1>5. IsShape(e) <=> e.part = "shape"
  BY <1>1 DEF IsShape
<1> QED
  BY <1>3, <1>4, <1>5

(* What a path names, of the truth and of what is known of it. *)
LEMMA PathsAreTrue ==
  ASSUME NEW ins, NEW outs, AreTensors(ins), AreTensors(outs), NEW c, IsTrueContext(c, ins, outs),
         NEW e, Names(AllOf(ins, outs), e)
  PROVE  LET v == GetPath(FactAt(c, e), e)
             x == GetPath(FactAt(AllOf(ins, outs), e), e)
         IN  /\ Term(c, e) = v /\ Get(c, e) = v /\ Term(AllOf(ins, outs), e) = x /\ Get(AllOf(ins, outs), e) = x
             /\ Knows(IsShape(e), v, x)
             /\ IsShape(e) => x = FactOf(TensorAt(ins, outs, e)).shape
             /\ ~ IsShape(e) => \E y : x = Only(y)
<1>1. e.is = "path"
  BY DEF Names
<1>2. \A d : Term(d, e) = GetPath(FactAt(d, e), e) /\ Get(d, e) = Term(d, e)
  BY <1>1 DEF Term, Get
<1>3. Knows(IsShape(e), GetPath(FactAt(c, e), e), GetPath(FactAt(AllOf(ins, outs), e), e))
  <2> DEFINE t == TensorAt(ins, outs, e)
             f == FactAt(c, e)
  <2>1. /\ IsTuple(t.shape) /\ IsPart(e, t) /\ IsTrue(f, t) /\ FactAt(AllOf(ins, outs), e) = FactOf(t)
        /\ IsShape(e) <=> e.part = "shape"
    BY NamedParts
  <2> HIDE DEF t, f
  <2>2. Knows(e.part = "shape", GetPath(f, e), GetPath(FactOf(t), e))
    BY <2>1, PartsAreTrue
  <2> QED
    BY <2>1, <2>2 DEF Knows, f
<1>4. IsShape(e) => GetPath(FactAt(AllOf(ins, outs), e), e) = FactOf(TensorAt(ins, outs, e)).shape
  BY NamedParts, PartsOfAll
<1>5. ~ IsShape(e) => \E y : GetPath(FactAt(AllOf(ins, outs), e), e) = Only(y)
  <2> DEFINE t == TensorAt(ins, outs, e)
             x == GetPath(FactOf(t), e)
  <2>1. IsTuple(t.shape) /\ IsPart(e, t) /\ FactAt(AllOf(ins, outs), e) = FactOf(t) /\ (IsShape(e) <=> e.part = "shape")
    BY NamedParts
  <2>2. ~ IsShape(e) => e.part \in {"dt", "rank", "dim", "value", "item"}
    BY <2>1 DEF IsPart, Parts
  <2>3. /\ e.part = "dt" => x = Only(t.dt)
        /\ e.part = "rank" => x = Only(Len(t.shape))
        /\ e.part = "dim" => x = Only(t.shape[e.k + 1])
        /\ e.part = "value" => x = Only(t)
        /\ e.part = "item" => x = Only(t.data[e.k + 1])
    BY <2>1, PartsOfAll
  <2> HIDE DEF x, t
  <2>4. ~ IsShape(e) => \E y : x = Only(y)
    BY <2>2, <2>3
  <2> QED
    BY <2>1, <2>4 DEF x
<1> QED
  BY <1>2, <1>3, <1>4, <1>5

LEMMA TermsAreTrue ==
  ASSUME NEW ins, NEW outs, AreTensors(ins), AreTensors(outs), NEW c, IsTrueContext(c, ins, outs),
         NEW e, MeansOne(AllOf(ins, outs), e), ~ IsShape(e)
  PROVE  /\ e.is = "const" => Term(c, e) = e.v /\ Term(AllOf(ins, outs), e) = e.v
         /\ e.is # "const" => /\ Partly(Term(c, e), Term(AllOf(ins, outs), e))
                              /\ \E y : Term(AllOf(ins, outs), e) = Only(y)
<1> DEFINE full == AllOf(ins, outs)
<1>1. CASE e.is = "const"
  BY <1>1 DEF Term
<1>2. CASE Names(full, e)
  <2>1. e.is = "path"
    BY <1>2 DEF Names
  <2> QED
    BY <1>2, <2>1, PathsAreTrue DEF Knows
<1>3. CASE e.is = "scaled" /\ Names(full, e.item) /\ ~ IsShape(e.item)
  <2> DEFINE v == GetPath(FactAt(c, e.item), e.item)
             x == GetPath(FactAt(full, e.item), e.item)
  <2>1. Partly(v, x) /\ \E y : x = Only(y)
    BY <1>3, PathsAreTrue DEF Knows
  <2>2. /\ Term(c, e) = IF IsConcrete(v) THEN Only(e.by * v[1]) ELSE v
        /\ Term(full, e) = IF IsConcrete(x) THEN Only(e.by * x[1]) ELSE x
    BY <1>3 DEF Term
  <2> HIDE DEF v, x
  <2>3. Term(full, e) = Only(e.by * x[1]) /\ (v = x \/ (v = Unknown /\ ~ IsConcrete(v)))
    BY <2>1, <2>2, ConstantsDiffer DEF Partly
  <2>4. Partly(Term(c, e), Term(full, e))
    BY <2>2, <2>3 DEF Partly
  <2> QED
    BY <1>3, <2>3, <2>4
<1> QED
  BY <1>1, <1>2, <1>3 DEF MeansOne

-----------------------------------------------------------------------------
(* Sums.                                                                   *)

Sums(h, values) ==
  h = [k \in 0 .. Len(values) |-> IF k = 0 THEN 0 ELSE IF IsConcrete(values[k]) THEN h[k - 1] + values[k][1] ELSE h[k - 1]]

TotalsOn(f, values, places) ==
  f = [S \in SUBSET places |->
         IF S = {} THEN 0
         ELSE LET x == Max(S) IN IF IsConcrete(values[x]) THEN f[S \ {x}] + values[x][1] ELSE f[S \ {x}]]

LEMMA TotalsExist ==
  ASSUME NEW values, NEW n \in Nat
  PROVE  \E f : TotalsOn(f, values, 1 .. n)
<1> DEFINE T == {m \in Nat : \E f : TotalsOn(f, values, 1 .. m)}
           Plus1(x, a) == IF IsConcrete(values[x]) THEN a + values[x][1] ELSE a
<1>1. 0 \in T
  <2> DEFINE f == [S \in SUBSET (1 .. 0) |-> 0]
  <2>1. 1 .. 0 = {}
    OBVIOUS
  <2>2. TotalsOn(f, values, 1 .. 0)
    BY <2>1 DEF TotalsOn
  <2> QED
    BY <2>2
<1>2. ASSUME NEW m \in Nat, m \in T PROVE m + 1 \in T
  <2>1. PICK f : TotalsOn(f, values, 1 .. m)
    BY <1>2
  <2> DEFINE D == SUBSET (1 .. m)
             E == SUBSET (1 .. m + 1)
             g == [S \in E |-> IF S \in D THEN f[S] ELSE Plus1(m + 1, f[S \ {m + 1}])]
  <2>2. 1 .. m + 1 = (1 .. m) \cup {m + 1} /\ m + 1 \notin 1 .. m
    OBVIOUS
  <2>3. ASSUME NEW S \in E
        PROVE  g[S] = IF S = {} THEN 0 ELSE LET x == Max(S) IN Plus1(x, g[S \ {x}])
    <3>1. CASE S \in D
      <4>1. f[S] = IF S = {} THEN 0 ELSE LET x == Max(S) IN Plus1(x, f[S \ {x}])
        BY <2>1, <3>1 DEF TotalsOn
      <4>2. \A x : S \ {x} \in D /\ S \ {x} \in E
        BY <2>2, <3>1
      <4>3. g[S] = f[S] /\ \A x : g[S \ {x}] = f[S \ {x}]
        BY <3>1, <4>2
      <4> HIDE DEF g, Plus1
      <4> QED
        BY <4>1, <4>3
    <3>2. CASE S \notin D
      <4>1. m + 1 \in S /\ S \ {m + 1} \in D /\ S \ {m + 1} \in E /\ S # {}
        BY <2>2, <3>2
      <4>2. Max(S) = m + 1
        <5>1. \A y \in S : y \in Int /\ y <= m + 1
          OBVIOUS
        <5> QED
          BY <4>1, <5>1, MaxIs
      <4>3. g[S] = Plus1(m + 1, f[S \ {m + 1}]) /\ g[S \ {m + 1}] = f[S \ {m + 1}]
        BY <3>2, <4>1
      <4> HIDE DEF g, Plus1
      <4> QED
        BY <4>1, <4>2, <4>3
    <3> QED
      BY <3>1, <3>2
  <2>4. g = [S \in E |-> g[S]]
    OBVIOUS
  <2> HIDE DEF g
  <2>5. TotalsOn(g, values, 1 .. m + 1)
    BY <2>3, <2>4 DEF TotalsOn
  <2> QED
    BY <2>5
<1> HIDE DEF T
<1>3. Nat \subseteq T
  BY <1>1, <1>2, SetInduction
<1> QED
  BY <1>3 DEF T

(* A total is found step by step. *)
LEMMA TotalSteps ==
  ASSUME NEW values, IsTuple(values)
  PROVE  \E h : Sums(h, values) /\ Total(values) = h[Len(values)]
<1> DEFINE n == Len(values)
           f == CHOOSE u : TotalsOn(u, values, 1 .. n)
           h == [k \in 0 .. n |-> f[1 .. k]]
<1>1. n \in Nat /\ DOMAIN values = 1 .. n
  BY Tuples
<1>2. Total(values) = (CHOOSE u : TotalsOn(u, values, DOMAIN values))[DOMAIN values]
  BY DEF Total, FoldLeft, MapThenFoldSet, TotalsOn
<1>3. TotalsOn(f, values, 1 .. n)
  <2> HIDE DEF n
  <2> QED
    BY <1>1, TotalsExist
<1>4. Total(values) = f[1 .. n]
  BY <1>1, <1>2
<1> HIDE DEF f, n
<1>5. ASSUME NEW k \in 0 .. n
      PROVE  h[k] = IF k = 0 THEN 0 ELSE IF IsConcrete(values[k]) THEN h[k - 1] + values[k][1] ELSE h[k - 1]
  <2>1. (1 .. k) \in SUBSET (1 .. n)
    BY <1>1
  <2>2. f[1 .. k] = IF 1 .. k = {} THEN 0
                    ELSE LET x == Max(1 .. k)
                         IN  IF IsConcrete(values[x]) THEN f[(1 .. k) \ {x}] + values[x][1] ELSE f[(1 .. k) \ {x}]
    BY <1>3, <2>1 DEF TotalsOn
  <2>3. CASE k = 0
    <3>1. 1 .. k = {}
      BY <2>3
    <3> QED
      BY <2>2, <2>3, <3>1
  <2>4. CASE k # 0
    <3>1. k \in 1 .. k /\ 1 .. k # {} /\ k - 1 \in 0 .. n
      BY <1>1, <2>4
    <3>2. Max(1 .. k) = k
      BY <3>1, MaxIs
    <3>3. (1 .. k) \ {k} = 1 .. k - 1
      BY <1>1
    <3> QED
      BY <2>2, <2>4, <3>1, <3>2, <3>3
  <2> QED
    BY <2>3, <2>4
<1>6. h = [k \in 0 .. n |-> h[k]]
  OBVIOUS
<1>7. n \in 0 .. n
  BY <1>1
<1>8. h[n] = f[1 .. n]
  BY <1>7
<1> HIDE DEF h
<1>9. Sums(h, values)
  BY <1>5, <1>6 DEF Sums, n
<1> QED
  BY <1>4, <1>8, <1>9 DEF n

(* With all the numbers but one, the total lacks that one. *)
LEMMA TotalRest ==
  ASSUME NEW all, NEW values, IsTuple(all), IsTuple(values), Len(all) = Len(values),
         \A k \in DOMAIN all : IsConcrete(all[k]) /\ all[k][1] \in Int,
         NEW missing, \A k \in DOMAIN all : k \in missing => ~ IsConcrete(values[k]),
         \A k \in DOMAIN all : k \notin missing => values[k] = all[k]
  PROVE  /\ Total(all) \in Int /\ Total(values) \in Int
         /\ missing = {} => Total(all) = Total(values)
         /\ \A i \in DOMAIN all : missing = {i} => Total(all) = Total(values) + all[i][1]
<1> DEFINE n == Len(all)
<1>1. n \in Nat /\ DOMAIN all = 1 .. n
  BY Tuples
<1>2. PICK g : Sums(g, all) /\ Total(all) = g[n]
  BY TotalSteps
<1>3. PICK h : Sums(h, values) /\ Total(values) = h[n]
  BY TotalSteps
<1> HIDE DEF n
<1> DEFINE P(k) == /\ g[k] \in Int /\ h[k] \in Int
                   /\ missing = {} => g[k] = h[k]
                   /\ \A i \in DOMAIN all : missing = {i} => g[k] = h[k] + IF i <= k THEN all[i][1] ELSE 0
           T == {k \in Nat : k <= n => P(k)}
<1>4. \A k \in 0 .. n : /\ g[k] = IF k = 0 THEN 0 ELSE IF IsConcrete(all[k]) THEN g[k - 1] + all[k][1] ELSE g[k - 1]
                        /\ h[k] = IF k = 0 THEN 0 ELSE IF IsConcrete(values[k]) THEN h[k - 1] + values[k][1] ELSE h[k - 1]
  <2>1. Len(values) = n /\ Len(all) = n
    BY DEF n
  <2> QED
    BY <1>2, <1>3, <2>1 DEF Sums
<1>5. 0 \in T
  <2>1. g[0] = 0 /\ h[0] = 0
    BY <1>1, <1>4
  <2>2. \A i \in DOMAIN all : ~ (i <= 0)
    BY <1>1
  <2> QED
    BY <2>1, <2>2
<1>6. ASSUME NEW k \in Nat, k \in T PROVE k + 1 \in T
  <2> SUFFICES ASSUME k + 1 <= n PROVE P(k + 1)
    OBVIOUS
  <2>1. P(k) /\ k + 1 \in 1 .. n /\ k + 1 \in 0 .. n /\ k + 1 # 0 /\ (k + 1) - 1 = k
    BY <1>1, <1>6
  <2>2. IsConcrete(all[k + 1]) /\ all[k + 1][1] \in Int
    BY <1>1, <2>1
  <2>3. g[k + 1] = g[k] + all[k + 1][1]
    BY <1>4, <2>1, <2>2
  <2>4. h[k + 1] = IF k + 1 \in missing THEN h[k] ELSE h[k] + all[k + 1][1]
    BY <1>1, <1>4, <2>1, <2>2
  <2>5. g[k + 1] \in Int /\ h[k + 1] \in Int
    BY <2>1, <2>2, <2>3, <2>4
  <2>6. missing = {} => g[k + 1] = h[k + 1]
    BY <2>1, <2>3, <2>4
  <2>7. ASSUME NEW i \in DOMAIN all, missing = {i}
        PROVE  g[k + 1] = h[k + 1] + IF i <= k + 1 THEN all[i][1] ELSE 0
    <3>1. i \in Nat /\ g[k] = h[k] + IF i <= k THEN all[i][1] ELSE 0
      BY <1>1, <2>1, <2>7
    <3>2. all[i][1] \in Int
      OBVIOUS
    <3>3. CASE i = k + 1
      BY <2>1, <2>3, <2>4, <2>7, <3>1, <3>3
    <3>4. CASE i # k + 1
      <4>1. (i <= k + 1) = (i <= k)
        BY <3>1, <3>4
      <4> QED
        BY <2>1, <2>2, <2>3, <2>4, <2>7, <3>1, <3>2, <3>4, <4>1
    <3> QED
      BY <3>3, <3>4
  <2> QED
    BY <2>5, <2>6, <2>7
<1> HIDE DEF T
<1>7. Nat \subseteq T
  BY <1>5, <1>6, SetInduction
<1>8. P(n)
  BY <1>1, <1>7 DEF T
<1>9. \A i \in DOMAIN all : i <= n
  BY <1>1
<1> QED
  BY <1>2, <1>3, <1>8, <1>9

(* The terms of a sum. *)
LEMMA SumTerms ==
  ASSUME NEW ins, NEW outs, AreTensors(ins), AreTensors(outs), NEW c, IsTrueContext(c, ins, outs),
         NEW e, Means(AllOf(ins, outs), e), e.is = "sum"
  PROVE  LET all    == Terms(AllOf(ins, outs), e)
             values == Terms(c, e)
         IN  /\ IsTuple(e.items) /\ \A i \in DOMAIN e.items : IsNumber(AllOf(ins, outs), e.items[i])
             /\ IsTuple(all) /\ IsTuple(values) /\ Len(all) = Len(e.items) /\ Len(values) = Len(e.items)
             /\ DOMAIN all = DOMAIN e.items /\ DOMAIN values = DOMAIN e.items
             /\ \A k \in DOMAIN e.items : /\ all[k] = Only(all[k][1]) /\ IsConcrete(all[k]) /\ all[k][1] \in Int
                                          /\ Partly(values[k], all[k])
<1> DEFINE full == AllOf(ins, outs)
           all == Terms(full, e)
           values == Terms(c, e)
<1>1. IsTuple(e.items) /\ \A i \in DOMAIN e.items : IsNumber(full, e.items[i])
  <2>1. ~ MeansOne(full, e)
    BY DEF MeansOne, Names
  <2> QED
    BY <2>1 DEF Means
<1>2. DOMAIN e.items = 1 .. Len(e.items) /\ Len(e.items) \in Nat
  BY <1>1, Tuples
<1>3. all = [i \in 1 .. Len(e.items) |-> Term(full, e.items[i])] /\ values = [i \in 1 .. Len(e.items) |-> Term(c, e.items[i])]
  BY <1>2 DEF Terms
<1>4. IsTuple(all) /\ Len(all) = Len(e.items) /\ IsTuple(values) /\ Len(values) = Len(e.items)
  BY <1>2, <1>3, FunctionsAreTuples
<1>5. ASSUME NEW k \in DOMAIN e.items
      PROVE  all[k] = Only(all[k][1]) /\ IsConcrete(all[k]) /\ all[k][1] \in Int /\ Partly(values[k], all[k])
  <2>1. all[k] = Term(full, e.items[k]) /\ values[k] = Term(c, e.items[k])
    BY <1>2, <1>3
  <2>2. MeansOne(full, e.items[k]) /\ ~ IsShape(e.items[k])
        /\ all[k] = Only(all[k][1]) /\ IsConcrete(all[k]) /\ all[k][1] \in Int
    BY <1>1, <2>1 DEF IsNumber
  <2>3. Partly(Term(c, e.items[k]), Term(full, e.items[k]))
    BY <2>2, TermsAreTrue DEF Partly
  <2> QED
    BY <2>1, <2>2, <2>3
<1>6. DOMAIN all = DOMAIN e.items /\ DOMAIN values = DOMAIN e.items
  BY <1>2, <1>3
<1> QED
  BY <1>1, <1>4, <1>5, <1>6

(* What an expression is, of the truth and of what is known of it. *)
LEMMA GetIsTrue ==
  ASSUME NEW ins, NEW outs, AreTensors(ins), AreTensors(outs), NEW c, IsTrueContext(c, ins, outs),
         NEW e, Means(AllOf(ins, outs), e), ~ IsShape(e)
  PROVE  /\ e.is = "const" => Get(c, e) = e.v /\ Get(AllOf(ins, outs), e) = e.v
         /\ e.is # "const" => Partly(Get(c, e), Get(AllOf(ins, outs), e)) /\ \E y : Get(AllOf(ins, outs), e) = Only(y)
<1> DEFINE full == AllOf(ins, outs)
           all == Terms(full, e)
           values == Terms(c, e)
<1>1. CASE e.is # "sum"
  <2>1. Get(c, e) = Term(c, e) /\ Get(full, e) = Term(full, e)
    BY <1>1 DEF Get
  <2>2. MeansOne(full, e)
    BY <1>1 DEF Means
  <2> QED
    BY <2>1, <2>2, TermsAreTrue
<1>2. CASE e.is = "sum"
  <2>1. /\ IsTuple(all) /\ IsTuple(values) /\ Len(all) = Len(values)
        /\ DOMAIN values = DOMAIN all
        /\ \A k \in DOMAIN all : /\ all[k] = Only(all[k][1]) /\ IsConcrete(all[k]) /\ all[k][1] \in Int
                                 /\ Partly(values[k], all[k])
    BY <1>2, SumTerms
  <2>2. /\ Get(c, e) = IF Clash \in Range(values) THEN Clash
                       ELSE IF Unknown \in Range(values) THEN Unknown ELSE Only(Total(values))
        /\ Get(full, e) = IF Clash \in Range(all) THEN Clash
                          ELSE IF Unknown \in Range(all) THEN Unknown ELSE Only(Total(all))
    BY <1>2 DEF Get
  <2> HIDE DEF all, values
  <2>3. \A k \in DOMAIN all : all[k] # Clash /\ all[k] # Unknown /\ values[k] # Clash
    BY <2>1, ConstantsDiffer DEF Partly
  <2>4. Get(full, e) = Only(Total(all))
    BY <2>2, <2>3 DEF Range
  <2>5. Get(c, e) = IF Unknown \in Range(values) THEN Unknown ELSE Only(Total(values))
    BY <2>1, <2>2, <2>3 DEF Range
  <2>6. CASE Unknown \in Range(values)
    BY <1>2, <2>4, <2>5, <2>6 DEF Partly
  <2>7. CASE Unknown \notin Range(values)
    <3>1. \A k \in DOMAIN all : values[k] = all[k]
      BY <2>1, <2>7 DEF Range, Partly
    <3>2. values = all
      BY <2>1, <3>1 DEF IsTuple
    <3> QED
      BY <1>2, <2>4, <2>5, <2>7, <3>2 DEF Partly
  <2> QED
    BY <2>6, <2>7
<1> QED
  BY <1>1, <1>2

-----------------------------------------------------------------------------
(* Setting an expression to what it is, or to what is known of that.       *)

(* Dimensions that nothing is known of. *)
LEMMA UnknownDim ==
  ASSUME NEW k \in Nat
  PROVE  LET s == Open(Append(Anys(k), Unknown))
         IN  /\ IsShapeFactoid(s) /\ s.open /\ Len(s.dims) = k + 1
             /\ \A i \in 1 .. k + 1 : s.dims[i] = Unknown
<1> DEFINE dims == Append(Anys(k), Unknown)
<1>1. Anys(k) \in Seq({Unknown}) /\ Len(Anys(k)) = k
  <2>1. Anys(k) \in [1 .. k -> {Unknown}]
    BY DEF Anys
  <2>2. Anys(k) \in Seq({Unknown})
    BY <2>1, SeqDef
  <2> QED
    BY <2>1, <2>2, LenProperties
<1>2. dims \in Seq({Unknown}) /\ Len(dims) = k + 1
  BY <1>1, AppendProperties
<1>3. IsTuple(dims) /\ \A i \in 1 .. k + 1 : dims[i] = Unknown
  <2> HIDE DEF dims
  <2>1. \A i \in 1 .. Len(dims) : dims[i] \in {Unknown}
    BY <1>2, ElementOfSeq
  <2> QED
    BY <1>2, <2>1, SeqsAreTuples
<1> HIDE DEF dims
<1>4. LET s == Open(dims) IN IsShapeFactoid(s) /\ s.open /\ s.dims = dims
  BY <1>3 DEF Open, IsShapeFactoid
<1> QED
  BY <1>2, <1>3, <1>4 DEF dims

(* Saying nothing of a part that is not known changes no part. *)
LEMMA NothingSaid ==
  ASSUME NEW f, NEW t, IsTuple(t.shape), IsTrue(f, t), NEW p, IsPart(p, t), p.part # "shape",
         GetPath(f, p) = Unknown, NEW q, IsPart(q, t), q.part # "shape"
  PROVE  GetPath(SetPath(f, p, Unknown), q) = GetPath(f, q)
<1> DEFINE g == SetPath(f, p, Unknown)
<1> SUFFICES GetPath(g, q) = GetPath(f, q)
  OBVIOUS
<1>1. IsInferenceFact(f) /\ IsShapeFactoid(f.shape) /\ f = [dt |-> f.dt, shape |-> f.shape, value |-> f.value]
  BY DEF IsTrue, IsInferenceFact
<1>2. CASE p.part = "dt"
  <2>1. g = [f EXCEPT !.dt = Unify(Unknown, f.dt)]
    BY <1>2 DEF SetPath
  <2>2. g = f
    BY <1>1, <2>1, UnifyIs
  <2> QED
    BY <2>2
<1>3. CASE p.part \in {"rank", "item"}
  BY <1>3 DEF SetPath
<1>4. CASE p.part = "value"
  <2>1. f.value = Unknown
    BY <1>4 DEF GetPath
  <2>2. Unify(f.value, Unknown) = Unknown
    BY <2>1, UnifyIs
  <2>3. g = [f EXCEPT !.value = Unknown]
    BY <1>4, <2>2 DEF SetPath
  <2>4. g = f
    BY <1>1, <2>1, <2>3
  <2> QED
    BY <2>4
<1>5. CASE p.part = "dim"
  <2> DEFINE s == Open(Append(Anys(p.k), Unknown))
             a == f.shape
             len == Len(a.dims)
             n == IF len < p.k + 1 THEN p.k + 1 ELSE len
  <2>1. p.k \in Nat
    BY DEF IsPart
  <2>2. IsShapeFactoid(s) /\ s.open /\ Len(s.dims) = p.k + 1 /\ \A i \in 1 .. p.k + 1 : s.dims[i] = Unknown
    BY <2>1, UnknownDim
  <2>3. g = [f EXCEPT !.shape = UnifyShape(f.shape, s)]
    BY <1>5 DEF SetPath
  <2>4. g.dt = f.dt /\ g.value = f.value /\ g.shape = UnifyShape(a, s)
    BY <1>1, <2>3
  <2>5. len \in Nat /\ a.open \in BOOLEAN
    BY <1>1 DEF IsShapeFactoid, IsTuple
  <2>6. a.open \/ p.k < len
    <3>1. p.k < len \/ a.open \/ GetPath(f, p) = Clash
      BY <1>5 DEF GetPath
    <3> QED
      BY <3>1, ConstantsDiffer
  <2> HIDE DEF s, g
  <2>7. UnifyShape(a, s) = [open |-> a.open /\ s.open,
                            dims |-> [k \in 1 .. n |-> IF k <= len
                                         THEN IF k <= p.k + 1 THEN Unify(a.dims[k], s.dims[k]) ELSE a.dims[k]
                                         ELSE s.dims[k]]]
    <3>1. ~ (~ a.open /\ len < n) /\ ~ (~ s.open /\ p.k + 1 < n)
      BY <2>1, <2>2, <2>5, <2>6
    <3> QED
      BY <1>1, <2>2, <3>1, UnifyShapeIs
  <2> DEFINE dims == g.shape.dims
  <2>8. g.shape.open = a.open /\ dims = [k \in 1 .. n |-> IF k <= len
                                         THEN IF k <= p.k + 1 THEN Unify(a.dims[k], s.dims[k]) ELSE a.dims[k]
                                         ELSE s.dims[k]]
    BY <2>2, <2>4, <2>5, <2>7
  <2>9. Len(dims) = n
    BY <2>1, <2>5, <2>8
  <2>10. ASSUME NEW k \in 1 .. n PROVE dims[k] = IF k <= len THEN a.dims[k] ELSE Unknown
    <3>1. k <= len /\ k <= p.k + 1 => Unify(a.dims[k], s.dims[k]) = a.dims[k]
      BY <2>1, <2>2, UnifyIs
    <3>2. ~ (k <= len) => s.dims[k] = Unknown
      BY <2>1, <2>2, <2>5
    <3>3. dims[k] = IF k <= len THEN IF k <= p.k + 1 THEN Unify(a.dims[k], s.dims[k]) ELSE a.dims[k] ELSE s.dims[k]
      BY <2>8
    <3> HIDE DEF dims
    <3> QED
      BY <3>1, <3>2, <3>3
  <2> HIDE DEF dims
  <2>11. q.k \in Nat /\ q.part \in {"dt", "rank", "dim", "value", "item"}
    BY DEF IsPart, Parts
  <2>12. CASE q.part = "dt"
    BY <2>4, <2>12 DEF GetPath
  <2>13. CASE q.part = "value"
    BY <2>4, <2>13 DEF GetPath
  <2>14. CASE q.part = "item"
    BY <2>4, <2>14 DEF GetPath
  <2>15. CASE q.part = "rank"
    <3>1. GetPath(g, q) = (IF a.open THEN Unknown ELSE Only(Len(dims))) /\ GetPath(f, q) = (IF a.open THEN Unknown ELSE Only(len))
      BY <2>8, <2>15 DEF GetPath, dims
    <3>2. ~ a.open => Len(dims) = len
      BY <2>1, <2>5, <2>6, <2>9
    <3> QED
      BY <3>1, <3>2
  <2>16. CASE q.part = "dim"
    <3>1. /\ GetPath(g, q) = IF q.k < n THEN dims[q.k + 1] ELSE IF a.open THEN Unknown ELSE Clash
          /\ GetPath(f, q) = IF q.k < len THEN a.dims[q.k + 1] ELSE IF a.open THEN Unknown ELSE Clash
      <4>1. g.shape.dims = dims /\ f.shape.dims = a.dims /\ f.shape.open = a.open
        BY DEF dims
      <4> HIDE DEF a, n
      <4> QED
        BY <2>8, <2>9, <2>16, <4>1 DEF GetPath
    <3>2. CASE q.k < n
      <4>1. q.k + 1 \in 1 .. n
        BY <2>1, <2>5, <2>11, <3>2
      <4>2. dims[q.k + 1] = IF q.k < len THEN a.dims[q.k + 1] ELSE Unknown
        BY <2>5, <2>10, <2>11, <4>1
      <4>3. ~ (q.k < len) => a.open
        BY <2>1, <2>5, <2>6, <2>11, <3>2
      <4> QED
        BY <3>1, <3>2, <4>2, <4>3
    <3>3. CASE ~ (q.k < n)
      <4>1. ~ (q.k < len)
        BY <2>1, <2>5, <2>11, <3>3
      <4> QED
        BY <3>1, <3>3, <4>1
    <3> QED
      BY <3>2, <3>3
  <2> QED
    BY <2>11, <2>12, <2>13, <2>14, <2>15, <2>16 DEF g
<1> QED
  BY <1>2, <1>3, <1>4, <1>5 DEF IsPart, Parts

(* What is known of a part is not a clash. *)
LEMMA KnownIsNoClash ==
  ASSUME NEW ins, NEW outs, AreTensors(ins), AreTensors(outs), NEW c, IsTrueContext(c, ins, outs),
         NEW e, Names(AllOf(ins, outs), e), NEW v, Knows(IsShape(e), v, GetPath(FactAt(AllOf(ins, outs), e), e))
  PROVE  ~ ClashPart(e, v)
<1> DEFINE t == TensorAt(ins, outs, e)
           x == GetPath(FactAt(AllOf(ins, outs), e), e)
<1>1. CASE IsShape(e)
  <2>1. x = FactOf(t).shape /\ IsTuple(t.shape)
    BY <1>1, PathsAreTrue, NamedParts
  <2>2. /\ Len(v.dims) <= Len(x.dims) /\ IsShapeFactoid(v) /\ \A k \in DOMAIN v.dims : Partly(v.dims[k], x.dims[k])
    BY <1>1 DEF Knows, PartlyShape
  <2>3. /\ Len(x.dims) = Len(t.shape) /\ DOMAIN t.shape = 1 .. Len(t.shape) /\ Len(t.shape) \in Nat
        /\ \A k \in DOMAIN t.shape : x.dims[k] = Only(t.shape[k])
    BY <2>1, AllOfATensor, Tuples
  <2>4. DOMAIN v.dims = 1 .. Len(v.dims) /\ Len(v.dims) \in Nat
    BY <2>2, Tuples DEF IsShapeFactoid
  <2> HIDE DEF x, t
  <2>5. \A k \in DOMAIN v.dims : v.dims[k] # Clash
    BY <2>2, <2>3, <2>4, ConstantsDiffer DEF Partly
  <2> QED
    BY <1>1, <2>5 DEF ClashPart, Range
<1>2. CASE ~ IsShape(e)
  BY <1>2, PathsAreTrue, ConstantsDiffer DEF ClashPart, Knows, Partly
<1> QED
  BY <1>1, <1>2

(* No more and no less is known in d than in c, but maybe of whole shapes. *)
Same(full, c, d) ==
  \A q : Names(full, q) /\ ~ IsShape(q) => GetPath(FactAt(d, q), q) = GetPath(FactAt(c, q), q)

(* The context with another fact where a path leads. *)
WithFact(c, p, fact, flag) ==
  IF p.side = "in" THEN [c EXCEPT !.inputs[p.ix] = fact, !.changed = flag]
  ELSE [c EXCEPT !.outputs[p.ix] = fact, !.changed = flag]

LEMMA FactChanged ==
  ASSUME NEW ins, NEW outs, AreTensors(ins), AreTensors(outs), NEW c, IsTrueContext(c, ins, outs), c.ok,
         NEW e, Names(AllOf(ins, outs), e), NEW fact, IsTrue(fact, TensorAt(ins, outs, e)),
         Finer(fact, FactAt(c, e)), NEW flag,
         NEW d, d = WithFact(c, e, fact, flag)
  PROVE  /\ IsTrueContext(d, ins, outs) /\ d.ok /\ Learns(ins, outs, c, d)
         /\ \A q : Names(AllOf(ins, outs), q) =>
               FactAt(d, q) = IF q.side = e.side /\ q.ix = e.ix THEN fact ELSE FactAt(c, q)
<1> DEFINE full == AllOf(ins, outs)
<1>1. /\ c = [inputs |-> c.inputs, outputs |-> c.outputs, ok |-> c.ok, changed |-> c.changed]
      /\ DOMAIN c.inputs = DOMAIN ins /\ \A i \in DOMAIN ins : IsTrue(c.inputs[i], ins[i])
      /\ DOMAIN c.outputs = DOMAIN outs /\ \A o \in DOMAIN outs : IsTrue(c.outputs[o], outs[o])
  BY DEF IsTrueContext
<1>2. ASSUME NEW q, Names(full, q)
      PROVE  q.side \in {"in", "out"} /\ q.ix \in IF q.side = "in" THEN DOMAIN ins ELSE DOMAIN outs
  <2>1. DOMAIN full.inputs = DOMAIN ins /\ DOMAIN full.outputs = DOMAIN outs
    BY DEF AllOf
  <2> HIDE DEF full
  <2> QED
    BY <1>2, <2>1 DEF Names
<1>3. CASE e.side = "in"
  <2> DEFINE new == [c.inputs EXCEPT ![e.ix] = fact]
  <2>1. d = [inputs |-> new, outputs |-> c.outputs, ok |-> c.ok, changed |-> flag]
    BY <1>1, <1>3 DEF WithFact
  <2>2. e.ix \in DOMAIN ins /\ IsTrue(fact, ins[e.ix])
    BY <1>2, <1>3 DEF TensorAt
  <2>3. DOMAIN new = DOMAIN ins /\ \A i \in DOMAIN ins : new[i] = IF i = e.ix THEN fact ELSE c.inputs[i]
    BY <1>1
  <2> HIDE DEF new
  <2>4a. d = [inputs |-> d.inputs, outputs |-> d.outputs, ok |-> d.ok, changed |-> d.changed]
    BY <2>1
  <2>4b. d.inputs = new /\ d.outputs = c.outputs /\ d.ok
    BY <2>1
  <2>4c. /\ DOMAIN d.inputs = DOMAIN ins /\ \A i \in DOMAIN ins : IsTrue(d.inputs[i], ins[i])
        /\ DOMAIN d.outputs = DOMAIN outs /\ \A o \in DOMAIN outs : IsTrue(d.outputs[o], outs[o])
    BY <1>1, <2>2, <2>3, <2>4b
  <2>4. IsTrueContext(d, ins, outs) /\ d.ok
    BY <2>4a, <2>4b, <2>4c DEF IsTrueContext
  <2>4d. Learns(ins, outs, c, d)
    <3>1. Learns(ins, outs, c, c)
      BY LearnsItself
    <3> QED
      BY <1>3, <2>2, <2>3, <2>4b, <3>1 DEF Learns, FactAt
  <2>5. ASSUME NEW q, Names(full, q)
        PROVE  FactAt(d, q) = IF q.side = e.side /\ q.ix = e.ix THEN fact ELSE FactAt(c, q)
    BY <1>2, <1>3, <2>4b, <2>2, <2>3, <2>5 DEF FactAt
  <2> QED
    BY <2>4, <2>4d, <2>5
<1>4. CASE e.side # "in"
  <2> DEFINE new == [c.outputs EXCEPT ![e.ix] = fact]
  <2>1. d = [inputs |-> c.inputs, outputs |-> new, ok |-> c.ok, changed |-> flag]
    BY <1>1, <1>4 DEF WithFact
  <2>2. e.ix \in DOMAIN outs /\ IsTrue(fact, outs[e.ix]) /\ e.side = "out"
    BY <1>2, <1>4 DEF TensorAt
  <2>3. DOMAIN new = DOMAIN outs /\ \A i \in DOMAIN outs : new[i] = IF i = e.ix THEN fact ELSE c.outputs[i]
    BY <1>1
  <2> HIDE DEF new
  <2>4a. d = [inputs |-> d.inputs, outputs |-> d.outputs, ok |-> d.ok, changed |-> d.changed]
    BY <2>1
  <2>4b. d.inputs = c.inputs /\ d.outputs = new /\ d.ok
    BY <2>1
  <2>4c. /\ DOMAIN d.inputs = DOMAIN ins /\ \A i \in DOMAIN ins : IsTrue(d.inputs[i], ins[i])
        /\ DOMAIN d.outputs = DOMAIN outs /\ \A o \in DOMAIN outs : IsTrue(d.outputs[o], outs[o])
    BY <1>1, <2>2, <2>3, <2>4b
  <2>4. IsTrueContext(d, ins, outs) /\ d.ok
    BY <2>4a, <2>4b, <2>4c DEF IsTrueContext
  <2>4d. Learns(ins, outs, c, d)
    <3>1. Learns(ins, outs, c, c)
      BY LearnsItself
    <3> QED
      BY <1>4, <2>2, <2>3, <2>4b, <3>1 DEF Learns, FactAt
  <2>5. ASSUME NEW q, Names(full, q)
        PROVE  FactAt(d, q) = IF q.side = e.side /\ q.ix = e.ix THEN fact ELSE FactAt(c, q)
    BY <1>2, <1>4, <2>4b, <2>2, <2>3, <2>5 DEF FactAt
  <2> QED
    BY <2>4, <2>4d, <2>5
<1> QED
  BY <1>3, <1>4

LEMMA SetVariableTrue ==
  ASSUME NEW ins, NEW outs, AreTensors(ins), AreTensors(outs), NEW c, IsTrueContext(c, ins, outs), c.ok,
         NEW e, Names(AllOf(ins, outs), e), NEW v, Knows(IsShape(e), v, GetPath(FactAt(AllOf(ins, outs), e), e))
  PROVE  LET d == SetVariable(c, e, v)
         IN  /\ IsTrueContext(d, ins, outs) /\ d.ok /\ Learns(ins, outs, c, d)
             /\ ~ IsShape(e) /\ v = Unknown /\ GetPath(FactAt(c, e), e) = Unknown => Same(AllOf(ins, outs), c, d)
<1> DEFINE full == AllOf(ins, outs)
           t    == TensorAt(ins, outs, e)
           old  == GetPath(FactAt(c, e), e)
           x    == GetPath(FactAt(full, e), e)
           new  == UnifyPart(e, old, v)
           fact == SetPath(FactAt(c, e), e, new)
           d    == SetVariable(c, e, v)
<1>1. IsTuple(t.shape) /\ IsPart(e, t) /\ FactAt(full, e) = FactOf(t) /\ IsTrue(FactAt(c, e), t) /\ (IsShape(e) <=> e.part = "shape")
  BY NamedParts
<1>2. Knows(IsShape(e), old, x)
  BY PathsAreTrue
<1>3. Knows(IsShape(e), new, x)
  <2>1. CASE IsShape(e)
    <3>1. IsShapeFactoid(x)
      BY <1>1, <2>1, PathsAreTrue, AllOfATensor
    <3> HIDE DEF x, old
    <3> QED
      BY <1>2, <2>1, <3>1, UnifyShapePartly DEF Knows, UnifyPart, x
  <2>2. CASE ~ IsShape(e)
    <3>1. Partly(old, x) /\ Partly(v, x)
      BY <1>2, <2>2 DEF Knows
    <3>2. Partly(Unify(old, v), x)
      BY <3>1, UnifyPartly
    <3> QED
      BY <2>2, <3>2 DEF Knows, UnifyPart
  <2> QED
    BY <2>1, <2>2
<1>4. IsTrue(fact, t) /\ Finer(fact, FactAt(c, e))
  <2>1. Knows(e.part = "shape", new, GetPath(FactOf(t), e))
    BY <1>1, <1>3 DEF Knows
  <2> HIDE DEF t, new
  <2> QED
    BY <1>1, <2>1, SetPathTrue
<1>5. ~ ClashPart(e, old) /\ ~ ClashPart(e, new) /\ ~ IsClash(fact)
  <2>1. ~ IsClash(fact)
    BY <1>1, <1>4, TrueIsNoClash
  <2>2. ~ ClashPart(e, old)
    BY <1>2, KnownIsNoClash
  <2>3. ~ ClashPart(e, new)
    BY <1>3, KnownIsNoClash
  <2> QED
    BY <2>1, <2>2, <2>3
<1>6. d = IF e.side = "in" THEN [c EXCEPT !.inputs[e.ix] = fact, !.changed = @ \/ old # new]
          ELSE [c EXCEPT !.outputs[e.ix] = fact, !.changed = @ \/ old # new]
  BY <1>5 DEF SetVariable
<1> DEFINE flag == c.changed \/ old # new
<1>7. d = WithFact(c, e, fact, flag)
  BY <1>6 DEF WithFact
<1> HIDE DEF d, fact, flag, old, x, new
<1>8. /\ IsTrueContext(d, ins, outs) /\ d.ok /\ Learns(ins, outs, c, d)
      /\ \A q : Names(full, q) => FactAt(d, q) = IF q.side = e.side /\ q.ix = e.ix THEN fact ELSE FactAt(c, q)
  BY <1>4, <1>7, FactChanged
<1> USE DEF old, new
<1>9. ASSUME ~ IsShape(e), v = Unknown, old = Unknown, NEW q, Names(full, q), ~ IsShape(q)
      PROVE  GetPath(FactAt(d, q), q) = GetPath(FactAt(c, q), q)
  <2>1. CASE q.side = e.side /\ q.ix = e.ix
    <3>1. new = Unknown
      BY <1>9, UnifyIs DEF UnifyPart
    <3>2. fact = SetPath(FactAt(c, e), e, Unknown)
      BY <3>1 DEF fact
    <3>3. TensorAt(ins, outs, q) = t /\ FactAt(c, q) = FactAt(c, e)
      BY <2>1 DEF TensorAt, FactAt
    <3>4. IsPart(q, t) /\ q.part # "shape"
      BY <1>9, <3>3, NamedParts
    <3>5. GetPath(SetPath(FactAt(c, e), e, Unknown), q) = GetPath(FactAt(c, e), q)
      BY <1>1, <1>9, <3>4, NothingSaid
    <3> QED
      BY <1>8, <1>9, <2>1, <3>2, <3>3, <3>5
  <2>2. CASE ~ (q.side = e.side /\ q.ix = e.ix)
    BY <1>8, <1>9, <2>2
  <2> QED
    BY <2>1, <2>2
<1>10. ~ IsShape(e) /\ v = Unknown /\ old = Unknown => Same(full, c, d)
  BY <1>9 DEF Same
<1> QED
  BY <1>8, <1>10 DEF d

(* A division that is exact. *)
LEMMA ExactNat ==
  ASSUME NEW a \in Nat, NEW b \in Nat, b # 0
  PROVE  (b * a) \div b = a
<1> DEFINE q == (b * a) \div b
           r == (b * a) % b
<1>1. b * a \in Int
  OBVIOUS
<1>2. q \in Int /\ r \in Int /\ b * a = b * q + r /\ 0 <= r /\ r < b
  OBVIOUS
<1> HIDE DEF q, r
<1>3. b * (a - q) = r
  BY <1>2
<1>4. ~ (a - q >= 1)
  <2> SUFFICES ASSUME a - q >= 1 PROVE FALSE
    OBVIOUS
  <2>1. b * (a - q) >= b
    BY <1>2
  <2> QED
    BY <1>2, <1>3, <2>1
<1>5. ~ (a - q <= - 1)
  <2> SUFFICES ASSUME a - q <= - 1 PROVE FALSE
    OBVIOUS
  <2>1. b * (a - q) <= - b
    BY <1>2
  <2> QED
    BY <1>2, <1>3, <2>1
<1>6. q = a
  BY <1>2, <1>4, <1>5
<1> QED
  BY <1>6 DEF q

LEMMA ExactQuotient ==
  ASSUME NEW b \in Int, NEW y \in Int, b # 0
  PROVE  (IF (b * y < 0) # (b < 0) THEN - (Abs(b * y) \div Abs(b)) ELSE Abs(b * y) \div Abs(b)) = y
<1> DEFINE m == IF b < 0 THEN - b ELSE b
           n == IF y < 0 THEN - y ELSE y
<1>1. m \in Nat /\ n \in Nat /\ m # 0
  OBVIOUS
<1>2. Abs(b) = m
  BY DEF Abs
<1>3. Abs(b * y) = m * n
  <2>1. CASE b < 0 /\ y < 0
    <3>1. b * y > 0 /\ m * n = b * y
      BY <2>1
    <3> QED
      BY <3>1 DEF Abs
  <2>2. CASE b < 0 /\ y >= 0
    <3>1. b * y <= 0 /\ m * n = - (b * y)
      BY <2>2
    <3> QED
      BY <3>1 DEF Abs
  <2>3. CASE b > 0 /\ y < 0
    <3>1. b * y < 0 /\ m * n = - (b * y)
      BY <2>3
    <3> QED
      BY <3>1 DEF Abs
  <2>4. CASE b > 0 /\ y >= 0
    <3>1. b * y >= 0 /\ m * n = b * y
      BY <2>4
    <3> QED
      BY <3>1 DEF Abs
  <2> QED
    BY <2>1, <2>2, <2>3, <2>4
<1>4. (m * n) \div m = n
  BY <1>1, ExactNat
<1>5. Abs(b * y) \div Abs(b) = n
  BY <1>2, <1>3, <1>4
<1>6. y # 0 => ((b * y < 0) # (b < 0)) = (y < 0)
  <2>1. CASE b < 0 /\ y < 0
    BY <2>1
  <2>2. CASE b < 0 /\ y > 0
    BY <2>2
  <2>3. CASE b > 0 /\ y < 0
    BY <2>3
  <2>4. CASE b > 0 /\ y > 0
    BY <2>4
  <2> QED
    BY <2>1, <2>2, <2>3, <2>4
<1>7. y = 0 => n = 0
  OBVIOUS
<1> DEFINE k == Abs(b * y) \div Abs(b)
           s == (b * y < 0) # (b < 0)
<1>8. k = n /\ (y # 0 => s = (y < 0)) /\ s \in BOOLEAN
  BY <1>5, <1>6
<1> HIDE DEF k, s
<1>9. (IF s THEN - k ELSE k) = y
  BY <1>7, <1>8
<1> QED
  BY <1>9 DEF k, s

LEMMA SetTermTrue ==
  ASSUME NEW ins, NEW outs, AreTensors(ins), AreTensors(outs), NEW c, IsTrueContext(c, ins, outs), c.ok,
         NEW e, MeansOne(AllOf(ins, outs), e), ~ IsShape(e),
         NEW v, e.is = "const" \/ Partly(v, Term(AllOf(ins, outs), e))
  PROVE  LET d == SetTerm(c, e, v)
         IN  /\ IsTrueContext(d, ins, outs) /\ d.ok /\ Learns(ins, outs, c, d)
             /\ v = Unknown /\ Term(c, e) = Unknown => Same(AllOf(ins, outs), c, d)
<1> DEFINE full == AllOf(ins, outs)
<1>1. CASE e.is = "const"
  <2>1. SetTerm(c, e, v) = c
    BY <1>1 DEF SetTerm
  <2> QED
    BY <2>1, LearnsItself DEF Same
<1>2. CASE Names(full, e)
  <2>1. e.is = "path"
    BY <1>2 DEF Names
  <2>2. SetTerm(c, e, v) = SetVariable(c, e, v)
    BY <2>1 DEF SetTerm
  <2>3. Term(c, e) = GetPath(FactAt(c, e), e) /\ Term(full, e) = GetPath(FactAt(full, e), e)
    BY <1>2, PathsAreTrue
  <2>4. Knows(IsShape(e), v, GetPath(FactAt(full, e), e))
    BY <2>1, <2>3 DEF Knows
  <2> QED
    BY <1>2, <2>2, <2>3, <2>4, SetVariableTrue
<1>3. CASE e.is = "scaled" /\ e.by \in Int /\ Names(full, e.item) /\ ~ IsShape(e.item)
           /\ GetPath(FactAt(full, e.item), e.item)[1] \in Int
  <2> DEFINE p == e.item
             x == GetPath(FactAt(full, p), p)
             w == GetPath(FactAt(c, p), p)
             d == SetScaled(c, e, v)
  <2>1. SetTerm(c, e, v) = d
    BY <1>3 DEF SetTerm
  <2>2. Partly(w, x) /\ x = Only(x[1]) /\ x[1] \in Int
    BY <1>3, PathsAreTrue, ConstantsDiffer DEF Knows
  <2>3. /\ Term(full, e) = Only(e.by * x[1])
        /\ Term(c, e) = IF IsConcrete(w) THEN Only(e.by * w[1]) ELSE w
    BY <1>3, <2>2, ConstantsDiffer DEF Term
  <2>4. Partly(v, Only(e.by * x[1]))
    BY <1>3, <2>3
  <2> HIDE DEF x, w
  <2>5. CASE v = Unknown
    <3>1. d = SetVariable(c, p, Unknown)
      BY <2>5 DEF SetScaled
    <3>2. Knows(IsShape(p), Unknown, x)
      BY <1>3 DEF Knows, Partly
    <3>3. Term(c, e) = Unknown => w = Unknown
      BY <2>2, <2>3, ConstantsDiffer DEF Partly
    <3> HIDE DEF d, p
    <3>4. /\ IsTrueContext(d, ins, outs) /\ d.ok /\ Learns(ins, outs, c, d)
          /\ w = Unknown => Same(full, c, d)
      BY <1>3, <3>1, <3>2, SetVariableTrue DEF w, x, p
    <3> QED
      BY <2>1, <3>3, <3>4
  <2>6. CASE v = Only(e.by * x[1])
    <3>1. v # Unknown /\ v[1] = e.by * x[1]
      BY <2>6, ConstantsDiffer
    <3>2. CASE e.by = 0
      <4>1. e.by * x[1] = 0
        BY <2>2, <3>2
      <4>2. v = Only(0)
        BY <2>6, <4>1
      <4>3. d = c
        BY <3>1, <3>2, <4>2 DEF SetScaled
      <4> QED
        BY <2>1, <3>1, <4>3, LearnsItself
    <3>3. CASE e.by # 0
      <4> DEFINE quotient == IF (v[1] < 0) # (e.by < 0) THEN - (Abs(v[1]) \div Abs(e.by)) ELSE Abs(v[1]) \div Abs(e.by)
      <4>1. quotient = x[1]
        BY <1>3, <2>2, <3>1, <3>3, ExactQuotient
      <4>2. d = SetVariable(c, p, Only(quotient))
        BY <3>1, <3>3 DEF SetScaled
      <4> HIDE DEF quotient
      <4>3. d = SetVariable(c, p, x)
        BY <2>2, <4>1, <4>2
      <4>4. Knows(IsShape(p), x, x)
        BY <1>3 DEF Knows, Partly
      <4> HIDE DEF d, p
      <4>5. IsTrueContext(d, ins, outs) /\ d.ok /\ Learns(ins, outs, c, d)
        BY <1>3, <4>3, <4>4, SetVariableTrue DEF x, p
      <4> QED
        BY <2>1, <3>1, <4>5
    <3> QED
      BY <3>2, <3>3
  <2> QED
    BY <2>4, <2>5, <2>6 DEF Partly
<1> QED
  BY <1>1, <1>2, <1>3 DEF MeansOne

(* What of c is written that d keeps. *)
LEMMA ChangedFlag ==
  ASSUME NEW ins, NEW outs, NEW s, IsTrueContext(s, ins, outs), s.ok,
         NEW d, d = [s EXCEPT !.changed = TRUE]
  PROVE  /\ IsTrueContext(d, ins, outs) /\ d.ok /\ d.inputs = s.inputs /\ d.outputs = s.outputs
         /\ \A q : FactAt(d, q) = FactAt(s, q)
<1>1. s = [inputs |-> s.inputs, outputs |-> s.outputs, ok |-> s.ok, changed |-> s.changed]
  BY DEF IsTrueContext
<1>2. /\ d = [inputs |-> d.inputs, outputs |-> d.outputs, ok |-> d.ok, changed |-> d.changed]
      /\ d.inputs = s.inputs /\ d.outputs = s.outputs /\ d.ok
  BY <1>1
<1>3. IsTrueContext(d, ins, outs)
  BY <1>2 DEF IsTrueContext
<1> QED
  BY <1>2, <1>3 DEF FactAt

LEMMA SetSumTrue ==
  ASSUME NEW ins, NEW outs, AreTensors(ins), AreTensors(outs), NEW c, IsTrueContext(c, ins, outs), c.ok,
         NEW e, Means(AllOf(ins, outs), e), e.is = "sum",
         NEW v, Partly(v, Get(AllOf(ins, outs), e)), v = Unknown => Get(c, e) = Unknown
  PROVE  LET d == SetSum(c, e, v)
         IN  /\ IsTrueContext(d, ins, outs) /\ d.ok /\ Learns(ins, outs, c, d)
             /\ v = Unknown => Same(AllOf(ins, outs), c, d)
<1> DEFINE full == AllOf(ins, outs)
           all == Terms(full, e)
           values == Terms(c, e)
           misses == {i \in DOMAIN values : ~ IsConcrete(values[i])}
           one == CHOOSE i \in misses : TRUE
           rest == IF v = Unknown THEN Unknown ELSE Only(v[1] - Total(values))
           d == SetSum(c, e, v)
<1>1. /\ IsTuple(e.items) /\ \A i \in DOMAIN e.items : IsNumber(full, e.items[i])
      /\ IsTuple(all) /\ IsTuple(values) /\ Len(all) = Len(e.items) /\ Len(values) = Len(e.items)
      /\ DOMAIN all = DOMAIN e.items /\ DOMAIN values = DOMAIN e.items
      /\ \A k \in DOMAIN e.items : /\ all[k] = Only(all[k][1]) /\ IsConcrete(all[k]) /\ all[k][1] \in Int
                                   /\ Partly(values[k], all[k])
  BY SumTerms
<1>2. \A k \in DOMAIN e.items : all[k] = Term(full, e.items[k]) /\ values[k] = Term(c, e.items[k])
  BY DEF Terms
<1>3. d = CASE Cardinality(misses) > 1 -> c
            [] Cardinality(misses) = 1 -> [SetTerm(c, e.items[one], rest) EXCEPT !.changed = TRUE]
            [] OTHER -> IF v = Only(Total(values)) THEN c ELSE [c EXCEPT !.ok = FALSE]
  BY DEF SetSum
<1>4. /\ Get(full, e) = IF Clash \in Range(all) THEN Clash ELSE IF Unknown \in Range(all) THEN Unknown ELSE Only(Total(all))
      /\ Get(c, e) = IF Clash \in Range(values) THEN Clash ELSE IF Unknown \in Range(values) THEN Unknown ELSE Only(Total(values))
  BY DEF Get
<1>5. IsFiniteSet(misses)
  <2>1. misses \subseteq 1 .. Len(e.items) /\ Len(e.items) \in Nat
    BY <1>1, Tuples
  <2>2. IsFiniteSet(1 .. Len(e.items))
    BY <2>1, FS_Interval
  <2> HIDE DEF misses
  <2> QED
    BY <2>1, <2>2, FS_Subset
<1> HIDE DEF all, values, d
<1>6. Get(full, e) = Only(Total(all))
  <2>1. \A k \in DOMAIN all : all[k] # Clash /\ all[k] # Unknown
    BY <1>1, ConstantsDiffer
  <2> QED
    BY <1>4, <2>1 DEF Range
<1>7. \A k \in DOMAIN e.items : k \in misses => values[k] = Unknown
  BY <1>1 DEF Partly
<1>8. \A k \in DOMAIN e.items : k \notin misses => values[k] = all[k]
  BY <1>1, ConstantsDiffer DEF Partly
<1>9. \A k \in DOMAIN e.items : k \in misses => ~ IsConcrete(values[k])
  OBVIOUS
<1>10. /\ Total(all) \in Int /\ Total(values) \in Int
       /\ misses = {} => Total(all) = Total(values)
       /\ \A i \in DOMAIN all : misses = {i} => Total(all) = Total(values) + all[i][1]
  <2>1. /\ IsTuple(all) /\ IsTuple(values) /\ Len(all) = Len(values)
        /\ \A k \in DOMAIN all : IsConcrete(all[k]) /\ all[k][1] \in Int
        /\ \A k \in DOMAIN all : k \in misses => ~ IsConcrete(values[k])
        /\ \A k \in DOMAIN all : k \notin misses => values[k] = all[k]
    BY <1>1, <1>8, <1>9
  <2> HIDE DEF misses, full, one, rest
  <2> QED
    BY <2>1, TotalRest, ZenonT(30)
<1>11. Cardinality(misses) \in Nat /\ (Cardinality(misses) = 0 <=> misses = {})
  BY <1>5, FS_CardinalityType, FS_EmptySet
<1>12. CASE Cardinality(misses) > 1
  <2>1. d = c
    BY <1>3, <1>12
  <2> QED
    BY <2>1, LearnsItself DEF d, Same
<1>13. CASE Cardinality(misses) = 1
  <2>1. misses = {one}
    <3>1. \E i : misses = {i}
      BY <1>5, <1>13, FS_Singleton
    <3> QED
      BY <3>1
  <2>2. one \in DOMAIN e.items
    BY <1>1, <2>1
  <2> DEFINE s == SetTerm(c, e.items[one], rest)
  <2>3. d = [s EXCEPT !.changed = TRUE]
    BY <1>3, <1>13
  <2>4. Total(all) = Total(values) + all[one][1] /\ all[one][1] \in Int /\ all[one] = Only(all[one][1])
    BY <1>1, <1>10, <2>1, <2>2
  <2>5. Partly(rest, all[one])
    <3>1. CASE v = Unknown
      BY <3>1 DEF Partly
    <3>2. CASE v # Unknown
      <4>1. v = Only(Total(all))
        BY <1>6, <3>2 DEF Partly
      <4>2. v[1] - Total(values) = all[one][1]
        BY <1>10, <2>4, <4>1, ConstantsDiffer
      <4>3. rest = Only(all[one][1])
        BY <3>2, <4>2
      <4> QED
        BY <2>4, <4>3 DEF Partly
    <3> QED
      BY <3>1, <3>2
  <2>6. v = Unknown => rest = Unknown /\ Term(c, e.items[one]) = Unknown
    BY <1>2, <1>7, <2>1, <2>2
  <2>7. MeansOne(full, e.items[one]) /\ ~ IsShape(e.items[one]) /\ Partly(rest, Term(full, e.items[one]))
    BY <1>1, <1>2, <2>2, <2>5 DEF IsNumber
  <2> HIDE DEF one, misses, rest
  <2> DEFINE term == e.items[one]
  <2>7a. MeansOne(full, term) /\ ~ IsShape(term) /\ Partly(rest, Term(full, term)) /\ s = SetTerm(c, term, rest)
    BY <2>7
  <2> HIDE DEF term, s
  <2>8. /\ IsTrueContext(s, ins, outs) /\ s.ok /\ Learns(ins, outs, c, s)
        /\ rest = Unknown /\ Term(c, term) = Unknown => Same(full, c, s)
    BY <2>7a, SetTermTrue
  <2> USE DEF term
  <2> HIDE DEF s
  <2>9. /\ IsTrueContext(d, ins, outs) /\ d.ok /\ d.inputs = s.inputs /\ d.outputs = s.outputs
        /\ \A q : FactAt(d, q) = FactAt(s, q)
    BY <2>3, <2>8, ChangedFlag
  <2>10. v = Unknown => Same(full, c, d)
    BY <2>6, <2>8, <2>9 DEF Same
  <2> QED
    BY <2>8, <2>9, <2>10 DEF d, Learns
<1>14. CASE misses = {}
  <2>1. d = IF v = Only(Total(values)) THEN c ELSE [c EXCEPT !.ok = FALSE]
    BY <1>3, <1>11, <1>14
  <2>2. Total(all) = Total(values)
    BY <1>10, <1>14
  <2>3. \A k \in DOMAIN values : values[k] # Unknown /\ values[k] # Clash
    BY <1>1, <1>8, <1>14, ConstantsDiffer
  <2>4. Get(c, e) = Only(Total(values))
    BY <1>4, <2>3 DEF Range
  <2>5. v = Only(Total(values))
    BY <1>6, <2>2, <2>4, ConstantsDiffer DEF Partly
  <2>6. d = c
    BY <2>1, <2>5
  <2> QED
    BY <2>6, LearnsItself DEF d, Same
<1> QED
  BY <1>11, <1>12, <1>13, <1>14

(* Setting what is true of an item keeps all that is true. *)
LEMMA SetTrue ==
  ASSUME NEW ins, NEW outs, AreTensors(ins), AreTensors(outs), NEW c, IsTrueContext(c, ins, outs), c.ok,
         NEW shapes \in BOOLEAN, NEW x, NEW e, IsOf(AllOf(ins, outs), e, x, shapes),
         NEW v, Knows(shapes, v, x), ~ shapes /\ v = Unknown => Get(c, e) = Unknown
  PROVE  LET d == Set(c, e, v)
         IN  /\ IsTrueContext(d, ins, outs) /\ d.ok /\ Learns(ins, outs, c, d)
             /\ ~ shapes /\ v = Unknown => Same(AllOf(ins, outs), c, d)
<1> DEFINE full == AllOf(ins, outs)
<1>1. CASE e.is = "const"
  <2>1. Set(c, e, v) = c
    BY <1>1 DEF Set, SetTerm
  <2> QED
    BY <2>1, LearnsItself DEF Same
<1>2. CASE e.is # "const" /\ shapes
  <2>1. Names(full, e) /\ IsShape(e) /\ Get(full, e) = x
    BY <1>2 DEF IsOf
  <2>2. Set(c, e, v) = SetVariable(c, e, v)
    BY <2>1 DEF Set, SetTerm, IsShape
  <2>3. Knows(IsShape(e), v, GetPath(FactAt(full, e), e))
    BY <1>2, <2>1, PathsAreTrue DEF Knows
  <2> QED
    BY <1>2, <2>1, <2>2, <2>3, SetVariableTrue
<1>3. CASE e.is # "const" /\ ~ shapes
  <2>1. Means(full, e) /\ ~ IsShape(e) /\ Get(full, e) = x /\ Partly(v, x)
    BY <1>3 DEF IsOf, Knows
  <2>2. CASE e.is = "sum"
    <3>1. Set(c, e, v) = SetSum(c, e, v)
      BY <2>2 DEF Set
    <3> QED
      BY <1>3, <2>1, <2>2, <3>1, SetSumTrue
  <2>3. CASE e.is # "sum"
    <3>1. Set(c, e, v) = SetTerm(c, e, v) /\ MeansOne(full, e) /\ Get(full, e) = Term(full, e) /\ Get(c, e) = Term(c, e)
      BY <2>1, <2>3 DEF Set, Get, Means
    <3>2. Partly(v, Term(full, e))
      BY <2>1, <3>1
    <3> QED
      BY <1>3, <2>1, <3>1, <3>2, SetTermTrue
  <2> QED
    BY <2>2, <2>3
<1> QED
  BY <1>1, <1>2, <1>3

(* An item is the same where nothing was learnt. *)
LEMMA GetSame ==
  ASSUME NEW ins, NEW outs, AreTensors(ins), AreTensors(outs),
         NEW c, IsTrueContext(c, ins, outs), NEW d, IsTrueContext(d, ins, outs), Same(AllOf(ins, outs), c, d),
         NEW e, Means(AllOf(ins, outs), e), ~ IsShape(e)
  PROVE  Get(d, e) = Get(c, e)
<1> DEFINE full == AllOf(ins, outs)
<1>1. ASSUME NEW q, MeansOne(full, q), ~ IsShape(q)
      PROVE  Term(d, q) = Term(c, q)
  <2>1. CASE q.is = "const"
    BY <2>1 DEF Term
  <2>2. CASE Names(full, q)
    <3>1. Term(c, q) = GetPath(FactAt(c, q), q) /\ Term(d, q) = GetPath(FactAt(d, q), q)
      BY <2>2, PathsAreTrue
    <3> QED
      BY <1>1, <2>2, <3>1 DEF Same
  <2>3. CASE q.is = "scaled" /\ Names(full, q.item) /\ ~ IsShape(q.item)
    <3>1. GetPath(FactAt(d, q.item), q.item) = GetPath(FactAt(c, q.item), q.item)
      BY <2>3 DEF Same
    <3> QED
      BY <2>3, <3>1 DEF Term
  <2> QED
    BY <1>1, <2>1, <2>2, <2>3 DEF MeansOne
<1>2. CASE MeansOne(full, e)
  <2>1. e.is # "sum"
    BY <1>2 DEF MeansOne, Names
  <2> QED
    BY <1>1, <1>2, <2>1 DEF Get
<1>3. CASE e.is = "sum" /\ \A i \in DOMAIN e.items : IsNumber(full, e.items[i])
  <2>1. \A i \in DOMAIN e.items : Term(d, e.items[i]) = Term(c, e.items[i])
    BY <1>1, <1>3 DEF IsNumber
  <2>2. Terms(d, e) = Terms(c, e)
    BY <2>1 DEF Terms
  <2> QED
    BY <1>3, <2>2 DEF Get
<1> QED
  BY <1>2, <1>3 DEF Means

(* What is known of a shape that is there. *)
LEMMA ShapesAreTrue ==
  ASSUME NEW ins, NEW outs, AreTensors(ins), AreTensors(outs), NEW c, IsTrueContext(c, ins, outs),
         NEW e, Names(AllOf(ins, outs), e), IsShape(e)
  PROVE  LET s == Get(c, e)
             x == Get(AllOf(ins, outs), e)
         IN  /\ IsShapeFactoid(s) /\ PartlyShape(s, x) /\ IsShapeFactoid(x) /\ ~ x.open
             /\ x = GetPath(FactAt(AllOf(ins, outs), e), e)
<1> DEFINE full == AllOf(ins, outs)
           s == GetPath(FactAt(c, e), e)
           x == GetPath(FactAt(full, e), e)
           t == TensorAt(ins, outs, e)
<1>1. Get(c, e) = s /\ Get(full, e) = x
  BY PathsAreTrue
<1>2. x = FactOf(t).shape
  BY PathsAreTrue
<1>3. IsTuple(t.shape)
  BY NamedParts
<1>4. IsShapeFactoid(s) /\ PartlyShape(s, x)
  BY PathsAreTrue DEF Knows
<1> HIDE DEF s, x, t
<1>5. IsShapeFactoid(x) /\ ~ x.open
  BY <1>2, <1>3, AllOfATensor
<1> QED
  BY <1>1, <1>4, <1>5 DEF x

(* What the items of a rule that holds are, together. *)
LEMMA UnifiedTrue ==
  ASSUME NEW ins, NEW outs, AreTensors(ins), AreTensors(outs), NEW c, IsTrueContext(c, ins, outs),
         NEW items, Holds(AllOf(ins, outs), items)
  PROVE  LET v      == Unified(c, items)
             shapes == IsShape(items[1])
         IN  /\ IsTuple(items) /\ items # <<>> /\ ~ ClashPart(items[1], v)
             /\ \E x : /\ Knows(shapes, v, x)
                       /\ \A i \in DOMAIN items : IsOf(AllOf(ins, outs), items[i], x, shapes)
             /\ ~ shapes /\ v = Unknown => \A i \in DOMAIN items : Get(c, items[i]) = Unknown
<1> DEFINE full   == AllOf(ins, outs)
           v      == Unified(c, items)
           shapes == IsShape(items[1])
           parts  == {Get(c, items[i]) : i \in DOMAIN items}
<1>1. IsTuple(items) /\ items # <<>>
  BY DEF Holds
<1>2. PICK x : /\ shapes \/ x = Only(x[1])
               /\ \A i \in DOMAIN items : IsOf(full, items[i], x, shapes)
  BY DEF Holds
<1>3. 1 \in DOMAIN items
  BY <1>1, Tuples
<1>4. CASE shapes
  <2>1. ASSUME NEW i \in DOMAIN items
        PROVE  IsShapeFactoid(Get(c, items[i])) /\ PartlyShape(Get(c, items[i]), x)
    <3>1. IsOf(full, items[i], x, TRUE)
      BY <1>2, <1>4
    <3>2. CASE items[i].is = "const"
      <4>1. Get(c, items[i]) = items[i].v
        BY <3>2 DEF Get, Term
      <4> QED
        BY <3>1, <3>2, <4>1 DEF IsOf
    <3>3. CASE items[i].is # "const"
      <4> DEFINE e == items[i]
      <4>1. Names(full, e) /\ IsShape(e) /\ Get(full, e) = x
        BY <3>1, <3>3 DEF IsOf
      <4> HIDE DEF e
      <4>2. IsShapeFactoid(Get(c, e)) /\ PartlyShape(Get(c, e), Get(full, e))
        BY <4>1, ShapesAreTrue
      <4> QED
        BY <4>1, <4>2 DEF e
    <3> QED
      BY <3>2, <3>3
  <2>2. Names(full, items[1]) /\ Get(full, items[1]) = x
    BY <1>2, <1>3, <1>4 DEF IsOf, IsShape
  <2>4. IsShapeFactoid(x)
    BY <1>4, <2>2, ShapesAreTrue
  <2>5. v = UnifyShapes(parts)
    BY <1>4 DEF Unified
  <2>6. parts # {} /\ \A s \in parts : IsShapeFactoid(s) /\ PartlyShape(s, x)
    BY <1>3, <2>1
  <2> HIDE DEF v, parts
  <2>7. IsShapeFactoid(v) /\ PartlyShape(v, x)
    BY <2>4, <2>5, <2>6, UnifyShapesPartly
  <2>8. x = GetPath(FactAt(full, items[1]), items[1])
    BY <2>2, PathsAreTrue
  <2>9. Knows(IsShape(items[1]), v, GetPath(FactAt(full, items[1]), items[1]))
    BY <1>4, <2>7, <2>8 DEF Knows
  <2>10. ~ ClashPart(items[1], v)
    <3> DEFINE e == items[1]
    <3>1. Names(full, e) /\ Knows(IsShape(e), v, GetPath(FactAt(full, e), e))
      BY <2>2, <2>9
    <3> HIDE DEF e, v
    <3> QED
      BY <3>1, KnownIsNoClash DEF e
  <2>11. Knows(shapes, v, x)
    BY <1>4, <2>7 DEF Knows
  <2> QED
    BY <1>1, <1>2, <1>4, <2>10, <2>11 DEF v
<1>5. CASE ~ shapes
  <2>1. ASSUME NEW i \in DOMAIN items
        PROVE  Partly(Get(c, items[i]), x)
    <3> DEFINE e == items[i]
    <3>1. IsOf(full, e, x, shapes)
      BY <1>2
    <3> HIDE DEF e
    <3>2. Means(full, e) /\ ~ IsShape(e) /\ (Get(full, e) = x \/ (e.is = "const" /\ e.v = Unknown))
      BY <1>5, <3>1 DEF IsOf
    <3>3. e.is = "const" => Get(c, e) = e.v /\ Get(full, e) = e.v
      BY <3>2, GetIsTrue
    <3>4. e.is # "const" => Partly(Get(c, e), Get(full, e))
      BY <3>2, GetIsTrue
    <3>5. Partly(Get(c, e), x)
      BY <3>2, <3>3, <3>4 DEF Partly
    <3> QED
      BY <3>5 DEF e
  <2>2. v = UnifyAll(parts)
    BY <1>5 DEF Unified
  <2>3. \A f \in parts : Partly(f, x)
    BY <2>1
  <2>4. v = IF x \in parts THEN x ELSE Unknown
    <3> HIDE DEF v, parts
    <3> QED
      BY <2>2, <2>3, UnifyAllPartly
  <2>5. x # Unknown /\ x # Clash
    BY <1>2, <1>5, ConstantsDiffer
  <2>6. v # Clash /\ Partly(v, x)
    BY <2>4, <2>5, ConstantsDiffer DEF Partly
  <2>7. ASSUME v = Unknown, NEW i \in DOMAIN items
        PROVE  Get(c, items[i]) = Unknown
    <3>1. x \notin parts
      BY <2>4, <2>5, <2>7
    <3> QED
      BY <2>1, <2>7, <3>1 DEF Partly
  <2>8. Knows(shapes, v, x)
    BY <1>5, <2>6 DEF Knows
  <2>9. ~ ClashPart(items[1], v)
    BY <1>5, <2>6 DEF ClashPart
  <2> QED
    BY <1>1, <1>2, <1>5, <2>7, <2>8, <2>9
<1> QED
  BY <1>4, <1>5

(* The items of a closure are there. *)
LEMMA NothingMissing ==
  ASSUME NEW ins, NEW outs, AreTensors(ins), AreTensors(outs), NEW c, IsTrueContext(c, ins, outs),
         NEW rule, \A i \in DOMAIN rule.items : Reads(AllOf(ins, outs), rule.items[i])
  PROVE  ~ Missing(c, rule)
<1> DEFINE full == AllOf(ins, outs)
<1>1. ASSUME NEW i \in DOMAIN rule.items
      PROVE  ~ ClashPart(rule.items[i], Get(c, rule.items[i]))
  <2> DEFINE e == rule.items[i]
  <2>1. Reads(full, e)
    OBVIOUS
  <2> HIDE DEF e
  <2>2. CASE IsShape(e)
    <3>1. Names(full, e)
      BY <2>1, <2>2 DEF Reads
    <3>2. Get(c, e) = GetPath(FactAt(c, e), e) /\ Knows(IsShape(e), GetPath(FactAt(c, e), e), GetPath(FactAt(full, e), e))
      BY <3>1, PathsAreTrue
    <3> QED
      BY <3>1, <3>2, KnownIsNoClash DEF e
  <2>3. CASE ~ IsShape(e)
    <3>1. Means(full, e) /\ Get(full, e) = Only(Get(full, e)[1])
      BY <2>1, <2>3 DEF Reads
    <3>2. Partly(Get(c, e), Get(full, e))
      BY <2>3, <3>1, GetIsTrue DEF Partly
    <3>3. Get(c, e) # Clash
      BY <3>1, <3>2, ConstantsDiffer DEF Partly
    <3> QED
      BY <2>3, <3>3 DEF ClashPart, e
  <2> QED
    BY <2>2, <2>3
<1> QED
  BY <1>1 DEF Missing

(* What is seen is some of what there is to see, all of it for a given rule. *)
LEMMA SeenIsTrue ==
  ASSUME NEW ins, NEW outs, AreTensors(ins), AreTensors(outs), NEW c, IsTrueContext(c, ins, outs),
         NEW rule, rule.kind \in {"given", "with"}, IsTuple(rule.items), rule.kind = "with" => Len(rule.items) = 1,
         \A i \in DOMAIN rule.items : Reads(AllOf(ins, outs), rule.items[i]), Triggered(c, rule)
  PROVE  [i \in DOMAIN rule.items |->
             IF rule.kind = "with" THEN Get(c, rule.items[i]) ELSE ValueOf(rule.items[i], Get(c, rule.items[i]))]
             \in SeenOf(AllOf(ins, outs), rule)
<1> DEFINE full == AllOf(ins, outs)
<1>1. ASSUME NEW i \in DOMAIN rule.items, IsShape(rule.items[i])
      PROVE  /\ IsShapeFactoid(Get(c, rule.items[i])) /\ IsShapeFactoid(Get(full, rule.items[i]))
             /\ PartlyShape(Get(c, rule.items[i]), Get(full, rule.items[i]))
             /\ ~ Get(full, rule.items[i]).open
  <2> DEFINE e == rule.items[i]
  <2>1. Names(full, e) /\ IsShape(e)
    BY <1>1 DEF Reads
  <2> HIDE DEF e
  <2> QED
    BY <2>1, ShapesAreTrue DEF e
<1>2. ASSUME NEW i \in DOMAIN rule.items, ~ IsShape(rule.items[i])
      PROVE  Partly(Get(c, rule.items[i]), Get(full, rule.items[i]))
  BY <1>2, GetIsTrue DEF Reads, Partly
<1>3. CASE rule.kind = "given"
  <2>1. ASSUME NEW i \in DOMAIN rule.items
        PROVE  Get(c, rule.items[i]) = Get(full, rule.items[i])
    <3>1. CASE IsShape(rule.items[i])
      <4> DEFINE s == Get(c, rule.items[i])
                 x == Get(full, rule.items[i])
      <4>1. KnownShape(s) /\ IsShapeFactoid(s) /\ IsShapeFactoid(x) /\ PartlyShape(s, x) /\ ~ x.open
        BY <1>1, <1>3, <3>1 DEF Triggered
      <4> HIDE DEF s, x
      <4>2. /\ s.open = FALSE /\ x.open = FALSE /\ IsTuple(s.dims) /\ IsTuple(x.dims) /\ Len(s.dims) = Len(x.dims)
            /\ \A k \in DOMAIN s.dims : IsConcrete(s.dims[k]) /\ Partly(s.dims[k], x.dims[k])
        BY <4>1 DEF KnownShape, PartlyShape, IsShapeFactoid
      <4>3. \A k \in 1 .. Len(s.dims) : s.dims[k] = x.dims[k]
        BY <4>2, Tuples, ConstantsDiffer DEF Partly
      <4>4. s.dims = x.dims
        BY <4>2, <4>3, TuplesEqual
      <4>5. s = x
        BY <4>1, <4>2, <4>4 DEF IsShapeFactoid
      <4> QED
        BY <4>5 DEF s, x
    <3>2. CASE ~ IsShape(rule.items[i])
      <4>1. IsConcrete(Get(c, rule.items[i]))
        BY <1>3, <3>2 DEF Triggered
      <4> QED
        BY <1>2, <3>2, <4>1, ConstantsDiffer DEF Partly
    <3> QED
      BY <3>1, <3>2
  <2>2. [i \in DOMAIN rule.items |->
           IF rule.kind = "with" THEN Get(c, rule.items[i]) ELSE ValueOf(rule.items[i], Get(c, rule.items[i]))]
        = [i \in DOMAIN rule.items |-> ValueOf(rule.items[i], Get(full, rule.items[i]))]
    BY <1>3, <2>1
  <2> QED
    BY <1>3, <2>2 DEF SeenOf
<1>4. CASE rule.kind = "with"
  <2> DEFINE f == Get(c, rule.items[1])
             x == Get(full, rule.items[1])
  <2>1. DOMAIN rule.items = 1 .. 1
    BY <1>4, Tuples
  <2>2. [i \in DOMAIN rule.items |->
           IF rule.kind = "with" THEN Get(c, rule.items[i]) ELSE ValueOf(rule.items[i], Get(c, rule.items[i]))]
        = <<f>>
    BY <1>4, <2>1
  <2>3. CASE IsShape(rule.items[1])
    <3>1. IsShapeFactoid(f) /\ IsShapeFactoid(x) /\ PartlyShape(f, x)
      BY <1>1, <2>1, <2>3
    <3> DEFINE n == Len(f.dims)
               known == {k \in 1 .. n : f.dims[k] # Unknown}
               g == [open |-> f.open, dims |-> [k \in 1 .. n |-> IF k \in known THEN x.dims[k] ELSE Unknown]]
    <3> HIDE DEF f, x
    <3>2. n \in Nat /\ Len(x.dims) \in Nat /\ DOMAIN f.dims = 1 .. n /\ DOMAIN x.dims = 1 .. Len(x.dims) /\ f.open \in BOOLEAN
          /\ f = [open |-> f.open, dims |-> f.dims] /\ f.dims = [k \in 1 .. n |-> f.dims[k]]
      BY <3>1, Tuples DEF IsShapeFactoid, IsTuple
    <3>3. n <= Len(x.dims) /\ \A k \in 1 .. n : Partly(f.dims[k], x.dims[k])
      BY <3>1, <3>2 DEF PartlyShape
    <3>4. \A k \in 1 .. n : f.dims[k] = IF k \in known THEN x.dims[k] ELSE Unknown
      BY <3>3 DEF Partly
    <3>5. f.dims = [k \in 1 .. n |-> IF k \in known THEN x.dims[k] ELSE Unknown]
      <4> HIDE DEF known
      <4> QED
        BY <3>2, <3>4
    <3>6. f = g
      BY <3>2, <3>5
    <3>7. n \in 0 .. Len(x.dims) /\ known \in SUBSET DOMAIN x.dims /\ f.open \in BOOLEAN
      BY <3>2, <3>3
    <3>8. f \in PartsOfShape(x)
      <4>1. g = PartOfShape(x, f.open, n, known)
        BY DEF PartOfShape
      <4> HIDE DEF known, n, g
      <4>5. g \in PartsOfShape(x)
        BY <3>1, <3>6, <3>7, <4>1 DEF PartsOfShape
      <4> QED
        BY <3>6, <4>5
    <3> QED
      BY <1>4, <2>2, <2>3, <3>8 DEF SeenOf, f, x
  <2>4. CASE ~ IsShape(rule.items[1])
    <3>1. f \in {Unknown, x}
      BY <1>2, <2>1, <2>4 DEF Partly
    <3> QED
      BY <1>4, <2>2, <2>4, <3>1 DEF SeenOf
  <2> QED
    BY <2>3, <2>4
<1> QED
  BY <1>3, <1>4

-----------------------------------------------------------------------------
(* The invariant: the facts of the model and of the solver are true of the *)
(* tensors, and the rules that are in the solver say so too.               *)

RulesKept(full, calls, rs) ==
  /\ IsTuple(rs)
  /\ \A i \in DOMAIN rs : rs[i] = [rule |-> rs[i].rule, used |-> rs[i].used] /\ Keeps(full, calls, rs[i].rule)

ItemsKept(full, c, items, v) ==
  /\ IsTuple(items)
  /\ items # <<>> =>
        \E x : \E shapes \in BOOLEAN :
           /\ \A i \in DOMAIN items : IsOf(full, items[i], x, shapes)
           /\ Knows(shapes, v, x)
           /\ ~ shapes /\ v = Unknown => \A i \in DOMAIN items : Get(c, items[i]) = Unknown

Here(p, n) == AllOf(Incoming(p, n), p.truth[n])

Solves(p, n, c, rs, ad, items, v) ==
  /\ IsTrueContext(c, Incoming(p, n), p.truth[n]) /\ c.ok
  /\ ItemsKept(Here(p, n), c, items, v)
  /\ \E calls : /\ Answers(Here(p, n), p.nodes[n].op, Len(p.nodes[n].inputs), calls)
                /\ RulesKept(Here(p, n), calls, rs)
                /\ KeepsAll(Here(p, n), calls, ad)

TrueFacts(p, f) ==
  /\ DOMAIN f = DOMAIN p.nodes
  /\ \A n \in DOMAIN p.nodes : DOMAIN f[n] = DOMAIN p.truth[n] /\ \A o \in DOMAIN p.truth[n] : IsTrue(f[n][o], p.truth[n][o])

(* What every step keeps, of a problem that is true: the facts are, nothing has *)
(* failed, and the solver has only true things left to do.                      *)
TrueInv ==
  /\ problem \in Problems
  /\ problem.truth # <<>> =>
        /\ TrueFacts(problem, facts)
        /\ ~ failed
        /\ toVisit \subseteq NodeIds
        /\ phase \in {"pick", "solve", "end"}
        /\ phase # "solve" => node = 0 /\ ctx.ok
        /\ phase = "solve" =>
              /\ node \in NodeIds
              /\ rix \in Nat \ {0}
              /\ Solves(problem, node, ctx, rules, added, todo, value)

LEMMA TupleConcat ==
  ASSUME NEW s, NEW t, IsTuple(s), IsTuple(t)
  PROVE  /\ IsTuple(s \o t) /\ DOMAIN (s \o t) = 1 .. Len(s) + Len(t)
         /\ \A i \in DOMAIN (s \o t) : IF i <= Len(s) THEN i \in DOMAIN s /\ (s \o t)[i] = s[i]
                                       ELSE i - Len(s) \in DOMAIN t /\ (s \o t)[i] = t[i - Len(s)]
<1> DEFINE S == {s[k] : k \in DOMAIN s} \cup {t[k] : k \in DOMAIN t}
<1>1. s \in Seq(S) /\ t \in Seq(S) /\ DOMAIN s = 1 .. Len(s) /\ DOMAIN t = 1 .. Len(t) /\ Len(s) \in Nat /\ Len(t) \in Nat
  <2>1. /\ s = [k \in 1 .. Len(s) |-> s[k]] /\ Len(s) \in Nat /\ DOMAIN s = 1 .. Len(s)
        /\ t = [k \in 1 .. Len(t) |-> t[k]] /\ Len(t) \in Nat /\ DOMAIN t = 1 .. Len(t)
    BY DEF IsTuple
  <2>2. s \in [1 .. Len(s) -> S] /\ t \in [1 .. Len(t) -> S]
    BY <2>1
  <2> HIDE DEF S
  <2> QED
    BY <2>1, <2>2, SeqDef
<1> HIDE DEF S
<1>2. /\ s \o t \in Seq(S) /\ Len(s \o t) = Len(s) + Len(t)
      /\ \A i \in 1 .. Len(s) + Len(t) : (s \o t)[i] = IF i <= Len(s) THEN s[i] ELSE t[i - Len(s)]
  BY <1>1, ConcatProperties
<1>3. IsTuple(s \o t)
  BY <1>2, SeqsAreTuples
<1>4. DOMAIN (s \o t) = 1 .. Len(s) + Len(t)
  BY <1>2, <1>3, Tuples
<1> QED
  BY <1>1, <1>2, <1>3, <1>4

LEMMA TupleTail ==
  ASSUME NEW s, IsTuple(s), Len(s) > 1
  PROVE  IsTuple(Tail(s)) /\ \A i \in DOMAIN Tail(s) : i + 1 \in DOMAIN s /\ Tail(s)[i] = s[i + 1]
<1> DEFINE S == {s[k] : k \in DOMAIN s}
<1>1. s \in Seq(S) /\ DOMAIN s = 1 .. Len(s) /\ Len(s) \in Nat
  BY Tuples
<1> HIDE DEF S
<1>2. s # <<>>
  BY <1>1, EmptySeq
<1>3. Tail(s) \in Seq(S) /\ Len(Tail(s)) = Len(s) - 1 /\ \A i \in 1 .. Len(Tail(s)) : Tail(s)[i] = s[i + 1]
  BY <1>1, <1>2, HeadTailProperties
<1>4. IsTuple(Tail(s)) /\ DOMAIN Tail(s) = 1 .. Len(Tail(s))
  BY <1>3, SeqsAreTuples, Tuples
<1> QED
  BY <1>1, <1>3, <1>4

(* What a true problem is made of. *)
LEMMA TrueProblem ==
  ASSUME NEW p \in Problems, Honest(p), p.truth # <<>>, NEW n \in DOMAIN p.nodes
  PROVE  /\ n \in Nat \ {0}
         /\ DOMAIN Incoming(p, n) = DOMAIN p.nodes[n].inputs /\ IsTuple(p.nodes[n].inputs)
         /\ IsTuple(p.truth[n]) /\ p.truth[n] # <<>>
         /\ AreTensors(Incoming(p, n)) /\ AreTensors(p.truth[n])
         /\ \A i \in DOMAIN p.nodes[n].inputs :
               \E m \in DOMAIN p.nodes : \E o \in DOMAIN p.truth[m] :
                  p.nodes[n].inputs[i] = <<m, o>> /\ Incoming(p, n)[i] = p.truth[m][o]
         /\ Stateless(p.nodes[n].op) => WireOf(p.nodes[n].op, Incoming(p, n)) = p.truth[n]
<1>1. Flows(p)
  BY DEF Honest
<1>2. DOMAIN Incoming(p, n) = DOMAIN p.nodes[n].inputs
      /\ \A i \in DOMAIN p.nodes[n].inputs : Incoming(p, n)[i] = TruthOn(p, p.nodes[n].inputs[i])
  BY DEF Incoming
<1>3. /\ n \in Nat \ {0} /\ IsTuple(p.nodes[n].inputs) /\ IsTuple(p.truth[n]) /\ p.truth[n] # <<>>
      /\ Stateless(p.nodes[n].op) => WireOf(p.nodes[n].op, Incoming(p, n)) = p.truth[n]
  BY <1>1 DEF Flows
<1>4. ASSUME NEW i \in DOMAIN p.nodes[n].inputs
      PROVE  \E m \in DOMAIN p.nodes : \E o \in DOMAIN p.truth[m] :
                 p.nodes[n].inputs[i] = <<m, o>> /\ Incoming(p, n)[i] = p.truth[m][o]
  <2>1. PICK m \in DOMAIN p.nodes : \E o \in DOMAIN p.truth[m] : p.nodes[n].inputs[i] = <<m, o>>
    BY <1>1 DEF Flows
  <2>2. PICK o \in DOMAIN p.truth[m] : p.nodes[n].inputs[i] = <<m, o>>
    BY <2>1
  <2>3. Incoming(p, n)[i] = p.truth[m][o]
    BY <1>2, <2>2 DEF TruthOn
  <2> QED
    BY <2>2, <2>3
<1>5. \A m \in DOMAIN p.nodes : \A o \in DOMAIN p.truth[m] : IsTuple(p.truth[m][o].shape)
  BY <1>1 DEF Flows
<1>6. AreTensors(Incoming(p, n)) /\ AreTensors(p.truth[n])
  BY <1>2, <1>4, <1>5 DEF AreTensors
<1> QED
  BY <1>2, <1>3, <1>4, <1>6

LEMMA TrueInitially ==
  ASSUME \A p \in Problems : Honest(p), Init
  PROVE  TrueInv
<1> SUFFICES ASSUME problem.truth # <<>> PROVE TrueInv
  BY DEF Init, TrueInv
<1>1. Flows(problem)
  BY DEF Init, Honest
<1>2. TrueFacts(problem, facts)
  BY <1>1 DEF Init, Flows, TrueFacts, IsTrue
<1> QED
  BY <1>2 DEF Init, TrueInv, NodeIds, Nodes, Idle

(* What TrueInv says of a problem that is true. *)
LEMMA TrueState ==
  ASSUME \A p \in Problems : Honest(p), TrueInv, problem.truth # <<>>
  PROVE  /\ problem \in Problems /\ Honest(problem)
         /\ TrueFacts(problem, facts) /\ ~ failed /\ toVisit \subseteq NodeIds
         /\ phase # "solve" => node = 0 /\ ctx.ok
         /\ phase = "solve" => /\ node \in NodeIds /\ rix \in Nat \ {0}
                               /\ Solves(problem, node, ctx, rules, added, todo, value)
                               /\ IsTrueContext(ctx, Incoming(problem, node), problem.truth[node]) /\ ctx.ok
BY DEF TrueInv, Solves

LEMMA TrueVisit ==
  ASSUME \A p \in Problems : Honest(p), TrueInv, problem.truth # <<>>, Visit
  PROVE  TrueInv'
<1>1. /\ problem \in Problems /\ Honest(problem)
      /\ TrueFacts(problem, facts) /\ ~ failed /\ toVisit \subseteq NodeIds
  BY TrueState
<1>2. PICK n \in toVisit :
          /\ node' = n
          /\ ctx' = [Idle EXCEPT !.inputs = [i \in DOMAIN Nodes[n].inputs |-> FactOn(Nodes[n].inputs[i])],
                                 !.outputs = facts[n]]
          /\ rules' = Fresh(RulesOf(Nodes[n].op, Len(Nodes[n].inputs), Start, <<>>))
  BY DEF Visit
<1>3. /\ added' = <<>> /\ rix' = 1 /\ todo' = <<>> /\ phase' = "solve"
      /\ UNCHANGED <<problem, facts, toVisit, failed>>
  BY DEF Visit, GoToRule
<1> DEFINE ins  == Incoming(problem, n)
           outs == problem.truth[n]
           full == Here(problem, n)
<1>4. n \in NodeIds /\ NodeIds = DOMAIN problem.nodes /\ Nodes = problem.nodes
  BY <1>1 DEF NodeIds, Nodes
<1>5. /\ n \in Nat \ {0}
      /\ DOMAIN ins = DOMAIN problem.nodes[n].inputs /\ IsTuple(problem.nodes[n].inputs)
      /\ \A i \in DOMAIN problem.nodes[n].inputs :
            \E m \in DOMAIN problem.nodes : \E o \in DOMAIN problem.truth[m] :
               problem.nodes[n].inputs[i] = <<m, o>> /\ ins[i] = problem.truth[m][o]
  BY <1>1, <1>4, TrueProblem
<1>6. IsTrueContext(ctx', ins, outs) /\ ctx'.ok
  <2> DEFINE fs == [i \in DOMAIN Nodes[n].inputs |-> FactOn(Nodes[n].inputs[i])]
  <2>1. ctx' = [inputs |-> fs, outputs |-> facts[n], ok |-> TRUE, changed |-> FALSE]
    BY <1>2 DEF Idle
  <2>2. DOMAIN fs = DOMAIN ins
    BY <1>4, <1>5
  <2>3. ASSUME NEW i \in DOMAIN ins
        PROVE  IsTrue(fs[i], ins[i])
    <3>4. i \in DOMAIN problem.nodes[n].inputs /\ fs[i] = FactOn(problem.nodes[n].inputs[i])
      BY <1>4, <1>5, <2>3
    <3> HIDE DEF fs
    <3>0. PICK m \in DOMAIN problem.nodes : \E o \in DOMAIN problem.truth[m] :
             problem.nodes[n].inputs[i] = <<m, o>> /\ ins[i] = problem.truth[m][o]
      BY <1>5
    <3>1. PICK o \in DOMAIN problem.truth[m] :
             problem.nodes[n].inputs[i] = <<m, o>> /\ ins[i] = problem.truth[m][o]
      BY <3>0
    <3>2. fs[i] = facts[m][o]
      BY <3>1, <3>4 DEF FactOn
    <3>3. IsTrue(facts[m][o], problem.truth[m][o])
      BY <1>1 DEF TrueFacts
    <3> QED
      BY <3>1, <3>2, <3>3
  <2>4. DOMAIN facts[n] = DOMAIN outs /\ \A o \in DOMAIN outs : IsTrue(facts[n][o], outs[o])
    BY <1>1, <1>4 DEF TrueFacts
  <2> HIDE DEF fs, ins, outs
  <2>5. /\ ctx'.inputs = fs /\ ctx'.outputs = facts[n] /\ ctx'.ok
        /\ ctx' = [inputs |-> ctx'.inputs, outputs |-> ctx'.outputs, ok |-> ctx'.ok, changed |-> ctx'.changed]
    BY <2>1
  <2> QED
    BY <2>2, <2>3, <2>4, <2>5 DEF IsTrueContext
<1>7. PICK calls : Promises(full, problem.nodes[n].op, Len(problem.nodes[n].inputs), calls)
  BY <1>1, <1>4 DEF Honest, Here
<1>8. RulesKept(full, calls, rules')
  <2> DEFINE new == RulesOf(Nodes[n].op, Len(Nodes[n].inputs), Start, <<>>)
  <2>1. KeepsAll(full, calls, new)
    BY <1>4, <1>7 DEF Promises
  <2> HIDE DEF new, full
  <2>2. rules' = [i \in DOMAIN new |-> [rule |-> new[i], used |-> FALSE]]
    BY <1>2 DEF Fresh, new
  <2>3. DOMAIN new = 1 .. Len(new) /\ Len(new) \in Nat /\ \A i \in DOMAIN new : Keeps(full, calls, new[i])
    BY <2>1, Tuples DEF KeepsAll
  <2>4. IsTuple(rules')
    BY <2>2, <2>3, FunctionsAreTuples
  <2> QED
    BY <2>2, <2>3, <2>4 DEF RulesKept
<1>9. KeepsAll(full, calls, added') /\ ItemsKept(full, ctx', todo', value')
  BY <1>3 DEF KeepsAll, ItemsKept, IsTuple
<1>10. Solves(problem, n, ctx', rules', added', todo', value')
  BY <1>6, <1>7, <1>8, <1>9 DEF Solves, Promises
<1> QED
  BY <1>1, <1>2, <1>3, <1>4, <1>6, <1>10 DEF TrueInv, NodeIds, Nodes

(* Facts of the solver that no step leaves alone: its rules and its items. *)
LEMMA TrueSkip ==
  ASSUME \A p \in Problems : Honest(p), TrueInv, problem.truth # <<>>, SkipRule
  PROVE  TrueInv'
<1>1. /\ phase = "solve" /\ rix' = rix + 1 /\ todo' = <<>>
      /\ UNCHANGED <<problem, facts, toVisit, node, ctx, rules, added, failed, phase>>
  BY DEF SkipRule, GoToRule, Applying
<1>2. ItemsKept(Here(problem, node), ctx, todo', value')
  BY <1>1 DEF ItemsKept, IsTuple
<1>3. Solves(problem, node, ctx, rules, added, todo', value')
  BY <1>1, <1>2, TrueState DEF Solves
<1> QED
  BY <1>1, <1>3, TrueState DEF TrueInv, NodeIds, Nodes

LEMMA CurrentKept ==
  ASSUME NEW full, NEW calls, NEW rs, RulesKept(full, calls, rs), NEW r \in Nat \ {0}, r <= Len(rs)
  PROVE  r \in DOMAIN rs /\ Keeps(full, calls, rs[r].rule)
<1>1. DOMAIN rs = 1 .. Len(rs) /\ Len(rs) \in Nat
  BY Tuples DEF RulesKept
<1> QED
  BY <1>1 DEF RulesKept

LEMMA TrueUnify ==
  ASSUME \A p \in Problems : Honest(p), TrueInv, problem.truth # <<>>, UnifyItems
  PROVE  TrueInv'
<1> DEFINE ins  == Incoming(problem, node)
           outs == problem.truth[node]
           full == Here(problem, node)
           items == Current.items
           v == Unified(ctx, items)
<1>1. /\ phase = "solve" /\ rix <= Len(rules) /\ Equating
      /\ value' = v /\ todo' = items
      /\ ctx' = [ctx EXCEPT !.changed = FALSE, !.ok = ~ ClashPart(items[1], v)]
      /\ UNCHANGED <<problem, facts, toVisit, node, rules, added, rix, failed, phase>>
  BY DEF UnifyItems, Applying
<1>2. /\ problem \in Problems /\ Honest(problem) /\ node \in DOMAIN problem.nodes /\ rix \in Nat \ {0}
      /\ Solves(problem, node, ctx, rules, added, todo, value) /\ IsTrueContext(ctx, ins, outs) /\ ctx.ok
  BY <1>1, TrueState DEF NodeIds, Nodes
<1>3. AreTensors(ins) /\ AreTensors(outs)
  BY <1>2, TrueProblem
<1>4. PICK calls : /\ Answers(full, problem.nodes[node].op, Len(problem.nodes[node].inputs), calls)
                   /\ RulesKept(full, calls, rules) /\ KeepsAll(full, calls, added)
  BY <1>2 DEF Solves
<1>5. Keeps(full, calls, Current)
  BY <1>1, <1>2, <1>4, CurrentKept DEF Current
<1>6. Holds(full, items)
  BY <1>1, <1>5 DEF Keeps, Equating
<1> HIDE DEF v
<1>7. PICK x : /\ IsTuple(items) /\ items # <<>> /\ ~ ClashPart(items[1], v)
               /\ Knows(IsShape(items[1]), v, x)
               /\ \A i \in DOMAIN items : IsOf(full, items[i], x, IsShape(items[1]))
               /\ ~ IsShape(items[1]) /\ v = Unknown => \A i \in DOMAIN items : Get(ctx, items[i]) = Unknown
  <2> DEFINE is == items
  <2>0. v = Unified(ctx, is) /\ Holds(AllOf(ins, outs), is)
    BY <1>6 DEF v, Here
  <2> HIDE DEF is, ins, outs
  <2>1. /\ IsTuple(is) /\ is # <<>> /\ ~ ClashPart(is[1], v)
        /\ \E x : /\ Knows(IsShape(is[1]), v, x)
                  /\ \A i \in DOMAIN is : IsOf(AllOf(ins, outs), is[i], x, IsShape(is[1]))
        /\ ~ IsShape(is[1]) /\ v = Unknown => \A i \in DOMAIN is : Get(ctx, is[i]) = Unknown
    BY <1>2, <1>3, <2>0, UnifiedTrue
  <2> QED
    BY <2>1 DEF is, Here, ins, outs
<1>8. /\ ctx' = [inputs |-> ctx'.inputs, outputs |-> ctx'.outputs, ok |-> ctx'.ok, changed |-> ctx'.changed]
      /\ ctx'.inputs = ctx.inputs /\ ctx'.outputs = ctx.outputs /\ ctx'.ok
  BY <1>1, <1>2, <1>7 DEF IsTrueContext
<1>9. IsTrueContext(ctx', ins, outs)
  BY <1>2, <1>8 DEF IsTrueContext
<1>10. \A e : Get(ctx', e) = Get(ctx, e)
  <2>1. \A e : FactAt(ctx', e) = FactAt(ctx, e)
    BY <1>8 DEF FactAt
  <2>2. \A e : Term(ctx', e) = Term(ctx, e)
    BY <2>1 DEF Term
  <2>3. \A e : Terms(ctx', e) = Terms(ctx, e)
    BY <2>2 DEF Terms
  <2> QED
    BY <2>2, <2>3 DEF Get
<1>11. ItemsKept(full, ctx', items, v)
  <2> DEFINE shapes == IsShape(items[1])
  <2>1. shapes \in BOOLEAN
    BY DEF IsShape
  <2>2. \A i \in DOMAIN items : Get(ctx', items[i]) = Get(ctx, items[i])
    BY <1>10
  <2> HIDE DEF shapes, items, full
  <2> QED
    BY <1>7, <2>1, <2>2 DEF ItemsKept, shapes
<1>12. Solves(problem, node, ctx', rules, added, items, v)
  BY <1>4, <1>8, <1>9, <1>11 DEF Solves
<1> QED
  BY <1>1, <1>12, TrueState DEF TrueInv, NodeIds, Nodes

(* What is used of a rule is not what it says. *)
LEMMA UsedKept ==
  ASSUME NEW full, NEW calls, NEW rs, RulesKept(full, calls, rs), NEW r, NEW used
  PROVE  RulesKept(full, calls, [rs EXCEPT ![r].used = used])
<1> DEFINE new == [rs EXCEPT ![r].used = used]
<1>1. /\ Len(rs) \in Nat /\ DOMAIN rs = 1 .. Len(rs)
      /\ \A i \in DOMAIN rs : rs[i] = [rule |-> rs[i].rule, used |-> rs[i].used] /\ Keeps(full, calls, rs[i].rule)
  BY Tuples DEF RulesKept
<1>2. DOMAIN new = DOMAIN rs /\ new = [i \in 1 .. Len(rs) |-> new[i]]
  BY <1>1
<1>3. ASSUME NEW i \in DOMAIN rs
      PROVE  new[i] = [rule |-> new[i].rule, used |-> new[i].used] /\ new[i].rule = rs[i].rule
  <2>1. new[i] = IF i = r THEN [rs[i] EXCEPT !.used = used] ELSE rs[i]
    BY <1>1
  <2>2. rs[i] = [rule |-> rs[i].rule, used |-> rs[i].used]
    BY <1>1
  <2>3. [rs[i] EXCEPT !.used = used] = [rule |-> rs[i].rule, used |-> used]
    BY <2>2
  <2> QED
    BY <2>1, <2>2, <2>3
<1> HIDE DEF new
<1>4. IsTuple(new)
  BY <1>1, <1>2, FunctionsAreTuples
<1> QED
  BY <1>1, <1>2, <1>3, <1>4 DEF RulesKept, new

LEMMA TrueSet ==
  ASSUME \A p \in Problems : Honest(p), TrueInv, problem.truth # <<>>, SetItem
  PROVE  /\ TrueInv'
         /\ Learns(Incoming(problem, node), problem.truth[node], ctx, ctx')
         /\ IsTrueContext(ctx', Incoming(problem, node), problem.truth[node])
<1> DEFINE ins  == Incoming(problem, node)
           outs == problem.truth[node]
           full == Here(problem, node)
           e    == Head(todo)
<1>1. /\ phase = "solve" /\ todo # <<>> /\ ctx' = Set(ctx, e, value)
      /\ UNCHANGED <<problem, facts, toVisit, node, added, failed, phase>>
      /\ \/ Len(todo) > 1 /\ todo' = Tail(todo) /\ UNCHANGED <<rules, rix, value>>
         \/ rules' = [rules EXCEPT ![rix].used = ctx'.changed] /\ rix' = rix + 1 /\ todo' = <<>>
  BY DEF SetItem, GoToRule
<1>2. /\ problem \in Problems /\ Honest(problem) /\ node \in DOMAIN problem.nodes /\ rix \in Nat \ {0}
      /\ Solves(problem, node, ctx, rules, added, todo, value) /\ IsTrueContext(ctx, ins, outs) /\ ctx.ok
  BY <1>1, TrueState DEF NodeIds, Nodes
<1>3. AreTensors(ins) /\ AreTensors(outs)
  BY <1>2, TrueProblem
<1>4. PICK calls : /\ Answers(full, problem.nodes[node].op, Len(problem.nodes[node].inputs), calls)
                   /\ RulesKept(full, calls, rules) /\ KeepsAll(full, calls, added)
  BY <1>2 DEF Solves
<1>5. ItemsKept(full, ctx, todo, value)
  BY <1>2 DEF Solves
<1>6. IsTuple(todo)
  BY <1>5 DEF ItemsKept
<1>7. PICK x : \E shapes \in BOOLEAN :
                 /\ \A i \in DOMAIN todo : IsOf(full, todo[i], x, shapes)
                 /\ Knows(shapes, value, x)
                 /\ ~ shapes /\ value = Unknown => \A i \in DOMAIN todo : Get(ctx, todo[i]) = Unknown
  BY <1>1, <1>5 DEF ItemsKept
<1>8. PICK shapes \in BOOLEAN :
                 /\ \A i \in DOMAIN todo : IsOf(full, todo[i], x, shapes)
                 /\ Knows(shapes, value, x)
                 /\ ~ shapes /\ value = Unknown => \A i \in DOMAIN todo : Get(ctx, todo[i]) = Unknown
  BY <1>7
<1>9. 1 \in DOMAIN todo /\ e = todo[1]
  <2> DEFINE S == {todo[k] : k \in DOMAIN todo}
  <2>1. todo \in Seq(S) /\ DOMAIN todo = 1 .. Len(todo) /\ Len(todo) \in Nat
    BY <1>6, Tuples
  <2> HIDE DEF S
  <2> QED
    BY <1>1, <2>1, EmptySeq, HeadTailProperties
<1> DEFINE v == value
           c == ctx
           d == Set(c, e, v)
<1>10. ctx' = d
  BY <1>1
<1>11. /\ IsTrueContext(d, ins, outs) /\ d.ok /\ Learns(ins, outs, c, d)
       /\ ~ shapes /\ v = Unknown => Same(AllOf(ins, outs), c, d)
  <2>1. IsOf(AllOf(ins, outs), e, x, shapes) /\ Knows(shapes, v, x) /\ (~ shapes /\ v = Unknown => Get(c, e) = Unknown)
    BY <1>8, <1>9 DEF Here
  <2>2. IsTrueContext(c, ins, outs) /\ c.ok
    BY <1>2
  <2> HIDE DEF c, v, e, ins, outs
  <2> QED
    BY <1>3, <2>1, <2>2, SetTrue
<1> HIDE DEF d, e
<1>12. ASSUME ~ shapes, value = Unknown, NEW i \in DOMAIN todo
       PROVE  Get(d, todo[i]) = Unknown
  <2> DEFINE q == todo[i]
  <2>1. Get(c, q) = Unknown /\ Means(AllOf(ins, outs), q) /\ ~ IsShape(q)
    BY <1>8, <1>12 DEF IsOf, Here
  <2>2. IsTrueContext(c, ins, outs) /\ Same(AllOf(ins, outs), c, d)
    BY <1>2, <1>11, <1>12
  <2> HIDE DEF q, c, ins, outs
  <2>3. Get(d, q) = Get(c, q)
    BY <1>3, <1>11, <2>1, <2>2, GetSame
  <2> QED
    BY <2>1, <2>3 DEF q
<1>13. ASSUME Len(todo) > 1 /\ todo' = Tail(todo) /\ UNCHANGED <<rules, rix, value>>
       PROVE  TrueInv'
  <2> DEFINE rest == Tail(todo)
  <2>1. IsTuple(rest) /\ \A i \in DOMAIN rest : i + 1 \in DOMAIN todo /\ rest[i] = todo[i + 1]
    BY <1>6, <1>13, TupleTail
  <2> HIDE DEF rest, full
  <2>2. /\ \A i \in DOMAIN rest : IsOf(full, rest[i], x, shapes)
        /\ ~ shapes /\ value = Unknown => \A i \in DOMAIN rest : Get(d, rest[i]) = Unknown
    BY <1>8, <1>12, <2>1
  <2>3. ItemsKept(full, d, rest, value)
    BY <1>8, <2>1, <2>2 DEF ItemsKept
  <2>4. Solves(problem, node, d, rules, added, rest, value)
    BY <1>4, <1>11, <2>3 DEF Solves, full
  <2> QED
    BY <1>1, <1>2, <1>10, <1>13, <2>4, TrueState DEF TrueInv, NodeIds, Nodes, rest
<1>14. ASSUME rules' = [rules EXCEPT ![rix].used = ctx'.changed] /\ rix' = rix + 1 /\ todo' = <<>>
       PROVE  TrueInv'
  <2>1. RulesKept(full, calls, rules')
    BY <1>4, <1>14, UsedKept
  <2>2. ItemsKept(full, d, <<>>, value')
    BY DEF ItemsKept, IsTuple
  <2>3. Solves(problem, node, d, rules', added, <<>>, value')
    BY <1>4, <1>11, <2>1, <2>2 DEF Solves
  <2> QED
    BY <1>1, <1>2, <1>10, <1>14, <2>3, TrueState DEF TrueInv, NodeIds, Nodes
<1>15. TrueInv'
  BY <1>1, <1>13, <1>14
<1> QED
  BY <1>10, <1>11, <1>15

LEMMA TrueCall ==
  ASSUME \A p \in Problems : Honest(p), TrueInv, problem.truth # <<>>, CallClosure
  PROVE  TrueInv'
<1> DEFINE ins  == Incoming(problem, node)
           outs == problem.truth[node]
           full == Here(problem, node)
           rule == Current
           seen == Seen(rule)
           op   == problem.nodes[node].op
           n    == Len(problem.nodes[node].inputs)
           new  == RulesOf(op, n, rule.at, seen)
<1>1. /\ phase = "solve" /\ rix <= Len(rules) /\ ~ Equating /\ Triggered(ctx, rule)
      /\ rix' = rix + 1 /\ todo' = <<>>
      /\ UNCHANGED <<problem, facts, toVisit, node, failed, phase>>
      /\ IF Bail \in Range(new) THEN ctx' = [ctx EXCEPT !.ok = FALSE] /\ UNCHANGED <<rules, added, changed>>
         ELSE /\ rules' = [rules EXCEPT ![rix].used = TRUE]
              /\ added' = added \o Within(new, seen)
              /\ UNCHANGED ctx
  BY DEF CallClosure, Applying, GoToRule, Nodes
<1>2. /\ problem \in Problems /\ Honest(problem) /\ node \in DOMAIN problem.nodes /\ rix \in Nat \ {0}
      /\ Solves(problem, node, ctx, rules, added, todo, value) /\ IsTrueContext(ctx, ins, outs) /\ ctx.ok
  BY <1>1, TrueState DEF NodeIds, Nodes
<1>3. AreTensors(ins) /\ AreTensors(outs)
  BY <1>2, TrueProblem
<1>4. PICK calls : Answers(full, op, n, calls) /\ RulesKept(full, calls, rules) /\ KeepsAll(full, calls, added)
  BY <1>2 DEF Solves
<1>5. Keeps(full, calls, rule)
  BY <1>1, <1>2, <1>4, CurrentKept DEF Current
<1>6. /\ rule.kind \in {"given", "with"} /\ IsTuple(rule.items) /\ (rule.kind = "with" => Len(rule.items) = 1)
      /\ \A i \in DOMAIN rule.items : Reads(full, rule.items[i])
      /\ \A s \in SeenOf(full, rule) : <<rule.at, rule.seen \o s>> \in calls
  BY <1>1, <1>5 DEF Keeps, Equating
<1>7. <<rule.at, seen>> \in calls
  <2> DEFINE c == ctx
             r == rule
             s == [i \in DOMAIN r.items |->
                     IF r.kind = "with" THEN Get(c, r.items[i]) ELSE ValueOf(r.items[i], Get(c, r.items[i]))]
  <2>1. seen = r.seen \o s
    BY DEF Seen
  <2>2. /\ r.kind \in {"given", "with"} /\ IsTuple(r.items) /\ (r.kind = "with" => Len(r.items) = 1)
        /\ \A i \in DOMAIN r.items : Reads(AllOf(ins, outs), r.items[i])
        /\ IsTrueContext(c, ins, outs) /\ Triggered(c, r)
    BY <1>1, <1>2, <1>6 DEF Here
  <2>3. s \in SeenOf(AllOf(ins, outs), r)
    <3> HIDE DEF c, r, ins, outs
    <3> QED
      BY <1>3, <2>2, SeenIsTrue
  <2>4. s \in SeenOf(full, rule)
    BY <2>3 DEF Here
  <2> HIDE DEF s, seen
  <2> QED
    BY <1>6, <2>1, <2>4
<1> HIDE DEF full, rule, seen, op, n
<1>8. IsTuple(new) /\ KeepsAll(full, calls, Within(new, seen))
  <2> DEFINE call == <<rule.at, seen>>
  <2>1. call \in calls /\ call[1] = rule.at /\ call[2] = seen
    BY <1>7
  <2> HIDE DEF call
  <2>2. IsTuple(RulesOf(op, n, call[1], call[2])) /\ KeepsAll(full, calls, Within(RulesOf(op, n, call[1], call[2]), call[2]))
    BY <1>4, <2>1 DEF Answers
  <2> QED
    BY <2>1, <2>2
<1> HIDE DEF new
<1>9. Bail \notin Range(new)
  <2> SUFFICES ASSUME NEW i \in DOMAIN new, new[i] = Bail PROVE FALSE
    BY DEF Range
  <2>1. Within(new, seen)[i] = Nested(Bail, seen) /\ DOMAIN Within(new, seen) = DOMAIN new
    BY DEF Within
  <2>2. Nested(Bail, seen) = Bail /\ Bail.kind = "bail"
    BY DEF Nested, Bail
  <2>3. Keeps(full, calls, Bail)
    BY <1>8, <2>1, <2>2 DEF KeepsAll
  <2> QED
    BY <2>2, <2>3 DEF Keeps
<1>10. /\ rules' = [rules EXCEPT ![rix].used = TRUE]
       /\ added' = added \o Within(new, seen)
       /\ UNCHANGED ctx
  BY <1>1, <1>9 DEF op, n, rule, seen, new
<1>11. RulesKept(full, calls, rules')
  BY <1>4, <1>10, UsedKept
<1>12. KeepsAll(full, calls, added')
  <2> DEFINE w == Within(new, seen)
  <2>1. IsTuple(added) /\ IsTuple(w) /\ added' = added \o w
        /\ (\A i \in DOMAIN added : Keeps(full, calls, added[i])) /\ (\A i \in DOMAIN w : Keeps(full, calls, w[i]))
    BY <1>4, <1>8, <1>10 DEF KeepsAll
  <2> HIDE DEF w
  <2>2. /\ IsTuple(added') /\ DOMAIN added' = 1 .. Len(added) + Len(w)
        /\ \A i \in DOMAIN added' : IF i <= Len(added) THEN i \in DOMAIN added /\ added'[i] = added[i]
                                    ELSE i - Len(added) \in DOMAIN w /\ added'[i] = w[i - Len(added)]
    BY <2>1, TupleConcat
  <2> QED
    BY <2>1, <2>2 DEF KeepsAll
<1>13. ItemsKept(full, ctx, <<>>, value')
  BY DEF ItemsKept, IsTuple
<1>14. Solves(problem, node, ctx, rules', added', <<>>, value')
  BY <1>2, <1>4, <1>11, <1>12, <1>13 DEF Solves, full, op, n
<1> QED
  BY <1>1, <1>2, <1>10, <1>14, TrueState DEF TrueInv, NodeIds, Nodes

LEMMA TruePass ==
  ASSUME \A p \in Problems : Honest(p), TrueInv, problem.truth # <<>>, NextPass
  PROVE  TrueInv'
<1> DEFINE full == Here(problem, node)
           new  == Fresh(added)
<1>1. /\ phase = "solve" /\ rix' = 1 /\ todo' = <<>> /\ added' = <<>> /\ rules' = rules \o new
      /\ UNCHANGED <<problem, facts, toVisit, node, ctx, failed, phase>>
  BY DEF NextPass, PassOver, GoToRule
<1>2. PICK calls : /\ Answers(full, problem.nodes[node].op, Len(problem.nodes[node].inputs), calls)
                   /\ RulesKept(full, calls, rules) /\ KeepsAll(full, calls, added)
  BY <1>1, TrueState DEF Solves
<1> HIDE DEF full
<1>3. /\ IsTuple(rules) /\ IsTuple(added)
      /\ \A i \in DOMAIN rules : rules[i] = [rule |-> rules[i].rule, used |-> rules[i].used] /\ Keeps(full, calls, rules[i].rule)
      /\ \A i \in DOMAIN added : Keeps(full, calls, added[i])
  BY <1>2 DEF RulesKept, KeepsAll
<1>4. DOMAIN added = 1 .. Len(added) /\ Len(added) \in Nat
  BY <1>3, Tuples
<1>5. /\ DOMAIN new = DOMAIN added
      /\ \A i \in DOMAIN new : new[i] = [rule |-> new[i].rule, used |-> new[i].used] /\ new[i].rule = added[i]
      /\ new = [i \in 1 .. Len(added) |-> new[i]]
  BY <1>4 DEF Fresh
<1> HIDE DEF new
<1>6. IsTuple(new)
  BY <1>4, <1>5, FunctionsAreTuples
<1>7. /\ IsTuple(rules') /\ DOMAIN rules' = 1 .. Len(rules) + Len(new)
      /\ \A i \in DOMAIN rules' : IF i <= Len(rules) THEN i \in DOMAIN rules /\ rules'[i] = rules[i]
                                  ELSE i - Len(rules) \in DOMAIN new /\ rules'[i] = new[i - Len(rules)]
  BY <1>1, <1>3, <1>6, TupleConcat
<1>8. RulesKept(full, calls, rules')
  <2>1. ASSUME NEW i \in DOMAIN rules'
        PROVE  /\ rules'[i] = [rule |-> rules'[i].rule, used |-> rules'[i].used]
               /\ Keeps(full, calls, rules'[i].rule)
    <3>1. CASE i <= Len(rules)
      BY <1>3, <1>7, <2>1, <3>1
    <3>2. CASE ~ (i <= Len(rules))
      <4> DEFINE j == i - Len(rules)
      <4>1. j \in DOMAIN new /\ rules'[i] = new[j]
        BY <1>7, <2>1, <3>2
      <4> HIDE DEF j
      <4> QED
        BY <1>3, <1>5, <4>1
    <3> QED
      BY <3>1, <3>2
  <2> QED
    BY <1>7, <2>1 DEF RulesKept
<1>9. KeepsAll(full, calls, <<>>) /\ ItemsKept(full, ctx, <<>>, value')
  BY DEF KeepsAll, ItemsKept, IsTuple
<1>10. Solves(problem, node, ctx, rules', <<>>, <<>>, value')
  BY <1>1, <1>2, <1>8, <1>9, TrueState DEF Solves, full
<1> QED
  BY <1>1, <1>10, TrueState DEF TrueInv, NodeIds, Nodes

(* No rule of a true problem fails. *)
LEMMA TrueRuleFits ==
  ASSUME \A p \in Problems : Honest(p), TrueInv, problem.truth # <<>>
  PROVE  ~ FailRule
<1> SUFFICES ASSUME FailRule PROVE FALSE
  OBVIOUS
<1> DEFINE ins  == Incoming(problem, node)
           outs == problem.truth[node]
           full == Here(problem, node)
           rule == Current
<1>1. phase = "solve"
  BY DEF FailRule
<1>2. /\ problem \in Problems /\ Honest(problem) /\ node \in DOMAIN problem.nodes /\ rix \in Nat \ {0}
      /\ Solves(problem, node, ctx, rules, added, todo, value) /\ IsTrueContext(ctx, ins, outs) /\ ctx.ok
  BY <1>1, TrueState DEF NodeIds, Nodes
<1>3. AreTensors(ins) /\ AreTensors(outs)
  BY <1>2, TrueProblem
<1>4. rix <= Len(rules) /\ ~ Equating /\ Missing(ctx, rule)
  BY <1>2 DEF FailRule, Lacking, Applying
<1>5. PICK calls : RulesKept(full, calls, rules)
  BY <1>2 DEF Solves
<1>6. Keeps(full, calls, rule)
  BY <1>2, <1>4, <1>5, CurrentKept DEF Current
<1>7. \A i \in DOMAIN rule.items : Reads(full, rule.items[i])
  BY <1>4, <1>6 DEF Keeps, Equating
<1> DEFINE c == ctx
<1>8. (\A i \in DOMAIN rule.items : Reads(AllOf(ins, outs), rule.items[i])) /\ IsTrueContext(c, ins, outs) /\ Missing(c, rule)
  BY <1>2, <1>4, <1>7 DEF Here
<1> HIDE DEF c, ins, outs, rule
<1> QED
  BY <1>3, <1>8, NothingMissing

(* What the solver returns is true, evaluated or not. *)
LEMMA TrueInferred ==
  ASSUME \A p \in Problems : Honest(p), TrueInv, problem.truth # <<>>, phase = "solve"
  PROVE  /\ Inferred # Fails /\ DOMAIN Inferred = DOMAIN problem.truth[node]
         /\ \A o \in DOMAIN problem.truth[node] : IsTrue(Inferred[o], problem.truth[node][o])
<1> DEFINE ins  == Incoming(problem, node)
           outs == problem.truth[node]
           op   == problem.nodes[node].op
           eager == Stateless(op) /\ \A i \in DOMAIN ctx.inputs : IsConcrete(ctx.inputs[i].value)
           seen == [i \in DOMAIN ctx.inputs |-> ctx.inputs[i].value[1]]
           ts   == WireOf(op, seen)
<1>1. problem \in Problems /\ Honest(problem) /\ node \in DOMAIN problem.nodes /\ IsTrueContext(ctx, ins, outs)
  BY TrueState DEF NodeIds, Nodes
<1>2. /\ AreTensors(ins) /\ AreTensors(outs) /\ IsTuple(outs) /\ outs # <<>>
      /\ Stateless(op) => WireOf(op, ins) = outs
  BY <1>1, TrueProblem
<1>3. DOMAIN ctx.inputs = DOMAIN ins /\ DOMAIN ctx.outputs = DOMAIN outs
      /\ (\A i \in DOMAIN ins : IsTrue(ctx.inputs[i], ins[i])) /\ (\A o \in DOMAIN outs : IsTrue(ctx.outputs[o], outs[o]))
  BY <1>1 DEF IsTrueContext
<1>4. Inferred = IF eager THEN [o \in DOMAIN ts |-> FactOf(ts[o])] ELSE ctx.outputs
  BY DEF Inferred, Nodes
<1>5. DOMAIN outs # {}
  <2>1. DOMAIN outs = 1 .. Len(outs) /\ Len(outs) \in Nat
    BY <1>2, Tuples
  <2>2. outs = [k \in 1 .. Len(outs) |-> outs[k]]
    BY <1>2 DEF IsTuple
  <2> HIDE DEF outs
  <2>3. Len(outs) # 0
    <3> SUFFICES ASSUME Len(outs) = 0 PROVE FALSE
      OBVIOUS
    <3>1. outs = [k \in {} |-> outs[k]]
      BY <2>1, <2>2
    <3>2. IsTuple(<<>>) /\ Len(<<>>) = 0
      BY DEF IsTuple
    <3>3. outs = <<>>
      BY <1>2, <3>2, TuplesEqual
    <3> QED
      BY <1>2, <3>3
  <2> QED
    BY <2>1, <2>3
<1> HIDE DEF outs
<1>6. CASE eager
  <2>1. seen = ins
    <3>1. ASSUME NEW i \in DOMAIN ins
          PROVE  ctx.inputs[i].value[1] = ins[i]
      <4>1. ctx.inputs[i].value \in {Unknown, Only(ins[i])} /\ IsConcrete(ctx.inputs[i].value)
        BY <1>3, <1>6 DEF IsTrue, Matches
      <4> QED
        BY <4>1, ConstantsDiffer
    <3>2. seen = [i \in DOMAIN ins |-> ins[i]]
      BY <1>3, <3>1
    <3>3. ins = [i \in DOMAIN ins |-> ins[i]]
      BY DEF Incoming
    <3> QED
      BY <3>2, <3>3
  <2> HIDE DEF seen, ins
  <2>2. ts = outs
    BY <1>2, <1>6, <2>1
  <2>3. Inferred = [o \in DOMAIN outs |-> FactOf(outs[o])]
    BY <1>4, <1>6, <2>2
  <2>4. \A o \in DOMAIN outs : IsTrue(FactOf(outs[o]), outs[o])
    BY <1>2, AllIsTrue DEF AreTensors
  <2>5. DOMAIN Inferred = DOMAIN outs /\ \A o \in DOMAIN outs : IsTrue(Inferred[o], outs[o])
    BY <2>3, <2>4
  <2>6. Inferred # Fails
    BY <1>5, <2>5 DEF Fails
  <2> QED
    BY <2>5, <2>6 DEF outs
<1>7. CASE ~ eager
  <2> HIDE DEF eager
  <2>1. Inferred = ctx.outputs
    BY <1>4, <1>7
  <2> QED
    BY <1>3, <1>5, <2>1 DEF outs, Fails
<1> QED
  BY <1>6, <1>7

(* What is put back is true of where it is put, and says no less than f. *)
TrueEdges(p, f, edges) ==
  \A i \in DOMAIN edges :
     \E m \in DOMAIN p.nodes : \E o \in DOMAIN p.truth[m] :
        edges[i].outlet = <<m, o>> /\ IsTrue(edges[i].fact, p.truth[m][o]) /\ Finer(edges[i].fact, f[m][o])

LEMMA TruePutBack ==
  ASSUME \A p \in Problems : Honest(p), TrueInv, problem.truth # <<>>, phase = "solve"
  PROVE  IsTuple(PutBack(Inferred)) /\ TrueEdges(problem, facts, PutBack(Inferred))
<1> DEFINE ins  == Incoming(problem, node)
           outs == problem.truth[node]
           given == problem.nodes[node].inputs
           outputs == Inferred
           up   == [i \in DOMAIN ctx.inputs |-> Edge(given[i], ctx.inputs[i])]
           down == [o \in DOMAIN outputs |-> Edge(<<node, o>>, outputs[o])]
           edges == PutBack(Inferred)
<1>1. problem \in Problems /\ Honest(problem) /\ node \in DOMAIN problem.nodes /\ IsTrueContext(ctx, ins, outs)
      /\ TrueFacts(problem, facts)
  BY TrueState DEF NodeIds, Nodes
<1>2. /\ AreTensors(ins) /\ AreTensors(outs) /\ IsTuple(outs)
      /\ DOMAIN ins = DOMAIN given /\ IsTuple(given)
      /\ \A i \in DOMAIN given :
            \E m \in DOMAIN problem.nodes : \E o \in DOMAIN problem.truth[m] :
               given[i] = <<m, o>> /\ ins[i] = problem.truth[m][o]
  BY <1>1, TrueProblem
<1>3. DOMAIN ctx.inputs = DOMAIN ins /\ \A i \in DOMAIN ins : IsTrue(ctx.inputs[i], ins[i])
  BY <1>1 DEF IsTrueContext
<1>4. DOMAIN outputs = DOMAIN outs /\ \A o \in DOMAIN outs : IsTrue(outputs[o], outs[o])
  BY TrueInferred
<1>5. edges = up \o down
  BY DEF PutBack, Nodes
<1> HIDE DEF outputs, given, ins, edges
<1>6. ASSUME NEW m \in DOMAIN problem.nodes, NEW o \in DOMAIN problem.truth[m],
             NEW f, IsTrue(f, problem.truth[m][o]), NEW outlet, outlet = <<m, o>>
      PROVE  /\ Edge(outlet, f).outlet = <<m, o>> /\ IsTrue(Edge(outlet, f).fact, problem.truth[m][o])
             /\ Finer(Edge(outlet, f).fact, facts[m][o])
  <2> DEFINE t == problem.truth[m][o]
  <2>1. IsTrue(facts[m][o], t) /\ FactOn(outlet) = facts[m][o]
    BY <1>1, <1>6 DEF TrueFacts, FactOn
  <2>2. IsTuple(t.shape)
    <3>1. AreTensors(problem.truth[m])
      BY <1>1, TrueProblem
    <3> QED
      BY <3>1 DEF AreTensors
  <2> HIDE DEF t
  <2>3. IsTrue(UnifyFact(facts[m][o], f), t) /\ Finer(UnifyFact(facts[m][o], f), facts[m][o])
    BY <1>6, <2>1, <2>2, UnifyFactTrue DEF t
  <2> QED
    BY <1>6, <2>1, <2>3 DEF Edge, t
<1>7. IsTuple(up) /\ DOMAIN up = DOMAIN given
  <2>1. DOMAIN given = 1 .. Len(given) /\ Len(given) \in Nat
    BY <1>2, Tuples
  <2>2. DOMAIN up = DOMAIN given /\ up = [i \in 1 .. Len(given) |-> up[i]]
    BY <1>2, <1>3, <2>1
  <2> HIDE DEF up
  <2> QED
    BY <2>1, <2>2, FunctionsAreTuples
<1>8. IsTuple(down) /\ DOMAIN down = DOMAIN outs
  <2>1. DOMAIN outs = 1 .. Len(outs) /\ Len(outs) \in Nat
    BY <1>2, Tuples
  <2>2. DOMAIN down = DOMAIN outs /\ down = [o \in 1 .. Len(outs) |-> down[o]]
    BY <1>4, <2>1
  <2> HIDE DEF down, outs
  <2> QED
    BY <2>1, <2>2, FunctionsAreTuples
<1>9. ASSUME NEW i \in DOMAIN up
      PROVE  \E m \in DOMAIN problem.nodes : \E o \in DOMAIN problem.truth[m] :
                /\ up[i].outlet = <<m, o>> /\ IsTrue(up[i].fact, problem.truth[m][o])
                /\ Finer(up[i].fact, facts[m][o])
  <2>1. i \in DOMAIN given /\ up[i] = Edge(given[i], ctx.inputs[i]) /\ IsTrue(ctx.inputs[i], ins[i])
    BY <1>2, <1>3, <1>7
  <2>2. PICK m \in DOMAIN problem.nodes : \E o \in DOMAIN problem.truth[m] :
           given[i] = <<m, o>> /\ ins[i] = problem.truth[m][o]
    BY <1>2, <2>1
  <2>3. PICK o \in DOMAIN problem.truth[m] : given[i] = <<m, o>> /\ ins[i] = problem.truth[m][o]
    BY <2>2
  <2> HIDE DEF up
  <2> QED
    BY <1>6, <2>1, <2>3
<1>10. ASSUME NEW i \in DOMAIN down
       PROVE  \E m \in DOMAIN problem.nodes : \E o \in DOMAIN problem.truth[m] :
                 /\ down[i].outlet = <<m, o>> /\ IsTrue(down[i].fact, problem.truth[m][o])
                 /\ Finer(down[i].fact, facts[m][o])
  <2>1. i \in DOMAIN outs /\ down[i] = Edge(<<node, i>>, outputs[i]) /\ IsTrue(outputs[i], outs[i])
    BY <1>4, <1>8
  <2> HIDE DEF down
  <2> QED
    BY <1>1, <1>6, <2>1
<1> HIDE DEF up, down
<1>11. /\ IsTuple(edges)
       /\ \A i \in DOMAIN edges : IF i <= Len(up) THEN i \in DOMAIN up /\ edges[i] = up[i]
                                  ELSE i - Len(up) \in DOMAIN down /\ edges[i] = down[i - Len(up)]
  BY <1>5, <1>7, <1>8, TupleConcat
<1>12. TrueEdges(problem, facts, edges)
  BY <1>9, <1>10, <1>11 DEF TrueEdges
<1> QED
  BY <1>11, <1>12 DEF edges

LEMMA TrueFinish ==
  ASSUME \A p \in Problems : Honest(p), TrueInv, problem.truth # <<>>, Finish
  PROVE  /\ TrueInv' /\ node' = 0
         /\ \A n \in DOMAIN facts : \A o \in DOMAIN facts[n] : Finer(facts'[n][o], facts[n][o])
<1> DEFINE edges == PutBack(Inferred)
           some  == ChangedEdges(edges)
<1>1. phase = "solve" /\ IF Inferred = Fails THEN Fail
                         ELSE IF \E i \in DOMAIN edges : IsClash(edges[i].fact) THEN Fail
                              ELSE /\ facts' = Written(some)
                                   /\ toVisit' = (toVisit \cup Woken(some)) \ {node}
                                   /\ node' = 0 /\ ctx' = Idle /\ phase' = "pick"
                                   /\ UNCHANGED <<problem, failed>>
  BY DEF Finish, PassOver, DropSolver
<1>2. /\ problem \in Problems /\ Honest(problem) /\ TrueFacts(problem, facts)
      /\ ~ failed /\ toVisit \subseteq NodeIds /\ NodeIds = DOMAIN problem.nodes
  BY TrueState DEF NodeIds, Nodes
<1>3. Inferred # Fails
  BY <1>1, TrueInferred
<1>4. IsTuple(edges) /\ TrueEdges(problem, facts, edges)
  BY <1>1, TruePutBack
<1> HIDE DEF edges
<1>5. ~ \E i \in DOMAIN edges : IsClash(edges[i].fact)
  <2> SUFFICES ASSUME NEW i \in DOMAIN edges PROVE ~ IsClash(edges[i].fact)
    OBVIOUS
  <2>1. PICK m \in DOMAIN problem.nodes : \E o \in DOMAIN problem.truth[m] : IsTrue(edges[i].fact, problem.truth[m][o])
    BY <1>4 DEF TrueEdges
  <2>2. PICK o \in DOMAIN problem.truth[m] : IsTrue(edges[i].fact, problem.truth[m][o])
    BY <2>1
  <2>3. AreTensors(problem.truth[m])
    BY <1>2, TrueProblem
  <2> QED
    BY <2>2, <2>3, TrueIsNoClash DEF AreTensors
<1>6. /\ facts' = Written(some)
      /\ toVisit' = (toVisit \cup Woken(some)) \ {node}
      /\ node' = 0 /\ ctx' = Idle /\ phase' = "pick"
      /\ UNCHANGED <<problem, failed>>
  BY <1>1, <1>3, <1>5
<1>7. /\ DOMAIN some \subseteq 1 .. Len(edges) /\ Len(edges) \in Nat
      /\ \A i \in DOMAIN some : i \in DOMAIN edges /\ some[i] = edges[i]
  <2>1. DOMAIN edges = 1 .. Len(edges) /\ Len(edges) \in Nat
    BY <1>4, Tuples
  <2>2. some = [i \in {j \in DOMAIN edges : edges[j].fact # FactOn(edges[j].outlet)} |-> edges[i]]
    BY DEF ChangedEdges, RestrictValues, Restrict
  <2> QED
    BY <2>1, <2>2
<1>8. TrueEdges(problem, facts, some)
  BY <1>4, <1>7 DEF TrueEdges
<1> HIDE DEF some
<1>9. /\ TrueFacts(problem, facts')
      /\ \A n \in DOMAIN facts : \A o \in DOMAIN facts[n] : Finer(facts'[n][o], facts[n][o])
  <2>1. DOMAIN facts' = DOMAIN problem.nodes
    BY <1>2, <1>6 DEF Written, TrueFacts
  <2>2. ASSUME NEW n \in DOMAIN problem.nodes
        PROVE  DOMAIN facts'[n] = DOMAIN problem.truth[n]
    BY <1>2, <1>6 DEF Written, TrueFacts
  <2>3. ASSUME NEW n \in DOMAIN problem.nodes, NEW o \in DOMAIN problem.truth[n]
        PROVE  IsTrue(facts'[n][o], problem.truth[n][o]) /\ Finer(facts'[n][o], facts[n][o])
    <3> DEFINE places == {i \in DOMAIN some : some[i].outlet = <<n, o>>}
    <3>1. facts'[n][o] = IF places = {} THEN facts[n][o] ELSE some[Max(places)].fact
      BY <1>2, <1>6 DEF Written, TrueFacts
    <3>2. CASE places = {}
      BY <1>2, <3>1, <3>2, FinerItself DEF TrueFacts, IsTrue
    <3>3. CASE places # {}
      <4>1. places \subseteq 0 .. Len(edges)
        BY <1>7
      <4>2. Max(places) \in places
        <5> HIDE DEF places
        <5> QED
          BY <1>7, <3>3, <4>1, MaxOf
      <4> DEFINE i == Max(places)
      <4>3. i \in DOMAIN some /\ some[i].outlet = <<n, o>>
        BY <4>2
      <4> HIDE DEF i
      <4>4. IsTrue(some[i].fact, problem.truth[n][o]) /\ Finer(some[i].fact, facts[n][o])
        BY <1>8, <4>3 DEF TrueEdges
      <4> QED
        BY <3>1, <3>3, <4>4 DEF i
    <3> QED
      BY <3>2, <3>3
  <2> QED
    BY <1>2, <2>1, <2>2, <2>3 DEF TrueFacts
<1>10. Woken(some) \subseteq NodeIds
  <2>1. \A o : Successors(o) \subseteq NodeIds
    BY DEF Successors
  <2>2. \A e \in Range(some) : e.outlet[1] \in NodeIds
    <3>1. \A i \in DOMAIN some : some[i].outlet[1] \in NodeIds
      BY <1>2, <1>8 DEF TrueEdges
    <3> QED
      BY <3>1 DEF Range
  <2> SUFFICES ASSUME NEW m \in Woken(some) PROVE m \in NodeIds
    OBVIOUS
  <2>3. CASE m \in {e.outlet[1] : e \in Range(some)} \ {node}
    BY <2>2, <2>3
  <2>4. CASE m \in UNION {Successors(e.outlet) \ {e.outlet[1]} : e \in Range(some)}
    BY <2>1, <2>4
  <2> QED
    BY <2>3, <2>4 DEF Woken
<1> QED
  BY <1>2, <1>6, <1>9, <1>10 DEF TrueInv, NodeIds, Nodes, Idle

(* Every step of an honest problem keeps what is true. *)
LEMMA TrueStep ==
  ASSUME \A p \in Problems : Honest(p), TrueInv, [Next]_vars
  PROVE  TrueInv'
<1>1. problem' = problem
  BY DEF Next, Step, Visit, SkipRule, UnifyItems, SetItem, CallClosure, FailRule, Fail, NextPass, Finish, End, Again, vars
<1>2. CASE problem.truth = <<>>
  BY <1>1, <1>2 DEF TrueInv
<1>3. CASE problem.truth # <<>>
  <2>1. CASE Visit
    BY <1>3, <2>1, TrueVisit
  <2>2. CASE SkipRule
    BY <1>3, <2>2, TrueSkip
  <2>3. CASE UnifyItems
    BY <1>3, <2>3, TrueUnify
  <2>4. CASE SetItem
    BY <1>3, <2>4, TrueSet
  <2>5. CASE CallClosure
    BY <1>3, <2>5, TrueCall
  <2>6. CASE FailRule
    BY <1>3, <2>6, TrueRuleFits
  <2>7. CASE NextPass
    BY <1>3, <2>7, TruePass
  <2>8. CASE Finish
    BY <1>3, <2>8, TrueFinish
  <2>9. CASE End
    BY <1>3, <2>9, TrueState DEF End, TrueInv, NodeIds, Nodes, solver
  <2>10. CASE Again
    BY <1>3, <2>10, TrueState DEF Again, TrueInv, NodeIds, Nodes, solver
  <2>11. CASE UNCHANGED vars
    BY <2>11 DEF vars, solver, place, TrueInv, NodeIds, Nodes
  <2> QED
    BY <2>1, <2>2, <2>3, <2>4, <2>5, <2>6, <2>7, <2>8, <2>9, <2>10, <2>11 DEF Next, Step
<1> QED
  BY <1>2, <1>3

LEMMA TrueStateSaysSo ==
  ASSUME \A p \in Problems : Honest(p), TrueInv
  PROVE  FactsAreTrue
<1> SUFFICES ASSUME problem.truth # <<>> PROVE FactsAreTrue
  BY DEF FactsAreTrue
<1>1. ctx.ok /\ ~ failed /\ TrueFacts(problem, facts)
  BY TrueState
<1>2. \A n \in NodeIds : \A o \in DOMAIN facts[n] : Matches(facts[n][o], problem.truth[n][o])
  BY <1>1 DEF TrueFacts, IsTrue, NodeIds, Nodes
<1>3. ASSUME node # 0
      PROVE  \A o \in DOMAIN ctx.outputs : Matches(ctx.outputs[o], problem.truth[node][o])
  BY <1>3, TrueState DEF IsTrueContext, IsTrue
<1> QED
  BY <1>1, <1>2, <1>3 DEF FactsAreTrue

(* Of honest problems, the invariant holds throughout: whatever the order of the *)
(* nodes and however the rules wake each other (analyse_one, Solver::infer_facts). *)
THEOREM TrueInvariant ==
  ASSUME \A p \in Problems : Honest(p)
  PROVE  Spec => []TrueInv
<1>1. Init => TrueInv
  BY TrueInitially
<1>2. TrueInv /\ [Next]_vars => TrueInv'
  BY TrueStep
<1> QED
  BY <1>1, <1>2, PTL DEF Spec

(* What is written of a graph is true, half way through a node too, and no node  *)
(* fails as long as some tensors do what the first facts say (Analyser::analyse).  *)
THEOREM AnalysisIsTrue ==
  ASSUME \A p \in Problems : Honest(p)
  PROVE  Spec => []FactsAreTrue
<1>1. TrueInv => FactsAreTrue
  BY TrueStateSaysSo
<1> QED
  BY <1>1, TrueInvariant, PTL

-----------------------------------------------------------------------------
(* Nothing is forgotten.                                                   *)

LEMMA FinerRefines ==
  ASSUME NEW g, NEW f, IsInferenceFact(g), IsInferenceFact(f), Finer(g, f)
  PROVE  Refines(g, f)
<1> DEFINE a == g.shape
           b == f.shape
<1>1. IsShapeFactoid(a) /\ IsShapeFactoid(b) /\ g = [dt |-> g.dt, shape |-> a, value |-> g.value]
  BY DEF IsInferenceFact
<1>2. /\ a = [open |-> a.open, dims |-> a.dims] /\ a.open \in BOOLEAN /\ b.open \in BOOLEAN
      /\ Len(a.dims) \in Nat /\ Len(b.dims) \in Nat /\ DOMAIN b.dims = 1 .. Len(b.dims)
      /\ a.dims = [k \in 1 .. Len(a.dims) |-> a.dims[k]]
  BY <1>1, Tuples DEF IsShapeFactoid, IsTuple
<1>3. Unify(g.dt, f.dt) = g.dt /\ Unify(g.value, f.value) = g.value
  BY UnifyIs DEF Finer
<1>4. /\ a.open => b.open
      /\ Len(b.dims) <= Len(a.dims) /\ (b.open \/ Len(b.dims) = Len(a.dims))
      /\ \A k \in 1 .. Len(b.dims) : b.dims[k] = Unknown \/ a.dims[k] = b.dims[k]
  BY <1>2 DEF Finer, FinerShape
<1> HIDE DEF a, b
<1>5. UnifyShape(a, b) = [open |-> a.open /\ b.open,
                          dims |-> [k \in 1 .. Len(a.dims) |-> IF k <= Len(a.dims)
                                       THEN IF k <= Len(b.dims) THEN Unify(a.dims[k], b.dims[k]) ELSE a.dims[k]
                                       ELSE b.dims[k]]]
  <2>1. ~ (Len(a.dims) < Len(b.dims)) /\ ~ (~ b.open /\ Len(b.dims) < Len(a.dims)) /\ ~ (Len(a.dims) < Len(a.dims))
    BY <1>2, <1>4
  <2> QED
    BY <1>1, <2>1, UnifyShapeIs
<1>6. \A k \in 1 .. Len(a.dims) : k <= Len(b.dims) => Unify(a.dims[k], b.dims[k]) = a.dims[k]
  BY <1>2, <1>4, UnifyIs
<1>7. (a.open /\ b.open) = a.open
  BY <1>2, <1>4
<1>8. UnifyShape(a, b) = a
  BY <1>2, <1>5, <1>6, <1>7
<1> QED
  BY <1>1, <1>3, <1>8 DEF Refines, UnifyFact, a, b

(* What a step knows is what it knew, or more. *)
LEMMA TrueRemembers ==
  ASSUME \A p \in Problems : Honest(p), TrueInv, problem.truth # <<>>, [Next]_vars
  PROVE  Remembers
<1>1. TrueFacts(problem, facts) /\ problem \in Problems /\ Honest(problem)
  BY TrueState
<1>2. ASSUME NEW n \in DOMAIN facts, NEW o \in DOMAIN facts[n]
      PROVE  IsInferenceFact(facts[n][o])
  BY <1>1, <1>2 DEF TrueFacts, IsTrue
<1>3. ASSUME facts' = facts
      PROVE  \A n \in DOMAIN facts : \A o \in DOMAIN facts[n] : Refines(facts'[n][o], facts[n][o])
  BY <1>2, <1>3, FinerItself, FinerRefines
<1>4. ASSUME node # 0
      PROVE  /\ phase = "solve" /\ DOMAIN ctx.inputs = DOMAIN Incoming(problem, node)
             /\ \A i \in DOMAIN ctx.inputs : IsInferenceFact(ctx.inputs[i])
  BY <1>4, TrueState DEF IsTrueContext, IsTrue
<1>5. ASSUME ctx'.inputs = ctx.inputs, node # 0
      PROVE  \A i \in DOMAIN ctx.inputs : Refines(ctx'.inputs[i], ctx.inputs[i])
  BY <1>4, <1>5, FinerItself, FinerRefines
<1>6. CASE Visit
  BY <1>3, <1>4, <1>6 DEF Visit, Remembers
<1>7. CASE SkipRule \/ NextPass
  BY <1>3, <1>5, <1>7 DEF SkipRule, NextPass, Remembers
<1>8. CASE UnifyItems
  <2>1. facts' = facts /\ ctx' = [ctx EXCEPT !.changed = FALSE, !.ok = ~ ClashPart(Current.items[1], value')]
        /\ phase = "solve"
    BY <1>8 DEF UnifyItems, Applying
  <2>2. ctx = [inputs |-> ctx.inputs, outputs |-> ctx.outputs, ok |-> ctx.ok, changed |-> ctx.changed]
    BY <2>1, TrueState DEF IsTrueContext
  <2>3. ctx'.inputs = ctx.inputs
    BY <2>1, <2>2
  <2> QED
    BY <1>3, <1>5, <2>1, <2>3 DEF Remembers
<1>9. CASE SetItem
  <2>1. facts' = facts
    BY <1>9 DEF SetItem
  <2>2. ASSUME node # 0, NEW i \in DOMAIN ctx.inputs
        PROVE  Refines(ctx'.inputs[i], ctx.inputs[i])
    <3>1. /\ Learns(Incoming(problem, node), problem.truth[node], ctx, ctx')
          /\ IsTrueContext(ctx', Incoming(problem, node), problem.truth[node])
      BY <1>9, TrueSet
    <3>2. i \in DOMAIN Incoming(problem, node) /\ IsInferenceFact(ctx.inputs[i])
      BY <1>4, <2>2
    <3>3. Finer(ctx'.inputs[i], ctx.inputs[i]) /\ IsInferenceFact(ctx'.inputs[i])
      BY <3>1, <3>2 DEF Learns, IsTrueContext, IsTrue
    <3> QED
      BY <3>2, <3>3, FinerRefines
  <2> QED
    BY <1>3, <2>1, <2>2 DEF Remembers
<1>10. CASE CallClosure
  <2>1. facts' = facts /\ (ctx' = ctx \/ ctx' = [ctx EXCEPT !.ok = FALSE]) /\ phase = "solve"
    BY <1>10 DEF CallClosure, Applying
  <2>2. ctx = [inputs |-> ctx.inputs, outputs |-> ctx.outputs, ok |-> ctx.ok, changed |-> ctx.changed]
    BY <2>1, TrueState DEF IsTrueContext
  <2>3. ctx'.inputs = ctx.inputs
    BY <2>1, <2>2
  <2> QED
    BY <1>3, <1>5, <2>1, <2>3 DEF Remembers
<1>11. CASE FailRule
  BY <1>11, TrueRuleFits
<1>12. CASE Finish
  <2>1. node' = 0 /\ (\A n \in DOMAIN facts : \A o \in DOMAIN facts[n] : Finer(facts'[n][o], facts[n][o])) /\ TrueInv'
        /\ problem' = problem
    BY <1>12, TrueFinish DEF Finish, Fail
  <2>2. TrueFacts(problem, facts')
    BY <2>1 DEF TrueInv
  <2>3. ASSUME NEW n \in DOMAIN facts, NEW o \in DOMAIN facts[n]
        PROVE  Refines(facts'[n][o], facts[n][o])
    <3>1. n \in DOMAIN problem.nodes /\ o \in DOMAIN problem.truth[n]
      BY <1>1, <2>3 DEF TrueFacts
    <3>2. IsInferenceFact(facts'[n][o])
      BY <2>2, <3>1 DEF TrueFacts, IsTrue
    <3> QED
      BY <1>2, <2>1, <2>3, <3>2, FinerRefines
  <2> QED
    BY <2>1, <2>3 DEF Remembers
<1>13. CASE End \/ Again \/ UNCHANGED vars
  BY <1>3, <1>5, <1>13 DEF End, Again, vars, solver, Remembers
<1> QED
  BY <1>6, <1>7, <1>8, <1>9, <1>10, <1>11, <1>12, <1>13 DEF Next, Step

(* What was known is never forgotten nor replaced where the problem is true: a   *)
(* fact of the graph or of the node being solved is only completed (unify, set).  *)
THEOREM TrueIsRemembered ==
  ASSUME \A p \in Problems : Honest(p)
  PROVE  Spec => [][problem.truth # <<>> => Remembers]_vars
<1>1. TrueInv /\ [Next]_vars => (problem.truth # <<>> => Remembers)
  BY TrueRemembers
<1> QED
  BY <1>1, TrueInvariant, PTL DEF Spec

(* So the analysis of problems that are all true never forgets.                   *)
THEOREM NothingForgotten ==
  ASSUME \A p \in Problems : Honest(p) /\ p.truth # <<>>
  PROVE  Spec => NeverForgets
<1>1. TrueInv => problem.truth # <<>>
  BY DEF TrueInv
<1>2. TrueInv /\ [Next]_vars => Remembers
  BY <1>1, TrueRemembers
<1>3. \A p \in Problems : Honest(p)
  OBVIOUS
<1>4. Spec => []TrueInv
  BY <1>3, TrueInvariant
<1> QED
  BY <1>2, <1>4, PTL DEF Spec, NeverForgets

=============================================================================
