-------------------------------- MODULE Dims --------------------------------
(***************************************************************************)
(* Dimensions that may depend on symbols not known yet, and the arithmetic *)
(* that keeps them small (data/src/dim).  A dimension is a term: Sym, Val, *)
(* Add, Mul, MulInt or Div, with the integer of a symbol, a value, a       *)
(* factor or a divisor in n.  A dimension of a concrete shape (usize) is a *)
(* Val.                                                                    *)
(***************************************************************************)
EXTENDS Integers, SequencesExt, FiniteSetsExt

Term(op, n, of) == [op |-> op, n |-> n, of |-> of]
Sym(s)       == Term("Sym", s, <<>>)
Val(v)       == Term("Val", v, <<>>)
AddOf(terms) == Term("Add", 0, terms)
MulOf(terms) == Term("Mul", 0, terms)
MulInt(p, a) == Term("MulInt", p, <<a>>)
Div(a, q)    == Term("Div", q, <<a>>)

Known(d) == d.op = "Val"

\* The order derived on terms: of kinds, then of what they hold.
Kinds == [Sym |-> 1, Val |-> 2, Add |-> 3, Mul |-> 4, MulInt |-> 5, Div |-> 6]
RECURSIVE Less(_, _)
Less(a, b) ==
    IF a.op # b.op THEN Kinds[a.op] < Kinds[b.op]
    ELSE IF a.n # b.n /\ (a.op # "Div" \/ a.of = b.of) THEN a.n < b.n
    ELSE LET apart == {i \in DOMAIN a.of \cap DOMAIN b.of : a.of[i] # b.of[i]}
         IN  IF apart = {} THEN Len(a.of) < Len(b.of) ELSE Less(a.of[Min(apart)], b.of[Min(apart)])

Truncated(a, q) == IF a >= 0 THEN a \div q ELSE - ((- a) \div q)
CeilDiv(a, q)   == (a + q - 1) \div q
Abs1(a)         == IF a >= 0 THEN a ELSE - a
IntGcd(a, b)    == IF a = 0 THEN b ELSE IF b = 0 THEN a
                   ELSE Max({d \in 1 .. (IF a < b THEN a ELSE b) : a % d = 0 /\ b % d = 0})

-----------------------------------------------------------------------------
(* Simplification.                                                         *)

\* What a simplified term counts in a sum: a term without its factor, and the factor.
Counted(t) == CASE t.op = "Val"    -> <<Val(1), t.n>>
                [] t.op = "MulInt" -> <<t.of[1], t.n>>
                [] OTHER           -> <<t, 1>>
Unfactored(t)       == IF t.op = "MulInt" THEN t.of[1] ELSE t
Member(key, factor) == IF key = Val(1) THEN Val(factor) ELSE IF factor = 1 THEN key ELSE MulInt(factor, key)

\* The terms of a sum, factorized and in order.
SumOfMembers(members) ==
    CASE members = {} -> Val(0)
      [] Cardinality(members) = 1 -> CHOOSE t \in members : TRUE
      [] OTHER -> AddOf(SetToSortSeq(members, Less))
FactorIn(counts, key) == FoldLeft(LAMBDA sum, c : IF c[1] = key THEN sum + c[2] ELSE sum, 0, counts)
MembersOf(counts) ==
    {Member(kf[1], kf[2]) : kf \in {x \in {<<c[1], FactorIn(counts, c[1])>> : c \in Range(counts)} : x[2] # 0}}
Factorized(terms) == SumOfMembers(MembersOf([i \in DOMAIN terms |-> Counted(terms[i])]))

\* A product of simplified terms: one integer, the rest in its order.
ProductWith(int, rest) ==
    CASE rest = <<>> -> Val(int)
      [] rest # <<>> /\ int = 0 -> Val(0)
      [] rest # <<>> /\ int # 0 -> Member(IF Len(rest) = 1 THEN rest[1] ELSE MulOf(rest), int)
Product(terms) ==
    ProductWith(FoldLeft(LAMBDA p, t : IF t.op \in {"Val", "MulInt"} THEN p * t.n ELSE p, 1, terms),
                SelectSeq([i \in DOMAIN terms |-> Unfactored(terms[i])], LAMBDA t : ~ Known(t)))

SumOver(terms)     == FoldLeft(LAMBDA sum, t : sum + t.n, 0, terms)
HasOpposite(terms) == \E t \in Range(terms) : t.op = "MulInt" /\ t.n = -1 /\ t.of[1].op = "Sym"
Offset1(v, q) == IF v >= q THEN v \div q ELSE IF v < 0 THEN - CeilDiv(- v, q) ELSE 0

RECURSIVE Simplify(_)

RECURSIVE Opened(_)
TermsOf(s) == IF s.op = "Add" THEN FlattenSeq([i \in DOMAIN s.of |-> Opened(s.of[i])]) ELSE <<s>>
Opened(t)  == TermsOf(Simplify(t))

\* What a constant holds of a divisor is taken out of a sum.
OffsetOut(terms, q, offset) ==
    IF offset = 0 THEN Div(AddOf(terms), q)
    ELSE AddOf(<<Val(offset), Div(Simplify(AddOf(Append(terms, Val(- offset * q)))), q)>>)
ConstantOf(terms) == SumOver(SelectSeq(terms, Known))

\* A mutant: the constant is rounded up.
DividedSumRoundedUp(terms, q) == OffsetOut(terms, q, CeilDiv(ConstantOf(terms), q))

\* A sum divided: signs are turned when a symbol is subtracted.
DividedSum(terms, q) ==
    IF HasOpposite(terms)
    THEN MulInt(-1, Div(Simplify(AddOf([i \in DOMAIN terms |-> MulInt(-1, terms[i])])), q))
    ELSE OffsetOut(terms, q, Offset1(ConstantOf(terms), q))

DividedProduct(p, a, q, gcd) ==
    CASE p = q   -> Simplify(a)
      [] p # q /\ gcd = p -> Div(a, q \div gcd)
      [] gcd \notin {p} /\ gcd = q -> MulInt(Truncated(p, gcd), a)
      [] gcd \notin {p, q} /\ gcd > 1 -> Simplify(Div(MulInt(Truncated(p, gcd), a), q \div gcd))
      [] OTHER   -> Div(MulInt(p, a), q)

TimesInt(p, s) ==
    CASE p = 0 -> Val(0)
      [] p = 1 -> s
      [] p \notin {0, 1} /\ s.op = "Add"    -> AddOf([i \in DOMAIN s.of |-> Simplify(MulInt(p, s.of[i]))])
      [] p \notin {0, 1} /\ s.op = "Val"    -> Val(p * s.n)
      [] p \notin {0, 1} /\ s.op = "MulInt" -> MulInt(p * s.n, s.of[1])
      [] OTHER -> MulInt(p, s)
OverInt(s, q) ==
    CASE s.op = "Val" -> Val(Truncated(s.n, q))
      [] s.op = "MulInt" /\ s.n = -1 -> MulInt(-1, Div(s.of[1], q))
      [] s.op = "Add"    -> DividedSum(s.of, q)
      [] s.op = "MulInt" /\ s.n # -1 -> DividedProduct(s.n, s.of[1], q, IntGcd(Abs1(s.n), q))
      [] OTHER -> Div(s, q)

SimplifyMulInt(p, a) == IF a.op = "MulInt" THEN Simplify(MulInt(p * a.n, a.of[1])) ELSE TimesInt(p, Simplify(a))
SimplifyDiv(a, q) ==
    IF q = 1 THEN Simplify(a)
    ELSE IF a.op = "Div" THEN Simplify(Div(a.of[1], q * a.n)) ELSE OverInt(Simplify(a), q)

Simplify(t) ==
    CASE t.op = "Add"    -> Factorized(FlattenSeq([i \in DOMAIN t.of |-> Opened(t.of[i])]))
      [] t.op = "Mul"    -> Product([i \in DOMAIN t.of |-> Simplify(t.of[i])])
      [] t.op = "MulInt" -> SimplifyMulInt(t.n, t.of[1])
      [] t.op = "Div"    -> SimplifyDiv(t.of[1], t.n)
      [] OTHER           -> t

-----------------------------------------------------------------------------
(* A dimension is rewritten in several forms, of which the cheapest stays. *)

\* An integer that divides a term, and the quotient.
RECURSIVE Gcd(_)
Gcd(t) ==
    CASE t.op = "Val"    -> Abs1(t.n)
      [] t.op = "Add"    -> FoldLeft(LAMBDA g, u : IntGcd(g, Gcd(u)), Gcd(t.of[1]), Tail(t.of))
      [] t.op = "MulInt" -> Gcd(t.of[1]) * Abs1(t.n)
      [] t.op = "Div"    -> IF Gcd(t.of[1]) % t.n = 0 THEN Gcd(t.of[1]) \div t.n ELSE 1
      [] OTHER           -> 1

RECURSIVE Quotient(_, _)
Quotient(t, d) ==
    IF d = 1 THEN t
    ELSE CASE t.op = "Val" -> Val(Truncated(t.n, d))
           [] t.op = "Add" -> AddOf([i \in DOMAIN t.of |-> Quotient(t.of[i], d)])
           [] t.op = "Mul" -> Div(t, d)
           [] t.op = "MulInt" -> IF t.n = d THEN t.of[1]
                                 ELSE LET gcd == IntGcd(Abs1(t.n), d)
                                      IN  MulInt(Truncated(t.n, gcd), Quotient(t.of[1], d \div gcd))
           [] t.op = "Div" -> Div(t.of[1], t.n * d)

\* The sequences with an item of each set.
Picks(sets) == FoldLeft(LAMBDA found, items : {Append(s, x) : s \in found, x \in items}, {<<>>}, sets)

\* A sum under the divisor of its first division; and a division of a sum without the
\* terms that are multiples of the divisor.
Gathered(terms, ix, q) ==
    Div(AddOf([i \in DOMAIN terms |-> IF i = ix THEN terms[i].of[1] ELSE MulInt(q, terms[i])]), q)
UnderOneDivisor(terms) ==
    {Gathered(terms, ix, terms[ix].n) : ix \in {SelectInSeq(terms, LAMBDA t : t.op = "Div")} \ {0}}
Remaining(rest, q) == IF rest = <<>> THEN <<>> ELSE <<Div(AddOf(rest), q)>>
MultiplesOut(num, q) ==
    IF num.op # "Add" THEN {}
    ELSE {AddOf([i \in DOMAIN SelectSeq(num.of, LAMBDA t : Gcd(t) % q = 0) |->
                    Quotient(SelectSeq(num.of, LAMBDA t : Gcd(t) % q = 0)[i], q)]
                \o Remaining(SelectSeq(num.of, LAMBDA t : Gcd(t) % q # 0), q))}

RECURSIVE Wiggle(_)
Wiggle(t) ==
    CASE t.op = "Add"    -> UNION {UnderOneDivisor(sub) \cup {AddOf(sub)} :
                                      sub \in Picks([i \in DOMAIN t.of |-> Wiggle(t.of[i])])}
      [] t.op = "MulInt" -> {MulInt(t.n, a) : a \in Wiggle(t.of[1])}
      [] t.op = "Div"    -> UNION {MultiplesOut(num, t.n) \cup {Div(num, t.n)} : num \in Wiggle(t.of[1])}
      [] OTHER           -> {t}

RECURSIVE Cost(_)
Cost(t) ==
    LET sum == FoldLeft(LAMBDA c, u : c + Cost(u), 0, t.of)
    IN  CASE t.op \in {"Sym", "Val"}    -> 1
          [] t.op \in {"Add", "MulInt"} -> 2 * sum
          [] t.op \in {"Mul", "Div"}    -> 3 * sum

\* The one of least cost, and then the first before it was simplified.
Cheaper(a, b)   == Cost(a.as) < Cost(b.as) \/ (Cost(a.as) = Cost(b.as) /\ Less(a.form, b.form))
Cheapest(forms) == IF Cardinality(forms) = 1 THEN (CHOOSE f \in forms : TRUE).as
                   ELSE (CHOOSE f \in forms : \A g \in forms \ {f} : Cheaper(f, g)).as
Reduced(t)      == Cheapest({[form |-> f, as |-> Simplify(f)] : f \in Wiggle(Simplify(t))})

-----------------------------------------------------------------------------
(* Arithmetic: each operation reduces what it gives.                       *)

Plus(a, b)    == Reduced(AddOf(<<a, b>>))
Minus(a, b)   == Plus(a, Reduced(MulInt(-1, b)))
Times(a, b)   == Reduced(MulOf(<<b, a>>))
Over(a, q)    == Reduced(Div(a, q))

\* Operations with integers, one after the other.
Inc(n)  == <<"+", n>>
By(n)   == <<"*", n>>
Quot(n) == <<"/", n>>
Applied(d, step) ==
    CASE step[1] = "+" -> IF Known(d) THEN Val(d.n + step[2]) ELSE AddOf(<<d, Val(step[2])>>)
      [] step[1] = "*" -> IF Known(d) THEN Val(d.n * step[2]) ELSE MulOf(<<Val(step[2]), d>>)
      [] step[1] = "/" -> Div(d, step[2])
Through(d, steps) == FoldLeft(LAMBDA acc, step : Reduced(Applied(acc, step)), d, steps)

\* DimLike::div_ceil.
Ceiled(q)     == <<Inc(q), Inc(-1), Quot(q)>>
DivCeil(a, q) == Through(a, Ceiled(q))

TimesAll(dims) == FoldLeft(Times, Val(1), dims)

\* The value of a dimension once its symbols have some.
RECURSIVE Eval(_, _)
Eval(t, values) ==
    CASE t.op = "Val" -> t
      [] t.op = "Sym" -> IF t.n \in DOMAIN values THEN Val(values[t.n]) ELSE t
      [] OTHER -> Reduced([t EXCEPT !.of = [i \in DOMAIN t.of |-> Eval(t.of[i], values)]])
=============================================================================
