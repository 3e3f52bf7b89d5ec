------------------------------ MODULE Factoid -------------------------------
(***************************************************************************)
(* The partial facts of the inference (hir/src/infer/fact.rs, factoid.rs)  *)
(* and the rules that refine those of the inputs and outputs of a node     *)
(* (hir/src/infer/rules).  A factoid is Unknown (Any) or <<x>>; a shape is open when *)
(* more dimensions may follow; a fact is [dt, shape, value], its value a   *)
(* tensor [dt, shape, data], its data <<>> where nothing depends on them,  *)
(* its items in order where something does.  Dimensions are numbers.       *)
(***************************************************************************)
EXTENDS Integers, Sequences, SequencesExt

Unknown == <<>>
Only(x) == <<x>>
Clash   == <<"impossible", "to unify">>   \* what an error leaves
Fails   == <<>>                           \* what an operator that bails returns

IsConcrete(f) == Len(f) = 1

Closed(dims) == [open |-> FALSE, dims |-> dims]
Open(dims)   == [open |-> TRUE, dims |-> dims]
Anys(n)      == [k \in 1 .. n |-> Unknown]
BadShape     == Closed(<<Clash>>)

AnyFact   == [dt |-> Unknown, shape |-> Open(<<>>), value |-> Unknown]
FactOf(t) == [dt |-> Only(t.dt), shape |-> Closed([k \in DOMAIN t.shape |-> Only(t.shape[k])]),
              value |-> Only(t)]

Abs(x) == IF x < 0 THEN - x ELSE x

Tensor(dt, shape)         == [dt |-> dt, shape |-> shape, data |-> <<>>]
TensorOf(dt, shape, data) == [dt |-> dt, shape |-> shape, data |-> data]

-----------------------------------------------------------------------------
(* The types, and what two of them have in common.                         *)

Floats   == <<"F16", "F32", "F64">>
Signed   == <<"I8", "I16", "I32", "I64", "TDim">>
Unsigned == <<"U8", "U16", "U32", "U64">>
NumberTypes == Range(Floats) \cup (Range(Signed) \ {"TDim"}) \cup Range(Unsigned)

\* DatumType::super_types: the types of its family that are not smaller.  A
\* dimension is in the family of the others, not they in its own.
SuperTypes(dt) ==
    LET family == IF dt \in Range(Floats) THEN Floats
                  ELSE IF dt \in Range(Signed) \ {"TDim"} THEN Signed
                  ELSE IF dt \in Range(Unsigned) THEN Unsigned ELSE <<dt>>
    IN  SubSeq(family, CHOOSE i \in DOMAIN family : family[i] = dt, Len(family))

\* common_super_type: the first type of the one that is a type of the other.
CommonSuperType(a, b) ==
    LET both == SelectSeq(SuperTypes(a), LAMBDA dt : dt \in Range(SuperTypes(b)))
    IN  IF both = <<>> THEN Unknown ELSE Only(both[1])

\* super_type_for, Unknown when there is none.
SuperTypeFor(dts) ==
    FoldLeft(LAMBDA acc, dt : IF acc = Unknown THEN Unknown ELSE CommonSuperType(acc[1], dt),
             Only(dts[1]), Tail(dts))

-----------------------------------------------------------------------------
(* Unification.                                                            *)

\* Of several factoids: what is known, when they agree.
UnifyAll(factoids) ==
    LET known == factoids \ {Unknown}
    IN  IF known = {} THEN Unknown ELSE IF \A x, y \in known : x = y THEN CHOOSE x \in known : TRUE ELSE Clash
Unify(a, b) == UnifyAll({a, b})

\* zip_longest: a dimension that another shape does not have is fine when that
\* shape is open.
UnifyShapes(shapes) ==
    LET n == Max({Len(s.dims) : s \in shapes})
    IN  IF \E s \in shapes : ~ s.open /\ Len(s.dims) < n THEN BadShape
        ELSE [open |-> \A s \in shapes : s.open,
              dims |-> [k \in 1 .. n |-> UnifyAll({s.dims[k] : s \in {x \in shapes : k <= Len(x.dims)}})]]
UnifyShape(x, y) == UnifyShapes({x, y})

UnifyFact(a, b) ==
    [dt |-> Unify(a.dt, b.dt), shape |-> UnifyShape(a.shape, b.shape), value |-> Unify(a.value, b.value)]

IsClash(fact) ==
    fact.dt = Clash \/ fact.value = Clash \/ \E k \in DOMAIN fact.shape.dims : fact.shape.dims[k] = Clash

\* A shape or a fact that is fully known.
KnownShape(s) == ~ s.open /\ \A k \in DOMAIN s.dims : IsConcrete(s.dims[k])
Known(fact)   == IsConcrete(fact.dt) /\ KnownShape(fact.shape)

\* What a fact says of a tensor is true.
Matches(fact, t) ==
    /\ fact.dt \in {Unknown, Only(t.dt)}
    /\ Len(fact.shape.dims) <= Len(t.shape)
    /\ ~ fact.shape.open => Len(fact.shape.dims) = Len(t.shape)
    /\ \A k \in DOMAIN fact.shape.dims : fact.shape.dims[k] \in {Unknown, Only(t.shape[k])}
    /\ fact.value \in {Unknown, Only(t)}

-----------------------------------------------------------------------------
(* The paths to the parts of the facts of a node, and expressions on them. *)
(* A context is the facts of a node while its rules are applied, whether   *)
(* an error was met, and whether the last rule changed something.          *)

Path(side, ix, part) == [is |-> "path", side |-> side, ix |-> ix, part |-> part, k |-> 0]
DimPath(side, ix, k) == [is |-> "path", side |-> side, ix |-> ix, part |-> "dim", k |-> k]
ItemPath(side, ix, k) == [is |-> "path", side |-> side, ix |-> ix, part |-> "item", k |-> k]
Const(v)             == [is |-> "const", v |-> v]
SumOf(items)         == [is |-> "sum", items |-> items]
Times(by, item)      == [is |-> "scaled", by |-> by, item |-> item]

FactAt(ctx, p) == IF p.side = "in" THEN ctx.inputs[p.ix] ELSE ctx.outputs[p.ix]

\* get_tensorfact_path, get_shape_path, get_value_path
GetPath(fact, p) ==
    CASE p.part = "dt"    -> fact.dt
      [] p.part = "rank"  -> IF fact.shape.open THEN Unknown ELSE Only(Len(fact.shape.dims))
      [] p.part = "shape" -> fact.shape
      [] p.part = "value" -> fact.value
      [] p.part = "item"  -> IF fact.value = Unknown THEN Unknown ELSE Only(fact.value[1].data[p.k + 1])
      [] p.part = "dim"   -> IF p.k < Len(fact.shape.dims) THEN fact.shape.dims[p.k + 1]
                             ELSE IF fact.shape.open THEN Unknown ELSE Clash

\* Setting the rank, without the dimensions that were there.
SetPathAfresh(fact, p, v) ==
    CASE p.part = "dt"    -> [fact EXCEPT !.dt = Unify(v, @)]
      [] p.part = "rank"  -> IF v = Unknown THEN fact ELSE [fact EXCEPT !.shape = Closed(Anys(v[1]))]
      [] p.part = "shape" -> [fact EXCEPT !.shape = UnifyShape(v, @)]
      [] p.part = "dim"   -> [fact EXCEPT !.shape = UnifyShape(@, Open(Append(Anys(p.k), v)))]
      [] p.part \in {"value", "item"} -> fact

\* set_tensorfact_path; an item of a value can not be set.
SetPath(fact, p, v) ==
    CASE p.part = "dt"    -> [fact EXCEPT !.dt = Unify(v, @)]
      [] p.part = "rank"  -> IF v = Unknown THEN fact
                             ELSE [fact EXCEPT !.shape = IF v[1] \in Nat THEN UnifyShape(@, Closed(Anys(v[1])))
                                                         ELSE BadShape]
      [] p.part = "shape" -> [fact EXCEPT !.shape = UnifyShape(v, @)]
      [] p.part = "dim"   -> [fact EXCEPT !.shape = UnifyShape(@, Open(Append(Anys(p.k), v)))]
      [] p.part = "item"  -> fact
      [] p.part = "value" -> IF Unify(fact.value, v) \in {Unknown, Clash}
                             THEN [fact EXCEPT !.value = Unify(@, v)]
                             ELSE LET t == FactOf(Unify(fact.value, v)[1])
                                  IN  [value |-> t.value, shape |-> UnifyShape(fact.shape, t.shape),
                                       dt |-> Unify(fact.dt, t.dt)]

\* A path, a constant, or a number times one of them (ScaledExp::get).
Term(ctx, e) ==
    CASE e.is = "const"  -> e.v
      [] e.is = "path"   -> GetPath(FactAt(ctx, e), e)
      [] e.is = "scaled" -> LET v == GetPath(FactAt(ctx, e.item), e.item)
                            IN  IF IsConcrete(v) THEN Only(e.by * v[1]) ELSE v

\* The numbers among some factoids, added.
Total(values) == FoldLeft(LAMBDA acc, v : IF IsConcrete(v) THEN acc + v[1] ELSE acc, 0, values)

Terms(ctx, e) == [i \in DOMAIN e.items |-> Term(ctx, e.items[i])]

\* TExp::get
Get(ctx, e) ==
    IF e.is # "sum" THEN Term(ctx, e)
    ELSE LET values == Terms(ctx, e)
         IN  IF Clash \in Range(values) THEN Clash
             ELSE IF Unknown \in Range(values) THEN Unknown ELSE Only(Total(values))

IsShape(e)         == e.is = "path" /\ e.part = "shape"
UnifyPart(e, a, b) == IF IsShape(e) THEN UnifyShape(a, b) ELSE Unify(a, b)
ClashPart(e, v)    == IF IsShape(e) THEN Clash \in Range(v.dims) ELSE v = Clash

\* VariableExp::set
SetVariable(ctx, p, v) ==
    LET old  == GetPath(FactAt(ctx, p), p)
        new  == UnifyPart(p, old, v)
        fact == SetPath(FactAt(ctx, p), p, new)
    IN  IF ClashPart(p, old) \/ ClashPart(p, new) \/ IsClash(fact) THEN [ctx EXCEPT !.ok = FALSE]
        ELSE IF p.side = "in"
        THEN [ctx EXCEPT !.inputs[p.ix] = fact, !.changed = @ \/ old # new]
        ELSE [ctx EXCEPT !.outputs[p.ix] = fact, !.changed = @ \/ old # new]

\* ScaledExp::set: 0 times anything is 0, and a division that is not exact is
\* taken towards zero.
SetScaled(ctx, e, v) ==
    LET quotient == IF (v[1] < 0) # (e.by < 0) THEN - (Abs(v[1]) \div Abs(e.by)) ELSE Abs(v[1]) \div Abs(e.by)
    IN  CASE v = Unknown -> SetVariable(ctx, e.item, Unknown)
          [] v # Unknown /\ e.by = 0 -> IF v = Only(0) THEN ctx ELSE [ctx EXCEPT !.ok = FALSE]
          [] v # Unknown /\ e.by # 0 -> SetVariable(ctx, e.item, Only(quotient))

\* A path, a constant that v was unified with, or a number times a path.
SetTerm(ctx, e, v) ==
    CASE e.is = "path"   -> SetVariable(ctx, e, v)
      [] e.is = "scaled" -> SetScaled(ctx, e, v)
      [] e.is = "const"  -> ctx

\* The only unknown term is set to all of the value.
SetSumToValue(ctx, e, v) ==
    LET values == Terms(ctx, e)
        misses == {i \in DOMAIN values : ~ IsConcrete(values[i])}
        i      == CHOOSE i \in misses : TRUE
    IN  CASE Cardinality(misses) > 1 -> ctx
          [] Cardinality(misses) = 1 -> [SetTerm(ctx, e.items[i], v) EXCEPT !.changed = TRUE]
          [] OTHER -> IF v = Only(Total(values)) THEN ctx ELSE [ctx EXCEPT !.ok = FALSE]

\* SumExp::set: the only unknown term is found from the others; having one is
\* enough for the rule to count as used.
SetSum(ctx, e, v) ==
    LET values == Terms(ctx, e)
        misses == {i \in DOMAIN values : ~ IsConcrete(values[i])}
        i      == CHOOSE i \in misses : TRUE
        rest   == IF v = Unknown THEN Unknown ELSE Only(v[1] - Total(values))
    IN  CASE Cardinality(misses) > 1 -> ctx
          [] Cardinality(misses) = 1 -> [SetTerm(ctx, e.items[i], rest) EXCEPT !.changed = TRUE]
          [] OTHER -> IF v = Only(Total(values)) THEN ctx ELSE [ctx EXCEPT !.ok = FALSE]

\* TExp::set
Set(ctx, e, v) == IF e.is = "sum" THEN SetSum(ctx, e, v) ELSE SetTerm(ctx, e, v)

-----------------------------------------------------------------------------
(* The rules.  A rule "equals" makes its items equal.  A rule "given" adds *)
(* rules once its items are known, a rule "with" does so at once: which    *)
(* ones is for the operator to tell, from the place of the closure in its  *)
(* code and what the closures around it have seen.  "bail" is the error    *)
(* that a closure returns.                                                 *)

EqualsAll(items) == [kind |-> "equals", items |-> items]
Equals(a, b)     == EqualsAll(<<a, b>>)
Given(items, at) == [kind |-> "given", items |-> items, at |-> at, seen |-> <<>>]
With(item, at)   == [kind |-> "with", items |-> <<item>>, at |-> at, seen |-> <<>>]
Bail             == [kind |-> "bail"]

\* How the rules of the operators are written: inputs[i - 1], outputs[i - 1].
In(i, part)    == Path("in", i, part)
InDim(i, k)    == DimPath("in", i, k)
InItem(i, k)   == ItemPath("in", i, k)
Out(i, part)   == Path("out", i, part)
OutDim(i, k)   == DimPath("out", i, k)
Each(n, part)  == [i \in 1 .. n |-> In(i, part)]
EachDim(n, k)  == [i \in 1 .. n |-> InDim(i, k)]
Val(x)         == Const(Only(x))
ShapeOf(dims)  == Closed([k \in DOMAIN dims |-> Only(dims[k])])
Dims(shape)    == Const(ShapeOf(shape))
Plus(e, n)     == SumOf(<<e, Val(n)>>)
Axes(rank)     == [k \in 1 .. rank |-> k - 1]
SameType(i, o) == Equals(In(i, "dt"), Out(o, "dt"))
SameRank(i, o) == Equals(In(i, "rank"), Out(o, "rank"))
SameShape(i, o) == Equals(In(i, "shape"), Out(o, "shape"))
Start          == <<"start">>

\* The items of a closure: values for a given one, what is known for the other.
ValueOf(e, factoid) ==
    IF IsShape(e) THEN [k \in DOMAIN factoid.dims |-> factoid.dims[k][1]] ELSE factoid[1]

\* EqualsRule::apply: what all the items are, together; unify fails if they differ.
Unified(ctx, items) ==
    LET parts == {Get(ctx, items[i]) : i \in DOMAIN items}
    IN  IF IsShape(items[1]) THEN UnifyShapes(parts) ELSE UnifyAll(parts)

\* GivenRule::apply, GivenAllRule::apply, WithRule::apply: an item that is not there is an
\* error; whether the closure is called.
Missing(ctx, rule) == \E i \in DOMAIN rule.items : ClashPart(rule.items[i], Get(ctx, rule.items[i]))
Triggered(ctx, rule) ==
    rule.kind = "with" \/ \A i \in DOMAIN rule.items :
                              IF IsShape(rule.items[i]) THEN KnownShape(Get(ctx, rule.items[i]))
                              ELSE IsConcrete(Get(ctx, rule.items[i]))
=============================================================================
