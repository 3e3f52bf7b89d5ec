------------------------ MODULE PushSplitDown_proofs ------------------------
(***************************************************************************)
(* Proofs about PushSplitDown, for every model, every set of operators     *)
(* that may be merged and any number of patches.                           *)
(*                                                                         *)
(* The pass goes through the evaluation order of the graph.  The first     *)
(* part says what that order is, of any graph without a loop: the nodes    *)
(* that the outputs need, once each, in an order in which a node comes     *)
(* after those it reads.  It is a depth-first search by folds, and the     *)
(* induction is over levels.                                               *)
(*                                                                         *)
(* The second part says which pairs of readers the pass meets, and in      *)
(* which order: all the pairs of readers of one outlet, outlet after       *)
(* outlet.  What makes its patch right is that a node which replaces       *)
(* another is not replaced too, since the pass does not look at it.        *)
(* Operators that read one tensor are met among the readers of one outlet  *)
(* only, each pair in the order of the list, so that the first of all that *)
(* are the same replaces the others and is replaced by none.               *)
(*                                                                         *)
(* The third part is the loop: PInv says that the nodes in use are no      *)
(* Dummies, in spite of the dead ones that the patches before have left    *)
(* among the readers.                                                      *)
(*                                                                         *)
(* The fourth part is about compact(), which has the same order: the       *)
(* graph that it makes is searched as the first one was, with the new      *)
(* numbers, so that its order is the one its nodes are in.                 *)
(***************************************************************************)
EXTENDS PushSplitDown, ModelPatch_proofs

-----------------------------------------------------------------------------
(* Folds.  The definition of a fold names a function of the places that are left
   to fold; what it does is to go through them from the first to the last. *)

(* f folds the elements at any of the places. *)
FoldsOn(f, v, base, s, places) ==
  f = [S \in SUBSET places |-> IF S = {} THEN base ELSE LET x == Max(S) IN v[s[x]][f[S \ {x}]]]

Folded(v, base, s) == FoldLeft(LAMBDA o, m : v[m][o], base, s)

(* What is left to do when k elements are folded. *)
Steps(h, v, base, s) ==
  h = [k \in 0 .. Len(s) |-> IF k = 0 THEN base ELSE v[s[k]][h[k - 1]]]

(* The function that the definition of a fold names exists. *)
LEMMA FoldExists ==
  ASSUME NEW v, NEW base, NEW s, NEW n \in Nat
  PROVE  \E f : FoldsOn(f, v, base, s, 1 .. n)
<1> DEFINE T == {m \in Nat : \E f : FoldsOn(f, v, base, s, 1 .. m)}
<1>1. 0 \in T
  <2> DEFINE f == [S \in SUBSET (1 .. 0) |-> base]
  <2>1. 1 .. 0 = {}
    OBVIOUS
  <2>2. FoldsOn(f, v, base, s, 1 .. 0)
    BY <2>1 DEF FoldsOn
  <2> QED
    BY <2>2
<1>2. ASSUME NEW m \in Nat, m \in T PROVE m + 1 \in T
  <2>1. PICK f : FoldsOn(f, v, base, s, 1 .. m)
    BY <1>2
  <2> DEFINE D == SUBSET (1 .. m)
             E == SUBSET (1 .. m + 1)
             g == [S \in E |-> IF S \in D THEN f[S] ELSE v[s[m + 1]][f[S \ {m + 1}]]]
  <2>2. 1 .. m + 1 = (1 .. m) \cup {m + 1} /\ m + 1 \notin 1 .. m
    OBVIOUS
  <2>3. ASSUME NEW S \in E
        PROVE  g[S] = IF S = {} THEN base ELSE LET x == Max(S) IN v[s[x]][g[S \ {x}]]
    <3>1. CASE S \in D
      <4>1. f[S] = IF S = {} THEN base ELSE LET x == Max(S) IN v[s[x]][f[S \ {x}]]
        BY <2>1, <3>1 DEF FoldsOn
      <4>2. \A x : S \ {x} \in D /\ S \ {x} \in E
        BY <2>2, <3>1
      <4>3. g[S] = f[S] /\ \A x : g[S \ {x}] = f[S \ {x}]
        BY <3>1, <4>2
      <4> HIDE DEF g
      <4> QED
        BY <4>1, <4>3
    <3>2. CASE S \notin D
      <4>1. m + 1 \in S /\ S \ {m + 1} \in D /\ S \ {m + 1} \in E /\ S # {}
        BY <2>2, <3>2
      <4>2. Max(S) = m + 1
        <5>1. \A y \in S : m + 1 >= y
          OBVIOUS
        <5>2. \A x \in S : (\A y \in S : x >= y) => x = m + 1
          BY <4>1
        <5> QED
          BY <4>1, <5>1, <5>2 DEF Max
      <4>3. g[S] = v[s[m + 1]][f[S \ {m + 1}]] /\ g[S \ {m + 1}] = f[S \ {m + 1}]
        BY <3>2, <4>1
      <4> HIDE DEF g
      <4> QED
        BY <4>1, <4>2, <4>3
    <3> QED
      BY <3>1, <3>2
  <2>4. g = [S \in E |-> g[S]]
    OBVIOUS
  <2> HIDE DEF g
  <2>5. FoldsOn(g, v, base, s, 1 .. m + 1)
    BY <2>3, <2>4 DEF FoldsOn
  <2> QED
    BY <2>5
<1> HIDE DEF T
<1>3. Nat \subseteq T
  BY <1>1, <1>2, SetInduction
<1> QED
  BY <1>3 DEF T

(* A fold goes step by step. *)
LEMMA FoldSteps ==
  ASSUME NEW S, NEW s \in Seq(S), NEW v, NEW base
  PROVE  \E h : Steps(h, v, base, s) /\ Folded(v, base, s) = h[Len(s)]
<1> DEFINE n == Len(s)
           f == CHOOSE u : FoldsOn(u, v, base, s, 1 .. n)
           h == [k \in 0 .. n |-> f[1 .. k]]
<1>1. n \in Nat /\ DOMAIN s = 1 .. n
  BY LenProperties
<1>2. Folded(v, base, s) = (CHOOSE u : FoldsOn(u, v, base, s, DOMAIN s))[DOMAIN s]
  BY DEF Folded, FoldLeft, MapThenFoldSet, FoldsOn
<1>3. FoldsOn(f, v, base, s, 1 .. n)
  <2> HIDE DEF n
  <2> QED
    BY <1>1, FoldExists
<1>4. Folded(v, base, s) = f[1 .. n]
  BY <1>1, <1>2
<1> HIDE DEF f, n
<1>5. ASSUME NEW k \in 0 .. n
      PROVE  h[k] = IF k = 0 THEN base ELSE v[s[k]][h[k - 1]]
  <2>1. (1 .. k) \in SUBSET (1 .. n)
    BY <1>1
  <2>2. f[1 .. k] = IF 1 .. k = {} THEN base ELSE LET x == Max(1 .. k) IN v[s[x]][f[(1 .. k) \ {x}]]
    BY <1>3, <2>1 DEF FoldsOn
  <2>3. CASE k = 0
    <3>1. 1 .. k = {}
      BY <2>3
    <3> QED
      BY <2>2, <2>3, <3>1
  <2>4. CASE k # 0
    <3>0. k \in 1 .. k /\ k - 1 \in 0 .. n
      BY <1>1, <2>4
    <3>1. k \in 1 .. k /\ 1 .. k # {} /\ k - 1 \in 0 .. n
      BY <3>0
    <3>2. Max(1 .. k) = k
      <4>1. \A y \in 1 .. k : k >= y
        OBVIOUS
      <4>2. \A x \in 1 .. k : (\A y \in 1 .. k : x >= y) => x = k
        BY <3>1
      <4> QED
        BY <3>1, <4>1, <4>2 DEF Max
    <3>3. (1 .. k) \ {k} = 1 .. k - 1
      BY <1>1
    <3> QED
      BY <2>2, <2>4, <3>1, <3>2, <3>3
  <2> QED
    BY <2>3, <2>4
<1>6. h = [k \in 0 .. n |-> h[k]]
  OBVIOUS
<1>7. n \in 0 .. n
  BY <1>1
<1>8. h[n] = f[1 .. n]
  BY <1>7
<1> HIDE DEF h
<1>9. Steps(h, v, base, s)
  BY <1>5, <1>6 DEF Steps, n
<1> QED
  BY <1>4, <1>8, <1>9 DEF n

(* Two folds that do the same with the elements are the same. *)
LEMMA FoldSame ==
  ASSUME NEW S, NEW s \in Seq(S), NEW v, NEW w, NEW base, \A k \in DOMAIN s : v[s[k]] = w[s[k]]
  PROVE  Folded(v, base, s) = Folded(w, base, s)
<1> DEFINE n == Len(s)
<1>1. n \in Nat /\ DOMAIN s = 1 .. n
  BY LenProperties
<1>2. PICK h : Steps(h, v, base, s) /\ Folded(v, base, s) = h[n]
  BY FoldSteps
<1>3. PICK i : Steps(i, w, base, s) /\ Folded(w, base, s) = i[n]
  BY FoldSteps
<1> DEFINE T == {k \in Nat : k <= n => h[k] = i[k]}
<1>4. 0 \in T
  BY <1>1, <1>2, <1>3 DEF Steps
<1>5. ASSUME NEW k \in Nat, k \in T PROVE k + 1 \in T
  <2> SUFFICES ASSUME k + 1 <= n PROVE h[k + 1] = i[k + 1]
    OBVIOUS
  <2>1. k + 1 \in 0 .. n /\ k + 1 \in DOMAIN s /\ k + 1 # 0 /\ (k + 1) - 1 = k /\ h[k] = i[k]
    BY <1>1, <1>5
  <2>2. h[k + 1] = v[s[k + 1]][h[k]] /\ i[k + 1] = w[s[k + 1]][i[k]]
    BY <1>2, <1>3, <2>1 DEF Steps
  <2> QED
    BY <2>1, <2>2
<1>6. Nat \subseteq T
  <2> HIDE DEF T
  <2> QED
    BY <1>4, <1>5, SetInduction
<1>7. h[n] = i[n]
  BY <1>1, <1>6
<1> QED
  BY <1>2, <1>3, <1>7

-----------------------------------------------------------------------------
(* The evaluation order of ModelPatch: the recursive function that its definition
   names exists, and the order has the nodes that the outputs need, each once and
   after those it reads. *)

(* A set of nodes with all that they need. *)
Closed(g, K) ==
  \A n \in K : ~Contains(g.interface, n) => \A s \in DOMAIN g.inputs[n] : g.inputs[n][s] \in K

Sorted(g, order) ==
  /\ Unique(order)
  /\ \A k \in DOMAIN order :
       ~Contains(g.interface, order[k]) =>
         \A s \in DOMAIN g.inputs[order[k]] : \E j \in 1 .. k - 1 : order[j] = g.inputs[order[k]][s]

(* r is the order o with the nodes of W, after what they need and o has not. *)
Visits(g, o, W, r) ==
  /\ r \in Seq(Nodes(g))
  /\ ToSet(o) \cup W \subseteq ToSet(r)
  /\ \A K \in SUBSET Nodes(g) : Closed(g, K) /\ W \subseteq K => ToSet(r) \subseteq ToSet(o) \cup K
  /\ Sorted(g, o) => Sorted(g, r)

(* What visit makes of an order when v visits the inputs. *)
Visited(g, v, n, order) ==
  IF Contains(order, n) THEN order
  ELSE IF n \in ToSet(g.interface) THEN Append(order, n)
  ELSE Append(Folded(v, order, g.inputs[n]), n)

Visiting(g, v) == v = [n \in Nodes(g) |-> [order \in Seq(Nodes(g)) |-> Visited(g, v, n, order)]]

(* A sequence contains what is in the set of its elements. *)
LEMMA InToSet ==
  ASSUME NEW S, NEW s \in Seq(S), NEW x
  PROVE  /\ Contains(s, x) <=> x \in ToSet(s)
         /\ x \in ToSet(s) <=> \E k \in 1 .. Len(s) : s[k] = x
         /\ ToSet(s) \subseteq S
<1>1. Len(s) \in Nat /\ DOMAIN s = 1 .. Len(s) /\ \A k \in 1 .. Len(s) : s[k] \in S
  BY LenProperties, ElementOfSeq
<1>2. Contains(s, x) <=> \E k \in DOMAIN s : s[k] = x
  BY ContainsIs
<1> QED
  BY <1>1, <1>2 DEF ToSet

(* Nodes visited one after another. *)
LEMMA VisitsMore ==
  ASSUME NEW g, NEW o, NEW W, NEW p, NEW n, NEW r,
         Visits(g, o, W, p), Visits(g, p, {n}, r)
  PROVE  Visits(g, o, W \cup {n}, r)
<1>1. r \in Seq(Nodes(g)) /\ ToSet(o) \cup (W \cup {n}) \subseteq ToSet(r)
  BY DEF Visits
<1>2. ASSUME NEW K \in SUBSET Nodes(g), Closed(g, K), W \cup {n} \subseteq K
      PROVE  ToSet(r) \subseteq ToSet(o) \cup K
  <2>1. ToSet(p) \subseteq ToSet(o) \cup K
    BY <1>2 DEF Visits
  <2>2. ToSet(r) \subseteq ToSet(p) \cup K
    BY <1>2 DEF Visits
  <2> QED
    BY <2>1, <2>2
<1>3. Sorted(g, o) => Sorted(g, r)
  BY DEF Visits
<1> QED
  BY <1>1, <1>2, <1>3 DEF Visits

(* A fold visits all the elements. *)
LEMMA FoldVisits ==
  ASSUME NEW g, NEW v, NEW s \in Seq(Nodes(g)), NEW o \in Seq(Nodes(g)),
         \A k \in DOMAIN s : \A p \in Seq(Nodes(g)) : Visits(g, p, {s[k]}, v[s[k]][p])
  PROVE  Visits(g, o, ToSet(s), Folded(v, o, s))
<1> DEFINE n == Len(s)
<1>1. n \in Nat /\ DOMAIN s = 1 .. n
  BY LenProperties
<1>2. PICK h : Steps(h, v, o, s) /\ Folded(v, o, s) = h[n]
  BY FoldSteps
<1> DEFINE First(k) == {s[i] : i \in 1 .. k}
           T == {k \in Nat : k <= n => Visits(g, o, First(k), h[k])}
<1>3. 0 \in T
  <2>1. h[0] = o /\ First(0) = {}
    BY <1>1, <1>2 DEF Steps
  <2>2. Visits(g, o, {}, o)
    BY DEF Visits
  <2> QED
    BY <2>1, <2>2
<1>4. ASSUME NEW k \in Nat, k \in T PROVE k + 1 \in T
  <2> SUFFICES ASSUME k + 1 <= n PROVE Visits(g, o, First(k + 1), h[k + 1])
    OBVIOUS
  <2>1. k + 1 \in 0 .. n /\ k + 1 \in DOMAIN s /\ k + 1 # 0 /\ (k + 1) - 1 = k
    BY <1>1
  <2>2. Visits(g, o, First(k), h[k])
    BY <1>1, <1>4
  <2>3. h[k + 1] = v[s[k + 1]][h[k]]
    BY <1>2, <2>1 DEF Steps
  <2>4. h[k] \in Seq(Nodes(g))
    BY <2>2 DEF Visits
  <2>5. Visits(g, h[k], {s[k + 1]}, h[k + 1])
    BY <2>1, <2>3, <2>4
  <2>6. First(k + 1) = First(k) \cup {s[k + 1]}
    <3>1. 1 .. k + 1 = (1 .. k) \cup {k + 1}
      OBVIOUS
    <3> QED
      BY <3>1
  <2> HIDE DEF First, T
  <2>7. Visits(g, o, First(k) \cup {s[k + 1]}, h[k + 1])
    BY <2>2, <2>5, VisitsMore
  <2> QED
    BY <2>6, <2>7
<1> HIDE DEF First
<1>5. Nat \subseteq T
  <2> HIDE DEF T
  <2> QED
    BY <1>3, <1>4, SetInduction
<1>6. Visits(g, o, First(n), h[n])
  BY <1>1, <1>5
<1>7. First(n) = ToSet(s)
  BY <1>1 DEF ToSet, First
<1> QED
  BY <1>2, <1>6, <1>7

(* A node is put after all it reads. *)
LEMMA AppendVisits ==
  ASSUME NEW g, NEW p \in Seq(Nodes(g)), NEW n \in Nodes(g), n \notin ToSet(p),
         ~Contains(g.interface, n) => \A s \in DOMAIN g.inputs[n] : g.inputs[n][s] \in ToSet(p)
  PROVE  /\ Append(p, n) \in Seq(Nodes(g))
         /\ ToSet(Append(p, n)) = ToSet(p) \cup {n}
         /\ Sorted(g, p) => Sorted(g, Append(p, n))
<1> DEFINE L == Len(p)
           r == Append(p, n)
<1>1. L \in Nat /\ DOMAIN p = 1 .. L
  BY LenProperties
<1>2. r \in Seq(Nodes(g)) /\ DOMAIN r = 1 .. L + 1 /\ r[L + 1] = n /\ \A k \in 1 .. L : r[k] = p[k]
  <2> HIDE DEF r
  <2> QED
    BY <1>1 DEF r
<1> HIDE DEF r, L
<1>3. \A k \in 1 .. L + 1 : k \in 1 .. L \/ k = L + 1
  BY <1>1
<1>4. \A k \in 1 .. L : k \in 1 .. L + 1
  BY <1>1
<1>5. L + 1 \in 1 .. L + 1 /\ (L + 1) - 1 = L
  BY <1>1
<1>6. ToSet(r) = ToSet(p) \cup {n}
  BY <1>1, <1>2, <1>3, <1>4, <1>5 DEF ToSet
<1>7. ASSUME Sorted(g, p) PROVE Sorted(g, r)
  <2>1. Unique(r)
    <3> SUFFICES ASSUME NEW j \in 1 .. L + 1, NEW k \in 1 .. L + 1, r[j] = r[k] PROVE j = k
      BY <1>2 DEF Unique
    <3>1. \A m \in 1 .. L : p[m] # n
      BY <1>1 DEF ToSet
    <3>2. Unique(p)
      BY <1>7 DEF Sorted
    <3> QED
      BY <1>1, <1>2, <1>3, <3>1, <3>2 DEF Unique
  <2>2. ASSUME NEW k \in 1 .. L + 1, ~Contains(g.interface, r[k]), NEW s \in DOMAIN g.inputs[r[k]]
        PROVE  \E j \in 1 .. k - 1 : r[j] = g.inputs[r[k]][s]
    <3>1. CASE k \in 1 .. L
      <4>1. r[k] = p[k]
        BY <1>2, <3>1
      <4>2. PICK j \in 1 .. k - 1 : p[j] = g.inputs[p[k]][s]
        BY <1>1, <1>7, <2>2, <3>1, <4>1 DEF Sorted
      <4>3. j \in 1 .. L
        BY <1>1, <3>1
      <4> QED
        BY <1>2, <4>1, <4>2, <4>3
    <3>2. CASE k = L + 1
      <4>1. g.inputs[n][s] \in ToSet(p)
        BY <1>2, <2>2, <3>2
      <4>2. PICK j \in 1 .. L : p[j] = g.inputs[n][s]
        BY <1>1, <4>1 DEF ToSet
      <4> QED
        BY <1>2, <1>5, <3>2, <4>2
    <3> QED
      BY <1>3, <3>1, <3>2
  <2> QED
    BY <1>2, <2>1, <2>2 DEF Sorted
<1> QED
  BY <1>2, <1>6, <1>7 DEF r

(* A visit puts the node in the order, if visits of its inputs do. *)
LEMMA VisitedVisits ==
  ASSUME NEW g, IsGraph(g), NEW level \in [Nodes(g) -> Nat], Below(g, level, level),
         NEW n \in Nodes(g), NEW v, NEW o \in Seq(Nodes(g)),
         \A s \in DOMAIN g.inputs[n] : \A p \in Seq(Nodes(g)) :
           Visits(g, p, {g.inputs[n][s]}, v[g.inputs[n][s]][p])
  PROVE  Visits(g, o, {n}, Visited(g, v, n, o))
<1> DEFINE N == Nodes(g)
           ins == g.inputs[n]
           r == Visited(g, v, n, o)
<1>1. ins \in Seq(N) /\ \A s \in DOMAIN ins : ins[s] \in N
  BY InputsAreNodes
<1>2. /\ Contains(o, n) <=> n \in ToSet(o)
      /\ Contains(g.interface, n) <=> n \in ToSet(g.interface)
  BY InToSet DEF IsGraph
<1>3. CASE n \in ToSet(o)
  <2>1. r = o
    BY <1>2, <1>3 DEF Visited
  <2> QED
    BY <1>3, <2>1 DEF Visits
<1>4. CASE n \notin ToSet(o) /\ Contains(g.interface, n)
  <2>1. r = Append(o, n)
    BY <1>2, <1>4 DEF Visited
  <2>2. /\ r \in Seq(N) /\ ToSet(r) = ToSet(o) \cup {n}
        /\ Sorted(g, o) => Sorted(g, r)
    BY <1>4, <2>1, AppendVisits
  <2> HIDE DEF r
  <2>3. ToSet(o) \cup {n} \subseteq ToSet(r)
    BY <2>2
  <2>4. \A K \in SUBSET N : n \in K => ToSet(r) \subseteq ToSet(o) \cup K
    BY <2>2
  <2>5. Visits(g, o, {n}, r)
    BY <2>2, <2>3, <2>4 DEF Visits
  <2> QED
    BY <2>5 DEF r
<1>5. CASE n \notin ToSet(o) /\ ~Contains(g.interface, n)
  <2> DEFINE p == Folded(v, o, ins)
  <2>1. r = Append(p, n)
    BY <1>2, <1>5 DEF Visited
  <2>2. Visits(g, o, ToSet(ins), p)
    BY <1>1, FoldVisits
  <2> HIDE DEF p, r
  <2> DEFINE under == {m \in N : level[m] < level[n]}
  <2>3. Closed(g, under) /\ ToSet(ins) \subseteq under
    <3>1. ASSUME NEW m \in under, NEW s \in DOMAIN g.inputs[m] PROVE g.inputs[m][s] \in under
      <4>1. g.inputs[m][s] \in N /\ level[g.inputs[m][s]] < level[m] /\ level[m] < level[n]
        BY InputsAreNodes DEF Below
      <4>2. level[g.inputs[m][s]] \in Nat /\ level[m] \in Nat /\ level[n] \in Nat
        BY <4>1
      <4> QED
        BY <4>1, <4>2
    <3>2. \A s \in DOMAIN ins : ins[s] \in under
      BY <1>1 DEF Below
    <3> QED
      BY <3>1, <3>2 DEF Closed, ToSet
  <2>4. n \notin ToSet(p)
    <3>1. ToSet(p) \subseteq ToSet(o) \cup under
      BY <2>2, <2>3 DEF Visits
    <3>2. ~(level[n] < level[n])
      OBVIOUS
    <3> QED
      BY <1>5, <3>1, <3>2
  <2>5. p \in Seq(N) /\ ToSet(o) \subseteq ToSet(p) /\ ToSet(ins) \subseteq ToSet(p)
    BY <2>2 DEF Visits
  <2>6. \A s \in DOMAIN ins : ins[s] \in ToSet(p)
    BY <2>5 DEF ToSet
  <2>7. /\ r \in Seq(N) /\ ToSet(r) = ToSet(p) \cup {n}
        /\ Sorted(g, p) => Sorted(g, r)
    BY <2>1, <2>4, <2>5, <2>6, AppendVisits
  <2>8. ASSUME NEW K \in SUBSET N, Closed(g, K), n \in K PROVE ToSet(r) \subseteq ToSet(o) \cup K
    <3>1. ToSet(ins) \subseteq K
      BY <1>5, <2>8 DEF Closed, ToSet
    <3>2. ToSet(p) \subseteq ToSet(o) \cup K
      BY <2>2, <2>8, <3>1 DEF Visits
    <3> QED
      BY <2>7, <2>8, <3>2
  <2>9. Sorted(g, o) => Sorted(g, r)
    BY <2>2, <2>7 DEF Visits
  <2>10. ToSet(o) \cup {n} \subseteq ToSet(r)
    BY <2>5, <2>7
  <2>11. Visits(g, o, {n}, r)
    BY <2>7, <2>8, <2>9, <2>10 DEF Visits
  <2> QED
    BY <2>11 DEF r
<1> QED
  BY <1>3, <1>4, <1>5

(* A visit depends on what is done with the inputs only. *)
LEMMA VisitedSame ==
  ASSUME NEW g, IsGraph(g), NEW n \in Nodes(g), NEW v, NEW w, NEW o,
         \A s \in DOMAIN g.inputs[n] : v[g.inputs[n][s]] = w[g.inputs[n][s]]
  PROVE  Visited(g, v, n, o) = Visited(g, w, n, o)
<1>1. g.inputs[n] \in Seq(Nodes(g))
  BY InputsAreNodes
<1>2. Folded(v, o, g.inputs[n]) = Folded(w, o, g.inputs[n])
  BY <1>1, FoldSame
<1> QED
  BY <1>2 DEF Visited

(* The levels have a bound. *)
LEMMA LevelsBounded ==
  ASSUME NEW n \in Nat, NEW level \in [1 .. n -> Nat]
  PROVE  \E b \in Nat : \A k \in 1 .. n : level[k] < b
<1> DEFINE T == {m \in Nat : m <= n => \E b \in Nat : \A k \in 1 .. m : level[k] < b}
<1>1. 0 \in T
  <2>1. \A k \in 1 .. 0 : level[k] < 0
    OBVIOUS
  <2> QED
    BY <2>1
<1>2. ASSUME NEW m \in Nat, m \in T PROVE m + 1 \in T
  <2> SUFFICES ASSUME m + 1 <= n PROVE \E b \in Nat : \A k \in 1 .. m + 1 : level[k] < b
    OBVIOUS
  <2>1. PICK b \in Nat : \A k \in 1 .. m : level[k] < b
    BY <1>2
  <2> DEFINE c == b + level[m + 1] + 1
  <2>2. m + 1 \in 1 .. n /\ level[m + 1] \in Nat
    OBVIOUS
  <2>3. ASSUME NEW k \in 1 .. m + 1 PROVE level[k] < c
    <3>1. CASE k = m + 1
      BY <2>2, <3>1
    <3>2. CASE k # m + 1
      <4>1. k \in 1 .. m /\ k \in 1 .. n
        BY <3>2
      <4>2. level[k] < b /\ level[k] \in Nat
        BY <2>1, <4>1
      <4> QED
        BY <2>2, <4>2
    <3> QED
      BY <3>1, <3>2
  <2>4. c \in Nat
    BY <2>2
  <2> HIDE DEF c
  <2> QED
    BY <2>3, <2>4
<1>3. Nat \subseteq T
  <2> HIDE DEF T
  <2> QED
    BY <1>1, <1>2, SetInduction
<1>4. n \in T
  <2> HIDE DEF T
  <2> QED
    BY <1>3
<1> QED
  BY <1>4

(* The function that the definition of the order names exists. *)
LEMMA VisitExists ==
  ASSUME NEW g, IsGraph(g), Levelled(g)
  PROVE  \E v : Visiting(g, v)
<1> DEFINE N == Nodes(g)
           F(v, n) == [o \in Seq(N) |-> Visited(g, v, n, o)]
<1>1. PICK level \in [N -> Nat] : Below(g, level, level)
  BY DEF Levelled
<1> DEFINE T == {b \in Nat : \E v : \A n \in N : level[n] < b => v[n] = F(v, n)}
<1>2. 0 \in T
  <2>1. \A n \in N : ~(level[n] < 0)
    OBVIOUS
  <2> HIDE DEF F
  <2> QED
    BY <2>1
<1>3. ASSUME NEW b \in Nat, b \in T PROVE b + 1 \in T
  <2>1. PICK v : \A n \in N : level[n] < b => v[n] = F(v, n)
    BY <1>3
  <2> DEFINE w == [n \in N |-> IF level[n] < b THEN v[n] ELSE F(v, n)]
  <2>2. ASSUME NEW n \in N, level[n] < b + 1 PROVE w[n] = F(w, n)
    <3>1. ASSUME NEW s \in DOMAIN g.inputs[n] PROVE v[g.inputs[n][s]] = w[g.inputs[n][s]]
      <4>1. g.inputs[n][s] \in N /\ level[g.inputs[n][s]] < level[n]
        BY <1>1, InputsAreNodes DEF Below
      <4>2. level[g.inputs[n][s]] \in Nat /\ level[n] \in Nat
        BY <4>1
      <4>3. level[g.inputs[n][s]] < b
        BY <2>2, <4>1, <4>2
      <4> HIDE DEF F
      <4> QED
        BY <4>1, <4>3
    <3>2. w[n] = F(v, n)
      <4> HIDE DEF F
      <4> QED
        BY <2>1
    <3> HIDE DEF w
    <3>3. \A o : Visited(g, v, n, o) = Visited(g, w, n, o)
      BY <3>1, VisitedSame
    <3>4. F(v, n) = F(w, n)
      BY <3>3
    <3> QED
      BY <3>2, <3>4
  <2> HIDE DEF w, F
  <2> QED
    BY <2>2
<1>4. Nat \subseteq T
  <2> HIDE DEF T
  <2> QED
    BY <1>2, <1>3, SetInduction
<1>5. PICK b \in Nat : \A n \in N : level[n] < b
  <2>1. Len(g.op) \in Nat
    BY LenProperties DEF IsGraph
  <2> QED
    BY <2>1, LevelsBounded DEF Nodes
<1>6. PICK v : \A n \in N : v[n] = F(v, n)
  <2> HIDE DEF F
  <2> QED
    BY <1>4, <1>5
<1> DEFINE w == [n \in N |-> v[n]]
<1>7. ASSUME NEW n \in N PROVE F(v, n) = F(w, n)
  <2>1. \A s \in DOMAIN g.inputs[n] : v[g.inputs[n][s]] = w[g.inputs[n][s]]
    BY InputsAreNodes
  <2> HIDE DEF w
  <2>2. \A o : Visited(g, v, n, o) = Visited(g, w, n, o)
    BY <2>1, VisitedSame
  <2> QED
    BY <2>2
<1> HIDE DEF F
<1>8. w = [n \in N |-> F(w, n)]
  <2>1. \A n \in N : v[n] = F(w, n)
    BY <1>6, <1>7
  <2>2. w = [n \in N |-> v[n]]
    OBVIOUS
  <2> HIDE DEF w
  <2> QED
    BY <2>1, <2>2
<1> HIDE DEF w
<1>9. Visiting(g, w)
  BY <1>8 DEF Visiting, F
<1> QED
  BY <1>9

(* A visit of any node visits it. *)
LEMMA VisitVisits ==
  ASSUME NEW g, IsGraph(g), Levelled(g), NEW v, Visiting(g, v)
  PROVE  \A n \in Nodes(g) : \A o \in Seq(Nodes(g)) : Visits(g, o, {n}, v[n][o])
<1> DEFINE N == Nodes(g)
           W == {n \in N : \E o \in Seq(N) : ~Visits(g, o, {n}, v[n][o])}
<1> SUFFICES ASSUME W # {} PROVE FALSE
  OBVIOUS
<1>1. PICK level \in [N -> Nat] : Below(g, level, level)
  BY DEF Levelled
<1>2. PICK n \in W : \A s \in DOMAIN g.inputs[n] : g.inputs[n][s] \notin W
  <2>1. W \in SUBSET N
    OBVIOUS
  <2> HIDE DEF W, N
  <2> QED
    BY <1>1, <2>1, Lowest DEF N
<1>3. \A s \in DOMAIN g.inputs[n] : \A p \in Seq(N) :
        Visits(g, p, {g.inputs[n][s]}, v[g.inputs[n][s]][p])
  BY <1>2, InputsAreNodes
<1>4. PICK o \in Seq(N) : ~Visits(g, o, {n}, v[n][o])
  OBVIOUS
<1>5. Visits(g, o, {n}, Visited(g, v, n, o))
  <2>1. n \in N
    OBVIOUS
  <2> HIDE DEF W
  <2> QED
    BY <1>1, <1>3, <2>1, VisitedVisits
<1>6. v[n][o] = Visited(g, v, n, o)
  <2> DEFINE F(m, p) == Visited(g, v, m, p)
  <2>1. v = [m \in N |-> [p \in Seq(N) |-> F(m, p)]]
    BY DEF Visiting
  <2>2. n \in N
    OBVIOUS
  <2> HIDE DEF F, W, N
  <2>3. v[n][o] = F(n, o)
    BY <2>1, <2>2
  <2> QED
    BY <2>3 DEF F
<1> QED
  BY <1>4, <1>5, <1>6

(* The order has the nodes that the outputs need, once and after what they read. *)
LEMMA EvalOrderVisits ==
  ASSUME NEW g, IsGraph(g), Levelled(g)
  PROVE  Visits(g, <<>>, ToSet(g.outputs), EvalOrder(g)) /\ Sorted(g, EvalOrder(g))
<1> DEFINE N == Nodes(g)
           v == CHOOSE u : Visiting(g, u)
<1>1. EvalOrder(g) = Folded(v, <<>>, g.outputs)
  BY DEF EvalOrder, PostOrder, Folded, Visited, Visiting
<1>2. Visiting(g, v)
  BY VisitExists
<1> HIDE DEF v
<1>3. g.outputs \in Seq(N) /\ <<>> \in Seq(N)
  <2> HIDE DEF N
  <2>1. g.outputs \in Seq(N)
    BY DEF IsGraph, N
  <2> QED
    BY <2>1, EmptySeq
<1>4. \A k \in DOMAIN g.outputs : g.outputs[k] \in N
  BY <1>3, LenProperties, ElementOfSeq
<1>5. \A k \in DOMAIN g.outputs : \A p \in Seq(N) : Visits(g, p, {g.outputs[k]}, v[g.outputs[k]][p])
  BY <1>2, <1>4, VisitVisits
<1>6. Visits(g, <<>>, ToSet(g.outputs), EvalOrder(g))
  BY <1>1, <1>3, <1>5, FoldVisits
<1>7. Sorted(g, <<>>)
  BY DEF Sorted, Unique
<1> QED
  BY <1>6, <1>7 DEF Visits

(* The nodes of the order are the ones that the outputs need. *)
LEMMA LiveIs ==
  ASSUME NEW g, IsGraph(g), Levelled(g)
  PROVE  /\ EvalOrder(g) \in Seq(Nodes(g)) /\ Sorted(g, EvalOrder(g))
         /\ Live(g) \subseteq Nodes(g) /\ ToSet(g.outputs) \subseteq Live(g)
         /\ Closed(g, Live(g))
         /\ \A K \in SUBSET Nodes(g) : Closed(g, K) /\ ToSet(g.outputs) \subseteq K => Live(g) \subseteq K
<1> DEFINE N == Nodes(g)
           r == EvalOrder(g)
<1>1. Visits(g, <<>>, ToSet(g.outputs), r) /\ Sorted(g, r)
  BY EvalOrderVisits
<1> HIDE DEF r
<1>2. ToSet(<<>>) = {}
  BY DEF ToSet
<1>3. /\ r \in Seq(N) /\ ToSet(g.outputs) \subseteq ToSet(r)
      /\ \A K \in SUBSET N : Closed(g, K) /\ ToSet(g.outputs) \subseteq K => ToSet(r) \subseteq K
  BY <1>1, <1>2 DEF Visits
<1>4. Len(r) \in Nat /\ DOMAIN r = 1 .. Len(r) /\ \A k \in DOMAIN r : r[k] \in N
  BY <1>3, LenProperties, ElementOfSeq
<1>5. ToSet(r) \subseteq N
  BY <1>4 DEF ToSet
<1>6. Closed(g, ToSet(r))
  <2> SUFFICES ASSUME NEW k \in DOMAIN r, ~Contains(g.interface, r[k]), NEW s \in DOMAIN g.inputs[r[k]]
               PROVE  g.inputs[r[k]][s] \in ToSet(r)
    BY DEF Closed, ToSet
  <2>1. PICK j \in 1 .. k - 1 : r[j] = g.inputs[r[k]][s]
    BY <1>1 DEF Sorted
  <2>2. j \in DOMAIN r
    BY <1>4
  <2> QED
    BY <2>1, <2>2 DEF ToSet
<1> QED
  BY <1>1, <1>3, <1>5, <1>6 DEF Live, r

-----------------------------------------------------------------------------
(* The pairs that are met, in order. *)

(* The joins of the first sequences, as the definition of FlattenSeq names them. *)
Joins(f, rows, n) == f = [i \in 1 .. n |-> IF i = 1 THEN rows[i] ELSE f[i - 1] \o rows[i]]

(* They exist. *)
LEMMA JoinsExist ==
  ASSUME NEW rows, NEW n \in Nat
  PROVE  \E f : Joins(f, rows, n)
<1> DEFINE T == {m \in Nat : \E f : Joins(f, rows, m)}
<1>1. 0 \in T
  <2> DEFINE f == [i \in 1 .. 0 |-> rows[i]]
  <2>1. Joins(f, rows, 0)
    BY DEF Joins
  <2> QED
    BY <2>1
<1>2. ASSUME NEW m \in Nat, m \in T PROVE m + 1 \in T
  <2>1. PICK f : Joins(f, rows, m)
    BY <1>2
  <2> DEFINE D == 1 .. m
             E == 1 .. m + 1
             g == [i \in E |-> IF i \in D THEN f[i] ELSE IF i = 1 THEN rows[i] ELSE f[i - 1] \o rows[i]]
  <2>2. \A i \in E : i \notin D => i = m + 1 /\ (i # 1 => i - 1 \in D)
    OBVIOUS
  <2>3. \A i \in D : i \in E /\ (i # 1 => i - 1 \in D)
    OBVIOUS
  <2> HIDE DEF D, E
  <2>4. \A i \in D : g[i] = f[i]
    BY <2>3
  <2>5. ASSUME NEW i \in E PROVE g[i] = IF i = 1 THEN rows[i] ELSE g[i - 1] \o rows[i]
    <3>1. CASE i \in D
      <4>1. f[i] = IF i = 1 THEN rows[i] ELSE f[i - 1] \o rows[i]
        BY <2>1, <3>1 DEF Joins, D
      <4> HIDE DEF g
      <4> QED
        BY <2>3, <2>4, <3>1, <4>1
    <3>2. CASE i \notin D
      <4>1. g[i] = IF i = 1 THEN rows[i] ELSE f[i - 1] \o rows[i]
        BY <3>2
      <4> HIDE DEF g
      <4> QED
        BY <2>2, <2>4, <3>2, <4>1
    <3> QED
      BY <3>1, <3>2
  <2>6. g = [i \in E |-> g[i]]
    OBVIOUS
  <2> HIDE DEF g
  <2>7. Joins(g, rows, m + 1)
    BY <2>5, <2>6 DEF Joins, E
  <2> QED
    BY <2>7
<1>3. Nat \subseteq T
  <2> HIDE DEF T
  <2> QED
    BY <1>1, <1>2, SetInduction
<1>4. n \in T
  <2> HIDE DEF T
  <2> QED
    BY <1>3
<1> QED
  BY <1>4

Place(row, col) == [row |-> row, col |-> col]

(* The order of reading, row after row. *)
Before(x, y) == x.row < y.row \/ (x.row = y.row /\ x.col < y.col)

(* c reads the first n rows: at are the places of its elements. *)
ByRow(S, c, rows, n, at) ==
  /\ c \in Seq(S)
  /\ \A k \in DOMAIN c : \E i \in 1 .. n : \E j \in DOMAIN rows[i] : at[k] = Place(i, j) /\ c[k] = rows[i][j]
  /\ \A j, k \in DOMAIN c : j < k => Before(at[j], at[k])
  /\ \A i \in 1 .. n : \A j \in DOMAIN rows[i] : \E k \in DOMAIN c : at[k] = Place(i, j)

(* One more row. *)
LEMMA ByRowOne ==
  ASSUME NEW S, NEW n \in Nat, NEW rows, NEW c, NEW at, ByRow(S, c, rows, n, at),
         rows[n + 1] \in Seq(S), \A i \in 1 .. n : rows[i] \in Seq(S)
  PROVE  \E new : ByRow(S, c \o rows[n + 1], rows, n + 1, new)
<1> DEFINE row == rows[n + 1]
           L == Len(c)
           M == Len(row)
           d == c \o row
           new == [k \in 1 .. L + M |-> IF k \in 1 .. L THEN at[k] ELSE Place(n + 1, k - L)]
<1>1. /\ c \in Seq(S) /\ row \in Seq(S) /\ L \in Nat /\ M \in Nat
      /\ DOMAIN c = 1 .. L /\ DOMAIN row = 1 .. M
  BY LenProperties DEF ByRow
<1>2. /\ d \in Seq(S) /\ DOMAIN d = 1 .. L + M
      /\ \A k \in 1 .. L : d[k] = c[k]
      /\ \A k \in 1 .. L + M : k \notin 1 .. L => d[k] = row[k - L]
  <2>1. d \in Seq(S) /\ Len(d) = L + M
        /\ \A i \in 1 .. L + M : d[i] = IF i <= L THEN c[i] ELSE row[i - L]
    BY <1>1, ConcatProperties
  <2> HIDE DEF d, L, M
  <2>2. DOMAIN d = 1 .. L + M
    BY <2>1, LenProperties
  <2> QED
    BY <1>1, <2>1, <2>2
<1> HIDE DEF d, row, L, M
<1>3. /\ \A k \in 1 .. L : k \in 1 .. L + M
      /\ \A k \in 1 .. L + M : k \notin 1 .. L => k - L \in 1 .. M
      /\ \A j \in 1 .. M : L + j \in 1 .. L + M /\ L + j \notin 1 .. L /\ (L + j) - L = j
      /\ n + 1 \in 1 .. n + 1 /\ \A i \in 1 .. n : i \in 1 .. n + 1 /\ i < n + 1
      /\ \A i \in 1 .. n + 1 : i \in 1 .. n \/ i = n + 1
  BY <1>1
<1>4. /\ \A k \in 1 .. L : new[k] = at[k]
      /\ \A k \in 1 .. L + M : k \notin 1 .. L => new[k] = Place(n + 1, k - L)
  BY <1>3
<1> HIDE DEF new
<1>5. ASSUME NEW k \in 1 .. L
      PROVE  \E i \in 1 .. n : \E j \in DOMAIN rows[i] : at[k] = Place(i, j) /\ c[k] = rows[i][j]
  BY <1>1 DEF ByRow
<1>6. ASSUME NEW k \in DOMAIN d
      PROVE  \E i \in 1 .. n + 1 : \E j \in DOMAIN rows[i] : new[k] = Place(i, j) /\ d[k] = rows[i][j]
  <2>1. CASE k \in 1 .. L
    BY <1>2, <1>3, <1>4, <1>5, <2>1
  <2>2. CASE k \notin 1 .. L
    <3>1. new[k] = Place(n + 1, k - L) /\ d[k] = row[k - L] /\ k - L \in DOMAIN row
      BY <1>1, <1>2, <1>3, <1>4, <2>2
    <3> QED
      BY <1>3, <3>1 DEF row
  <2> QED
    BY <2>1, <2>2
<1>7. ASSUME NEW j \in DOMAIN d, NEW k \in DOMAIN d, j < k PROVE Before(new[j], new[k])
  <2>1. CASE k \in 1 .. L
    <3>1. j \in 1 .. L
      BY <1>1, <1>2, <1>7, <2>1
    <3> QED
      BY <1>1, <1>4, <1>7, <2>1, <3>1 DEF ByRow
  <2>2. CASE k \notin 1 .. L /\ j \in 1 .. L
    <3>1. new[k] = Place(n + 1, k - L)
      BY <1>2, <1>4, <2>2
    <3>2. PICK i \in 1 .. n : \E m \in DOMAIN rows[i] : new[j] = Place(i, m)
      BY <1>4, <1>5, <2>2
    <3> QED
      BY <1>3, <3>1, <3>2 DEF Before, Place
  <2>3. CASE k \notin 1 .. L /\ j \notin 1 .. L
    <3>1. new[k] = Place(n + 1, k - L) /\ new[j] = Place(n + 1, j - L)
      BY <1>2, <1>4, <2>3
    <3>2. j - L < k - L
      BY <1>1, <1>2, <1>7
    <3> QED
      BY <3>1, <3>2 DEF Before, Place
  <2> QED
    BY <2>1, <2>2, <2>3
<1>8. ASSUME NEW i \in 1 .. n + 1, NEW j \in DOMAIN rows[i] PROVE \E k \in DOMAIN d : new[k] = Place(i, j)
  <2>1. CASE i \in 1 .. n
    <3>1. PICK k \in DOMAIN c : at[k] = Place(i, j)
      BY <2>1 DEF ByRow
    <3> QED
      BY <1>1, <1>2, <1>3, <1>4, <3>1
  <2>2. CASE i = n + 1
    <3>1. j \in 1 .. M
      BY <1>1, <2>2 DEF row
    <3>2. L + j \in DOMAIN d /\ new[L + j] = Place(n + 1, j)
      BY <1>2, <1>3, <1>4, <3>1
    <3> QED
      BY <2>2, <3>2
  <2> QED
    BY <1>3, <2>1, <2>2
<1>9. ByRow(S, d, rows, n + 1, new)
  BY <1>2, <1>6, <1>7, <1>8 DEF ByRow
<1> QED
  BY <1>9 DEF d, row

(* What is flattened is read row after row. *)
LEMMA FlattenByRow ==
  ASSUME NEW S, NEW rows \in Seq(Seq(S))
  PROVE  \E at : ByRow(S, FlattenSeq(rows), rows, Len(rows), at)
<1> DEFINE n == Len(rows)
           f == CHOOSE g : Joins(g, rows, n)
<1>1. n \in Nat /\ DOMAIN rows = 1 .. n /\ \A i \in 1 .. n : rows[i] \in Seq(S)
  BY LenProperties, ElementOfSeq
<1>2. Joins(f, rows, n)
  <2> HIDE DEF n
  <2> QED
    BY <1>1, JoinsExist
<1>3. FlattenSeq(rows) = IF n = 0 THEN rows ELSE f[n]
  BY DEF FlattenSeq, Joins
<1> HIDE DEF f, n
<1>4. CASE n = 0
  <2>1. FlattenSeq(rows) = rows /\ rows = <<>>
    BY <1>1, <1>3, <1>4, EmptySeq DEF n
  <2>2. ByRow(S, <<>>, rows, 0, <<>>)
    BY DEF ByRow
  <2> QED
    BY <1>4, <2>1, <2>2 DEF n
<1>5. CASE n # 0
  <2> DEFINE Fine(k) == \E at : ByRow(S, f[k], rows, k, at)
             T == {k \in Nat : k # 0 /\ k <= n => Fine(k)}
  <2>1. 0 \in T
    OBVIOUS
  <2>2. ASSUME NEW k \in Nat, k \in T PROVE k + 1 \in T
    <3> HIDE DEF Fine
    <3> SUFFICES ASSUME k + 1 <= n PROVE Fine(k + 1)
      OBVIOUS
    <3>1. k + 1 \in 1 .. n /\ (k + 1) - 1 = k /\ \A i \in 1 .. k : i \in 1 .. n
      BY <1>1
    <3>2. f[k + 1] = IF k + 1 = 1 THEN rows[k + 1] ELSE f[k] \o rows[k + 1]
      BY <1>2, <3>1 DEF Joins
    <3>3. CASE k = 0
      <4> DEFINE r == rows[1]
                 at == [j \in DOMAIN r |-> Place(1, j)]
      <4>1. f[1] = r /\ r \in Seq(S)
        BY <1>1, <3>1, <3>2, <3>3
      <4>2. \A j \in DOMAIN r : at[j] = Place(1, j)
        OBVIOUS
      <4>3. \A i \in 1 .. 1 : i = 1
        OBVIOUS
      <4>4. 1 \in 1 .. 1
        OBVIOUS
      <4>5. DOMAIN r \subseteq Nat
        BY <4>1, LenProperties
      <4> HIDE DEF at, r
      <4>6. ASSUME NEW i \in DOMAIN r, NEW j \in DOMAIN r, i < j PROVE Before(at[i], at[j])
        <5>1. at[i] = Place(1, i) /\ at[j] = Place(1, j)
          BY <4>2
        <5> QED
          BY <4>6, <5>1 DEF Before, Place
      <4>7. ByRow(S, r, rows, 1, at)
        BY <4>1, <4>2, <4>3, <4>4, <4>6 DEF ByRow, r
      <4> QED
        BY <3>3, <4>1, <4>7 DEF Fine
    <3>4. CASE k # 0
      <4>1. Fine(k)
        BY <1>1, <2>2, <3>4
      <4>2. PICK at : ByRow(S, f[k], rows, k, at)
        BY <4>1 DEF Fine
      <4>3. rows[k + 1] \in Seq(S) /\ \A i \in 1 .. k : rows[i] \in Seq(S)
        BY <1>1, <3>1
      <4>4. \E new : ByRow(S, f[k] \o rows[k + 1], rows, k + 1, new)
        BY <4>2, <4>3, ByRowOne
      <4> QED
        BY <3>2, <3>4, <4>4 DEF Fine
    <3> QED
      BY <3>3, <3>4
  <2> HIDE DEF Fine
  <2>3. Nat \subseteq T
    <3> HIDE DEF T
    <3> QED
      BY <2>1, <2>2, SetInduction
  <2>4. Fine(n)
    BY <1>1, <1>5, <2>3
  <2> QED
    BY <1>3, <1>5, <2>4 DEF Fine, n
<1> QED
  BY <1>4, <1>5

(* The elements are in the order of their places. *)
LEMMA ByRowInOrder ==
  ASSUME NEW S, NEW rows, NEW n \in Nat, NEW c, NEW at, ByRow(S, c, rows, n, at),
         \A i \in 1 .. n : DOMAIN rows[i] \subseteq Nat,
         NEW j \in DOMAIN c, NEW k \in DOMAIN c, Before(at[j], at[k])
  PROVE  j < k
<1>1. j \in Nat /\ k \in Nat
  BY LenProperties DEF ByRow
<1>2. ~Before(at[k], at[j]) /\ at[j] # at[k]
  <2>1. PICK i1 \in 1 .. n : \E j1 \in DOMAIN rows[i1] : at[j] = Place(i1, j1)
    BY DEF ByRow
  <2>2. PICK i2 \in 1 .. n : \E j2 \in DOMAIN rows[i2] : at[k] = Place(i2, j2)
    BY DEF ByRow
  <2>3. PICK j1 \in DOMAIN rows[i1] : at[j] = Place(i1, j1)
    BY <2>1
  <2>4. PICK j2 \in DOMAIN rows[i2] : at[k] = Place(i2, j2)
    BY <2>2
  <2>5. i1 \in Nat /\ i2 \in Nat /\ j1 \in Nat /\ j2 \in Nat
    OBVIOUS
  <2> QED
    BY <2>3, <2>4, <2>5 DEF Before, Place
<1>3. ~(k < j) /\ j # k
  BY <1>2 DEF ByRow
<1> QED
  BY <1>1, <1>3

(* The two readers at places i and j of a sequence of inlets. *)
PairOf(s, i, j) == <<s[i].node, s[j].node>>

(* c has the pairs of s, the first of each before the second; of those that have
   the same second, in the order of the first. *)
Pairing(s, c) ==
  /\ \A k \in DOMAIN c : \E i, j \in DOMAIN s :
       /\ i < j /\ c[k] = PairOf(s, i, j)
       /\ \A h \in DOMAIN s : h < i => \E m \in DOMAIN c : m < k /\ c[m] = PairOf(s, h, j)
  /\ \A i, j \in DOMAIN s : i < j => \E k \in DOMAIN c : c[k] = PairOf(s, i, j)

(* The pairs of the readers of a node. *)
LEMMA PairsArePaired ==
  ASSUME NEW N, NEW s \in Seq([node : N, slot : Nat \ {0}])
  PROVE  Pairs(s) \in Seq(N \X N) /\ Pairing(s, Pairs(s))
<1> DEFINE n == Len(s)
           R == [i \in DOMAIN s |-> [d \in 1 .. (Len(s) - i) |-> <<s[i].node, s[i + d].node>>]]
           c == Pairs(s)
<1>1. n \in Nat /\ DOMAIN s = 1 .. n /\ \A i \in 1 .. n : s[i].node \in N
  <2>1. \A i \in 1 .. n : s[i] \in [node : N, slot : Nat \ {0}]
    BY LenProperties, ElementOfSeq
  <2> QED
    BY <2>1, LenProperties
<1>2. c = FlattenSeq(R)
  BY DEF Pairs
<1> HIDE DEF c, n
<1>3. ASSUME NEW i \in 1 .. n
      PROVE  /\ n - i \in Nat /\ DOMAIN R[i] = 1 .. n - i /\ R[i] \in Seq(N \X N)
             /\ \A d \in 1 .. n - i : i + d \in 1 .. n /\ i < i + d /\ R[i][d] = PairOf(s, i, i + d)
  <2>1. n - i \in Nat /\ \A d \in 1 .. n - i : i + d \in 1 .. n /\ i < i + d
    BY <1>1
  <2>2. R[i] = [d \in 1 .. n - i |-> PairOf(s, i, i + d)]
    BY <1>1 DEF n, PairOf
  <2>3. \A d \in 1 .. n - i : PairOf(s, i, i + d) \in N \X N
    BY <1>1, <2>1 DEF PairOf
  <2> HIDE DEF R
  <2>4. R[i] \in [1 .. n - i -> N \X N]
    BY <2>2, <2>3
  <2>5. R[i] \in Seq(N \X N)
    BY <2>1, <2>4, FunctionIsSeq
  <2> QED
    BY <2>1, <2>2, <2>4, <2>5
<1>4. R = [i \in 1 .. n |-> R[i]]
  BY <1>1
<1> HIDE DEF R
<1>5. R \in Seq(Seq(N \X N)) /\ Len(R) = n
  <2>1. R \in [1 .. n -> Seq(N \X N)]
    BY <1>3, <1>4
  <2> QED
    BY <1>1, <2>1, FunctionIsSeq
<1>6. PICK at : ByRow(N \X N, c, R, n, at)
  BY <1>2, <1>5, FlattenByRow
<1>7. c \in Seq(N \X N)
  BY <1>6 DEF ByRow
<1>8. ASSUME NEW i \in 1 .. n, NEW j \in 1 .. n, i < j
      PROVE  \E k \in DOMAIN c : at[k] = Place(i, j - i) /\ c[k] = PairOf(s, i, j)
  <2>1. j - i \in 1 .. n - i /\ i + (j - i) = j
    BY <1>1, <1>8
  <2>2. PICK k \in DOMAIN c : at[k] = Place(i, j - i)
    BY <1>3, <1>6, <2>1 DEF ByRow
  <2>3. PICK i1 \in 1 .. n : \E d1 \in DOMAIN R[i1] : at[k] = Place(i1, d1) /\ c[k] = R[i1][d1]
    BY <1>6 DEF ByRow
  <2>4. c[k] = R[i][j - i]
    BY <2>2, <2>3 DEF Place
  <2> QED
    BY <1>3, <2>1, <2>2, <2>4
<1>9. ASSUME NEW k \in DOMAIN c
      PROVE  \E i, j \in 1 .. n :
               /\ i < j /\ c[k] = PairOf(s, i, j)
               /\ \A h \in 1 .. n : h < i => \E m \in DOMAIN c : m < k /\ c[m] = PairOf(s, h, j)
  <2>1. PICK i \in 1 .. n : \E d \in DOMAIN R[i] : at[k] = Place(i, d) /\ c[k] = R[i][d]
    BY <1>6 DEF ByRow
  <2>2. PICK d \in DOMAIN R[i] : at[k] = Place(i, d) /\ c[k] = R[i][d]
    BY <2>1
  <2>3. d \in 1 .. n - i /\ i + d \in 1 .. n /\ i < i + d /\ c[k] = PairOf(s, i, i + d)
    BY <1>3, <2>2
  <2>4. ASSUME NEW h \in 1 .. n, h < i PROVE \E m \in DOMAIN c : m < k /\ c[m] = PairOf(s, h, i + d)
    <3>1. h < i + d
      BY <1>1, <2>3, <2>4
    <3>2. PICK m \in DOMAIN c : at[m] = Place(h, (i + d) - h) /\ c[m] = PairOf(s, h, i + d)
      BY <1>8, <2>3, <3>1
    <3>3. Before(at[m], at[k])
      BY <2>2, <2>4, <3>2 DEF Before, Place
    <3>4. \A q \in 1 .. n : DOMAIN R[q] \subseteq Nat
      BY <1>3
    <3>5. m < k
      BY <1>1, <1>6, <3>3, <3>4, ByRowInOrder
    <3> QED
      BY <3>2, <3>5
  <2> QED
    BY <2>3, <2>4
<1>10. Pairing(s, c)
  <2> DEFINE D == 1 .. n
  <2>a. DOMAIN s = D
    BY <1>1
  <2>b. \A k \in DOMAIN c : \E i, j \in D :
          /\ i < j /\ c[k] = PairOf(s, i, j)
          /\ \A h \in D : h < i => \E m \in DOMAIN c : m < k /\ c[m] = PairOf(s, h, j)
    BY <1>9
  <2>c. \A i, j \in D : i < j => \E k \in DOMAIN c : c[k] = PairOf(s, i, j)
    BY <1>8
  <2> HIDE DEF D
  <2>1. \A k \in DOMAIN c : \E i, j \in DOMAIN s :
          /\ i < j /\ c[k] = PairOf(s, i, j)
          /\ \A h \in DOMAIN s : h < i => \E m \in DOMAIN c : m < k /\ c[m] = PairOf(s, h, j)
    BY ONLY <2>a, <2>b
  <2>2. \A i, j \in DOMAIN s : i < j => \E k \in DOMAIN c : c[k] = PairOf(s, i, j)
    BY ONLY <2>a, <2>c
  <2> QED
    BY ONLY <2>1, <2>2 DEF Pairing
<1> QED
  BY <1>7, <1>10 DEF c

(* c has the pairs of readers of the nodes of the order. *)
Meets(g, order, c) ==
  /\ \A k \in DOMAIN c : \E q \in DOMAIN order : \E i, j \in DOMAIN g.succ[order[q]] :
       /\ i < j /\ c[k] = PairOf(g.succ[order[q]], i, j)
       /\ \A h \in DOMAIN g.succ[order[q]] : h < i =>
            \E m \in DOMAIN c : m < k /\ c[m] = PairOf(g.succ[order[q]], h, j)
  /\ \A q \in DOMAIN order : \A i, j \in DOMAIN g.succ[order[q]] : i < j =>
       \E k \in DOMAIN c : c[k] = PairOf(g.succ[order[q]], i, j)

LEMMA MetMeets ==
  ASSUME NEW g, IsGraph(g), Levelled(g)
  PROVE  Met(g) \in Seq(Nodes(g) \X Nodes(g)) /\ Meets(g, EvalOrder(g), Met(g))
<1> DEFINE N == Nodes(g)
           order == EvalOrder(g)
           n == Len(order)
           R == [k \in DOMAIN order |-> Pairs(g.succ[order[k]])]
           c == Met(g)
<1>1. n \in Nat /\ DOMAIN order = 1 .. n /\ \A q \in 1 .. n : order[q] \in N
  <2>1. order \in Seq(N)
    BY LiveIs
  <2> HIDE DEF order
  <2> QED
    BY <2>1, LenProperties, ElementOfSeq
<1>2. c = FlattenSeq(R)
  BY DEF Met
<1> HIDE DEF c, n, order
<1>3. ASSUME NEW q \in 1 .. n
      PROVE  R[q] = Pairs(g.succ[order[q]]) /\ R[q] \in Seq(N \X N) /\ Pairing(g.succ[order[q]], R[q])
  <2>1. g.succ[order[q]] \in Seq([node : N, slot : Nat \ {0}])
    BY <1>1 DEF IsGraph
  <2>2. R[q] = Pairs(g.succ[order[q]])
    BY <1>1
  <2> HIDE DEF R, N
  <2> QED
    BY <2>1, <2>2, PairsArePaired
<1>4. R = [q \in 1 .. n |-> R[q]]
  BY <1>1
<1> HIDE DEF R, N
<1>5. R \in Seq(Seq(N \X N)) /\ Len(R) = n
  <2>1. R \in [1 .. n -> Seq(N \X N)]
    BY <1>3, <1>4
  <2> QED
    BY <1>1, <2>1, FunctionIsSeq
<1>6. PICK at : ByRow(N \X N, c, R, n, at)
  BY <1>2, <1>5, FlattenByRow
<1>7. c \in Seq(N \X N)
  BY <1>6 DEF ByRow
<1>8. \A q \in 1 .. n : DOMAIN R[q] \subseteq Nat
  BY <1>3, LenProperties
<1>9. ASSUME NEW q \in 1 .. n, NEW d \in DOMAIN R[q]
      PROVE  \E k \in DOMAIN c : at[k] = Place(q, d) /\ c[k] = R[q][d]
  <2>1. PICK k \in DOMAIN c : at[k] = Place(q, d)
    BY <1>6 DEF ByRow
  <2>2. PICK q1 \in 1 .. n : \E d1 \in DOMAIN R[q1] : at[k] = Place(q1, d1) /\ c[k] = R[q1][d1]
    BY <1>6 DEF ByRow
  <2> QED
    BY <2>1, <2>2 DEF Place
<1>10. ASSUME NEW k \in DOMAIN c
       PROVE  \E q \in DOMAIN order : \E i, j \in DOMAIN g.succ[order[q]] :
                /\ i < j /\ c[k] = PairOf(g.succ[order[q]], i, j)
                /\ \A h \in DOMAIN g.succ[order[q]] : h < i =>
                     \E m \in DOMAIN c : m < k /\ c[m] = PairOf(g.succ[order[q]], h, j)
  <2>1. PICK q \in 1 .. n : \E d \in DOMAIN R[q] : at[k] = Place(q, d) /\ c[k] = R[q][d]
    BY <1>6 DEF ByRow
  <2>2. PICK d \in DOMAIN R[q] : at[k] = Place(q, d) /\ c[k] = R[q][d]
    BY <2>1
  <2> DEFINE s == g.succ[order[q]]
  <2>3. PICK i \in DOMAIN s : \E j \in DOMAIN s :
          /\ i < j /\ R[q][d] = PairOf(s, i, j)
          /\ \A h \in DOMAIN s : h < i => \E m \in DOMAIN R[q] : m < d /\ R[q][m] = PairOf(s, h, j)
    BY <1>3 DEF Pairing
  <2>4. PICK j \in DOMAIN s :
          /\ i < j /\ R[q][d] = PairOf(s, i, j)
          /\ \A h \in DOMAIN s : h < i => \E m \in DOMAIN R[q] : m < d /\ R[q][m] = PairOf(s, h, j)
    BY <2>3
  <2>5. ASSUME NEW h \in DOMAIN s, h < i PROVE \E m \in DOMAIN c : m < k /\ c[m] = PairOf(s, h, j)
    <3>1. PICK e \in DOMAIN R[q] : e < d /\ R[q][e] = PairOf(s, h, j)
      BY <2>4, <2>5
    <3>2. PICK m \in DOMAIN c : at[m] = Place(q, e) /\ c[m] = R[q][e]
      BY <1>9
    <3>3. Before(at[m], at[k])
      BY <2>2, <3>1, <3>2 DEF Before, Place
    <3>4. m < k
      BY <1>1, <1>6, <1>8, <3>3, ByRowInOrder
    <3> QED
      BY <3>1, <3>2, <3>4
  <2> HIDE DEF s
  <2>6. \E i2, j2 \in DOMAIN s :
          /\ i2 < j2 /\ c[k] = PairOf(s, i2, j2)
          /\ \A h \in DOMAIN s : h < i2 => \E m \in DOMAIN c : m < k /\ c[m] = PairOf(s, h, j2)
    BY <2>2, <2>4, <2>5
  <2> QED
    BY <1>1, <2>6 DEF s
<1>11. ASSUME NEW q \in DOMAIN order,
              NEW i \in DOMAIN g.succ[order[q]], NEW j \in DOMAIN g.succ[order[q]], i < j
       PROVE  \E k \in DOMAIN c : c[k] = PairOf(g.succ[order[q]], i, j)
  <2>1. PICK d \in DOMAIN R[q] : R[q][d] = PairOf(g.succ[order[q]], i, j)
    BY <1>1, <1>3, <1>11 DEF Pairing
  <2> QED
    BY <1>1, <1>9, <2>1
<1>12. Meets(g, order, c)
  BY <1>10, <1>11 DEF Meets
<1> QED
  BY <1>7, <1>12 DEF c, order, N

-----------------------------------------------------------------------------
(* The nodes that a patch merges. *)

(* The operators that may be merged read one tensor. *)
Single(g) == \A n \in Nodes(g) : g.op[n] \in Comparable => Len(g.inputs[n]) = 1

Merged(g) == FirstMerges(Candidates(g))

(* The first pair with b is one of the candidates, and none before it has b. *)
LEMMA MergedIsFirst ==
  ASSUME NEW g, IsGraph(g), Levelled(g)
  PROVE  /\ Merged(g) \in Seq(Nodes(g) \X Nodes(g))
         /\ \A k \in DOMAIN Merged(g) : \E z \in DOMAIN Met(g) :
              /\ Merged(g)[k] = Met(g)[z] /\ SameAs(g, Met(g)[z][1], Met(g)[z][2])
              /\ \A y \in DOMAIN Met(g) :
                   y < z /\ SameAs(g, Met(g)[y][1], Met(g)[y][2]) => Met(g)[y][2] # Met(g)[z][2]
         /\ \A j, k \in DOMAIN Merged(g) : Merged(g)[j][2] = Merged(g)[k][2] => j = k
         /\ \A z \in DOMAIN Met(g) : SameAs(g, Met(g)[z][1], Met(g)[z][2]) => DOMAIN Merged(g) # {}
<1> DEFINE N == Nodes(g)
           met == Met(g)
           same == {z \in DOMAIN met : SameAs(g, met[z][1], met[z][2])}
           cand == Candidates(g)
           first == {k \in DOMAIN cand : \A j \in 1 .. (k - 1) : cand[j][2] # cand[k][2]}
           merged == Merged(g)
<1>1. met \in Seq(N \X N)
  BY MetMeets
<1>2. cand = Chosen(met, same)
  BY DEF Candidates
<1>3. merged = Chosen(cand, first)
  BY DEF Merged, FirstMerges
<1> HIDE DEF N, met, cand, merged
<1>4. PICK from : Picks(N \X N, cand, met, same, from)
  BY <1>1, <1>2, ChosenPicks
<1>5. cand \in Seq(N \X N) /\ from \in [DOMAIN cand -> same] /\ \A k \in DOMAIN cand : cand[k] = met[from[k]]
  BY <1>4 DEF Picks
<1>6. PICK at : Picks(N \X N, merged, cand, first, at)
  BY <1>3, <1>5, ChosenPicks
<1>7. /\ merged \in Seq(N \X N) /\ at \in [DOMAIN merged -> first]
      /\ \A k \in DOMAIN merged : merged[k] = cand[at[k]]
  BY <1>6 DEF Picks
<1>8. /\ DOMAIN met \subseteq Nat /\ DOMAIN merged \subseteq Nat
      /\ Len(cand) \in Nat /\ DOMAIN cand = 1 .. Len(cand)
  BY <1>1, <1>5, <1>7, LenProperties
<1>9. ASSUME NEW j \in DOMAIN cand, NEW k \in DOMAIN cand, from[j] < from[k] PROVE j < k
  <2>1. j \in Nat /\ k \in Nat /\ from[j] \in Nat /\ from[k] \in Nat
    BY <1>5, <1>8
  <2>2. k < j => from[k] < from[j]
    BY <1>4 DEF Picks
  <2> QED
    BY <1>9, <2>1, <2>2
<1>10. ASSUME NEW k \in DOMAIN merged
       PROVE  \E z \in DOMAIN met :
                /\ merged[k] = met[z] /\ SameAs(g, met[z][1], met[z][2])
                /\ \A y \in DOMAIN met :
                     y < z /\ SameAs(g, met[y][1], met[y][2]) => met[y][2] # met[z][2]
  <2> DEFINE x == at[k]
             z == from[x]
  <2>1. x \in first /\ x \in DOMAIN cand /\ z \in same /\ merged[k] = met[z]
    BY <1>5, <1>7
  <2>2. ASSUME NEW y \in DOMAIN met, y < z, SameAs(g, met[y][1], met[y][2])
        PROVE  met[y][2] # met[z][2]
    <3>1. PICK j \in DOMAIN cand : from[j] = y
      BY <1>4, <2>2 DEF Picks
    <3>2. j < x
      BY <1>9, <2>1, <2>2, <3>1
    <3>3. j \in 1 .. x - 1
      BY <1>8, <2>1, <3>2
    <3> HIDE DEF z
    <3> QED
      BY <1>5, <2>1, <3>1, <3>3 DEF z
  <2> HIDE DEF x, z
  <2> QED
    BY <2>1, <2>2
<1>11. ASSUME NEW j \in DOMAIN merged, NEW k \in DOMAIN merged, merged[j][2] = merged[k][2] PROVE j = k
  <2>1. ASSUME NEW a \in DOMAIN merged, NEW b \in DOMAIN merged, a < b PROVE merged[a][2] # merged[b][2]
    <3>1. at[a] < at[b]
      BY <1>6, <2>1 DEF Picks
    <3>2. at[a] \in first /\ at[b] \in first /\ at[a] \in 1 .. at[b] - 1
      BY <1>7, <1>8, <3>1
    <3> QED
      BY <1>7, <3>2
  <2> QED
    BY <1>8, <1>11, <2>1
<1>12. ASSUME NEW z \in DOMAIN met, SameAs(g, met[z][1], met[z][2]) PROVE DOMAIN merged # {}
  <2>1. PICK k \in DOMAIN cand : from[k] = z
    BY <1>4, <1>12 DEF Picks
  <2>2. 1 \in first
    <3>1. 1 \in DOMAIN cand
      BY <1>8
    <3>2. 1 .. 1 - 1 = {}
      OBVIOUS
    <3> QED
      BY <3>1, <3>2
  <2> HIDE DEF first
  <2>3. \E j \in DOMAIN merged : at[j] = 1
    BY <1>6, <2>2 DEF Picks
  <2> QED
    BY <2>3
<1> QED
  BY <1>7, <1>10, <1>11, <1>12 DEF N, met, merged

(* Two readers of a node, when they read nothing else: what the place of one is. *)
LEMMA OnlyReader ==
  ASSUME NEW g, IsGraph(g), Reciprocal(g), NEW o \in Nodes(g), NEW i \in DOMAIN g.succ[o],
         Len(g.inputs[g.succ[o][i].node]) = 1
  PROVE  /\ g.succ[o][i].node \in Nodes(g)
         /\ g.succ[o][i] = Inlet(g.succ[o][i].node, 1) /\ g.inputs[g.succ[o][i].node][1] = o
<1> DEFINE N == Nodes(g)
           e == g.succ[o][i]
<1>1. e \in ToSet(g.succ[o])
  BY DEF ToSet
<1>2. PICK m \in N : \E t \in DOMAIN g.inputs[m] : g.inputs[m][t] = o /\ e = Inlet(m, t)
  <2>1. Reads(g, o, e)
    <3> HIDE DEF e
    <3> QED
      BY <1>1, ReciprocalMeans
  <2> QED
    BY <2>1 DEF Reads
<1>3. PICK t \in DOMAIN g.inputs[m] : g.inputs[m][t] = o /\ e = Inlet(m, t)
  BY <1>2
<1>4. e.node = m
  BY <1>3 DEF Inlet
<1>5. DOMAIN g.inputs[m] = 1 .. Len(g.inputs[m])
  <2>1. g.inputs[m] \in Seq(N)
    BY InputsAreNodes
  <2> QED
    BY <2>1, LenProperties
<1>6. t = 1
  <2>1. Len(g.inputs[m]) = 1
    BY <1>4
  <2> QED
    BY <1>5, <2>1
<1> QED
  BY <1>3, <1>4, <1>6

(* The node that another is merged into is not merged itself. *)
LEMMA MergedIntoKept ==
  ASSUME NEW g, IsGraph(g), Reciprocal(g), Levelled(g), Single(g),
         NEW k \in DOMAIN Merged(g), NEW l \in DOMAIN Merged(g)
  PROVE  Merged(g)[k][1] # Merged(g)[l][2]
<1> DEFINE N == Nodes(g)
           met == Met(g)
           order == EvalOrder(g)
           Succ(q) == g.succ[order[q]]
<1>1. PICK z \in DOMAIN met :
        /\ Merged(g)[k] = met[z] /\ SameAs(g, met[z][1], met[z][2])
        /\ \A y \in DOMAIN met : y < z /\ SameAs(g, met[y][1], met[y][2]) => met[y][2] # met[z][2]
  BY MergedIsFirst
<1>2. PICK w \in DOMAIN met : Merged(g)[l] = met[w] /\ SameAs(g, met[w][1], met[w][2])
  BY MergedIsFirst
<1>3. Meets(g, order, met) /\ met \in Seq(N \X N)
  BY MetMeets
<1> HIDE DEF met, order
<1>4. PICK q \in DOMAIN order : \E i, j \in DOMAIN Succ(q) :
        /\ i < j /\ met[z] = PairOf(Succ(q), i, j)
        /\ \A h \in DOMAIN Succ(q) : h < i => \E m \in DOMAIN met : m < z /\ met[m] = PairOf(Succ(q), h, j)
  BY <1>3 DEF Meets
<1>5. PICK i \in DOMAIN Succ(q), j \in DOMAIN Succ(q) :
        /\ i < j /\ met[z] = PairOf(Succ(q), i, j)
        /\ \A h \in DOMAIN Succ(q) : h < i => \E m \in DOMAIN met : m < z /\ met[m] = PairOf(Succ(q), h, j)
  BY <1>4
<1>6. PICK p \in DOMAIN order : \E u, v \in DOMAIN Succ(p) : u < v /\ met[w] = PairOf(Succ(p), u, v)
  BY <1>3 DEF Meets
<1>7. PICK u \in DOMAIN Succ(p), v \in DOMAIN Succ(p) : u < v /\ met[w] = PairOf(Succ(p), u, v)
  BY <1>6
<1> SUFFICES ASSUME met[z][1] = met[w][2] PROVE FALSE
  BY <1>1, <1>2
<1> DEFINE a == met[z][1]
           b == met[z][2]
           c == met[w][1]
<1>8. /\ a = Succ(q)[i].node /\ b = Succ(q)[j].node /\ a = Succ(p)[v].node /\ c = Succ(p)[u].node
  BY <1>5, <1>7 DEF PairOf
<1>9. order[q] \in N /\ order[p] \in N
  <2>1. order \in Seq(N)
    BY LiveIs DEF order
  <2> QED
    BY <2>1, LenProperties, ElementOfSeq
<1>10. a \in N /\ b \in N /\ c \in N
  BY <1>3, LenProperties, ElementOfSeq
<1>11. Len(g.inputs[a]) = 1 /\ SameAs(g, a, b) /\ SameAs(g, c, a)
  BY <1>1, <1>2, <1>10 DEF Single, SameAs
<1> HIDE DEF a, b, c
<1>12. Succ(q)[i] = Inlet(a, 1) /\ g.inputs[a][1] = order[q]
  <2>1. Len(g.inputs[g.succ[order[q]][i].node]) = 1
    BY <1>8, <1>11
  <2>2. LET m == g.succ[order[q]][i].node IN g.succ[order[q]][i] = Inlet(m, 1) /\ g.inputs[m][1] = order[q]
    BY <1>9, <2>1, OnlyReader
  <2> QED
    BY <1>8, <2>2
<1>13. Succ(p)[v] = Inlet(a, 1) /\ g.inputs[a][1] = order[p]
  <2>1. Len(g.inputs[g.succ[order[p]][v].node]) = 1
    BY <1>8, <1>11
  <2>2. LET m == g.succ[order[p]][v].node IN g.succ[order[p]][v] = Inlet(m, 1) /\ g.inputs[m][1] = order[p]
    BY <1>9, <2>1, OnlyReader
  <2> QED
    BY <1>8, <2>2
<1>14. Succ(p) = Succ(q) /\ v = i
  <2>1. order[p] = order[q]
    BY <1>12, <1>13
  <2>2. Unique(g.succ[order[q]])
    BY <1>9 DEF Reciprocal
  <2> QED
    BY <1>12, <1>13, <2>1, <2>2 DEF Unique
<1>15. PICK m \in DOMAIN met : m < z /\ met[m] = PairOf(Succ(q), u, j)
  BY <1>5, <1>7, <1>14
<1>16. met[m][1] = c /\ met[m][2] = b
  BY <1>8, <1>14, <1>15 DEF PairOf
<1>17. SameAs(g, c, b)
  BY <1>11 DEF SameAs
<1>18. met[m][2] # met[z][2]
  BY <1>1, <1>15, <1>16, <1>17
<1> QED
  BY <1>16, <1>18 DEF b

(* What the patch of the pass is made of. *)
LEMMA NextPatchIs ==
  ASSUME NEW g, IsGraph(g), Levelled(g)
  PROVE  LET patch == NextPatch(g)
             merged == Merged(g) IN
         /\ DOMAIN patch.nodes = DOMAIN merged
         /\ \A k \in DOMAIN merged : patch.nodes[k] = Tap(merged[k][1])
         /\ DOMAIN patch.shunt = {merged[k][2] : k \in DOMAIN merged}
         /\ patch.obliterate = DOMAIN patch.shunt
         /\ \A k \in DOMAIN merged : patch.shunt[merged[k][2]] = k
<1> DEFINE merged == Merged(g)
           second == {merged[k][2] : k \in DOMAIN merged}
           LastMerge(b) == CHOOSE k \in DOMAIN merged :
                        merged[k][2] = b /\ \A j \in DOMAIN merged : merged[j][2] = b => j <= k
           patch == NextPatch(g)
<1>1. patch = Patch([k \in DOMAIN merged |-> Tap(merged[k][1])], [b \in second |-> LastMerge(b)], second)
  BY DEF NextPatch, MergePatch, Merged
<1>2. DOMAIN merged \subseteq Nat /\ \A j, k \in DOMAIN merged : merged[j][2] = merged[k][2] => j = k
  <2>1. merged \in Seq(Nodes(g) \X Nodes(g)) /\ \A j, k \in DOMAIN merged : merged[j][2] = merged[k][2] => j = k
    BY MergedIsFirst
  <2> HIDE DEF merged
  <2> QED
    BY <2>1, LenProperties
<1> HIDE DEF merged, patch
<1>3. ASSUME NEW k \in DOMAIN merged PROVE LastMerge(merged[k][2]) = k
  <2>1. \A j \in DOMAIN merged : merged[j][2] = merged[k][2] => j = k /\ j <= k
    BY <1>2
  <2> QED
    BY <2>1
<1>4. /\ patch.nodes = [k \in DOMAIN merged |-> Tap(merged[k][1])]
      /\ patch.shunt = [b \in second |-> LastMerge(b)] /\ patch.obliterate = second
  BY <1>1 DEF Patch
<1> HIDE DEF LastMerge
<1>5. /\ DOMAIN patch.nodes = DOMAIN merged /\ \A k \in DOMAIN merged : patch.nodes[k] = Tap(merged[k][1])
      /\ DOMAIN patch.shunt = second /\ patch.obliterate = second
      /\ \A k \in DOMAIN merged : patch.shunt[merged[k][2]] = k
  BY <1>3, <1>4
<1> QED
  BY <1>5 DEF merged, patch

(* What a merged pair is. *)
LEMMA MergedAreSame ==
  ASSUME NEW g, IsGraph(g), Levelled(g), NEW k \in DOMAIN Merged(g)
  PROVE  /\ Merged(g)[k][1] \in Nodes(g) /\ Merged(g)[k][2] \in Nodes(g)
         /\ SameAs(g, Merged(g)[k][1], Merged(g)[k][2])
<1>1. Merged(g)[k] \in Nodes(g) \X Nodes(g)
  BY MergedIsFirst, LenProperties, ElementOfSeq
<1>2. SameAs(g, Merged(g)[k][1], Merged(g)[k][2])
  BY MergedIsFirst
<1> QED
  BY <1>1, <1>2

(* The patch of the pass merges nodes that compute the same of the same. *)
LEMMA NextPatchMerges ==
  ASSUME NEW g, IsGraph(g), Reciprocal(g), Levelled(g), Single(g),
         \A k \in DOMAIN g.interface : g.op[g.interface[k]] = Source
  PROVE  Merges(g, NextPatch(g))
<1> DEFINE N == Nodes(g)
           patch == NextPatch(g)
           merged == Merged(g)
<1>1. /\ DOMAIN patch.nodes = DOMAIN merged
      /\ \A k \in DOMAIN merged : patch.nodes[k] = Tap(merged[k][1])
      /\ DOMAIN patch.shunt = {merged[k][2] : k \in DOMAIN merged}
      /\ patch.obliterate = DOMAIN patch.shunt
      /\ \A k \in DOMAIN merged : patch.shunt[merged[k][2]] = k
  BY NextPatchIs
<1>2. ASSUME NEW k \in DOMAIN merged
      PROVE  /\ merged[k][1] \in N /\ merged[k][2] \in N
             /\ SameAs(g, merged[k][1], merged[k][2])
             /\ \A l \in DOMAIN merged : merged[k][1] # merged[l][2]
  BY MergedAreSame, MergedIntoKept
<1>3. ASSUME NEW n \in N, g.op[n] \in Comparable PROVE ~Contains(g.interface, n)
  <2> SUFFICES ASSUME Contains(g.interface, n) PROVE FALSE
    OBVIOUS
  <2>1. g.interface \in Seq(N)
    BY DEF IsGraph
  <2>2. PICK k \in DOMAIN g.interface : g.interface[k] = n
    BY <2>1, ContainsIs
  <2> QED
    BY <1>3, <2>2, ComparableAssumption
<1> HIDE DEF patch, merged
<1>4. ASSUME NEW k \in DOMAIN merged
      PROVE  IsTap(patch, k) /\ patch.nodes[k].tap = merged[k][1]
  <2>1. patch.nodes[k] = Tap(merged[k][1])
    BY <1>1
  <2>2. patch.nodes[k].tap = merged[k][1]
    BY <2>1 DEF Tap
  <2>3. merged[k][1] # 0
    BY <1>2 DEF Nodes
  <2> QED
    BY <2>2, <2>3 DEF IsTap
<1>5. ASSUME NEW n \in DOMAIN patch.shunt
      PROVE  /\ patch.shunt[n] \in DOMAIN patch.nodes
             /\ LET m == patch.nodes[patch.shunt[n]].tap IN
                /\ m \notin patch.obliterate
                /\ g.op[m] = g.op[n] /\ g.inputs[m] = g.inputs[n]
                /\ ~Contains(g.interface, m) /\ ~Contains(g.interface, n)
  <2>1. PICK k \in DOMAIN merged : merged[k][2] = n
    BY <1>1
  <2>2. patch.shunt[n] = k /\ patch.nodes[k].tap = merged[k][1]
    BY <1>1, <1>4, <2>1
  <2>3. merged[k][1] \notin patch.obliterate
    BY <1>1, <1>2
  <2>4. g.op[merged[k][1]] = g.op[n] /\ g.inputs[merged[k][1]] = g.inputs[n] /\ g.op[n] \in Comparable
    BY <1>2, <2>1 DEF SameAs
  <2> QED
    BY <1>1, <1>2, <1>3, <2>1, <2>2, <2>3, <2>4
<1>6. DOMAIN patch.shunt \subseteq N
  BY <1>1, <1>2
<1> QED
  BY <1>1, <1>2, <1>4, <1>5, <1>6 DEF Merges, patch

-----------------------------------------------------------------------------
(* The loop of the pass. *)

(* No node of K is a Dummy. *)
Clean(g, K) == \A n \in K : g.op[n] # Dummy

(* All that the outputs need has operators. *)
Sound(g) == \E K \in SUBSET Nodes(g) : Closed(g, K) /\ ToSet(g.outputs) \subseteq K /\ Clean(g, K)

(* The graph is given the patches of the pass only, as run_one_pass_inner does. *)
PassOnly == \A g : Patchable(g) => Patches(g) \subseteq PassPatches(g)

(* The models that the pass is run on have no Dummy, and the operators that it
   compares read one tensor. *)
PassModels == \A g \in Models : Single(g) /\ Clean(g, Nodes(g))

(* While a patch is applied: it adds no node, what it obliterates are operators,
   and what is kept are operators. *)
Merges1 ==
  /\ Added(job.patch) = {} /\ job.patch.obliterate # {}
  /\ job.patch.obliterate \subseteq Nodes(model) /\ Clean(model, job.patch.obliterate)
  /\ \E t, own, seen, kept : Grafting(model, job, meant, t, own, seen, kept) /\ Clean(model, kept)

PInv ==
  /\ IInv
  /\ Single(model)
  /\ job.at = "idle" => Levelled(model) /\ Meaning(model) = meant /\ Sound(model)
  /\ job.at = "failed" => ~Unique(meant)
  /\ Working => Merges1

(* At first nothing is a Dummy. *)
LEMMA InitIsSound ==
  ASSUME PassModels
  PROVE  Init => PInv
<1> SUFFICES ASSUME Init PROVE PInv
  OBVIOUS
<1>1. TInv /\ job.at = "idle" /\ ~Working
  BY InitMeans DEF Init, Idle, Working
<1>2. Single(model) /\ Clean(model, Nodes(model)) /\ IsGraph(model)
  BY <1>1 DEF Init, PassModels, TInv, IInv
<1>3. Closed(model, Nodes(model)) /\ ToSet(model.outputs) \subseteq Nodes(model)
  <2>1. Closed(model, Nodes(model))
    BY <1>2, InputsAreNodes DEF Closed
  <2>2. model.outputs \in Seq(Nodes(model))
    BY <1>2 DEF IsGraph
  <2> QED
    BY <2>1, <2>2, InToSet
<1> QED
  BY <1>1, <1>2, <1>3 DEF PInv, TInv, Sound

(* What a patch of the pass keeps: what the outputs need, and what replaces. *)
LEMMA PassKeeps ==
  ASSUME NEW g, IsGraph(g), Reciprocal(g), Levelled(g), Single(g), Sound(g),
         \A k \in DOMAIN g.interface : g.op[g.interface[k]] = Source,
         DOMAIN NextPatch(g).nodes # {}
  PROVE  /\ Added(NextPatch(g)) = {} /\ NextPatch(g).obliterate # {}
         /\ NextPatch(g).obliterate \subseteq Nodes(g) /\ Clean(g, NextPatch(g).obliterate)
         /\ \E old : NodesFit(g, NextPatch(g), old) /\ Clean(g, old)
<1> DEFINE N == Nodes(g)
           patch == NextPatch(g)
           merged == Merged(g)
           into == {merged[k][1] : k \in DOMAIN merged}
<1>1. Merges(g, patch)
  BY NextPatchMerges
<1>2. /\ DOMAIN patch.nodes = DOMAIN merged
      /\ \A k \in DOMAIN merged : patch.nodes[k] = Tap(merged[k][1])
      /\ DOMAIN patch.shunt = {merged[k][2] : k \in DOMAIN merged}
      /\ patch.obliterate = DOMAIN patch.shunt
      /\ \A k \in DOMAIN merged : patch.shunt[merged[k][2]] = k
  BY NextPatchIs
<1>3. ASSUME NEW k \in DOMAIN merged
      PROVE  /\ merged[k][1] \in N /\ merged[k][2] \in N
             /\ SameAs(g, merged[k][1], merged[k][2])
             /\ \A l \in DOMAIN merged : merged[k][1] # merged[l][2]
  BY MergedAreSame, MergedIntoKept
<1>4. PICK K \in SUBSET N : Closed(g, K) /\ ToSet(g.outputs) \subseteq K /\ Clean(g, K)
  BY DEF Sound
<1>5. \A z \in DOMAIN Met(g) : \A n \in N :
        n \in {Met(g)[z][1], Met(g)[z][2]} /\ Len(g.inputs[n]) = 1 => g.inputs[n][1] \in K
  <2> SUFFICES ASSUME NEW z \in DOMAIN Met(g), NEW n \in N,
                      n \in {Met(g)[z][1], Met(g)[z][2]}, Len(g.inputs[n]) = 1
               PROVE  g.inputs[n][1] \in K
    OBVIOUS
  <2> DEFINE order == EvalOrder(g)
  <2>1. PICK q \in DOMAIN order : \E i, j \in DOMAIN g.succ[order[q]] : Met(g)[z] = PairOf(g.succ[order[q]], i, j)
    BY MetMeets DEF Meets
  <2>2. PICK i \in DOMAIN g.succ[order[q]] : g.succ[order[q]][i].node = n
    BY <2>1 DEF PairOf
  <2>3. order[q] \in Live(g)
    BY DEF Live, ToSet
  <2>4. Live(g) \subseteq K /\ Live(g) \subseteq N
    BY <1>4, LiveIs
  <2> HIDE DEF order
  <2>5. Len(g.inputs[g.succ[order[q]][i].node]) = 1 /\ order[q] \in N
    BY <2>2, <2>3, <2>4
  <2>6. g.inputs[g.succ[order[q]][i].node][1] = order[q]
    BY <2>5, OnlyReader
  <2> QED
    BY <2>2, <2>3, <2>4, <2>6
<1>6. ASSUME NEW n \in into
      PROVE  /\ n \in N \ patch.obliterate /\ g.op[n] \in Comparable
             /\ \A s \in DOMAIN g.inputs[n] : g.inputs[n][s] \in K
  <2>1. PICK k \in DOMAIN merged : merged[k][1] = n
    OBVIOUS
  <2>2. n \in N \ patch.obliterate /\ g.op[n] \in Comparable
    BY <1>2, <1>3, <2>1 DEF SameAs
  <2>3. Len(g.inputs[n]) = 1
    BY <2>2 DEF Single
  <2>4. PICK z \in DOMAIN Met(g) : merged[k] = Met(g)[z]
    BY MergedIsFirst
  <2>5. g.inputs[n][1] \in K
    BY <1>5, <2>1, <2>2, <2>3, <2>4
  <2>6. \A s \in DOMAIN g.inputs[n] : s = 1
    <3>1. g.inputs[n] \in Seq(N)
      BY <2>2, InputsAreNodes
    <3> QED
      BY <2>3, <3>1, LenProperties
  <2> QED
    BY <2>2, <2>5, <2>6
<1> HIDE DEF patch, merged
<1>7. Added(patch) = {}
  BY <1>1 DEF Merges, Added
<1>8. patch.obliterate # {} /\ patch.obliterate \subseteq N
  BY <1>2, <1>3 DEF patch
<1>9. Clean(g, patch.obliterate)
  <2> SUFFICES ASSUME NEW n \in patch.obliterate PROVE g.op[n] # Dummy
    BY DEF Clean
  <2>1. PICK k \in DOMAIN merged : merged[k][2] = n
    BY <1>2
  <2> QED
    BY <1>3, <2>1, ComparableAssumption DEF SameAs
<1> DEFINE old == (K \cup into) \ patch.obliterate
<1>10. Clean(g, old)
  BY <1>4, <1>6, ComparableAssumption DEF Clean
<1>11. NodesFit(g, patch, old)
  <2>1. old \subseteq N \ patch.obliterate
    BY <1>4, <1>6
  <2>2. K \subseteq old \cup DOMAIN patch.shunt
    BY <1>2
  <2>3. \A n \in old : ~Contains(g.interface, n) =>
          \A s \in DOMAIN g.inputs[n] : g.inputs[n][s] \in old \cup DOMAIN patch.shunt
    <3> SUFFICES ASSUME NEW n \in old, ~Contains(g.interface, n), NEW s \in DOMAIN g.inputs[n]
                 PROVE  g.inputs[n][s] \in K
      BY <2>2
    <3>1. CASE n \in K
      BY <1>4, <3>1 DEF Closed
    <3>2. CASE n \in into
      <4> HIDE DEF into
      <4> QED
        BY <1>6, <3>2
    <3> QED
      BY <3>1, <3>2
  <2>4. \A k \in DOMAIN g.outputs : g.outputs[k] \in old \cup DOMAIN patch.shunt
    BY <1>4, <2>2 DEF ToSet
  <2>5. \A n \in DOMAIN patch.shunt : Stays(patch, old, patch.shunt[n])
    <3> SUFFICES ASSUME NEW n \in DOMAIN patch.shunt PROVE patch.nodes[patch.shunt[n]].tap \in old
      BY DEF Stays
    <3>1. PICK k \in DOMAIN merged : merged[k][2] = n
      BY <1>2
    <3>2. patch.shunt[n] = k /\ patch.nodes[k] = Tap(merged[k][1])
      BY <1>2, <3>1
    <3>3. patch.nodes[patch.shunt[n]].tap = merged[k][1]
      BY <3>2 DEF Tap
    <3> QED
      BY <1>6, <3>3
  <2> HIDE DEF old
  <2> QED
    BY <1>7, <2>1, <2>3, <2>4, <2>5 DEF NodesFit
<1> HIDE DEF old
<1> QED
  BY <1>7, <1>8, <1>9, <1>10, <1>11 DEF patch

(* A graph whose operators are as they were, or Dummies, and whose nodes read as
   many tensors. *)
LEMMA SingleStays ==
  ASSUME NEW g, NEW h, Single(g), Nodes(h) = Nodes(g), IsGraph(g), IsGraph(h),
         \A n \in Nodes(g) : h.op[n] \in {g.op[n], Dummy} /\ DOMAIN h.inputs[n] = DOMAIN g.inputs[n]
  PROVE  Single(h)
<1> SUFFICES ASSUME NEW n \in Nodes(g), h.op[n] \in Comparable PROVE Len(h.inputs[n]) = 1
  BY DEF Single
<1>1. Len(g.inputs[n]) = 1
  BY ComparableAssumption DEF Single
<1>2. g.inputs[n] \in Seq(Nodes(g)) /\ h.inputs[n] \in Seq(Nodes(g))
  BY InputsAreNodes
<1>3. /\ DOMAIN g.inputs[n] = 1 .. Len(g.inputs[n]) /\ DOMAIN h.inputs[n] = 1 .. Len(h.inputs[n])
      /\ Len(h.inputs[n]) \in Nat
  BY <1>2, LenProperties
<1>4. 1 .. Len(h.inputs[n]) = 1 .. 1
  BY <1>1, <1>3
<1> QED
  BY ONLY <1>3, <1>4, SameInterval

(* What is compacted has no Dummy in use. *)
LEMMA CompactIsSound ==
  ASSUME NEW g, IsGraph(g), Unique(g.outputs), Single(g), Sound(g), NEW order, Ordered(g, order)
  PROVE  Single(Translated(g, order)) /\ Sound(Translated(g, order))
<1> DEFINE h == Translated(g, order)
           N == Nodes(h)
<1>1. IsGraph(h) /\ Renumbered(g, order, h)
  BY TranslatedIs
<1>2. PICK K \in SUBSET Nodes(g) : Closed(g, K) /\ ToSet(g.outputs) \subseteq K /\ Clean(g, K)
  BY DEF Sound
<1> HIDE DEF h
<1>3. ASSUME NEW j \in N
      PROVE  /\ order[j] \in Nodes(g)
             /\ Contains(h.interface, j) <=> Contains(g.interface, order[j])
             /\ Contains(g.interface, order[j]) => h.op[j] = Source
             /\ ~Contains(g.interface, order[j]) =>
                  /\ h.op[j] = g.op[order[j]] /\ DOMAIN h.inputs[j] = DOMAIN g.inputs[order[j]]
                  /\ \A s \in DOMAIN h.inputs[j] :
                       h.inputs[j][s] \in N /\ order[h.inputs[j][s]] = g.inputs[order[j]][s]
  BY <1>1 DEF Renumbered
<1>4. /\ DOMAIN h.outputs = DOMAIN g.outputs
      /\ \A k \in DOMAIN g.outputs : h.outputs[k] \in N /\ order[h.outputs[k]] = g.outputs[k]
  BY <1>1 DEF Renumbered
<1>5. Single(h)
  <2> SUFFICES ASSUME NEW j \in N, h.op[j] \in Comparable PROVE Len(h.inputs[j]) = 1
    BY DEF Single
  <2>1. ~Contains(g.interface, order[j])
    BY <1>3, ComparableAssumption
  <2>2. order[j] \in Nodes(g) /\ Len(g.inputs[order[j]]) = 1 /\ DOMAIN h.inputs[j] = DOMAIN g.inputs[order[j]]
    BY <1>3, <2>1 DEF Single
  <2>3. g.inputs[order[j]] \in Seq(Nodes(g)) /\ h.inputs[j] \in Seq(N)
    BY <1>1, <2>2, InputsAreNodes
  <2>4. /\ DOMAIN g.inputs[order[j]] = 1 .. Len(g.inputs[order[j]]) /\ DOMAIN h.inputs[j] = 1 .. Len(h.inputs[j])
        /\ Len(h.inputs[j]) \in Nat
    BY <2>3, LenProperties
  <2>5. 1 .. Len(h.inputs[j]) = 1 .. 1
    BY <2>2, <2>4
  <2> QED
    BY ONLY <2>4, <2>5, SameInterval
<1> DEFINE L == {j \in N : order[j] \in K}
<1>6. Closed(h, L)
  BY <1>2, <1>3 DEF Closed
<1>7. ToSet(h.outputs) \subseteq L
  BY <1>2, <1>4 DEF ToSet
<1>8. Clean(h, L)
  <2>1. Source # Dummy
    BY DEF Source, Dummy
  <2> QED
    BY <1>2, <1>3, <2>1 DEF Clean
<1> HIDE DEF L
<1>9. L \in SUBSET N
  BY DEF L
<1> QED
  BY <1>5, <1>6, <1>7, <1>8, <1>9 DEF Sound, h

(* Every step keeps it. *)
LEMMA PassKeepsPInv ==
  ASSUME PassOnly, PInv, IInv', [Next]_vars
  PROVE  PInv'
<1>1. CASE AnyPatch
  <2>1. job.at = "idle" /\ Patchable(model) /\ Sound(model)
    BY <1>1 DEF AnyPatch, MayStart, PInv, IInv, Patchable
  <2>2. PICK patch \in Patches(model) : StartPatch(patch)
    BY <1>1 DEF AnyPatch
  <2>3. patch = NextPatch(model) /\ patch.nodes # <<>>
    BY <2>1, <2>2 DEF PassOnly, PassPatches
  <2>4. /\ IsGraph(model) /\ Reciprocal(model) /\ Levelled(model) /\ Single(model)
        /\ \A k \in DOMAIN model.interface : model.op[model.interface[k]] = Source
        /\ Meaning(model) = meant
    BY <2>1 DEF PInv, Patchable
  <2>5. DOMAIN patch.nodes # {}
    <3>1. patch.nodes \in Seq(ToSet(patch.nodes))
      BY <2>2 DEF StartPatch, Fits
    <3> QED
      BY <2>3, <3>1, NoPlaceIsEmpty
  <2>6. /\ Added(patch) = {} /\ patch.obliterate # {}
        /\ patch.obliterate \subseteq Nodes(model) /\ Clean(model, patch.obliterate)
        /\ \E old : NodesFit(model, patch, old) /\ Clean(model, old)
    BY <2>1, <2>3, <2>4, <2>5, PassKeeps
  <2>7. PICK old : NodesFit(model, patch, old) /\ Clean(model, old)
    BY <2>6
  <2>8. Equivalent(patch, model)
    BY <2>3, <2>4, NextPatchMerges, MergesFit
  <2>9. /\ job'.at = "shunting" /\ job'.patch = patch
        /\ Nodes(model) \subseteq Nodes(model') /\ Len(model'.op) = Len(model.op) + Cardinality(Added(patch))
        /\ \A k \in Nodes(model) : model'.op[k] = model.op[k] /\ model'.inputs[k] = model.inputs[k]
        /\ \E t, own, seen :
             Grafting(model', job', meant', t, own, seen, old \cup Sown(patch, job'.mapping))
    BY <2>2, <2>4, <2>7, <2>8, StartPatchGrafts DEF PInv
  <2>10. Nodes(model') = Nodes(model)
    <3>1. Cardinality(Added(patch)) = 0
      BY <2>6, FS_EmptySet
    <3>2. Len(model.op) \in Nat
      BY <2>4, LenProperties DEF IsGraph
    <3> QED
      BY <2>9, <3>1, <3>2 DEF Nodes
  <2>11. old \cup Sown(patch, job'.mapping) = old
    BY <2>6 DEF Sown
  <2>12. old \subseteq Nodes(model)
    BY <2>7 DEF NodesFit
  <2>13. \E t, own, seen : Grafting(model', job', meant', t, own, seen, old)
    BY <2>9, <2>11
  <2>14. Clean(model', old) /\ Clean(model', patch.obliterate)
    BY <2>6, <2>7, <2>9, <2>12 DEF Clean
  <2>15. Merges1'
    BY <2>6, <2>9, <2>10, <2>13, <2>14 DEF Merges1
  <2>16. Single(model')
    BY <2>4, <2>9, <2>10, SingleStays DEF IInv
  <2> QED
    BY <2>9, <2>15, <2>16 DEF PInv
<1>2. CASE ShuntOne
  <2>1. Working
    BY <1>2 DEF ShuntOne, Working
  <2>2. PICK t, own, seen, kept : Grafting(model, job, meant, t, own, seen, kept) /\ Clean(model, kept)
    BY <2>1 DEF PInv, Merges1
  <2>3. /\ job'.at = "shunting" /\ job'.patch = job.patch /\ model'.op = model.op
        /\ \A n \in Nodes(model) : DOMAIN model'.inputs[n] = DOMAIN model.inputs[n]
        /\ Grafting(model', job', meant', t, own, seen, kept)
    BY <1>2, <2>2, ShuntOneGrafts DEF PInv
  <2>4. Nodes(model') = Nodes(model) /\ Clean(model', kept) /\ Clean(model', job'.patch.obliterate)
    BY <2>1, <2>2, <2>3 DEF Nodes, Clean, PInv, Merges1
  <2>5. Single(model')
    BY <2>3, <2>4, SingleStays DEF PInv, IInv
  <2>6. Merges1'
    BY <2>1, <2>3, <2>4 DEF PInv, Merges1
  <2> QED
    BY <2>3, <2>5, <2>6 DEF PInv
<1>3. CASE RefuseOutputs
  <2>1. job'.at = "failed" /\ model' = model /\ Working
    BY <1>3 DEF RefuseOutputs, Working
  <2>2. PICK t, own, seen, kept : Grafting(model, job, meant, t, own, seen, kept)
    BY <2>1 DEF PInv, Merges1
  <2>3. meant' = meant /\ ~Unique(meant)
    BY <1>3, <2>2, RefusedMeanSame
  <2> QED
    BY <2>1, <2>3 DEF PInv, Working
<1>4. CASE AcceptOutputs
  <2>1. Working
    BY <1>4 DEF AcceptOutputs, Working
  <2>2. PICK t, own, seen, kept : Grafting(model, job, meant, t, own, seen, kept) /\ Clean(model, kept)
    BY <2>1 DEF PInv, Merges1
  <2>3. /\ job'.at = "wiring" /\ job'.patch = job.patch /\ model' = model
        /\ Grafting(model', job', meant', t, own, seen, kept)
    BY <1>4, <2>2, AcceptOutputsGrafts DEF PInv
  <2>4. Merges1'
    BY <2>1, <2>2, <2>3 DEF PInv, Merges1
  <2> QED
    BY <2>3, <2>4 DEF PInv
<1>5. CASE WireOne
  <2>1. Working
    BY <1>5 DEF WireOne, Working
  <2>2. PICK t, own, seen, kept : Grafting(model, job, meant, t, own, seen, kept) /\ Clean(model, kept)
    BY <2>1 DEF PInv, Merges1
  <2>3. Added(job.patch) # {}
    BY <1>5, <2>2, WireOneGrafts DEF PInv
  <2> QED
    BY <2>1, <2>3 DEF PInv, Merges1
<1>6. CASE FinishPatch
  <2>1. Working
    BY <1>6 DEF FinishPatch, Working
  <2>2. PICK t, own, seen, kept : Grafting(model, job, meant, t, own, seen, kept) /\ Clean(model, kept)
    BY <2>1 DEF PInv, Merges1
  <2>3. Levelled(model') /\ Meaning(model') = meant
    BY <1>6, <2>2, FinishPatchMeans DEF PInv
  <2>4. /\ job.at = "wiring" /\ job.left = {} /\ job'.at = "idle" /\ meant' = meant
        /\ Nodes(model') = Nodes(model) /\ model'.inputs = model.inputs /\ model'.outputs = model.outputs
        /\ model'.interface = job.interface
        /\ \A n \in Nodes(model) :
             model'.op[n] = IF n \in job.patch.obliterate THEN Dummy ELSE model.op[n]
    BY <1>6, FinishPatchIs DEF PInv
  <2>5. kept \subseteq Nodes(model) \ job.patch.obliterate /\ Waiting(job) = {} /\ Unshunted(job) = {}
    BY <2>2, <2>4 DEF Grafting, Waiting, Pending, Unshunted
  <2>6. Clean(model', kept)
    BY <2>2, <2>4, <2>5 DEF Clean
  <2>7. Closed(model', kept)
    BY <2>2, <2>4, <2>5 DEF Grafting, Told, Closed
  <2>8. ToSet(model'.outputs) \subseteq kept
    BY <2>2, <2>4, <2>5 DEF Grafting, Shows, ToSet
  <2>9. Sound(model')
    BY <2>4, <2>5, <2>6, <2>7, <2>8 DEF Sound
  <2>10. Single(model')
    BY <2>4, SingleStays DEF PInv, IInv
  <2> QED
    BY <2>3, <2>4, <2>9, <2>10 DEF PInv, Working
<1>7. CASE CompactModel
  <2>1. /\ job.at = "idle" /\ job' = job /\ meant' = meant
        /\ Ordered(model, TranslationOrder(model)) /\ model' = Translated(model, TranslationOrder(model))
    BY <1>7 DEF CompactModel, Compact
  <2>2. /\ IsGraph(model) /\ Unique(model.outputs) /\ Levelled(model) /\ Meaning(model) = meant
        /\ Single(model) /\ Sound(model)
    BY <2>1 DEF PInv, IInv
  <2>3. Levelled(model') /\ Meaning(model') = meant
    BY <1>7, <2>2, CompactModelMeans DEF PInv
  <2>4. Single(model') /\ Sound(model')
    BY <2>1, <2>2, CompactIsSound
  <2> QED
    BY <2>1, <2>3, <2>4 DEF PInv, Working
<1>8. CASE UNCHANGED vars
  <2>1. model' = model /\ job' = job /\ meant' = meant
    BY <1>8 DEF vars
  <2>2. Merges1 => Merges1'
    BY <2>1 DEF Merges1
  <2> QED
    BY <2>1, <2>2 DEF PInv, Working
<1> QED
  BY <1>1, <1>2, <1>3, <1>4, <1>5, <1>6, <1>7, <1>8 DEF Next

-----------------------------------------------------------------------------
(* The theorems. *)

(* The invariant of the pass holds in every behaviour. *)
THEOREM PassInvariance ==
  ASSUME PassOnly, PassModels
  PROVE  Spec => []PInv
<1>1. Init => PInv
  BY InitIsSound
<1>2. ASSUME PInv, IInv', [Next]_vars PROVE PInv'
  BY <1>2, PassKeepsPInv
<1> QED
  BY <1>1, <1>2, Invariance, PTL DEF Spec

(* Whatever operators of one input the pass merges, patch after patch, in a graph
   that keeps the dead nodes, the outputs mean what they meant. *)
THEOREM PassPreservesMeaning ==
  ASSUME PassOnly, PassModels
  PROVE  Spec => []MeaningPreserved
<1>1. PInv => MeaningPreserved
  BY DEF PInv, MeaningPreserved
<1> QED
  BY <1>1, PassInvariance, PTL

(* No operator in use is a Dummy: what a patch obliterates is not what another
   node of the same patch is merged into, nor what a dead one still reads. *)
THEOREM NoDummyIsLive ==
  ASSUME PassOnly, PassModels
  PROVE  Spec => []NoLiveDummy
<1>1. ASSUME PInv, job.at = "idle", NEW n \in Live(model) PROVE model.op[n] # Dummy
  <2>1. IsGraph(model) /\ Levelled(model)
    BY <1>1 DEF PInv, IInv
  <2>2. PICK K \in SUBSET Nodes(model) :
          Closed(model, K) /\ ToSet(model.outputs) \subseteq K /\ Clean(model, K)
    BY <1>1 DEF PInv, Sound
  <2>3. n \in K
    BY <1>1, <2>1, <2>2, LiveIs
  <2> QED
    BY <2>2, <2>3 DEF Clean
<1>2. PInv => NoLiveDummy
  BY <1>1 DEF NoLiveDummy
<1> QED
  BY <1>2, PassInvariance, PTL

(* The patches applied are counted. *)
Counted == applied \in Nat

LEMMA AppliedIsCounted == Spec => []Counted
<1>1. Init => Counted
  BY DEF Init, Counted
<1>2. ASSUME Counted, [Next]_vars PROVE Counted'
  <2>1. applied' \in {applied, applied + 1}
    BY <1>2 DEF Next, vars, AnyPatch, StartPatch, ShuntOne, RefuseOutputs, AcceptOutputs, WireOne, FinishPatch, CompactModel
  <2> QED
    BY <1>2, <2>1 DEF Counted
<1> QED
  BY <1>1, <1>2, PTL DEF Spec

(* Every patch obliterates an operator, and none comes back: the loop ends. *)
THEOREM PatchesMerge ==
  ASSUME PassOnly, PassModels
  PROVE  Spec => EachPatchMerges
<1>1. ASSUME PInv, Counted, [Next]_vars
      PROVE  [applied' > applied /\ Merging(model) =>
                /\ Dummies(model) \subseteq Dummies(model')
                /\ Dummies(model) # Dummies(model')]_vars
  <2> SUFFICES ASSUME applied' > applied
               PROVE  Dummies(model) \subseteq Dummies(model') /\ Dummies(model) # Dummies(model')
    OBVIOUS
  <2>1. FinishPatch
    <3>1. applied' # applied
      BY <1>1 DEF Counted
    <3> QED
      BY <1>1, <3>1 DEF Next, vars, AnyPatch, StartPatch, ShuntOne, RefuseOutputs, AcceptOutputs, WireOne, CompactModel
  <2>2. /\ Nodes(model') = Nodes(model)
        /\ \A n \in Nodes(model) :
             model'.op[n] = IF n \in job.patch.obliterate THEN Dummy ELSE model.op[n]
    BY <1>1, <2>1, FinishPatchIs DEF PInv
  <2>3. /\ job.patch.obliterate # {} /\ job.patch.obliterate \subseteq Nodes(model)
        /\ Clean(model, job.patch.obliterate)
    BY <1>1, <2>1 DEF PInv, Working, Merges1, FinishPatch
  <2>4. PICK n \in job.patch.obliterate : n \in Nodes(model) /\ model.op[n] # Dummy
    BY <2>3 DEF Clean
  <2>5. n \in Dummies(model') /\ n \notin Dummies(model)
    BY <2>2, <2>4 DEF Dummies
  <2>6. Dummies(model) \subseteq Dummies(model')
    BY <2>2 DEF Dummies
  <2> QED
    BY <2>5, <2>6
<1> QED
  BY <1>1, PassInvariance, AppliedIsCounted, PTL DEF Spec, EachPatchMerges

(* When the pass has no patch left, no two operators in use compute the same of
   the same inputs: those that have become the same by an earlier merge are
   merged too. *)
THEOREM AllIsMerged ==
  ASSUME PassOnly, PassModels
  PROVE  Spec => []AllMerged
<1>1. ASSUME NEW g, IsGraph(g), Reciprocal(g), Levelled(g), PassPatches(g) = {},
             NEW a \in Live(g) \ ToSet(g.interface), NEW b \in Live(g) \ ToSet(g.interface),
             SameAs(g, a, b), g.inputs[a] # <<>>
      PROVE  a = b
  <2> DEFINE N == Nodes(g)
             order == EvalOrder(g)
  <2>1. /\ order \in Seq(N) /\ Live(g) \subseteq N /\ Closed(g, Live(g))
        /\ Live(g) = ToSet(order)
    BY <1>1, LiveIs DEF Live
  <2>2. a \in N /\ b \in N /\ g.inputs[a] \in Seq(N) /\ g.inputs[b] = g.inputs[a]
    BY <1>1, <2>1, InputsAreNodes DEF SameAs
  <2>3. 1 \in DOMAIN g.inputs[a]
    <3>1. DOMAIN g.inputs[a] = 1 .. Len(g.inputs[a]) /\ Len(g.inputs[a]) \in Nat
      BY <2>2, LenProperties
    <3>2. DOMAIN g.inputs[a] # {}
      BY <1>1, <2>2, NoPlaceIsEmpty
    <3> QED
      BY <3>1, <3>2
  <2> DEFINE o == g.inputs[a][1]
  <2>4. ~Contains(g.interface, a)
    <3>1. g.interface \in Seq(N)
      BY <1>1 DEF IsGraph
    <3> QED
      BY <1>1, <3>1, InToSet
  <2>5. o \in Live(g) /\ o \in N
    BY <2>1, <2>3, <2>4 DEF Closed
  <2> HIDE DEF order
  <2>6. PICK q \in DOMAIN order : order[q] = o
    BY <2>1, <2>5 DEF ToSet
  <2>7. Reads(g, o, Inlet(a, 1)) /\ Reads(g, o, Inlet(b, 1))
    BY <2>2, <2>3 DEF Reads
  <2> HIDE DEF o
  <2>8. Inlet(a, 1) \in ToSet(g.succ[o]) /\ Inlet(b, 1) \in ToSet(g.succ[o])
    BY <1>1, <2>5, <2>7, ReciprocalMeans
  <2>9. PICK i \in DOMAIN g.succ[o], j \in DOMAIN g.succ[o] :
          g.succ[o][i] = Inlet(a, 1) /\ g.succ[o][j] = Inlet(b, 1)
    BY <2>8 DEF ToSet
  <2>10. g.succ[o][i].node = a /\ g.succ[o][j].node = b
    BY <2>9 DEF Inlet
  <2> SUFFICES ASSUME a # b PROVE FALSE
    OBVIOUS
  <2>11. i \in Nat /\ j \in Nat /\ i # j
    <3>1. g.succ[o] \in Seq([node : N, slot : Nat \ {0}])
      BY <1>1, <2>5 DEF IsGraph
    <3> QED
      BY <2>10, <3>1, LenProperties
  <2>12. Meets(g, order, Met(g))
    BY <1>1, MetMeets DEF order
  <2>13. \E z \in DOMAIN Met(g) : Met(g)[z] = <<a, b>> \/ Met(g)[z] = <<b, a>>
    <3>1. CASE i < j
      BY <2>6, <2>10, <2>12, <3>1 DEF Meets, PairOf
    <3>2. CASE j < i
      BY <2>6, <2>10, <2>12, <3>2 DEF Meets, PairOf
    <3> QED
      BY <2>11, <3>1, <3>2
  <2>14. SameAs(g, b, a)
    BY <1>1 DEF SameAs
  <2>15. DOMAIN Merged(g) # {}
    <3>1. PICK z \in DOMAIN Met(g) : Met(g)[z] = <<a, b>> \/ Met(g)[z] = <<b, a>>
      BY <2>13
    <3>2. SameAs(g, Met(g)[z][1], Met(g)[z][2])
      BY <1>1, <2>14, <3>1
    <3> QED
      BY <1>1, <3>2, MergedIsFirst
  <2>16. DOMAIN NextPatch(g).nodes # {}
    BY <1>1, <2>15, NextPatchIs
  <2>17. NextPatch(g).nodes # <<>>
    <3>1. DOMAIN <<>> = {}
      OBVIOUS
    <3> QED
      BY <2>16, <3>1
  <2> QED
    BY <1>1, <2>17 DEF PassPatches
<1>2. PInv => AllMerged
  <2> SUFFICES ASSUME PInv, Exhausted,
                      NEW a \in Live(model) \ ToSet(model.interface),
                      NEW b \in Live(model) \ ToSet(model.interface),
                      SameAs(model, a, b), model.inputs[a] # <<>>
               PROVE  a = b
    BY DEF AllMerged
  <2>1. IsGraph(model) /\ Reciprocal(model) /\ Levelled(model) /\ PassPatches(model) = {}
    BY DEF PInv, IInv, Exhausted
  <2> QED
    BY <1>1, <2>1
<1> QED
  BY <1>2, PassInvariance, PTL

-----------------------------------------------------------------------------
(* What compact() makes.  A node p of the graph that was made again is the node
   order[p] of the old one; Renamed tells the old ones. *)

Renamed(order, s) == [k \in DOMAIN s |-> order[s[k]]]

Renames(order, M, N) == order \in [M -> N]

(* Sequences with the same length and elements. *)
LEMMA SameSeq ==
  ASSUME NEW S, NEW s \in Seq(S), NEW t \in Seq(S), Len(s) = Len(t),
         \A k \in 1 .. Len(s) : s[k] = t[k]
  PROVE  s = t
<1>1. s = [k \in 1 .. Len(s) |-> s[k]] /\ t = [k \in 1 .. Len(s) |-> t[k]]
  BY LenProperties
<1> QED
  BY <1>1

(* It is a sequence of the nodes stood for. *)
LEMMA RenamedIs ==
  ASSUME NEW M, NEW N, NEW order, Renames(order, M, N), NEW s \in Seq(M)
  PROVE  /\ Renamed(order, s) \in Seq(N) /\ Len(Renamed(order, s)) = Len(s)
         /\ DOMAIN Renamed(order, s) = DOMAIN s
         /\ \A k \in DOMAIN s : s[k] \in M /\ Renamed(order, s)[k] = order[s[k]]
<1> DEFINE r == Renamed(order, s)
           n == Len(s)
<1>1. n \in Nat /\ DOMAIN s = 1 .. n /\ \A k \in 1 .. n : s[k] \in M
  BY LenProperties, ElementOfSeq
<1>2. r = [k \in 1 .. n |-> order[s[k]]]
  BY <1>1 DEF Renamed
<1> HIDE DEF r, n
<1>3. r \in [1 .. n -> N]
  BY <1>1, <1>2 DEF Renames
<1>4. r \in Seq(N) /\ Len(r) = n
  BY <1>1, <1>3, FunctionIsSeq
<1>5. DOMAIN r = 1 .. n /\ \A k \in 1 .. n : r[k] = order[s[k]]
  BY <1>2
<1> QED
  BY <1>1, <1>4, <1>5 DEF r, n

(* Elements appended. *)
LEMMA RenamedAppend ==
  ASSUME NEW M, NEW N, NEW order, Renames(order, M, N), NEW s \in Seq(M), NEW x \in M
  PROVE  Renamed(order, Append(s, x)) = Append(Renamed(order, s), order[x])
<1> DEFINE n == Len(s)
           t == Append(s, x)
           r == Renamed(order, s)
           a == Append(r, order[x])
           b == Renamed(order, t)
<1>1. n \in Nat /\ DOMAIN s = 1 .. n /\ t \in Seq(M) /\ Len(t) = n + 1
      /\ DOMAIN t = 1 .. n + 1 /\ t[n + 1] = x /\ \A k \in 1 .. n : t[k] = s[k]
  BY LenProperties, AppendProperties
<1>2. r \in Seq(N) /\ Len(r) = n /\ \A k \in 1 .. n : r[k] = order[s[k]]
  BY <1>1, RenamedIs
<1>3. b \in Seq(N) /\ Len(b) = n + 1 /\ \A k \in 1 .. n + 1 : b[k] = order[t[k]]
  <2> HIDE DEF t
  <2> QED
    BY <1>1, RenamedIs
<1>4. a \in Seq(N) /\ Len(a) = n + 1 /\ a[n + 1] = order[x] /\ \A k \in 1 .. n : a[k] = r[k]
  <2>1. order[x] \in N
    BY DEF Renames
  <2> HIDE DEF r, n
  <2> QED
    BY <1>1, <1>2, <2>1, AppendProperties
<1> HIDE DEF n, t, r, a, b
<1>5. ASSUME NEW k \in 1 .. n + 1 PROVE a[k] = b[k]
  <2>1. CASE k = n + 1
    BY <1>1, <1>3, <1>4, <2>1
  <2>2. CASE k # n + 1
    <3>1. k \in 1 .. n
      BY <1>1, <2>2
    <3> QED
      BY <1>1, <1>2, <1>3, <1>4, <3>1
  <2> QED
    BY <2>1, <2>2
<1>6. a = b
  BY <1>3, <1>4, <1>5, SameSeq
<1> QED
  BY <1>6 DEF a, b, t, r

(* Sequences joined. *)
LEMMA RenamedConcat ==
  ASSUME NEW M, NEW N, NEW order, Renames(order, M, N), NEW s \in Seq(M), NEW t \in Seq(M)
  PROVE  Renamed(order, s \o t) = Renamed(order, s) \o Renamed(order, t)
<1> DEFINE m == Len(s)
           n == Len(t)
           u == s \o t
           p == Renamed(order, s)
           q == Renamed(order, t)
           a == Renamed(order, u)
           b == p \o q
<1>1. /\ m \in Nat /\ DOMAIN s = 1 .. m /\ n \in Nat /\ DOMAIN t = 1 .. n
      /\ u \in Seq(M) /\ Len(u) = m + n
      /\ \A k \in 1 .. m + n : u[k] = IF k <= m THEN s[k] ELSE t[k - m]
  BY LenProperties, ConcatProperties
<1>2. /\ p \in Seq(N) /\ Len(p) = m /\ \A k \in 1 .. m : p[k] = order[s[k]]
      /\ q \in Seq(N) /\ Len(q) = n /\ \A k \in 1 .. n : q[k] = order[t[k]]
  BY <1>1, RenamedIs
<1>3. a \in Seq(N) /\ Len(a) = m + n /\ \A k \in 1 .. m + n : a[k] = order[u[k]]
  <2> HIDE DEF u
  <2>1. DOMAIN u = 1 .. m + n
    BY <1>1, LenProperties
  <2> QED
    BY <1>1, <2>1, RenamedIs
<1>4. b \in Seq(N) /\ Len(b) = m + n /\ \A k \in 1 .. m + n : b[k] = IF k <= m THEN p[k] ELSE q[k - m]
  <2> HIDE DEF p, q, m, n
  <2> QED
    BY <1>1, <1>2, ConcatProperties
<1> HIDE DEF m, n, u, p, q, a, b
<1>5. ASSUME NEW k \in 1 .. m + n PROVE a[k] = b[k]
  <2>1. CASE k <= m
    <3>1. k \in 1 .. m /\ u[k] = s[k] /\ b[k] = p[k]
      BY <1>1, <1>4, <2>1
    <3> QED
      BY <1>2, <1>3, <3>1
  <2>2. CASE ~(k <= m)
    <3>1. k - m \in 1 .. n /\ u[k] = t[k - m] /\ b[k] = q[k - m]
      BY <1>1, <1>4, <2>2
    <3> QED
      BY <1>2, <1>3, <3>1
  <2> QED
    BY <2>1, <2>2
<1>6. a = b
  BY <1>3, <1>4, <1>5, SameSeq
<1> QED
  BY <1>6 DEF a, b, u, p, q

(* A node is in a sequence if the one it stands for is. *)
LEMMA RenamedContains ==
  ASSUME NEW M, NEW N, NEW order, Renames(order, M, N), Unique(order), NEW s \in Seq(M), NEW x \in M
  PROVE  Contains(Renamed(order, s), order[x]) <=> Contains(s, x)
<1>1. /\ Renamed(order, s) \in Seq(N) /\ DOMAIN Renamed(order, s) = DOMAIN s
      /\ \A k \in DOMAIN s : s[k] \in M /\ Renamed(order, s)[k] = order[s[k]]
  BY RenamedIs
<1>2. \A k \in DOMAIN s : s[k] = x <=> Renamed(order, s)[k] = order[x]
  BY <1>1 DEF Unique, Renames
<1> QED
  BY <1>1, <1>2, ContainsIs

(* Mapped goes back. *)
LEMMA MappedRenamed ==
  ASSUME NEW M, NEW N, NEW order, Renames(order, M, N), Unique(order), NEW s \in Seq(M)
  PROVE  Mapped(order, Renamed(order, s)) = s
<1> DEFINE r == Renamed(order, s)
<1>1. DOMAIN r = DOMAIN s /\ \A k \in DOMAIN s : s[k] \in M /\ r[k] = order[s[k]]
  BY RenamedIs
<1> HIDE DEF r
<1>2. ASSUME NEW k \in DOMAIN s PROVE (CHOOSE j \in DOMAIN order : order[j] = r[k]) = s[k]
  <2>1. \A j \in DOMAIN order : order[j] = r[k] <=> j = s[k]
    BY <1>1 DEF Unique, Renames
  <2> QED
    BY <1>1, <2>1
<1>3. Mapped(order, r) = [k \in DOMAIN s |-> s[k]]
  BY <1>1, <1>2 DEF Mapped
<1>4. s = [k \in DOMAIN s |-> s[k]]
  BY LenProperties
<1> QED
  BY <1>3, <1>4 DEF r

(* What is chosen stands for what is chosen. *)
LEMMA RenamedChosen ==
  ASSUME NEW M, NEW N, NEW order, Renames(order, M, N), NEW s \in Seq(M), NEW places
  PROVE  /\ Chosen(s, places) \in Seq(M)
         /\ Chosen(Renamed(order, s), places) = Renamed(order, Chosen(s, places))
<1> DEFINE n == Len(s)
           r == Renamed(order, s)
           f == CHOOSE g : Keeps(g, s, places, n)
           e == CHOOSE g : Keeps(g, r, places, n)
<1>1. n \in Nat /\ DOMAIN s = 1 .. n /\ Len(r) = n
      /\ \A k \in 1 .. n : s[k] \in M /\ r[k] = order[s[k]]
  BY LenProperties, RenamedIs
<1>2. Keeps(f, s, places, n) /\ Keeps(e, r, places, n)
  <2> HIDE DEF n, r
  <2> QED
    BY <1>1, KeptExists
<1>3. Chosen(s, places) = f[n] /\ Chosen(r, places) = e[n]
  <2>1. Chosen(s, places) = f[n]
    BY DEF Chosen, Keeps
  <2>2. Chosen(r, places) = (CHOOSE g : Keeps(g, r, places, Len(r)))[Len(r)]
    BY DEF Chosen, Keeps
  <2> HIDE DEF r, n
  <2> QED
    BY <1>1, <2>1, <2>2
<1> HIDE DEF f, e, n, r
<1> DEFINE Fine(k) == f[k] \in Seq(M) /\ e[k] = Renamed(order, f[k])
           T == {k \in Nat : k <= n => Fine(k)}
<1>4. 0 \in T
  <2>1. f[0] = <<>> /\ e[0] = <<>>
    BY <1>1, <1>2 DEF Keeps
  <2>2. Renamed(order, <<>>) = <<>> /\ <<>> \in Seq(M)
    BY DEF Renamed
  <2> QED
    BY <2>1, <2>2
<1>5. ASSUME NEW k \in Nat, k \in T PROVE k + 1 \in T
  <2> SUFFICES ASSUME k + 1 <= n PROVE Fine(k + 1)
    OBVIOUS
  <2>1. f[k] \in Seq(M) /\ e[k] = Renamed(order, f[k])
    BY <1>1, <1>5
  <2>2. k + 1 \in 0 .. n /\ k + 1 \in 1 .. n /\ (k + 1) - 1 = k /\ k + 1 # 0
    BY <1>1
  <2>3. /\ f[k + 1] = IF k + 1 \in places THEN Append(f[k], s[k + 1]) ELSE f[k]
        /\ e[k + 1] = IF k + 1 \in places THEN Append(e[k], r[k + 1]) ELSE e[k]
    BY <1>2, <2>2 DEF Keeps
  <2>4. s[k + 1] \in M /\ r[k + 1] = order[s[k + 1]]
    BY <1>1, <2>2
  <2>5. CASE k + 1 \in places
    <3>1. f[k + 1] = Append(f[k], s[k + 1]) /\ e[k + 1] = Append(e[k], r[k + 1])
      BY <2>3, <2>5
    <3>2. Append(f[k], s[k + 1]) \in Seq(M)
      BY <2>1, <2>4, AppendProperties
    <3>3. Renamed(order, Append(f[k], s[k + 1])) = Append(Renamed(order, f[k]), order[s[k + 1]])
      BY <2>1, <2>4, RenamedAppend
    <3> QED
      BY <2>1, <2>4, <3>1, <3>2, <3>3
  <2>6. CASE k + 1 \notin places
    BY <2>1, <2>3, <2>6
  <2> QED
    BY <2>5, <2>6
<1>6. Nat \subseteq T
  <2> HIDE DEF T
  <2> QED
    BY <1>4, <1>5, SetInduction
<1>7. Fine(n)
  BY <1>1, <1>6
<1> QED
  BY <1>3, <1>7 DEF r

(* v visits the nodes of s as w those that they stand for. *)
Alike(order, M, s, v, w) ==
  \A k \in DOMAIN s : \A q \in Seq(M) :
    v[s[k]][q] \in Seq(M) /\ w[order[s[k]]][Renamed(order, q)] = Renamed(order, v[s[k]][q])

(* A fold over nodes with new numbers makes the same, with new numbers. *)
LEMMA FoldRenamed ==
  ASSUME NEW M, NEW N, NEW order, Renames(order, M, N), NEW s \in Seq(M), NEW v, NEW w, NEW p \in Seq(M),
         Alike(order, M, s, v, w)
  PROVE  /\ Folded(v, p, s) \in Seq(M)
         /\ Folded(w, Renamed(order, p), Renamed(order, s)) = Renamed(order, Folded(v, p, s))
<1> DEFINE n == Len(s)
           r == Renamed(order, s)
<1>1. /\ n \in Nat /\ DOMAIN s = 1 .. n /\ r \in Seq(N) /\ Len(r) = n
      /\ \A k \in 1 .. n : r[k] = order[s[k]]
  BY LenProperties, RenamedIs
<1>2. PICK h : Steps(h, v, p, s) /\ Folded(v, p, s) = h[n]
  BY FoldSteps
<1>3. PICK i : Steps(i, w, Renamed(order, p), r) /\ Folded(w, Renamed(order, p), r) = i[n]
  <2> HIDE DEF r, n
  <2> QED
    BY <1>1, FoldSteps
<1> HIDE DEF n, r
<1> DEFINE Fine(k) == h[k] \in Seq(M) /\ i[k] = Renamed(order, h[k])
           T == {k \in Nat : k <= n => Fine(k)}
<1>4. /\ h = [k \in 0 .. n |-> IF k = 0 THEN p ELSE v[s[k]][h[k - 1]]]
      /\ i = [k \in 0 .. n |-> IF k = 0 THEN Renamed(order, p) ELSE w[r[k]][i[k - 1]]]
  BY <1>1, <1>2, <1>3 DEF Steps, n
<1>5. 0 \in T
  <2>1. h[0] = p /\ i[0] = Renamed(order, p)
    BY <1>1, <1>4
  <2> QED
    BY <2>1
<1>6. ASSUME NEW k \in Nat, k \in T PROVE k + 1 \in T
  <2> SUFFICES ASSUME k + 1 <= n PROVE Fine(k + 1)
    OBVIOUS
  <2>1. h[k] \in Seq(M) /\ i[k] = Renamed(order, h[k])
    BY <1>1, <1>6
  <2>2. k + 1 \in 0 .. n /\ k + 1 \in 1 .. n /\ (k + 1) - 1 = k /\ k + 1 # 0
    BY <1>1
  <2>3. h[k + 1] = v[s[k + 1]][h[k]] /\ i[k + 1] = w[r[k + 1]][i[k]]
    BY <1>4, <2>2
  <2>4. r[k + 1] = order[s[k + 1]] /\ k + 1 \in DOMAIN s
    BY <1>1, <2>2
  <2>5. /\ v[s[k + 1]][h[k]] \in Seq(M)
        /\ w[order[s[k + 1]]][Renamed(order, h[k])] = Renamed(order, v[s[k + 1]][h[k]])
    BY <2>1, <2>4 DEF Alike
  <2> QED
    BY <2>1, <2>3, <2>4, <2>5
<1>7. Nat \subseteq T
  <2> HIDE DEF T
  <2> QED
    BY <1>5, <1>6, SetInduction
<1>8. Fine(n)
  BY <1>1, <1>7
<1> QED
  BY <1>2, <1>3, <1>8 DEF r

(* The nodes that were made again read what they did, by their new numbers. *)
LEMMA RenumberedReads ==
  ASSUME NEW g, IsGraph(g), NEW order, order \in Seq(Nodes(g)), NEW h, IsGraph(h), Renumbered(g, order, h)
  PROVE  /\ Renames(order, Nodes(h), Nodes(g))
         /\ g.outputs = Renamed(order, h.outputs) /\ g.interface = Renamed(order, h.interface)
         /\ \A n \in Nodes(h) :
              ~Contains(h.interface, n) => g.inputs[order[n]] = Renamed(order, h.inputs[n])
<1> DEFINE M == Nodes(h)
           N == Nodes(g)
<1>1. order = [k \in M |-> order[k]] /\ \A k \in M : order[k] \in N
  <2>1. order = [k \in DOMAIN order |-> order[k]]
    OBVIOUS
  <2> QED
    BY <2>1 DEF Renumbered
<1>2. Renames(order, M, N)
  <2> HIDE DEF M, N
  <2> QED
    BY <1>1 DEF Renames
<1>3. ASSUME NEW s \in Seq(N), NEW t \in Seq(M), DOMAIN t = DOMAIN s, \A k \in DOMAIN s : order[t[k]] = s[k]
      PROVE  s = Renamed(order, t)
  <2>1. s = [k \in DOMAIN s |-> s[k]]
    OBVIOUS
  <2> QED
    BY <1>3, <2>1 DEF Renamed
<1>4. /\ g.outputs \in Seq(N) /\ h.outputs \in Seq(M)
      /\ g.interface \in Seq(N) /\ h.interface \in Seq(M)
  BY DEF IsGraph
<1> HIDE DEF M, N
<1>5. g.outputs = Renamed(order, h.outputs)
  BY <1>3, <1>4 DEF Renumbered
<1>6. g.interface = Renamed(order, h.interface)
  BY <1>3, <1>4 DEF Renumbered
<1>7. ASSUME NEW n \in M, ~Contains(h.interface, n)
      PROVE  g.inputs[order[n]] = Renamed(order, h.inputs[n])
  <2>1. order[n] \in N /\ ~Contains(g.interface, order[n])
    BY <1>1, <1>7 DEF Renumbered, M
  <2>2. /\ DOMAIN h.inputs[n] = DOMAIN g.inputs[order[n]]
        /\ \A s \in DOMAIN h.inputs[n] : order[h.inputs[n][s]] = g.inputs[order[n]][s]
    BY <1>7, <2>1 DEF Renumbered, M
  <2>3. h.inputs[n] \in Seq(M) /\ g.inputs[order[n]] \in Seq(N)
    BY <1>7, <2>1, InputsAreNodes DEF M, N
  <2> QED
    BY <1>3, <2>2, <2>3
<1> QED
  BY <1>2, <1>5, <1>6, <1>7 DEF M, N

(* Node n of h, which reads s, is node m of g made again. *)
Again(g, order, h, n, s, m) ==
  /\ m = order[n] /\ s = h.inputs[n]
  /\ n \in ToSet(h.interface) <=> m \in ToSet(g.interface)
  /\ n \notin ToSet(h.interface) => g.inputs[m] = Renamed(order, s)

(* Visits of a node that was made again make the same, if those of its inputs do. *)
LEMMA VisitedRenamed ==
  ASSUME NEW g, NEW order, NEW h, NEW M, NEW N, Renames(order, M, N), Unique(order),
         NEW n \in M, NEW m, NEW p \in Seq(M), NEW s \in Seq(M),
         Again(g, order, h, n, s, m), NEW v, NEW w, Alike(order, M, s, v, w)
  PROVE  Visited(g, w, m, Renamed(order, p)) = Renamed(order, Visited(h, v, n, p))
<1> DEFINE q == Renamed(order, p)
<1>1. Contains(q, m) <=> Contains(p, n)
  BY RenamedContains DEF Again
<1>2. \A a \in Seq(M) : Renamed(order, Append(a, n)) = Append(Renamed(order, a), m)
  BY RenamedAppend DEF Again
<1>3. CASE Contains(p, n)
  BY <1>1, <1>3 DEF Visited
<1>4. CASE ~Contains(p, n) /\ n \in ToSet(h.interface)
  <2>1. Visited(g, w, m, q) = Append(q, m) /\ Visited(h, v, n, p) = Append(p, n)
    BY <1>1, <1>4 DEF Visited, Again
  <2> QED
    BY <1>2, <2>1
<1>5. CASE ~Contains(p, n) /\ n \notin ToSet(h.interface)
  <2> DEFINE a == Folded(v, p, s)
             b == Folded(w, q, Renamed(order, s))
  <2>1. a \in Seq(M) /\ b = Renamed(order, a)
    BY FoldRenamed
  <2>2. Visited(g, w, m, q) = Append(b, m) /\ Visited(h, v, n, p) = Append(a, n)
    BY <1>1, <1>5 DEF Visited, Again
  <2> HIDE DEF a, b, q
  <2> QED
    BY <1>2, <2>1, <2>2 DEF q
<1> QED
  BY <1>3, <1>4, <1>5

(* A visit of a node that was made again adds the same, by their new numbers. *)
LEMMA VisitRenamed ==
  ASSUME NEW g, IsGraph(g), NEW order, order \in Seq(Nodes(g)), NEW h, IsGraph(h), Levelled(h), Renumbered(g, order, h),
         NEW v, Visiting(h, v), NEW w, Visiting(g, w)
  PROVE  \A n \in Nodes(h) : \A p \in Seq(Nodes(h)) :
           w[order[n]][Renamed(order, p)] = Renamed(order, v[n][p])
<1> DEFINE M == Nodes(h)
           N == Nodes(g)
           Same(n) == \A p \in Seq(M) : w[order[n]][Renamed(order, p)] = Renamed(order, v[n][p])
           W == {n \in M : ~Same(n)}
<1> SUFFICES ASSUME W # {} PROVE FALSE
  OBVIOUS
<1>1. W \in SUBSET M
  OBVIOUS
<1>2. PICK n \in M : n \in W /\ \A s \in DOMAIN h.inputs[n] : h.inputs[n][s] \notin W
  <2>1. PICK level \in [M -> Nat] : Below(h, level, level)
    BY DEF Levelled
  <2> HIDE DEF W, M
  <2> QED
    BY <1>1, <2>1, Lowest DEF M
<1> DEFINE s == h.inputs[n]
<1>3. n \in M /\ s \in Seq(M) /\ \A k \in DOMAIN s : s[k] \in M
  BY InputsAreNodes
<1>4. \A k \in DOMAIN s : Same(s[k])
  BY <1>2, <1>3
<1>5. PICK p \in Seq(M) : w[order[n]][Renamed(order, p)] # Renamed(order, v[n][p])
  BY <1>2
<1> HIDE DEF W, Same
<1> DEFINE m == order[n]
<1>6. Renames(order, M, N) /\ Again(g, order, h, n, s, m)
  <2>1. Contains(h.interface, n) <=> Contains(g.interface, order[n])
    BY <1>3 DEF Renumbered
  <2>2. Renames(order, M, N) /\ (~Contains(h.interface, n) => g.inputs[order[n]] = Renamed(order, s))
    BY <1>3, RenumberedReads
  <2>3. /\ Contains(h.interface, n) <=> n \in ToSet(h.interface)
        /\ Contains(g.interface, order[n]) <=> order[n] \in ToSet(g.interface)
    BY InToSet DEF IsGraph
  <2> HIDE DEF M, N
  <2> QED
    BY <2>1, <2>2, <2>3 DEF Again
<1>7. Unique(order) /\ order[n] \in N
  BY <1>3 DEF Renumbered
<1>8. Alike(order, M, s, v, w)
  BY <1>3, <1>4, VisitVisits DEF Visits, Same, Alike
<1> DEFINE q == Renamed(order, p)
<1>9. Visited(g, w, m, q) = Renamed(order, Visited(h, v, n, p))
  <2>1. n \in M /\ p \in Seq(M) /\ s \in Seq(M)
    BY <1>3, <1>5
  <2> HIDE DEF M, N, m, s
  <2> QED
    BY ONLY <1>6, <1>7, <1>8, <2>1, VisitedRenamed
<1>10. q \in Seq(N)
  <2> HIDE DEF M, N
  <2> QED
    BY <1>5, <1>6, RenamedIs
<1>11. v[n][p] = Visited(h, v, n, p)
  <2> DEFINE F(x, o) == Visited(h, v, x, o)
  <2>1. v = [x \in M |-> [o \in Seq(M) |-> F(x, o)]]
    BY DEF Visiting
  <2> HIDE DEF F, M
  <2>2. v[n][p] = F(n, p)
    BY <1>3, <1>5, <2>1
  <2> QED
    BY <2>2 DEF F
<1>12. w[order[n]][q] = Visited(g, w, order[n], q)
  <2> DEFINE F(x, o) == Visited(g, w, x, o)
  <2>1. w = [x \in N |-> [o \in Seq(N) |-> F(x, o)]]
    BY DEF Visiting
  <2> HIDE DEF F, N, q
  <2>2. w[order[n]][q] = F(order[n], q)
    BY <1>7, <1>10, <2>1
  <2> QED
    BY <2>2 DEF F
<1> QED
  BY <1>5, <1>9, <1>11, <1>12

(* The evaluation order of the nodes that were made again is the old one. *)
LEMMA EvalOrderRenamed ==
  ASSUME NEW g, IsGraph(g), Levelled(g), NEW order, order \in Seq(Nodes(g)), NEW h, IsGraph(h), Levelled(h), Renumbered(g, order, h)
  PROVE  EvalOrder(g) = Renamed(order, EvalOrder(h))
<1> DEFINE M == Nodes(h)
           N == Nodes(g)
           w == CHOOSE u : Visiting(g, u)
           v == CHOOSE u : Visiting(h, u)
<1>1. EvalOrder(g) = Folded(w, <<>>, g.outputs) /\ EvalOrder(h) = Folded(v, <<>>, h.outputs)
  BY DEF EvalOrder, PostOrder, Folded, Visited, Visiting
<1>2. Visiting(g, w) /\ Visiting(h, v)
  BY VisitExists
<1> HIDE DEF v, w
<1>3. \A n \in M : \A p \in Seq(M) : w[order[n]][Renamed(order, p)] = Renamed(order, v[n][p])
  BY <1>2, VisitRenamed
<1>4. \A n \in M : \A p \in Seq(M) : v[n][p] \in Seq(M)
  BY <1>2, VisitVisits DEF Visits
<1>5. Renames(order, M, N) /\ g.outputs = Renamed(order, h.outputs)
  BY RenumberedReads
<1>6. h.outputs \in Seq(M)
  BY DEF IsGraph
<1> HIDE DEF M, N
<1>7. \A k \in DOMAIN h.outputs : h.outputs[k] \in M
  BY <1>6, LenProperties, ElementOfSeq
<1>8. <<>> \in Seq(M) /\ Renamed(order, <<>>) = <<>>
  BY EmptySeq DEF Renamed
<1> DEFINE s == h.outputs
           p == <<>>
<1>9. Folded(w, Renamed(order, p), Renamed(order, s)) = Renamed(order, Folded(v, p, s))
  <2>1. Alike(order, M, s, v, w)
    BY <1>3, <1>4, <1>7 DEF Alike
  <2>2. s \in Seq(M) /\ p \in Seq(M) /\ Renames(order, M, N)
    BY <1>5, <1>6, <1>8
  <2> HIDE DEF s, p
  <2> QED
    BY ONLY <2>1, <2>2, FoldRenamed
<1> QED
  BY <1>1, <1>5, <1>8, <1>9

(* What the inputs that nothing reads are. *)
LEMMA UnreadIs ==
  ASSUME NEW g, IsGraph(g)
  PROVE  /\ Unread(g) \in Seq(Nodes(g))
         /\ \E at : Picks(Nodes(g), Unread(g), g.interface,
                          {k \in DOMAIN g.interface : ~Contains(EvalOrder(g), g.interface[k])}, at)
<1> DEFINE places == {k \in DOMAIN g.interface : ~Contains(EvalOrder(g), g.interface[k])}
<1>1. g.interface \in Seq(Nodes(g)) /\ places \in SUBSET DOMAIN g.interface
  BY DEF IsGraph
<1>2. Unread(g) = Chosen(g.interface, places)
  BY DEF Unread
<1> HIDE DEF places
<1>3. \E at : Picks(Nodes(g), Unread(g), g.interface, places, at)
  BY <1>1, <1>2, ChosenPicks
<1> QED
  BY <1>3 DEF places, Picks

(* A graph is translated in an order that has each node after what it reads. *)
LEMMA TranslationIsOrdered ==
  ASSUME NEW g, IsGraph(g), Levelled(g), Unique(g.interface)
  PROVE  Ordered(g, TranslationOrder(g))
<1> DEFINE N == Nodes(g)
           E == EvalOrder(g)
           U == Unread(g)
           O == TranslationOrder(g)
           m == Len(E)
           n == Len(U)
           places == {k \in DOMAIN g.interface : ~Contains(E, g.interface[k])}
<1>1. /\ E \in Seq(N) /\ Sorted(g, E) /\ ToSet(g.outputs) \subseteq ToSet(E)
      /\ g.interface \in Seq(N)
  BY LiveIs DEF Live, IsGraph
<1>2. PICK at : Picks(N, U, g.interface, places, at)
  BY UnreadIs
<1>3. U \in Seq(N) /\ O = E \o U
  BY UnreadIs DEF TranslationOrder
<1> HIDE DEF E, U, O, N
<1>4. /\ m \in Nat /\ n \in Nat /\ DOMAIN E = 1 .. m /\ DOMAIN U = 1 .. n
      /\ O \in Seq(N) /\ DOMAIN O = 1 .. m + n
      /\ \A k \in 1 .. m + n : O[k] = IF k <= m THEN E[k] ELSE U[k - m]
  BY <1>1, <1>3, LenProperties, ConcatProperties
<1>5. /\ \A k \in 1 .. n : at[k] \in places /\ U[k] = g.interface[at[k]]
      /\ \A j, k \in 1 .. n : j < k => at[j] < at[k]
      /\ \A i \in places : \E k \in 1 .. n : at[k] = i
  BY <1>2, <1>4 DEF Picks
<1>6. \A k \in 1 .. n : Contains(g.interface, U[k]) /\ ~Contains(E, U[k])
  BY <1>1, <1>5, ContainsIs
<1> HIDE DEF m, n
<1>7. Unique(O)
  <2> SUFFICES ASSUME NEW j \in 1 .. m + n, NEW k \in 1 .. m + n, O[j] = O[k], j < k PROVE FALSE
    BY <1>4 DEF Unique
  <2>1. CASE k <= m
    <3>1. j \in DOMAIN E /\ k \in DOMAIN E /\ E[j] = E[k]
      BY <1>4, <2>1
    <3> QED
      BY <1>1, <3>1 DEF Sorted, Unique
  <2>2. CASE ~(k <= m) /\ j <= m
    <3>1. j \in DOMAIN E /\ k - m \in 1 .. n /\ E[j] = U[k - m]
      BY <1>4, <2>2
    <3> QED
      BY <1>1, <1>6, <3>1, ContainsIs
  <2>3. CASE ~(j <= m)
    <3>1. j - m \in 1 .. n /\ k - m \in 1 .. n /\ j - m < k - m /\ U[j - m] = U[k - m]
      BY <1>4, <2>3
    <3>2. at[j - m] < at[k - m] /\ at[j - m] \in DOMAIN g.interface /\ at[k - m] \in DOMAIN g.interface
      BY <1>5, <3>1
    <3>3. at[j - m] = at[k - m]
      BY <1>5, <3>1, <3>2 DEF Unique
    <3>4. at[k - m] \in Nat
      BY <1>1, <3>2, LenProperties
    <3> QED
      BY <3>2, <3>3, <3>4
  <2> QED
    BY <2>1, <2>2, <2>3
<1>8. ASSUME NEW k \in DOMAIN O, ~Contains(g.interface, O[k]), NEW s \in DOMAIN g.inputs[O[k]]
      PROVE  \E j \in 1 .. (k - 1) : O[j] = g.inputs[O[k]][s]
  <2>1. k <= m
    <3>1. ~(k <= m) => k - m \in 1 .. n /\ O[k] = U[k - m]
      BY <1>4, <1>8
    <3> QED
      BY <1>6, <1>8, <3>1
  <2>2. k \in DOMAIN E /\ O[k] = E[k]
    BY <1>4, <1>8, <2>1
  <2>3. PICK j \in 1 .. (k - 1) : E[j] = g.inputs[E[k]][s]
    BY <1>1, <1>8, <2>2 DEF Sorted
  <2>4. O[j] = E[j]
    BY <1>4, <1>8, <2>1
  <2> QED
    BY <2>2, <2>3, <2>4
<1>9. ToSet(E) \subseteq ToSet(O)
  <2>1. \A k \in 1 .. m : k \in 1 .. m + n /\ O[k] = E[k]
    BY <1>4
  <2> QED
    BY <1>4, <2>1 DEF ToSet
<1>10. ToSet(g.interface) \subseteq ToSet(O)
  <2> SUFFICES ASSUME NEW k \in DOMAIN g.interface PROVE g.interface[k] \in ToSet(O)
    BY DEF ToSet
  <2>1. CASE Contains(E, g.interface[k])
    BY <1>1, <1>9, <2>1, InToSet
  <2>2. CASE ~Contains(E, g.interface[k])
    <3>1. PICK i \in 1 .. n : at[i] = k
      BY <1>5, <2>2
    <3>2. m + i \in 1 .. m + n /\ O[m + i] = U[i]
      BY <1>4, <3>1
    <3>3. U[i] = g.interface[k]
      BY <1>5, <3>1
    <3> QED
      BY <1>4, <3>2, <3>3 DEF ToSet
  <2> QED
    BY <2>1, <2>2
<1>11. ToSet(g.outputs) \cup ToSet(g.interface) \subseteq ToSet(O)
  BY <1>1, <1>9, <1>10
<1> QED
  BY <1>4, <1>7, <1>8, <1>11 DEF Ordered, O, N

(* Orders of graphs with the same nodes at the same places make the same. *)
LEMMA MakesSame ==
  ASSUME NEW g, NEW order, NEW h, NEW other, NEW n \in Nat,
         \A k \in 1 .. n :
           /\ Contains(g.interface, order[k]) <=> Contains(h.interface, other[k])
           /\ ~Contains(g.interface, order[k]) =>
                /\ g.op[order[k]] = h.op[other[k]]
                /\ Mapped(order, g.inputs[order[k]]) = Mapped(other, h.inputs[other[k]])
  PROVE  \A f : Makes(f, g, order, n) <=> Makes(f, h, other, n)
<1> DEFINE A(f, k) == IF Contains(g.interface, order[k]) THEN AddNode(f[k - 1], Source)
                      ELSE Wire(AddNode(f[k - 1], g.op[order[k]]), k, Mapped(order, g.inputs[order[k]]))
           B(f, k) == IF Contains(h.interface, other[k]) THEN AddNode(f[k - 1], Source)
                      ELSE Wire(AddNode(f[k - 1], h.op[other[k]]), k, Mapped(other, h.inputs[other[k]]))
<1> SUFFICES ASSUME NEW f PROVE Makes(f, g, order, n) <=> Makes(f, h, other, n)
  OBVIOUS
<1>1. \A k \in 1 .. n : A(f, k) = B(f, k)
  OBVIOUS
<1>2. /\ Makes(f, g, order, n) <=> f = [k \in 0 .. n |-> IF k = 0 THEN Empty ELSE A(f, k)]
      /\ Makes(f, h, other, n) <=> f = [k \in 0 .. n |-> IF k = 0 THEN Empty ELSE B(f, k)]
  BY DEF Makes
<1> HIDE DEF A, B
<1>3. \A k \in 0 .. n : k # 0 => k \in 1 .. n
  OBVIOUS
<1>4. [k \in 0 .. n |-> IF k = 0 THEN Empty ELSE A(f, k)] = [k \in 0 .. n |-> IF k = 0 THEN Empty ELSE B(f, k)]
  BY <1>1, <1>3
<1> QED
  BY <1>2, <1>4

(* Nodes that are made again in their order, and then in the order they are in,
   are the same. *)
LEMMA TranslatedAgain ==
  ASSUME NEW g, IsGraph(g), Unique(g.outputs), NEW order, Ordered(g, order),
         NEW other \in Seq(Nat), Len(other) = Len(order), \A k \in 1 .. Len(other) : other[k] = k
  PROVE  Translated(Translated(g, order), other) = Translated(g, order)
<1> DEFINE h == Translated(g, order)
           n == Len(order)
           M == Nodes(h)
           N == Nodes(g)
           f == CHOOSE u : Makes(u, g, order, n)
           e == CHOOSE u : Makes(u, h, other, n)
<1>1. IsGraph(h) /\ Renumbered(g, order, h) /\ order \in Seq(N)
  BY TranslatedIs DEF Ordered
<1>2. h = [f[n] EXCEPT !.interface = Mapped(order, g.interface), !.outputs = Mapped(order, g.outputs)]
  BY DEF Translated, Makes
<1>3. Translated(h, other) = [e[n] EXCEPT !.interface = Mapped(other, h.interface),
                                          !.outputs = Mapped(other, h.outputs)]
  <2>1. Translated(h, other) =
          [(CHOOSE u : Makes(u, h, other, Len(other)))[Len(other)] EXCEPT
             !.interface = Mapped(other, h.interface), !.outputs = Mapped(other, h.outputs)]
    <3> HIDE DEF h
    <3> QED
      BY DEF Translated, Makes
  <2> HIDE DEF h
  <2> QED
    BY <2>1
<1> HIDE DEF h, f, e
<1>4. n \in Nat /\ M = 1 .. n /\ Unique(order) /\ DOMAIN order = 1 .. n
  BY <1>1 DEF Renumbered
<1>5. /\ Renames(order, M, N)
      /\ g.outputs = Renamed(order, h.outputs) /\ g.interface = Renamed(order, h.interface)
      /\ \A k \in M : ~Contains(h.interface, k) => g.inputs[order[k]] = Renamed(order, h.inputs[k])
  BY <1>1, RenumberedReads
<1>6. /\ h.outputs \in Seq(M) /\ h.interface \in Seq(M) /\ \A k \in M : h.inputs[k] \in Seq(M)
  BY <1>1, InputsAreNodes DEF IsGraph
<1>7. ASSUME NEW k \in M
      PROVE  /\ Contains(g.interface, order[k]) <=> Contains(h.interface, k)
             /\ ~Contains(g.interface, order[k]) => h.op[k] = g.op[order[k]]
  BY <1>1 DEF Renumbered
<1> HIDE DEF n, M, N
<1>8. Renames(other, M, M) /\ Unique(other) /\ \A k \in 1 .. n : other[k] = k
  <2>1. DOMAIN other = 1 .. n /\ \A k \in 1 .. n : other[k] = k
    BY LenProperties DEF n
  <2>2. other = [k \in 1 .. n |-> k]
    BY <2>1
  <2> QED
    BY <1>4, <2>1, <2>2 DEF Renames, Unique
<1>9. ASSUME NEW s \in Seq(M)
      PROVE  Mapped(order, Renamed(order, s)) = s /\ Mapped(other, s) = s
  <2>1. Mapped(order, Renamed(order, s)) = s
    BY <1>4, <1>5, MappedRenamed
  <2>2. Mapped(other, Renamed(other, s)) = s
    BY <1>8, MappedRenamed
  <2>3. Renamed(other, s) = s
    <3>1. /\ Renamed(other, s) \in Seq(M) /\ Len(Renamed(other, s)) = Len(s) /\ DOMAIN s = 1 .. Len(s)
          /\ \A k \in DOMAIN s : s[k] \in M /\ Renamed(other, s)[k] = other[s[k]]
      BY <1>8, RenamedIs, LenProperties
    <3>2. \A k \in 1 .. Len(s) : Renamed(other, s)[k] = s[k]
      BY <1>4, <1>8, <3>1
    <3> QED
      BY <3>1, <3>2, SameSeq
  <2> QED
    BY <2>1, <2>2, <2>3
<1>10. ASSUME NEW k \in 1 .. n
       PROVE  /\ Contains(g.interface, order[k]) <=> Contains(h.interface, other[k])
              /\ ~Contains(g.interface, order[k]) =>
                   /\ g.op[order[k]] = h.op[other[k]]
                   /\ Mapped(order, g.inputs[order[k]]) = Mapped(other, h.inputs[other[k]])
  <2>1. k \in M /\ other[k] = k
    BY <1>4, <1>8
  <2>2. ~Contains(g.interface, order[k]) =>
          Mapped(order, g.inputs[order[k]]) = h.inputs[k] /\ Mapped(other, h.inputs[k]) = h.inputs[k]
    BY <1>5, <1>6, <1>7, <1>9, <2>1
  <2> QED
    BY <1>7, <2>1, <2>2
<1>11. e = f
  <2>1. \A u : Makes(u, g, order, n) <=> Makes(u, h, other, n)
    BY <1>4, <1>10, MakesSame
  <2> QED
    BY <2>1 DEF e, f
<1>12. /\ Mapped(other, h.interface) = Mapped(order, g.interface)
       /\ Mapped(other, h.outputs) = Mapped(order, g.outputs)
  BY <1>5, <1>6, <1>9
<1> QED
  BY <1>2, <1>3, <1>11, <1>12 DEF h

(* The normal form of a graph. *)
Normal(h) ==
  /\ \A k \in 1 .. Len(EvalOrder(h)) : EvalOrder(h)[k] = k
  /\ Live(h) \cup ToSet(h.interface) = Nodes(h)
  /\ Compact(h) = h

(* What a graph is compacted to is a normal form. *)
LEMMA CompactedIsNormal ==
  ASSUME NEW g, IsGraph(g), Levelled(g), Unique(g.outputs), Unique(g.interface)
  PROVE  Normal(Compact(g))
<1> DEFINE h == Compact(g)
           M == Nodes(h)
           N == Nodes(g)
           O == TranslationOrder(g)
           P == TranslationOrder(h)
           E == EvalOrder(g)
           F == EvalOrder(h)
           U == Unread(g)
           V == Unread(h)
           n == Len(O)
<1>1. Ordered(g, O) /\ O \in Seq(N)
  BY TranslationIsOrdered DEF Ordered
<1>2. h = Translated(g, O)
  BY DEF Compact
<1>3. IsGraph(h) /\ Renumbered(g, O, h) /\ Levelled(h)
  <2> HIDE DEF h, O
  <2> QED
    BY <1>1, <1>2, TranslatedIs, TranslatedMeans
<1> HIDE DEF h, O
<1>4. O = E \o U /\ P = F \o V
  BY DEF TranslationOrder, O
<1>5. E \in Seq(N) /\ U \in Seq(N) /\ F \in Seq(M) /\ V \in Seq(M)
  BY <1>3, LiveIs, UnreadIs
<1>6. E = Renamed(O, F)
  BY <1>1, <1>3, EvalOrderRenamed
<1>7. Renames(O, M, N) /\ g.interface = Renamed(O, h.interface) /\ h.interface \in Seq(M)
  <2>1. h.interface \in Seq(M)
    BY <1>3 DEF IsGraph
  <2> QED
    BY <1>1, <1>3, <2>1, RenumberedReads
<1>8. Unique(O) /\ n \in Nat /\ DOMAIN O = 1 .. n /\ M = 1 .. n
  BY <1>3 DEF Renumbered
<1>9. U = Renamed(O, V)
  <2> DEFINE s == h.interface
             r == g.interface
             places == {k \in DOMAIN s : ~Contains(F, s[k])}
  <2>1. DOMAIN r = DOMAIN s /\ \A k \in DOMAIN s : s[k] \in M /\ r[k] = O[s[k]]
    BY <1>7, RenamedIs
  <2>2. \A k \in DOMAIN s : Contains(E, r[k]) <=> Contains(F, s[k])
    <3> SUFFICES ASSUME NEW k \in DOMAIN s PROVE Contains(E, r[k]) <=> Contains(F, s[k])
      OBVIOUS
    <3>1. s[k] \in M /\ r[k] = O[s[k]]
      BY <2>1
    <3>2. F \in Seq(M) /\ Renames(O, M, N) /\ Unique(O)
      BY <1>5, <1>7, <1>8
    <3> HIDE DEF E, F, s, r, M, N
    <3>3. Contains(Renamed(O, F), O[s[k]]) <=> Contains(F, s[k])
      BY ONLY <3>1, <3>2, RenamedContains
    <3> QED
      BY <1>6, <3>1, <3>3
  <2>3. {k \in DOMAIN r : ~Contains(E, r[k])} = places
    BY <2>1, <2>2
  <2>4. U = Chosen(r, places) /\ V = Chosen(s, places)
    BY <2>3 DEF Unread
  <2> HIDE DEF places, U, V, M, N
  <2> QED
    BY <1>7, <2>4, RenamedChosen
<1> HIDE DEF E, F, U, V, M, N, P
<1>10. O = Renamed(O, P)
  <2>1. Renamed(O, F \o V) = Renamed(O, F) \o Renamed(O, V)
    BY <1>5, <1>7, RenamedConcat
  <2> QED
    BY <1>4, <1>6, <1>9, <2>1
<1>11. P \in Seq(M) /\ Len(P) = n /\ \A k \in 1 .. n : P[k] = k
  <2>1. P \in Seq(M)
    BY <1>4, <1>5, ConcatProperties
  <2>2. /\ Len(Renamed(O, P)) = Len(P) /\ DOMAIN Renamed(O, P) = DOMAIN P
        /\ \A k \in DOMAIN P : P[k] \in M /\ Renamed(O, P)[k] = O[P[k]]
    BY <1>7, <2>1, RenamedIs
  <2>3. \A k \in DOMAIN O : P[k] \in DOMAIN O /\ O[k] = O[P[k]]
    BY <1>8, <1>10, <2>2
  <2>4. \A k \in DOMAIN O : P[k] = k
    BY <1>8, <2>3 DEF Unique
  <2> QED
    BY <1>8, <1>10, <2>1, <2>2, <2>4
<1> HIDE DEF n
<1>12. /\ Len(F) \in Nat /\ Len(V) \in Nat /\ DOMAIN F = 1 .. Len(F) /\ DOMAIN V = 1 .. Len(V)
       /\ n = Len(F) + Len(V)
       /\ \A k \in 1 .. n : P[k] = IF k <= Len(F) THEN F[k] ELSE V[k - Len(F)]
  BY <1>4, <1>5, <1>11, LenProperties, ConcatProperties
<1>13. \A k \in 1 .. Len(F) : F[k] = k
  BY <1>11, <1>12
<1>14. ToSet(F) \cup ToSet(h.interface) = M
  <2>1. ToSet(V) \subseteq ToSet(h.interface)
    <3> DEFINE places == {k \in DOMAIN h.interface : ~Contains(F, h.interface[k])}
    <3>1. PICK at : Picks(M, V, h.interface, places, at)
      BY <1>3, UnreadIs DEF V, F, M
    <3> QED
      BY <3>1 DEF Picks, ToSet
  <2>2. ASSUME NEW k \in M PROVE k \in ToSet(F) \cup ToSet(V)
    <3>1. k \in 1 .. n /\ P[k] = k
      BY <1>8, <1>11
    <3>2. CASE k <= Len(F)
      <4>1. k \in DOMAIN F /\ F[k] = k
        BY <1>12, <3>1, <3>2
      <4> QED
        BY <4>1 DEF ToSet
    <3>3. CASE ~(k <= Len(F))
      <4>1. k - Len(F) \in DOMAIN V /\ V[k - Len(F)] = k
        BY <1>12, <3>1, <3>3
      <4> QED
        BY <4>1 DEF ToSet
    <3> QED
      BY <3>2, <3>3
  <2>3. ToSet(F) \subseteq M /\ ToSet(h.interface) \subseteq M
    BY <1>5, <1>7, InToSet
  <2> QED
    BY <2>1, <2>2, <2>3
<1>15. Compact(h) = h
  <2>1. P \in Seq(Nat)
    <3>1. DOMAIN P = 1 .. n /\ \A k \in 1 .. n : P[k] \in Nat
      BY <1>8, <1>11, LenProperties
    <3>2. P = [k \in 1 .. n |-> k]
      BY <1>11, <3>1
    <3>3. [k \in 1 .. n |-> k] \in [1 .. n -> Nat]
      OBVIOUS
    <3> QED
      BY <1>8, <3>2, <3>3, FunctionIsSeq DEF n
  <2>2. Translated(h, P) = h
    BY <1>1, <1>2, <1>11, <2>1, TranslatedAgain DEF n
  <2> QED
    BY <2>2 DEF Compact, P
<1> QED
  BY <1>13, <1>14, <1>15 DEF Normal, Live, F, M, h

-----------------------------------------------------------------------------
(* The inputs of a model are different nodes: add_source makes one for each. *)
InputsDiffer == \A g \in Models : Unique(g.interface)

(* They stay so, and so are those of the model to be. *)
UInv == Unique(model.interface) /\ (Working => Unique(job.interface))

(* A new Source replaces one input. *)
LEMMA FacesDiffer ==
  ASSUME NEW g, IsGraph(g), Unique(g.interface), NEW patch, NEW h, NEW mapping, NEW new,
         Sited(g, patch, h, mapping), Faces(g, patch, h, mapping, new)
  PROVE  Unique(new)
<1> DEFINE D == DOMAIN g.interface
           By(i, k) == /\ i \in Added(patch) /\ Renews(g, patch, i)
                       /\ patch.nodes[i].replaces = g.interface[k] /\ new[k] = mapping[i]
<1>1. DOMAIN new = D /\ \A k \in D : new[k] = g.interface[k] \/ \E i : By(i, k)
  BY DEF Faces
<1>2. ASSUME NEW k \in D PROVE g.interface[k] \in Nodes(g)
  <2>1. g.interface \in Seq(Nodes(g))
    BY DEF IsGraph
  <2> QED
    BY <2>1, LenProperties, ElementOfSeq
<1>3. ASSUME NEW i, NEW k \in D, By(i, k) PROVE new[k] \notin Nodes(g)
  <2>1. i \in Added(patch) /\ new[k] = mapping[i]
    BY <1>3
  <2>2. mapping[i] \notin Nodes(g)
    BY <2>1 DEF Sited, Added
  <2> QED
    BY <2>1, <2>2
<1>4. ASSUME NEW j \in D, NEW k \in D, new[j] = new[k] PROVE j = k
  <2>1. CASE new[j] = g.interface[j] /\ new[k] = g.interface[k]
    BY <1>4, <2>1 DEF Unique
  <2>2. CASE new[j] # g.interface[j] \/ new[k] # g.interface[k]
    <3>1. new[j] \notin Nodes(g)
      BY <1>1, <1>3, <1>4, <2>2
    <3>2. new[j] # g.interface[j] /\ new[k] # g.interface[k]
      BY <1>2, <1>4, <3>1
    <3>3. PICK i : By(i, j)
      BY <1>1, <3>2
    <3>4. PICK l : By(l, k)
      BY <1>1, <3>2
    <3>5. i = l
      BY <1>4, <3>3, <3>4 DEF Sited
    <3>6. g.interface[j] = g.interface[k]
      BY <3>3, <3>4, <3>5
    <3> QED
      BY <3>6 DEF Unique
  <2> QED
    BY <2>1, <2>2
<1> QED
  BY <1>1, <1>4 DEF Unique

(* The model to be has other inputs that are different. *)
LEMMA StartPatchDiffers ==
  ASSUME IInv, UInv, NEW patch, StartPatch(patch)
  PROVE  UInv'
<1> DEFINE h == WithNodes(model, patch, Mapping(patch))
<1>1. IsGraph(model) /\ Reciprocal(model) /\ Unique(model.interface)
  BY DEF IInv, UInv
<1>2. /\ Fits(patch, model) /\ model' = h
      /\ job' = [at |-> "shunting", patch |-> patch, mapping |-> Mapping(patch),
                 interface |-> NewInterface(patch), left |-> DOMAIN patch.shunt]
  BY DEF StartPatch
<1>3. /\ Grows(model, Len(model.op) + Cardinality(Added(patch)), h)
      /\ Placed(patch, h)
  BY <1>1, <1>2, PatchIsPlaced
<1> HIDE DEF h
<1>4. Nodes(model) \subseteq Nodes(h) /\ h.interface = model.interface
  BY <1>1, <1>3, GrownIsGraph
<1>5. Sited(model, patch, h, Mapping(patch))
  BY <1>3 DEF Placed, Sited
<1>6. Faces(model, patch, h, Mapping(patch), NewInterface(patch))
  BY <1>1, <1>4, <1>5, InterfaceFaces
<1>7. Unique(NewInterface(patch))
  BY <1>1, <1>5, <1>6, FacesDiffer
<1>8. job'.interface = NewInterface(patch)
  BY <1>2
<1> QED
  BY <1>1, <1>2, <1>4, <1>7, <1>8 DEF UInv

(* Shunting leaves the inputs. *)
LEMMA ShuntOneDiffers ==
  ASSUME IInv, UInv, ShuntOne
  PROVE  UInv'
<1>1. PICK n \in job.left :
        LET by == job.mapping[job.patch.shunt[n]]
            g == AddEdges(model, [k \in DOMAIN model.succ[n] |-> Edge(by, model.succ[n][k])])
        IN /\ model' = [g EXCEPT !.outputs = [k \in DOMAIN @ |-> IF @[k] = n THEN by ELSE @[k]]]
           /\ job' = [job EXCEPT !.left = @ \ {n}]
  BY DEF ShuntOne
<1>2. job.at = "shunting" /\ Working /\ PatchIsIn /\ IsGraph(model) /\ Reciprocal(model)
  BY DEF ShuntOne, IInv, Working
<1> DEFINE by == job.mapping[job.patch.shunt[n]]
           g == AddEdges(model, Moves(model, n, by))
           outs == [k \in DOMAIN g.outputs |-> IF g.outputs[k] = n THEN by ELSE g.outputs[k]]
<1>3. n \in Nodes(model) /\ by \in Nodes(model)
  BY <1>2 DEF PatchIsIn
<1>4. model' = [g EXCEPT !.outputs = outs] /\ job' = [job EXCEPT !.left = @ \ {n}]
  BY <1>1 DEF Moves
<1>5. IsGraph(g) /\ g.interface = model.interface
  BY <1>2, <1>3, MovesMove
<1> HIDE DEF g, outs
<1>6. g = [op |-> g.op, inputs |-> g.inputs, succ |-> g.succ, interface |-> g.interface, outputs |-> g.outputs]
  BY <1>5 DEF IsGraph
<1>7. model'.interface = model.interface
  BY <1>4, <1>5, <1>6
<1>8. job'.interface = job.interface
  BY <1>2, <1>4 DEF PatchIsIn
<1> QED
  BY <1>2, <1>7, <1>8 DEF UInv

(* So does wiring. *)
LEMMA WireOneDiffers ==
  ASSUME IInv, UInv, WireOne
  PROVE  UInv'
<1> DEFINE N == Nodes(model)
           P == DOMAIN job.patch.nodes
<1>1. PICK i \in job.left :
        LET ins == job.patch.nodes[i].inputs IN
        /\ model' = Wire(model, job.mapping[i], [s \in DOMAIN ins |-> job.mapping[ins[s]]])
        /\ job' = [job EXCEPT !.left = @ \ {i}]
  BY DEF WireOne
<1> DEFINE ins == job.patch.nodes[i].inputs
           mapped == [s \in DOMAIN ins |-> job.mapping[ins[s]]]
           at == job.mapping[i]
           h == Wire(model, at, mapped)
<1>2. job.at = "wiring" /\ Working /\ PatchIsIn /\ IsGraph(model) /\ Reciprocal(model)
  BY DEF WireOne, IInv, Working
<1>3. at \in N /\ ins \in Seq(P) /\ \A k \in P : job.mapping[k] \in N
  BY <1>2 DEF PatchIsIn
<1>4. mapped \in Seq(N)
  <2>1. Len(ins) \in Nat /\ DOMAIN ins = 1 .. Len(ins) /\ \A s \in 1 .. Len(ins) : ins[s] \in P
    <3> HIDE DEF ins, P
    <3> QED
      BY <1>3, LenProperties, ElementOfSeq
  <2>2. mapped \in [1 .. Len(ins) -> N]
    <3> HIDE DEF ins, P, N
    <3> QED
      BY <1>3, <2>1
  <2> HIDE DEF mapped, ins, N
  <2> QED
    BY <2>1, <2>2, FunctionIsSeq
<1>5. model' = h /\ job' = [job EXCEPT !.left = @ \ {i}]
  BY <1>1
<1>6. h.interface = model.interface
  <2> DEFINE edges == [slot \in DOMAIN mapped |-> Edge(mapped[slot], Inlet(at, slot))]
  <2>1. Wired(model, edges, Len(mapped), h)
    <3> HIDE DEF mapped, at
    <3> QED
      BY <1>2, <1>3, <1>4, WireWires
  <2> QED
    BY <2>1 DEF Wired
<1>7. job'.interface = job.interface
  BY <1>2, <1>5 DEF PatchIsIn
<1> HIDE DEF h
<1> QED
  BY <1>2, <1>5, <1>6, <1>7 DEF UInv

(* The inputs of a model are different nodes, at every step. *)
LEMMA InputsStayDifferent ==
  ASSUME InputsDiffer
  PROVE  Spec => []UInv
<1>1. Init => UInv
  BY DEF Init, Idle, UInv, Working, InputsDiffer
<1>2. ASSUME IInv, UInv, [Next]_vars PROVE UInv'
  <2>1. CASE AnyPatch
    BY <1>2, <2>1, StartPatchDiffers DEF AnyPatch
  <2>2. CASE ShuntOne
    BY <1>2, <2>2, ShuntOneDiffers
  <2>3. CASE RefuseOutputs
    <3>1. model' = model /\ job'.at = "failed"
      BY <2>3 DEF RefuseOutputs
    <3> QED
      BY <1>2, <3>1 DEF UInv, Working
  <2>4. CASE AcceptOutputs
    <3>1. job.at = "shunting" /\ Working /\ PatchIsIn
      BY <1>2, <2>4 DEF AcceptOutputs, IInv, Working
    <3>2. model' = model /\ job' = [job EXCEPT !.at = "wiring", !.left = Added(job.patch)]
      BY <2>4 DEF AcceptOutputs
    <3>3. job'.interface = job.interface
      BY <3>1, <3>2 DEF PatchIsIn
    <3> QED
      BY <1>2, <3>1, <3>2, <3>3 DEF UInv
  <2>5. CASE WireOne
    BY <1>2, <2>5, WireOneDiffers
  <2>6. CASE FinishPatch
    <3>1. job.at = "wiring" /\ job'.at = "idle" /\ model'.interface = job.interface
      BY <1>2, <2>6, FinishPatchIs
    <3> QED
      BY <1>2, <3>1 DEF UInv, Working
  <2>7. CASE CompactModel
    <3> DEFINE order == TranslationOrder(model)
               h == Translated(model, order)
    <3>1. /\ job.at = "idle" /\ IsGraph(model) /\ Unique(model.outputs)
          /\ Ordered(model, order) /\ model' = h /\ job' = job
      BY <1>2, <2>7 DEF CompactModel, Compact, IInv
    <3>2. Renumbered(model, order, h)
      <4> HIDE DEF order
      <4> QED
        BY <3>1, TranslatedIs
    <3> HIDE DEF order, h
    <3>3. /\ DOMAIN h.interface = DOMAIN model.interface
          /\ \A k \in DOMAIN model.interface : order[h.interface[k]] = model.interface[k]
      BY <3>2 DEF Renumbered
    <3>4. Unique(h.interface)
      BY <1>2, <3>3 DEF UInv, Unique
    <3> QED
      BY <3>1, <3>4 DEF UInv, Working
  <2>8. CASE UNCHANGED vars
    <3>1. model' = model /\ job' = job
      BY <2>8 DEF vars
    <3> QED
      BY <1>2, <3>1 DEF UInv, Working
  <2> QED
    BY <1>2, <2>1, <2>2, <2>3, <2>4, <2>5, <2>6, <2>7, <2>8 DEF Next
<1> QED
  BY <1>1, <1>2, Invariance, PTL DEF Spec

(* What compact() makes of a model (model/graph.rs, translator.rs), after whatever
   patches, is in evaluation order and has no node but those in use and the inputs
   (check_compact), and to compact it again, as the optimizer does twice in a row,
   changes nothing. *)
THEOREM CompactIsFinal ==
  ASSUME PatchesAreEquivalent, InputsDiffer
  PROVE  Spec => []CompactIsNormal
<1>1. TInv /\ UInv => CompactIsNormal
  <2> SUFFICES ASSUME TInv, UInv, job.at = "idle" PROVE Normal(Compact(model))
    BY DEF CompactIsNormal, Normal
  <2>1. IsGraph(model) /\ Levelled(model) /\ Unique(model.outputs) /\ Unique(model.interface)
    BY DEF TInv, IInv, UInv
  <2> QED
    BY <2>1, CompactedIsNormal
<1> QED
  BY <1>1, TermsInvariance, InputsStayDifferent, PTL

=============================================================================
