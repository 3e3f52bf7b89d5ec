-------------------------- MODULE ModelPatch_proofs --------------------------
(***************************************************************************)
(* Proofs about ModelPatch, for every model, every patch and any number of *)
(* them: the edges of a graph stay reciprocal, the model keeps its         *)
(* signature, and it means what it meant.                                  *)
(*                                                                         *)
(* The first invariant, IInv, says that what holds of a model between two  *)
(* patches holds while one is applied: the nodes of the patch are in the   *)
(* model, and the inputs that it will have are Sources that are not        *)
(* obliterated.                                                            *)
(*                                                                         *)
(* The second one, TInv, says what the nodes mean.  Half way, the graph    *)
(* means something else: the new nodes read nothing yet, and the inputs    *)
(* are the old ones.  So each node is told, when the patch starts, the     *)
(* term that it will have; the graph agrees with it wherever it is wired,  *)
(* and levels tell that there is no loop in what it will be.               *)
(***************************************************************************)
EXTENDS ModelPatch, TLAPS, FiniteSetTheorems, SequenceTheorems, WellFoundedInduction

-----------------------------------------------------------------------------
(* Induction over the naturals, with a set instead of an operator. *)

(* A set of naturals that is not empty has a least element. *)
LEMMA LeastNatural ==
  ASSUME NEW T \in SUBSET Nat, T # {}
  PROVE  \E m \in T : \A k \in T : m <= k
<1> DEFINE R == OpToRel(<, Nat)
<1>1. IsWellFoundedOn(R, Nat)
  BY NatLessThanWellFounded
<1>a. \A x, y \in Nat : x < y => <<x, y>> \in R
  BY DEF OpToRel
<1> HIDE DEF R
<1>2. PICK x \in T : \A y \in T : ~ (<<y, x>> \in R)
  BY <1>1, WFMin
<1>3. \A y \in T : ~(y < x)
  BY <1>2, <1>a
<1> QED
  BY <1>3

(* Induction, of a set. *)
LEMMA SetInduction ==
  ASSUME NEW S, 0 \in S, \A n \in Nat : n \in S => n + 1 \in S
  PROVE  Nat \subseteq S
<1> SUFFICES ASSUME NEW n \in Nat \ S PROVE FALSE
  OBVIOUS
<1>1. PICK m \in Nat \ S : \A k \in Nat \ S : m <= k
  <2> DEFINE T == Nat \ S
  <2>1. T \in SUBSET Nat /\ T # {}
    OBVIOUS
  <2> HIDE DEF T
  <2>2. \E m \in T : \A k \in T : m <= k
    BY <2>1, LeastNatural
  <2> QED BY <2>2 DEF T
<1>2. m # 0 /\ m - 1 \in Nat /\ m - 1 \notin Nat \ S
  BY <1>1
<1> QED
  BY <1>1, <1>2

(* What is chosen of the first n elements. *)
Keeps(f, s, places, n) ==
  f = [k \in 0 .. n |-> IF k = 0 THEN <<>> ELSE IF k \in places THEN Append(f[k - 1], s[k]) ELSE f[k - 1]]

(* The prefixes that the definition of Chosen names exist. *)
LEMMA KeptExists ==
  ASSUME NEW s, NEW places, NEW n \in Nat
  PROVE  \E f : Keeps(f, s, places, n)
<1> DEFINE S == {m \in Nat : \E f : Keeps(f, s, places, m)}
<1>1. 0 \in S
  <2> DEFINE f == [k \in 0 .. 0 |-> <<>>]
  <2>1. Keeps(f, s, places, 0)
    BY DEF Keeps
  <2> QED
    BY <2>1
<1>2. ASSUME NEW m \in Nat, m \in S PROVE m + 1 \in S
  <2>1. PICK f : Keeps(f, s, places, m)
    BY <1>2
  <2> DEFINE g == [k \in 0 .. m + 1 |-> IF k <= m THEN f[k]
                                        ELSE IF k \in places THEN Append(f[m], s[k]) ELSE f[m]]
  <2>2. ASSUME NEW k \in 0 .. m + 1
        PROVE  g[k] = IF k = 0 THEN <<>> ELSE IF k \in places THEN Append(g[k - 1], s[k]) ELSE g[k - 1]
    <3>1. CASE k <= m
      <4>1. k \in 0 .. m
        BY <3>1
      <4>2. f[k] = IF k = 0 THEN <<>> ELSE IF k \in places THEN Append(f[k - 1], s[k]) ELSE f[k - 1]
        BY <2>1, <4>1 DEF Keeps
      <4>3. g[k] = f[k]
        BY <3>1
      <4>4. k # 0 => g[k - 1] = f[k - 1]
        BY <4>1
      <4> QED
        BY <4>2, <4>3, <4>4
    <3>2. CASE ~ (k <= m)
      <4>1. k = m + 1 /\ k - 1 = m /\ k # 0
        BY <3>2
      <4>2. g[k - 1] = f[m]
        BY <4>1
      <4> QED
        BY <3>2, <4>1, <4>2
    <3> QED
      BY <3>1, <3>2
  <2>3. Keeps(g, s, places, m + 1)
    <3>1. g = [k \in 0 .. m + 1 |-> g[k]]
      OBVIOUS
    <3> HIDE DEF g
    <3> QED
      BY <2>2, <3>1 DEF Keeps
  <2> HIDE DEF g
  <2> QED
    BY <2>3
<1> HIDE DEF S
<1>3. Nat \subseteq S
  BY <1>1, <1>2, SetInduction
<1> QED
  BY <1>3 DEF S

(* c has the elements of s at the places, in order: its k-th is the one at at[k]. *)
Picks(S, c, s, places, at) ==
  /\ c \in Seq(S)
  /\ at \in [DOMAIN c -> places]
  /\ \A k \in DOMAIN c : c[k] = s[at[k]]
  /\ \A j, k \in DOMAIN c : j < k => at[j] < at[k]
  /\ \A i \in places : \E k \in DOMAIN c : at[k] = i

(* One more place, after the others. *)
LEMMA PicksOne ==
  ASSUME NEW S, NEW c, NEW s, NEW n \in Nat, NEW places \in SUBSET (1 .. n), NEW at,
         Picks(S, c, s, places, at), s[n + 1] \in S
  PROVE  \E new : Picks(S, Append(c, s[n + 1]), s, places \cup {n + 1}, new)
<1> DEFINE L == Len(c)
           y == s[n + 1]
           u == Append(c, y)
           new == [k \in 1 .. L + 1 |-> IF k <= L THEN at[k] ELSE n + 1]
<1>1. c \in Seq(S) /\ L \in Nat /\ DOMAIN c = 1 .. L
  <2>1. c \in Seq(S)
    BY DEF Picks
  <2> QED
    BY <2>1, LenProperties
<1> HIDE DEF y
<1>2. u \in Seq(S) /\ DOMAIN u = 1 .. L + 1 /\ u[L + 1] = y /\ \A k \in 1 .. L : u[k] = c[k]
  BY <1>1 DEF y
<1> HIDE DEF u, L
<1>3. /\ \A k \in 1 .. L : new[k] = at[k] /\ at[k] \in places /\ at[k] \in 1 .. n
      /\ new[L + 1] = n + 1
  <2>1. \A k \in 1 .. L : at[k] \in places
    BY <1>1 DEF Picks
  <2>2. \A k \in 1 .. L : k \in 1 .. L + 1 /\ k <= L
    BY <1>1
  <2>3. L + 1 \in 1 .. L + 1 /\ ~(L + 1 <= L)
    BY <1>1
  <2> QED
    BY <2>1, <2>2, <2>3
<1>4. \A k \in 1 .. L + 1 : k \in 1 .. L \/ k = L + 1
  BY <1>1
<1>5. new \in [1 .. L + 1 -> places \cup {n + 1}]
  <2>1. new = [k \in 1 .. L + 1 |-> new[k]]
    OBVIOUS
  <2> HIDE DEF new
  <2> QED
    BY <1>3, <1>4, <2>1
<1> HIDE DEF new
<1>6. \A k \in 1 .. L + 1 : u[k] = s[new[k]]
  BY <1>1, <1>2, <1>3, <1>4 DEF Picks, y
<1>7. ASSUME NEW j \in 1 .. L + 1, NEW k \in 1 .. L + 1, j < k PROVE new[j] < new[k]
  <2>1. j \in 1 .. L
    BY <1>1, <1>7
  <2>2. CASE k \in 1 .. L
    BY <1>1, <1>3, <1>7, <2>1, <2>2 DEF Picks
  <2>3. CASE k = L + 1
    BY <1>3, <2>1, <2>3
  <2> QED
    BY <1>4, <2>2, <2>3
<1>8. ASSUME NEW i \in places \cup {n + 1} PROVE \E k \in 1 .. L + 1 : new[k] = i
  <2>1. CASE i \in places
    <3>1. PICK k \in DOMAIN c : at[k] = i
      BY <2>1 DEF Picks
    <3>2. k \in 1 .. L /\ k \in 1 .. L + 1
      BY <1>1, <3>1
    <3> QED
      BY <1>3, <3>1, <3>2
  <2>2. CASE i = n + 1
    <3>1. L + 1 \in 1 .. L + 1
      BY <1>1
    <3> QED
      BY <1>3, <2>2, <3>1
  <2> QED
    BY <2>1, <2>2
<1>9. Picks(S, u, s, places \cup {n + 1}, new)
  BY <1>2, <1>5, <1>6, <1>7, <1>8 DEF Picks
<1> QED
  BY <1>9 DEF u, y

(* What is chosen. *)
LEMMA ChosenPicks ==
  ASSUME NEW S, NEW s \in Seq(S), NEW places \in SUBSET DOMAIN s
  PROVE  \E at : Picks(S, Chosen(s, places), s, places, at)
<1> DEFINE n == Len(s)
           f == CHOOSE g : Keeps(g, s, places, n)
<1>1. n \in Nat /\ DOMAIN s = 1 .. n /\ \A i \in 1 .. n : s[i] \in S
  BY LenProperties, ElementOfSeq
<1>2. Keeps(f, s, places, n)
  <2> HIDE DEF n
  <2> QED
    BY <1>1, KeptExists
<1>3. Chosen(s, places) = f[n]
  BY DEF Chosen, Keeps
<1> HIDE DEF f, n
<1> DEFINE Fine(k) == \E at : Picks(S, f[k], s, places \cap (1 .. k), at)
           T == {k \in Nat : k <= n => Fine(k)}
<1>4. 0 \in T
  <2>1. f[0] = <<>>
    BY <1>1, <1>2 DEF Keeps
  <2>2. places \cap (1 .. 0) = {}
    OBVIOUS
  <2>3. Picks(S, <<>>, s, {}, <<>>)
    BY DEF Picks
  <2> QED
    BY <2>1, <2>2, <2>3
<1>5. ASSUME NEW k \in Nat, k \in T PROVE k + 1 \in T
  <2> HIDE DEF Fine
  <2> SUFFICES ASSUME k + 1 <= n PROVE Fine(k + 1)
    OBVIOUS
  <2>0. Fine(k)
    BY <1>1, <1>5
  <2> USE DEF Fine
  <2>1. PICK at : Picks(S, f[k], s, places \cap (1 .. k), at)
    BY <2>0
  <2>2. k + 1 \in 0 .. n /\ k + 1 \in 1 .. n /\ (k + 1) - 1 = k /\ k + 1 # 0
    BY <1>1
  <2>3. f[k + 1] = IF k + 1 \in places THEN Append(f[k], s[k + 1]) ELSE f[k]
    BY <1>2, <2>2 DEF Keeps
  <2>4. 1 .. k + 1 = (1 .. k) \cup {k + 1}
    OBVIOUS
  <2>5. CASE k + 1 \in places
    <3> DEFINE Q == places \cap (1 .. k)
    <3>1. Q \in SUBSET (1 .. k) /\ places \cap (1 .. k + 1) = Q \cup {k + 1}
      BY <2>4, <2>5
    <3>2. s[k + 1] \in S
      BY <1>1, <2>2
    <3>3. Picks(S, f[k], s, Q, at)
      BY <2>1
    <3> HIDE DEF Q
    <3>4. \E new : Picks(S, Append(f[k], s[k + 1]), s, Q \cup {k + 1}, new)
      BY <3>1, <3>2, <3>3, PicksOne
    <3> QED
      BY <2>3, <2>5, <3>1, <3>4
  <2>6. CASE k + 1 \notin places
    <3>1. places \cap (1 .. k + 1) = places \cap (1 .. k)
      BY <2>4, <2>6
    <3> QED
      BY <2>1, <2>3, <2>6, <3>1
  <2> QED
    BY <2>5, <2>6
<1> HIDE DEF Fine
<1>6. Nat \subseteq T
  <2>1. \A k \in Nat : k \in T => k + 1 \in T
    BY <1>5
  <2> HIDE DEF T
  <2> QED
    BY ONLY <1>4, <2>1, SetInduction
<1>7. Fine(n)
  BY <1>1, <1>6
<1>8. places \cap (1 .. n) = places
  BY <1>1
<1> QED
  BY <1>3, <1>7, <1>8 DEF Fine

(* retain leaves the others, once each. *)
LEMMA WithoutFacts ==
  ASSUME NEW S, NEW s \in Seq(S), NEW x, Unique(s)
  PROVE  /\ Without(s, x) \in Seq(S)
         /\ Unique(Without(s, x))
         /\ ToSet(Without(s, x)) = ToSet(s) \ {x}
<1> DEFINE places == {k \in DOMAIN s : s[k] # x}
           c == Without(s, x)
<1>1. places \in SUBSET DOMAIN s /\ c = Chosen(s, places)
  BY DEF Without
<1> HIDE DEF places
<1>2. PICK at : Picks(S, c, s, places, at)
  BY <1>1, ChosenPicks
<1> HIDE DEF c
<1>3. c \in Seq(S) /\ at \in [DOMAIN c -> places] /\ \A k \in DOMAIN c : c[k] = s[at[k]]
  BY <1>2 DEF Picks
<1>4. Unique(c)
  <2> SUFFICES ASSUME NEW j \in DOMAIN c, NEW k \in DOMAIN c, c[j] = c[k] PROVE j = k
    BY DEF Unique
  <2>1. at[j] = at[k] /\ at[j] \in Nat
    BY <1>1, <1>3, LenProperties DEF Unique
  <2>2. j \in Nat /\ k \in Nat
    BY <1>3, LenProperties
  <2>3. ~(j < k) /\ ~(k < j)
    BY <1>2, <2>1 DEF Picks
  <2> QED
    BY <2>2, <2>3
<1>5. ASSUME NEW y PROVE y \in ToSet(c) <=> y \in ToSet(s) \ {x}
  <2>1. ASSUME NEW k \in DOMAIN c PROVE c[k] \in ToSet(s) \ {x}
    BY <1>1, <1>3 DEF places, ToSet
  <2>2. ASSUME NEW i \in DOMAIN s, s[i] # x PROVE s[i] \in ToSet(c)
    <3>1. i \in places
      BY <2>2 DEF places
    <3>2. PICK k \in DOMAIN c : at[k] = i
      BY <1>2, <3>1 DEF Picks
    <3> QED
      BY <1>3, <3>2 DEF ToSet
  <2> QED
    BY <2>1, <2>2 DEF ToSet
<1>6. ToSet(c) = ToSet(s) \ {x}
  BY <1>5
<1> QED
  BY <1>3, <1>4, <1>6 DEF c

-----------------------------------------------------------------------------
(* Edges: Graph::add_edge, and many of them. *)

(* What is appended to a sequence that does not have it. *)
LEMMA AppendFacts ==
  ASSUME NEW S, NEW t \in Seq(S), NEW y \in S, Unique(t), y \notin ToSet(t)
  PROVE  /\ Append(t, y) \in Seq(S)
         /\ Unique(Append(t, y))
         /\ ToSet(Append(t, y)) = ToSet(t) \cup {y}
<1> DEFINE u == Append(t, y)
<1>1. /\ u \in Seq(S) /\ Len(t) \in Nat /\ DOMAIN t = 1 .. Len(t) /\ DOMAIN u = 1 .. Len(t) + 1
      /\ \A i \in 1 .. Len(t) : u[i] = t[i]
      /\ u[Len(t) + 1] = y
  OBVIOUS
<1> HIDE DEF u
<1>2. ToSet(u) = ToSet(t) \cup {y}
  <2>1. DOMAIN u = DOMAIN t \cup {Len(t) + 1}
    BY <1>1
  <2> QED
    BY <1>1, <2>1 DEF ToSet
<1>3. Unique(u)
  <2> SUFFICES ASSUME NEW i \in DOMAIN u, NEW j \in DOMAIN u, u[i] = u[j] PROVE i = j
    BY DEF Unique
  <2>1. \A m \in 1 .. Len(t) : t[m] # y
    BY <1>1 DEF ToSet
  <2> QED
    BY <1>1, <2>1 DEF Unique
<1> QED
  BY <1>1, <1>2, <1>3 DEF u

(* e is an inlet that reads n. *)
Reads(g, n, e) ==
  \E m \in Nodes(g) : \E t \in DOMAIN g.inputs[m] : g.inputs[m][t] = n /\ e = Inlet(m, t)

(* Reciprocal, element by element. *)
LEMMA ReciprocalMeans ==
  ASSUME NEW g
  PROVE  Reciprocal(g) <=> \A n \in Nodes(g) :
           Unique(g.succ[n]) /\ \A e : e \in ToSet(g.succ[n]) <=> Reads(g, n, e)
<1>1. ASSUME NEW n \in Nodes(g)
      PROVE  \A e : e \in UNION {{Inlet(m, s) : s \in {t \in DOMAIN g.inputs[m] : g.inputs[m][t] = n}} : m \in Nodes(g)}
                      <=> Reads(g, n, e)
  BY DEF Reads
<1> QED
  BY <1>1 DEF Reciprocal

(* What add_edge makes of a graph: inlet e reads n, the rest is as it was. *)
Connected(g, n, m, s, h) ==
  /\ IsGraph(h) /\ Reciprocal(h)
  /\ h.op = g.op /\ h.interface = g.interface /\ h.outputs = g.outputs
  /\ \A k \in Nodes(g) : k # m => h.inputs[k] = g.inputs[k]
  /\ DOMAIN h.inputs[m] = DOMAIN g.inputs[m] \cup {s}
  /\ h.inputs[m][s] = n
  /\ \A t \in DOMAIN g.inputs[m] : t # s => h.inputs[m][t] = g.inputs[m][t]

(* Graph::add_edge keeps the consumers and the inputs of all nodes in step. *)
LEMMA AddEdgeConnects ==
  ASSUME NEW g, IsGraph(g), Reciprocal(g),
         NEW n \in Nodes(g), NEW m \in Nodes(g), NEW s \in Nat \ {0}, s <= Len(g.inputs[m]) + 1
  PROVE  Connected(g, n, m, s, AddEdge(g, n, Inlet(m, s)))
<1> DEFINE N == Nodes(g)
           E == [node : N, slot : Nat \ {0}]
           e == Inlet(m, s)
           old == g.inputs[m]
           left == IF s <= Len(old) THEN [g.succ EXCEPT ![old[s]] = Without(@, e)] ELSE g.succ
           new == IF s <= Len(old) THEN [old EXCEPT ![s] = n] ELSE Append(old, n)
           h == AddEdge(g, n, Inlet(m, s))
<1>1. /\ g.inputs \in [N -> Seq(N)] /\ g.succ \in [N -> Seq(E)] /\ old \in Seq(N)
      /\ g.op \in Seq(ToSet(g.op)) /\ g.interface \in Seq(N) /\ g.outputs \in Seq(N)
      /\ g = [op |-> g.op, inputs |-> g.inputs, succ |-> g.succ,
              interface |-> g.interface, outputs |-> g.outputs]
  BY DEF IsGraph
<1>2. e \in E /\ e.node = m /\ e.slot = s
  BY DEF Inlet
<1>3. h = [op |-> g.op, inputs |-> [g.inputs EXCEPT ![m] = new],
           succ |-> [left EXCEPT ![n] = Append(@, e)],
           interface |-> g.interface, outputs |-> g.outputs]
  <2>1. h = [g EXCEPT !.succ = [left EXCEPT ![n] = Append(@, e)], !.inputs[m] = new]
    BY <1>2 DEF AddEdge
  <2> HIDE DEF left, new, e, h
  <2> QED
    BY <1>1, <2>1
<1>4. Len(old) \in Nat /\ DOMAIN old = 1 .. Len(old) /\ \A t \in 1 .. Len(old) : old[t] \in N
  BY <1>1, LenProperties, ElementOfSeq
<1>5. /\ new \in Seq(N) /\ DOMAIN new = DOMAIN old \cup {s} /\ new[s] = n
      /\ \A t \in DOMAIN old : t # s => new[t] = old[t]
  <2> HIDE DEF old, N
  <2>0. n \in N /\ s <= Len(old) + 1
    BY DEF N, old
  <2>1. CASE s <= Len(old)
    <3>1. s \in 1 .. Len(old)
      BY <1>4, <2>1
    <3> QED
      BY <1>1, <1>4, <2>0, <2>1, <3>1
  <2>2. CASE ~(s <= Len(old))
    <3>1. s = Len(old) + 1
      BY <1>4, <2>0, <2>2
    <3>2. new = Append(old, n)
      BY <2>2
    <3>3. old \in Seq(N)
      BY <1>1
    <3> HIDE DEF new
    <3>4. /\ new \in Seq(N) /\ DOMAIN new = 1 .. Len(old) + 1 /\ new[Len(old) + 1] = n
          /\ \A t \in 1 .. Len(old) : new[t] = old[t]
      BY <2>0, <3>2, <3>3
    <3> QED
      BY <1>4, <3>1, <3>4
  <2> QED
    BY <2>1, <2>2
<1>6. \A k \in N : Unique(g.succ[k]) /\ \A x : x \in ToSet(g.succ[k]) <=> Reads(g, k, x)
  BY ReciprocalMeans
<1>7. \A k \in N : e \in ToSet(g.succ[k]) <=> s <= Len(old) /\ old[s] = k
  <2> SUFFICES ASSUME NEW k \in N PROVE Reads(g, k, e) <=> s <= Len(old) /\ old[s] = k
    BY <1>6
  <2>1. \A a, t : e = Inlet(a, t) <=> a = m /\ t = s
    BY DEF Inlet
  <2>2. Reads(g, k, e) <=> s \in DOMAIN old /\ old[s] = k
    BY <2>1 DEF Reads
  <2>3. s \in DOMAIN old <=> s <= Len(old)
    BY <1>4
  <2> QED
    BY <2>2, <2>3
<1>8. /\ left \in [N -> Seq(E)]
      /\ \A k \in N : Unique(left[k]) /\ ToSet(left[k]) = ToSet(g.succ[k]) \ {e}
  <2>1. CASE s <= Len(old)
    <3>1. old[s] \in N
      BY <1>4, <2>1
    <3> DEFINE p == old[s]
               w == Without(g.succ[p], e)
    <3>2. w \in Seq(E) /\ Unique(w) /\ ToSet(w) = ToSet(g.succ[p]) \ {e}
      <4>1. g.succ[p] \in Seq(E) /\ Unique(g.succ[p])
        BY <1>1, <1>6, <3>1
      <4> QED
        BY <4>1, WithoutFacts
    <3>3. left = [g.succ EXCEPT ![p] = w]
      BY <2>1
    <3>4. \A k \in N : k # p => e \notin ToSet(g.succ[k])
      BY <1>7
    <3>5. p \in N
      BY <3>1
    <3> HIDE DEF left, w, p, N, E, e
    <3> QED
      BY <1>1, <1>6, <3>2, <3>3, <3>4, <3>5
  <2>2. CASE ~(s <= Len(old))
    <3>1. left = g.succ
      BY <2>2
    <3>2. \A k \in N : e \notin ToSet(g.succ[k])
      BY <1>7, <2>2
    <3> HIDE DEF left, N, E, e
    <3> QED
      BY <1>1, <1>6, <3>1, <3>2
  <2> QED
    BY <2>1, <2>2
<1>9. /\ h.succ \in [N -> Seq(E)]
      /\ \A k \in N : Unique(h.succ[k])
                      /\ ToSet(h.succ[k]) = (ToSet(g.succ[k]) \ {e}) \cup (IF k = n THEN {e} ELSE {})
  <2>1. h.succ = [left EXCEPT ![n] = Append(left[n], e)]
    BY <1>3
  <2>2. n \in N
    OBVIOUS
  <2> HIDE DEF left, h, N, E, e
  <2>3. /\ Append(left[n], e) \in Seq(E) /\ Unique(Append(left[n], e))
        /\ ToSet(Append(left[n], e)) = ToSet(left[n]) \cup {e}
    <3>1. left[n] \in Seq(E) /\ Unique(left[n]) /\ e \notin ToSet(left[n])
      BY <1>8, <2>2
    <3> QED
      BY <1>2, <3>1, AppendFacts
  <2> QED
    BY <1>8, <2>1, <2>2, <2>3
<1>10. h.inputs = [g.inputs EXCEPT ![m] = new]
  BY <1>3
<1>11. h.op = g.op /\ h.interface = g.interface /\ h.outputs = g.outputs /\ Nodes(h) = N
  BY <1>3 DEF Nodes
<1>12. IsGraph(h)
  <2>1. h.inputs \in [N -> Seq(N)]
    BY <1>1, <1>5, <1>10
  <2>2. h = [op |-> h.op, inputs |-> h.inputs, succ |-> h.succ,
             interface |-> h.interface, outputs |-> h.outputs]
    BY <1>3
  <2> HIDE DEF h, N, E
  <2> QED
    BY <1>1, <1>9, <1>11, <2>1, <2>2 DEF IsGraph, E
<1>13. Reciprocal(h)
  <2> SUFFICES ASSUME NEW k \in N, NEW x
               PROVE  x \in ToSet(h.succ[k]) <=> Reads(h, k, x)
    BY <1>9, <1>11, ReciprocalMeans
  <2>1. x \in ToSet(h.succ[k]) <=> (Reads(g, k, x) /\ x # e) \/ (k = n /\ x = e)
    BY <1>6, <1>9
  <2>2. \A a \in N : a # m => h.inputs[a] = g.inputs[a]
    BY <1>1, <1>10
  <2>3. h.inputs[m] = new
    BY <1>1, <1>10
  <2>4. \A a, t : e = Inlet(a, t) <=> a = m /\ t = s
    BY DEF Inlet
  <2>5. Reads(h, k, x) <=> (Reads(g, k, x) /\ x # e) \/ (k = n /\ x = e)
    <3> HIDE DEF h, e, new
    <3>1. ASSUME Reads(h, k, x) PROVE (Reads(g, k, x) /\ x # e) \/ (k = n /\ x = e)
      <4>1. PICK a \in N : \E t \in DOMAIN h.inputs[a] : h.inputs[a][t] = k /\ x = Inlet(a, t)
        BY <1>11, <3>1 DEF Reads
      <4>2. PICK t \in DOMAIN h.inputs[a] : h.inputs[a][t] = k /\ x = Inlet(a, t)
        BY <4>1
      <4>3. CASE a = m
        BY <1>5, <2>3, <2>4, <4>2, <4>3 DEF Reads
      <4>4. CASE a # m
        BY <2>2, <2>4, <4>2, <4>4 DEF Reads
      <4> QED
        BY <4>3, <4>4
    <3>2. ASSUME Reads(g, k, x), x # e PROVE Reads(h, k, x)
      <4>1. PICK a \in N : \E t \in DOMAIN g.inputs[a] : g.inputs[a][t] = k /\ x = Inlet(a, t)
        BY <3>2 DEF Reads
      <4>2. PICK t \in DOMAIN g.inputs[a] : g.inputs[a][t] = k /\ x = Inlet(a, t)
        BY <4>1
      <4>3. t \in DOMAIN h.inputs[a] /\ h.inputs[a][t] = k
        <5>1. CASE a = m
          BY <1>5, <2>3, <2>4, <3>2, <4>2, <5>1
        <5>2. CASE a # m
          BY <2>2, <4>2, <5>2
        <5> QED
          BY <5>1, <5>2
      <4> QED
        BY <1>11, <4>2, <4>3 DEF Reads
    <3>3. ASSUME k = n, x = e PROVE Reads(h, k, x)
      BY <1>5, <1>11, <2>3, <2>4, <3>3 DEF Reads
    <3> QED
      BY <3>1, <3>2, <3>3
  <2> QED
    BY <2>1, <2>5
<1>14. /\ \A k \in N : k # m => h.inputs[k] = g.inputs[k]
       /\ h.inputs[m] = new
  BY <1>1, <1>10
<1> HIDE DEF h
<1> QED
  BY <1>5, <1>11, <1>12, <1>13, <1>14 DEF Connected, h

(* The graphs that come one after another as the first n edges are added. *)
Adds(f, g, edges, n) ==
  f = [k \in 0 .. n |-> IF k = 0 THEN g ELSE AddEdge(f[k - 1], edges[k].from, edges[k].to)]

(* The graphs that the definition of AddEdges names exist. *)
LEMMA AddedExists ==
  ASSUME NEW g, NEW edges, NEW n \in Nat
  PROVE  \E f : Adds(f, g, edges, n)
<1> DEFINE S == {m \in Nat : \E f : Adds(f, g, edges, m)}
<1>1. 0 \in S
  <2> DEFINE f == [k \in 0 .. 0 |-> g]
  <2>1. Adds(f, g, edges, 0)
    BY DEF Adds
  <2> QED
    BY <2>1
<1>2. ASSUME NEW m \in Nat, m \in S PROVE m + 1 \in S
  <2>1. PICK f : Adds(f, g, edges, m)
    BY <1>2
  <2> DEFINE h == [k \in 0 .. m + 1 |-> IF k <= m THEN f[k]
                                        ELSE AddEdge(f[m], edges[k].from, edges[k].to)]
  <2>2. ASSUME NEW k \in 0 .. m + 1
        PROVE  h[k] = IF k = 0 THEN g ELSE AddEdge(h[k - 1], edges[k].from, edges[k].to)
    <3>1. CASE k <= m
      <4>1. k \in 0 .. m
        BY <3>1
      <4>2. f[k] = IF k = 0 THEN g ELSE AddEdge(f[k - 1], edges[k].from, edges[k].to)
        BY <2>1, <4>1 DEF Adds
      <4>3. h[k] = f[k]
        BY <3>1
      <4>4. k # 0 => h[k - 1] = f[k - 1]
        BY <4>1
      <4> QED
        BY <4>2, <4>3, <4>4
    <3>2. CASE ~ (k <= m)
      <4>1. k = m + 1 /\ k - 1 = m /\ k # 0
        BY <3>2
      <4>2. h[k - 1] = f[m]
        BY <4>1
      <4>3. h[k] = AddEdge(f[m], edges[k].from, edges[k].to)
        BY <3>2
      <4> QED
        BY <4>1, <4>2, <4>3
    <3> QED
      BY <3>1, <3>2
  <2>3. Adds(h, g, edges, m + 1)
    <3>1. h = [k \in 0 .. m + 1 |-> h[k]]
      OBVIOUS
    <3> HIDE DEF h
    <3> QED
      BY <2>2, <3>1 DEF Adds
  <2> HIDE DEF h
  <2> QED
    BY <2>3
<1>3. Nat \subseteq S
  <2>1. \A m \in Nat : m \in S => m + 1 \in S
    BY <1>2
  <2> HIDE DEF S
  <2> QED
    BY ONLY <1>1, <2>1, SetInduction
<1> QED
  BY <1>3 DEF S

(* Edges that can be added: their ends are nodes, and no slot is skipped. *)
Consecutive(g, edges) ==
  \A k \in DOMAIN edges :
    /\ edges[k].from \in Nodes(g)
    /\ edges[k].to \in [node : Nodes(g), slot : Nat \ {0}]
    /\ \/ edges[k].to.slot <= Len(g.inputs[edges[k].to.node]) + 1
       \/ \E j \in 1 .. k - 1 : /\ edges[j].to.node = edges[k].to.node
                                /\ edges[k].to.slot <= edges[j].to.slot + 1

(* What adding the first n edges makes of g. *)
Wired(g, edges, n, h) ==
  /\ IsGraph(h) /\ Reciprocal(h)
  /\ h.op = g.op /\ h.interface = g.interface /\ h.outputs = g.outputs
  /\ \A m \in Nodes(g) : DOMAIN g.inputs[m] \subseteq DOMAIN h.inputs[m]
  /\ \A k \in 1 .. n : edges[k].to.slot \in DOMAIN h.inputs[edges[k].to.node]
  /\ \A m \in Nodes(g) : \A t \in DOMAIN h.inputs[m] :
       \/ \E k \in 1 .. n : edges[k].to = Inlet(m, t) /\ h.inputs[m][t] = edges[k].from
       \/ /\ t \in DOMAIN g.inputs[m] /\ h.inputs[m][t] = g.inputs[m][t]
          /\ \A k \in 1 .. n : edges[k].to # Inlet(m, t)

(* So do edges added one after another. *)
LEMMA AddEdgesWires ==
  ASSUME NEW g, IsGraph(g), Reciprocal(g),
         NEW edges, NEW n \in Nat, DOMAIN edges = 1 .. n, Len(edges) = n,
         Consecutive(g, edges)
  PROVE  Wired(g, edges, n, AddEdges(g, edges))
<1> DEFINE f == CHOOSE f : Adds(f, g, edges, n)
<1>1. Adds(f, g, edges, n)
  BY AddedExists
<1>2. AddEdges(g, edges) = f[n]
  BY DEF AddEdges, Adds
<1> HIDE DEF f
<1> DEFINE Fine(k) == Wired(g, edges, k, f[k])
           T == {k \in Nat : k <= n => Fine(k)}
<1>3. 0 \in T
  <2>1. f[0] = g
    BY <1>1 DEF Adds
  <2>2. Fine(0)
    BY <2>1 DEF Wired
  <2> QED
    BY <2>2
<1>4. ASSUME NEW k \in Nat, k \in T PROVE k + 1 \in T
  <2> SUFFICES ASSUME k + 1 <= n PROVE Wired(g, edges, k + 1, f[k + 1])
    OBVIOUS
  <2> DEFINE h == f[k]
             p == edges[k + 1].from
             e == edges[k + 1].to
             m == e.node
             s == e.slot
             N == Nodes(g)
             w == f[k + 1]
  <2>1. Wired(g, edges, k, h)
    BY <1>4
  <2>2. k + 1 \in 0 .. n /\ k + 1 \in 1 .. n /\ (k + 1) - 1 = k /\ k + 1 # 0
    OBVIOUS
  <2>3. f[k + 1] = AddEdge(h, p, e)
    BY <1>1, <2>2 DEF Adds
  <2>4. /\ p \in N /\ m \in N /\ s \in Nat \ {0} /\ e = Inlet(m, s)
        /\ \/ s <= Len(g.inputs[m]) + 1
           \/ \E j \in 1 .. k : edges[j].to.node = m /\ s <= edges[j].to.slot + 1
    BY <2>2 DEF Consecutive, Inlet
  <2>5. /\ IsGraph(h) /\ Reciprocal(h) /\ Nodes(h) = N
        /\ h.op = g.op /\ h.interface = g.interface /\ h.outputs = g.outputs
    BY <2>1 DEF Wired, Nodes
  <2>6. g.inputs[m] \in Seq(N) /\ h.inputs[m] \in Seq(N)
    BY <2>4, <2>5 DEF IsGraph
  <2>7. s <= Len(h.inputs[m]) + 1
    <3> HIDE DEF h, m, s, N
    <3>1. CASE s <= Len(g.inputs[m]) + 1
      <4>1. DOMAIN g.inputs[m] \subseteq DOMAIN h.inputs[m]
        BY <2>1, <2>4 DEF Wired, N
      <4>2. /\ Len(g.inputs[m]) \in Nat /\ DOMAIN g.inputs[m] = 1 .. Len(g.inputs[m])
            /\ Len(h.inputs[m]) \in Nat /\ DOMAIN h.inputs[m] = 1 .. Len(h.inputs[m])
        BY <2>6
      <4>3. Len(g.inputs[m]) <= Len(h.inputs[m])
        BY <4>1, <4>2
      <4> QED
        BY <2>4, <3>1, <4>2, <4>3
    <3>2. CASE \E j \in 1 .. k : edges[j].to.node = m /\ s <= edges[j].to.slot + 1
      <4>1. PICK j \in 1 .. k : edges[j].to.node = m /\ s <= edges[j].to.slot + 1
        BY <3>2
      <4>2. edges[j].to.slot \in DOMAIN h.inputs[m]
        BY <2>1, <4>1 DEF Wired
      <4>3. Len(h.inputs[m]) \in Nat /\ DOMAIN h.inputs[m] = 1 .. Len(h.inputs[m])
        BY <2>6
      <4> QED
        BY <2>4, <4>1, <4>2, <4>3
    <3> QED
      BY <2>4, <3>1, <3>2
  <2>8. Connected(h, p, m, s, w)
    <3>1. w = AddEdge(h, p, e)
      BY <2>3
    <3> HIDE DEF h, m, s, p, w
    <3> QED
      BY <2>4, <2>5, <2>7, <3>1, AddEdgeConnects
  <2>9. \A j : j \in 1 .. k + 1 <=> j \in 1 .. k \/ j = k + 1
    OBVIOUS
  <2>10. \A a, t : e = Inlet(a, t) <=> a = m /\ t = s
    BY <2>4 DEF Inlet
  <2>11. \A a \in N : DOMAIN w.inputs[a] = DOMAIN h.inputs[a] \cup (IF a = m THEN {s} ELSE {})
    <3> HIDE DEF w, h, m, s, p, N
    <3> QED
      BY <2>5, <2>8 DEF Connected
  <2>12. \A a \in N : DOMAIN g.inputs[a] \subseteq DOMAIN w.inputs[a]
    <3> HIDE DEF w, h, m, s
    <3> QED
      BY <2>1, <2>11 DEF Wired
  <2>13. ASSUME NEW j \in 1 .. k + 1 PROVE edges[j].to.slot \in DOMAIN w.inputs[edges[j].to.node]
    <3>1. CASE j \in 1 .. k
      <4>1. edges[j].to.node \in N
        <5>1. j \in DOMAIN edges
          BY <3>1
        <5> QED
          BY <5>1 DEF Consecutive
      <4>2. edges[j].to.slot \in DOMAIN h.inputs[edges[j].to.node]
        BY <2>1, <3>1 DEF Wired
      <4> HIDE DEF w, h, m, s, N
      <4> QED
        BY <2>11, <4>1, <4>2
    <3>2. CASE j = k + 1
      <4> HIDE DEF w, h, N
      <4> QED
        BY <2>4, <2>11, <3>2
    <3> QED
      BY <2>9, <3>1, <3>2
  <2>14. ASSUME NEW a \in N, NEW t \in DOMAIN w.inputs[a]
         PROVE  \/ \E j \in 1 .. k + 1 : edges[j].to = Inlet(a, t) /\ w.inputs[a][t] = edges[j].from
                \/ /\ t \in DOMAIN g.inputs[a] /\ w.inputs[a][t] = g.inputs[a][t]
                   /\ \A j \in 1 .. k + 1 : edges[j].to # Inlet(a, t)
    <3>1. CASE a = m /\ t = s
      <4>1. w.inputs[m][s] = p
        BY <2>8 DEF Connected
      <4>2. k + 1 \in 1 .. k + 1
        BY <2>2
      <4> HIDE DEF w
      <4> QED
        BY <2>10, <3>1, <4>1, <4>2
    <3>2. CASE ~(a = m /\ t = s)
      <4>1. t \in DOMAIN h.inputs[a] /\ w.inputs[a][t] = h.inputs[a][t]
        <5> HIDE DEF w, h, m, s, p, N
        <5> QED
          BY <2>4, <2>5, <2>8, <2>11, <3>2 DEF Connected
      <4>2. e # Inlet(a, t)
        BY <2>10, <3>2
      <4>3. \/ \E j \in 1 .. k : edges[j].to = Inlet(a, t) /\ h.inputs[a][t] = edges[j].from
            \/ /\ t \in DOMAIN g.inputs[a] /\ h.inputs[a][t] = g.inputs[a][t]
               /\ \A j \in 1 .. k : edges[j].to # Inlet(a, t)
        BY <2>1, <4>1 DEF Wired
      <4> HIDE DEF w, h, m, s, p, N
      <4> QED
        BY <2>9, <4>1, <4>2, <4>3
    <3> QED
      BY <3>1, <3>2
  <2>15. /\ IsGraph(w) /\ Reciprocal(w)
         /\ w.op = g.op /\ w.interface = g.interface /\ w.outputs = g.outputs
    BY <2>5, <2>8 DEF Connected
  <2> HIDE DEF w
  <2> QED
    BY <2>12, <2>13, <2>14, <2>15 DEF Wired, w
<1> HIDE DEF Fine
<1>5. Nat \subseteq T
  <2>1. \A k \in Nat : k \in T => k + 1 \in T
    BY <1>4
  <2> HIDE DEF T
  <2> QED
    BY ONLY <1>3, <2>1, SetInduction
<1>6. Fine(n)
  BY <1>5
<1> QED
  BY <1>2, <1>6 DEF Fine

-----------------------------------------------------------------------------
(* Nodes: Graph::add_node, and those of a patch. *)

(* A function of the first naturals is a sequence. *)
LEMMA FunctionIsSeq ==
  ASSUME NEW S, NEW n \in Nat, NEW f \in [1 .. n -> S]
  PROVE  f \in Seq(S) /\ Len(f) = n
OBVIOUS

(* s of length n, with e after. *)
Longer(s, n, e) == [k \in 1 .. n + 1 |-> IF k \in 1 .. n THEN s[k] ELSE e]

(* A sequence to which an element is appended, as a function. *)
LEMMA AppendIs ==
  ASSUME NEW S, NEW n \in Nat, NEW s \in [1 .. n -> S], NEW e \in S
  PROVE  Append(s, e) = Longer(s, n, e)
<1> DEFINE u == Append(s, e)
<1>1. s \in Seq(S) /\ Len(s) = n
  BY FunctionIsSeq
<1>2. u \in Seq(S) /\ Len(u) = n + 1 /\ u[n + 1] = e /\ \A k \in 1 .. n : u[k] = s[k]
  BY <1>1
<1>3. \A k \in 1 .. n + 1 : k \notin 1 .. n => k = n + 1
  OBVIOUS
<1> HIDE DEF u
<1>4. u \in [1 .. n + 1 -> S]
  BY <1>2, LenProperties
<1>5. \A k \in 1 .. n + 1 : u[k] = IF k \in 1 .. n THEN s[k] ELSE e
  BY <1>2, <1>3
<1> QED
  BY <1>4, <1>5 DEF u, Longer

(* h is g with nodes added, up to n, that read nothing and that nothing reads. *)
Grows(g, n, h) ==
  /\ h = [op |-> h.op, inputs |-> h.inputs, succ |-> h.succ,
          interface |-> g.interface, outputs |-> g.outputs]
  /\ n \in Nat /\ Len(g.op) <= n /\ h.op \in [1 .. n -> ToSet(h.op)]
  /\ \A k \in Nodes(g) : h.op[k] = g.op[k]
  /\ h.inputs = [k \in 1 .. n |-> IF k \in Nodes(g) THEN g.inputs[k] ELSE <<>>]
  /\ h.succ = [k \in 1 .. n |-> IF k \in Nodes(g) THEN g.succ[k] ELSE <<>>]

(* A graph with more nodes is a graph. *)
LEMMA GrownIsGraph ==
  ASSUME NEW g, IsGraph(g), Reciprocal(g), NEW n, NEW h, Grows(g, n, h)
  PROVE  /\ IsGraph(h) /\ Reciprocal(h)
         /\ Nodes(h) = 1 .. n /\ Nodes(g) \subseteq Nodes(h)
         /\ h.interface = g.interface /\ h.outputs = g.outputs
<1> DEFINE N == Nodes(g)
           M == 1 .. n
           E == [node : N, slot : Nat \ {0}]
           F == [node : M, slot : Nat \ {0}]
<1>1. /\ g.inputs \in [N -> Seq(N)] /\ g.succ \in [N -> Seq(E)]
      /\ g.op \in Seq(ToSet(g.op)) /\ g.interface \in Seq(N) /\ g.outputs \in Seq(N)
  BY DEF IsGraph
<1>2. Len(g.op) \in Nat
  BY <1>1
<1>3. N \subseteq M
  BY <1>2 DEF Nodes, Grows
<1>4. Nodes(h) = M /\ h.op \in Seq(ToSet(h.op))
  <2>1. h.op \in Seq(ToSet(h.op)) /\ Len(h.op) = n
    BY FunctionIsSeq DEF Grows
  <2> QED
    BY <2>1 DEF Nodes
<1>5. h.interface = g.interface /\ h.outputs = g.outputs
  BY DEF Grows
<1>6. h.interface \in Seq(M) /\ h.outputs \in Seq(M)
  BY <1>1, <1>3, <1>5, SeqMonotonic
<1>7. h.inputs \in [M -> Seq(M)]
  <2> SUFFICES ASSUME NEW k \in M PROVE (IF k \in N THEN g.inputs[k] ELSE <<>>) \in Seq(M)
    BY DEF Grows
  <2>1. k \in N => g.inputs[k] \in Seq(M)
    BY <1>1, <1>3, SeqMonotonic
  <2>2. <<>> \in Seq(M)
    BY EmptySeq
  <2> QED
    BY <2>1, <2>2
<1>8. h.succ \in [M -> Seq(F)]
  <2> SUFFICES ASSUME NEW k \in M PROVE (IF k \in N THEN g.succ[k] ELSE <<>>) \in Seq(F)
    BY DEF Grows
  <2>1. E \subseteq F
    <3> SUFFICES ASSUME NEW e \in E PROVE e \in F
      OBVIOUS
    <3>1. PICK a \in N, b \in Nat \ {0} : e = [node |-> a, slot |-> b]
      OBVIOUS
    <3>2. a \in M
      BY <1>3
    <3> HIDE DEF M, N
    <3>3. [node |-> a, slot |-> b] \in F
      BY <3>2
    <3> QED
      BY ONLY <3>1, <3>3
  <2>2. k \in N => g.succ[k] \in Seq(F)
    <3> HIDE DEF E, F, N
    <3> SUFFICES ASSUME k \in N PROVE g.succ[k] \in Seq(F)
      OBVIOUS
    <3>1. g.succ[k] \in Seq(E)
      BY <1>1
    <3> QED
      BY <2>1, <3>1, SeqMonotonic
  <2>3. <<>> \in Seq(F)
    BY EmptySeq
  <2> QED
    BY <2>2, <2>3
<1>9. IsGraph(h)
  <2>1. h = [op |-> h.op, inputs |-> h.inputs, succ |-> h.succ,
             interface |-> h.interface, outputs |-> h.outputs]
    BY <1>5 DEF Grows
  <2> HIDE DEF M
  <2> QED
    BY <1>4, <1>6, <1>7, <1>8, <2>1 DEF IsGraph
<1>10. Reciprocal(h)
  <2>1. \A k \in N : Unique(g.succ[k]) /\ \A x : x \in ToSet(g.succ[k]) <=> Reads(g, k, x)
    BY ReciprocalMeans
  <2>2. /\ \A k \in N : h.inputs[k] = g.inputs[k] /\ h.succ[k] = g.succ[k]
        /\ \A k \in M \ N : h.inputs[k] = <<>> /\ h.succ[k] = <<>>
    BY <1>3 DEF Grows
  <2>3. \A k, x : Reads(h, k, x) <=> Reads(g, k, x)
    <3> HIDE DEF M, N
    <3>1. DOMAIN <<>> = {}
      OBVIOUS
    <3> QED
      BY <1>3, <1>4, <2>2, <3>1 DEF Reads, N
  <2>4. ASSUME NEW k \in M PROVE Unique(h.succ[k]) /\ \A x : x \in ToSet(h.succ[k]) <=> Reads(h, k, x)
    <3>1. CASE k \in N
      <4> HIDE DEF M, N
      <4> QED
        BY <2>1, <2>2, <2>3, <3>1
    <3>2. CASE k \notin N
      <4>1. h.succ[k] = <<>>
        BY <2>2, <3>2
      <4>2. ToSet(<<>>) = {} /\ Unique(<<>>)
        BY DEF ToSet, Unique
      <4>3. \A x : ~Reads(g, k, x)
        <5> SUFFICES ASSUME NEW m \in Nodes(g), NEW t \in DOMAIN g.inputs[m], g.inputs[m][t] = k
                     PROVE  FALSE
          BY DEF Reads
        <5>1. g.inputs[m] \in Seq(N)
          BY <1>1
        <5>2. g.inputs[m][t] \in N
          <6>1. DOMAIN g.inputs[m] = 1 .. Len(g.inputs[m])
            BY <5>1, LenProperties
          <6> QED
            BY <5>1, <6>1, ElementOfSeq
        <5> QED
          BY <3>2, <5>2
      <4> QED
        BY <2>3, <4>1, <4>2, <4>3
    <3> QED
      BY <3>1, <3>2
  <2> QED
    BY <1>4, <2>4, ReciprocalMeans
<1> QED
  BY <1>3, <1>4, <1>5, <1>9, <1>10

(* Graph::add_node. *)
LEMMA AddNodeGrows ==
  ASSUME NEW g, IsGraph(g), NEW op
  PROVE  Grows(g, Len(g.op) + 1, AddNode(g, op)) /\ AddNode(g, op).op[Len(g.op) + 1] = op
<1> DEFINE n == Len(g.op) + 1
           N == Nodes(g)
           E == [node : N, slot : Nat \ {0}]
           h == AddNode(g, op)
           empty == <<>>
<1>1. /\ g.inputs \in [N -> Seq(N)] /\ g.succ \in [N -> Seq(E)] /\ g.op \in Seq(ToSet(g.op))
      /\ g = [op |-> g.op, inputs |-> g.inputs, succ |-> g.succ,
              interface |-> g.interface, outputs |-> g.outputs]
  BY DEF IsGraph
<1>2. Len(g.op) \in Nat /\ N = 1 .. Len(g.op) /\ DOMAIN g.op = 1 .. Len(g.op)
  BY <1>1 DEF Nodes
<1>3. h = [op |-> Append(g.op, op), inputs |-> Append(g.inputs, empty), succ |-> Append(g.succ, empty),
           interface |-> g.interface, outputs |-> g.outputs]
  <2> DEFINE a == Append(g.op, op)
             b == Append(g.inputs, empty)
             c == Append(g.succ, empty)
  <2>1. h = [g EXCEPT !.op = a, !.inputs = b, !.succ = c]
    BY DEF AddNode
  <2> HIDE DEF a, b, c, h
  <2>2. h = [op |-> a, inputs |-> b, succ |-> c,
             interface |-> g.interface, outputs |-> g.outputs]
    BY <1>1, <2>1
  <2> QED
    BY <2>2 DEF a, b, c
<1>4. n \in Nat /\ Len(g.op) <= n
  BY <1>2
<1>5. /\ DOMAIN h.op = 1 .. n /\ h.op[n] = op
      /\ \A k \in N : h.op[k] = g.op[k]
      /\ h.op \in [1 .. n -> ToSet(h.op)]
  <2>1. h.op = Append(g.op, op)
    BY <1>3
  <2> HIDE DEF h
  <2>2. /\ DOMAIN h.op = 1 .. n /\ h.op[n] = op
        /\ \A k \in N : h.op[k] = g.op[k]
        /\ h.op \in Seq(ToSet(g.op) \cup {op})
    <3>1. g.op \in Seq(ToSet(g.op) \cup {op})
      BY <1>1, SeqMonotonic
    <3> DEFINE S == ToSet(g.op) \cup {op}
    <3>2. op \in S
      OBVIOUS
    <3> HIDE DEF S
    <3> QED
      BY <1>2, <2>1, <3>1, <3>2
  <2>3. h.op \in [1 .. n -> ToSet(h.op)]
    BY <2>2 DEF ToSet
  <2> QED
    BY <2>2, <2>3
<1>6. /\ h.inputs = [k \in 1 .. n |-> IF k \in N THEN g.inputs[k] ELSE empty]
      /\ h.succ = [k \in 1 .. n |-> IF k \in N THEN g.succ[k] ELSE empty]
  <2>1. empty \in Seq(N) /\ empty \in Seq(E)
    BY EmptySeq
  <2>3. h.inputs = Append(g.inputs, empty) /\ h.succ = Append(g.succ, empty)
    BY <1>3
  <2>4. /\ g.inputs \in [1 .. Len(g.op) -> Seq(N)]
        /\ g.succ \in [1 .. Len(g.op) -> Seq(E)]
    BY <1>1, <1>2
  <2> HIDE DEF h, n, N, E, empty
  <2>2. /\ Append(g.inputs, empty) = [k \in 1 .. n |-> IF k \in 1 .. Len(g.op) THEN g.inputs[k] ELSE empty]
        /\ Append(g.succ, empty) = [k \in 1 .. n |-> IF k \in 1 .. Len(g.op) THEN g.succ[k] ELSE empty]
    <3>1. /\ Append(g.inputs, empty) = Longer(g.inputs, Len(g.op), empty)
          /\ Append(g.succ, empty) = Longer(g.succ, Len(g.op), empty)
      BY <1>2, <2>1, <2>4, AppendIs
    <3> QED
      BY <3>1 DEF Longer, n
  <2> QED
    BY <1>2, <2>2, <2>3
<1>7. h = [op |-> h.op, inputs |-> h.inputs, succ |-> h.succ,
           interface |-> g.interface, outputs |-> g.outputs]
  BY <1>3
<1> HIDE DEF h
<1> QED
  BY <1>4, <1>5, <1>6, <1>7 DEF Grows, h

(* Where the nodes of a patch go in the model, and what they are there. *)
Placed(patch, h) ==
  LET mapping == Mapping(patch) IN
  /\ DOMAIN mapping = DOMAIN patch.nodes
  /\ \A i \in DOMAIN patch.nodes :
       /\ mapping[i] \in Nodes(h)
       /\ IsTap(patch, i) => mapping[i] = patch.nodes[i].tap
       /\ ~IsTap(patch, i) => mapping[i] \notin Nodes(model) /\ h.op[mapping[i]] = patch.nodes[i].op
  /\ \A i, j \in Added(patch) : mapping[i] = mapping[j] => i = j

(* The first loop of ModelPatch::apply: no two new nodes go to one place. *)
LEMMA PatchIsPlaced ==
  ASSUME NEW patch, IsGraph(model), Fits(patch, model)
  PROVE  LET h == WithNodes(model, patch, Mapping(patch)) IN
         Grows(model, Len(model.op) + Cardinality(Added(patch)), h) /\ Placed(patch, h)
<1> DEFINE A == Added(patch)
           L == Len(model.op)
           mapping == Mapping(patch)
           before == [i \in DOMAIN patch.nodes |-> {j \in A : j <= i}]
           n == L + Cardinality(A)
           h == WithNodes(model, patch, mapping)
           N == Nodes(model)
           P == Len(patch.nodes)
<1>1. /\ P \in Nat /\ DOMAIN patch.nodes = 1 .. P
      /\ \A i \in 1 .. P : patch.nodes[i].tap # 0 => patch.nodes[i].tap \in N
  <2>1. patch.nodes \in Seq(ToSet(patch.nodes))
    BY DEF Fits
  <2>2. P \in Nat /\ DOMAIN patch.nodes = 1 .. P
    BY <2>1, LenProperties
  <2> QED
    BY <2>2 DEF Fits, IsTap
<1>2. L \in Nat /\ N = 1 .. L /\ DOMAIN model.op = 1 .. L
      /\ model = [op |-> model.op, inputs |-> model.inputs, succ |-> model.succ,
                  interface |-> model.interface, outputs |-> model.outputs]
  <2>1. /\ model.op \in Seq(ToSet(model.op))
        /\ model = [op |-> model.op, inputs |-> model.inputs, succ |-> model.succ,
                    interface |-> model.interface, outputs |-> model.outputs]
    BY DEF IsGraph
  <2> QED
    BY <2>1, LenProperties DEF Nodes
<1>3. A \in SUBSET (1 .. P) /\ A = {i \in 1 .. P : patch.nodes[i].tap = 0}
  BY <1>1 DEF Added, IsTap
<1>4. IsFiniteSet(A) /\ Cardinality(A) \in Nat
  <2>1. IsFiniteSet(1 .. P)
    BY <1>1, FS_Interval
  <2> QED
    BY <1>3, <2>1, FS_Subset, FS_CardinalityType
<1>5. ASSUME NEW i \in A
      PROVE  /\ before[i] \in SUBSET A /\ i \in before[i] /\ IsFiniteSet(before[i])
             /\ Cardinality(before[i]) \in 1 .. Cardinality(A)
  <2>1. i \in before[i] /\ before[i] \in SUBSET A
    BY <1>1, <1>3
  <2> HIDE DEF before, A
  <2>2. IsFiniteSet(before[i]) /\ Cardinality(before[i]) <= Cardinality(A) /\ Cardinality(before[i]) \in Nat
    BY <1>4, <2>1, FS_Subset, FS_CardinalityType
  <2>3. Cardinality(before[i]) # 0
    BY <2>1, <2>2, FS_EmptySet
  <2> QED
    BY <1>4, <2>1, <2>2, <2>3
<1>6. \A i \in DOMAIN patch.nodes :
        mapping[i] = IF IsTap(patch, i) THEN patch.nodes[i].tap ELSE L + Cardinality(before[i])
  BY DEF Mapping
<1>7. \A i \in 1 .. P : IsTap(patch, i) <=> i \notin A
  BY <1>3 DEF IsTap
<1>8. \A i \in A : mapping[i] = L + Cardinality(before[i])
  <2> HIDE DEF before, mapping, A, P
  <2> QED
    BY <1>1, <1>3, <1>6, <1>7
<1>9. ASSUME NEW i \in A, NEW j \in A, mapping[i] = mapping[j] PROVE i = j
  <2>1. ASSUME NEW a \in A, NEW b \in A, a < b PROVE Cardinality(before[a]) # Cardinality(before[b])
    <3>1. before[a] \in SUBSET before[b] /\ b \notin before[a]
      BY <1>1, <1>3, <2>1
    <3>2. IsFiniteSet(before[b]) /\ b \in before[b]
      BY <1>5
    <3> HIDE DEF before, A
    <3> QED
      BY <3>1, <3>2, FS_Subset
  <2>2. Cardinality(before[i]) = Cardinality(before[j])
    <3> DEFINE x == Cardinality(before[i])
               y == Cardinality(before[j])
    <3>1. x \in Nat /\ y \in Nat
      <4>1. x \in 1 .. Cardinality(A) /\ y \in 1 .. Cardinality(A)
        BY <1>5
      <4> HIDE DEF x, y, A
      <4> QED
        BY <1>4, <4>1
    <3>2. L + x = L + y
      BY <1>8, <1>9
    <3> HIDE DEF x, y, L
    <3>3. x = y
      BY <1>2, <3>1, <3>2
    <3> QED
      BY <3>3 DEF x, y
  <2>3. i \in Nat /\ j \in Nat
    BY <1>3
  <2> HIDE DEF before, A
  <2>4. ~(i < j) /\ ~(j < i)
    BY <2>1, <2>2
  <2> QED
    BY <2>3, <2>4
<1>10. Grows(model, n, h)
  <2>1. n \in Nat /\ L <= n /\ N \subseteq 1 .. n
    BY <1>2, <1>4
  <2> DEFINE By(k) == CHOOSE i \in Added(patch) : mapping[i] = k
             a == [k \in 1 .. n |-> IF k \in N THEN model.op[k] ELSE patch.nodes[By(k)].op]
             b == [k \in 1 .. n |-> IF k \in N THEN model.inputs[k] ELSE <<>>]
             c == [k \in 1 .. n |-> IF k \in N THEN model.succ[k] ELSE <<>>]
  <2>2. h = [model EXCEPT !.op = a, !.inputs = b, !.succ = c]
    BY DEF WithNodes
  <2>3. /\ DOMAIN a = 1 .. n /\ \A k \in N : a[k] = model.op[k]
        /\ a \in [1 .. n -> ToSet(a)]
    <3>1. DOMAIN a = 1 .. n /\ a = [k \in 1 .. n |-> a[k]]
      OBVIOUS
    <3>2. \A k \in N : a[k] = model.op[k]
      BY <2>1
    <3> HIDE DEF a
    <3>3. \A k \in 1 .. n : a[k] \in ToSet(a)
      BY <3>1 DEF ToSet
    <3> QED
      BY <3>1, <3>2, <3>3
  <2> HIDE DEF a, h, n
  <2>4. h = [op |-> a, inputs |-> b, succ |-> c,
             interface |-> model.interface, outputs |-> model.outputs]
    <3> HIDE DEF b, c
    <3> QED
      BY <1>2, <2>2
  <2> QED
    BY <2>1, <2>3, <2>4 DEF Grows
<1>11. ASSUME NEW i \in A
       PROVE  mapping[i] \in 1 .. n /\ mapping[i] \notin N /\ h.op[mapping[i]] = patch.nodes[i].op
  <2>1. mapping[i] \in 1 .. n /\ mapping[i] \notin N
    <3> DEFINE x == Cardinality(before[i])
    <3>1. x \in 1 .. Cardinality(A)
      BY <1>5
    <3>2. mapping[i] = L + x
      BY <1>8
    <3> HIDE DEF x, L, mapping, A, N
    <3> QED
      BY <1>2, <1>4, <3>1, <3>2
  <2> DEFINE j == CHOOSE j \in Added(patch) : mapping[j] = mapping[i]
  <2>2. j \in A /\ mapping[j] = mapping[i]
    <3> HIDE DEF mapping
    <3> QED
      OBVIOUS
  <2>3. j = i
    <3> HIDE DEF j, mapping, A
    <3> QED
      BY <1>9, <2>2
  <2>4. h.op[mapping[i]] = patch.nodes[j].op
    <3> DEFINE By(k) == CHOOSE a \in Added(patch) : mapping[a] = k
               a == [k \in 1 .. n |-> IF k \in N THEN model.op[k] ELSE patch.nodes[By(k)].op]
               b == [k \in 1 .. n |-> IF k \in N THEN model.inputs[k] ELSE <<>>]
               c == [k \in 1 .. n |-> IF k \in N THEN model.succ[k] ELSE <<>>]
    <3>1. h = [model EXCEPT !.op = a, !.inputs = b, !.succ = c]
      BY DEF WithNodes
    <3>2. a[mapping[i]] = patch.nodes[By(mapping[i])].op
      <4> HIDE DEF By
      <4> QED
        BY <2>1
    <3> HIDE DEF a, b, c, h, n, mapping
    <3>3. h.op = a
      BY <1>2, <3>1
    <3> QED
      BY <3>2, <3>3
  <2> HIDE DEF h, j, n, mapping
  <2> QED
    BY <2>1, <2>3, <2>4
<1>12. Nodes(h) = 1 .. n
  <2>1. h.op \in [1 .. n -> ToSet(h.op)] /\ n \in Nat
    BY <1>10 DEF Grows
  <2> HIDE DEF h, n
  <2> QED
    BY <2>1, FunctionIsSeq DEF Nodes
<1>13. N \subseteq 1 .. n
  BY <1>2, <1>4
<1>14. Placed(patch, h)
  <2>1. DOMAIN mapping = DOMAIN patch.nodes
    BY DEF Mapping
  <2>2. ASSUME NEW i \in 1 .. P, IsTap(patch, i)
        PROVE  mapping[i] \in N /\ mapping[i] = patch.nodes[i].tap
    <3> HIDE DEF mapping, N
    <3> QED
      BY <1>1, <1>6, <2>2 DEF IsTap
  <2> HIDE DEF mapping, h, n, A
  <2>3. ASSUME NEW i \in DOMAIN patch.nodes
        PROVE /\ mapping[i] \in Nodes(h)
              /\ IsTap(patch, i) => mapping[i] = patch.nodes[i].tap
              /\ ~IsTap(patch, i) => mapping[i] \notin N /\ h.op[mapping[i]] = patch.nodes[i].op
    <3>1. CASE IsTap(patch, i)
      BY <1>1, <1>12, <1>13, <2>2, <3>1
    <3>2. CASE ~IsTap(patch, i)
      <4>1. i \in A
        BY <1>1, <1>7, <3>2
      <4> QED
        BY <1>11, <1>12, <3>2, <4>1
    <3> QED
      BY <3>1, <3>2
  <2> QED
    BY <1>9, <2>1, <2>3 DEF Placed, mapping, A
<1> HIDE DEF h
<1> QED
  BY <1>10, <1>14 DEF h

(* Connect a node that reads nothing yet. *)
LEMMA WireWires ==
  ASSUME NEW g, IsGraph(g), Reciprocal(g), NEW n \in Nodes(g), NEW ins \in Seq(Nodes(g))
  PROVE  LET edges == [slot \in DOMAIN ins |-> Edge(ins[slot], Inlet(n, slot))]
         IN  Wired(g, edges, Len(ins), Wire(g, n, ins))
<1> DEFINE N == Nodes(g)
           edges == [slot \in DOMAIN ins |-> Edge(ins[slot], Inlet(n, slot))]
           E == [from : N, to : [node : N, slot : Nat \ {0}]]
           p == Len(ins)
<1>1. p \in Nat /\ DOMAIN ins = 1 .. p /\ \A i \in 1 .. p : ins[i] \in N
  BY LenProperties, ElementOfSeq
<1>2. \A i \in 1 .. p : edges[i] = Edge(ins[i], Inlet(n, i)) /\ edges[i] \in E
  <2> SUFFICES ASSUME NEW i \in 1 .. p
               PROVE  edges[i] = Edge(ins[i], Inlet(n, i)) /\ edges[i] \in E
    OBVIOUS
  <2>1. edges[i] = [from |-> ins[i], to |-> [node |-> n, slot |-> i]]
    BY <1>1 DEF Edge, Inlet
  <2>2. ins[i] \in N /\ n \in N /\ i \in Nat \ {0}
    BY <1>1
  <2>3. [from |-> ins[i], to |-> [node |-> n, slot |-> i]] \in E
    <3> HIDE DEF N
    <3> QED
      BY <2>2
  <2> QED
    BY <2>1, <2>3 DEF Edge, Inlet
<1>3. DOMAIN edges = 1 .. p /\ Len(edges) = p
  <2>1. edges \in [1 .. p -> E]
    <3>1. edges = [i \in 1 .. p |-> edges[i]]
      BY <1>1
    <3> HIDE DEF edges, E
    <3> QED
      BY <1>2, <3>1
  <2> HIDE DEF edges, E, p
  <2> QED
    BY <1>1, <2>1, FunctionIsSeq
<1>4. Consecutive(g, edges)
  <2> SUFFICES ASSUME NEW k \in 1 .. p
               PROVE  /\ edges[k].from \in N
                      /\ edges[k].to \in [node : N, slot : Nat \ {0}]
                      /\ \/ edges[k].to.slot <= Len(g.inputs[edges[k].to.node]) + 1
                         \/ \E j \in 1 .. k - 1 : /\ edges[j].to.node = edges[k].to.node
                                                  /\ edges[k].to.slot <= edges[j].to.slot + 1
    BY <1>3 DEF Consecutive
  <2>1. edges[k] \in E
    BY <1>2
  <2>2. \A i \in 1 .. p : edges[i].to.node = n /\ edges[i].to.slot = i
    BY <1>2 DEF Edge, Inlet
  <2>3. \/ edges[k].to.slot <= Len(g.inputs[edges[k].to.node]) + 1
        \/ \E j \in 1 .. k - 1 : /\ edges[j].to.node = edges[k].to.node
                                 /\ edges[k].to.slot <= edges[j].to.slot + 1
    <3>1. CASE k = 1
      <4>1. g.inputs[n] \in Seq(N)
        BY DEF IsGraph
      <4>2. Len(g.inputs[n]) \in Nat
        BY <4>1
      <4> HIDE DEF edges
      <4>3. 1 <= Len(g.inputs[n]) + 1
        BY <4>2
      <4> QED
        BY <1>1, <2>2, <3>1, <4>3
    <3>2. CASE k # 1
      <4>1. PICK j : j = k - 1
        OBVIOUS
      <4>2. j \in 1 .. p /\ j \in 1 .. k - 1 /\ k <= j + 1
        BY <1>1, <3>2, <4>1
      <4> HIDE DEF edges
      <4> QED
        BY <2>2, <4>2
    <3> QED
      BY <3>1, <3>2
  <2> HIDE DEF edges, N
  <2> QED
    BY <2>1, <2>3
<1>5. Wire(g, n, ins) = AddEdges(g, edges)
  BY DEF Wire
<1> HIDE DEF edges, p
<1>6. Wired(g, edges, p, AddEdges(g, edges))
  BY <1>1, <1>3, <1>4, AddEdgesWires
<1> QED
  BY <1>5, <1>6 DEF edges, p

-----------------------------------------------------------------------------
(* Translation. *)

(* Nodes made by adding nodes with an order's first n elements. *)
Makes(f, g, order, n) ==
  f = [k \in 0 .. n |->
        IF k = 0 THEN Empty
        ELSE IF Contains(g.interface, order[k]) THEN AddNode(f[k - 1], Source)
        ELSE Wire(AddNode(f[k - 1], g.op[order[k]]), k, Mapped(order, g.inputs[order[k]]))]

(* The graphs that the definition of Translated names exist. *)
LEMMA MadeExists ==
  ASSUME NEW g, NEW order, NEW n \in Nat
  PROVE  \E f : Makes(f, g, order, n)
<1> DEFINE Step(h, k) == IF Contains(g.interface, order[k]) THEN AddNode(h, Source)
                         ELSE Wire(AddNode(h, g.op[order[k]]), k, Mapped(order, g.inputs[order[k]]))
           S == {m \in Nat : \E f : Makes(f, g, order, m)}
<1>1. 0 \in S
  <2> DEFINE f == [k \in 0 .. 0 |-> Empty]
  <2>1. Makes(f, g, order, 0)
    BY DEF Makes
  <2> QED
    BY <2>1
<1>2. ASSUME NEW m \in Nat, m \in S PROVE m + 1 \in S
  <2>1. PICK f : Makes(f, g, order, m)
    BY <1>2
  <2> DEFINE h == [k \in 0 .. m + 1 |-> IF k <= m THEN f[k] ELSE Step(f[m], k)]
  <2>2. ASSUME NEW k \in 0 .. m + 1
        PROVE  h[k] = IF k = 0 THEN Empty ELSE Step(h[k - 1], k)
    <3>1. CASE k <= m
      <4>1. k \in 0 .. m
        BY <3>1
      <4>2. f[k] = IF k = 0 THEN Empty ELSE Step(f[k - 1], k)
        BY <2>1, <4>1 DEF Makes
      <4>3. h[k] = f[k]
        BY <3>1
      <4>4. k # 0 => h[k - 1] = f[k - 1]
        BY <4>1
      <4> HIDE DEF h, Step
      <4> QED
        BY <4>2, <4>3, <4>4
    <3>2. CASE ~ (k <= m)
      <4>1. k = m + 1 /\ k - 1 = m /\ k # 0
        BY <3>2
      <4>2. h[k - 1] = f[m]
        BY <4>1
      <4>3. h[k] = Step(f[m], k)
        BY <3>2
      <4> HIDE DEF h, Step
      <4> QED
        BY <4>1, <4>2, <4>3
    <3> QED
      BY <3>1, <3>2
  <2>3. Makes(h, g, order, m + 1)
    <3>1. h = [k \in 0 .. m + 1 |-> h[k]]
      OBVIOUS
    <3> HIDE DEF h
    <3> QED
      BY <2>2, <3>1 DEF Makes
  <2> HIDE DEF h
  <2> QED
    BY <2>3
<1> HIDE DEF Step
<1>3. Nat \subseteq S
  <2>1. \A m \in Nat : m \in S => m + 1 \in S
    BY <1>2
  <2> HIDE DEF S
  <2> QED
    BY ONLY <1>1, <2>1, SetInduction
<1> QED
  BY <1>3 DEF S

(* Intervals from 1 with the same elements end alike. *)
LEMMA SameInterval ==
  ASSUME NEW a \in Nat, NEW b \in Nat, 1 .. a = 1 .. b
  PROVE  a = b
<1>1. a # 0 => a \in 1 .. b
  <2> SUFFICES ASSUME a # 0 PROVE a \in 1 .. a
    OBVIOUS
  <2> QED
    OBVIOUS
<1>2. b # 0 => b \in 1 .. a
  <2> SUFFICES ASSUME b # 0 PROVE b \in 1 .. b
    OBVIOUS
  <2> QED
    OBVIOUS
<1> QED
  BY <1>1, <1>2

(* A node that reads nothing reads ins once wired; the others read the same. *)
LEMMA WireMakes ==
  ASSUME NEW g, IsGraph(g), Reciprocal(g), NEW n \in Nodes(g), NEW ins \in Seq(Nodes(g)),
         g.inputs[n] = <<>>
  PROVE  LET h == Wire(g, n, ins) IN
         /\ IsGraph(h) /\ Reciprocal(h)
         /\ h.op = g.op /\ h.interface = g.interface /\ h.outputs = g.outputs
         /\ h.inputs[n] = ins
         /\ \A m \in Nodes(g) : m # n => h.inputs[m] = g.inputs[m]
<1> DEFINE N == Nodes(g)
           edges == [slot \in DOMAIN ins |-> Edge(ins[slot], Inlet(n, slot))]
           p == Len(ins)
           h == Wire(g, n, ins)
<1>1. Wired(g, edges, p, h)
  BY WireWires
<1>2. p \in Nat /\ DOMAIN ins = 1 .. p
  BY LenProperties
<1>3. \A k \in 1 .. p : edges[k] = Edge(ins[k], Inlet(n, k))
  BY <1>2
<1>4. \A k \in 1 .. p : edges[k].from = ins[k] /\ edges[k].to = Inlet(n, k)
                        /\ edges[k].to.node = n /\ edges[k].to.slot = k
  BY <1>3 DEF Edge, Inlet
<1>5. \A a, t, b, u : Inlet(a, t) = Inlet(b, u) => a = b /\ t = u
  BY DEF Inlet
<1> HIDE DEF edges, h
<1>6. /\ IsGraph(h) /\ Reciprocal(h)
      /\ h.op = g.op /\ h.interface = g.interface /\ h.outputs = g.outputs
      /\ \A m \in N : DOMAIN g.inputs[m] \subseteq DOMAIN h.inputs[m]
      /\ \A k \in 1 .. p : edges[k].to.slot \in DOMAIN h.inputs[edges[k].to.node]
      /\ \A m \in N : \A t \in DOMAIN h.inputs[m] :
           \/ \E k \in 1 .. p : edges[k].to = Inlet(m, t) /\ h.inputs[m][t] = edges[k].from
           \/ /\ t \in DOMAIN g.inputs[m] /\ h.inputs[m][t] = g.inputs[m][t]
              /\ \A k \in 1 .. p : edges[k].to # Inlet(m, t)
  BY <1>1 DEF Wired
<1>7. Nodes(h) = N
  BY <1>6 DEF Nodes
<1>8. /\ \A m \in N : h.inputs[m] \in Seq(N) /\ g.inputs[m] \in Seq(N)
      /\ ins \in Seq(N) /\ n \in N
  BY <1>6, <1>7 DEF IsGraph
<1>9. h.inputs[n] = ins
  <2>1. DOMAIN h.inputs[n] = 1 .. p
    <3>1. 1 .. p \subseteq DOMAIN h.inputs[n]
      BY <1>4, <1>6
    <3>2. ASSUME NEW t \in DOMAIN h.inputs[n] PROVE t \in 1 .. p
      <4>1. DOMAIN g.inputs[n] = {}
        OBVIOUS
      <4>2. \E k \in 1 .. p : edges[k].to = Inlet(n, t)
        BY <1>6, <1>8, <4>1
      <4> QED
        BY <1>4, <1>5, <4>2
    <3> QED
      BY <3>1, <3>2
  <2>2. ASSUME NEW t \in 1 .. p PROVE h.inputs[n][t] = ins[t]
    <3>1. edges[t].to = Inlet(n, t)
      BY <1>4
    <3>2. PICK k \in 1 .. p : edges[k].to = Inlet(n, t) /\ h.inputs[n][t] = edges[k].from
      BY <1>6, <1>8, <2>1, <3>1
    <3>3. k = t
      BY <1>4, <1>5, <3>2
    <3> QED
      BY <1>4, <3>2, <3>3
  <2>3. h.inputs[n] \in Seq(N) /\ ins \in Seq(N)
    BY <1>8
  <2>4. Len(h.inputs[n]) = p
    <3>1. Len(h.inputs[n]) \in Nat /\ DOMAIN h.inputs[n] = 1 .. Len(h.inputs[n])
      BY <2>3, LenProperties
    <3> HIDE DEF p
    <3> QED
      BY <1>2, <2>1, <3>1
  <2> QED
    BY <2>2, <2>3, <2>4, SeqEqual
<1>10. ASSUME NEW m \in N, m # n PROVE h.inputs[m] = g.inputs[m]
  <2>1. ASSUME NEW t \in DOMAIN h.inputs[m]
        PROVE  t \in DOMAIN g.inputs[m] /\ h.inputs[m][t] = g.inputs[m][t]
    <3>1. \A k \in 1 .. p : edges[k].to # Inlet(m, t)
      BY <1>4, <1>5, <1>10
    <3> QED
      BY <1>6, <3>1
  <2>2. DOMAIN h.inputs[m] = DOMAIN g.inputs[m]
    BY <1>6, <2>1
  <2> DEFINE s == h.inputs[m]
             t == g.inputs[m]
  <2>3. s \in Seq(N) /\ t \in Seq(N)
    BY <1>8
  <2>4. DOMAIN s = DOMAIN t /\ \A k \in DOMAIN s : s[k] = t[k]
    BY <2>1, <2>2
  <2> HIDE DEF s, t, N
  <2>5. /\ Len(s) \in Nat /\ DOMAIN s = 1 .. Len(s)
        /\ Len(t) \in Nat /\ DOMAIN t = 1 .. Len(t)
    BY <2>3, LenProperties
  <2>6. Len(s) = Len(t)
    BY <2>4, <2>5, SameInterval
  <2>7. s = t
    BY <2>3, <2>4, <2>5, <2>6, SeqEqual
  <2> QED
    BY <2>7 DEF s, t
<1> QED
  BY <1>6, <1>9, <1>10 DEF h

(* The graph made of the first n nodes of an order. *)
MadeOf(g, order, n, h) ==
  /\ IsGraph(h) /\ Reciprocal(h)
  /\ Len(h.op) = n
  /\ \A j \in 1 .. n :
       IF Contains(g.interface, order[j])
       THEN h.op[j] = Source /\ h.inputs[j] = <<>>
       ELSE h.op[j] = g.op[order[j]] /\ h.inputs[j] = Mapped(order, g.inputs[order[j]])

(* The elements of s are found among the first k of the order. *)
FoundBefore(order, s, k) ==
  \A t \in DOMAIN s : \E j \in 1 .. k : j \in DOMAIN order /\ order[j] = s[t]

(* Sequence m tells where. *)
Places(order, s, k, m) ==
  /\ m \in Seq(1 .. k) /\ Len(m) = Len(s)
  /\ \A t \in 1 .. Len(s) : m[t] \in DOMAIN order /\ order[m[t]] = s[t]

(* A sequence whose elements are found is mapped where they are. *)
LEMMA MappedIsBefore ==
  ASSUME NEW order, Unique(order), NEW k \in Nat, NEW N, NEW s \in Seq(N),
         FoundBefore(order, s, k)
  PROVE  Places(order, s, k, Mapped(order, s))
<1> DEFINE m == Mapped(order, s)
           n == Len(s)
<1>1. n \in Nat /\ DOMAIN s = 1 .. n
  BY LenProperties
<1>2. ASSUME NEW t \in 1 .. n
      PROVE  m[t] \in 1 .. k /\ m[t] \in DOMAIN order /\ order[m[t]] = s[t]
  <2>1. m[t] = CHOOSE j \in DOMAIN order : order[j] = s[t]
    BY <1>1 DEF Mapped
  <2>2. PICK j \in 1 .. k : j \in DOMAIN order /\ order[j] = s[t]
    BY <1>1 DEF FoundBefore
  <2>3. m[t] \in DOMAIN order /\ order[m[t]] = s[t]
    BY <2>1, <2>2
  <2>4. m[t] = j
    BY <2>2, <2>3 DEF Unique
  <2> QED
    BY <2>2, <2>3, <2>4
<1>3. m = [t \in 1 .. n |-> m[t]]
  BY <1>1 DEF Mapped
<1> HIDE DEF m, n
<1>4. m \in [1 .. n -> 1 .. k]
  BY <1>2, <1>3
<1>5. m \in Seq(1 .. k) /\ Len(m) = n
  BY <1>1, <1>4, FunctionIsSeq
<1> QED
  BY <1>2, <1>5 DEF Places, m, n

(* The graph that a translation starts from. *)
LEMMA EmptyIsGraph == MadeOf(Empty, <<>>, 0, Empty) /\ Empty.interface = <<>> /\ Empty.outputs = <<>>
<1> DEFINE N == Nodes(Empty)
           E == [node : N, slot : Nat \ {0}]
<1>1. Len(<<>>) = 0
  BY EmptySeq
<1>2. N = {} /\ Empty.op = <<>>
  BY <1>1 DEF Nodes, Empty
<1>3. /\ <<>> \in Seq(ToSet(Empty.op)) /\ <<>> \in Seq(N)
      /\ <<>> \in [N -> Seq(N)] /\ <<>> \in [N -> Seq(E)]
  <2>1. DOMAIN <<>> = {} /\ <<>> = [k \in {} |-> k]
    OBVIOUS
  <2>2. \A S : <<>> \in [{} -> S]
    BY <2>1
  <2> QED
    BY <1>2, <2>2, EmptySeq
<1>4. IsGraph(Empty)
  <2> HIDE DEF N
  <2> QED
    BY <1>3 DEF IsGraph, Empty, N
<1>5. Reciprocal(Empty)
  BY <1>2 DEF Reciprocal
<1> QED
  BY <1>1, <1>4, <1>5 DEF MadeOf, Empty

(* What the loop of Translate::translate_model makes of an order. *)
LEMMA TranslatedIsMade ==
  ASSUME NEW g, IsGraph(g), NEW order, Ordered(g, order)
  PROVE  LET h == Translated(g, order) IN
         /\ \E w : /\ MadeOf(g, order, Len(order), w)
                   /\ h = [w EXCEPT !.interface = Mapped(order, g.interface),
                                    !.outputs = Mapped(order, g.outputs)]
<1> DEFINE n == Len(order)
           f == CHOOSE f : Makes(f, g, order, n)
           h == Translated(g, order)
<1>1. n \in Nat /\ DOMAIN order = 1 .. n /\ Unique(order) /\ \A k \in 1 .. n : order[k] \in Nodes(g)
  <2>1. order \in Seq(Nodes(g))
    BY DEF Ordered
  <2> QED
    BY <2>1, LenProperties, ElementOfSeq DEF Ordered
<1>2. Makes(f, g, order, n)
  <2> HIDE DEF n
  <2> QED
    BY <1>1, MadeExists
<1>3. h = [f[n] EXCEPT !.interface = Mapped(order, g.interface),
                       !.outputs = Mapped(order, g.outputs)]
  BY DEF Translated, Makes
<1> HIDE DEF f, h, n
<1> DEFINE Fine(k) == MadeOf(g, order, k, f[k])
           T == {k \in Nat : k <= n => Fine(k)}
<1>4. 0 \in T
  <2>1. f[0] = Empty
    BY <1>1, <1>2 DEF Makes
  <2>2. MadeOf(g, order, 0, Empty)
    BY EmptyIsGraph DEF MadeOf
  <2> QED
    BY <2>1, <2>2
<1>5. ASSUME NEW k \in Nat, k \in T PROVE k + 1 \in T
  <2> SUFFICES ASSUME k + 1 <= n PROVE MadeOf(g, order, k + 1, f[k + 1])
    OBVIOUS
  <2> DEFINE v == f[k]
             m == order[k + 1]
             ins == Mapped(order, g.inputs[m])
             op == IF Contains(g.interface, m) THEN Source ELSE g.op[m]
             u == AddNode(v, op)
             w == f[k + 1]
             N == Nodes(v)
             M == Nodes(u)
  <2>1. MadeOf(g, order, k, v)
    BY <1>1, <1>5
  <2>2. k + 1 \in 0 .. n /\ k + 1 \in 1 .. n /\ (k + 1) - 1 = k /\ k + 1 # 0
    BY <1>1
  <2>3. w = IF Contains(g.interface, m) THEN AddNode(v, Source)
            ELSE Wire(AddNode(v, g.op[m]), k + 1, ins)
    BY <1>2, <2>2 DEF Makes
  <2>4. w = IF Contains(g.interface, m) THEN u ELSE Wire(u, k + 1, ins)
    BY <2>3
  <2>5. IsGraph(v) /\ Reciprocal(v) /\ Len(v.op) = k /\ N = 1 .. k
    BY <2>1 DEF MadeOf, Nodes
  <2>6. Grows(v, k + 1, u) /\ u.op[k + 1] = op
    <3> HIDE DEF v, op
    <3> QED
      BY <2>5, AddNodeGrows
  <2>7. IsGraph(u) /\ Reciprocal(u) /\ M = 1 .. k + 1
    <3> HIDE DEF v, u
    <3> QED
      BY <2>5, <2>6, GrownIsGraph
  <2>8. /\ u.inputs[k + 1] = <<>> /\ \A j \in 1 .. k : u.inputs[j] = v.inputs[j] /\ u.op[j] = v.op[j]
    <3>1. k + 1 \notin 1 .. k /\ k + 1 \in 1 .. k + 1 /\ \A j \in 1 .. k : j \in 1 .. k + 1
      OBVIOUS
    <3> HIDE DEF v, u, N
    <3>2. u.inputs = [j \in 1 .. k + 1 |-> IF j \in N THEN v.inputs[j] ELSE <<>>]
      BY <2>6 DEF Grows, N
    <3>3. \A j \in N : u.op[j] = v.op[j]
      BY <2>6 DEF Grows, N
    <3> QED
      BY <2>5, <3>1, <3>2, <3>3
  <2>9. Len(u.op) = k + 1
    <3>1. u.op \in [1 .. k + 1 -> ToSet(u.op)] /\ k + 1 \in Nat
      BY <2>6 DEF Grows
    <3> HIDE DEF u
    <3> QED
      BY <3>1, FunctionIsSeq
  <2>10. \A j : j \in 1 .. k + 1 <=> j \in 1 .. k \/ j = k + 1
    OBVIOUS
  <2>11. \A j \in 1 .. k :
           IF Contains(g.interface, order[j])
           THEN v.op[j] = Source /\ v.inputs[j] = <<>>
           ELSE v.op[j] = g.op[order[j]] /\ v.inputs[j] = Mapped(order, g.inputs[order[j]])
    BY <2>1 DEF MadeOf
  <2>12. CASE Contains(g.interface, m)
    <3>1. w = u /\ op = Source
      BY <2>4, <2>12
    <3> HIDE DEF u, w, v, op
    <3>2. ASSUME NEW j \in 1 .. k + 1
          PROVE  IF Contains(g.interface, order[j])
                 THEN u.op[j] = Source /\ u.inputs[j] = <<>>
                 ELSE u.op[j] = g.op[order[j]] /\ u.inputs[j] = Mapped(order, g.inputs[order[j]])
      <4>1. CASE j \in 1 .. k
        BY <2>8, <2>11, <4>1
      <4>2. CASE j = k + 1
        BY <2>6, <2>8, <2>12, <3>1, <4>2
      <4> QED
        BY <2>10, <4>1, <4>2
    <3>3. MadeOf(g, order, k + 1, u)
      BY <2>7, <2>9, <3>2 DEF MadeOf
    <3> QED
      BY <3>1, <3>3 DEF w
  <2>13. CASE ~Contains(g.interface, m)
    <3>1. w = Wire(u, k + 1, ins) /\ op = g.op[m]
      BY <2>4, <2>13
    <3>2. ins \in Seq(M)
      <4>1. m \in Nodes(g)
        BY <1>1, <2>2
      <4>2. g.inputs[m] \in Seq(Nodes(g))
        BY <4>1 DEF IsGraph
      <4>3. \A t \in DOMAIN g.inputs[m] : \E j \in 1 .. k : j \in DOMAIN order /\ order[j] = g.inputs[m][t]
        <5>1. \A t \in DOMAIN g.inputs[m] : \E j \in 1 .. ((k + 1) - 1) : order[j] = g.inputs[m][t]
          BY <1>1, <2>2, <2>13 DEF Ordered
        <5>2. \A j \in 1 .. k : j \in DOMAIN order
          BY <1>1
        <5> QED
          BY <2>2, <5>1, <5>2
      <4>4. ins \in Seq(1 .. k)
        <5> HIDE DEF m
        <5> QED
          BY <1>1, <4>2, <4>3, MappedIsBefore DEF FoundBefore, Places
      <4>5. 1 .. k \subseteq M
        BY <2>7
      <4> HIDE DEF M, ins
      <4> QED
        BY <4>4, <4>5, SeqMonotonic
    <3>3. k + 1 \in M
      BY <2>7
    <3>4. /\ IsGraph(w) /\ Reciprocal(w) /\ w.op = u.op /\ w.inputs[k + 1] = ins
          /\ \A j \in M : j # k + 1 => w.inputs[j] = u.inputs[j]
      <4> HIDE DEF u, w, ins
      <4> QED
        BY <2>7, <2>8, <3>1, <3>2, <3>3, WireMakes
    <3>5. \A j \in 1 .. k : j \in M /\ j # k + 1
      BY <2>7
    <3> HIDE DEF u, w, v, op, M
    <3>6. ASSUME NEW j \in 1 .. k + 1
          PROVE  IF Contains(g.interface, order[j])
                 THEN w.op[j] = Source /\ w.inputs[j] = <<>>
                 ELSE w.op[j] = g.op[order[j]] /\ w.inputs[j] = Mapped(order, g.inputs[order[j]])
      <4>1. CASE j \in 1 .. k
        BY <2>8, <2>11, <3>4, <3>5, <4>1
      <4>2. CASE j = k + 1
        BY <2>6, <2>13, <3>1, <3>4, <4>2
      <4> QED
        BY <2>10, <4>1, <4>2
    <3>7. MadeOf(g, order, k + 1, w)
      BY <2>9, <3>4, <3>6 DEF MadeOf
    <3> QED
      BY <3>7 DEF w
  <2> QED
    BY <2>12, <2>13
<1> HIDE DEF Fine
<1>6. Nat \subseteq T
  <2>1. \A k \in Nat : k \in T => k + 1 \in T
    BY <1>5
  <2> HIDE DEF T
  <2> QED
    BY ONLY <1>4, <2>1, SetInduction
<1>7. Fine(n)
  BY <1>1, <1>6
<1>8. MadeOf(g, order, n, f[n])
  BY <1>7 DEF Fine
<1> QED
  BY <1>3, <1>8 DEF h, n

-----------------------------------------------------------------------------
(* The invariant. *)

Working == job.at \in {"shunting", "wiring"}

(* While a patch is applied, its nodes are in the model, and the inputs of the
   model to be are Sources that are not obliterated. *)
PatchIsIn ==
  /\ job = [at |-> job.at, patch |-> job.patch, mapping |-> job.mapping,
            interface |-> job.interface, left |-> job.left]
  /\ DOMAIN job.mapping = DOMAIN job.patch.nodes
  /\ \A i \in DOMAIN job.patch.nodes :
       /\ job.mapping[i] \in Nodes(model)
       /\ job.patch.nodes[i].inputs \in Seq(DOMAIN job.patch.nodes)
  /\ job.interface \in Seq(Nodes(model))
  /\ \A k \in DOMAIN job.interface :
       /\ model.op[job.interface[k]] = Source
       /\ job.interface[k] \notin job.patch.obliterate
  /\ job.at = "shunting" =>
       \A n \in job.left : n \in Nodes(model) /\ job.patch.shunt[n] \in DOMAIN job.patch.nodes
  /\ job.at = "wiring" => job.left \subseteq DOMAIN job.patch.nodes

IInv ==
  /\ IsGraph(model) /\ Reciprocal(model)
  /\ job.at \in {"idle", "shunting", "wiring", "failed"}
  /\ Len(model.outputs) = Len(meant)
  /\ job.at \in {"idle", "wiring"} => Unique(model.outputs)
  /\ \A k \in DOMAIN model.interface : model.op[model.interface[k]] = Source
  /\ Working => PatchIsIn

(* A graph with other operators or another interface has the same edges. *)
LEMMA SameEdges ==
  ASSUME NEW g, IsGraph(g), Reciprocal(g), NEW h,
         h = [op |-> h.op, inputs |-> g.inputs, succ |-> g.succ,
              interface |-> h.interface, outputs |-> h.outputs],
         h.op \in Seq(ToSet(h.op)), Len(h.op) = Len(g.op),
         h.interface \in Seq(Nodes(g)), h.outputs \in Seq(Nodes(g))
  PROVE  IsGraph(h) /\ Reciprocal(h) /\ Nodes(h) = Nodes(g)
<1>1. Nodes(h) = Nodes(g)
  BY DEF Nodes
<1>2. h.inputs = g.inputs /\ h.succ = g.succ
  OBVIOUS
<1>3. IsGraph(h)
  <2> DEFINE N == Nodes(g)
             E == [node : N, slot : Nat \ {0}]
  <2>1. g.inputs \in [N -> Seq(N)] /\ g.succ \in [N -> Seq(E)]
    BY DEF IsGraph
  <2>2. h = [op |-> h.op, inputs |-> h.inputs, succ |-> h.succ,
             interface |-> h.interface, outputs |-> h.outputs]
    BY <1>2
  <2> HIDE DEF E
  <2> QED
    BY <1>1, <1>2, <2>1, <2>2 DEF IsGraph, E
<1>4. Reciprocal(h)
  BY <1>1, <1>2 DEF Reciprocal
<1> QED
  BY <1>1, <1>3, <1>4

(* The first models. *)
LEMMA InitIsGood == Init => IInv
<1> SUFFICES ASSUME Init PROVE IInv
  OBVIOUS
<1>1. /\ IsGraph(model) /\ Reciprocal(model) /\ Unique(model.outputs)
      /\ \A k \in DOMAIN model.interface : model.op[model.interface[k]] = Source
  BY ModelsAssumption DEF Init
<1>2. job.at = "idle" /\ ~Working
  BY DEF Init, Idle, Working
<1>3. Len(model.outputs) = Len(meant)
  <2> DEFINE n == Len(model.outputs)
  <2>1. n \in Nat /\ DOMAIN model.outputs = 1 .. n
    <3>1. model.outputs \in Seq(Nodes(model))
      BY <1>1 DEF IsGraph
    <3> QED
      BY <3>1, LenProperties
  <2>2. \A t : LET m == [k \in DOMAIN model.outputs |-> t[model.outputs[k]]] IN Len(m) = n
    <3> TAKE t
    <3> DEFINE m == [k \in DOMAIN model.outputs |-> t[model.outputs[k]]]
    <3>1. m = [k \in 1 .. n |-> m[k]]
      BY <2>1
    <3> HIDE DEF m, n
    <3>2. m \in [1 .. n -> ToSet(m)]
      BY <3>1 DEF ToSet
    <3>3. Len(m) = n
      BY <2>1, <3>2, FunctionIsSeq
    <3> QED
      BY <3>3 DEF m
  <2>3. meant = Meaning(model)
    BY DEF Init
  <2> QED
    BY <2>2, <2>3 DEF Meaning
<1> QED
  BY <1>1, <1>2, <1>3 DEF IInv

(* ModelPatch::apply adds the nodes of the patch. *)
LEMMA StartPatchKeeps ==
  ASSUME IInv, job.at = "idle", NEW patch, StartPatch(patch)
  PROVE  IInv'
<1> DEFINE h == WithNodes(model, patch, Mapping(patch))
           n == Len(model.op) + Cardinality(Added(patch))
           N == Nodes(model)
           new == NewInterface(patch)
           L == Len(model.interface)
<1>1. /\ IsGraph(model) /\ Reciprocal(model) /\ Len(model.outputs) = Len(meant)
      /\ \A k \in DOMAIN model.interface : model.op[model.interface[k]] = Source
  BY DEF IInv
<1>2. Fits(patch, model) /\ model' = h /\ meant' = meant
      /\ job' = [at |-> "shunting", patch |-> patch, mapping |-> Mapping(patch),
                 interface |-> new, left |-> DOMAIN patch.shunt]
  BY DEF StartPatch
<1>3. Grows(model, n, h) /\ Placed(patch, h)
  BY <1>1, <1>2, PatchIsPlaced
<1>4. /\ IsGraph(h) /\ Reciprocal(h) /\ N \subseteq Nodes(h) /\ h.outputs = model.outputs
      /\ h.interface = model.interface /\ \A k \in N : h.op[k] = model.op[k]
  <2> HIDE DEF h, n
  <2> QED
    BY <1>1, <1>3, GrownIsGraph DEF Grows
<1>5. /\ DOMAIN Mapping(patch) = DOMAIN patch.nodes
      /\ \A i \in DOMAIN patch.nodes :
           /\ Mapping(patch)[i] \in Nodes(h)
           /\ i \in Added(patch) => Mapping(patch)[i] \notin N /\ h.op[Mapping(patch)[i]] = patch.nodes[i].op
  <2> HIDE DEF h
  <2> QED
    BY <1>3 DEF Placed, Added
<1>6. L \in Nat /\ DOMAIN model.interface = 1 .. L /\ \A k \in 1 .. L : model.interface[k] \in N
  <2>1. model.interface \in Seq(N)
    BY <1>1 DEF IsGraph
  <2> QED
    BY <2>1, LenProperties, ElementOfSeq
<1>7. patch.obliterate \subseteq N \ ToSet(model.interface)
  BY <1>2 DEF Fits
<1>8. ASSUME NEW k \in 1 .. L
      PROVE  new[k] \in Nodes(h) /\ h.op[new[k]] = Source /\ new[k] \notin patch.obliterate
  <2> DEFINE By == {i \in Added(patch) : patch.nodes[i].op = Source
                                         /\ patch.nodes[i].replaces = model.interface[k]}
  <2>1. new[k] = IF By = {} THEN model.interface[k] ELSE Mapping(patch)[CHOOSE i \in By : TRUE]
    BY <1>6 DEF NewInterface
  <2>2. CASE By = {}
    <3>1. new[k] = model.interface[k]
      BY <2>1, <2>2
    <3>2. model.interface[k] \in ToSet(model.interface)
      BY <1>6 DEF ToSet
    <3> HIDE DEF new, h, By, N
    <3> QED
      BY <1>1, <1>4, <1>6, <1>7, <3>1, <3>2
  <2>3. CASE By # {}
    <3> DEFINE i == CHOOSE i \in By : TRUE
    <3>1. i \in By
      BY <2>3
    <3>2. i \in Added(patch) /\ patch.nodes[i].op = Source /\ i \in DOMAIN patch.nodes
      BY <3>1 DEF Added
    <3>3. new[k] = Mapping(patch)[i]
      BY <2>1, <2>3
    <3> HIDE DEF new, h, By, i, N
    <3> QED
      BY <1>5, <1>7, <3>2, <3>3
  <2> QED
    BY <2>2, <2>3
<1>9. new \in Seq(Nodes(h)) /\ DOMAIN new = 1 .. L
  <2>1. new = [k \in 1 .. L |-> new[k]]
    BY <1>6 DEF NewInterface
  <2> HIDE DEF new, h, L
  <2>2. new \in [1 .. L -> Nodes(h)]
    BY <1>8, <2>1
  <2> QED
    BY <1>6, <2>1, <2>2, FunctionIsSeq
<1>10. PatchIsIn'
  <2>1. /\ job'.at = "shunting" /\ job'.patch = patch /\ job'.mapping = Mapping(patch)
        /\ job'.interface = new /\ job'.left = DOMAIN patch.shunt
        /\ job' = [at |-> job'.at, patch |-> job'.patch, mapping |-> job'.mapping,
                   interface |-> job'.interface, left |-> job'.left]
    BY <1>2
  <2>2. /\ \A i \in DOMAIN patch.nodes : patch.nodes[i].inputs \in Seq(DOMAIN patch.nodes)
        /\ \A m \in DOMAIN patch.shunt : m \in N /\ patch.shunt[m] \in DOMAIN patch.nodes
    BY <1>2 DEF Fits
  <2>3. Nodes(model)' = Nodes(h) /\ model'.op = h.op
    BY <1>2 DEF Nodes
  <2> HIDE DEF h, new, N
  <2> QED
    BY <1>4, <1>5, <1>8, <1>9, <2>1, <2>2, <2>3 DEF PatchIsIn
<1>11. job'.at = "shunting"
  BY <1>2
<1>12. \A k \in DOMAIN h.interface : h.op[h.interface[k]] = Source
  <2> HIDE DEF h, N
  <2> QED
    BY <1>1, <1>4, <1>6
<1> HIDE DEF h
<1> QED
  BY <1>1, <1>2, <1>4, <1>10, <1>11, <1>12 DEF IInv

(* Consumers that are moved. *)

(* t is s, with by in place of n. *)
Moved(s, n, by, t) ==
  /\ DOMAIN t = DOMAIN s
  /\ \A k \in DOMAIN s : t[k] = IF s[k] = n THEN by ELSE s[k]

(* The edges that ModelPatch::apply adds to move the consumers of n to by. *)
Moves(g, n, by) == [k \in DOMAIN g.succ[n] |-> Edge(by, g.succ[n][k])]

(* All that read n read by, and nothing else is changed. *)
LEMMA MovesMove ==
  ASSUME NEW g, IsGraph(g), Reciprocal(g), NEW n \in Nodes(g), NEW by \in Nodes(g)
  PROVE  LET h == AddEdges(g, Moves(g, n, by)) IN
         /\ IsGraph(h) /\ Reciprocal(h) /\ Nodes(h) = Nodes(g)
         /\ h.op = g.op /\ h.interface = g.interface /\ h.outputs = g.outputs
         /\ \A m \in Nodes(g) : Moved(g.inputs[m], n, by, h.inputs[m])
<1> DEFINE N == Nodes(g)
           E == [node : N, slot : Nat \ {0}]
           s == g.succ[n]
           edges == Moves(g, n, by)
           h == AddEdges(g, edges)
           p == Len(s)
<1>1. g.inputs \in [N -> Seq(N)] /\ g.succ \in [N -> Seq(E)]
  BY DEF IsGraph
<1>2. p \in Nat /\ DOMAIN s = 1 .. p /\ \A k \in 1 .. p : s[k] \in E
  <2>1. s \in Seq(E)
    BY <1>1
  <2> HIDE DEF E, s
  <2> QED
    BY <2>1, LenProperties, ElementOfSeq
<1>3. DOMAIN edges = 1 .. p /\ \A k \in 1 .. p : edges[k].from = by /\ edges[k].to = s[k]
  BY <1>2 DEF Moves, Edge
<1>4. Len(edges) = p
  <2>1. edges = [k \in 1 .. p |-> edges[k]]
    BY <1>3 DEF Moves
  <2> HIDE DEF edges, p
  <2>2. edges \in [1 .. p -> ToSet(edges)]
    BY <1>3, <2>1 DEF ToSet
  <2> QED
    BY <1>2, <2>2, FunctionIsSeq
<1>5. \A x : x \in ToSet(s) <=> Reads(g, n, x)
  BY ReciprocalMeans
<1>6. \A m \in N : Len(g.inputs[m]) \in Nat /\ DOMAIN g.inputs[m] = 1 .. Len(g.inputs[m])
  <2> SUFFICES ASSUME NEW m \in N
               PROVE  Len(g.inputs[m]) \in Nat /\ DOMAIN g.inputs[m] = 1 .. Len(g.inputs[m])
    OBVIOUS
  <2>1. g.inputs[m] \in Seq(N)
    BY <1>1
  <2> HIDE DEF N
  <2> QED
    BY <2>1, LenProperties
<1>7. ASSUME NEW k \in 1 .. p
      PROVE  /\ s[k].node \in N /\ s[k].slot \in Nat \ {0}
             /\ s[k].slot <= Len(g.inputs[s[k].node]) + 1
  <2>1. s[k].node \in N /\ s[k].slot \in Nat \ {0}
    <3>1. s[k] \in E
      BY <1>2
    <3> HIDE DEF N, s
    <3> QED
      BY <3>1
  <2>2. Reads(g, n, s[k])
    <3>1. s[k] \in ToSet(s)
      BY <1>2 DEF ToSet
    <3> QED
      BY <1>5, <3>1
  <2>3. PICK m \in N : \E t \in DOMAIN g.inputs[m] : s[k] = Inlet(m, t)
    BY <2>2 DEF Reads
  <2>4. PICK t \in DOMAIN g.inputs[m] : s[k] = Inlet(m, t)
    BY <2>3
  <2>5. s[k].node = m /\ s[k].slot = t
    BY <2>4 DEF Inlet
  <2> HIDE DEF s, N
  <2> QED
    BY <1>6, <2>1, <2>4, <2>5
<1>8. Consecutive(g, edges)
  <2> HIDE DEF edges, s, p
  <2> QED
    BY <1>2, <1>3, <1>7 DEF Consecutive
<1>9. Wired(g, edges, p, h)
  <2> HIDE DEF edges, p
  <2> QED
    BY <1>2, <1>3, <1>4, <1>8, AddEdgesWires
<1>10. /\ IsGraph(h) /\ Reciprocal(h) /\ Nodes(h) = N
       /\ h.op = g.op /\ h.interface = g.interface /\ h.outputs = g.outputs
  <2> HIDE DEF h, edges, p
  <2> QED
    BY <1>9 DEF Wired, Nodes
<1>11. ASSUME NEW m \in N, NEW t
       PROVE  (\E k \in 1 .. p : edges[k].to = Inlet(m, t)) <=> t \in DOMAIN g.inputs[m] /\ g.inputs[m][t] = n
  <2>1. (\E k \in 1 .. p : edges[k].to = Inlet(m, t)) <=> Inlet(m, t) \in ToSet(s)
    <3> HIDE DEF s, p, edges
    <3> QED
      BY <1>2, <1>3 DEF ToSet
  <2>2. \A a, b : Inlet(a, b) = Inlet(m, t) => a = m /\ b = t
    BY DEF Inlet
  <2>3. Reads(g, n, Inlet(m, t)) <=> t \in DOMAIN g.inputs[m] /\ g.inputs[m][t] = n
    BY <2>2 DEF Reads
  <2> QED
    BY <1>5, <2>1, <2>3
<1>12. ASSUME NEW m \in N PROVE Moved(g.inputs[m], n, by, h.inputs[m])
  <2> HIDE DEF h, edges, p, s
  <2>1. DOMAIN g.inputs[m] \subseteq DOMAIN h.inputs[m]
    BY <1>9 DEF Wired
  <2>2. ASSUME NEW t \in DOMAIN h.inputs[m]
        PROVE  /\ t \in DOMAIN g.inputs[m]
               /\ h.inputs[m][t] = IF g.inputs[m][t] = n THEN by ELSE g.inputs[m][t]
    <3>1. \/ \E k \in 1 .. p : edges[k].to = Inlet(m, t) /\ h.inputs[m][t] = edges[k].from
          \/ /\ t \in DOMAIN g.inputs[m] /\ h.inputs[m][t] = g.inputs[m][t]
             /\ \A k \in 1 .. p : edges[k].to # Inlet(m, t)
      BY <1>9 DEF Wired
    <3> QED
      BY <1>3, <1>11, <3>1
  <2> QED
    BY <2>1, <2>2 DEF Moved
<1> QED
  BY <1>10, <1>12

(* ModelPatch::apply moves the consumers of an outlet. *)
LEMMA ShuntOneKeeps ==
  ASSUME IInv, ShuntOne
  PROVE  IInv'
<1> DEFINE N == Nodes(model)
<1>1. PICK n \in job.left :
        LET by == job.mapping[job.patch.shunt[n]]
            g == AddEdges(model, [k \in DOMAIN model.succ[n] |-> Edge(by, model.succ[n][k])])
        IN /\ model' = [g EXCEPT !.outputs = [k \in DOMAIN @ |-> IF @[k] = n THEN by ELSE @[k]]]
           /\ job' = [job EXCEPT !.left = @ \ {n}]
  BY DEF ShuntOne
<1>2. job.at = "shunting" /\ Working /\ PatchIsIn
  BY DEF ShuntOne, IInv, Working
<1>3. n \in N /\ job.mapping[job.patch.shunt[n]] \in N
  BY <1>2 DEF PatchIsIn
<1> DEFINE by == job.mapping[job.patch.shunt[n]]
           g == AddEdges(model, Moves(model, n, by))
           outs == [k \in DOMAIN g.outputs |-> IF g.outputs[k] = n THEN by ELSE g.outputs[k]]
           h == [g EXCEPT !.outputs = outs]
<1>4. model' = h /\ job' = [job EXCEPT !.left = @ \ {n}] /\ meant' = meant
  <2>1. job' = [job EXCEPT !.left = @ \ {n}] /\ meant' = meant
    BY <1>1 DEF ShuntOne
  <2>2. model' = h
    BY <1>1 DEF Moves
  <2> QED
    BY <2>1, <2>2
<1>5. /\ IsGraph(model) /\ Reciprocal(model) /\ Len(model.outputs) = Len(meant)
      /\ model.outputs \in Seq(N)
      /\ \A k \in DOMAIN model.interface : model.op[model.interface[k]] = Source
  BY DEF IInv, IsGraph
<1>6. by \in N
  BY <1>3
<1>7. /\ IsGraph(g) /\ Reciprocal(g) /\ Nodes(g) = N /\ g.op = model.op
       /\ g.interface = model.interface /\ g.outputs = model.outputs
  BY <1>3, <1>5, MovesMove
<1>8. outs \in Seq(N) /\ Len(outs) = Len(model.outputs)
  <2>1. /\ Len(model.outputs) \in Nat /\ DOMAIN model.outputs = 1 .. Len(model.outputs)
        /\ \A k \in 1 .. Len(model.outputs) : model.outputs[k] \in N
    BY <1>5, LenProperties, ElementOfSeq
  <2>2. outs \in [1 .. Len(model.outputs) -> N]
    <3> HIDE DEF g, by, N
    <3> QED
      BY <1>6, <1>7, <2>1
  <2> HIDE DEF outs, N
  <2> QED
    BY <2>1, <2>2, FunctionIsSeq
<1>9. /\ h = [op |-> g.op, inputs |-> g.inputs, succ |-> g.succ,
               interface |-> g.interface, outputs |-> outs]
       /\ g.interface \in Seq(N) /\ g.op \in Seq(ToSet(g.op))
  <2>1. /\ g = [op |-> g.op, inputs |-> g.inputs, succ |-> g.succ,
               interface |-> g.interface, outputs |-> g.outputs]
        /\ g.interface \in Seq(Nodes(g)) /\ g.op \in Seq(ToSet(g.op))
    <3> HIDE DEF g
    <3> QED
      BY <1>7 DEF IsGraph
  <2> HIDE DEF g, outs
  <2> QED
    BY <1>7, <2>1
<1>10. IsGraph(h) /\ Reciprocal(h) /\ Nodes(h) = N
       /\ h.op = model.op /\ h.outputs = outs /\ h.interface = model.interface
  <2> HIDE DEF g, outs, h
  <2>1. h.op = g.op /\ h.interface = g.interface /\ h.outputs = outs /\ h.inputs = g.inputs /\ h.succ = g.succ
    BY <1>9
  <2>2. h = [op |-> h.op, inputs |-> g.inputs, succ |-> g.succ,
             interface |-> h.interface, outputs |-> h.outputs]
    BY <1>9, <2>1
  <2>3. IsGraph(h) /\ Reciprocal(h) /\ Nodes(h) = Nodes(g)
    BY <1>7, <1>8, <1>9, <2>1, <2>2, SameEdges
  <2> QED
    BY <1>7, <2>1, <2>3
<1>11. /\ job'.at = "shunting" /\ job'.patch = job.patch /\ job'.mapping = job.mapping
       /\ job'.interface = job.interface /\ job'.left = job.left \ {n}
       /\ job' = [at |-> job'.at, patch |-> job'.patch, mapping |-> job'.mapping,
                  interface |-> job'.interface, left |-> job'.left]
  <2>1. job = [at |-> job.at, patch |-> job.patch, mapping |-> job.mapping,
               interface |-> job.interface, left |-> job.left]
    BY <1>2 DEF PatchIsIn
  <2>2. job' = [job EXCEPT !.left = @ \ {n}]
    BY <1>4
  <2>3. job' = [at |-> job.at, patch |-> job.patch, mapping |-> job.mapping,
                interface |-> job.interface, left |-> job.left \ {n}]
    BY ONLY <2>1, <2>2
  <2> QED
    BY <1>2, <2>3
<1> HIDE DEF h, g
<1>12. PatchIsIn'
  <2>1. Nodes(model)' = N /\ model'.op = model.op
    BY <1>4, <1>10 DEF Nodes
  <2> QED
    BY <1>2, <1>11, <2>1 DEF PatchIsIn
<1> QED
  BY <1>4, <1>5, <1>8, <1>10, <1>11, <1>12 DEF IInv, Working

(* ModelPatch::apply checks the outputs. *)
LEMMA AcceptOutputsKeeps ==
  ASSUME IInv, AcceptOutputs
  PROVE  IInv'
<1>1. job.at = "shunting" /\ Working /\ PatchIsIn /\ Unique(model.outputs)
  BY DEF AcceptOutputs, IInv, Working
<1>2. /\ job = [at |-> job.at, patch |-> job.patch, mapping |-> job.mapping,
                interface |-> job.interface, left |-> job.left]
      /\ job' = [job EXCEPT !.at = "wiring", !.left = Added(job.patch)]
      /\ model' = model /\ meant' = meant
  BY <1>1 DEF AcceptOutputs, PatchIsIn
<1>3. job' = [at |-> "wiring", patch |-> job.patch, mapping |-> job.mapping,
              interface |-> job.interface, left |-> Added(job.patch)]
  BY ONLY <1>2
<1>4. /\ job'.at = "wiring" /\ job'.patch = job.patch /\ job'.mapping = job.mapping
      /\ job'.interface = job.interface /\ job'.left = Added(job.patch)
      /\ job' = [at |-> job'.at, patch |-> job'.patch, mapping |-> job'.mapping,
                 interface |-> job'.interface, left |-> job'.left]
  BY <1>3
<1>5. Added(job.patch) \subseteq DOMAIN job.patch.nodes
  BY DEF Added
<1>6. PatchIsIn'
  <2>1. Nodes(model)' = Nodes(model)
    BY <1>2 DEF Nodes
  <2> QED
    BY <1>1, <1>2, <1>4, <1>5, <2>1 DEF PatchIsIn
<1> QED
  BY <1>1, <1>2, <1>4, <1>6 DEF IInv, Working

(* ModelPatch::apply wires a new node. *)
LEMMA WireOneKeeps ==
  ASSUME IInv, WireOne
  PROVE  IInv'
<1> DEFINE N == Nodes(model)
<1>1. PICK i \in job.left :
        LET ins == job.patch.nodes[i].inputs IN
        /\ model' = Wire(model, job.mapping[i], [s \in DOMAIN ins |-> job.mapping[ins[s]]])
        /\ job' = [job EXCEPT !.left = @ \ {i}]
  BY DEF WireOne
<1> DEFINE ins == job.patch.nodes[i].inputs
           mapped == [s \in DOMAIN ins |-> job.mapping[ins[s]]]
           at == job.mapping[i]
           edges == [slot \in DOMAIN mapped |-> Edge(mapped[slot], Inlet(at, slot))]
           h == Wire(model, at, mapped)
           P == DOMAIN job.patch.nodes
<1>2. job.at = "wiring" /\ Working /\ PatchIsIn /\ Unique(model.outputs)
  BY DEF WireOne, IInv, Working
<1>3. i \in P
  BY <1>2 DEF PatchIsIn
<1>4. at \in N /\ ins \in Seq(P) /\ \A k \in P : job.mapping[k] \in N
  BY <1>2, <1>3 DEF PatchIsIn
<1>5. mapped \in Seq(N)
  <2>1. Len(ins) \in Nat /\ DOMAIN ins = 1 .. Len(ins) /\ \A s \in 1 .. Len(ins) : ins[s] \in P
    <3> HIDE DEF ins, P
    <3> QED
      BY <1>4, LenProperties, ElementOfSeq
  <2>2. mapped \in [1 .. Len(ins) -> N]
    <3> HIDE DEF ins, P, N
    <3> QED
      BY <1>4, <2>1
  <2> HIDE DEF mapped, ins, N
  <2> QED
    BY <2>1, <2>2, FunctionIsSeq
<1>6. model' = h /\ job' = [job EXCEPT !.left = @ \ {i}] /\ meant' = meant
  <2>1. meant' = meant
    BY DEF WireOne
  <2> QED
    BY <1>1, <2>1
<1>7. /\ IsGraph(model) /\ Reciprocal(model) /\ Len(model.outputs) = Len(meant)
      /\ \A k \in DOMAIN model.interface : model.op[model.interface[k]] = Source
  BY DEF IInv
<1>8. Wired(model, edges, Len(mapped), h)
  <2> HIDE DEF mapped, at
  <2> QED
    BY <1>4, <1>5, <1>7, WireWires
<1>9. /\ IsGraph(h) /\ Reciprocal(h) /\ Nodes(h) = N /\ h.op = model.op
      /\ h.interface = model.interface /\ h.outputs = model.outputs
  <2> HIDE DEF h, edges, mapped
  <2> QED
    BY <1>8 DEF Wired, Nodes
<1>10. job = [at |-> job.at, patch |-> job.patch, mapping |-> job.mapping,
              interface |-> job.interface, left |-> job.left]
  BY <1>2 DEF PatchIsIn
<1>11. job' = [at |-> job.at, patch |-> job.patch, mapping |-> job.mapping,
               interface |-> job.interface, left |-> job.left \ {i}]
  BY <1>6, <1>10
<1>12. /\ job'.at = "wiring" /\ job'.patch = job.patch /\ job'.mapping = job.mapping
       /\ job'.interface = job.interface /\ job'.left = job.left \ {i}
       /\ job' = [at |-> job'.at, patch |-> job'.patch, mapping |-> job'.mapping,
                  interface |-> job'.interface, left |-> job'.left]
  BY <1>2, <1>11
<1> HIDE DEF h
<1>13. PatchIsIn'
  <2>1. Nodes(model)' = N /\ model'.op = model.op
    BY <1>6, <1>9 DEF Nodes
  <2> QED
    BY <1>2, <1>12, <2>1 DEF PatchIsIn
<1> QED
  BY <1>2, <1>6, <1>7, <1>9, <1>12, <1>13 DEF IInv, Working

(* ModelPatch::apply obliterates nodes. *)
LEMMA FinishPatchKeeps ==
  ASSUME IInv, FinishPatch
  PROVE  IInv'
<1> DEFINE N == Nodes(model)
           ops == [n \in DOMAIN model.op |-> IF n \in job.patch.obliterate THEN Dummy ELSE model.op[n]]
           h == [model EXCEPT !.op = ops, !.interface = job.interface]
<1>1. job.at = "wiring" /\ Working /\ PatchIsIn /\ Unique(model.outputs)
  BY DEF FinishPatch, IInv, Working
<1>2. model' = h /\ job' = Idle /\ meant' = meant
  BY DEF FinishPatch
<1>3. /\ IsGraph(model) /\ Reciprocal(model) /\ Len(model.outputs) = Len(meant)
      /\ model.op \in Seq(ToSet(model.op)) /\ model.outputs \in Seq(N)
      /\ model = [op |-> model.op, inputs |-> model.inputs, succ |-> model.succ,
                  interface |-> model.interface, outputs |-> model.outputs]
  BY DEF IInv, IsGraph
<1>4. Len(model.op) \in Nat /\ DOMAIN model.op = 1 .. Len(model.op)
  BY <1>3, LenProperties
<1>5. ops \in Seq(ToSet(ops)) /\ Len(ops) = Len(model.op)
  <2>1. ops = [n \in 1 .. Len(model.op) |-> ops[n]]
    BY <1>4
  <2> HIDE DEF ops
  <2>2. ops \in [1 .. Len(model.op) -> ToSet(ops)]
    BY <2>1 DEF ToSet
  <2> QED
    BY <1>4, <2>2, FunctionIsSeq
<1>6. h = [op |-> ops, inputs |-> model.inputs, succ |-> model.succ,
           interface |-> job.interface, outputs |-> model.outputs]
  <2>1. h = [model EXCEPT !.op = ops, !.interface = job.interface]
    OBVIOUS
  <2> HIDE DEF h, ops
  <2> QED
    BY ONLY <1>3, <2>1
<1>7. /\ job.interface \in Seq(N)
      /\ \A k \in DOMAIN job.interface : /\ model.op[job.interface[k]] = Source
                                         /\ job.interface[k] \notin job.patch.obliterate
  BY <1>1 DEF PatchIsIn
<1>8. ASSUME NEW k \in DOMAIN job.interface PROVE ops[job.interface[k]] = Source
  <2>1. job.interface[k] \in N
    <3>1. DOMAIN job.interface = 1 .. Len(job.interface)
      BY <1>7, LenProperties
    <3> QED
      BY <1>7, <3>1, ElementOfSeq
  <2>2. job.interface[k] \in DOMAIN model.op
    BY <1>4, <2>1 DEF Nodes
  <2> QED
    BY <1>7, <2>2
<1> HIDE DEF h, ops
<1>9. h.op = ops /\ h.interface = job.interface /\ h.outputs = model.outputs
  BY <1>6
<1>10. IsGraph(h) /\ Reciprocal(h)
  BY <1>3, <1>5, <1>6, <1>7, <1>9, SameEdges
<1>11. job'.at = "idle"
  BY <1>2 DEF Idle
<1> QED
  BY <1>1, <1>2, <1>3, <1>8, <1>9, <1>10, <1>11 DEF IInv, Working

(* A translated model has the outputs of the one it was made of, and Sources for
   inputs. *)
LEMMA TranslatedIsGood ==
  ASSUME NEW g, IsGraph(g), Unique(g.outputs), NEW order, Ordered(g, order)
  PROVE  LET h == Translated(g, order) IN
         /\ IsGraph(h) /\ Reciprocal(h)
         /\ Len(h.outputs) = Len(g.outputs) /\ Unique(h.outputs)
         /\ \A k \in DOMAIN h.interface : h.op[h.interface[k]] = Source
<1> DEFINE h == Translated(g, order)
           n == Len(order)
           N == Nodes(g)
           ints == Mapped(order, g.interface)
           outs == Mapped(order, g.outputs)
<1>1. PICK w : MadeOf(g, order, n, w) /\ h = [w EXCEPT !.interface = ints, !.outputs = outs]
  BY TranslatedIsMade
<1>2. /\ n \in Nat /\ DOMAIN order = 1 .. n /\ Unique(order)
      /\ ToSet(g.outputs) \cup ToSet(g.interface) \subseteq ToSet(order)
  <2>1. order \in Seq(Nodes(g))
    BY DEF Ordered
  <2> QED
    BY <2>1, LenProperties DEF Ordered
<1>3. /\ IsGraph(w) /\ Reciprocal(w) /\ Len(w.op) = n /\ Nodes(w) = 1 .. n
      /\ \A j \in 1 .. n : Contains(g.interface, order[j]) => w.op[j] = Source
      /\ w.op \in Seq(ToSet(w.op))
      /\ w = [op |-> w.op, inputs |-> w.inputs, succ |-> w.succ,
              interface |-> w.interface, outputs |-> w.outputs]
  BY <1>1 DEF MadeOf, Nodes, IsGraph
<1>4. ASSUME NEW s \in Seq(N), ToSet(s) \subseteq ToSet(order)
      PROVE  /\ Mapped(order, s) \in Seq(1 .. n) /\ Len(Mapped(order, s)) = Len(s)
             /\ \A t \in 1 .. Len(s) : Mapped(order, s)[t] \in DOMAIN order
                                       /\ order[Mapped(order, s)[t]] = s[t]
  <2>1. FoundBefore(order, s, n)
    BY <1>2, <1>4 DEF ToSet, FoundBefore
  <2> HIDE DEF n
  <2>2. Places(order, s, n, Mapped(order, s))
    BY <1>2, <2>1, MappedIsBefore
  <2> QED
    BY <2>2 DEF Places
<1>5. g.interface \in Seq(N) /\ g.outputs \in Seq(N)
  BY DEF IsGraph
<1>6. /\ outs \in Seq(1 .. n) /\ Len(outs) = Len(g.outputs)
      /\ \A t \in 1 .. Len(g.outputs) : order[outs[t]] = g.outputs[t]
      /\ ints \in Seq(1 .. n) /\ Len(ints) = Len(g.interface)
      /\ \A t \in 1 .. Len(g.interface) : ints[t] \in 1 .. n /\ order[ints[t]] = g.interface[t]
  BY <1>2, <1>4, <1>5
<1>7. /\ DOMAIN g.outputs = 1 .. Len(g.outputs) /\ DOMAIN outs = 1 .. Len(g.outputs)
      /\ DOMAIN ints = 1 .. Len(g.interface)
  <2> HIDE DEF outs, ints
  <2> QED
    BY <1>5, <1>6, LenProperties
<1>8. Unique(outs)
  <2> SUFFICES ASSUME NEW j \in 1 .. Len(g.outputs), NEW k \in 1 .. Len(g.outputs), outs[j] = outs[k]
               PROVE  j = k
    BY <1>7 DEF Unique
  <2>1. g.outputs[j] = g.outputs[k]
    <3> HIDE DEF outs
    <3> QED
      BY <1>6
  <2> QED
    BY <1>7, <2>1 DEF Unique
<1> HIDE DEF h, outs, ints, n
<1>9. h = [op |-> w.op, inputs |-> w.inputs, succ |-> w.succ, interface |-> ints, outputs |-> outs]
  BY <1>1, <1>3
<1>10. h.op = w.op /\ h.interface = ints /\ h.outputs = outs
  BY <1>9
<1>11. IsGraph(h) /\ Reciprocal(h)
  BY <1>3, <1>6, <1>9, <1>10, SameEdges
<1>12. ASSUME NEW k \in DOMAIN ints PROVE w.op[ints[k]] = Source
  <2>1. k \in 1 .. Len(g.interface) /\ ints[k] \in 1 .. n /\ order[ints[k]] = g.interface[k]
    BY <1>6, <1>7
  <2>2. Contains(g.interface, order[ints[k]])
    BY <2>1 DEF Contains
  <2> QED
    BY <1>3, <2>1, <2>2
<1> QED
  BY <1>6, <1>8, <1>10, <1>11, <1>12 DEF h

(* compact(). *)
LEMMA CompactModelKeeps ==
  ASSUME IInv, CompactModel
  PROVE  IInv'
<1>1. /\ job.at = "idle" /\ IsGraph(model) /\ Unique(model.outputs)
      /\ Len(model.outputs) = Len(meant)
  BY DEF IInv, CompactModel
<1>2. /\ Ordered(model, TranslationOrder(model))
      /\ model' = Translated(model, TranslationOrder(model)) /\ job' = job /\ meant' = meant
  BY DEF CompactModel, Compact
<1>3. /\ IsGraph(model') /\ Reciprocal(model')
      /\ Len(model'.outputs) = Len(model.outputs) /\ Unique(model'.outputs)
      /\ \A k \in DOMAIN model'.interface : model'.op[model'.interface[k]] = Source
  BY <1>1, <1>2, TranslatedIsGood
<1> QED
  BY <1>1, <1>2, <1>3 DEF IInv, Working

-----------------------------------------------------------------------------
(* The theorems. *)

(* The invariant holds in every behaviour. *)
THEOREM Invariance == Spec => []IInv
<1>1. ASSUME IInv, [Next]_vars PROVE IInv'
  <2>1. CASE AnyPatch
    BY <1>1, <2>1, StartPatchKeeps DEF AnyPatch, MayStart
  <2>2. CASE ShuntOne
    BY <1>1, <2>2, ShuntOneKeeps
  <2>3. CASE RefuseOutputs
    <3>1. model' = model /\ meant' = meant /\ job'.at = "failed"
      BY <2>3 DEF RefuseOutputs
    <3> QED
      BY <1>1, <3>1 DEF IInv, Working
  <2>4. CASE AcceptOutputs
    BY <1>1, <2>4, AcceptOutputsKeeps
  <2>5. CASE WireOne
    BY <1>1, <2>5, WireOneKeeps
  <2>6. CASE FinishPatch
    BY <1>1, <2>6, FinishPatchKeeps
  <2>7. CASE CompactModel
    BY <1>1, <2>7, CompactModelKeeps
  <2>8. CASE UNCHANGED vars
    <3>1. model' = model /\ job' = job /\ meant' = meant
      BY <2>8 DEF vars
    <3> QED
      BY <1>1, <3>1 DEF IInv, Working, PatchIsIn, Nodes
  <2> QED
    BY <1>1, <2>1, <2>2, <2>3, <2>4, <2>5, <2>6, <2>7, <2>8 DEF Next
<1> QED
  BY <1>1, InitIsGood, PTL DEF Spec

(* check_edges never fails (model/graph.rs): at every step of every patch, and of
   compact(), the consumers of each node are the inlets that read it, once each,
   on every model that add_node and add_edge make and with every patch. *)
THEOREM EdgesStayReciprocal == Spec => []EdgesReciprocal
<1>1. IInv => EdgesReciprocal
  BY DEF IInv, EdgesReciprocal
<1> QED
  BY <1>1, Invariance, PTL

(* The outputs of a model stay as many, and its inputs Sources, at every step of the
   patches that are applied, refused ones included, and whenever it is compacted; between
   them the outputs are all different. *)
THEOREM SignatureStays == Spec => []SignatureKept
<1>1. IInv => SignatureKept
  BY DEF IInv, SignatureKept
<1> QED
  BY <1>1, Invariance, PTL

-----------------------------------------------------------------------------
(* Terms.  What a node means is what its operator makes of what its inputs
   mean; that there is such a function is what the absence of loops is for. *)

(* The term of node n, when it is op that reads ins, and t tells the others. *)
TermOf(interface, op, ins, t, n) ==
  IF Contains(interface, n) THEN <<"source", Position(interface, n)>>
  ELSE Apply(op, [j \in DOMAIN ins |-> t[ins[j]]])

NodeTerm(g, t, n) == TermOf(g.interface, g.op[n], g.inputs[n], t, n)

(* What a node reads stands, by high, below where it stands itself, by low. *)
Below(g, high, low) ==
  \A n \in Nodes(g) : \A s \in DOMAIN g.inputs[n] : high[g.inputs[n][s]] < low[n]

Levelled(g) == \E level \in [Nodes(g) -> Nat] : Below(g, level, level)

(* What a node reads are nodes. *)
LEMMA InputsAreNodes ==
  ASSUME NEW g, IsGraph(g)
  PROVE  /\ \A n \in Nodes(g) : g.inputs[n] \in Seq(Nodes(g))
         /\ \A n \in Nodes(g) : \A s \in DOMAIN g.inputs[n] : g.inputs[n][s] \in Nodes(g)
<1> DEFINE N == Nodes(g)
<1>1. g.inputs \in [N -> Seq(N)]
  BY DEF IsGraph
<1>2. ASSUME NEW n \in N PROVE g.inputs[n] \in Seq(N)
  BY <1>1
<1>3. ASSUME NEW n \in N, NEW s \in DOMAIN g.inputs[n] PROVE g.inputs[n][s] \in N
  <2>1. g.inputs[n] \in Seq(N)
    BY <1>2
  <2> HIDE DEF N
  <2> QED
    BY <2>1, LenProperties, ElementOfSeq
<1> QED
  BY <1>2, <1>3

(* The terms of the inputs are all that the term of a node depends on. *)
LEMMA TermDepends ==
  ASSUME NEW interface, NEW op, NEW ins, NEW t, NEW u, NEW n,
         \A j \in DOMAIN ins : t[ins[j]] = u[ins[j]]
  PROVE  TermOf(interface, op, ins, t, n) = TermOf(interface, op, ins, u, n)
<1>1. [j \in DOMAIN ins |-> t[ins[j]]] = [j \in DOMAIN ins |-> u[ins[j]]]
  OBVIOUS
<1> QED
  BY <1>1 DEF TermOf

(* A graph in which, of some nodes, one reads none of them has its nodes on
   levels: that one is put below the others, which have theirs. *)
LEMMA AcyclicIsLevelled ==
  ASSUME NEW g, IsGraph(g), Acyclic(g)
  PROVE  Levelled(g)
<1> DEFINE N == Nodes(g)
           Fine(W, f) == /\ f \in [W -> Nat]
                         /\ \A n \in W : \A s \in DOMAIN g.inputs[n] :
                              g.inputs[n][s] \in W => f[g.inputs[n][s]] < f[n]
           T == {k \in Nat : \A W \in SUBSET N : IsFiniteSet(W) /\ Cardinality(W) = k => \E f : Fine(W, f)}
<1>1. \A n \in N : \A s \in DOMAIN g.inputs[n] : g.inputs[n][s] \in N
  BY InputsAreNodes
<1>2. 0 \in T
  <2> SUFFICES ASSUME NEW W \in SUBSET N, IsFiniteSet(W), Cardinality(W) = 0
               PROVE  \E f : Fine(W, f)
    OBVIOUS
  <2>1. W = {}
    BY FS_EmptySet
  <2> DEFINE f == [n \in W |-> 0]
  <2>2. Fine(W, f)
    BY <2>1
  <2> QED
    BY <2>2
<1>3. ASSUME NEW k \in Nat, k \in T PROVE k + 1 \in T
  <2> SUFFICES ASSUME NEW W \in SUBSET N, IsFiniteSet(W), Cardinality(W) = k + 1
               PROVE  \E f : Fine(W, f)
    OBVIOUS
  <2>1. W # {}
    BY FS_EmptySet
  <2>2. PICK n \in W : ToSet(g.inputs[n]) \cap W = {}
    BY <2>1 DEF Acyclic
  <2> DEFINE V == W \ {n}
  <2>3. IsFiniteSet(V) /\ Cardinality(V) = k
    <3>1. IsFiniteSet(V) /\ Cardinality(V) = Cardinality(W) - 1
      BY FS_RemoveElement
    <3> QED
      BY <3>1
  <2>4. PICK f : Fine(V, f)
    BY <1>3, <2>3
  <2> DEFINE h == [m \in W |-> IF m = n THEN 0 ELSE f[m] + 1]
  <2>5. h \in [W -> Nat]
    BY <2>4
  <2>6. ASSUME NEW m \in W, NEW s \in DOMAIN g.inputs[m], g.inputs[m][s] \in W
        PROVE  h[g.inputs[m][s]] < h[m]
    <3> DEFINE i == g.inputs[m][s]
    <3>1. m # n
      <4> SUFFICES ASSUME m = n PROVE FALSE
        OBVIOUS
      <4>1. g.inputs[n][s] \in ToSet(g.inputs[n])
        BY <2>6 DEF ToSet
      <4> QED
        BY <2>2, <2>6, <4>1
    <3>2. m \in V /\ h[m] = f[m] + 1 /\ f[m] \in Nat
      BY <2>4, <3>1
    <3>3. CASE i = n
      <4>1. h[i] = 0
        BY <2>6, <3>3
      <4> HIDE DEF h, i
      <4> QED
        BY <3>2, <4>1 DEF i
    <3>4. CASE i # n
      <4>1. i \in V
        BY <2>6, <3>4
      <4>2. h[i] = f[i] + 1 /\ f[i] \in Nat
        BY <2>4, <2>6, <3>4, <4>1
      <4>3. f[i] < f[m]
        BY <2>4, <3>2, <4>1
      <4> HIDE DEF h, i
      <4> QED
        BY <3>2, <4>2, <4>3 DEF i
    <3> QED
      BY <3>3, <3>4
  <2>7. Fine(W, h)
    BY <2>5, <2>6
  <2> QED
    BY <2>7
<1>4. Nat \subseteq T
  <2>1. \A k \in Nat : k \in T => k + 1 \in T
    BY <1>3
  <2> HIDE DEF T
  <2> QED
    BY ONLY <1>2, <2>1, SetInduction
<1>5. IsFiniteSet(N)
  <2>1. Len(g.op) \in Nat
    BY DEF IsGraph
  <2> QED
    BY <2>1, FS_Interval DEF Nodes
<1>6. Cardinality(N) \in Nat
  BY <1>5, FS_CardinalityType
<1>7. PICK f : Fine(N, f)
  BY <1>4, <1>5, <1>6
<1>8. Below(g, f, f)
  BY <1>1, <1>7 DEF Below
<1> QED
  BY <1>7, <1>8 DEF Levelled

(* Of some nodes of a graph with levels, one reads none of them. *)
LEMMA Lowest ==
  ASSUME NEW g, IsGraph(g), NEW level \in [Nodes(g) -> Nat], Below(g, level, level),
         NEW W \in SUBSET Nodes(g), W # {}
  PROVE  \E n \in W : \A s \in DOMAIN g.inputs[n] : g.inputs[n][s] \notin W
<1> DEFINE T == {level[n] : n \in W}
<1>1. T \in SUBSET Nat /\ T # {}
  OBVIOUS
<1>2. PICK k \in T : \A j \in T : k <= j
  <2> HIDE DEF T
  <2> QED
    BY <1>1, LeastNatural
<1>3. PICK n \in W : level[n] = k
  OBVIOUS
<1>4. ASSUME NEW s \in DOMAIN g.inputs[n], g.inputs[n][s] \in W PROVE FALSE
  <2>1. level[g.inputs[n][s]] \in T
    BY <1>4
  <2>2. level[g.inputs[n][s]] < level[n]
    BY DEF Below
  <2>3. level[g.inputs[n][s]] \in Nat /\ level[n] \in Nat
    BY <1>4
  <2> QED
    BY <1>2, <1>3, <2>1, <2>2, <2>3
<1> QED
  BY <1>4

(* t tells the terms of nodes C, which read one another. *)
TermsOn(g, C, t) ==
  \A n \in C : /\ ~Contains(g.interface, n) => \A s \in DOMAIN g.inputs[n] : g.inputs[n][s] \in C
               /\ t[n] = NodeTerm(g, t, n)

(* There is one way to tell them. *)
LEMMA TermsAgree ==
  ASSUME NEW g, IsGraph(g), Levelled(g),
         NEW C \in SUBSET Nodes(g), NEW t, TermsOn(g, C, t),
         NEW D \in SUBSET Nodes(g), NEW u, TermsOn(g, D, u)
  PROVE  \A n \in C \cap D : t[n] = u[n]
<1> DEFINE W == {n \in C \cap D : t[n] # u[n]}
<1> SUFFICES ASSUME W # {} PROVE FALSE
  OBVIOUS
<1>1. PICK level \in [Nodes(g) -> Nat] : Below(g, level, level)
  BY DEF Levelled
<1>2. PICK n \in W : \A s \in DOMAIN g.inputs[n] : g.inputs[n][s] \notin W
  BY <1>1, Lowest
<1>3. t[n] = NodeTerm(g, t, n) /\ u[n] = NodeTerm(g, u, n)
  BY DEF TermsOn
<1>4. CASE Contains(g.interface, n)
  BY <1>3, <1>4 DEF NodeTerm, TermOf
<1>5. CASE ~Contains(g.interface, n)
  <2>1. \A s \in DOMAIN g.inputs[n] : g.inputs[n][s] \in C \cap D
    BY <1>5 DEF TermsOn
  <2>2. \A s \in DOMAIN g.inputs[n] : t[g.inputs[n][s]] = u[g.inputs[n][s]]
    BY <1>2, <2>1
  <2>3. NodeTerm(g, t, n) = NodeTerm(g, u, n)
    BY <2>2, TermDepends DEF NodeTerm
  <2> QED
    BY <1>3, <2>3
<1> QED
  BY <1>4, <1>5

(* The function that the definition of Terms names exists. *)
LEMMA TermsExist ==
  ASSUME NEW g, IsGraph(g), Levelled(g)
  PROVE  \E t : t = [n \in Nodes(g) |-> NodeTerm(g, t, n)]
<1> DEFINE N == Nodes(g)
           Tells(C, t, n) == C \in SUBSET N /\ TermsOn(g, C, t) /\ n \in C
           D == {n \in N : \E C, t : Tells(C, t, n)}
           h == [n \in N |-> CHOOSE v : \E C, t : Tells(C, t, n) /\ v = t[n]]
<1>1. ASSUME NEW C \in SUBSET N, NEW t, TermsOn(g, C, t), NEW n \in C
      PROVE  n \in D /\ h[n] = t[n]
  <2>1. Tells(C, t, n)
    BY <1>1
  <2>2. n \in D
    BY <2>1
  <2>3. \E E, u : Tells(E, u, n) /\ h[n] = u[n]
    <3>1. \E v : \E E, u : Tells(E, u, n) /\ v = u[n]
      BY <2>1
    <3>2. h[n] = CHOOSE v : \E E, u : Tells(E, u, n) /\ v = u[n]
      BY <1>1
    <3> HIDE DEF Tells, h
    <3> QED
      BY <3>1, <3>2
  <2>4. PICK E, u : Tells(E, u, n) /\ h[n] = u[n]
    BY <2>3
  <2>5. t[n] = u[n]
    BY <1>1, <2>4, TermsAgree
  <2> QED
    BY <2>2, <2>4, <2>5
<1>2. TermsOn(g, D, h)
  <2> SUFFICES ASSUME NEW n \in D
               PROVE  /\ ~Contains(g.interface, n) => \A s \in DOMAIN g.inputs[n] : g.inputs[n][s] \in D
                      /\ h[n] = NodeTerm(g, h, n)
    BY DEF TermsOn
  <2>1. PICK C, t : Tells(C, t, n)
    OBVIOUS
  <2>2. \A m \in C : m \in D /\ h[m] = t[m]
    <3> SUFFICES ASSUME NEW m \in C PROVE m \in D /\ h[m] = t[m]
      OBVIOUS
    <3>1. C \in SUBSET N /\ TermsOn(g, C, t)
      BY <2>1
    <3> HIDE DEF D, h, Tells, N
    <3> QED
      BY <1>1, <3>1
  <2>3. /\ ~Contains(g.interface, n) => \A s \in DOMAIN g.inputs[n] : g.inputs[n][s] \in C
        /\ t[n] = NodeTerm(g, t, n) /\ n \in C
    BY <2>1 DEF TermsOn
  <2>4. NodeTerm(g, t, n) = NodeTerm(g, h, n)
    <3>1. CASE Contains(g.interface, n)
      BY <3>1 DEF NodeTerm, TermOf
    <3>2. CASE ~Contains(g.interface, n)
      <4>1. \A s \in DOMAIN g.inputs[n] : t[g.inputs[n][s]] = h[g.inputs[n][s]]
        BY <2>2, <2>3, <3>2
      <4> HIDE DEF h
      <4> QED
        BY <4>1, TermDepends DEF NodeTerm
    <3> QED
      BY <3>1, <3>2
  <2> HIDE DEF D, h, Tells
  <2> QED
    BY <2>2, <2>3, <2>4
<1>3. N \subseteq D
  <2> DEFINE W == N \ D
  <2> SUFFICES ASSUME W # {} PROVE FALSE
    OBVIOUS
  <2>1. PICK level \in [N -> Nat] : Below(g, level, level)
    BY DEF Levelled
  <2>2. PICK n \in W : \A s \in DOMAIN g.inputs[n] : g.inputs[n][s] \notin W
    <3> HIDE DEF D
    <3>1. W \in SUBSET N
      OBVIOUS
    <3> HIDE DEF W
    <3> QED
      BY <2>1, <3>1, Lowest
  <2>3. \A s \in DOMAIN g.inputs[n] : g.inputs[n][s] \in D
    BY <2>2, InputsAreNodes
  <2> DEFINE C == D \cup {n}
             e == [m \in C |-> IF m = n THEN NodeTerm(g, h, n) ELSE h[m]]
  <2> HIDE DEF D, h
  <2>4. \A m \in D : e[m] = h[m] /\ m # n
    OBVIOUS
  <2>5. ASSUME NEW m \in C
        PROVE  /\ ~Contains(g.interface, m) => \A s \in DOMAIN g.inputs[m] : g.inputs[m][s] \in D
               /\ e[m] = NodeTerm(g, h, m)
    <3>1. CASE m = n
      BY <2>3, <3>1
    <3>2. CASE m # n
      BY <1>2, <3>2 DEF TermsOn
    <3> QED
      BY <3>1, <3>2
  <2>6. ASSUME NEW m \in C PROVE NodeTerm(g, h, m) = NodeTerm(g, e, m)
    <3> HIDE DEF e, C
    <3>1. CASE Contains(g.interface, m)
      BY <3>1 DEF NodeTerm, TermOf
    <3>2. CASE ~Contains(g.interface, m)
      <4>1. \A s \in DOMAIN g.inputs[m] : h[g.inputs[m][s]] = e[g.inputs[m][s]]
        BY <2>4, <2>5, <3>2
      <4> QED
        BY <4>1, TermDepends DEF NodeTerm
    <3> QED
      BY <3>1, <3>2
  <2>7. TermsOn(g, C, e)
    <3>1. D \subseteq C
      OBVIOUS
    <3> HIDE DEF e, C
    <3> QED
      BY <2>5, <2>6, <3>1 DEF TermsOn
  <2>8. n \in D
    <3>1. C \in SUBSET N /\ n \in C
      BY DEF D
    <3> HIDE DEF e, C, N, W
    <3> QED
      BY <1>1, <2>7, <3>1
  <2> QED
    BY <2>4, <2>8
<1>4. h = [n \in N |-> NodeTerm(g, h, n)]
  <2>1. h = [n \in N |-> h[n]]
    OBVIOUS
  <2>2. \A n \in N : h[n] = NodeTerm(g, h, n)
    BY <1>2, <1>3 DEF TermsOn
  <2> HIDE DEF h
  <2> QED
    BY <2>1, <2>2
<1> QED
  BY <1>4

(* What a node means, its operator makes of what its inputs mean. *)
LEMMA TermsUnfold ==
  ASSUME NEW g, IsGraph(g), Levelled(g)
  PROVE  TermsOn(g, Nodes(g), Terms(g))
<1> DEFINE N == Nodes(g)
           F == CHOOSE f : f = [n \in N |->
                  IF Contains(g.interface, n) THEN <<"source", Position(g.interface, n)>>
                  ELSE Apply(g.op[n], [j \in DOMAIN g.inputs[n] |-> f[g.inputs[n][j]]])]
<1>1. Terms(g) = F
  BY DEF Terms
<1>2. F = CHOOSE f : f = [n \in N |-> NodeTerm(g, f, n)]
  BY DEF NodeTerm, TermOf
<1> HIDE DEF F
<1>3. F = [n \in N |-> NodeTerm(g, F, n)]
  BY <1>2, TermsExist
<1>4. \A n \in N : F[n] = NodeTerm(g, F, n)
  BY <1>3
<1>5. \A n \in N : \A s \in DOMAIN g.inputs[n] : g.inputs[n][s] \in N
  BY InputsAreNodes
<1> QED
  BY <1>1, <1>4, <1>5 DEF TermsOn

(* What tells the terms of the outputs tells the meaning. *)
LEMMA MeaningIs ==
  ASSUME NEW g, IsGraph(g), Levelled(g), NEW C \in SUBSET Nodes(g), NEW t, TermsOn(g, C, t),
         \A k \in DOMAIN g.outputs : g.outputs[k] \in C
  PROVE  Meaning(g) = [k \in DOMAIN g.outputs |-> t[g.outputs[k]]]
<1>1. \A n \in C \cap Nodes(g) : t[n] = Terms(g)[n]
  BY TermsUnfold, TermsAgree
<1>2. \A k \in DOMAIN g.outputs : Terms(g)[g.outputs[k]] = t[g.outputs[k]]
  BY <1>1
<1> QED
  BY <1>2 DEF Meaning

-----------------------------------------------------------------------------
(* What compact() makes means the same. *)

(* The first place of a node depends on its places only. *)
LEMMA SamePosition ==
  ASSUME NEW s, NEW n, NEW t, NEW m, DOMAIN s = DOMAIN t, \A k \in DOMAIN s : s[k] = n <=> t[k] = m
  PROVE  Position(s, n) = Position(t, m)
BY DEF Position

(* A sequence contains what it has in one of its places. *)
LEMMA ContainsIs ==
  ASSUME NEW S, NEW s \in Seq(S), NEW n
  PROVE  Contains(s, n) <=> \E k \in DOMAIN s : s[k] = n
<1>1. DOMAIN s = 1 .. Len(s)
  BY LenProperties
<1> QED
  BY <1>1 DEF Contains

(* The nodes of h are those of the order, each where it is in it: they have the
   same operators, and read the same. *)
Renumbered(g, order, h) ==
  /\ Len(order) \in Nat /\ DOMAIN order = 1 .. Len(order) /\ Nodes(h) = 1 .. Len(order)
  /\ Unique(order)
  /\ \A j \in Nodes(h) :
       /\ order[j] \in Nodes(g)
       /\ Contains(h.interface, j) <=> Contains(g.interface, order[j])
       /\ Position(h.interface, j) = Position(g.interface, order[j])
       /\ Contains(g.interface, order[j]) => h.op[j] = Source /\ h.inputs[j] = <<>>
       /\ ~Contains(g.interface, order[j]) =>
            /\ h.op[j] = g.op[order[j]] /\ DOMAIN h.inputs[j] = DOMAIN g.inputs[order[j]]
            /\ \A s \in DOMAIN h.inputs[j] :
                 /\ h.inputs[j][s] \in Nodes(h) /\ h.inputs[j][s] < j
                 /\ order[h.inputs[j][s]] = g.inputs[order[j]][s]
  /\ DOMAIN h.outputs = DOMAIN g.outputs /\ DOMAIN h.interface = DOMAIN g.interface
  /\ \A k \in DOMAIN g.outputs : h.outputs[k] \in Nodes(h) /\ order[h.outputs[k]] = g.outputs[k]
  /\ \A k \in DOMAIN g.interface : h.interface[k] \in Nodes(h) /\ order[h.interface[k]] = g.interface[k]

(* Nodes that are made again have new numbers, and nothing else is new. *)
LEMMA TranslatedIs ==
  ASSUME NEW g, IsGraph(g), Unique(g.outputs), NEW order, Ordered(g, order)
  PROVE  LET h == Translated(g, order) IN IsGraph(h) /\ Renumbered(g, order, h)
<1> DEFINE h == Translated(g, order)
           n == Len(order)
           N == Nodes(g)
           ints == Mapped(order, g.interface)
           outs == Mapped(order, g.outputs)
<1>1. PICK w : MadeOf(g, order, n, w) /\ h = [w EXCEPT !.interface = ints, !.outputs = outs]
  BY TranslatedIsMade
<1>2. /\ n \in Nat /\ DOMAIN order = 1 .. n /\ Unique(order)
      /\ \A j \in 1 .. n : order[j] \in N
      /\ ToSet(g.outputs) \cup ToSet(g.interface) \subseteq ToSet(order)
  <2>1. order \in Seq(N)
    BY DEF Ordered
  <2> HIDE DEF N
  <2> QED
    BY <2>1, LenProperties, ElementOfSeq DEF Ordered
<1>3. /\ w = [op |-> w.op, inputs |-> w.inputs, succ |-> w.succ,
              interface |-> w.interface, outputs |-> w.outputs]
      /\ Len(w.op) = n
      /\ \A j \in 1 .. n :
           IF Contains(g.interface, order[j])
           THEN w.op[j] = Source /\ w.inputs[j] = <<>>
           ELSE w.op[j] = g.op[order[j]] /\ w.inputs[j] = Mapped(order, g.inputs[order[j]])
  BY <1>1 DEF MadeOf, IsGraph
<1>4. ASSUME NEW s \in Seq(N), NEW k \in Nat, FoundBefore(order, s, k)
      PROVE  /\ Mapped(order, s) \in Seq(1 .. k) /\ DOMAIN Mapped(order, s) = DOMAIN s
             /\ \A t \in DOMAIN s : Mapped(order, s)[t] \in 1 .. k /\ Mapped(order, s)[t] \in 1 .. n
                                       /\ order[Mapped(order, s)[t]] = s[t]
  <2> DEFINE m == Mapped(order, s)
  <2> HIDE DEF n, N
  <2>1. Places(order, s, k, m)
    BY <1>2, <1>4, MappedIsBefore
  <2> HIDE DEF m
  <2>2. /\ DOMAIN s = 1 .. Len(s) /\ DOMAIN m = 1 .. Len(s)
        /\ \A t \in 1 .. Len(s) : m[t] \in 1 .. k
    BY <2>1, LenProperties, ElementOfSeq DEF Places
  <2>3. /\ m \in Seq(1 .. k) /\ DOMAIN m = DOMAIN s
        /\ \A t \in DOMAIN s : m[t] \in 1 .. k /\ m[t] \in 1 .. n /\ order[m[t]] = s[t]
    BY <1>2, <2>1, <2>2 DEF Places
  <2> QED
    BY <2>3 DEF m
<1>5. g.interface \in Seq(N) /\ g.outputs \in Seq(N)
  BY DEF IsGraph
<1>6. /\ FoundBefore(order, g.interface, n) /\ FoundBefore(order, g.outputs, n)
  <2> HIDE DEF n
  <2> QED
    BY <1>2 DEF FoundBefore, ToSet
<1>7. /\ DOMAIN outs = DOMAIN g.outputs /\ DOMAIN ints = DOMAIN g.interface
      /\ \A t \in DOMAIN g.outputs : outs[t] \in 1 .. n /\ order[outs[t]] = g.outputs[t]
      /\ \A t \in DOMAIN g.interface : ints[t] \in 1 .. n /\ order[ints[t]] = g.interface[t]
      /\ ints \in Seq(1 .. n)
  <2> HIDE DEF n, N, ints, outs
  <2> QED
    BY <1>2, <1>4, <1>5, <1>6 DEF ints, outs
<1>8. h.op = w.op /\ h.inputs = w.inputs /\ h.interface = ints /\ h.outputs = outs /\ Nodes(h) = 1 .. n
  <2> HIDE DEF n, ints, outs, h
  <2> QED
    BY <1>1, <1>3 DEF Nodes
<1>9. IsGraph(h)
  BY TranslatedIsGood
<1> HIDE DEF h, ints, outs, n
<1>10. ASSUME NEW j \in 1 .. n
       PROVE  /\ Contains(ints, j) <=> Contains(g.interface, order[j])
              /\ Position(ints, j) = Position(g.interface, order[j])
  <2>1. \A t \in DOMAIN g.interface : ints[t] = j <=> g.interface[t] = order[j]
    BY <1>2, <1>7 DEF Unique
  <2>2. /\ Contains(ints, j) <=> \E k \in DOMAIN ints : ints[k] = j
        /\ Contains(g.interface, order[j]) <=> \E k \in DOMAIN g.interface : g.interface[k] = order[j]
    BY <1>5, <1>7, ContainsIs
  <2>3. DOMAIN ints = DOMAIN g.interface
    BY <1>7
  <2>4. Position(ints, j) = Position(g.interface, order[j])
    BY ONLY <2>1, <2>3, SamePosition
  <2> QED
    BY ONLY <2>1, <2>2, <2>3, <2>4
<1>11. ASSUME NEW j \in 1 .. n, ~Contains(g.interface, order[j])
       PROVE  /\ w.inputs[j] = Mapped(order, g.inputs[order[j]])
              /\ w.op[j] = g.op[order[j]]
              /\ DOMAIN w.inputs[j] = DOMAIN g.inputs[order[j]]
              /\ \A s \in DOMAIN w.inputs[j] : /\ w.inputs[j][s] \in 1 .. n
                                               /\ w.inputs[j][s] < j
                                               /\ order[w.inputs[j][s]] = g.inputs[order[j]][s]
  <2> DEFINE s == g.inputs[order[j]]
  <2>1. w.inputs[j] = Mapped(order, s) /\ w.op[j] = g.op[order[j]]
    BY <1>3, <1>11
  <2>2. s \in Seq(N)
    BY <1>2, InputsAreNodes
  <2>3. FoundBefore(order, s, j - 1) /\ j - 1 \in Nat
    <3>1. j \in DOMAIN order /\ j \in 1 .. Len(order)
      BY <1>2 DEF n
    <3>2. \A t \in DOMAIN s : \E i \in 1 .. (j - 1) : order[i] = s[t]
      BY <1>11, <3>1 DEF Ordered
    <3>3. \A i \in 1 .. (j - 1) : i \in DOMAIN order
      BY <1>2
    <3> QED
      BY <1>2, <3>2, <3>3 DEF FoundBefore
  <2>4. /\ DOMAIN Mapped(order, s) = DOMAIN s
        /\ \A t \in DOMAIN s : /\ Mapped(order, s)[t] \in 1 .. (j - 1)
                               /\ Mapped(order, s)[t] \in 1 .. n
                               /\ order[Mapped(order, s)[t]] = s[t]
    <3> HIDE DEF s, N
    <3> QED
      BY <1>4, <2>2, <2>3
  <2>5. \A i \in 1 .. (j - 1) : i < j
    BY <1>2
  <2> HIDE DEF s, N
  <2> QED
    BY <2>1, <2>4, <2>5 DEF s
<1>12. Renumbered(g, order, h)
  <2>1. Len(order) \in Nat /\ DOMAIN order = 1 .. Len(order) /\ Nodes(h) = 1 .. Len(order) /\ Unique(order)
    BY <1>2, <1>8 DEF n
  <2>2. ASSUME NEW j \in Nodes(h)
        PROVE  /\ order[j] \in Nodes(g)
               /\ Contains(h.interface, j) <=> Contains(g.interface, order[j])
               /\ Position(h.interface, j) = Position(g.interface, order[j])
               /\ Contains(g.interface, order[j]) => h.op[j] = Source /\ h.inputs[j] = <<>>
    BY <1>2, <1>3, <1>8, <1>10
  <2>3. ASSUME NEW j \in Nodes(h), ~Contains(g.interface, order[j])
        PROVE  /\ h.op[j] = g.op[order[j]] /\ DOMAIN h.inputs[j] = DOMAIN g.inputs[order[j]]
               /\ \A s \in DOMAIN h.inputs[j] :
                    /\ h.inputs[j][s] \in Nodes(h) /\ h.inputs[j][s] < j
                    /\ order[h.inputs[j][s]] = g.inputs[order[j]][s]
    BY <1>8, <1>11, <2>3
  <2>4. /\ DOMAIN h.outputs = DOMAIN g.outputs /\ DOMAIN h.interface = DOMAIN g.interface
        /\ \A k \in DOMAIN g.outputs : h.outputs[k] \in Nodes(h) /\ order[h.outputs[k]] = g.outputs[k]
        /\ \A k \in DOMAIN g.interface : h.interface[k] \in Nodes(h) /\ order[h.interface[k]] = g.interface[k]
    BY <1>7, <1>8
  <2> QED
    BY ONLY <2>1, <2>2, <2>3, <2>4 DEF Renumbered
<1> QED
  BY <1>9, <1>12 DEF h

(* In an order, the nodes are translated to others that mean the same. *)
LEMMA TranslatedMeans ==
  ASSUME NEW g, IsGraph(g), Unique(g.outputs), Levelled(g), NEW order, Ordered(g, order)
  PROVE  LET h == Translated(g, order) IN Levelled(h) /\ Meaning(h) = Meaning(g)
<1> DEFINE h == Translated(g, order)
           n == Len(order)
           N == Nodes(g)
           T == Terms(g)
           u == [j \in 1 .. n |-> T[order[j]]]
           level == [j \in 1 .. n |-> j]
<1>1. IsGraph(h) /\ Renumbered(g, order, h)
  BY TranslatedIs
<1> HIDE DEF h
<1>2. /\ n \in Nat /\ DOMAIN order = 1 .. n /\ Nodes(h) = 1 .. n
      /\ \A j \in 1 .. n : order[j] \in N
  BY <1>1 DEF Renumbered
<1> HIDE DEF n
<1>3. ASSUME NEW j \in 1 .. n
      PROVE  /\ Contains(h.interface, j) <=> Contains(g.interface, order[j])
             /\ Position(h.interface, j) = Position(g.interface, order[j])
             /\ Contains(g.interface, order[j]) => h.op[j] = Source /\ h.inputs[j] = <<>>
  BY <1>1, <1>2 DEF Renumbered
<1>4. ASSUME NEW j \in 1 .. n, ~Contains(g.interface, order[j])
      PROVE  /\ h.op[j] = g.op[order[j]] /\ DOMAIN h.inputs[j] = DOMAIN g.inputs[order[j]]
             /\ \A s \in DOMAIN h.inputs[j] :
                  /\ h.inputs[j][s] \in 1 .. n /\ h.inputs[j][s] < j
                  /\ order[h.inputs[j][s]] = g.inputs[order[j]][s]
  BY <1>1, <1>2, <1>4 DEF Renumbered
<1>5. /\ DOMAIN h.outputs = DOMAIN g.outputs
      /\ \A k \in DOMAIN g.outputs : h.outputs[k] \in 1 .. n /\ order[h.outputs[k]] = g.outputs[k]
  BY <1>1, <1>2 DEF Renumbered
<1>6. Levelled(h)
  <2>1. ASSUME NEW j \in 1 .. n, NEW s \in DOMAIN h.inputs[j] PROVE level[h.inputs[j][s]] < level[j]
    <3>1. ~Contains(g.interface, order[j])
      BY <1>3, <2>1
    <3>2. h.inputs[j][s] \in 1 .. n /\ h.inputs[j][s] < j
      BY <1>4, <2>1, <3>1
    <3> QED
      BY <3>2
  <2>2. level \in [Nodes(h) -> Nat]
    BY <1>2
  <2> HIDE DEF level
  <2> QED
    BY <1>2, <2>1, <2>2 DEF Levelled, Below
<1>7. ASSUME NEW j \in 1 .. n
      PROVE  /\ ~Contains(h.interface, j) => \A s \in DOMAIN h.inputs[j] : h.inputs[j][s] \in 1 .. n
             /\ u[j] = NodeTerm(h, u, j)
  <2>1. T[order[j]] = NodeTerm(g, T, order[j])
    BY <1>2, TermsUnfold DEF TermsOn
  <2>2. u[j] = T[order[j]]
    BY <1>7
  <2>3. CASE Contains(g.interface, order[j])
    <3>1. Contains(h.interface, j) /\ Position(h.interface, j) = Position(g.interface, order[j])
      BY <1>3, <2>3
    <3> HIDE DEF u, T
    <3> QED
      BY <2>1, <2>2, <2>3, <3>1 DEF NodeTerm, TermOf
  <2>4. CASE ~Contains(g.interface, order[j])
    <3>1. ~Contains(h.interface, j)
      BY <1>3, <2>4
    <3> DEFINE ins == h.inputs[j]
               old == g.inputs[order[j]]
    <3>2. h.op[j] = g.op[order[j]] /\ DOMAIN ins = DOMAIN old
          /\ \A s \in DOMAIN ins : ins[s] \in 1 .. n /\ order[ins[s]] = old[s]
      BY <1>4, <2>4
    <3>3. \A s \in DOMAIN ins : u[ins[s]] = T[old[s]]
      BY <3>2
    <3>4. [s \in DOMAIN ins |-> u[ins[s]]] = [s \in DOMAIN old |-> T[old[s]]]
      <4> HIDE DEF u, T, ins, old
      <4> QED
        BY <3>2, <3>3
    <3> HIDE DEF u, T
    <3> QED
      BY <2>1, <2>2, <2>4, <3>1, <3>2, <3>4 DEF NodeTerm, TermOf
  <2> QED
    BY <2>3, <2>4
<1>8. Meaning(h) = [k \in DOMAIN h.outputs |-> u[h.outputs[k]]]
  <2> DEFINE C == 1 .. n
  <2>1. TermsOn(h, C, u)
    BY <1>7 DEF TermsOn
  <2>2. \A k \in DOMAIN h.outputs : h.outputs[k] \in C
    BY <1>5
  <2>3. C \in SUBSET Nodes(h)
    BY <1>2
  <2> HIDE DEF u, C
  <2> QED
    BY ONLY <1>1, <1>6, <2>1, <2>2, <2>3, MeaningIs
<1>9. ASSUME NEW k \in DOMAIN g.outputs PROVE u[h.outputs[k]] = T[g.outputs[k]]
  BY <1>5
<1>10. Meaning(h) = Meaning(g)
  <2> HIDE DEF u, T
  <2> QED
    BY <1>5, <1>8, <1>9 DEF Meaning, T
<1> QED
  BY <1>6, <1>10 DEF h

-----------------------------------------------------------------------------
(* A model while a patch is applied.  Its nodes, those of the patch too, have  *)
(* terms t that will not change, and two levels: own, its place among what it *)
(* reads, and seen, the one that its readers are above, which is as high as   *)
(* what will replace it.  The nodes that are kept read only such nodes, or    *)
(* some that will be replaced.                                                 *)

Unshunted(j) == IF j.at = "shunting" THEN j.left ELSE {}

Pending(j) == IF j.at = "shunting" THEN Added(j.patch) ELSE j.left

Waiting(j) == {j.mapping[i] : i \in Pending(j)}

Inputs(j, i) == [s \in DOMAIN j.patch.nodes[i].inputs |-> j.mapping[j.patch.nodes[i].inputs[s]]]

(* The levels of the nodes: own as they are read, seen as they are replaced. *)
Stand(g, j, own, seen) ==
  /\ own \in [Nodes(g) -> Nat] /\ seen \in [Nodes(g) -> Nat]
  /\ \A n \in Nodes(g) : own[n] <= seen[n]
  /\ Below(g, IF j.at = "shunting" THEN seen ELSE own, own)

(* Node n, wired, is what its operator makes of nodes that are kept or will be
   replaced. *)
Told(g, j, t, kept, n) ==
  /\ ~Contains(j.interface, n) => \A s \in DOMAIN g.inputs[n] : g.inputs[n][s] \in kept \cup Unshunted(j)
  /\ t[n] = TermOf(j.interface, g.op[n], g.inputs[n], t, n)

(* Node i of the patch, not wired yet, will be. *)
Unwired(g, j, t, own, kept, i) ==
  LET n == j.mapping[i]
      ins == Inputs(j, i)
  IN /\ n \in kept /\ g.inputs[n] = <<>>
     /\ \A s \in DOMAIN ins : ins[s] \in kept /\ own[ins[s]] < own[n]
     /\ t[n] = TermOf(j.interface, g.op[n], ins, t, n)

(* What will replace node n means the same. *)
Replaceable(j, t, seen, kept, n) ==
  LET by == j.mapping[j.patch.shunt[n]] IN
  by \in kept /\ t[by] = t[n] /\ seen[by] <= seen[n]

(* The terms of the outputs are what the model meant. *)
Shows(g, j, m, t, kept) ==
  /\ \A k \in DOMAIN g.outputs : g.outputs[k] \in kept \cup Unshunted(j)
  /\ m = [k \in DOMAIN g.outputs |-> t[g.outputs[k]]]

(* What holds of the graph g while job j is done, for some terms and levels of the
   nodes and some nodes that are kept. *)
Grafting(g, j, m, t, own, seen, kept) ==
  /\ kept \subseteq Nodes(g) \ j.patch.obliterate
  /\ \A i, k \in Added(j.patch) : j.mapping[i] = j.mapping[k] => i = k
  /\ Pending(j) \subseteq Added(j.patch)
  /\ Stand(g, j, own, seen)
  /\ \A n \in kept \ Waiting(j) : Told(g, j, t, kept, n)
  /\ \A i \in Pending(j) : Unwired(g, j, t, own, kept, i)
  /\ \A n \in Unshunted(j) : Replaceable(j, t, seen, kept, n)
  /\ Shows(g, j, m, t, kept)

(* A sequence with no place is empty. *)
LEMMA NoPlaceIsEmpty ==
  ASSUME NEW S, NEW s \in Seq(S), DOMAIN s = {}
  PROVE  s = <<>>
<1>1. Len(s) \in Nat /\ DOMAIN s = 1 .. Len(s)
  BY LenProperties
<1>2. 1 \notin 1 .. Len(s)
  BY <1>1
<1>3. Len(s) = 0
  BY <1>1, <1>2
<1> QED
  BY <1>3, EmptySeq

(* The terms of what it reads are all that the term of a node depends on. *)
LEMMA TermSame ==
  ASSUME NEW interface, NEW op, NEW ins, NEW others, NEW t, NEW n,
         DOMAIN ins = DOMAIN others, \A s \in DOMAIN ins : t[ins[s]] = t[others[s]]
  PROVE  TermOf(interface, op, ins, t, n) = TermOf(interface, op, others, t, n)
<1>1. [s \in DOMAIN ins |-> t[ins[s]]] = [s \in DOMAIN others |-> t[others[s]]]
  OBVIOUS
<1> QED
  BY <1>1 DEF TermOf

(* Consumers are moved to what means the same, on a level below theirs. *)
LEMMA ShuntGrafts ==
  ASSUME NEW g, IsGraph(g), NEW j, NEW m, NEW t, NEW own, NEW seen, NEW kept,
         Grafting(g, j, m, t, own, seen, kept), j.at = "shunting",
         NEW n \in j.left, NEW by, by = j.mapping[j.patch.shunt[n]],
         NEW h, IsGraph(h), Nodes(h) = Nodes(g), h.op = g.op,
         \A a \in Nodes(g) : Moved(g.inputs[a], n, by, h.inputs[a]),
         h.outputs = [k \in DOMAIN g.outputs |-> IF g.outputs[k] = n THEN by ELSE g.outputs[k]],
         NEW l, l.at = "shunting", l.patch = j.patch, l.mapping = j.mapping,
         l.interface = j.interface, l.left = j.left \ {n}
  PROVE  Grafting(h, l, m, t, own, seen, kept)
<1>1. /\ Pending(l) = Pending(j) /\ Waiting(l) = Waiting(j)
      /\ Unshunted(j) = j.left /\ Unshunted(l) = j.left \ {n}
      /\ \A i : Inputs(l, i) = Inputs(j, i)
  BY DEF Pending, Waiting, Unshunted, Inputs
<1>2. by \in kept /\ t[by] = t[n] /\ seen[by] <= seen[n]
  BY <1>1 DEF Grafting, Replaceable
<1>3. by \in Nodes(g)
  BY <1>2 DEF Grafting
<1>4. Stand(h, l, own, seen)
  <2>1. /\ own \in [Nodes(g) -> Nat] /\ seen \in [Nodes(g) -> Nat]
        /\ \A a \in Nodes(g) : own[a] <= seen[a]
        /\ Below(g, seen, own)
    BY DEF Grafting, Stand
  <2>2. ASSUME NEW a \in Nodes(g), NEW s \in DOMAIN h.inputs[a] PROVE seen[h.inputs[a][s]] < own[a]
    <3>1. s \in DOMAIN g.inputs[a] /\ h.inputs[a][s] = IF g.inputs[a][s] = n THEN by ELSE g.inputs[a][s]
      BY <2>2 DEF Moved
    <3>2. seen[g.inputs[a][s]] < own[a]
      BY <2>1, <3>1 DEF Below
    <3>3. g.inputs[a][s] \in Nodes(g)
      BY <3>1, InputsAreNodes
    <3>4. seen[g.inputs[a][s]] \in Nat /\ seen[by] \in Nat /\ own[a] \in Nat
      BY <1>3, <2>1, <3>3
    <3> QED
      BY <1>2, <3>1, <3>2, <3>4
  <2> QED
    BY <2>1, <2>2 DEF Stand, Below
<1>5. ASSUME NEW a \in kept \ Waiting(l) PROVE Told(h, l, t, kept, a)
  <2>1. a \in Nodes(g) /\ Told(g, j, t, kept, a)
    BY <1>1, <1>5 DEF Grafting
  <2>2. Moved(g.inputs[a], n, by, h.inputs[a])
    BY <2>1
  <2>3. TermOf(j.interface, g.op[a], g.inputs[a], t, a) = TermOf(j.interface, g.op[a], h.inputs[a], t, a)
    <3>1. \A s \in DOMAIN g.inputs[a] : t[g.inputs[a][s]] = t[h.inputs[a][s]]
      BY <1>2, <2>2 DEF Moved
    <3> QED
      BY <2>2, <3>1, TermSame DEF Moved
  <2>4. ASSUME ~Contains(j.interface, a), NEW s \in DOMAIN h.inputs[a]
        PROVE  h.inputs[a][s] \in kept \cup Unshunted(l)
    <3>1. s \in DOMAIN g.inputs[a] /\ h.inputs[a][s] = IF g.inputs[a][s] = n THEN by ELSE g.inputs[a][s]
      BY <2>2, <2>4 DEF Moved
    <3>2. g.inputs[a][s] \in kept \cup Unshunted(j)
      BY <2>1, <2>4, <3>1 DEF Told
    <3> QED
      BY <1>1, <1>2, <3>1, <3>2
  <2> QED
    BY <2>1, <2>3, <2>4 DEF Told
<1>6. ASSUME NEW i \in Pending(l) PROVE Unwired(h, l, t, own, kept, i)
  <2>1. Unwired(g, j, t, own, kept, i)
    BY <1>1, <1>6 DEF Grafting
  <2> DEFINE a == j.mapping[i]
  <2>2. a \in kept /\ a \in Nodes(g) /\ g.inputs[a] = <<>>
    BY <2>1 DEF Unwired, Grafting
  <2>3. h.inputs[a] = <<>>
    <3>1. h.inputs[a] \in Seq(Nodes(g))
      BY <2>2, InputsAreNodes
    <3>2. DOMAIN h.inputs[a] = {}
      BY <2>2 DEF Moved
    <3> HIDE DEF a
    <3> QED
      BY <3>1, <3>2, NoPlaceIsEmpty
  <2> QED
    BY <1>1, <2>1, <2>2, <2>3 DEF Unwired
<1>7. Shows(h, l, m, t, kept)
  <2>1. DOMAIN h.outputs = DOMAIN g.outputs
    OBVIOUS
  <2>2. \A k \in DOMAIN g.outputs : t[h.outputs[k]] = t[g.outputs[k]]
    BY <1>2
  <2>3. m = [k \in DOMAIN g.outputs |-> t[g.outputs[k]]]
    BY DEF Grafting, Shows
  <2>4. m = [k \in DOMAIN h.outputs |-> t[h.outputs[k]]]
    BY <2>1, <2>2, <2>3
  <2>5. \A k \in DOMAIN h.outputs : h.outputs[k] \in kept \cup Unshunted(l)
    BY <1>1, <1>2 DEF Grafting, Shows
  <2> QED
    BY <2>4, <2>5 DEF Shows
<1>8. \A a \in Unshunted(l) : Replaceable(l, t, seen, kept, a)
  BY <1>1 DEF Grafting, Replaceable
<1> QED
  BY <1>1, <1>4, <1>5, <1>6, <1>7, <1>8 DEF Grafting

(* Once all are moved, the new nodes are to be wired. *)
LEMMA AcceptGrafts ==
  ASSUME NEW g, IsGraph(g), NEW j, NEW m, NEW t, NEW own, NEW seen, NEW kept,
         Grafting(g, j, m, t, own, seen, kept), j.at = "shunting", j.left = {},
         NEW l, l.at = "wiring", l.patch = j.patch, l.mapping = j.mapping,
         l.interface = j.interface, l.left = Added(j.patch)
  PROVE  Grafting(g, l, m, t, own, seen, kept)
<1>1. /\ Pending(l) = Pending(j) /\ Waiting(l) = Waiting(j)
      /\ Unshunted(j) = {} /\ Unshunted(l) = {}
      /\ \A i : Inputs(l, i) = Inputs(j, i)
  BY DEF Pending, Waiting, Unshunted, Inputs
<1>2. Stand(g, l, own, seen)
  <2>1. /\ own \in [Nodes(g) -> Nat] /\ seen \in [Nodes(g) -> Nat]
        /\ \A a \in Nodes(g) : own[a] <= seen[a]
        /\ Below(g, seen, own)
    BY DEF Grafting, Stand
  <2>2. ASSUME NEW a \in Nodes(g), NEW s \in DOMAIN g.inputs[a] PROVE own[g.inputs[a][s]] < own[a]
    <3>1. g.inputs[a][s] \in Nodes(g)
      BY InputsAreNodes
    <3>2. seen[g.inputs[a][s]] < own[a]
      BY <2>1 DEF Below
    <3>3. own[g.inputs[a][s]] <= seen[g.inputs[a][s]] /\ seen[g.inputs[a][s]] \in Nat
          /\ own[g.inputs[a][s]] \in Nat /\ own[a] \in Nat
      BY <2>1, <3>1
    <3> QED
      BY <3>2, <3>3
  <2> QED
    BY <2>1, <2>2 DEF Stand, Below
<1>3. \A a \in kept \ Waiting(l) : Told(g, l, t, kept, a)
  BY <1>1 DEF Grafting, Told
<1>4. \A i \in Pending(l) : Unwired(g, l, t, own, kept, i)
  BY <1>1 DEF Grafting, Unwired
<1>5. Shows(g, l, m, t, kept)
  BY <1>1 DEF Grafting, Shows
<1> QED
  BY <1>1, <1>2, <1>3, <1>4, <1>5 DEF Grafting

(* A new node is wired to what it reads. *)
LEMMA WireGrafts ==
  ASSUME NEW g, IsGraph(g), NEW j, NEW m, NEW t, NEW own, NEW seen, NEW kept,
         Grafting(g, j, m, t, own, seen, kept), j.at = "wiring",
         NEW i \in j.left, NEW n, n = j.mapping[i],
         NEW h, IsGraph(h), Nodes(h) = Nodes(g), h.op = g.op, h.outputs = g.outputs,
         h.inputs[n] = Inputs(j, i),
         \A a \in Nodes(g) : a # n => h.inputs[a] = g.inputs[a],
         NEW l, l.at = "wiring", l.patch = j.patch, l.mapping = j.mapping,
         l.interface = j.interface, l.left = j.left \ {i}
  PROVE  Grafting(h, l, m, t, own, seen, kept)
<1>1. /\ Pending(j) = j.left /\ Pending(l) = j.left \ {i}
      /\ Unshunted(j) = {} /\ Unshunted(l) = {}
      /\ \A k : Inputs(l, k) = Inputs(j, k)
  BY DEF Pending, Unshunted, Inputs
<1>2. \A k \in j.left : j.mapping[k] = n => k = i
  BY <1>1 DEF Grafting
<1>3. Waiting(l) = Waiting(j) \ {n}
  BY <1>1, <1>2 DEF Waiting
<1>4. Unwired(g, j, t, own, kept, i)
  BY <1>1 DEF Grafting
<1>5. n \in kept /\ n \in Nodes(g)
  BY <1>4 DEF Unwired, Grafting
<1>6. Stand(h, l, own, seen)
  <2>1. /\ own \in [Nodes(g) -> Nat] /\ seen \in [Nodes(g) -> Nat]
        /\ \A a \in Nodes(g) : own[a] <= seen[a]
        /\ Below(g, own, own)
    BY DEF Grafting, Stand
  <2>2. ASSUME NEW a \in Nodes(g), NEW s \in DOMAIN h.inputs[a] PROVE own[h.inputs[a][s]] < own[a]
    <3>1. CASE a = n
      BY <1>4, <2>2, <3>1 DEF Unwired
    <3>2. CASE a # n
      BY <2>1, <2>2, <3>2 DEF Below
    <3> QED
      BY <3>1, <3>2
  <2> QED
    BY <2>1, <2>2 DEF Stand, Below
<1>7. ASSUME NEW a \in kept \ Waiting(l) PROVE Told(h, l, t, kept, a)
  <2>1. CASE a = n
    <3>1. h.inputs[n] = Inputs(j, i) /\ h.op[n] = g.op[n]
      OBVIOUS
    <3>2. t[n] = TermOf(j.interface, g.op[n], Inputs(j, i), t, n)
          /\ \A s \in DOMAIN Inputs(j, i) : Inputs(j, i)[s] \in kept
      BY <1>4 DEF Unwired
    <3> QED
      BY <1>1, <2>1, <3>1, <3>2 DEF Told
  <2>2. CASE a # n
    <3>1. Told(g, j, t, kept, a) /\ a \in Nodes(g)
      BY <1>3, <1>7, <2>2 DEF Grafting
    <3>2. h.inputs[a] = g.inputs[a]
      BY <2>2, <3>1
    <3> QED
      BY <1>1, <3>1, <3>2 DEF Told
  <2> QED
    BY <2>1, <2>2
<1>8. ASSUME NEW k \in Pending(l) PROVE Unwired(h, l, t, own, kept, k)
  <2>1. Unwired(g, j, t, own, kept, k) /\ j.mapping[k] # n
    BY <1>1, <1>2, <1>8 DEF Grafting
  <2>2. j.mapping[k] \in Nodes(g)
    BY <2>1 DEF Unwired, Grafting
  <2>3. h.inputs[j.mapping[k]] = g.inputs[j.mapping[k]]
    BY <2>1, <2>2
  <2> QED
    BY <1>1, <2>1, <2>3 DEF Unwired
<1>9. Shows(h, l, m, t, kept)
  BY <1>1 DEF Grafting, Shows
<1> QED
  BY <1>1, <1>6, <1>7, <1>8, <1>9 DEF Grafting

(* When all are wired, the model means what its terms tell. *)
LEMMA FinishMeans ==
  ASSUME NEW g, IsGraph(g), NEW j, NEW m, NEW t, NEW own, NEW seen, NEW kept,
         Grafting(g, j, m, t, own, seen, kept), j.at = "wiring", j.left = {},
         NEW h, IsGraph(h), Nodes(h) = Nodes(g), h.inputs = g.inputs, h.outputs = g.outputs,
         h.interface = j.interface,
         \A n \in Nodes(g) : n \notin j.patch.obliterate => h.op[n] = g.op[n]
  PROVE  Levelled(h) /\ Meaning(h) = m
<1>1. Pending(j) = {} /\ Waiting(j) = {} /\ Unshunted(j) = {}
  BY DEF Pending, Waiting, Unshunted
<1>2. Levelled(h)
  <2>1. own \in [Nodes(h) -> Nat] /\ Below(h, own, own)
    BY DEF Grafting, Stand, Below
  <2> QED
    BY <2>1 DEF Levelled
<1>3. kept \in SUBSET Nodes(h) /\ \A n \in kept : h.op[n] = g.op[n]
  BY DEF Grafting
<1>4. TermsOn(h, kept, t)
  <2> SUFFICES ASSUME NEW n \in kept
               PROVE  /\ ~Contains(h.interface, n) => \A s \in DOMAIN h.inputs[n] : h.inputs[n][s] \in kept
                      /\ t[n] = NodeTerm(h, t, n)
    BY DEF TermsOn
  <2>1. Told(g, j, t, kept, n)
    BY <1>1 DEF Grafting
  <2>2. h.op[n] = g.op[n] /\ h.inputs[n] = g.inputs[n] /\ h.interface = j.interface
    BY <1>3
  <2>3. kept \cup Unshunted(j) = kept
    BY <1>1
  <2>4. t[n] = NodeTerm(h, t, n)
    BY ONLY <2>1, <2>2 DEF Told, NodeTerm
  <2>5. ~Contains(j.interface, n) => \A s \in DOMAIN g.inputs[n] : g.inputs[n][s] \in kept
    BY ONLY <2>1, <2>3 DEF Told
  <2> QED
    BY ONLY <2>2, <2>4, <2>5
<1>5. /\ \A k \in DOMAIN h.outputs : h.outputs[k] \in kept
      /\ m = [k \in DOMAIN h.outputs |-> t[h.outputs[k]]]
  BY <1>1 DEF Grafting, Shows
<1>6. Meaning(h) = [k \in DOMAIN h.outputs |-> t[h.outputs[k]]]
  <2>1. IsGraph(h) /\ Levelled(h) /\ kept \in SUBSET Nodes(h) /\ TermsOn(h, kept, t)
        /\ \A k \in DOMAIN h.outputs : h.outputs[k] \in kept
    BY <1>2, <1>3, <1>4, <1>5
  <2> QED
    BY ONLY <2>1, MeaningIs
<1> QED
  BY ONLY <1>2, <1>5, <1>6

-----------------------------------------------------------------------------
(* Patches that are equivalent to what they replace. *)

(* The value of place i of a patch, when the nodes of the model have the values
   of and its own nodes those of at. *)
At(patch, of, at, i) == IF IsTap(patch, i) THEN of[patch.nodes[i].tap] ELSE at[i]

Stays(patch, kept, i) == IsTap(patch, i) => patch.nodes[i].tap \in kept

(* New node i becomes an input of the model. *)
Renews(g, patch, i) ==
  /\ i \in Added(patch)
  /\ patch.nodes[i].op = Source
  /\ Contains(g.interface, patch.nodes[i].replaces)

(* The term of place i of the patch, when term tells the others. *)
PatchTerm(g, patch, term, i) ==
  LET node == patch.nodes[i] IN
  IF IsTap(patch, i) THEN Terms(g)[node.tap]
  ELSE IF Renews(g, patch, i) THEN Terms(g)[node.replaces]
  ELSE Apply(node.op, [s \in DOMAIN node.inputs |-> term[node.inputs[s]]])

(* The patch makes no loop: the nodes of the model and of the patch have levels. *)
LevelsFit(g, patch, own, seen, at) ==
  /\ own \in [Nodes(g) -> Nat] /\ seen \in [Nodes(g) -> Nat] /\ at \in [DOMAIN patch.nodes -> Nat]
  /\ \A n \in Nodes(g) : own[n] <= seen[n]
  /\ Below(g, seen, own)
  /\ \A n \in DOMAIN patch.shunt : At(patch, seen, at, patch.shunt[n]) <= seen[n]
  /\ \A i \in Added(patch) : \A s \in DOMAIN patch.nodes[i].inputs :
       At(patch, own, at, patch.nodes[i].inputs[s]) < at[i]

(* It replaces a node by one that means the same. *)
TermsFit(g, patch, term) ==
  /\ \A i \in DOMAIN patch.nodes : term[i] = PatchTerm(g, patch, term, i)
  /\ \A n \in DOMAIN patch.shunt : term[patch.shunt[n]] = Terms(g)[n]

(* What it obliterates, and the inputs of the model that it replaces, are read by
   no node that is kept, once those it shunts are replaced; what replaces them
   and what its nodes read is kept. *)
NodesFit(g, patch, kept) ==
  /\ kept \subseteq Nodes(g) \ patch.obliterate
  /\ \A n \in kept : ~Contains(g.interface, n) =>
       \A s \in DOMAIN g.inputs[n] : g.inputs[n][s] \in kept \cup DOMAIN patch.shunt
  /\ \A k \in DOMAIN g.outputs : g.outputs[k] \in kept \cup DOMAIN patch.shunt
  /\ \A n \in DOMAIN patch.shunt : Stays(patch, kept, patch.shunt[n])
  /\ \A i \in Added(patch) : \A s \in DOMAIN patch.nodes[i].inputs :
       Stays(patch, kept, patch.nodes[i].inputs[s])
  /\ \A i \in Added(patch) : Renews(g, patch, i) => patch.nodes[i].replaces \notin kept
  /\ \A i, k \in Added(patch) :
       Renews(g, patch, i) /\ Renews(g, patch, k) /\ patch.nodes[i].replaces = patch.nodes[k].replaces => i = k

Equivalent(patch, g) ==
  /\ \E own, seen, at : LevelsFit(g, patch, own, seen, at)
  /\ \E term : TermsFit(g, patch, term)
  /\ \E kept : NodesFit(g, patch, kept)

(* Where the nodes of a patch are in h, which has those of g and them. *)
Sited(g, patch, h, mapping) ==
  /\ \A i \in DOMAIN patch.nodes :
       /\ mapping[i] \in Nodes(h)
       /\ IsTap(patch, i) => mapping[i] = patch.nodes[i].tap
       /\ ~IsTap(patch, i) => mapping[i] \notin Nodes(g) /\ h.op[mapping[i]] = patch.nodes[i].op
  /\ \A i, k \in Added(patch) : mapping[i] = mapping[k] => i = k

(* The inputs of the model to be: those that are replaced, by what replaces them. *)
Faces(g, patch, h, mapping, new) ==
  /\ new \in Seq(Nodes(h)) /\ DOMAIN new = DOMAIN g.interface
  /\ \A k \in DOMAIN g.interface :
       \/ /\ new[k] = g.interface[k]
          /\ \A i \in Added(patch) : ~(Renews(g, patch, i) /\ patch.nodes[i].replaces = g.interface[k])
       \/ \E i \in Added(patch) : /\ Renews(g, patch, i) /\ patch.nodes[i].replaces = g.interface[k]
                                  /\ new[k] = mapping[i]

(* NewInterface makes it so. *)
LEMMA InterfaceFaces ==
  ASSUME IsGraph(model), NEW patch, NEW h, Nodes(model) \subseteq Nodes(h),
         Sited(model, patch, h, Mapping(patch))
  PROVE  Faces(model, patch, h, Mapping(patch), NewInterface(patch))
<1> DEFINE N == Nodes(model)
           new == NewInterface(patch)
           mapping == Mapping(patch)
           L == Len(model.interface)
           By(k) == {i \in Added(patch) : patch.nodes[i].op = Source
                                          /\ patch.nodes[i].replaces = model.interface[k]}
<1>1. model.interface \in Seq(N)
  BY DEF IsGraph
<1>2. L \in Nat /\ DOMAIN model.interface = 1 .. L /\ \A k \in 1 .. L : model.interface[k] \in N
  BY <1>1, LenProperties, ElementOfSeq
<1>3. ASSUME NEW k \in 1 .. L
      PROVE  new[k] = IF By(k) = {} THEN model.interface[k] ELSE mapping[CHOOSE i \in By(k) : TRUE]
  BY <1>2 DEF NewInterface
<1>4. ASSUME NEW k \in 1 .. L, NEW i \in Added(patch)
      PROVE  i \in By(k) <=> Renews(model, patch, i) /\ patch.nodes[i].replaces = model.interface[k]
  <2>1. Contains(model.interface, model.interface[k])
    BY <1>2 DEF Contains
  <2> QED
    BY <2>1 DEF Renews
<1>5. \A i \in Added(patch) : mapping[i] \in Nodes(h)
  BY DEF Sited, Added
<1>6. ASSUME NEW k \in 1 .. L
      PROVE  /\ new[k] \in Nodes(h)
             /\ \/ /\ new[k] = model.interface[k]
                   /\ \A i \in Added(patch) :
                        ~(Renews(model, patch, i) /\ patch.nodes[i].replaces = model.interface[k])
                \/ \E i \in Added(patch) :
                     /\ Renews(model, patch, i) /\ patch.nodes[i].replaces = model.interface[k]
                     /\ new[k] = mapping[i]
  <2>1. CASE By(k) = {}
    <3>1. new[k] = model.interface[k]
      BY <1>3, <2>1
    <3> HIDE DEF new, By
    <3> QED
      BY <1>2, <1>4, <2>1, <3>1
  <2>2. CASE By(k) # {}
    <3> DEFINE i == CHOOSE i \in By(k) : TRUE
    <3>1. i \in By(k)
      BY <2>2
    <3>2. new[k] = mapping[i]
      BY <1>3, <2>2
    <3>3. i \in Added(patch)
      BY <3>1
    <3> HIDE DEF new, By, i, mapping
    <3> QED
      BY <1>4, <1>5, <3>1, <3>2, <3>3
  <2> QED
    BY <2>1, <2>2
<1>7. new = [k \in 1 .. L |-> new[k]]
  BY <1>2 DEF NewInterface
<1> HIDE DEF new, mapping, L
<1>8. new \in [1 .. L -> Nodes(h)]
  BY <1>6, <1>7
<1>9. new \in Seq(Nodes(h)) /\ DOMAIN new = 1 .. L
  BY <1>2, <1>8, FunctionIsSeq
<1>10. Faces(model, patch, h, mapping, new)
  BY <1>2, <1>6, <1>9 DEF Faces
<1> QED
  BY <1>10 DEF new, mapping

(* A node that is kept is the input that it was; a new one, the input that it
   replaces. *)
LEMMA FacesSame ==
  ASSUME NEW g, IsGraph(g), NEW patch, NEW h, NEW mapping, NEW new,
         Sited(g, patch, h, mapping), Faces(g, patch, h, mapping, new),
         NEW kept, NodesFit(g, patch, kept)
  PROVE  /\ \A n \in kept : /\ Contains(new, n) <=> Contains(g.interface, n)
                            /\ Position(new, n) = Position(g.interface, n)
         /\ \A i \in Added(patch) :
              /\ Contains(new, mapping[i]) <=> Renews(g, patch, i)
              /\ Renews(g, patch, i) => Position(new, mapping[i]) = Position(g.interface, patch.nodes[i].replaces)
<1>0. g.interface \in Seq(Nodes(g)) /\ new \in Seq(Nodes(h)) /\ DOMAIN new = DOMAIN g.interface
  BY DEF Faces, IsGraph
<1>1. \A n : /\ Contains(g.interface, n) <=> \E k \in DOMAIN g.interface : g.interface[k] = n
             /\ Contains(new, n) <=> \E k \in DOMAIN g.interface : new[k] = n
  BY <1>0, ContainsIs
<1>2. \A k \in DOMAIN g.interface : g.interface[k] \in Nodes(g)
  BY <1>0, LenProperties, ElementOfSeq
<1>3. \A i \in Added(patch) : mapping[i] \notin Nodes(g)
  BY DEF Sited, Added
<1>4. ASSUME NEW n \in kept
      PROVE  /\ Contains(new, n) <=> Contains(g.interface, n)
             /\ Position(new, n) = Position(g.interface, n)
  <2>1. n \in Nodes(g) /\ \A i \in Added(patch) : Renews(g, patch, i) => patch.nodes[i].replaces # n
    BY DEF NodesFit
  <2>2. \A k \in DOMAIN g.interface : new[k] = n <=> g.interface[k] = n
    BY <1>3, <2>1 DEF Faces
  <2>3. Position(new, n) = Position(g.interface, n)
    BY ONLY <1>0, <2>2, SamePosition
  <2> QED
    BY <1>1, <2>2, <2>3
<1>5. ASSUME NEW i \in Added(patch), Renews(g, patch, i)
      PROVE  /\ Contains(new, mapping[i])
             /\ Position(new, mapping[i]) = Position(g.interface, patch.nodes[i].replaces)
  <2> DEFINE r == patch.nodes[i].replaces
  <2>1. \A k \in Added(patch) : /\ mapping[k] = mapping[i] => k = i
                                /\ Renews(g, patch, k) /\ patch.nodes[k].replaces = r => k = i
    BY <1>5 DEF Sited, NodesFit
  <2>2. \A k \in DOMAIN g.interface : new[k] = mapping[i] <=> g.interface[k] = r
    <3> SUFFICES ASSUME NEW k \in DOMAIN g.interface PROVE new[k] = mapping[i] <=> g.interface[k] = r
      OBVIOUS
    <3>1. \/ /\ new[k] = g.interface[k]
             /\ \A a \in Added(patch) : ~(Renews(g, patch, a) /\ patch.nodes[a].replaces = g.interface[k])
          \/ \E a \in Added(patch) : /\ Renews(g, patch, a) /\ patch.nodes[a].replaces = g.interface[k]
                                     /\ new[k] = mapping[a]
      BY DEF Faces
    <3>2. CASE /\ new[k] = g.interface[k]
               /\ \A a \in Added(patch) : ~(Renews(g, patch, a) /\ patch.nodes[a].replaces = g.interface[k])
      BY <1>2, <1>3, <1>5, <3>2
    <3>3. CASE \E a \in Added(patch) : /\ Renews(g, patch, a) /\ patch.nodes[a].replaces = g.interface[k]
                                       /\ new[k] = mapping[a]
      <4>1. PICK a \in Added(patch) : /\ Renews(g, patch, a) /\ patch.nodes[a].replaces = g.interface[k]
                                      /\ new[k] = mapping[a]
        BY <3>3
      <4> QED
        BY <2>1, <4>1
    <3> QED
      BY <3>1, <3>2, <3>3
  <2>3. Position(new, mapping[i]) = Position(g.interface, r)
    BY ONLY <1>0, <2>2, SamePosition
  <2>4. Contains(g.interface, r)
    BY <1>5 DEF Renews
  <2> QED
    BY <1>1, <2>2, <2>3, <2>4
<1>6. ASSUME NEW i \in Added(patch), Contains(new, mapping[i]) PROVE Renews(g, patch, i)
  <2>1. PICK k \in DOMAIN g.interface : new[k] = mapping[i]
    BY <1>1, <1>6
  <2>2. PICK a \in Added(patch) : Renews(g, patch, a) /\ new[k] = mapping[a]
    BY <1>2, <1>3, <2>1 DEF Faces
  <2>3. a = i
    BY <2>1, <2>2 DEF Sited
  <2> QED
    BY <2>2, <2>3
<1> QED
  BY <1>4, <1>5, <1>6

(* The nodes of h have the values old when they are those of g, and those of the
   nodes of the patch when they are where these are. *)
Spread(g, patch, h, mapping, old, new) ==
  [x \in Nodes(h) |->
    IF x \in Nodes(g) THEN old[x]
    ELSE IF \E i \in Added(patch) : mapping[i] = x
         THEN new[CHOOSE i \in Added(patch) : mapping[i] = x] ELSE 0]

(* They have these values. *)
LEMMA SpreadIs ==
  ASSUME NEW g, NEW patch, NEW h, NEW mapping, NEW old, NEW new,
         Fits(patch, g), Nodes(g) \subseteq Nodes(h), Sited(g, patch, h, mapping)
  PROVE  LET f == Spread(g, patch, h, mapping, old, new) IN
         /\ \A n \in Nodes(g) : f[n] = old[n]
         /\ \A i \in DOMAIN patch.nodes : f[mapping[i]] = At(patch, old, new, i)
         /\ old \in [Nodes(g) -> Nat] /\ new \in [DOMAIN patch.nodes -> Nat] => f \in [Nodes(h) -> Nat]
<1> DEFINE f == Spread(g, patch, h, mapping, old, new)
           A == Added(patch)
           By(x) == CHOOSE i \in A : mapping[i] = x
<1>1. \A x \in Nodes(h) :
        f[x] = IF x \in Nodes(g) THEN old[x]
               ELSE IF \E i \in A : mapping[i] = x THEN new[By(x)] ELSE 0
  BY DEF Spread
<1>2. \A n \in Nodes(g) : f[n] = old[n]
  BY <1>1
<1>3. ASSUME NEW i \in DOMAIN patch.nodes PROVE f[mapping[i]] = At(patch, old, new, i)
  <2>1. CASE IsTap(patch, i)
    <3>1. mapping[i] = patch.nodes[i].tap /\ patch.nodes[i].tap \in Nodes(g)
      BY <2>1 DEF Sited, Fits
    <3> QED
      BY <1>2, <2>1, <3>1 DEF At
  <2>2. CASE ~IsTap(patch, i)
    <3>1. i \in A /\ mapping[i] \in Nodes(h) /\ mapping[i] \notin Nodes(g)
      BY <2>2 DEF Sited, Added
    <3> DEFINE k == By(mapping[i])
    <3>2. k \in A /\ mapping[k] = mapping[i]
      BY <3>1
    <3>3. k = i
      BY <3>1, <3>2 DEF Sited
    <3>4. f[mapping[i]] = new[k]
      BY <1>1, <3>1
    <3> QED
      BY <2>2, <3>3, <3>4 DEF At
  <2> QED
    BY <2>1, <2>2
<1>4. ASSUME old \in [Nodes(g) -> Nat], new \in [DOMAIN patch.nodes -> Nat] PROVE f \in [Nodes(h) -> Nat]
  <2>1. f = [x \in Nodes(h) |-> f[x]]
    BY DEF Spread
  <2>2. ASSUME NEW x \in Nodes(h) PROVE f[x] \in Nat
    <3>1. CASE x \in Nodes(g)
      BY <1>2, <1>4, <3>1
    <3>2. CASE x \notin Nodes(g) /\ \E i \in A : mapping[i] = x
      <4>1. By(x) \in A
        BY <3>2
      <4>2. By(x) \in DOMAIN patch.nodes
        BY <4>1 DEF Added
      <4>3. f[x] = new[By(x)]
        BY <1>1, <3>2
      <4> QED
        BY <1>4, <4>2, <4>3
    <3>3. CASE x \notin Nodes(g) /\ ~\E i \in A : mapping[i] = x
      BY <1>1, <3>3
    <3> QED
      BY <3>1, <3>2, <3>3
  <2> HIDE DEF f
  <2> QED
    BY <2>1, <2>2
<1> HIDE DEF f
<1> QED
  BY <1>2, <1>3, <1>4 DEF f

(* The nodes that a patch has added. *)
Sown(patch, mapping) == {mapping[i] : i \in Added(patch)}

(* When its nodes are added, a patch that is equivalent is ready to be grafted. *)
LEMMA StartGrafts ==
  ASSUME NEW g, IsGraph(g), Levelled(g), NEW patch, Fits(patch, g), Equivalent(patch, g),
         NEW old, NodesFit(g, patch, old),
         NEW h, IsGraph(h), Nodes(g) \subseteq Nodes(h), h.outputs = g.outputs,
         \A n \in Nodes(g) : h.op[n] = g.op[n],
         \A n \in Nodes(h) : h.inputs[n] = IF n \in Nodes(g) THEN g.inputs[n] ELSE <<>>,
         NEW j, j.at = "shunting", j.patch = patch, j.left = DOMAIN patch.shunt,
         Sited(g, patch, h, j.mapping), Faces(g, patch, h, j.mapping, j.interface)
  PROVE  \E t, own, seen :
           Grafting(h, j, Meaning(g), t, own, seen, old \cup Sown(patch, j.mapping))
<1> DEFINE N == Nodes(g)
           A == Added(patch)
           P == DOMAIN patch.nodes
           T == Terms(g)
<1>1. PICK low, high, at : LevelsFit(g, patch, low, high, at)
  BY DEF Equivalent
<1>2. PICK term : TermsFit(g, patch, term)
  BY DEF Equivalent
<1>3. NodesFit(g, patch, old)
  OBVIOUS
<1> DEFINE t == Spread(g, patch, h, j.mapping, T, term)
           own == Spread(g, patch, h, j.mapping, low, at)
           seen == Spread(g, patch, h, j.mapping, high, at)
           kept == old \cup {j.mapping[i] : i \in A}
<1>4. /\ \A n \in N : own[n] = low[n]
      /\ \A i \in P : own[j.mapping[i]] = At(patch, low, at, i)
      /\ own \in [Nodes(h) -> Nat]
  <2>1. low \in [N -> Nat] /\ at \in [P -> Nat]
    BY <1>1 DEF LevelsFit
  <2> HIDE DEF N, P
  <2> QED
    BY <2>1, SpreadIs DEF N, P
<1>5. /\ \A n \in N : seen[n] = high[n]
      /\ \A i \in P : seen[j.mapping[i]] = At(patch, high, at, i)
      /\ seen \in [Nodes(h) -> Nat]
  <2>1. high \in [N -> Nat] /\ at \in [P -> Nat]
    BY <1>1 DEF LevelsFit
  <2> HIDE DEF N, P
  <2> QED
    BY <2>1, SpreadIs DEF N, P
<1>6. \A n \in N : t[n] = T[n]
  BY SpreadIs
<1>7. \A i \in P : t[j.mapping[i]] = term[i]
  <2> SUFFICES ASSUME NEW i \in P PROVE t[j.mapping[i]] = term[i]
    OBVIOUS
  <2>1. t[j.mapping[i]] = At(patch, T, term, i)
    BY SpreadIs
  <2>2. IsTap(patch, i) => term[i] = T[patch.nodes[i].tap]
    BY <1>2 DEF TermsFit, PatchTerm
  <2> HIDE DEF t
  <2> QED
    BY <2>1, <2>2 DEF At
<1> HIDE DEF t, own, seen
<1>8. /\ Pending(j) = A /\ Waiting(j) = {j.mapping[i] : i \in A} /\ Unshunted(j) = DOMAIN patch.shunt
      /\ \A i : Inputs(j, i) = [s \in DOMAIN patch.nodes[i].inputs |-> j.mapping[patch.nodes[i].inputs[s]]]
  BY DEF Pending, Waiting, Unshunted, Inputs
<1>9. /\ \A i \in A : i \in P /\ j.mapping[i] \in Nodes(h) /\ j.mapping[i] \notin N
                      /\ h.op[j.mapping[i]] = patch.nodes[i].op /\ ~IsTap(patch, i)
      /\ \A i \in P : IsTap(patch, i) => j.mapping[i] = patch.nodes[i].tap
      /\ \A i \in P : Stays(patch, old, i) => j.mapping[i] \in kept
  BY DEF Sited, Added, Stays
<1>10. old \subseteq N \ patch.obliterate /\ patch.obliterate \subseteq N
  BY <1>3 DEF NodesFit, Fits
<1>11. \A i \in P : \A s \in DOMAIN patch.nodes[i].inputs : patch.nodes[i].inputs[s] \in P
  <2> SUFFICES ASSUME NEW i \in P, NEW s \in DOMAIN patch.nodes[i].inputs
               PROVE  patch.nodes[i].inputs[s] \in P
    OBVIOUS
  <2>1. patch.nodes[i].inputs \in Seq(P)
    BY DEF Fits
  <2> HIDE DEF P
  <2> QED
    BY <2>1, LenProperties, ElementOfSeq
<1>12. kept \subseteq Nodes(h) \ patch.obliterate
  BY <1>9, <1>10
<1>13. Stand(h, j, own, seen)
  <2>1. \A n \in Nodes(h) : own[n] <= seen[n]
    <3> SUFFICES ASSUME NEW n \in Nodes(h) PROVE own[n] <= seen[n]
      OBVIOUS
    <3>1. CASE n \in N
      BY <1>1, <1>4, <1>5, <3>1 DEF LevelsFit
    <3>2. CASE n \notin N /\ \E i \in A : j.mapping[i] = n
      <4>1. PICK i \in A : j.mapping[i] = n
        BY <3>2
      <4>2. own[n] = At(patch, low, at, i) /\ seen[n] = At(patch, high, at, i)
        BY <1>4, <1>5, <1>9, <4>1
      <4>3. own[n] = at[i] /\ seen[n] = at[i] /\ at[i] \in Nat
        BY <1>1, <1>9, <4>2 DEF At, LevelsFit
      <4> QED
        BY <4>3
    <3>3. CASE n \notin N /\ ~\E i \in A : j.mapping[i] = n
      <4>1. own[n] = 0 /\ seen[n] = 0
        BY <3>3 DEF own, seen, Spread
      <4> QED
        BY <4>1
    <3> QED
      BY <3>1, <3>2, <3>3
  <2>2. Below(h, seen, own)
    <3> SUFFICES ASSUME NEW n \in Nodes(h), NEW s \in DOMAIN h.inputs[n]
                 PROVE  seen[h.inputs[n][s]] < own[n]
      BY DEF Below
    <3>1. n \in N /\ h.inputs[n] = g.inputs[n]
      OBVIOUS
    <3>2. g.inputs[n][s] \in N
      BY <3>1, InputsAreNodes
    <3>3. high[g.inputs[n][s]] < low[n]
      BY <1>1, <3>1 DEF LevelsFit, Below
    <3> QED
      BY <1>4, <1>5, <3>1, <3>2, <3>3
  <2> QED
    BY <1>4, <1>5, <2>1, <2>2 DEF Stand
<1>14. /\ \A n \in old : /\ Contains(j.interface, n) <=> Contains(g.interface, n)
                         /\ Position(j.interface, n) = Position(g.interface, n)
       /\ \A i \in A : /\ Contains(j.interface, j.mapping[i]) <=> Renews(g, patch, i)
                       /\ Renews(g, patch, i) =>
                            Position(j.interface, j.mapping[i]) = Position(g.interface, patch.nodes[i].replaces)
  BY <1>3, FacesSame
<1>15. TermsOn(g, N, T)
  BY TermsUnfold
<1>16. ASSUME NEW n \in kept \ Waiting(j) PROVE Told(h, j, t, kept, n)
  <2>1. n \in old /\ n \in N
    BY <1>8, <1>10
  <2>2. h.op[n] = g.op[n] /\ h.inputs[n] = g.inputs[n]
    BY <2>1
  <2>3. ASSUME ~Contains(j.interface, n), NEW s \in DOMAIN g.inputs[n]
        PROVE  g.inputs[n][s] \in kept \cup Unshunted(j)
    BY <1>3, <1>8, <1>14, <2>1, <2>3 DEF NodesFit
  <2>4. t[n] = TermOf(j.interface, g.op[n], g.inputs[n], t, n)
    <3>1. t[n] = NodeTerm(g, T, n)
      BY <1>6, <1>15, <2>1 DEF TermsOn
    <3>2. \A s \in DOMAIN g.inputs[n] : T[g.inputs[n][s]] = t[g.inputs[n][s]]
      BY <1>6, <2>1, InputsAreNodes
    <3>3. NodeTerm(g, T, n) = TermOf(g.interface, g.op[n], g.inputs[n], t, n)
      BY <3>2, TermDepends DEF NodeTerm
    <3> QED
      BY <1>14, <2>1, <3>1, <3>3 DEF TermOf
  <2> QED
    BY <2>2, <2>3, <2>4 DEF Told
<1>17. ASSUME NEW i \in Pending(j) PROVE Unwired(h, j, t, own, kept, i)
  <2> DEFINE n == j.mapping[i]
             ins == Inputs(j, i)
             own1 == patch.nodes[i].inputs
  <2>1. i \in A /\ i \in P /\ n \in Nodes(h) /\ n \notin N /\ n \in kept
    BY <1>8, <1>9
  <2>2. h.inputs[n] = <<>>
    BY <2>1
  <2>3. DOMAIN ins = DOMAIN own1 /\ \A s \in DOMAIN own1 : ins[s] = j.mapping[own1[s]] /\ own1[s] \in P
    BY <1>8, <1>11, <2>1
  <2>4. ASSUME NEW s \in DOMAIN ins PROVE ins[s] \in kept /\ own[ins[s]] < own[n]
    <3>1. Stays(patch, old, own1[s]) /\ At(patch, low, at, own1[s]) < at[i]
      BY <1>1, <1>3, <2>1, <2>3 DEF NodesFit, LevelsFit
    <3>2. own[n] = at[i]
      BY <1>4, <1>9, <2>1 DEF At
    <3> HIDE DEF ins, own1, kept
    <3> QED
      BY <1>4, <1>9, <2>3, <3>1, <3>2
  <2>5. t[n] = TermOf(j.interface, h.op[n], ins, t, n)
    <3>1. t[n] = PatchTerm(g, patch, term, i)
      BY <1>2, <1>7, <2>1 DEF TermsFit
    <3>2. ~IsTap(patch, i) /\ h.op[n] = patch.nodes[i].op
      BY <1>9, <2>1
    <3>3. CASE Renews(g, patch, i)
      <4> DEFINE r == patch.nodes[i].replaces
      <4>1. Contains(g.interface, r) /\ r \in N
        <5>1. Contains(g.interface, r)
          BY <3>3 DEF Renews
        <5>2. g.interface \in Seq(N)
          BY DEF IsGraph
        <5>3. PICK k \in DOMAIN g.interface : g.interface[k] = r
          BY <5>1, <5>2, ContainsIs
        <5> HIDE DEF N, r
        <5> QED
          BY <5>1, <5>2, <5>3, LenProperties, ElementOfSeq
      <4>2. T[r] = <<"source", Position(g.interface, r)>>
        BY <1>15, <4>1 DEF TermsOn, NodeTerm, TermOf
      <4>3. t[n] = T[r]
        BY <3>1, <3>2, <3>3 DEF PatchTerm
      <4>4. Contains(j.interface, n) /\ Position(j.interface, n) = Position(g.interface, r)
        BY <1>14, <2>1, <3>3
      <4> HIDE DEF n, r, T
      <4> QED
        BY <4>2, <4>3, <4>4 DEF TermOf
    <3>4. CASE ~Renews(g, patch, i)
      <4>1. t[n] = Apply(patch.nodes[i].op, [s \in DOMAIN own1 |-> term[own1[s]]])
        BY <3>1, <3>2, <3>4 DEF PatchTerm
      <4>2. ~Contains(j.interface, n)
        BY <1>14, <2>1, <3>4
      <4>3. \A s \in DOMAIN own1 : term[own1[s]] = t[ins[s]]
        BY <1>7, <2>3
      <4>4. [s \in DOMAIN own1 |-> term[own1[s]]] = [s \in DOMAIN ins |-> t[ins[s]]]
        <5> HIDE DEF own1, ins
        <5> QED
          BY <2>3, <4>3
      <4> HIDE DEF n, own1, ins
      <4> QED
        BY <3>2, <4>1, <4>2, <4>4 DEF TermOf
    <3> QED
      BY <3>3, <3>4
  <2> HIDE DEF ins, kept
  <2> QED
    BY <2>1, <2>2, <2>4, <2>5 DEF Unwired, ins
<1>18. ASSUME NEW n \in Unshunted(j) PROVE Replaceable(j, t, seen, kept, n)
  <2> DEFINE p == patch.shunt[n]
             by == j.mapping[p]
  <2>1. n \in DOMAIN patch.shunt /\ n \in N /\ p \in P
    BY <1>8 DEF Fits
  <2>2. Stays(patch, old, p) /\ term[p] = T[n] /\ At(patch, high, at, p) <= high[n]
    BY <1>1, <1>2, <1>3, <2>1 DEF NodesFit, TermsFit, LevelsFit
  <2>3. by \in kept
    BY <1>9, <2>1, <2>2
  <2>4. t[by] = t[n]
    BY <1>6, <1>7, <2>1, <2>2
  <2>5. seen[by] <= seen[n]
    BY <1>5, <2>1, <2>2
  <2> HIDE DEF kept
  <2> QED
    BY <2>3, <2>4, <2>5 DEF Replaceable
<1>19. Shows(h, j, Meaning(g), t, kept)
  <2>1. \A k \in DOMAIN g.outputs : g.outputs[k] \in N
    <3>1. g.outputs \in Seq(N)
      BY DEF IsGraph
    <3> HIDE DEF N
    <3> QED
      BY <3>1, LenProperties, ElementOfSeq
  <2>2. \A k \in DOMAIN g.outputs : t[g.outputs[k]] = T[g.outputs[k]]
    BY <1>6, <2>1
  <2>3. Meaning(g) = [k \in DOMAIN h.outputs |-> t[h.outputs[k]]]
    BY <2>2 DEF Meaning
  <2>4. \A k \in DOMAIN h.outputs : h.outputs[k] \in kept \cup Unshunted(j)
    BY <1>3, <1>8 DEF NodesFit
  <2> QED
    BY <2>3, <2>4 DEF Shows
<1>20. \A i, k \in A : j.mapping[i] = j.mapping[k] => i = k
  BY DEF Sited
<1> HIDE DEF kept
<1>21. Grafting(h, j, Meaning(g), t, own, seen, kept)
  BY <1>8, <1>12, <1>13, <1>16, <1>17, <1>18, <1>19, <1>20 DEF Grafting
<1> QED
  BY <1>21 DEF kept, Sown

-----------------------------------------------------------------------------
(* The meaning of the model. *)

(* Between two patches the graph has no loop and means what it did; while one is
   applied, its nodes have the terms they will have. *)
TInv ==
  /\ IInv
  /\ job.at = "idle" => Levelled(model) /\ Meaning(model) = meant
  /\ job.at = "failed" => ~Unique(meant)
  /\ Working => \E t, own, seen, kept : Grafting(model, job, meant, t, own, seen, kept)

(* A graph that a patch may be made of. *)
Patchable(g) ==
  /\ IsGraph(g) /\ Reciprocal(g) /\ Levelled(g) /\ Unique(g.outputs)
  /\ \A k \in DOMAIN g.interface : g.op[g.interface[k]] = Source

(* Every patch made of a graph is equivalent to what it replaces. *)
PatchesAreEquivalent ==
  \A g : Patchable(g) => \A patch \in Patches(g) : Fits(patch, g) => Equivalent(patch, g)

(* A model has no loop at first, and means what it means. *)
LEMMA InitMeans == Init => TInv
<1> SUFFICES ASSUME Init PROVE TInv
  OBVIOUS
<1>1. IInv
  BY InitIsGood
<1>2. job.at = "idle" /\ ~Working /\ Meaning(model) = meant
  BY DEF Init, Idle, Working
<1>3. Levelled(model)
  BY ModelsAssumption, AcyclicIsLevelled DEF Init
<1> QED
  BY <1>1, <1>2, <1>3 DEF TInv

(* The nodes of a patch are added: nothing reads them yet. *)
LEMMA StartPatchGrafts ==
  ASSUME IInv, Levelled(model), Meaning(model) = meant,
         NEW patch, StartPatch(patch), Equivalent(patch, model), NEW old, NodesFit(model, patch, old)
  PROVE  /\ job'.at = "shunting" /\ job'.patch = patch
         /\ Nodes(model) \subseteq Nodes(model') /\ Len(model'.op) = Len(model.op) + Cardinality(Added(patch))
         /\ \A k \in Nodes(model) : model'.op[k] = model.op[k] /\ model'.inputs[k] = model.inputs[k]
         /\ \E t, own, seen :
              Grafting(model', job', meant', t, own, seen, old \cup Sown(patch, job'.mapping))
<1> DEFINE h == WithNodes(model, patch, Mapping(patch))
           n == Len(model.op) + Cardinality(Added(patch))
<1>1. IsGraph(model) /\ Reciprocal(model)
  BY DEF IInv
<1>2. Fits(patch, model) /\ model' = h /\ meant' = meant
      /\ job' = [at |-> "shunting", patch |-> patch, mapping |-> Mapping(patch),
                 interface |-> NewInterface(patch), left |-> DOMAIN patch.shunt]
  BY DEF StartPatch
<1>3. Grows(model, n, h) /\ Placed(patch, h)
  BY <1>1, <1>2, PatchIsPlaced
<1> HIDE DEF h, n
<1>4. /\ IsGraph(h) /\ Nodes(model) \subseteq Nodes(h) /\ h.outputs = model.outputs /\ Len(h.op) = n
      /\ \A k \in Nodes(model) : h.op[k] = model.op[k]
      /\ \A k \in Nodes(h) : h.inputs[k] = IF k \in Nodes(model) THEN model.inputs[k] ELSE <<>>
  <2>1. /\ IsGraph(h) /\ Nodes(h) = 1 .. n /\ Nodes(model) \subseteq Nodes(h)
        /\ h.outputs = model.outputs
    BY <1>1, <1>3, GrownIsGraph
  <2>2. h.inputs = [k \in 1 .. n |-> IF k \in Nodes(model) THEN model.inputs[k] ELSE <<>>]
    BY <1>3 DEF Grows
  <2>3. \A k \in Nodes(model) : h.op[k] = model.op[k]
    BY <1>3 DEF Grows
  <2>4. \A k \in 1 .. n : h.inputs[k] = IF k \in Nodes(model) THEN model.inputs[k] ELSE <<>>
    BY ONLY <2>2
  <2>5. Len(h.op) = n
    BY <1>3, FunctionIsSeq DEF Grows
  <2> QED
    BY <2>1, <2>3, <2>4, <2>5
<1>5. Sited(model, patch, h, Mapping(patch))
  BY <1>3 DEF Placed, Sited
<1>6. Faces(model, patch, h, Mapping(patch), NewInterface(patch))
  BY <1>1, <1>4, <1>5, InterfaceFaces
<1>7. /\ job'.at = "shunting" /\ job'.patch = patch /\ job'.mapping = Mapping(patch)
      /\ job'.interface = NewInterface(patch) /\ job'.left = DOMAIN patch.shunt
  BY <1>2
<1>8. \E t, own, seen :
        Grafting(h, job', Meaning(model), t, own, seen, old \cup Sown(patch, job'.mapping))
  <2>1. /\ Sited(model, patch, h, job'.mapping)
        /\ Faces(model, patch, h, job'.mapping, job'.interface)
    BY <1>5, <1>6, <1>7
  <2>2. Fits(patch, model)
    BY <1>2
  <2> QED
    BY <1>1, <1>4, <1>7, <2>1, <2>2, StartGrafts
<1>9. n = Len(model.op) + Cardinality(Added(patch))
  BY DEF n
<1>10. \A k \in Nodes(model) : h.op[k] = model.op[k] /\ h.inputs[k] = model.inputs[k]
  BY <1>4
<1> QED
  BY <1>2, <1>4, <1>7, <1>8, <1>9, <1>10

(* The consumers of a node go to what means the same. *)
LEMMA ShuntOneGrafts ==
  ASSUME IInv, ShuntOne, IInv', NEW t, NEW own, NEW seen, NEW kept,
         Grafting(model, job, meant, t, own, seen, kept)
  PROVE  /\ job'.at = "shunting" /\ job'.patch = job.patch /\ model'.op = model.op
         /\ \A n \in Nodes(model) : DOMAIN model'.inputs[n] = DOMAIN model.inputs[n]
         /\ Grafting(model', job', meant', t, own, seen, kept)
<1>1. PICK n \in job.left :
        LET by == job.mapping[job.patch.shunt[n]]
            g == AddEdges(model, [k \in DOMAIN model.succ[n] |-> Edge(by, model.succ[n][k])])
        IN /\ model' = [g EXCEPT !.outputs = [k \in DOMAIN @ |-> IF @[k] = n THEN by ELSE @[k]]]
           /\ job' = [job EXCEPT !.left = @ \ {n}]
  BY DEF ShuntOne
<1> DEFINE by == job.mapping[job.patch.shunt[n]]
           g == AddEdges(model, Moves(model, n, by))
           outs == [k \in DOMAIN g.outputs |-> IF g.outputs[k] = n THEN by ELSE g.outputs[k]]
<1>2. model' = [g EXCEPT !.outputs = outs] /\ job' = [job EXCEPT !.left = @ \ {n}] /\ meant' = meant
  <2>1. meant' = meant
    BY DEF ShuntOne
  <2> QED
    BY <1>1, <2>1 DEF Moves
<1>3. /\ job.at = "shunting" /\ Working /\ PatchIsIn /\ IsGraph(model) /\ Reciprocal(model)
      /\ job = [at |-> job.at, patch |-> job.patch, mapping |-> job.mapping,
                interface |-> job.interface, left |-> job.left]
  BY DEF ShuntOne, IInv, Working, PatchIsIn
<1>4. n \in Nodes(model) /\ by \in Nodes(model)
  BY <1>3 DEF PatchIsIn
<1>5. /\ IsGraph(g) /\ Nodes(g) = Nodes(model) /\ g.op = model.op /\ g.outputs = model.outputs
      /\ \A m \in Nodes(model) : Moved(model.inputs[m], n, by, g.inputs[m])
  <2> HIDE DEF by
  <2> QED
    BY <1>3, <1>4, MovesMove
<1> HIDE DEF g
<1>6. g = [op |-> g.op, inputs |-> g.inputs, succ |-> g.succ,
           interface |-> g.interface, outputs |-> g.outputs]
  BY <1>5 DEF IsGraph
<1>7. model'.op = g.op /\ model'.inputs = g.inputs /\ model'.outputs = outs
  <2> HIDE DEF outs
  <2> QED
    BY <1>2, <1>6
<1>8. IsGraph(model')
  BY DEF IInv
<1>9. /\ Nodes(model') = Nodes(model) /\ model'.op = model.op
      /\ \A m \in Nodes(model) : Moved(model.inputs[m], n, by, model'.inputs[m])
      /\ model'.outputs = [k \in DOMAIN model.outputs |-> IF model.outputs[k] = n THEN by ELSE model.outputs[k]]
  BY <1>5, <1>7 DEF Nodes
<1>10. job' = [at |-> job.at, patch |-> job.patch, mapping |-> job.mapping,
               interface |-> job.interface, left |-> job.left \ {n}]
  BY <1>2, <1>3
<1>11. /\ job'.at = "shunting" /\ job'.patch = job.patch /\ job'.mapping = job.mapping
       /\ job'.interface = job.interface /\ job'.left = job.left \ {n}
  BY <1>3, <1>10
<1> HIDE DEF by
<1>12. Grafting(model', job', meant, t, own, seen, kept)
  BY <1>3, <1>8, <1>9, <1>11, ShuntGrafts DEF by
<1>13. \A m \in Nodes(model) : DOMAIN model'.inputs[m] = DOMAIN model.inputs[m]
  BY <1>9 DEF Moved
<1> QED
  BY <1>2, <1>9, <1>11, <1>12, <1>13

(* The outputs are checked, and the new nodes are left to be wired. *)
LEMMA AcceptOutputsGrafts ==
  ASSUME IInv, AcceptOutputs, NEW t, NEW own, NEW seen, NEW kept,
         Grafting(model, job, meant, t, own, seen, kept)
  PROVE  /\ job'.at = "wiring" /\ job'.patch = job.patch /\ model' = model
         /\ Grafting(model', job', meant', t, own, seen, kept)
<1>1. /\ job.at = "shunting" /\ job.left = {} /\ Working /\ IsGraph(model)
      /\ job = [at |-> job.at, patch |-> job.patch, mapping |-> job.mapping,
                interface |-> job.interface, left |-> job.left]
  BY DEF AcceptOutputs, IInv, Working, PatchIsIn
<1>2. job' = [job EXCEPT !.at = "wiring", !.left = Added(job.patch)] /\ model' = model /\ meant' = meant
  BY DEF AcceptOutputs
<1>3. job' = [at |-> "wiring", patch |-> job.patch, mapping |-> job.mapping,
              interface |-> job.interface, left |-> Added(job.patch)]
  BY ONLY <1>1, <1>2
<1>4. /\ job'.at = "wiring" /\ job'.patch = job.patch /\ job'.mapping = job.mapping
      /\ job'.interface = job.interface /\ job'.left = Added(job.patch)
  BY <1>3
<1>5. Grafting(model, job', meant, t, own, seen, kept)
  BY <1>1, <1>4, AcceptGrafts
<1> QED
  BY <1>2, <1>4, <1>5

(* A new node gets the inputs that its term was told from. *)
LEMMA WireOneGrafts ==
  ASSUME IInv, WireOne, NEW t, NEW own, NEW seen, NEW kept,
         Grafting(model, job, meant, t, own, seen, kept)
  PROVE  /\ job'.at = "wiring" /\ Grafting(model', job', meant', t, own, seen, kept)
         /\ Added(job.patch) # {}
<1>1. PICK i \in job.left :
        LET ins == job.patch.nodes[i].inputs IN
        /\ model' = Wire(model, job.mapping[i], [s \in DOMAIN ins |-> job.mapping[ins[s]]])
        /\ job' = [job EXCEPT !.left = @ \ {i}]
  BY DEF WireOne
<1> DEFINE n == job.mapping[i]
           ins == Inputs(job, i)
<1>2. model' = Wire(model, n, ins) /\ job' = [job EXCEPT !.left = @ \ {i}] /\ meant' = meant
  <2>1. meant' = meant
    BY DEF WireOne
  <2> QED
    BY <1>1, <2>1 DEF Inputs
<1>3. /\ job.at = "wiring" /\ Working /\ PatchIsIn /\ IsGraph(model) /\ Reciprocal(model)
      /\ job = [at |-> job.at, patch |-> job.patch, mapping |-> job.mapping,
                interface |-> job.interface, left |-> job.left]
  BY DEF WireOne, IInv, Working, PatchIsIn
<1>4. Grafting(model, job, meant, t, own, seen, kept)
  OBVIOUS
<1>5. Unwired(model, job, t, own, kept, i)
  BY <1>3, <1>4 DEF Grafting, Pending
<1>6. n \in Nodes(model) /\ model.inputs[n] = <<>>
  BY <1>4, <1>5 DEF Unwired, Grafting
<1>7. ins \in Seq(Nodes(model))
  <2> DEFINE P == DOMAIN job.patch.nodes
             own1 == job.patch.nodes[i].inputs
             N == Nodes(model)
  <2>1. i \in P /\ own1 \in Seq(P) /\ \A k \in P : job.mapping[k] \in N
    BY <1>3 DEF PatchIsIn
  <2> HIDE DEF P, own1, N
  <2>2. Len(own1) \in Nat /\ DOMAIN own1 = 1 .. Len(own1) /\ \A s \in 1 .. Len(own1) : own1[s] \in P
    BY <2>1, LenProperties, ElementOfSeq
  <2>3. ins = [s \in DOMAIN own1 |-> job.mapping[own1[s]]]
    BY DEF Inputs, own1
  <2>4. ins \in [1 .. Len(own1) -> N]
    BY <2>1, <2>2, <2>3
  <2> HIDE DEF ins
  <2> QED
    BY <2>2, <2>4, FunctionIsSeq DEF N
<1> HIDE DEF ins, n
<1>8. /\ IsGraph(model') /\ model'.op = model.op /\ model'.outputs = model.outputs
      /\ model'.inputs[n] = ins
      /\ \A m \in Nodes(model) : m # n => model'.inputs[m] = model.inputs[m]
  BY <1>2, <1>3, <1>6, <1>7, WireMakes
<1>9. Nodes(model') = Nodes(model)
  BY <1>8 DEF Nodes
<1>10. job' = [at |-> job.at, patch |-> job.patch, mapping |-> job.mapping,
               interface |-> job.interface, left |-> job.left \ {i}]
  BY <1>2, <1>3
<1>11. /\ job'.at = "wiring" /\ job'.patch = job.patch /\ job'.mapping = job.mapping
       /\ job'.interface = job.interface /\ job'.left = job.left \ {i}
  BY <1>3, <1>10
<1>12. Grafting(model', job', meant, t, own, seen, kept)
  BY <1>3, <1>4, <1>8, <1>9, <1>11, WireGrafts DEF n, ins
<1>13. Added(job.patch) # {}
  BY <1>3, <1>4 DEF Grafting, Pending
<1> QED
  BY <1>2, <1>11, <1>12, <1>13

(* What is obliterated is a Dummy, and the interface is the one to be. *)
LEMMA FinishPatchIs ==
  ASSUME IInv, FinishPatch
  PROVE  /\ job.at = "wiring" /\ job.left = {} /\ job'.at = "idle" /\ meant' = meant
         /\ Nodes(model') = Nodes(model) /\ model'.inputs = model.inputs /\ model'.outputs = model.outputs
         /\ model'.interface = job.interface
         /\ \A n \in Nodes(model) :
              model'.op[n] = IF n \in job.patch.obliterate THEN Dummy ELSE model.op[n]
<1> DEFINE ops == [n \in DOMAIN model.op |-> IF n \in job.patch.obliterate THEN Dummy ELSE model.op[n]]
<1>1. job.at = "wiring" /\ job.left = {} /\ Working /\ IsGraph(model)
  BY DEF FinishPatch, IInv, Working
<1>2. model' = [model EXCEPT !.op = ops, !.interface = job.interface] /\ job' = Idle /\ meant' = meant
  BY DEF FinishPatch
<1>3. /\ model = [op |-> model.op, inputs |-> model.inputs, succ |-> model.succ,
                  interface |-> model.interface, outputs |-> model.outputs]
      /\ model.op \in Seq(ToSet(model.op))
  BY <1>1 DEF IsGraph
<1>4. Len(model.op) \in Nat /\ DOMAIN model.op = 1 .. Len(model.op)
  BY <1>3, LenProperties
<1>5. \A n \in Nodes(model) : ops[n] = IF n \in job.patch.obliterate THEN Dummy ELSE model.op[n]
  BY <1>4 DEF Nodes
<1>6. Len(ops) = Len(model.op)
  <2>1. ops = [n \in 1 .. Len(model.op) |-> ops[n]]
    BY <1>4
  <2> HIDE DEF ops
  <2>2. ops \in [1 .. Len(model.op) -> ToSet(ops)]
    BY <2>1 DEF ToSet
  <2> QED
    BY <1>4, <2>2, FunctionIsSeq
<1> HIDE DEF ops
<1>7. /\ model'.op = ops /\ model'.inputs = model.inputs /\ model'.outputs = model.outputs
      /\ model'.interface = job.interface
  <2>1. model' = [op |-> ops, inputs |-> model.inputs, succ |-> model.succ,
                  interface |-> job.interface, outputs |-> model.outputs]
    BY ONLY <1>2, <1>3
  <2> QED
    BY <2>1
<1>8. Nodes(model') = Nodes(model)
  BY <1>6, <1>7 DEF Nodes
<1>9. job'.at = "idle"
  BY <1>2 DEF Idle
<1> QED
  BY <1>1, <1>2, <1>5, <1>7, <1>8, <1>9

(* All is wired: what is kept means what its term tells, and the rest is not
   read. *)
LEMMA FinishPatchMeans ==
  ASSUME IInv, FinishPatch, IInv', NEW t, NEW own, NEW seen, NEW kept,
         Grafting(model, job, meant, t, own, seen, kept)
  PROVE  Levelled(model') /\ Meaning(model') = meant
<1>1. IsGraph(model) /\ IsGraph(model')
  BY DEF IInv
<1>2. /\ job.at = "wiring" /\ job.left = {}
      /\ Nodes(model') = Nodes(model) /\ model'.inputs = model.inputs /\ model'.outputs = model.outputs
      /\ model'.interface = job.interface
      /\ \A n \in Nodes(model) :
           model'.op[n] = IF n \in job.patch.obliterate THEN Dummy ELSE model.op[n]
  BY FinishPatchIs
<1>3. \A n \in Nodes(model) : n \notin job.patch.obliterate => model'.op[n] = model.op[n]
  BY <1>2
<1> QED
  BY <1>1, <1>2, <1>3, FinishMeans

(* compact() makes again what is used. *)
LEMMA CompactModelMeans ==
  ASSUME IInv, CompactModel, Levelled(model)
  PROVE  Levelled(model') /\ Meaning(model') = Meaning(model)
<1>1. job.at = "idle" /\ IsGraph(model) /\ Unique(model.outputs)
  BY DEF IInv, CompactModel
<1>2. Ordered(model, TranslationOrder(model)) /\ model' = Translated(model, TranslationOrder(model))
  BY DEF CompactModel, Compact
<1> QED
  BY <1>1, <1>2, TranslatedMeans

(* Two outputs that have become the same node have always meant the same. *)
LEMMA RefusedMeanSame ==
  ASSUME RefuseOutputs, NEW t, NEW own, NEW seen, NEW kept,
         Grafting(model, job, meant, t, own, seen, kept)
  PROVE  job'.at = "failed" /\ meant' = meant /\ ~Unique(meant)
<1>1. job'.at = "failed" /\ meant' = meant /\ ~Unique(model.outputs)
  BY DEF RefuseOutputs
<1>2. PICK i, k \in DOMAIN model.outputs : model.outputs[i] = model.outputs[k] /\ i # k
  BY <1>1 DEF Unique
<1>3. meant = [o \in DOMAIN model.outputs |-> t[model.outputs[o]]]
  BY DEF Grafting, Shows
<1>4. meant[i] = meant[k] /\ i \in DOMAIN meant /\ k \in DOMAIN meant
  BY <1>2, <1>3
<1> QED
  BY <1>1, <1>2, <1>4 DEF Unique

(* While patches whose nodes mean what they replace are applied, a term can be
   given to every outlet that the model, or the rest of the patch, reads. *)
THEOREM TermsInvariance ==
  ASSUME PatchesAreEquivalent
  PROVE  Spec => []TInv
<1>1. ASSUME TInv, IInv', [Next]_vars PROVE TInv'
  <2>1. CASE AnyPatch
    <3>1. job.at = "idle" /\ Patchable(model)
      BY <1>1, <2>1 DEF AnyPatch, MayStart, TInv, IInv, Patchable
    <3>2. PICK patch \in Patches(model) : StartPatch(patch)
      BY <2>1 DEF AnyPatch
    <3>3. Equivalent(patch, model)
      BY <3>1, <3>2 DEF PatchesAreEquivalent, StartPatch
    <3>4. PICK old : NodesFit(model, patch, old)
      BY <3>3 DEF Equivalent
    <3>5. /\ job'.at = "shunting"
          /\ \E t, own, seen, kept : Grafting(model', job', meant', t, own, seen, kept)
      BY <1>1, <3>1, <3>2, <3>3, <3>4, StartPatchGrafts DEF TInv
    <3> QED
      BY <1>1, <3>5 DEF TInv
  <2>2. CASE ShuntOne
    <3>1. Working
      BY <2>2 DEF ShuntOne, Working
    <3>2. PICK t, own, seen, kept : Grafting(model, job, meant, t, own, seen, kept)
      BY <1>1, <3>1 DEF TInv
    <3>3. job'.at = "shunting" /\ Grafting(model', job', meant', t, own, seen, kept)
      BY <1>1, <2>2, <3>2, ShuntOneGrafts DEF TInv
    <3> QED
      BY <1>1, <3>3 DEF TInv
  <2>3. CASE RefuseOutputs
    <3>1. Working
      BY <2>3 DEF RefuseOutputs, Working
    <3>2. PICK t, own, seen, kept : Grafting(model, job, meant, t, own, seen, kept)
      BY <1>1, <3>1 DEF TInv
    <3>3. job'.at = "failed" /\ meant' = meant /\ ~Unique(meant)
      BY <2>3, <3>2, RefusedMeanSame
    <3> QED
      BY <1>1, <3>3 DEF TInv, Working
  <2>4. CASE AcceptOutputs
    <3>1. Working
      BY <2>4 DEF AcceptOutputs, Working
    <3>2. PICK t, own, seen, kept : Grafting(model, job, meant, t, own, seen, kept)
      BY <1>1, <3>1 DEF TInv
    <3>3. job'.at = "wiring" /\ Grafting(model', job', meant', t, own, seen, kept)
      BY <1>1, <2>4, <3>2, AcceptOutputsGrafts DEF TInv
    <3> QED
      BY <1>1, <3>3 DEF TInv
  <2>5. CASE WireOne
    <3>1. Working
      BY <2>5 DEF WireOne, Working
    <3>2. PICK t, own, seen, kept : Grafting(model, job, meant, t, own, seen, kept)
      BY <1>1, <3>1 DEF TInv
    <3>3. job'.at = "wiring" /\ Grafting(model', job', meant', t, own, seen, kept)
      BY <1>1, <2>5, <3>2, WireOneGrafts DEF TInv
    <3> QED
      BY <1>1, <3>3 DEF TInv
  <2>6. CASE FinishPatch
    <3>1. Working
      BY <2>6 DEF FinishPatch, Working
    <3>2. PICK t, own, seen, kept : Grafting(model, job, meant, t, own, seen, kept)
      BY <1>1, <3>1 DEF TInv
    <3>3. Levelled(model') /\ Meaning(model') = meant
      BY <1>1, <2>6, <3>2, FinishPatchMeans DEF TInv
    <3>4. job'.at = "idle" /\ meant' = meant
      BY <1>1, <2>6, FinishPatchIs DEF TInv
    <3> QED
      BY <1>1, <3>3, <3>4 DEF TInv, Working
  <2>7. CASE CompactModel
    <3>1. job.at = "idle" /\ job' = job /\ meant' = meant
      BY <2>7 DEF CompactModel
    <3>2. Levelled(model') /\ Meaning(model') = meant
      BY <1>1, <2>7, <3>1, CompactModelMeans DEF TInv
    <3> QED
      BY <1>1, <3>1, <3>2 DEF TInv, Working
  <2>8. CASE UNCHANGED vars
    <3>1. model' = model /\ job' = job /\ meant' = meant
      BY <2>8 DEF vars
    <3> QED
      BY <1>1, <3>1 DEF TInv, Working
  <2> QED
    BY <1>1, <2>1, <2>2, <2>3, <2>4, <2>5, <2>6, <2>7, <2>8 DEF Next
<1> QED
  BY <1>1, InitMeans, Invariance, PTL DEF Spec

(* A patch whose nodes mean what they replace leaves the model with its meaning,
   in whatever order its shunts and its nodes come out of the hash maps, after
   however many others that have left dead nodes among the consumers, and so
   does compact(). *)
THEOREM PatchesPreserveMeaning ==
  ASSUME PatchesAreEquivalent
  PROVE  Spec => []MeaningPreserved
<1>1. TInv => MeaningPreserved
  BY DEF TInv, MeaningPreserved
<1> QED
  BY <1>1, TermsInvariance, PTL

-----------------------------------------------------------------------------
(* The patches that the helpers make (model/patch.rs). *)

(* A patch of taps and one node, which replaces another: it is enough that it
   means the same and is made of what stands below the readers of the other. *)
LEMMA OneNodeFits ==
  ASSUME NEW g, IsGraph(g), NEW low, NEW high,
         low \in [Nodes(g) -> Nat], high \in [Nodes(g) -> Nat],
         \A n \in Nodes(g) : low[n] <= high[n], Below(g, high, low),
         NEW patch, NEW c \in DOMAIN patch.nodes, NEW n \in Nodes(g), NEW reads,
         patch.obliterate = {}, DOMAIN patch.shunt = {n}, patch.shunt[n] = c,
         ~IsTap(patch, c), patch.nodes[c].replaces = 0,
         \A i \in DOMAIN patch.nodes : i # c => IsTap(patch, i) /\ patch.nodes[i].tap \in Nodes(g),
         DOMAIN reads = DOMAIN patch.nodes[c].inputs,
         \A s \in DOMAIN reads :
           /\ patch.nodes[c].inputs[s] \in DOMAIN patch.nodes \ {c}
           /\ patch.nodes[patch.nodes[c].inputs[s]].tap = reads[s]
           /\ low[reads[s]] < high[n],
         Apply(patch.nodes[c].op, [s \in DOMAIN reads |-> Terms(g)[reads[s]]]) = Terms(g)[n]
  PROVE  Equivalent(patch, g)
<1> DEFINE P == DOMAIN patch.nodes
           N == Nodes(g)
           T == Terms(g)
           at == [i \in P |-> high[n]]
           term == [i \in P |-> IF i = c THEN T[n] ELSE T[patch.nodes[i].tap]]
           ins == patch.nodes[c].inputs
<1>1. Added(patch) = {c}
  BY DEF Added
<1>2. ~Renews(g, patch, c)
  <2> SUFFICES ASSUME Contains(g.interface, 0) PROVE FALSE
    BY DEF Renews
  <2>1. g.interface \in Seq(N)
    BY DEF IsGraph
  <2>2. PICK k \in DOMAIN g.interface : g.interface[k] = 0
    BY <2>1, ContainsIs
  <2>3. 0 \in N
    <3> HIDE DEF N
    <3> QED
      BY <2>1, <2>2, LenProperties, ElementOfSeq
  <2> QED
    BY <2>3 DEF Nodes
<1>3. LevelsFit(g, patch, low, high, at)
  <2>1. at \in [P -> Nat] /\ \A i \in P : at[i] = high[n]
    OBVIOUS
  <2> HIDE DEF at
  <2>2. At(patch, high, at, c) <= high[n]
    BY <2>1 DEF At
  <2>3. ASSUME NEW s \in DOMAIN ins PROVE At(patch, low, at, ins[s]) < at[c]
    <3>1. ins[s] \in P /\ ins[s] # c /\ patch.nodes[ins[s]].tap = reads[s] /\ low[reads[s]] < high[n]
      OBVIOUS
    <3>2. At(patch, low, at, ins[s]) = low[reads[s]]
      BY <3>1 DEF At
    <3> QED
      BY <2>1, <3>1, <3>2
  <2> QED
    BY <1>1, <2>1, <2>2, <2>3 DEF LevelsFit
<1>4. TermsFit(g, patch, term)
  <2>1. \A s \in DOMAIN reads : term[ins[s]] = T[reads[s]]
    OBVIOUS
  <2>2. [s \in DOMAIN ins |-> term[ins[s]]] = [s \in DOMAIN reads |-> T[reads[s]]]
    <3> HIDE DEF term, ins, T
    <3> QED
      BY <2>1 DEF ins
  <2>3. term[c] = T[n] /\ \A i \in P : i # c => term[i] = T[patch.nodes[i].tap]
    OBVIOUS
  <2> HIDE DEF term, T
  <2>4. PatchTerm(g, patch, term, c) = T[n]
    BY <1>2, <2>2 DEF PatchTerm, T
  <2>5. \A i \in P : i # c => PatchTerm(g, patch, term, i) = T[patch.nodes[i].tap]
    BY DEF PatchTerm, T
  <2> QED
    BY <2>3, <2>4, <2>5 DEF TermsFit, T
<1>5. NodesFit(g, patch, N)
  <2>1. \A m \in N : \A s \in DOMAIN g.inputs[m] : g.inputs[m][s] \in N
    BY InputsAreNodes
  <2>2. \A k \in DOMAIN g.outputs : g.outputs[k] \in N
    <3>1. g.outputs \in Seq(N)
      BY DEF IsGraph
    <3> HIDE DEF N
    <3> QED
      BY <3>1, LenProperties, ElementOfSeq
  <2>3. \A i \in P : Stays(patch, N, i)
    BY DEF Stays
  <2> QED
    BY <1>1, <1>2, <2>1, <2>2, <2>3 DEF NodesFit
<1> HIDE DEF term, at
<1> QED
  BY <1>3, <1>4, <1>5 DEF Equivalent

SameOp(op, other) == \A args : Apply(op, args) = Apply(other, args)

(* A node is replaced by one that computes the same of the same. *)
LEMMA ReplaceSingleOpFits ==
  ASSUME NEW g, IsGraph(g), Levelled(g), NEW n \in Nodes(g), ~Contains(g.interface, n),
         NEW op, SameOp(op, g.op[n])
  PROVE  Equivalent(ReplaceSingleOp(g, n, op), g)
<1> DEFINE patch == ReplaceSingleOp(g, n, op)
           N == Nodes(g)
           T == Terms(g)
           reads == g.inputs[n]
           k == Len(reads)
           taps == [i \in 1 .. k |-> Tap(reads[i])]
           node == NewNode(op, [i \in 1 .. k |-> i])
<1>1. k \in Nat /\ DOMAIN reads = 1 .. k /\ \A i \in 1 .. k : reads[i] \in N
  <2>1. reads \in Seq(N)
    BY InputsAreNodes
  <2> HIDE DEF N
  <2> QED
    BY <2>1, LenProperties, ElementOfSeq
<1>2. /\ patch.nodes = Append(taps, node) /\ patch.obliterate = {}
      /\ DOMAIN patch.shunt = {n} /\ patch.shunt[n] = k + 1
  BY DEF ReplaceSingleOp, Patch, Shunt
<1>3. /\ DOMAIN patch.nodes = 1 .. k + 1 /\ patch.nodes[k + 1] = node
      /\ \A i \in 1 .. k : patch.nodes[i] = Tap(reads[i])
  <2> DEFINE S == {Tap(reads[i]) : i \in 1 .. k} \cup {node}
  <2>1. taps \in [1 .. k -> S] /\ node \in S
    OBVIOUS
  <2>2. \A i \in 1 .. k : taps[i] = Tap(reads[i])
    OBVIOUS
  <2> HIDE DEF taps, node, S, k, patch
  <2>3. Append(taps, node) = Longer(taps, k, node)
    BY <1>1, <2>1, AppendIs
  <2>4. k + 1 \notin 1 .. k /\ k + 1 \in 1 .. k + 1 /\ 1 .. k \subseteq 1 .. k + 1
    BY <1>1
  <2> QED
    BY <1>2, <2>2, <2>3, <2>4 DEF Longer
<1>4. /\ patch.nodes[k + 1].tap = 0 /\ patch.nodes[k + 1].op = op /\ patch.nodes[k + 1].replaces = 0
      /\ patch.nodes[k + 1].inputs = [i \in 1 .. k |-> i]
      /\ \A i \in 1 .. k : patch.nodes[i].tap = reads[i]
  <2>1. node.tap = 0 /\ node.op = op /\ node.replaces = 0 /\ node.inputs = [i \in 1 .. k |-> i]
    BY DEF NewNode
  <2>2. \A x : Tap(x).tap = x
    BY DEF Tap
  <2> HIDE DEF node, patch, k
  <2> QED
    BY <1>3, <2>1, <2>2
<1>5. PICK level \in [N -> Nat] : Below(g, level, level)
  BY DEF Levelled
<1> HIDE DEF patch, k
<1>6. \A x \in N : x # 0
  BY DEF Nodes
<1>7. \A i \in 1 .. k + 1 : i = k + 1 \/ i \in 1 .. k
  BY <1>1
<1>8. /\ k + 1 \in DOMAIN patch.nodes /\ ~IsTap(patch, k + 1)
      /\ \A i \in DOMAIN patch.nodes : i # k + 1 => IsTap(patch, i) /\ patch.nodes[i].tap \in N
  BY <1>1, <1>3, <1>4, <1>6, <1>7 DEF IsTap
<1>9. \A s \in DOMAIN reads :
        /\ patch.nodes[k + 1].inputs[s] \in DOMAIN patch.nodes \ {k + 1}
        /\ patch.nodes[patch.nodes[k + 1].inputs[s]].tap = reads[s]
        /\ level[reads[s]] < level[n]
  BY <1>1, <1>3, <1>4, <1>5 DEF Below
<1>10. Apply(op, [s \in DOMAIN reads |-> T[reads[s]]]) = T[n]
  <2>1. T[n] = NodeTerm(g, T, n)
    BY TermsUnfold DEF TermsOn
  <2> QED
    BY <2>1 DEF NodeTerm, TermOf, SameOp
<1>11. \A x \in N : level[x] <= level[x]
  OBVIOUS
<1>12. DOMAIN reads = DOMAIN patch.nodes[k + 1].inputs
  BY <1>1, <1>4
<1>13. Apply(patch.nodes[k + 1].op, [s \in DOMAIN reads |-> T[reads[s]]]) = T[n]
  BY <1>4, <1>10
<1> HIDE DEF reads
<1>14. Equivalent(patch, g)
  BY <1>2, <1>4, <1>5, <1>8, <1>9, <1>11, <1>12, <1>13, OneNodeFits
<1> QED
  BY <1>14 DEF patch

(* The identity takes its input for output. *)
Identity(op) == \A x : Apply(op, <<x>>) = x

(* One operator does what two do, one after the other. *)
FusedOp(op, first, next) == \A args : Apply(op, args) = Apply(next, <<Apply(first, args)>>)

(* single_succ is a node that reads nothing else. *)
LEMMA SingleSuccReads ==
  ASSUME NEW g, IsGraph(g), Reciprocal(g), NEW n \in Nodes(g), SingleSucc(g, n) # 0
  PROVE  SingleSucc(g, n) \in Nodes(g) /\ g.inputs[SingleSucc(g, n)] = <<n>>
<1> DEFINE N == Nodes(g)
           s == g.succ[n]
           m == SingleSucc(g, n)
           E == [node : N, slot : Nat \ {0}]
<1>1. Len(s) = 1 /\ m = s[1].node /\ Len(g.inputs[m]) = 1
  BY DEF SingleSucc
<1>2. s \in Seq(E)
  BY DEF IsGraph
<1>3. s[1] \in ToSet(s)
  <2>1. DOMAIN s = 1 .. Len(s)
    <3> HIDE DEF s, E
    <3> QED
      BY <1>2, LenProperties
  <2> QED
    BY <1>1, <2>1 DEF ToSet
<1>4. Reads(g, n, s[1])
  BY <1>3, ReciprocalMeans
<1>5. PICK a \in N : \E t \in DOMAIN g.inputs[a] : g.inputs[a][t] = n /\ s[1] = Inlet(a, t)
  BY <1>4 DEF Reads
<1>6. PICK t \in DOMAIN g.inputs[a] : g.inputs[a][t] = n /\ s[1] = Inlet(a, t)
  BY <1>5
<1>7. a = m
  BY <1>1, <1>6 DEF Inlet
<1> HIDE DEF m, s
<1>8. g.inputs[m] \in Seq(N) /\ Len(g.inputs[m]) = 1 /\ t \in DOMAIN g.inputs[m] /\ g.inputs[m][t] = n
  BY <1>1, <1>5, <1>6, <1>7, InputsAreNodes
<1> DEFINE ins == g.inputs[m]
<1> HIDE DEF ins, N
<1>9. DOMAIN ins = 1 .. 1
  <2>1. ins \in Seq(N) /\ Len(ins) = 1
    BY <1>8 DEF ins
  <2> QED
    BY <2>1, LenProperties
<1>10. t = 1 /\ ins[1] = n
  BY <1>8, <1>9 DEF ins
<1>11. ins = <<n>>
  BY <1>8, <1>9, <1>10 DEF ins
<1> QED
  BY <1>5, <1>7, <1>11 DEF ins, N, m

(* Two nodes, the second the only reader of the first, are replaced by one. *)
LEMMA FuseWithNextFits ==
  ASSUME NEW g, IsGraph(g), Reciprocal(g), Levelled(g), NEW n \in Nodes(g), ~Contains(g.interface, n),
         SingleSucc(g, n) # 0, ~Contains(g.interface, SingleSucc(g, n)),
         NEW op, FusedOp(op, g.op[n], g.op[SingleSucc(g, n)])
  PROVE  Equivalent(FuseWithNext(g, n, op), g)
<1> DEFINE patch == FuseWithNext(g, n, op)
           m == SingleSucc(g, n)
           N == Nodes(g)
           T == Terms(g)
           reads == g.inputs[n]
           k == Len(reads)
           taps == [i \in 1 .. k |-> Tap(reads[i])]
           node == NewNode(op, [i \in 1 .. k |-> i + 1])
<1>1. k \in Nat /\ DOMAIN reads = 1 .. k /\ \A i \in 1 .. k : reads[i] \in N
  <2>1. reads \in Seq(N)
    BY InputsAreNodes
  <2> HIDE DEF N
  <2> QED
    BY <2>1, LenProperties, ElementOfSeq
<1>2. m \in N /\ g.inputs[m] = <<n>>
  BY SingleSuccReads
<1>3. /\ patch.nodes = <<node>> \o taps /\ patch.obliterate = {}
      /\ DOMAIN patch.shunt = {m} /\ patch.shunt[m] = 1
  BY DEF FuseWithNext, Patch, Shunt
<1>4. /\ DOMAIN patch.nodes = 1 .. k + 1 /\ patch.nodes[1] = node
      /\ \A i \in 1 .. k : patch.nodes[i + 1] = Tap(reads[i])
  <2> DEFINE S == {Tap(reads[i]) : i \in 1 .. k} \cup {node}
             one == <<node>>
             both == one \o taps
  <2>1. taps \in [1 .. k -> S] /\ one \in Seq(S) /\ Len(one) = 1 /\ one[1] = node
    OBVIOUS
  <2>2. \A i \in 1 .. k : taps[i] = Tap(reads[i])
    OBVIOUS
  <2> HIDE DEF taps, one, node, S, k, patch
  <2>3. taps \in Seq(S) /\ Len(taps) = k
    BY <1>1, <2>1, FunctionIsSeq
  <2>4. /\ both \in Seq(S) /\ Len(both) = Len(one) + Len(taps)
        /\ \A i \in 1 .. Len(one) + Len(taps) :
             both[i] = IF i <= Len(one) THEN one[i] ELSE taps[i - Len(one)]
    BY ONLY <2>1, <2>3, ConcatProperties, Zenon DEF both
  <2> HIDE DEF both
  <2>5. DOMAIN both = 1 .. 1 + k
    BY <2>1, <2>3, <2>4, LenProperties
  <2>6. \A i \in 1 .. k : i + 1 \in 1 .. 1 + k /\ ~(i + 1 <= 1) /\ (i + 1) - 1 = i
    BY <1>1
  <2>7. 1 \in 1 .. 1 + k /\ 1 + k = k + 1
    BY <1>1
  <2>8. patch.nodes = both
    BY <1>3 DEF both, one
  <2>9. both[1] = node
    BY <2>1, <2>3, <2>4, <2>7
  <2>10. \A i \in 1 .. k : both[i + 1] = Tap(reads[i])
    BY <2>1, <2>2, <2>3, <2>4, <2>6
  <2> QED
    BY <2>5, <2>7, <2>8, <2>9, <2>10
<1>5. /\ patch.nodes[1].tap = 0 /\ patch.nodes[1].op = op /\ patch.nodes[1].replaces = 0
      /\ patch.nodes[1].inputs = [i \in 1 .. k |-> i + 1]
      /\ \A i \in 1 .. k : patch.nodes[i + 1].tap = reads[i]
  <2>1. node.tap = 0 /\ node.op = op /\ node.replaces = 0 /\ node.inputs = [i \in 1 .. k |-> i + 1]
    BY DEF NewNode
  <2>2. \A x : Tap(x).tap = x
    BY DEF Tap
  <2> HIDE DEF node, patch, k
  <2> QED
    BY <1>4, <2>1, <2>2
<1>6. PICK level \in [N -> Nat] : Below(g, level, level)
  BY DEF Levelled
<1> HIDE DEF patch, k, m
<1>7. \A x \in N : x # 0
  BY DEF Nodes
<1>8. \A i \in 1 .. k + 1 : i # 1 => i - 1 \in 1 .. k /\ (i - 1) + 1 = i
  BY <1>1
<1>9. /\ 1 \in DOMAIN patch.nodes /\ ~IsTap(patch, 1)
      /\ \A i \in DOMAIN patch.nodes : i # 1 => IsTap(patch, i) /\ patch.nodes[i].tap \in N
  <2>1. 1 \in 1 .. k + 1
    BY <1>1
  <2>2. ASSUME NEW i \in DOMAIN patch.nodes, i # 1
        PROVE  patch.nodes[i].tap \in N
    <3>1. i - 1 \in 1 .. k /\ (i - 1) + 1 = i
      BY <1>4, <1>8, <2>2
    <3>2. patch.nodes[i].tap = reads[i - 1]
      BY <1>5, <3>1
    <3> QED
      BY <1>1, <3>1, <3>2
  <2> HIDE DEF N
  <2> QED
    BY <1>4, <1>5, <1>7, <2>1, <2>2 DEF IsTap
<1>10. level[n] < level[m]
  <2>1. 1 \in DOMAIN g.inputs[m] /\ g.inputs[m][1] = n
    BY <1>2
  <2> QED
    BY <1>2, <1>6, <2>1 DEF Below
<1>11. \A s \in DOMAIN reads :
        /\ patch.nodes[1].inputs[s] \in DOMAIN patch.nodes \ {1}
        /\ patch.nodes[patch.nodes[1].inputs[s]].tap = reads[s]
        /\ level[reads[s]] < level[m]
  <2> SUFFICES ASSUME NEW s \in DOMAIN reads
               PROVE  /\ patch.nodes[1].inputs[s] \in DOMAIN patch.nodes \ {1}
                      /\ patch.nodes[patch.nodes[1].inputs[s]].tap = reads[s]
                      /\ level[reads[s]] < level[m]
    OBVIOUS
  <2>1. s \in 1 .. k /\ patch.nodes[1].inputs[s] = s + 1 /\ s + 1 \in 1 .. k + 1 /\ s + 1 # 1
    BY <1>1, <1>5
  <2>2. level[reads[s]] < level[n]
    BY <1>6 DEF Below
  <2>3. level[reads[s]] \in Nat /\ level[n] \in Nat /\ level[m] \in Nat
    BY <1>1, <1>2, <1>6, <2>1
  <2> QED
    BY <1>4, <1>5, <1>10, <2>1, <2>2, <2>3
<1>12. Apply(patch.nodes[1].op, [s \in DOMAIN reads |-> T[reads[s]]]) = T[m]
  <2>1. T[n] = NodeTerm(g, T, n) /\ T[m] = NodeTerm(g, T, m)
    BY <1>2, TermsUnfold DEF TermsOn
  <2>2. [j \in DOMAIN g.inputs[m] |-> T[g.inputs[m][j]]] = <<T[n]>>
    <3> HIDE DEF T
    <3> QED
      BY <1>2
  <2>3. T[m] = Apply(g.op[m], <<T[n]>>)
    BY <2>1, <2>2 DEF NodeTerm, TermOf, m
  <2>4. T[n] = Apply(g.op[n], [s \in DOMAIN reads |-> T[reads[s]]])
    BY <2>1 DEF NodeTerm, TermOf
  <2> HIDE DEF T, reads
  <2> QED
    BY <1>5, <2>3, <2>4 DEF FusedOp, m
<1>13. \A x \in N : level[x] <= level[x]
  OBVIOUS
<1>14. DOMAIN reads = DOMAIN patch.nodes[1].inputs
  BY <1>1, <1>5
<1> HIDE DEF reads
<1>15. Equivalent(patch, g)
  BY <1>2, <1>3, <1>5, <1>6, <1>9, <1>11, <1>12, <1>13, <1>14, OneNodeFits
<1> QED
  BY <1>15 DEF patch

(* An identity is put between a node and its readers. *)
LEMMA InterceptFits ==
  ASSUME NEW g, IsGraph(g), Levelled(g), NEW n \in Nodes(g), NEW op, Identity(op)
  PROVE  Equivalent(Intercept(g, n, op), g)
<1> DEFINE patch == Intercept(g, n, op)
           N == Nodes(g)
           T == Terms(g)
           reads == <<n>>
<1>1. PICK level \in [N -> Nat] : Below(g, level, level)
  BY DEF Levelled
<1> DEFINE low == [x \in N |-> 2 * level[x]]
           high == [x \in N |-> 2 * level[x] + 1]
<1>2. \A x \in N : low[x] \in Nat /\ high[x] \in Nat /\ low[x] < high[x] /\ low[x] <= high[x]
  <2> SUFFICES ASSUME NEW x \in N
               PROVE  low[x] \in Nat /\ high[x] \in Nat /\ low[x] < high[x] /\ low[x] <= high[x]
    OBVIOUS
  <2>1. level[x] \in Nat /\ low[x] = 2 * level[x] /\ high[x] = 2 * level[x] + 1
    OBVIOUS
  <2> HIDE DEF low, high
  <2> QED
    BY <2>1
<1>3. Below(g, high, low)
  <2> SUFFICES ASSUME NEW x \in N, NEW s \in DOMAIN g.inputs[x] PROVE high[g.inputs[x][s]] < low[x]
    BY DEF Below
  <2>1. level[g.inputs[x][s]] < level[x] /\ g.inputs[x][s] \in N
    BY <1>1, InputsAreNodes DEF Below
  <2>2. /\ level[g.inputs[x][s]] \in Nat /\ level[x] \in Nat
        /\ high[g.inputs[x][s]] = 2 * level[g.inputs[x][s]] + 1 /\ low[x] = 2 * level[x]
    BY <2>1
  <2> HIDE DEF low, high
  <2> QED
    BY <2>1, <2>2
<1>4. low \in [N -> Nat] /\ high \in [N -> Nat]
  <2>1. low = [x \in N |-> low[x]] /\ high = [x \in N |-> high[x]]
    OBVIOUS
  <2> HIDE DEF low, high
  <2> QED
    BY <1>2, <2>1
<1>5. /\ patch.nodes = <<Tap(n), NewNode(op, <<1>>)>> /\ patch.obliterate = {}
      /\ DOMAIN patch.shunt = {n} /\ patch.shunt[n] = 2
  BY DEF Intercept, Patch, Shunt
<1> HIDE DEF patch, low, high
<1>6. /\ DOMAIN patch.nodes = {1, 2} /\ patch.nodes[1].tap = n
      /\ patch.nodes[2].tap = 0 /\ patch.nodes[2].op = op /\ patch.nodes[2].replaces = 0
      /\ patch.nodes[2].inputs = <<1>>
  BY <1>5 DEF Tap, NewNode
<1>7. n # 0
  BY DEF Nodes
<1>8. /\ 2 \in DOMAIN patch.nodes /\ ~IsTap(patch, 2)
      /\ \A i \in DOMAIN patch.nodes : i # 2 => IsTap(patch, i) /\ patch.nodes[i].tap \in N
  BY <1>6, <1>7 DEF IsTap
<1>9. /\ DOMAIN reads = {1} /\ reads[1] = n /\ DOMAIN reads = DOMAIN patch.nodes[2].inputs
      /\ patch.nodes[2].inputs[1] = 1
  BY <1>6
<1>10. [s \in DOMAIN reads |-> T[reads[s]]] = <<T[n]>>
  <2> HIDE DEF T
  <2> QED
    OBVIOUS
<1>11. Apply(patch.nodes[2].op, [s \in DOMAIN reads |-> T[reads[s]]]) = T[n]
  <2> HIDE DEF T, reads
  <2> QED
    BY <1>6, <1>10 DEF Identity
<1> HIDE DEF reads
<1>12. \A s \in DOMAIN reads :
         /\ patch.nodes[2].inputs[s] \in DOMAIN patch.nodes \ {2}
         /\ patch.nodes[patch.nodes[2].inputs[s]].tap = reads[s]
         /\ low[reads[s]] < high[n]
  BY <1>2, <1>6, <1>9
<1>13. Equivalent(patch, g)
  BY <1>2, <1>3, <1>4, <1>5, <1>6, <1>8, <1>9, <1>11, <1>12, OneNodeFits
<1> QED
  BY <1>13 DEF patch

(* A patch of taps alone: it is enough that what replaces a node means the same,
   stands no higher and is not obliterated, and that what is obliterated is
   replaced. *)
LEMMA TapsFit ==
  ASSUME NEW g, IsGraph(g), NEW level \in [Nodes(g) -> Nat], Below(g, level, level),
         NEW patch, \A i \in DOMAIN patch.nodes : IsTap(patch, i) /\ patch.nodes[i].tap \in Nodes(g),
         patch.obliterate \subseteq DOMAIN patch.shunt, DOMAIN patch.shunt \subseteq Nodes(g),
         \A n \in DOMAIN patch.shunt :
           /\ patch.shunt[n] \in DOMAIN patch.nodes
           /\ patch.nodes[patch.shunt[n]].tap \notin patch.obliterate
           /\ level[patch.nodes[patch.shunt[n]].tap] <= level[n]
           /\ Terms(g)[patch.nodes[patch.shunt[n]].tap] = Terms(g)[n]
  PROVE  Equivalent(patch, g)
<1> DEFINE P == DOMAIN patch.nodes
           N == Nodes(g)
           T == Terms(g)
           at == [i \in P |-> 0]
           term == [i \in P |-> T[patch.nodes[i].tap]]
           kept == N \ patch.obliterate
<1>1. Added(patch) = {}
  BY DEF Added
<1>2. LevelsFit(g, patch, level, level, at)
  <2>1. at \in [P -> Nat]
    OBVIOUS
  <2>2. \A n \in N : level[n] <= level[n]
    OBVIOUS
  <2>3. \A n \in DOMAIN patch.shunt : At(patch, level, at, patch.shunt[n]) <= level[n]
    BY DEF At
  <2> QED
    BY <1>1, <2>1, <2>2, <2>3 DEF LevelsFit
<1>3. TermsFit(g, patch, term)
  <2>1. \A i \in P : term[i] = T[patch.nodes[i].tap]
    OBVIOUS
  <2> HIDE DEF term, T
  <2> QED
    BY <2>1 DEF TermsFit, PatchTerm, T
<1>4. NodesFit(g, patch, kept)
  <2>1. \A n \in N : \A s \in DOMAIN g.inputs[n] : g.inputs[n][s] \in N
    BY InputsAreNodes
  <2>2. \A k \in DOMAIN g.outputs : g.outputs[k] \in N
    <3>1. g.outputs \in Seq(N)
      BY DEF IsGraph
    <3> HIDE DEF N
    <3> QED
      BY <3>1, LenProperties, ElementOfSeq
  <2>3. \A n \in DOMAIN patch.shunt : Stays(patch, kept, patch.shunt[n])
    BY DEF Stays
  <2>4. \A n \in N : n \in kept \cup DOMAIN patch.shunt
    OBVIOUS
  <2> QED
    BY <1>1, <2>1, <2>2, <2>3, <2>4 DEF NodesFit
<1> HIDE DEF term, at
<1> QED
  BY <1>2, <1>3, <1>4 DEF Equivalent

(* A node that takes its input for output is replaced by what it reads. *)
LEMMA ShuntOneOpFits ==
  ASSUME NEW g, IsGraph(g), Levelled(g), NEW n \in Nodes(g), ~Contains(g.interface, n),
         Len(g.inputs[n]) = 1, Identity(g.op[n])
  PROVE  Equivalent(ShuntOneOp(g, n), g)
<1> DEFINE patch == ShuntOneOp(g, n)
           N == Nodes(g)
           T == Terms(g)
           reads == g.inputs[n]
           m == reads[1]
<1>1. DOMAIN reads = {1} /\ m \in N
  <2>1. reads \in Seq(N)
    BY InputsAreNodes
  <2> HIDE DEF N
  <2>2. DOMAIN reads = 1 .. 1
    BY <2>1, LenProperties
  <2> QED
    BY <2>1, <2>2, ElementOfSeq
<1>2. PICK level \in [N -> Nat] : Below(g, level, level)
  BY DEF Levelled
<1>3. level[m] <= level[n]
  BY <1>1, <1>2 DEF Below
<1>4. T[n] = T[m]
  <2>1. T[n] = NodeTerm(g, T, n)
    BY TermsUnfold DEF TermsOn
  <2>2. [j \in DOMAIN reads |-> T[reads[j]]] = <<T[m]>>
    <3> HIDE DEF T
    <3> QED
      BY <1>1
  <2> QED
    BY <2>1, <2>2 DEF NodeTerm, TermOf, Identity
<1> HIDE DEF m
<1>5. /\ patch.nodes = <<Tap(m)>> /\ patch.obliterate = {}
      /\ DOMAIN patch.shunt = {n} /\ patch.shunt[n] = 1
  BY DEF ShuntOneOp, Patch, Shunt, m
<1> HIDE DEF patch
<1>6. DOMAIN patch.nodes = {1} /\ patch.nodes[1].tap = m
  BY <1>5 DEF Tap
<1>7. m # 0
  BY <1>1 DEF Nodes, m
<1>8. \A i \in DOMAIN patch.nodes : IsTap(patch, i) /\ patch.nodes[i].tap \in N
  BY <1>1, <1>6, <1>7 DEF IsTap, m
<1> HIDE DEF T
<1>9. Equivalent(patch, g)
  BY <1>2, <1>3, <1>4, <1>5, <1>6, <1>8, TapsFit DEF T
<1> QED
  BY <1>9 DEF patch

(* Nodes are replaced by nodes that compute the same of the same inputs. *)
Merges(g, patch) ==
  /\ \A i \in DOMAIN patch.nodes : IsTap(patch, i) /\ patch.nodes[i].tap \in Nodes(g)
  /\ patch.obliterate \subseteq DOMAIN patch.shunt /\ DOMAIN patch.shunt \subseteq Nodes(g)
  /\ \A n \in DOMAIN patch.shunt :
       /\ patch.shunt[n] \in DOMAIN patch.nodes
       /\ LET m == patch.nodes[patch.shunt[n]].tap IN
          /\ m \notin patch.obliterate
          /\ g.op[m] = g.op[n] /\ g.inputs[m] = g.inputs[n]
          /\ ~Contains(g.interface, m) /\ ~Contains(g.interface, n)

(* Nodes that read the same may stand on the same level, that of the lowest. *)
LEMMA MergesFit ==
  ASSUME NEW g, IsGraph(g), Levelled(g), NEW patch, Merges(g, patch)
  PROVE  Equivalent(patch, g)
<1> DEFINE N == Nodes(g)
           T == Terms(g)
<1>1. PICK high \in [N -> Nat] : Below(g, high, high)
  BY DEF Levelled
<1> DEFINE Levels(ins) == {high[m] : m \in {k \in N : g.inputs[k] = ins}}
           Least(ins) == CHOOSE v \in Levels(ins) : \A w \in Levels(ins) : v <= w
           level == [n \in N |-> Least(g.inputs[n])]
<1>2. ASSUME NEW n \in N
      PROVE  /\ level[n] \in Nat
             /\ \E m \in N : g.inputs[m] = g.inputs[n] /\ level[n] = high[m]
             /\ level[n] <= high[n]
  <2> DEFINE V == Levels(g.inputs[n])
  <2>1. V \subseteq Nat /\ high[n] \in V
    BY <1>1
  <2>2. \E v \in V : \A w \in V : v <= w
    <3> HIDE DEF V
    <3> QED
      BY <2>1, LeastNatural
  <2>3. Least(g.inputs[n]) \in V /\ \A w \in V : Least(g.inputs[n]) <= w
    <3> HIDE DEF V
    <3> QED
      BY <2>2 DEF V
  <2>4. level[n] = Least(g.inputs[n])
    OBVIOUS
  <2> HIDE DEF level, Least
  <2> QED
    BY <2>1, <2>3, <2>4
<1>3. level \in [N -> Nat]
  <2>1. level = [n \in N |-> level[n]]
    OBVIOUS
  <2> HIDE DEF level
  <2> QED
    BY <1>2, <2>1
<1>4. \A m, n \in N : g.inputs[m] = g.inputs[n] => level[m] = level[n]
  <2>1. \A n \in N : level[n] = Least(g.inputs[n])
    OBVIOUS
  <2> HIDE DEF level, Least
  <2> QED
    BY <2>1
<1> HIDE DEF level
<1>5. Below(g, level, level)
  <2> SUFFICES ASSUME NEW n \in N, NEW s \in DOMAIN g.inputs[n]
               PROVE  level[g.inputs[n][s]] < level[n]
    BY DEF Below
  <2>1. g.inputs[n][s] \in N
    BY InputsAreNodes
  <2>2. PICK m \in N : g.inputs[m] = g.inputs[n] /\ level[n] = high[m]
    BY <1>2
  <2>3. high[g.inputs[n][s]] < high[m]
    BY <1>1, <2>2 DEF Below
  <2>4. level[g.inputs[n][s]] <= high[g.inputs[n][s]]
    BY <1>2, <2>1
  <2>5. level[g.inputs[n][s]] \in Nat /\ high[g.inputs[n][s]] \in Nat /\ high[m] \in Nat
    BY <1>1, <1>2, <2>1
  <2> QED
    BY <2>2, <2>3, <2>4, <2>5
<1>6. ASSUME NEW n \in DOMAIN patch.shunt
      PROVE  LET m == patch.nodes[patch.shunt[n]].tap IN level[m] <= level[n] /\ T[m] = T[n]
  <2> DEFINE m == patch.nodes[patch.shunt[n]].tap
  <2>1. /\ m \in N /\ n \in N /\ g.op[m] = g.op[n] /\ g.inputs[m] = g.inputs[n]
        /\ ~Contains(g.interface, m) /\ ~Contains(g.interface, n)
    BY DEF Merges
  <2> HIDE DEF m
  <2>2. T[m] = NodeTerm(g, T, m) /\ T[n] = NodeTerm(g, T, n)
    BY <2>1, TermsUnfold DEF TermsOn
  <2>3. level[m] = level[n] /\ level[n] \in Nat
    BY <1>2, <1>4, <2>1
  <2> HIDE DEF T
  <2>4. T[m] = T[n]
    BY <2>1, <2>2 DEF NodeTerm, TermOf
  <2> QED
    BY <2>3, <2>4 DEF m
<1> HIDE DEF T
<1> QED
  BY <1>3, <1>5, <1>6, TapsFit DEF Merges, T

(* A patch that one of the helpers makes, with an operator that computes what it
   must, or one that merges nodes. *)
Rewriting(g, patch) ==
  \/ \E n \in Nodes(g) : \E op :
       /\ ~Contains(g.interface, n) /\ SameOp(op, g.op[n])
       /\ patch = ReplaceSingleOp(g, n, op)
  \/ \E n \in Nodes(g) : \E op :
       /\ ~Contains(g.interface, n)
       /\ SingleSucc(g, n) # 0 /\ ~Contains(g.interface, SingleSucc(g, n))
       /\ FusedOp(op, g.op[n], g.op[SingleSucc(g, n)])
       /\ patch = FuseWithNext(g, n, op)
  \/ \E n \in Nodes(g) :
       /\ ~Contains(g.interface, n) /\ Len(g.inputs[n]) = 1 /\ Identity(g.op[n])
       /\ patch = ShuntOneOp(g, n)
  \/ \E n \in Nodes(g) : \E op : Identity(op) /\ patch = Intercept(g, n, op)
  \/ Merges(g, patch)

(* A graph that is only rewritten by such patches means, between two of them and
   once compacted, what it meant in the first place: in whatever order their
   shunts and their new nodes are taken, and with the dead nodes that the ones
   before left among the consumers (model/patch.rs). *)
THEOREM HelpersPreserveMeaning ==
  ASSUME \A g : Patchable(g) => \A patch \in Patches(g) : Rewriting(g, patch)
  PROVE  Spec => []MeaningPreserved
<1>1. ASSUME NEW g, Patchable(g), NEW patch, Rewriting(g, patch)
      PROVE  Equivalent(patch, g)
  <2>1. IsGraph(g) /\ Reciprocal(g) /\ Levelled(g)
    BY <1>1 DEF Patchable
  <2>2. CASE \E n \in Nodes(g) : \E op :
               /\ ~Contains(g.interface, n) /\ SameOp(op, g.op[n])
               /\ patch = ReplaceSingleOp(g, n, op)
    BY <2>1, <2>2, ReplaceSingleOpFits
  <2>3. CASE \E n \in Nodes(g) : \E op :
               /\ ~Contains(g.interface, n)
               /\ SingleSucc(g, n) # 0 /\ ~Contains(g.interface, SingleSucc(g, n))
               /\ FusedOp(op, g.op[n], g.op[SingleSucc(g, n)])
               /\ patch = FuseWithNext(g, n, op)
    BY <2>1, <2>3, FuseWithNextFits
  <2>4. CASE \E n \in Nodes(g) :
               /\ ~Contains(g.interface, n) /\ Len(g.inputs[n]) = 1 /\ Identity(g.op[n])
               /\ patch = ShuntOneOp(g, n)
    BY <2>1, <2>4, ShuntOneOpFits
  <2>5. CASE \E n \in Nodes(g) : \E op : Identity(op) /\ patch = Intercept(g, n, op)
    BY <2>1, <2>5, InterceptFits
  <2>6. CASE Merges(g, patch)
    BY <2>1, <2>6, MergesFit
  <2> QED
    BY <1>1, <2>2, <2>3, <2>4, <2>5, <2>6 DEF Rewriting
<1>2. PatchesAreEquivalent
  BY <1>1 DEF PatchesAreEquivalent
<1> QED
  BY <1>2, PatchesPreserveMeaning

=============================================================================
