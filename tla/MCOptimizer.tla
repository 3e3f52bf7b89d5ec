---------------------------- MODULE MCOptimizer ----------------------------
(***************************************************************************)
(* Small instances of Optimizer: three graphs, an OpOptim that looks at two *)
(* positions (at one in graph 0) and a pass that looks at the whole graph,  *)
(* in either order.                                                         *)
(***************************************************************************)
EXTENDS Optimizer, FiniteSets

CONSTANT W

MCModel == 0..2

To(models, watchdogs) == {NoPatch} \cup [to : models, watchdog : watchdogs]

Below(m) == {k \in MCModel : k < m}

(* What graph m may offer: a simpler graph, or any other with a watchdog. *)
Offered(m) ==
  LET one == To(Below(m), {NoWatchdog}) \cup To(MCModel \ {m}, {W})
  IN IF m = 0 THEN [1..1 -> one] ELSE [1..2 -> one]

OpOffers == {<<o0, o1, o2>> : o0 \in Offered(0), o1 \in Offered(1), o2 \in Offered(2)}

Simpler(k) == [to |-> k, watchdog |-> NoWatchdog]

(* The whole-graph pass has something to do on graph 2, or on graph 1. *)
GraphOffers == {<<NoPatch, NoPatch, Simpler(0)>>, <<NoPatch, Simpler(0), NoPatch>>}

ByModel(o) == [m \in MCModel |-> o[m + 1]]
OneEach(o) == [m \in MCModel |-> <<o[m + 1]>>]

(* compact() changes nothing, or makes graph 0 of graph 1. *)
AsIs == {[m \in MCModel |-> m]}
Compactions == AsIs \cup {[m \in MCModel |-> IF m = 1 THEN 0 ELSE m]}

RequestsWith(opOffers, graphOffers, compactions, steps) ==
  {[model |-> 2, offers |-> <<ByModel(o), OneEach(g)>>, ops |-> {1}, compact |-> c, steps |-> k] :
     o \in opOffers, g \in graphOffers, c \in compactions, k \in steps}
    \cup
  {[model |-> 2, offers |-> <<OneEach(g), ByModel(o)>>, ops |-> {2}, compact |-> c, steps |-> k] :
     o \in opOffers, g \in graphOffers, c \in compactions, k \in steps}

(* The patches without a watchdog, and compact(), make graphs simpler. *)
Simplifying == RequestsWith(OpOffers, GraphOffers, Compactions, {NoLimit})

(* Passes that undo each other, under a limit. *)
Any(m) == To(MCModel \ {m}, {W, NoWatchdog})

Undoing ==
  RequestsWith({<<<<x>>, <<y>>, <<z, NoPatch>>>> : x \in Any(0), y \in Any(1), z \in Any(2)},
               {<<x, NoPatch, NoPatch>> : x \in To({1, 2}, {NoWatchdog})}, AsIs, {0, 3})

MCRequests == Simplifying \cup Undoing

=============================================================================
