------------------------------- MODULE MCScan -------------------------------
(***************************************************************************)
(* Small instances of Scan: the shapes of body that the importers build (a *)
(* recurrent cell, one with two states, one with a parameter and two       *)
(* sequences, a delay), with every set of outputs that are read, constant  *)
(* or given states, chunks of one or two frames, forwards or backwards,    *)
(* whole sequences and streams.                                            *)
(***************************************************************************)
EXTENDS Scan

In(name)           == <<"in", <<name>>>>
Scanned(name, slot) == [id |-> <<name>>, kind |-> "scan", slot |-> slot, init |-> 0]
State(name, slot)   == [id |-> <<name>>, kind |-> "state", slot |-> slot, init |-> slot]
Full(name, slot)    == [id |-> <<name>>, kind |-> "full", slot |-> slot, init |-> 0]
StateOut(full, last) == [full |-> full, last |-> last, state |-> TRUE]
Out(full)            == [full |-> full, last |-> 0, state |-> FALSE]

\* s' = g(f(x), s), out = h(s')
Cell ==
    LET s == <<"g", <<"f", In("x")>>, In("s")>>
    IN  [imap |-> <<Scanned("x", 1), State("s", 2)>>, inputs |-> <<"scan", "whole">>,
         omap |-> <<StateOut(0, 2), Out(1)>>, body |-> <<s, <<"h", s>>>>]

\* s' = g(x, t), t' = f(t, s): both last values, and all the values of s.
TwoStates ==
    [imap |-> <<State("s", 3), Scanned("x", 2), State("t", 1)>>, inputs |-> <<"whole", "scan", "whole">>,
     omap |-> <<StateOut(3, 1), StateOut(0, 2)>>,
     body |-> <<<<"g", In("x"), In("t")>>, <<"f", In("t"), In("s")>>>>]

\* s' = g(s, m(x, w), f(y)), with three outputs over s', s and f(y).
Attention ==
    LET y == <<"f", In("y")>>
        s == <<"g", In("s"), <<"m", In("x"), In("w")>>, y>>
    IN  [imap |-> <<Scanned("x", 3), Full("w", 1), Scanned("y", 2), State("s", 4)>>,
         inputs |-> <<"whole", "scan", "scan", "whole">>,
         omap |-> <<Out(3), StateOut(0, 0), Out(1), Out(2)>>,
         body |-> <<<<"h", y, s>>, s, <<"m", s, y>>, <<"k", In("s"), <<"g", s, y>>>>>>]

\* s' = x, out = g(s, x)
Memory ==
    [imap |-> <<Scanned("x", 1), State("s", 2)>>, inputs |-> <<"scan", "whole">>,
     omap |-> <<StateOut(0, 0), Out(1)>>,
     body |-> <<In("x"), <<"g", In("s"), In("x")>>>>]

Used(shape) == SUBSET (1 .. NumOutputs(shape.omap)) \ {{}}
Whole(shape) == {j \in DOMAIN shape.inputs : shape.inputs[j] = "whole"}

Called(shape, used, konst, chunk, backward, skip, streaming, hinted, length) ==
    [imap |-> shape.imap, omap |-> shape.omap, body |-> shape.body, inputs |-> shape.inputs,
     used |-> used, konst |-> konst, chunk |-> chunk, backward |-> backward, skip |-> skip,
     streaming |-> streaming, hinted |-> hinted, length |-> length]

\* The shapes, but Memory when its output can be pulled: nothing would read its
\* state in the loop any more, and declutter_discard_unused_input_mapping would
\* take it for unused although it is an output.
Shapes(chunk) == {Cell, TwoStates, Attention} \cup IF chunk = 1 THEN {} ELSE {Memory}

MCProblems ==
    UNION {
      {Called(shape, used, konst, chunk, FALSE, skip, TRUE, FALSE, 3 * chunk) :
          used \in Used(shape), konst \in SUBSET Whole(shape), skip \in 0 .. 1}
      \cup {Called(shape, used, konst, chunk, chunk = 1, 0, FALSE, TRUE, length) :
          used \in Used(shape), konst \in SUBSET Whole(shape), length \in 1 .. 4}
      : <<shape, chunk>> \in UNION {Shapes(c) \X {c} : c \in 1 .. 2}}
=============================================================================
