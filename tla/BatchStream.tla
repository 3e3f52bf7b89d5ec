---------------------------- MODULE BatchStream -----------------------------
(***************************************************************************)
(* What a streaming computation promises: the frames it puts out are those *)
(* of the computation on the whole input, in order, none missing and none  *)
(* twice; they come as the input comes; once put out a frame stays; in the *)
(* end they are all there.  Nothing is said of chunks, of delays or of     *)
(* when the length of the stream is known.                                 *)
(***************************************************************************)
EXTENDS Integers

VARIABLES
    whole,   \* the frames of the whole result: a function from 0 .. n - 1
    out      \* those that have come out

vars == <<whole, out>>

Prefix(n) == [i \in 0 .. n - 1 |-> whole[i]]

\* How many frames a prefix may have.
Lengths == {0} \cup {i + 1 : i \in DOMAIN whole}

Init == out = Prefix(0)

\* Some more frames come out.
Emit ==
    /\ \E n \in Lengths : out' = Prefix(n) /\ DOMAIN out \subseteq 0 .. n - 1
    /\ UNCHANGED whole

Spec == Init /\ [][Emit]_vars

\* Every frame of the result comes out.
Complete == <>[](out = whole)
=============================================================================
