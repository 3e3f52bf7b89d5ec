--------------------------- MODULE AxisOp_proofs ----------------------------
(***************************************************************************)
(* What the rules for the operators on axes guarantee for any axes and any *)
(* ranks: pushing an operator aside never changes where an axis ends up,   *)
(* and the reciprocal brings every axis back.                              *)
(***************************************************************************)
EXTENDS AxisOp, TLAPS

AddOp     == [is : {"add"}, at : Nat]
RmOp      == [is : {"rm"}, at : Nat]
MoveOp    == [is : {"move"}, from : Nat, to : Nat]
ReshapeOp == [is : {"reshape"}, at : Nat, from : Seq(Nat), to : Seq(Nat)]
Op        == AddOp \cup RmOp \cup MoveOp \cup ReshapeOp

\* Where an axis is after two operators.
Track(first, second, x) ==
    IF TransformAxis(first, x) = None THEN None ELSE TransformAxis(second, TransformAxis(first, x)[1])

-----------------------------------------------------------------------------
(* Each operator pushed aside by each change.                              *)

Commutes(op, change, merged) ==
    \A x \in Nat : Track(op, merged.change, x) = Track(change, merged.op, x)

LEMMA AddPushed ==
    ASSUME NEW at \in Nat, NEW c \in Op, Canonical(c) = c, MergeAdd(Add(at), c) # None
    PROVE  Commutes(Add(at), c, MergeAdd(Add(at), c)[1])
<1>1. CASE c \in AddOp
  <2>1. PICK i \in Nat : c = Add(i)
    BY <1>1 DEF AddOp, Add
  <2>2. MergeAdd(Add(at), c) = Merged(Add(IF i < at THEN at + 1 ELSE at), Add(IF i >= at THEN i + 1 ELSE i))
    BY <2>1 DEF MergeAdd, Add, If
  <2> QED
    BY <2>1, <2>2, SMTT(60)
         DEF Commutes, Track, Merged, TransformAxis, Canonical, Some, None, If, Add
<1>2. CASE c \in RmOp
  <2>1. PICK i \in Nat : c = Rm(i)
    BY <1>2 DEF RmOp, Rm
  <2>2. MergeAdd(Add(at), c) = Merged(Add(IF i < at THEN at - 1 ELSE at), Rm(IF i >= at THEN i + 1 ELSE i))
    BY <2>1 DEF MergeAdd, Add, Rm, If
  <2> QED
    BY <2>1, <2>2, SMTT(60)
         DEF Commutes, Track, Merged, TransformAxis, Canonical, Some, None, If, Add, Rm
<1>3. CASE c \in MoveOp
  <2>1. PICK i \in Nat, j \in Nat : c = Move(i, j)
    BY <1>3 DEF MoveOp, Move
  <2>2. CASE at <= i /\ at <= j
    <3>1. MergeAdd(Add(at), c) = Merged(Add(at), Move(i + 1, j + 1))
      BY <2>1, <2>2 DEF MergeAdd, Add, Move, Least
    <3> QED
      BY <2>1, <2>2, <3>1, SMTT(60)
         DEF Commutes, Track, Merged, TransformAxis, Canonical, Some, None, If, Add, Move
  <2>3. CASE at > i /\ at > j
    <3>1. MergeAdd(Add(at), c) = Merged(Add(at), c)
      BY <2>1, <2>3 DEF MergeAdd, Add, Move, Least, Most
    <3> QED
      BY <2>1, <2>3, <3>1, SMTT(60)
         DEF Commutes, Track, Merged, TransformAxis, Canonical, Some, None, If, Add, Move
  <2> QED
    BY <2>1, <2>2, <2>3 DEF MergeAdd, Add, Move, Least, Most
<1>4. CASE c \in ReshapeOp
  <2>1. PICK i \in Nat, from \in Seq(Nat), to \in Seq(Nat) : c = Reshape(i, from, to)
    BY <1>4 DEF ReshapeOp, Reshape
  <2>2. Len(from) \in Nat /\ Len(to) \in Nat
    OBVIOUS
  <2>3. CASE at <= i
    <3>1. MergeAdd(Add(at), c) = Merged(Add(at), Reshape(i + 1, from, to))
      BY <2>1, <2>3 DEF MergeAdd, Add, Reshape
    <3>2. \A x \in Nat : Track(Add(at), Reshape(i + 1, from, to), x)
                             = Track(Reshape(i, from, to), Add(at), x)
      BY <2>2, <2>3, SMTT(60) DEF Track, TransformAxis, Canonical, Some, None, If, Add, Reshape
    <3> QED
      BY <2>1, <3>1, <3>2 DEF Commutes, Merged, Some
  <2>4. CASE at > i + Len(from)
    <3>1. MergeAdd(Add(at), c) = Merged(Add(at + Len(to) - Len(from)), c)
      BY <2>1, <2>2, <2>4 DEF MergeAdd, Add, Reshape
    <3>2. \A x \in Nat : Track(Add(at), Reshape(i, from, to), x)
                             = Track(Reshape(i, from, to), Add(at + Len(to) - Len(from)), x)
      BY <2>2, <2>4, SMTT(60) DEF Track, TransformAxis, Canonical, Some, None, If, Add, Reshape
    <3> QED
      BY <2>1, <3>1, <3>2 DEF Commutes, Merged, Some
  <2> QED
    BY <2>1, <2>2, <2>3, <2>4 DEF MergeAdd, Add, Reshape
<1> QED
  BY <1>1, <1>2, <1>3, <1>4 DEF Op

LEMMA RmPushed ==
    ASSUME NEW at \in Nat, NEW c \in Op, Canonical(c) = c, c # Rm(at), MergeRm(Rm(at), c) # None
    PROVE  Commutes(Rm(at), c, MergeRm(Rm(at), c)[1])
<1>1. CASE c \in AddOp
  <2>1. PICK i \in Nat : c = Add(i)
    BY <1>1 DEF AddOp, Add
  <2>2. MergeRm(Rm(at), c) = Merged(Rm(IF i <= at THEN at + 1 ELSE at), Add(IF at < i THEN i - 1 ELSE i))
    BY <2>1 DEF MergeRm, Rm, Add, If
  <2>3. \A x \in Nat : Track(Rm(at), Add(IF at < i THEN i - 1 ELSE i), x)
                           = Track(Add(i), Rm(IF i <= at THEN at + 1 ELSE at), x)
    BY SMTT(60) DEF Track, TransformAxis, Canonical, Some, None, If, Add, Rm
  <2> QED
    BY <2>1, <2>2, <2>3 DEF Commutes, Merged, Some
<1>2. CASE c \in RmOp
  <2>1. PICK i \in Nat : c = Rm(i)
    BY <1>2 DEF RmOp, Rm
  <2>2. i # at
    BY <2>1
  <2>3. MergeRm(Rm(at), c) = Merged(Rm(IF i < at THEN at - 1 ELSE at), Rm(IF at < i THEN i - 1 ELSE i))
    BY <2>1, <2>2 DEF MergeRm, Rm, If
  <2>4. \A x \in Nat : Track(Rm(at), Rm(IF at < i THEN i - 1 ELSE i), x)
                           = Track(Rm(i), Rm(IF i < at THEN at - 1 ELSE at), x)
    BY <2>2, SMTT(60) DEF Track, TransformAxis, Canonical, Some, None, If, Rm
  <2> QED
    BY <2>1, <2>3, <2>4 DEF Commutes, Merged, Some
<1>3. CASE c \in MoveOp
  <2>1. PICK i \in Nat, j \in Nat : c = Move(i, j)
    BY <1>3 DEF MoveOp, Move
  <2>2. i # j + 1
    BY <2>1 DEF Canonical, Move
  <2>3. at # i
    BY <2>1 DEF MergeRm, Rm, Move
  <2>4. CASE at < i /\ at < j
    <3>1. MergeRm(Rm(at), c) = Merged(Rm(at), Move(i - 1, j - 1))
      BY <2>1, <2>4 DEF MergeRm, Rm, Move, Least
    <3> QED
      BY <2>1, <2>4, <3>1, SMTT(60)
         DEF Commutes, Track, Merged, TransformAxis, Canonical, Some, None, If, Rm, Move
  <2>5. CASE at > i /\ at > j
    <3>1. MergeRm(Rm(at), c) = Merged(Rm(at), c)
      BY <2>1, <2>5 DEF MergeRm, Rm, Move, Least, Most
    <3> QED
      BY <2>1, <2>5, <3>1, SMTT(60)
         DEF Commutes, Track, Merged, TransformAxis, Canonical, Some, None, If, Rm, Move
  <2>6. CASE i < at /\ at <= j
    <3>1. MergeRm(Rm(at), c) = Merged(Rm(at - 1), Move(i, j - 1))
      BY <2>1, <2>6 DEF MergeRm, Rm, Move, Least, Most
    <3> QED
      BY <2>1, <2>6, <3>1, SMTT(60)
         DEF Commutes, Track, Merged, TransformAxis, Canonical, Some, None, If, Rm, Move
  <2>7. CASE j <= at /\ at < i
    <3>1. MergeRm(Rm(at), c) = Merged(Rm(at + 1), Move(i - 1, j))
      BY <2>1, <2>7 DEF MergeRm, Rm, Move, Least, Most
    <3> QED
      BY <2>1, <2>2, <2>7, <3>1, SMTT(60)
         DEF Commutes, Track, Merged, TransformAxis, Canonical, Some, None, If, Rm, Move
  <2> QED
    BY <2>3, <2>4, <2>5, <2>6, <2>7
<1>4. CASE c \in ReshapeOp
  <2>1. PICK i \in Nat, from \in Seq(Nat), to \in Seq(Nat) : c = Reshape(i, from, to)
    BY <1>4 DEF ReshapeOp, Reshape
  <2>2. Len(from) \in Nat /\ Len(to) \in Nat
    OBVIOUS
  <2>3. CASE at < i
    <3>1. MergeRm(Rm(at), c) = Merged(Rm(at), Reshape(i - 1, from, to))
      BY <2>1, <2>3 DEF MergeRm, Rm, Reshape
    <3>2. \A x \in Nat : Track(Rm(at), Reshape(i - 1, from, to), x)
                             = Track(Reshape(i, from, to), Rm(at), x)
      BY <2>2, <2>3, SMTT(60) DEF Track, TransformAxis, Canonical, Some, None, If, Rm, Reshape
    <3> QED
      BY <2>1, <3>1, <3>2 DEF Commutes, Merged, Some
  <2>4. CASE at > i + Len(from)
    <3>1. MergeRm(Rm(at), c) = Merged(Rm(at + Len(to) - Len(from)), c)
      BY <2>1, <2>2, <2>4 DEF MergeRm, Rm, Reshape
    <3>2. \A x \in Nat : Track(Rm(at), Reshape(i, from, to), x)
                             = Track(Reshape(i, from, to), Rm(at + Len(to) - Len(from)), x)
      BY <2>2, <2>4, SMTT(60) DEF Track, TransformAxis, Canonical, Some, None, If, Rm, Reshape
    <3> QED
      BY <2>1, <3>1, <3>2 DEF Commutes, Merged, Some
  <2> QED
    BY <2>1, <2>2, <2>3, <2>4 DEF MergeRm, Rm, Reshape
<1> QED
  BY <1>1, <1>2, <1>3, <1>4 DEF Op

LEMMA MovePushed ==
    ASSUME NEW i \in Nat, NEW j \in Nat, i # j + 1, NEW c \in Op, MergeMove(Move(i, j), c) # None
    PROVE  Commutes(Move(i, j), c, MergeMove(Move(i, j), c)[1])
<1>1. CASE c \in AddOp
  <2>1. PICK at \in Nat : c = Add(at)
    BY <1>1 DEF AddOp, Add
  <2>2. CASE at <= i /\ at <= j
    <3>1. MergeMove(Move(i, j), c) = Merged(Move(i + 1, j + 1), c)
      BY <2>1, <2>2 DEF MergeMove, Add, Move, Least
    <3>2. \A x \in Nat : Track(Move(i, j), Add(at), x) = Track(Add(at), Move(i + 1, j + 1), x)
      BY <2>2, SMTT(60) DEF Track, TransformAxis, Canonical, Some, None, If, Add, Move
    <3> QED
      BY <2>1, <3>1, <3>2 DEF Commutes, Merged, Some
  <2>3. CASE at > i /\ at > j
    <3>1. MergeMove(Move(i, j), c) = Merged(Move(i, j), c)
      BY <2>1, <2>3 DEF MergeMove, Add, Move, Least, Most
    <3>2. \A x \in Nat : Track(Move(i, j), Add(at), x) = Track(Add(at), Move(i, j), x)
      BY <2>3, SMTT(60) DEF Track, TransformAxis, Canonical, Some, None, If, Add, Move
    <3> QED
      BY <2>1, <3>1, <3>2 DEF Commutes, Merged, Some
  <2> QED
    BY <2>1, <2>2, <2>3 DEF MergeMove, Add, Move, Least, Most
<1>2. CASE c \in RmOp
  <2>1. PICK at \in Nat : c = Rm(at)
    BY <1>2 DEF RmOp, Rm
  <2>2. CASE at < i /\ at < j
    <3>1. MergeMove(Move(i, j), c) = Merged(Move(i - 1, j - 1), c)
      BY <2>1, <2>2 DEF MergeMove, Rm, Move, Least
    <3>2. \A x \in Nat : Track(Move(i, j), Rm(at), x) = Track(Rm(at), Move(i - 1, j - 1), x)
      BY <2>2, SMTT(60) DEF Track, TransformAxis, Canonical, Some, None, If, Rm, Move
    <3> QED
      BY <2>1, <3>1, <3>2 DEF Commutes, Merged, Some
  <2>3. CASE at > i /\ at > j
    <3>1. MergeMove(Move(i, j), c) = Merged(Move(i, j), c)
      BY <2>1, <2>3 DEF MergeMove, Rm, Move, Least, Most
    <3>2. \A x \in Nat : Track(Move(i, j), Rm(at), x) = Track(Rm(at), Move(i, j), x)
      BY <2>3, SMTT(60) DEF Track, TransformAxis, Canonical, Some, None, If, Rm, Move
    <3> QED
      BY <2>1, <3>1, <3>2 DEF Commutes, Merged, Some
  <2> QED
    BY <2>1, <2>2, <2>3 DEF MergeMove, Rm, Move, Least, Most
<1> QED
  BY <1>1, <1>2 DEF Op, MoveOp, ReshapeOp, MergeMove

LEMMA ReshapePushed ==
    ASSUME NEW i \in Nat, NEW from \in Seq(Nat), NEW to \in Seq(Nat), NEW c \in Op,
           MergeReshape(Reshape(i, from, to), c) # None
    PROVE  Commutes(Reshape(i, from, to), c, MergeReshape(Reshape(i, from, to), c)[1])
<1>0. Len(from) \in Nat /\ Len(to) \in Nat
  OBVIOUS
<1>1. CASE c \in AddOp
  <2>1. PICK at \in Nat : c = Add(at)
    BY <1>1 DEF AddOp, Add
  <2>2. CASE at < i
    <3>1. MergeReshape(Reshape(i, from, to), c) = Merged(Reshape(i + 1, from, to), c)
      BY <2>1, <2>2 DEF MergeReshape, Add, Reshape
    <3>2. \A x \in Nat : Track(Reshape(i, from, to), Add(at), x) = Track(Add(at), Reshape(i + 1, from, to), x)
      BY <1>0, <2>2, SMTT(60) DEF Track, TransformAxis, Canonical, Some, None, If, Add, Reshape
    <3> QED
      BY <2>1, <3>1, <3>2 DEF Commutes, Merged, Some
  <2>3. CASE at > i + Len(from)
    <3>1. MergeReshape(Reshape(i, from, to), c) = Merged(Reshape(i, from, to), Add(at + Len(to) - Len(from)))
      BY <1>0, <2>1, <2>3 DEF MergeReshape, Add, Reshape
    <3>2. \A x \in Nat : Track(Reshape(i, from, to), Add(at + Len(to) - Len(from)), x)
                         = Track(Add(at), Reshape(i, from, to), x)
      BY <1>0, <2>3, SMTT(60) DEF Track, TransformAxis, Canonical, Some, None, If, Add, Reshape
    <3> QED
      BY <2>1, <3>1, <3>2 DEF Commutes, Merged, Some
  <2> QED
    BY <2>1, <2>2, <2>3, <1>0 DEF MergeReshape, Add, Reshape
<1>2. CASE c \in RmOp
  <2>1. PICK at \in Nat : c = Rm(at)
    BY <1>2 DEF RmOp, Rm
  <2>2. CASE at < i
    <3>1. MergeReshape(Reshape(i, from, to), c) = Merged(Reshape(i - 1, from, to), c)
      BY <2>1, <2>2 DEF MergeReshape, Rm, Reshape
    <3>2. \A x \in Nat : Track(Reshape(i, from, to), Rm(at), x) = Track(Rm(at), Reshape(i - 1, from, to), x)
      BY <1>0, <2>2, SMTT(60) DEF Track, TransformAxis, Canonical, Some, None, If, Rm, Reshape
    <3> QED
      BY <2>1, <3>1, <3>2 DEF Commutes, Merged, Some
  <2>3. CASE at > i + Len(from)
    <3>1. MergeReshape(Reshape(i, from, to), c) = Merged(Reshape(i, from, to), Rm(at + Len(to) - Len(from)))
      BY <1>0, <2>1, <2>3 DEF MergeReshape, Rm, Reshape
    <3>2. \A x \in Nat : Track(Reshape(i, from, to), Rm(at + Len(to) - Len(from)), x)
                         = Track(Rm(at), Reshape(i, from, to), x)
      BY <1>0, <2>3, SMTT(60) DEF Track, TransformAxis, Canonical, Some, None, If, Rm, Reshape
    <3> QED
      BY <2>1, <3>1, <3>2 DEF Commutes, Merged, Some
  <2> QED
    BY <2>1, <2>2, <2>3, <1>0 DEF MergeReshape, Rm, Reshape
<1> QED
  BY <1>1, <1>2 DEF Op, MoveOp, ReshapeOp, MergeReshape

-----------------------------------------------------------------------------
(* The canonical form of an operator is one, and moves the axes as it does. *)
LEMMA CanonicalOp ==
    ASSUME NEW op \in Op
    PROVE  /\ Canonical(op) \in Op
           /\ Canonical(Canonical(op)) = Canonical(op)
           /\ \A x \in Nat : TransformAxis(Canonical(op), x) = TransformAxis(op, x)
<1>1. Canonical(op) \in Op
  BY DEF Op, AddOp, RmOp, MoveOp, ReshapeOp, Canonical, Move
<1>2. Canonical(Canonical(op)) = Canonical(op)
  BY DEF Op, AddOp, RmOp, MoveOp, ReshapeOp, Canonical, Move
<1> QED
  BY <1>1, <1>2 DEF TransformAxis

-----------------------------------------------------------------------------
(* merge_incoming_change: the operator, then the change that is left of its
   output, or the change of its input, then the operator that replaces it: an
   axis ends up in the same place, or goes in both.  Whatever the axes and the
   rank, for an operator that does not meet the very change it makes. *)
THEOREM MergeKeepsTrack ==
    ASSUME NEW op \in Op, NEW change \in Op, ~ SameOp(change, op),
           MergeIncomingChange(op, change) # None
    PROVE  Commutes(op, change, MergeIncomingChange(op, change)[1])
<1> DEFINE o == Canonical(op)
           c == Canonical(change)
<1>1. o \in Op /\ c \in Op /\ Canonical(o) = o /\ Canonical(c) = c
  BY CanonicalOp
<1>2. /\ \A x \in Nat : TransformAxis(o, x) = TransformAxis(op, x)
      /\ \A x \in Nat : TransformAxis(c, x) = TransformAxis(change, x)
  BY CanonicalOp
<1>3. SUFFICES Commutes(o, c, MergeIncomingChange(op, change)[1])
  BY <1>2 DEF Commutes, Track
<1>4. CASE o \in AddOp
  <2>1. o = Add(o.at) /\ o.at \in Nat
    BY <1>4 DEF AddOp, Add
  <2>2. MergeIncomingChange(op, change) = MergeAdd(o, c)
    BY <1>4 DEF MergeIncomingChange, AddOp
  <2> HIDE DEF o, c
  <2> QED
    BY <1>1, <2>1, <2>2, AddPushed
<1>5. CASE o \in RmOp
  <2>1. o = Rm(o.at) /\ o.at \in Nat
    BY <1>5 DEF RmOp, Rm
  <2>2. MergeIncomingChange(op, change) = MergeRm(o, c)
    BY <1>5 DEF MergeIncomingChange, RmOp
  <2>3. c # Rm(o.at)
    <3>1. SUFFICES ASSUME c = Rm(o.at) PROVE FALSE
      OBVIOUS
    <3>2. op = Rm(o.at) /\ change = Rm(o.at)
      BY <2>1, <3>1 DEF Canonical, Rm, Move
    <3> QED
      BY <3>2 DEF SameOp, IsNoop, Rm
  <2> HIDE DEF o, c
  <2> QED
    BY <1>1, <2>1, <2>2, <2>3, RmPushed
<1>6. CASE o \in MoveOp
  <2>1. o = Move(o.from, o.to) /\ o.from \in Nat /\ o.to \in Nat
    BY <1>6 DEF MoveOp, Move
  <2>2. MergeIncomingChange(op, change) = MergeMove(o, c)
    BY <1>6 DEF MergeIncomingChange, MoveOp
  <2>3. o.from # o.to + 1
    BY <1>1, <1>6 DEF Canonical, MoveOp, Move
  <2> HIDE DEF o, c
  <2> QED
    BY <1>1, <2>1, <2>2, <2>3, MovePushed
<1>7. CASE o \in ReshapeOp
  <2>1. o = Reshape(o.at, o.from, o.to) /\ o.at \in Nat /\ o.from \in Seq(Nat) /\ o.to \in Seq(Nat)
    BY <1>7 DEF ReshapeOp, Reshape
  <2>2. MergeIncomingChange(op, change) = MergeReshape(o, c)
    BY <1>7 DEF MergeIncomingChange, ReshapeOp
  <2> HIDE DEF o, c
  <2> QED
    BY <1>1, <2>1, <2>2, ReshapePushed
<1> QED
  BY <1>1, <1>4, <1>5, <1>6, <1>7 DEF Op

(* The reciprocal of each kind. *)
LEMMA RecipOf ==
    /\ \A at : Recip(Add(at)) = Rm(at) /\ Recip(Rm(at)) = Add(at)
    /\ \A i \in Nat, j \in Nat : Recip(Move(i, j)) = 
                                     IF i = j \/ i + 1 = j THEN Move(i, j) ELSE Move(j, i)
    /\ \A at, from, to : Recip(Reshape(at, from, to)) = Reshape(at, to, from)
<1>1. \A at : Recip(Add(at)) = Rm(at) /\ Recip(Rm(at)) = Add(at)
  BY DEF Recip, Canonical, Add, Rm
<1>2. ASSUME NEW i \in Nat, NEW j \in Nat
      PROVE  Recip(Move(i, j)) = IF i = j \/ i + 1 = j THEN Move(i, j) ELSE Move(j, i)
  <2>1. CASE i = j + 1
    <3>1. Canonical(Move(i, j)) = Move(j, i)
      BY <2>1 DEF Canonical, Move
    <3> QED
      BY <2>1, <3>1 DEF Recip, Move
  <2>2. CASE i # j + 1
    <3>1. Canonical(Move(i, j)) = Move(i, j)
      BY <2>2 DEF Canonical, Move
    <3> QED
      BY <2>2, <3>1 DEF Recip, Move
  <2> QED
    BY <2>1, <2>2
<1>3. \A at, from, to : Recip(Reshape(at, from, to)) = Reshape(at, to, from)
  BY DEF Recip, Canonical, Reshape
<1> QED
  BY <1>1, <1>2, <1>3

(* recip: what an operator does to an axis, its reciprocal undoes, unless the axis
   is gone. *)
THEOREM RecipUndoes ==
    ASSUME NEW op \in Op, NEW x \in Nat, TransformAxis(op, x) # None
    PROVE  TransformAxis(Recip(op), TransformAxis(op, x)[1]) = Some(x)
<1>1. CASE op \in AddOp
  <2>1. PICK at \in Nat : op = Add(at)
    BY <1>1 DEF AddOp, Add
  <2>2. TransformAxis(Rm(at), TransformAxis(Add(at), x)[1]) = Some(x)
    BY SMTT(60) DEF TransformAxis, Canonical, Some, None, If, Add, Rm
  <2> QED
    BY <2>1, <2>2, RecipOf
<1>2. CASE op \in RmOp
  <2>1. PICK at \in Nat : op = Rm(at)
    BY <1>2 DEF RmOp, Rm
  <2>2. x # at
    BY <2>1 DEF TransformAxis, Canonical, None, Rm
  <2>3. TransformAxis(Add(at), TransformAxis(Rm(at), x)[1]) = Some(x)
    BY <2>2, SMTT(60) DEF TransformAxis, Canonical, Some, None, If, Add, Rm
  <2> QED
    BY <2>1, <2>3, RecipOf
<1>3. CASE op \in MoveOp
  <2>1. PICK i \in Nat, j \in Nat : op = Move(i, j)
    BY <1>3 DEF MoveOp, Move
  <2>2. CASE i = j \/ i + 1 = j
    <3>1. TransformAxis(Move(i, j), TransformAxis(Move(i, j), x)[1]) = Some(x)
      BY <2>2, SMTT(60) DEF TransformAxis, Canonical, Some, None, Move
    <3> QED
      BY <2>1, <2>2, <3>1, RecipOf
  <2>3. CASE ~ (i = j \/ i + 1 = j)
    <3>1. TransformAxis(Move(j, i), TransformAxis(Move(i, j), x)[1]) = Some(x)
      BY <2>3, SMTT(60) DEF TransformAxis, Canonical, Some, None, Move
    <3> QED
      BY <2>1, <2>3, <3>1, RecipOf
  <2> QED
    BY <2>2, <2>3
<1>4. CASE op \in ReshapeOp
  <2>1. PICK i \in Nat, from \in Seq(Nat), to \in Seq(Nat) : op = Reshape(i, from, to)
    BY <1>4 DEF ReshapeOp, Reshape
  <2>2. Len(from) \in Nat /\ Len(to) \in Nat
    OBVIOUS
  <2>3. x < i \/ x >= i + Len(from)
    BY <2>1, <2>2 DEF TransformAxis, Canonical, None, Reshape
  <2>4. TransformAxis(Reshape(i, to, from), TransformAxis(Reshape(i, from, to), x)[1]) = Some(x)
    BY <2>2, <2>3, SMTT(60) DEF TransformAxis, Canonical, Some, None, Reshape
  <2> QED
    BY <2>1, <2>4, RecipOf
<1> QED
  BY <1>1, <1>2, <1>3, <1>4 DEF Op

(* The reciprocal of the reciprocal is the operator, as the test recip says. *)
THEOREM RecipTwice ==
    ASSUME NEW op \in Op
    PROVE  Recip(Recip(op)) = Canonical(op)
<1>1. CASE op \in AddOp \cup RmOp
  <2>1. PICK at \in Nat : op = Add(at) \/ op = Rm(at)
    BY <1>1 DEF AddOp, RmOp, Add, Rm
  <2>2. Canonical(op) = op
    BY <2>1 DEF Canonical, Add, Rm
  <2> QED
    BY <2>1, <2>2, RecipOf
<1>2. CASE op \in MoveOp
  <2>1. PICK i \in Nat, j \in Nat : op = Move(i, j)
    BY <1>2 DEF MoveOp, Move
  <2>2. Canonical(Move(i, j)) = IF i = j + 1 THEN Move(j, i) ELSE Move(i, j)
    BY DEF Canonical, Move
  <2>3. CASE i = j \/ i + 1 = j
    BY <2>1, <2>2, <2>3, RecipOf
  <2>4. CASE i = j + 1
    BY <2>1, <2>2, <2>4, RecipOf
  <2>5. CASE i # j /\ i + 1 # j /\ i # j + 1
    BY <2>1, <2>2, <2>5, RecipOf
  <2> QED
    BY <2>3, <2>4, <2>5
<1>3. CASE op \in ReshapeOp
  <2>1. PICK i \in Nat, from \in Seq(Nat), to \in Seq(Nat) : op = Reshape(i, from, to)
    BY <1>3 DEF ReshapeOp, Reshape
  <2>2. Canonical(op) = op
    BY <2>1 DEF Canonical, Reshape
  <2> QED
    BY <2>1, <2>2, RecipOf
<1> QED
  BY <1>1, <1>2, <1>3 DEF Op
=============================================================================
