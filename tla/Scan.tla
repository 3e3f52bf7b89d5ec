-------------------------------- MODULE Scan --------------------------------
(***************************************************************************)
(* The Scan operator: a loop over chunks of its inputs, with a body and    *)
(* states that go from an iteration to the next.  It is first rewritten by *)
(* the rules of its declutter (core/src/ops/scan/mir.rs), one at a time,   *)
(* then made a LirScan and called, over and over when it is in a streaming *)
(* model: the states live across the calls (core/src/ops/scan/lir.rs).     *)
(*                                                                         *)
(* The body is the terms of its outputs over its inputs; its operators     *)
(* work frame by frame, so that they can be pulled out of the loop.  A     *)
(* frame is a term too.  A chunk is a sequence of frames.                  *)
(***************************************************************************)
EXTENDS Integers, Sequences, SequencesExt

CONSTANTS
    Problems,   \* set of [imap, omap, body, inputs, results, konst, used,
                \*         chunk, backward, skip, streaming, hinted, length]
    MaxFails    \* how many iterations may fail

VARIABLES
    problem,    \* the op as it was built, and how it is called
    op,         \* the op now: [imap, omap, body, inputs, results]
    phase,      \* "declutter", "idle", "iterating"
    position,   \* LirScan: how many iterations were begun
    hidden,     \* LirScan: the states, <<>> before the first call
    call,       \* the call being executed: [i, frames, inputs, outputs]
    fed,        \* history: how many frames the calls took
    origin,     \* history: the first frame after the last failure
    returned,   \* history: the last results, [start, frames, results]
    fails       \* history: how many iterations failed

vars == <<problem, op, phase, position, hidden, call, fed, origin, returned, fails>>

Idle    == [i |-> 0, frames |-> 0, inputs |-> <<>>, outputs |-> <<>>]
Nothing == [start |-> 0, frames |-> 0, results |-> <<>>]

-----------------------------------------------------------------------------
(* Terms: <<"in", id>> is an input of the body, <<"out", slot>> an output  *)
(* of the operator, <<"x", j>> the j-th wire it was built on.              *)

IsLeaf(term) == term[1] \in {"in", "out", "x"}
Args(term)   == {term[a] : a \in 2 .. Len(term)}

RECURSIVE Frame(_, _, _)
\* The k-th frame of a term, given the frames of its leaves.
Frame(term, leaf, k) ==
    IF IsLeaf(term) THEN leaf[term[2]][k]
    ELSE [a \in DOMAIN term |-> IF a = 1 THEN term[1] ELSE Frame(term[a], leaf, k)]

RECURSIVE FirstLeaf(_)
FirstLeaf(term) == IF IsLeaf(term) THEN term[2] ELSE FirstLeaf(term[2])

\* All of them.
Value(term, leaf) == [k \in DOMAIN leaf[FirstLeaf(term)] |-> Frame(term, leaf, k)]

RECURSIVE Replace(_, _, _)
Replace(term, old, new) ==
    IF term = old THEN new
    ELSE IF IsLeaf(term) THEN term
    ELSE [a \in DOMAIN term |-> IF a = 1 THEN term[1] ELSE Replace(term[a], old, new)]

RECURSIVE Subterms(_)
Subterms(term) == {term} \cup (IF IsLeaf(term) THEN {} ELSE UNION {Subterms(t) : t \in Args(term)})

Nodes(terms) == UNION {Subterms(terms[i]) : i \in DOMAIN terms}
\* What has a successor: being an output is not having one.
Read(terms)  == UNION {IF IsLeaf(t) THEN {} ELSE Args(t) : t \in Nodes(terms)}

-----------------------------------------------------------------------------
(* The mappings.  An input mapping is a "scan", a "state" or a "full", of  *)
(* an outer input (slot); a state of slot 0 has a constant initial value,  *)
(* that of wire init.  An output mapping gives the slots of its full value *)
(* and of its last value, 0 for none, and tells if it is a state.          *)

IsState(m)       == m.kind = "state"
NumStates(imap)  == Len(SelectSeq(imap, IsState))
StateOutput(h)   == SetToSortSeq({m \in DOMAIN problem.omap : problem.omap[m].state}, <)[h]
SlotList(omap)   == SelectSeq(FoldLeft(LAMBDA acc, m : acc \o <<m.full, m.last>>, <<>>, omap),
                              LAMBDA slot : slot # 0)
NumOutputs(omap) == Len(SlotList(omap))

\* A slot, when one of them is removed.
Closed(slot, discarded) == IF slot > discarded THEN slot - 1 ELSE slot

\* remove_outer_input_from_mappings
RemoveOuterInput(imap, discarded) ==
    [k \in DOMAIN imap |-> [imap[k] EXCEPT !.slot = Closed(@, discarded)]]

\* A mutant: the slots after the one removed keep their number.
RemoveOuterOutputOpen(omap, discarded) == omap

\* remove_outer_output_from_mappings
RemoveOuterOutput(omap, discarded) ==
    [m \in DOMAIN omap |-> [omap[m] EXCEPT !.full = Closed(@, discarded), !.last = Closed(@, discarded)]]

\* The outer outputs that something reads.
UsedSlots ==
    {t[2] : t \in {s \in UNION {Subterms(op.results[o]) : o \in problem.used} : s[1] = "out"}}

-----------------------------------------------------------------------------
(* Declutter: what each rule applies to, in the order they are tried.      *)

\* The inputs of the body that nothing reads.
Unread == {k \in DOMAIN op.imap : <<"in", op.imap[k].id>> \notin Read(op.body)}

\* The operators that read a scanned input and nothing else.
Batchable ==
    {<<k, t>> \in (DOMAIN op.imap) \X Nodes(op.body) :
        op.imap[k].kind = "scan" /\ Len(t) = 2 /\ ~ IsLeaf(t) /\ t[2] = <<"in", op.imap[k].id>>}

\* A mutant: whether something reads the output is not looked at.
EmittedUnread ==
    {m \in DOMAIN op.omap :
        /\ op.body[m] \notin Read(op.body)
        /\ ~ op.omap[m].state
        /\ problem.chunk = 1 \/ problem.backward
        /\ ~ IsLeaf(op.body[m])}

\* The outputs whose last operator can be applied to whole sequences.
Emitted ==
    {m \in DOMAIN op.omap :
        /\ {op.omap[m].full, op.omap[m].last} \cap UsedSlots # {}
        /\ op.body[m] \notin Read(op.body)
        /\ ~ op.omap[m].state
        /\ problem.chunk = 1 \/ problem.backward
        /\ ~ IsLeaf(op.body[m])}

\* The states that start from a constant.
ConstStates ==
    {k \in DOMAIN op.imap :
        IsState(op.imap[k]) /\ op.imap[k].slot > 0 /\ op.inputs[op.imap[k].slot][2] \in problem.konst}

\* The outputs that nothing reads.
Useless == (1 .. NumOutputs(op.omap)) \ UsedSlots

\* The output mappings that give nothing.
EmptyOutputs ==
    {m \in DOMAIN op.omap : op.omap[m].full = 0 /\ op.omap[m].last = 0 /\ ~ op.omap[m].state}

\* The first rule that applies, 0 for none.
Rule == LET found == <<Unread, Batchable, Emitted, ConstStates, Useless, EmptyOutputs>>
            firing == {r \in 1 .. 6 : found[r] # {}}
        IN  IF firing = {} THEN 0 ELSE CHOOSE r \in firing : \A q \in firing : r <= q

First(S) == CHOOSE k \in S : \A l \in S : k <= l

Rewrite(rule, new) ==
    /\ phase = "declutter"
    /\ Rule = rule
    /\ op' = new
    /\ UNCHANGED <<problem, phase, position, hidden, call, fed, origin, returned, fails>>

\* declutter_discard_unused_input_mapping
DiscardInput ==
    Rewrite(1,
      LET k    == First(Unread)
          slot == op.imap[k].slot
          imap == RemoveAt(op.imap, k)
      IN  IF slot = 0 THEN [op EXCEPT !.imap = imap]
          ELSE [op EXCEPT !.imap = RemoveOuterInput(imap, slot), !.inputs = RemoveAt(@, slot)])

\* declutter_pull_batcheable_input: an operator that only reads a scanned input
\* is applied to the whole of it, outside.
PullInput ==
    Rewrite(2,
      LET pull == CHOOSE pull \in Batchable : \A other \in Batchable : pull[1] <= other[1]
          m    == op.imap[pull[1]]
          t    == pull[2]
      IN  [op EXCEPT
             !.body = [b \in DOMAIN @ |-> Replace(@[b], t, <<"in", t>>)],
             !.inputs = Append(@, <<t[1], op.inputs[m.slot]>>),
             !.imap = Append(@, [m EXCEPT !.id = t, !.slot = Len(op.inputs) + 1])])

\* An inner wire is put out whole: by the output mapping that has it already,
\* completed, or by a new one, like that of the operator which is pulled.
Exported(acc, term) ==
    LET known == {m \in DOMAIN acc.body : acc.body[m] = term}
        count == NumOutputs(acc.omap)
        old   == acc.omap[First(known)]
        last  == IF old.last = 0 THEN count + 1 ELSE old.last
        full  == IF old.full # 0 THEN old.full ELSE IF old.last = 0 THEN count + 2 ELSE count + 1
    IN  IF known = {}
        THEN [acc EXCEPT !.body = Append(@, term), !.slots = Append(@, count + 1),
                         !.omap = Append(@, [acc.like EXCEPT !.full = count + 1, !.last = count + 2])]
        ELSE [acc EXCEPT !.slots = Append(@, full),
                         !.omap = [@ EXCEPT ![First(known)].last = last, ![First(known)].full = full]]

RECURSIVE AllExported(_, _)
\* All the inputs of the operator, one after the other: a set of one, so that each
\* step is evaluated once.
AllExported(acc, terms) ==
    IF terms = <<>> THEN {acc}
    ELSE UNION {AllExported(next, Tail(terms)) : next \in {Exported(acc, Head(terms))}}

\* declutter_pull_batcheable_output: the last operator of an output is applied
\* to the whole of its inputs, outside.
PullOutput ==
    \E m \in Emitted :
      LET t    == op.body[m]
          Wire(slots) == <<t[1]>> \o [a \in DOMAIN slots |-> <<"out", slots[a]>>]
      IN  /\ m = First(Emitted)
          /\ \E done \in AllExported([body |-> op.body, omap |-> op.omap, slots |-> <<>>,
                                      like |-> op.omap[m]], Tail(t)) :
               Rewrite(3, [op EXCEPT
                 !.body = done.body, !.omap = done.omap,
                 !.results = [o \in DOMAIN @ |->
                                Replace(@[o], <<"out", op.omap[m].full>>, Wire(done.slots))]])

\* declutter_const_initializer
ConstInitializer ==
    Rewrite(4,
      LET k    == First(ConstStates)
          slot == op.imap[k].slot
          imap == [op.imap EXCEPT ![k].slot = 0, ![k].init = op.inputs[slot][2]]
      IN  [op EXCEPT !.imap = RemoveOuterInput(imap, slot), !.inputs = RemoveAt(@, slot)])

RECURSIVE Renumbered(_, _)
Renumbered(term, discarded) ==
    IF term[1] = "out" THEN <<"out", Closed(term[2], discarded)>>
    ELSE IF IsLeaf(term) THEN term
    ELSE [a \in DOMAIN term |-> IF a = 1 THEN term[1] ELSE Renumbered(term[a], discarded)]

\* declutter_discard_useless_outer_output
DiscardOutput ==
    Rewrite(5,
      LET slot == First(Useless)
          Kept(s) == IF s = slot THEN 0 ELSE s
          omap == [m \in DOMAIN op.omap |->
                     [op.omap[m] EXCEPT !.full = Kept(@), !.last = Kept(@)]]
      IN  [op EXCEPT
             !.omap = RemoveOuterOutput(omap, slot),
             !.results = [o \in DOMAIN @ |-> Renumbered(@[o], slot)]])

\* declutter_discard_empty_output_mapping_with_body_output
DiscardOutputMapping ==
    Rewrite(6, LET m == First(EmptyOutputs)
               IN  [op EXCEPT !.omap = RemoveAt(@, m), !.body = RemoveAt(@, m)])

Declutter ==
    \/ DiscardInput \/ PullInput \/ PullOutput \/ ConstInitializer \/ DiscardOutput
    \/ DiscardOutputMapping

\* codegen: the rules are exhausted, the operator becomes a LirScan.
Codegen ==
    /\ phase = "declutter"
    /\ Rule = 0
    /\ phase' = "idle"
    /\ UNCHANGED <<problem, op, position, hidden, call, fed, origin, returned, fails>>

-----------------------------------------------------------------------------
(* Calls.                                                                  *)

Junk == <<"uninitialized">>

\* How many frames are before the first one that counts.
Early == problem.skip * problem.chunk

\* The j-th wire in a call: a piece of stream, or the size of a chunk.
Fed(j, frames) ==
    IF problem.inputs[j] = "scan" THEN [k \in 1 .. frames |-> <<"x", j, fed + k - 1 - Early>>]
    ELSE [k \in 1 .. problem.chunk |-> <<"x", j, k - 1>>]

\* The state, at the first call: that of every state mapping.
Initialized(imap, inputs, constant) ==
    FoldLeft(LAMBDA acc, m : IF ~ IsState(m) THEN acc
                             ELSE Append(acc, IF m.slot = 0 THEN constant[m.init] ELSE inputs[m.slot]),
             <<>>, imap)

Iterations(frames) == (frames + problem.chunk - 1) \div problem.chunk

\* An output before the first iteration: whole, or the last value.
Allocated(frames, slot) ==
    IF \E m \in DOMAIN op.omap : op.omap[m].full = slot
    THEN [k \in 1 .. IF problem.hinted THEN problem.length ELSE problem.chunk * Iterations(frames) |-> Junk]
    ELSE <<>>

Call ==
    \E frames \in 1 .. problem.length - fed :
      LET wires  == [j \in DOMAIN problem.inputs |-> Fed(j, frames)]
          inputs == [slot \in DOMAIN op.inputs |-> Value(op.inputs[slot], wires)]
      IN  /\ phase = "idle"
          /\ IF problem.streaming THEN frames % problem.chunk = 0 ELSE frames = problem.length
          /\ phase' = "iterating"
          /\ hidden' = IF hidden = <<>> THEN Initialized(op.imap, inputs, wires) ELSE hidden
          /\ call' = [i |-> 0, frames |-> frames, inputs |-> inputs,
                      outputs |-> [slot \in 1 .. NumOutputs(op.omap) |-> Allocated(frames, slot)]]
          /\ UNCHANGED <<problem, op, position, fed, origin, returned, fails>>

More == phase = "iterating" /\ call.i < Iterations(call.frames)

\* The first iterations are for frames that do not count.
SkipIteration ==
    /\ More
    /\ position + 1 <= problem.skip
    /\ position' = position + 1
    /\ call' = [call EXCEPT !.i = @ + 1]
    /\ UNCHANGED <<problem, op, phase, hidden, fed, origin, returned, fails>>

\* A mutant: the chunks are always taken from the beginning.
SliceInputForwards(input, i) ==
    [d \in 1 .. problem.chunk |->
        LET p == i * problem.chunk + d IN IF p \in DOMAIN input THEN input[p] ELSE Junk]

\* slice_input: the i-th chunk, from the end when the chunks are negative.
SliceInput(input, i) ==
    [d \in 1 .. problem.chunk |->
        LET p == IF problem.backward THEN Len(input) - (i * problem.chunk + problem.chunk - d)
                 ELSE i * problem.chunk + d
        IN  IF p \in DOMAIN input THEN input[p] ELSE Junk]

\* assign_output
AssignOutput(output, value, i) ==
    LET offset == IF problem.backward THEN Len(output) - 1 - i * Len(value) ELSE i * Len(value)
    IN  [k \in DOMAIN output |-> IF k - offset \in DOMAIN value THEN value[k - offset] ELSE output[k]]

\* What the k-th input of the body gets in an iteration.  The states come in the
\* order of their mappings.
IterationInput(k) ==
    LET m == op.imap[k]
    IN  CASE m.kind = "state" -> hidden[NumStates(SubSeq(op.imap, 1, k))]
          [] m.kind = "scan"  -> SliceInput(call.inputs[m.slot], call.i)
          [] m.kind = "full"  -> call.inputs[m.slot]

BodyOutputs ==
    LET ids  == {op.imap[k].id : k \in DOMAIN op.imap}
        leaf == [id \in ids |-> IterationInput(CHOOSE k \in DOMAIN op.imap : op.imap[k].id = id)]
    IN  [m \in DOMAIN op.body |-> Value(op.body[m], leaf)]

\* The outputs, when the body gave value for an output mapping.
Stored(outputs, m, value) ==
    [slot \in DOMAIN outputs |->
        IF slot = op.omap[m].last /\ call.i = Iterations(call.frames) - 1 THEN value
        ELSE IF slot = op.omap[m].full THEN AssignOutput(outputs[slot], value, call.i)
        ELSE outputs[slot]]

Iterate ==
    /\ More
    /\ position + 1 > problem.skip
    /\ LET values == BodyOutputs
           all    == [m \in DOMAIN values |-> m]
           states == SelectSeq(all, LAMBDA m : op.omap[m].state)
       IN  /\ call' = [call EXCEPT !.i = @ + 1,
                          !.outputs = FoldLeft(LAMBDA acc, m : Stored(acc, m, values[m]), @, all)]
           /\ hidden' = [h \in DOMAIN states |-> values[states[h]]]
    /\ position' = position + 1
    /\ UNCHANGED <<problem, op, phase, fed, origin, returned, fails>>

\* A mutant: the states are put back.
BodyFailsUntouched ==
    /\ More
    /\ position + 1 > problem.skip
    /\ fails < MaxFails
    /\ phase' = "idle"
    /\ position' = position + 1
    /\ call' = Idle
    /\ fed' = fed + call.frames
    /\ origin' = fed + call.frames - Early
    /\ returned' = Nothing
    /\ fails' = fails + 1
    /\ UNCHANGED <<problem, op, hidden>>

\* The states were taken, the body returns an error: the call is lost.
BodyFails ==
    /\ More
    /\ position + 1 > problem.skip
    /\ fails < MaxFails
    /\ phase' = "idle"
    /\ position' = position + 1
    /\ hidden' = <<>>
    /\ call' = Idle
    /\ fed' = fed + call.frames
    /\ origin' = fed + call.frames - Early
    /\ returned' = Nothing
    /\ fails' = fails + 1
    /\ UNCHANGED <<problem, op>>

\* The results, with the operators that were pulled out of the loop.
Return ==
    /\ phase = "iterating"
    /\ ~ More
    /\ phase' = "idle"
    /\ call' = Idle
    /\ fed' = fed + call.frames
    /\ returned' = [start |-> fed - Early, frames |-> call.frames,
                    results |-> [o \in DOMAIN op.results |->
                                    IF o \in problem.used THEN Value(op.results[o], call.outputs)
                                    ELSE <<>>]]
    /\ UNCHANGED <<problem, op, position, hidden, origin, fails>>

Init ==
    /\ problem \in Problems
    /\ op = [imap |-> problem.imap, omap |-> problem.omap, body |-> problem.body,
             inputs |-> [j \in DOMAIN problem.inputs |-> <<"x", j>>],
             results |-> [o \in 1 .. NumOutputs(problem.omap) |-> <<"out", o>>]]
    /\ phase = "declutter"
    /\ position = 0
    /\ hidden = <<>>
    /\ call = Idle
    /\ fed = 0
    /\ origin = 0
    /\ returned = Nothing
    /\ fails = 0

Next ==
    Declutter \/ Codegen \/ Call \/ SkipIteration \/ Iterate \/ BodyFails \/ Return

Spec     == Init /\ [][Next]_vars
FairSpec == Spec /\ WF_vars(Next)

-----------------------------------------------------------------------------
(* The loop as it was built, frame by frame: no slot, no chunk, no call.   *)

\* Whether a frame is of the first iteration, and where its state comes from.
Starts(p)   == IF problem.backward THEN p = problem.length - 1 ELSE p - problem.chunk < origin
Previous(p) == IF problem.backward THEN p + 1 ELSE p - problem.chunk

RECURSIVE Unrolled(_, _)
\* Frame p of the m-th output of the body.
Unrolled(m, p) ==
    LET Leaf(k) ==
            LET slot == problem.imap[k].slot
                h    == NumStates(SubSeq(problem.imap, 1, k))
            IN  IF problem.imap[k].kind = "scan" THEN <<"x", slot, p>>
                ELSE IF problem.imap[k].kind = "full" \/ Starts(p) THEN <<"x", slot, p % problem.chunk>>
                ELSE Unrolled(StateOutput(h), Previous(p))
        ids  == {problem.imap[k].id : k \in DOMAIN problem.imap}
    IN  Frame(problem.body[m],
              [id \in ids |-> <<Leaf(CHOOSE k \in DOMAIN problem.imap : problem.imap[k].id = id)>>], 1)

-----------------------------------------------------------------------------
(* Properties.                                                             *)

\* Whatever the rules do to the mappings, every wire into the operator is read by
\* one of them, and its outputs are numbered without a hole or a duplicate: the
\* evaluation sorts them by slot, then takes the slot for an index (lir.rs:187).
SlotsAreExact ==
    LET read  == SelectSeq([k \in DOMAIN op.imap |-> op.imap[k].slot], LAMBDA slot : slot # 0)
        given == SlotList(op.omap)
    IN  /\ ToSet(read) = DOMAIN op.inputs /\ Len(read) = Len(op.inputs)
        /\ ToSet(given) = 1 .. Len(given)
        /\ UsedSlots \subseteq ToSet(given)

\* What a call returns is what the loop that was built computes: neither the
\* rewriting, nor the chunks and their order, nor the cutting of the stream in
\* calls changes a frame that counts.
ResultsUnrolled ==
    \A o \in IF returned.frames = 0 THEN {} ELSE problem.used :
      \A m \in DOMAIN problem.omap :
        LET r    == returned.results[o]
            last == IF problem.backward THEN 0 ELSE returned.start + returned.frames - problem.chunk
        IN  /\ problem.omap[m].full = o =>
                  \A k \in 1 .. returned.frames :
                    returned.start + k > 0 => r[k] = Unrolled(m, returned.start + k - 1)
            /\ (problem.omap[m].last = o /\ last >= 0 /\ returned.frames % problem.chunk = 0) =>
                  \A d \in 1 .. problem.chunk : r[d] = Unrolled(m, last + d - 1)

\* Between two calls the states are those of the loop after the frames fed so far,
\* or none after a failure: no call starts with half of them, or stale ones.
StatesCarried ==
    (phase = "idle" /\ problem.streaming /\ hidden # <<>>) =>
      \A h \in 1 .. NumStates(problem.imap) : \A d \in 1 .. problem.chunk :
        LET p == fed - Early - problem.chunk + d - 1
        IN  p >= origin => hidden[h][d] = Unrolled(StateOutput(h), p)

\* The rules are exhausted at some point: no two of them undo one another, and
\* none applies forever.
Settles == <>(phase # "declutter")
=============================================================================
