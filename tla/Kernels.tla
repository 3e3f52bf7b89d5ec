------------------------------ MODULE Kernels -------------------------------
(***************************************************************************)
(* The matrix multiplication of tract-linalg (linalg/src/frame/pack,       *)
(* mmm/mmm, mmm/storage, mmm/scratch, generic/mmm): A and B are packed in  *)
(* panels, the product is computed a tile at a time, non linear operations *)
(* fused, and the tiles that cross the border of C go through a scratch    *)
(* space.  Memory is a sequence of items; offsets are counted from 0.      *)
(***************************************************************************)
EXTENDS Patches

CONSTANTS MR, NR, \* the rows and columns of a tile
          Garbage \* what memory holds before it is written

ASSUME KernelAssumption == MR \in Nat \ {0} /\ NR \in Nat \ {0} /\ Garbage \in Int

\* The kernel for this number of columns, when it is known: Ops::mmm.
Mmm(n) == [mr |-> MR, nr |-> IF n = Some(1) THEN 1 ELSE NR]

Memory(size)     == [i \in 1 .. size |-> Garbage] \o <<>>
At0(data, i)     == IF i + 1 \in DOMAIN data THEN data[i + 1] ELSE Garbage
Put0(data, i, x) == [data EXCEPT ![i + 1] = x]

-----------------------------------------------------------------------------
(* Packers.                                                                *)

Packer(k, r)      == [k |-> k, r |-> r]
PackedLen(p, mn)  == CeilDiv(mn, p.r) * p.k * p.r
PackedDim(p, mn)  == Times(Times(DivCeil(mn, p.r), Val(p.k)), Val(p.r))

Panels(p, mn)         == (mn + p.r - 1) \div p.r
LastPanelWidth(p, mn) == mn - (Panels(p, mn) - 1) * p.r
PanelWidth(p, mn, panel) == IF panel = Panels(p, mn) - 1 THEN LastPanelWidth(p, mn) ELSE p.r

\* KOutWriter::write: the items of a row of B, or a column of A, come in order.
KOutWrite(p, mn, w, x) ==
    LET panel == IF w.remain > 1 THEN w.panel ELSE (w.panel + 1) % Panels(p, mn)
        jump  == IF w.remain > 1 THEN 0
                 ELSE IF w.panel + 1 = Panels(p, mn)
                 THEN p.r - (LastPanelWidth(p, mn) + (Panels(p, mn) - 1) * p.r * p.k)
                 ELSE (p.k - 1) * p.r
    IN  [data |-> Put0(w.data, w.ptr, x), ptr |-> w.ptr + 1 + jump, panel |-> panel,
         remain |-> IF w.remain > 1 THEN w.remain - 1 ELSE PanelWidth(p, mn, panel)]

\* KInWriter::write: the items to multiply and sum come in order.
KInWrite(p, mn, w, x) ==
    LET lane  == w.onK = 1
        panel == w.panel + If(lane /\ w.onMn = 1)
    IN  [data |-> Put0(w.data, w.ptr, x), panel |-> panel,
         ptr  |-> w.ptr + p.r + (IF ~ lane THEN 0 ELSE IF w.onMn > 1 THEN 1 - p.k * p.r ELSE 1 - p.r),
         onK  |-> IF lane THEN p.k ELSE w.onK - 1,
         onMn |-> IF ~ lane THEN w.onMn ELSE IF w.onMn > 1 THEN w.onMn - 1 ELSE PanelWidth(p, mn, panel)]

\* What is in memory after all the items were written, a row or a column after the other.
KOuter(p, mn, rows) ==
    InTurn(LAMBDA written, row : InTurn(LAMBDA w, x : KOutWrite(p, mn, w, x), written, row),
           [data |-> Memory(PackedLen(p, mn)), ptr |-> 0, panel |-> 0, remain |-> PanelWidth(p, mn, 0)],
           rows).data
KInner(p, mn, columns) ==
    InTurn(LAMBDA written, column : InTurn(LAMBDA w, x : KInWrite(p, mn, w, x), written, column),
           [data |-> Memory(PackedLen(p, mn)), ptr |-> 0, panel |-> 0, onK |-> p.k,
            onMn |-> PanelWidth(p, mn, 0)],
           columns).data

\* Packer::pack of a matrix that starts at base, of given strides.
Pack(p, data, base, mn, kStride, mnStride) ==
    LET item(k, x) == data[base + k * kStride + x * mnStride + 1]
        row(k)     == [x \in 1 .. mn |-> item(k, x - 1)]
        column(x)  == [k \in 1 .. p.k |-> item(k - 1, x)]
    IN  IF p.r = 1 /\ kStride = 1 /\ mn = 1 THEN column(0)
        ELSE IF mnStride # 1 /\ kStride = 1
        THEN KInner(p, mn, [x \in 1 .. mn |-> column(x - 1)])
        ELSE KOuter(p, mn, [k \in 1 .. p.k |-> row(k - 1)])

-----------------------------------------------------------------------------
(* Stores of B, packed or read in place, and of C.                         *)

BPacked == [is |-> "packed"]

\* The last column is repeated up to the border of the panel.
BOffsets(ker, rows, cols) ==
    [is |-> "offsets", rows |-> rows,
     cols |-> [c \in 1 .. CeilDiv(Len(cols), ker.nr) * ker.nr |-> cols[Least(c, Len(cols))]]]

BItem(ker, k, store, data, base, panel, i, c) ==
    IF store.is = "packed" THEN data[base + (panel * k + i) * ker.nr + c + 1]
    ELSE data[base + store.cols[panel * ker.nr + c + 1] + store.rows[i + 1] + 1]

AItem(ker, k, data, panel, i, r) == data[(panel * k + i) * ker.mr + r + 1]

\* A view of C that starts at base.
CStore(base, row, col, count) == [base |-> base, row |-> row, col |-> col, count |-> count]
TileAt(ker, store, down, right) == store.base + down * ker.mr * store.row + right * ker.nr * store.col

-----------------------------------------------------------------------------
(* The scratch space: buffers of given sizes, used again from a tile to    *)
(* the next and, in a session, from a node to the next.                    *)

Buffer(size) == [used |-> TRUE, size |-> size, data |-> Memory(size)]
Clear(scratch) == [b \in DOMAIN scratch |-> [scratch[b] EXCEPT !.used = FALSE]]

FreeBuffers(scratch, size) == {b \in DOMAIN scratch : ~ scratch[b].used /\ scratch[b].size = size}

GetRawBuffer(scratch, size) ==
    LET free == FreeBuffers(scratch, size)
        at   == CHOOSE b \in free : \A o \in free : b <= o
    IN  IF free # {} THEN [scratch |-> [scratch EXCEPT ![at].used = TRUE], at |-> at]
        ELSE [scratch |-> Append(scratch, Buffer(size)), at |-> Len(scratch) + 1]

\* Where an operand is: in a tensor, or in a buffer; of given strides when it is a tile.
InTensor(data, base, row, col) == [at |-> 0, data |-> data, base |-> base, row |-> row, col |-> col]
InBuffer(at, row, col)         == [at |-> at, data |-> <<>>, base |-> 0, row |-> row, col |-> col]
Operand(scratch, op, r, c) ==
    At0(IF op.at = 0 THEN op.data ELSE scratch[op.at].data, op.base + r * op.row + c * op.col)

PerColumn == {"per_col_mul", "per_col_add"}
PerRow    == {"per_row_mul", "per_row_add"}

\* A vector of an item per row, or per column: at the border it is copied and padded.
Operanded(scratch, operand) == [scratch |-> scratch, operand |-> operand]
VectorIn(temp, v, from, r, row, have) ==
    Operanded([temp.scratch EXCEPT ![temp.at].data = [i \in 1 .. r |-> IF i <= have THEN v[from + i] ELSE 0]],
              InBuffer(temp.at, row, 1 - row))
VectorOf(ker, scratch, v, from, r, row) ==
    IF Least(Saturated(Len(v) - from), r) < ker.mr
    THEN VectorIn(GetRawBuffer(scratch, r), v, from, r, row, Saturated(Len(v) - from))
    ELSE Operanded(scratch, InTensor(v, from, row, 1 - row))
VectorForTile(ker, scratch, perColumn, v, down, right) ==
    IF perColumn THEN VectorOf(ker, scratch, v, right * ker.nr, ker.nr, 0)
    ELSE VectorOf(ker, scratch, v, down * ker.mr, ker.mr, 1)

\* A tensor laid out as C: what is beyond its end is not copied.
TileFrom(temp, v, from(_), count, mr) ==
    Operanded([temp.scratch EXCEPT ![temp.at].data =
                  [i \in DOMAIN @ |-> IF from(i - 1) < count THEN v[from(i - 1) + 1] ELSE @[i]]],
              InBuffer(temp.at, 1, mr))
TileForTile(ker, scratch, v, store, base) ==
    IF base + (ker.mr - 1) * store.row + (ker.nr - 1) * store.col > store.count
    THEN TileFrom(GetRawBuffer(scratch, ker.mr * ker.nr), v,
                  LAMBDA i : base + (i % ker.mr) * store.row + (i \div ker.mr) * store.col, store.count, ker.mr)
    ELSE Operanded(scratch, InTensor(v, base, store.row, store.col))

\* fused_for_tile: the operand of each operation, those of the tile.
OperandForTile(ker, spec, down, right, store, scratch) ==
    IF spec.op \in PerRow \union PerColumn
    THEN VectorForTile(ker, scratch, spec.op \in PerColumn, spec.v, down, right)
    ELSE IF spec.op = "add_unicast"
    THEN TileForTile(ker, scratch, spec.v, store, TileAt(ker, store, down, right) - store.base)
    ELSE Operanded(scratch, InTensor(spec.v, 0, 0, 0))
WithOperand(fused, op, found) ==
    [scratch |-> found.scratch, fused |-> Append(fused, [op |-> op, operand |-> found.operand])]
FusedForTile(ker, specs, down, right, store, scratch) ==
    InTurn(LAMBDA acc, spec : WithOperand(acc.fused, spec.op,
                                          OperandForTile(ker, spec, down, right, store, acc.scratch)),
           [scratch |-> scratch, fused |-> <<>>], specs)

-----------------------------------------------------------------------------
(* The kernel computes a tile, and the tiles are taken in order.           *)

Fused(op, x, v) ==
    CASE op = "min" -> Least(v, x)
      [] op = "max" -> Most(v, x)
      [] op \in {"per_row_mul", "per_col_mul", "scalar_mul"} -> x * v
      [] op \in {"per_row_add", "per_col_add", "scalar_add", "add_unicast"} -> x + v

TileOf(ker, k, a, b, down, right, fused, scratch) ==
    LET summed(r, c) == SumOf([i \in 1 .. k |-> AItem(ker, k, a, down, i - 1, r)
                                                * BItem(ker, k, b.store, b.data, b.base, right, i - 1, c)])
    IN  [r \in 0 .. ker.mr - 1 |-> [c \in 0 .. ker.nr - 1 |->
            FoldLeft(LAMBDA x, f : Fused(f.op, x, Operand(scratch, f.operand, r, c)), summed(r, c), fused)]]

\* Some of the rows and columns of a tile, in memory.
WriteTile(data, base, row, col, height, width, item(_, _)) ==
    InTurn(LAMBDA d, rc : Put0(d, base + rc[1] * row + rc[2] * col, item(rc[1], rc[2])),
           data, Coordinates(<<height, width>>))

\* A whole tile is computed in C.
InC(ker, store, base, c, scratch, tile) ==
    [c |-> WriteTile(c, base, store.row, store.col, ker.mr, ker.nr, LAMBDA row, col : tile[row][col]),
     scratch |-> scratch]

\* Another is computed in the scratch space, and what belongs to C copied from there.
CopiedFrom(ker, store, base, height, width, c, buffer) ==
    WriteTile(c, base, store.row, store.col, height, width, LAMBDA row, col : buffer[row + col * ker.mr + 1])
InScratch(ker, at, scratch, tile) ==
    [scratch EXCEPT ![at].data = WriteTile(@, 0, 1, ker.mr, ker.mr, ker.nr, LAMBDA row, col : tile[row][col])]
ThroughScratch(ker, store, base, height, width, c, at, scratch) ==
    [c |-> CopiedFrom(ker, store, base, height, width, c, scratch[at].data), scratch |-> scratch]

\* at is the buffer of the tile, 0 when it is whole.
TileRun(ker, k, a, b, store, state, down, right, height, width, at, fused) ==
    LET tile == TileOf(ker, k, a, b, down, right, fused.fused, fused.scratch)
        base == TileAt(ker, store, down, right)
    IN  IF at = 0 THEN InC(ker, store, base, state.c, fused.scratch, tile)
        ELSE ThroughScratch(ker, store, base, height, width, state.c, at, InScratch(ker, at, fused.scratch, tile))
RunTile(ker, k, a, b, store, specs, state, down, right, height, width, temp) ==
    TileRun(ker, k, a, b, store, state, down, right, height, width, temp.at,
            FusedForTile(ker, specs, down, right, store, temp.scratch))
BufferForTile(ker, scratch, height, width) ==
    IF height = ker.mr /\ width = ker.nr THEN [scratch |-> scratch, at |-> 0]
    ELSE GetRawBuffer(scratch, ker.mr * ker.nr)

\* run_with_scratch_space.
RunBounded(ker, k, a, b, store, specs, state, down, right, height, width) ==
    RunTile(ker, k, a, b, store, specs, state, down, right, height, width,
            BufferForTile(ker, Clear(state.scratch), height, width))
RunMmm(ker, m, k, n, a, b, store, specs, state) ==
    InTurn(LAMBDA s, at : RunBounded(ker, k, a, b, store, specs, s, at[1], at[2],
                                     Least(ker.mr, m - at[1] * ker.mr), Least(ker.nr, n - at[2] * ker.nr)),
           state, Coordinates(<<CeilDiv(m, ker.mr), CeilDiv(n, ker.nr)>>))
=============================================================================
