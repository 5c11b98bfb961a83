------------------------------- MODULE RexGrid -------------------------------
(***************************************************************************)
(* The arithmetic of the REX cipher: the grid, its layers, the block       *)
(* cipher in counter mode, and the packets and strings built on it.        *)
(*                                                                         *)
(* A cell is a word of Bits bits, where the code has 64; its halves have   *)
(* Bits/2.  At 8 bits the fold of xtime, 0x1B, still is the remainder of   *)
(* an irreducible polynomial, so the diffusion layer is checked over a     *)
(* field, as in the code.  A grid is its width, its height and its cells,  *)
(* row after row; rows and columns are numbered from 0.                    *)
(***************************************************************************)
EXTENDS Integers, Sequences, FiniteSets, SequencesExt, Bitwise

CONSTANTS
    Bits,           \* bits of a cell (64)
    ShiftUp,        \* shifts of the cell mixing (4 and 5)
    ShiftDown,
    SubcellRounds,  \* SUBCELL_ROUNDS (5)
    Delta,          \* DELTA_32: 2^(Bits/2) over the golden ratio
    RoundKeys       \* ROUND_KEYS, the two whitening keys included (17)

ASSUME CellAssumption ==
    /\ Bits \in {4, 8}
    /\ {ShiftUp, ShiftDown} \subseteq 1 .. (Bits \div 2) - 1
    /\ SubcellRounds \in Nat
    /\ Delta \in 1 .. 2^(Bits \div 2) - 1
    /\ RoundKeys \in Nat \ {0, 1}

Size == 2^Bits

HalfSize == 2^(Bits \div 2)

Cells == 0 .. Size - 1

\* Columns that mix_columns handles at a time, and cells of a vector.
Lane == 4

\* Exclusive or, written ##.
XorTable == [a \in Cells |-> [b \in Cells |-> a ^^ b]]

a ## b == XorTable[a][b]

RotateLeft(x, n) == ((x * 2^n) % Size) + (x \div 2^(Bits - n))

RotateRight(x, n) == RotateLeft(x, (Bits - n) % Bits)

-----------------------------------------------------------------------------
(* The grid.                                                               *)

ValidDimensions(w, h) == w >= 2 /\ h \in {4, 8, 16}

\* The answer of a call that may fail.
None == <<>>

Some(x) == <<x>>

\* A grid by its cells; the concatenation makes TLC evaluate them once.
Shape(w, h, cells) == [w |-> w, h |-> h, cell |-> cells \o <<>>]

At(g, r, c) == g.cell[r * g.w + c + 1]

Zeroes(w, h) == Shape(w, h, [i \in 1 .. w * h |-> 0])

\* from_flat: what is missing stays zero, what is too much is ignored.
FromFlat(w, h, flat) ==
    Shape(w, h, [i \in 1 .. w * h |-> IF i <= Len(flat) THEN flat[i] ELSE 0])

ToFlat(g) == g.cell

KeyCell(u, v, i) ==
    LET a == (u + v) % Size
        b == u ## v
    IN  RotateLeft(a, b % Bits) ## RotateRight(b, a % Bits) ## (i % Size)

KeyFits(w, h, key) == Len(key) = 2 * w * h /\ ValidDimensions(w, h)

FromKey(w, h, key) ==
    FromFlat(w, h, [i \in 1 .. w * h |-> KeyCell(key[i], key[i + w * h], i - 1)])

XorGrids(g, k) == Shape(g.w, g.h, [i \in DOMAIN g.cell |-> g.cell[i] ## k.cell[i]])

-----------------------------------------------------------------------------
(* subcell.  The scalar path works on words, the vector paths on lanes of  *)
(* signed words, whose right shift copies the sign; AVX2 has a logical     *)
(* shift.                                                                  *)

LogicalShift(x, n) == x \div 2^n

SignedShift(x, n) ==
    IF x < Size \div 2 THEN x \div 2^n ELSE x \div 2^n + Size - 2^(Bits - n)

\* One half-step: v takes in u, under the running sum.
MixHalf(v, u, sum, shift(_, _)) ==
    LET spread == ((u * 2^ShiftUp) % Size) ## shift(u, ShiftDown)
    IN  (v + (((spread + u) % Size) ## sum)) % HalfSize

\* The state of the rounds: the halves and the running sum.
ArxRound(s, shift(_, _)) ==
    LET sum == (s.sum + Delta) % Size
        v0  == MixHalf(s.v0, s.v1, sum, shift)
    IN  [v0 |-> v0, v1 |-> MixHalf(s.v1, v0, sum, shift), sum |-> sum]

CellWith(x, round, shift(_, _)) ==
    LET tweak == round % HalfSize
        from  == [v0  |-> (x % HalfSize) ## tweak,
                  v1  |-> shift(x, Bits \div 2) % HalfSize,
                  sum |-> 0]
        to    == FoldLeft(LAMBDA s, n : ArxRound(s, shift), from,
                          [n \in 1 .. SubcellRounds |-> n])
    IN  HalfSize * (to.v1 ## tweak) + to.v0

SubcellCell(x, round) == CellWith(x, round, LogicalShift)

\* chunks_exact_mut(4), then the remainder.
SubcellLanes(g, round, shift(_, _)) ==
    Shape(g.w, g.h, [i \in DOMAIN g.cell |->
        IF i <= g.w * g.h - ((g.w * g.h) % Lane)
        THEN CellWith(g.cell[i], round, shift) ELSE SubcellCell(g.cell[i], round)])

SubcellAvx2(g, round) == SubcellLanes(g, round, LogicalShift)

SubcellPortable(g, round) == SubcellLanes(g, round, SignedShift)

\* subcell dispatches on what the processor has.
Subcell(g, round, avx2) ==
    IF avx2 THEN SubcellAvx2(g, round) ELSE SubcellPortable(g, round)

-----------------------------------------------------------------------------
(* Rows.                                                                   *)

Row(g, r) == [c \in 0 .. g.w - 1 |-> At(g, r, c)]

\* precalculate_shifts: the high word of the product of fold and width.
PrecalculateShifts(g) ==
    [r \in 0 .. g.h - 1 |->
        (FoldLeft(LAMBDA x, c : x ## Row(g, r)[c], 0, [c \in 1 .. g.w |-> c - 1])
            * g.w) \div Size]

Rotated(row, w, n) == [c \in 0 .. w - 1 |-> row[(c + n) % w]]

\* The constant-time rotation: a stage for every bit of the shift.
BarrelShifted(row, w, n) ==
    LET stages == {b \in 0 .. w : 2^b < w}
        stage(t, b) ==
            LET split == w - 2^b
            IN  IF (n \div 2^b) % 2 = 0 THEN t
                ELSE [c \in 0 .. w - 1 |-> IF c < split THEN t[c + 2^b] ELSE t[c - split]]
    IN  FoldLeft(stage, row, [b \in 1 .. Cardinality(stages) |-> b - 1])

ShiftRows(g, shifts, constantTime) ==
    LET shifted == [r \in 0 .. g.h - 1 |->
                      IF constantTime THEN BarrelShifted(Row(g, r), g.w, shifts[r])
                      ELSE Rotated(Row(g, r), g.w, shifts[r])]
    IN  Shape(g.w, g.h, [i \in DOMAIN g.cell |->
                            shifted[(i - 1) \div g.w][(i - 1) % g.w]])

-----------------------------------------------------------------------------
(* Columns.                                                                *)

MDS_4 == << << 1, 2, 4, 6>>, << 2, 1, 6, 4>>, << 4, 6, 1, 2>>, << 6, 4, 2, 1>> >>

MDS_8 ==
    << << 1,  2,  3,  8,  4, 10,  9, 14>>,
       << 2,  1,  8,  3, 10,  4, 14,  9>>,
       << 3,  8,  1,  2,  9, 14,  4, 10>>,
       << 8,  3,  2,  1, 14,  9, 10,  4>>,
       << 4, 10,  9, 14,  1,  2,  3,  8>>,
       <<10,  4, 14,  9,  2,  1,  8,  3>>,
       << 9, 14,  4, 10,  3,  8,  1,  2>>,
       <<14,  9, 10,  4,  8,  3,  2,  1>> >>

\* The rows after the first are read by no code but the compile-time checks.
MDS_16 ==
    LET first == <<1, 2, 3, 8, 4, 32, 64, 16, 5, 128, 6, 18, 12, 65, 132, 37>>
    IN  [i \in 1 .. 16 |-> [j \in 1 .. 16 |-> first[((i - 1) ^^ (j - 1)) + 1]]]

Mds(h) == CASE h = 4 -> MDS_4 [] h = 8 -> MDS_8 [] h = 16 -> MDS_16

IsHadamard(m) ==
    \A i, j \in 0 .. Len(m) - 1 : m[i + 1][j + 1] = m[1][(i ^^ j) + 1]

IsInvolutory(m) == FoldLeft(LAMBDA x, y : x ^^ y, 0, m[1]) = 1

\* Mutant: the bit that leaves the top is lost.
XtimeNoFold(v) == (2 * v) % Size

Xtime(v) == (IF v >= Size \div 2 THEN 27 % Size ELSE 0) ## ((2 * v) % Size)

\* x^e times v.
Power(v, e) == FoldLeft(LAMBDA s, n : Xtime(s), v, [n \in 1 .. e |-> n])

\* mix_terms: what input row k, holding v, adds to an output row whose
\* coefficient is m: a power of x for every bit of it.
Terms(m, v) ==
    FoldLeft(LAMBDA s, e : IF (m \div 2^e) % 2 = 1 THEN s ## Power(v, e) ELSE s,
             0, [e \in 1 .. 8 |-> e - 1])

\* mix_hadamard on one lane, which it indexes by the first row only.
MixLane(x, h) ==
    [i \in 0 .. h - 1 |-> [c \in 0 .. Lane - 1 |->
        FoldLeft(LAMBDA s, k : s ## Terms(Mds(h)[1][(i ^^ k) + 1], x[k][c]),
                 0, [k \in 1 .. h |-> k - 1])]]

\* A lane of columns from col on, padded with zeroes.
Gather(g, col) ==
    [k \in 0 .. g.h - 1 |-> [c \in 0 .. Lane - 1 |->
        IF col + c < g.w THEN At(g, k, col + c) ELSE 0]]

MixColumns(g) ==
    LET out == [n \in 0 .. (g.w - 1) \div Lane |-> MixLane(Gather(g, n * Lane), g.h)]
        cell(r, c) == out[c \div Lane][r][c % Lane]
    IN  Shape(g.w, g.h, [i \in DOMAIN g.cell |-> cell((i - 1) \div g.w, (i - 1) % g.w)])

-----------------------------------------------------------------------------
(* The counter.  Without constant-time the loop returns at the first cell  *)
(* that does not overflow.                                                 *)

IncrementEarly(g, amount) ==
    FoldLeft(LAMBDA s, i :
        IF s.done THEN s
        ELSE [g    |-> [s.g EXCEPT !.cell[i] = (@ + s.carry) % Size],
              carry |-> 1,
              done |-> s.g.cell[i] + s.carry < Size],
        [g |-> g, carry |-> amount, done |-> FALSE],
        [i \in DOMAIN g.cell |-> i]).g

IncrementConstant(g, amount) ==
    FoldLeft(LAMBDA s, i :
        [g    |-> [s.g EXCEPT !.cell[i] = (@ + s.carry) % Size],
         carry |-> (s.g.cell[i] + s.carry) \div Size],
        [g |-> g, carry |-> amount],
        [i \in DOMAIN g.cell |-> i]).g

Increment(g, amount, constantTime) ==
    IF constantTime THEN IncrementConstant(g, amount) ELSE IncrementEarly(g, amount)

-----------------------------------------------------------------------------
(* The block cipher and counter mode.  A build is a choice of the paths.   *)

Builds == [avx2 : BOOLEAN, constantTime : BOOLEAN]

DeriveRoundShifts(keys) ==
    [i \in 1 .. Len(keys) - 2 |-> PrecalculateShifts(keys[i + 1])] \o <<>>

KeystreamBlock(nonce, keys, shifts, counter, build) ==
    LET round(b, i) ==
            MixColumns(ShiftRows(Subcell(XorGrids(b, keys[i + 1]), i - 1, build.avx2),
                                 shifts[i], build.constantTime))
        start == XorGrids(Increment(nonce, counter, build.constantTime), keys[1])
    IN  XorGrids(FoldLeft(round, start, [i \in 1 .. Len(keys) - 2 |-> i]),
                 keys[Len(keys)])

ApplyCtr(grids, nonce, keys, offset, build) ==
    LET shifts == DeriveRoundShifts(keys)
    IN  [n \in 1 .. Len(grids) |->
            XorGrids(grids[n],
                     KeystreamBlock(nonce, keys, shifts, (offset + n - 1) % Size, build))]
        \o <<>>

\* generate_round_keys: the generator, seeded with the master key, stands for
\* ChaCha20 over SHA-256; each draw is shaped by from_key.
Draw(g, n, i) ==
    (5 * g.cell[((i + n) % (g.w * g.h)) + 1] + 11 * n + 3 * i + 7) % Size

GenerateRoundKeys(g) ==
    [n \in 1 .. RoundKeys |->
        FromKey(g.w, g.h, [i \in 1 .. 2 * g.w * g.h |-> Draw(g, n, i)])] \o <<>>

\* chunks(W * H), each through from_flat.
Chunks(w, h, input) ==
    LET area == w * h
    IN  [n \in 1 .. (Len(input) + area - 1) \div area |->
            FromFlat(w, h, SubSeq(input, (n - 1) * area + 1,
                                  IF n * area < Len(input) THEN n * area ELSE Len(input)))]

Encrypt(w, h, input, key, nonce, build) ==
    LET grid == FromKey(w, h, key)
    IN  IF ~KeyFits(w, h, key) THEN None
        ELSE Some([output |-> ApplyCtr(Chunks(w, h, input), nonce,
                                       GenerateRoundKeys(grid), 0, build),
                   key    |-> grid,
                   nonce  |-> nonce])

Flattened(grids) == FlattenSeq([n \in 1 .. Len(grids) |-> ToFlat(grids[n])])

Decrypt(data, build) ==
    Flattened(ApplyCtr(data.output, data.nonce, GenerateRoundKeys(data.key), 0, build))

-----------------------------------------------------------------------------
(* Strings: two units to a cell, ended by the unit that is no character.   *)

Terminator == HalfSize - 1

\* char::from_u32 refuses some units, here the two below the terminator.
Chars == 0 .. HalfSize - 4

\* Mutant: the terminator is left out when the characters fill their cells.
StringCellsOpen(s) ==
    LET units == IF Len(s) % 2 = 0 THEN s ELSE Append(s, Terminator)
    IN  [n \in 1 .. Len(units) \div 2 |-> HalfSize * units[2 * n - 1] + units[2 * n]]

StringCells(s) ==
    LET units == LET u == Append(s, Terminator)
                 IN  IF Len(u) % 2 = 0 THEN u ELSE Append(u, 0)
    IN  [n \in 1 .. Len(units) \div 2 |-> HalfSize * units[2 * n - 1] + units[2 * n]]

EncryptString(w, h, s, key, nonce, build) ==
    Encrypt(w, h, StringCells(s), key, nonce, build)

\* The two halves of every cell.
Halves(cells) ==
    [n \in 1 .. 2 * Len(cells) |->
        IF n % 2 = 1 THEN cells[(n + 1) \div 2] \div HalfSize ELSE cells[n \div 2] % HalfSize]

\* The characters before the terminator.
UnitsToString(units) ==
    LET ends == {n \in DOMAIN units : units[n] = Terminator}
        end  == CHOOSE n \in ends : \A m \in ends : n <= m
    IN  IF ends = {} \/ \E n \in 1 .. end - 1 : units[n] \notin Chars THEN None
        ELSE Some(SubSeq(units, 1, end - 1))

DecryptString(data, build) == UnitsToString(Halves(Decrypt(data, build)))

-----------------------------------------------------------------------------
(* Authenticated packets: tag, nonce and ciphertext in bytes.  A byte here *)
(* is half a cell; the tag is one symbol, which stands for what compute_mac*)
(* is fed.                                                                 *)

Tag(macKey, grids) == [key |-> macKey, over |-> grids]

GridBytes(g) == Halves(g.cell)

Serialize(data, macKey) ==
    [tag   |-> Tag(macKey, <<data.nonce>> \o data.output),
     bytes |-> FlattenSeq([n \in 1 .. Len(data.output) + 1 |->
                  GridBytes((<<data.nonce>> \o data.output)[n])])]

\* from_bytes: a whole number of grids, or nothing.
WholeGrids(w, h, bytes) == Len(bytes) % (2 * w * h) = 0

FromBytes(w, h, bytes) ==
    LET size == 2 * w * h
    IN  [n \in 1 .. Len(bytes) \div size |->
                FromFlat(w, h, [i \in 1 .. w * h |->
                    LET at == (n - 1) * size + 2 * i
                    IN  HalfSize * bytes[at - 1] + bytes[at]])]

\* try_from, then open: the key is attached only when the tag is right.
OpenGrids(grids, tag, macKey, key) ==
    IF tag # Tag(macKey, grids) THEN None
    ELSE Some([output |-> Tail(grids), key |-> key, nonce |-> Head(grids)])

Open(w, h, packet, macKey, key) ==
    IF Len(packet.bytes) < 2 * w * h \/ ~WholeGrids(w, h, packet.bytes) THEN None
    ELSE OpenGrids(FromBytes(w, h, packet.bytes), packet.tag, macKey, key)

=============================================================================
