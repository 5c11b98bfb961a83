------------------------------ MODULE RexCalls ------------------------------
(***************************************************************************)
(* Calls of the cipher, one for every layer and every entry point, each on *)
(* every build: with and without AVX2, with and without constant-time.  A  *)
(* caller picks a call and its input; the step makes it on all builds and  *)
(* keeps the answers.                                                      *)
(***************************************************************************)
EXTENDS ChatCrypto

CONSTANTS
    Shapes,   \* the grids on which the layers are tried, [w, h]
    Blocks,   \* the grids on which the whole cipher is tried
    Edges,    \* cells at the edges of a word
    Amounts   \* amounts added to a counter

VARIABLES
    call,     \* the call and its input
    answers   \* the answer of every build, once made

callVars == <<call, answers>>

NoAnswer == [b \in Builds |-> <<>>]

\* A grid with the given cells first, and what else it needs after them.
Grid(shape, first, rest) ==
    FromFlat(shape.w, shape.h,
             [i \in 1 .. shape.w * shape.h |->
                IF i <= Len(first) THEN first[i] ELSE (rest * i) % Size])

Key(shape, n) == [i \in 1 .. 2 * shape.w * shape.h |-> (n * i * i + 3) % Size]

Pairs == Edges \X Edges

\* The server's store of pictures, and the client's cache of two servers.
Stores == {ImageKeys("h"), CacheKeys("s1", "h"), CacheKeys("s2", "h"), CacheKeys("s1", "g")}

CallsOf ==
    [op : {"cell"}, x : Cells, round : 0 .. RoundKeys - 3]
    \cup [op : {"row"}, shape : Shapes, x : Cells]
    \cup [op : {"mix"}, shape : Shapes, x : Pairs]
    \cup [op : {"increment"}, shape : Shapes, x : Edges \X Pairs, amount : Amounts]
    \cup [op : {"block"}, shape : Blocks, x : Pairs, amount : Amounts]
    \cup [op : {"string"}, shape : Blocks, x : Pairs, length : 0 .. 4]
    \cup [op : {"packet"}, shape : Blocks, x : Pairs, length : {0, 3, 8, 21},
          grid : {16}, fault : {"none", "short", "odd", "cut", "flip", "key"}]
    \cup [op : {"file"}, x : Pairs, of : Stores, by : Stores,
          fault : {"none", "empty", "cut", "flip"}]

CallInit == call \in CallsOf /\ answers = NoAnswer

\* The call's answer on one build.
CellCall(b) ==
    LET g == Grid([w |-> 2, h |-> 4], <<call.x>>, 3)
    IN  Subcell(g, call.round, b.avx2).cell

RowCall(b) ==
    LET g == Grid(call.shape, <<call.x>>, 5)
        shifts == PrecalculateShifts(Grid(call.shape, <<call.x>>, 0))
    IN  [shifts |-> shifts, rows |-> ShiftRows(g, shifts, b.constantTime)]

MixCall(b) == LET g == Grid(call.shape, call.x, 7) IN MixColumns(g)

IncrementCall(b) ==
    LET g == Grid(call.shape, <<call.x[1], call.x[2][1], call.x[2][2]>>, Size - 1)
    IN  Increment(g, call.amount, b.constantTime)

\* The keystream of the block at the amount and of the one after it.
BlockCall(b) ==
    LET nonce == Grid(call.shape, call.x, 1)
        keys  == GenerateRoundKeys(FromKey(call.shape.w, call.shape.h, Key(call.shape, 1)))
        zero  == Zeroes(call.shape.w, call.shape.h)
    IN  ApplyCtr(<<zero, zero>>, nonce, keys, call.amount, b)

Text == [n \in 1 .. call.length |-> call.x[(n % 2) + 1] % (HalfSize - 3)]

StringCall(b) ==
    DecryptString(
        EncryptString(call.shape.w, call.shape.h, Text, Key(call.shape, 2),
                      Grid(call.shape, call.x, 1), b)[1], b)

Plain == [n \in 1 .. call.length |-> (call.x[1] + call.x[2] * n) % HalfSize]

Session == [grid |-> [i \in 1 .. call.grid |-> (3 * i * i + 3) % Size], mac |-> "mac"]

\* What reaches the receiver of a packet.
Damaged(p) ==
    CASE call.fault = "short" -> [p EXCEPT !.bytes = SubSeq(@, 1, 3)]
      [] call.fault = "odd"   -> [p EXCEPT !.bytes = Append(@, 0)]
      [] call.fault = "cut"   ->
            [p EXCEPT !.bytes = SubSeq(@, 1, Len(@) - 2 * call.shape.w * call.shape.h)]
      [] call.fault = "flip"  -> [p EXCEPT !.bytes[Len(p.bytes)] = (@ + 1) % HalfSize]
      [] OTHER -> p

PacketCall(b) ==
    LET w == call.shape.w
        h == call.shape.h
        packet == EncryptPacket(w, h, Plain, Session, Grid(call.shape, call.x, 1), b)
    IN  DecryptPacket(w, h, Damaged(packet),
                      IF call.fault = "key" THEN [Session EXCEPT !.mac = "other"] ELSE Session, b)

\* What is read back from the disk, with the keys of one store or another.
FileCall(b) ==
    LET sealed == DiskSeal(call.of, call.x)
    IN  DiskOpen(call.by,
            CASE call.fault = "empty" -> <<>>
              [] call.fault = "cut"   -> Tail(sealed)
              [] call.fault = "flip"  -> [sealed EXCEPT ![1] = Size - 1 - @]
              [] OTHER -> sealed)

Answer(answer(_)) == answers' = [b \in Builds |-> <<answer(b)>>] /\ UNCHANGED call

CallCell      == call.op = "cell" /\ Answer(CellCall)
CallRow       == call.op = "row" /\ Answer(RowCall)
CallMix       == call.op = "mix" /\ Answer(MixCall)
CallIncrement == call.op = "increment" /\ Answer(IncrementCall)
CallBlock     == call.op = "block" /\ Answer(BlockCall)
CallString    == call.op = "string" /\ Answer(StringCall)
CallPacket    == call.op = "packet" /\ Answer(PacketCall)
CallFile      == call.op = "file" /\ Answer(FileCall)

CallNext ==
    /\ answers = NoAnswer
    /\ \/ CallCell \/ CallRow \/ CallMix \/ CallIncrement
       \/ CallBlock \/ CallString \/ CallPacket \/ CallFile

-----------------------------------------------------------------------------
(* References.                                                             *)

Answered == answers # NoAnswer

Given == answers[CHOOSE b \in Builds : TRUE][1]

\* The inverse of subcell on one cell, by running its rounds backwards.
UndoCell(y, round) ==
    LET tweak == round % HalfSize
        minus(v, u, sum) ==
            CHOOSE p \in 0 .. HalfSize - 1 : MixHalf(p, u, sum, LogicalShift) = v
        back(s, n) ==
            LET sum == ((SubcellRounds + 1 - n) * Delta) % Size
                v1  == minus(s.v1, s.v0, sum)
            IN  [v0 |-> minus(s.v0, v1, sum), v1 |-> v1]
        to == FoldLeft(back, [v0 |-> y % HalfSize, v1 |-> (y \div HalfSize) ## tweak],
                       [n \in 1 .. SubcellRounds |-> n])
    IN  HalfSize * to.v1 + (to.v0 ## tweak)

\* The product in the field: carry-less, then reduced from the top.
FieldProduct(a, b) ==
    LET raw == FoldLeft(LAMBDA s, i : IF (b \div 2^i) % 2 = 1 THEN s ^^ (a * 2^i) ELSE s,
                        0, [i \in 1 .. Bits |-> i - 1])
        modulus == Size + 27
    IN  FoldLeft(LAMBDA s, i :
                    IF (s \div 2^(Bits + i)) % 2 = 1 THEN s ^^ (modulus * 2^i) ELSE s,
                 raw, [i \in 1 .. Bits - 1 |-> Bits - 1 - i])

\* The product of the matrix as it is written with a column.
MatrixTimes(g, r, c) ==
    FoldLeft(LAMBDA s, k : s ## FieldProduct(At(g, k, c), Mds(g.h)[r + 1][k + 1]),
             0, [k \in 1 .. g.h |-> k - 1])

\* The sum of a counter, read as a number of g.w * g.h digits.
Plus(g, amount, i) ==
    LET carried == g.cell[1] + amount >= Size
                     /\ \A j \in 2 .. i - 1 : g.cell[j] = Size - 1
    IN  IF i = 1 THEN (g.cell[1] + amount) % Size
        ELSE IF carried THEN (g.cell[i] + 1) % Size ELSE g.cell[i]

-----------------------------------------------------------------------------
(* Properties.                                                             *)

\* A message encrypted by one build is readable by every other: the scalar,
\* portable and AVX2 paths of subcell, the rotation and the barrel shifter
\* of shift_rows, and the two increments compute the same.
BuildsAgree == \A b, c \in Builds : answers[b] = answers[c]

\* Every layer is, on every build, what its documentation defines: subcell can
\* be undone (so no two cells collide), shifts stay inside the row and rotate
\* it, mix_columns is the product with the MDS matrix and its own inverse, and
\* increment adds to one long number.
LayersAreRight ==
    /\ BuildsAgree
    /\ Answered =>
        /\ call.op = "cell" =>
              /\ UndoCell(Given[1], call.round) = call.x
              /\ Given[1] = SubcellCell(call.x, call.round)
        /\ call.op = "row" =>
              /\ \A r \in DOMAIN Given.shifts : Given.shifts[r] \in 0 .. call.shape.w - 1
              /\ LET g == Grid(call.shape, <<call.x>>, 5)
                 IN  \A r \in 0 .. g.h - 1 : Row(Given.rows, r) = Rotated(Row(g, r), g.w, Given.shifts[r])
        /\ call.op = "mix" =>
              LET g == Grid(call.shape, call.x, 7)
              IN  /\ \A r \in 0 .. g.h - 1, c \in 0 .. g.w - 1 :
                        At(Given, r, c) = MatrixTimes(g, r, c)
                  /\ MixColumns(Given) = g
                  /\ IsHadamard(Mds(g.h)) /\ IsInvolutory(Mds(g.h))
        /\ call.op = "increment" =>
              LET g == Grid(call.shape, <<call.x[1], call.x[2][1], call.x[2][2]>>, Size - 1)
              IN  \A i \in DOMAIN g.cell : Given.cell[i] = Plus(g, call.amount, i)
        /\ call.op = "block" => Given[1] # Given[2]

\* What is decrypted is what was encrypted, padded with zeroes to whole
\* grids; a string comes back as it was, whatever characters it holds; a
\* packet that was cut, extended or changed, or that is opened with another
\* key, is refused before anything is decrypted; a file is read only where
\* it was written, and whole.
WhatIsSealedOpens ==
    Answered =>
        /\ call.op = "string" => Given = Some(Text)
        /\ call.op = "packet" =>
              IF call.fault = "none"
              THEN LET size == 2 * call.shape.w * call.shape.h
                   IN  Given = Some([n \in 1 .. size * ((Len(Plain) + size - 1) \div size) |->
                                      IF n <= Len(Plain) THEN Plain[n] ELSE 0])
              ELSE Given = None
        /\ call.op = "file" =>
              Given = IF call.fault = "none" /\ call.of = call.by THEN Some(call.x) ELSE None

=============================================================================
