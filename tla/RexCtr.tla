------------------------------- MODULE RexCtr -------------------------------
(***************************************************************************)
(* RexStream as a value: counter mode over cells that come in chunks of    *)
(* any length.  The keystream of a block is a function of the block        *)
(* counter, so a cell of it is named by its number: the pad.  What the     *)
(* cipher gives back for a cell is the cell and the pad it was added to.   *)
(***************************************************************************)
EXTENDS Integers, Sequences

CONSTANT Area   \* cells of a grid, W * H (64)

ASSUME AreaAssumption == Area \in Nat \ {0}

NewStream == [block_counter |-> 0, buffer |-> <<>>]

\* apply_ctr_with_shifts over the grids that hold these cells, from the given
\* block on: the grids are counted up, and cells keep their place in a grid.
ApplyPads(cells, block) ==
    [i \in 1 .. Len(cells) |-> [cell |-> cells[i], pad |-> block * Area + i - 1]]

\* The cells of data that update takes to fill the buffer.
Taken(s, data) ==
    IF s.buffer = <<>> THEN 0
    ELSE IF Area - Len(s.buffer) < Len(data) THEN Area - Len(s.buffer) ELSE Len(data)

Filled(s, data) == s.buffer \o SubSeq(data, 1, Taken(s, data))

\* The leftovers of the last call complete a grid.
Completed(s, data) == Len(Filled(s, data)) = Area

Rest(s, data) == SubSeq(data, Taken(s, data) + 1, Len(data))

FullCells(s, data) == (Len(Rest(s, data)) \div Area) * Area

\* Mutant: the grid of the leftovers does not count.
NextBlockStays(s, data) == s.block_counter

\* The block counter after the leftovers.
NextBlock(s, data) == s.block_counter + (IF Completed(s, data) THEN 1 ELSE 0)

UpdateOutput(s, data) ==
    (IF Completed(s, data) THEN ApplyPads(Filled(s, data), s.block_counter) ELSE <<>>)
    \o ApplyPads(SubSeq(Rest(s, data), 1, FullCells(s, data)), NextBlock(s, data))

UpdateStream(s, data) ==
    [block_counter |-> NextBlock(s, data) + Len(Rest(s, data)) \div Area,
     buffer        |-> (IF Completed(s, data) THEN <<>> ELSE Filled(s, data))
                       \o SubSeq(Rest(s, data), FullCells(s, data) + 1, Len(Rest(s, data)))]

\* finalize: the last grid is padded with zeroes and its output cut again.
FinalizeOutput(s) == ApplyPads(s.buffer, s.block_counter)

FinalizeStream(s) ==
    IF s.buffer = <<>> THEN s
    ELSE [block_counter |-> s.block_counter + 1, buffer |-> <<>>]

=============================================================================
