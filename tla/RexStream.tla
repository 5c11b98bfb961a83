------------------------------ MODULE RexStream ------------------------------
(***************************************************************************)
(* One RexStream in the hands of its caller, who feeds it chunks of any    *)
(* length and finalizes it whenever a packet or a file ends.  The n-th     *)
(* cell fed is n.                                                          *)
(***************************************************************************)
EXTENDS RexCtr

CONSTANTS
    MaxChunk,  \* bound on the cells of one update
    MaxFed     \* bound on the cells fed to a stream

ASSUME StreamAssumption == MaxChunk \in Nat /\ MaxFed \in Nat

VARIABLES
    stream,     \* the stream
    fedCells,   \* cells fed so far
    out         \* what it has given back

streamVars == <<stream, fedCells, out>>

StreamInit ==
    /\ stream = NewStream
    /\ fedCells = 0
    /\ out = <<>>

\* The chunk of the next n cells.
Chunk(n) == [i \in 1 .. n |-> fedCells + i]

Update(n) ==
    /\ fedCells + n <= MaxFed
    /\ stream' = UpdateStream(stream, Chunk(n))
    /\ out' = out \o UpdateOutput(stream, Chunk(n))
    /\ fedCells' = fedCells + n

Finalize ==
    /\ stream' = FinalizeStream(stream)
    /\ out' = out \o FinalizeOutput(stream)
    /\ UNCHANGED fedCells

StreamNext == (\E n \in 0 .. MaxChunk : Update(n)) \/ Finalize

StreamSpec == StreamInit /\ [][StreamNext]_streamVars

-----------------------------------------------------------------------------
(* Properties.                                                             *)

StreamTypeOK ==
    /\ stream \in [block_counter : Nat, buffer : Seq(Nat)]
    /\ Len(stream.buffer) < Area
    /\ fedCells \in Nat
    /\ out \in Seq([cell : Nat, pad : Nat])

\* Nothing is lost, doubled or reordered: what came out and what is buffered
\* are the cells fed, in the order they were fed in.
InOrder ==
    /\ Len(out) + Len(stream.buffer) = fedCells
    /\ \A i \in 1 .. Len(out) : out[i].cell = i
    /\ \A i \in 1 .. Len(stream.buffer) : stream.buffer[i] = Len(out) + i

\* No keystream is used twice, however the data was cut into chunks and
\* wherever the stream was finalized in between; what comes next is above
\* everything that was used.
PadsRise ==
    /\ \A i, j \in 1 .. Len(out) : i < j => out[i].pad < out[j].pad
    /\ \A i \in 1 .. Len(out) : out[i].pad < stream.block_counter * Area

Pad == INSTANCE OneTimePad
         WITH fed <- fedCells, pads <- [i \in 1 .. Len(out) |-> out[i].pad]

\* The stream keeps the promise of a one-time pad: whatever RexStream::update and
\* finalize are called with, every cell comes back once, in order, under a pad above
\* all earlier ones, and after finalize nothing is held back.
KeepsPromise == Pad!PadSpec /\ [][Finalize => Pad!Flush]_streamVars

=============================================================================
