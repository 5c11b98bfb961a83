----------------------------- MODULE WireProofs -----------------------------
(***************************************************************************)
(* Proofs about what the two ends of a connection say to each other.       *)
(*                                                                         *)
(* RexStream, for grids of any size: what goes in comes out in order, no   *)
(* keystream is used twice, and the stream implements OneTimePad.          *)
(*                                                                         *)
(* PacketStream: OpenedIsSealed is about the streams of both ends, so the  *)
(* invariant names the stream an end had after each message (Passed) and   *)
(* says of every frame on the wire, whoever damaged it, that it verifies   *)
(* under one of them only as what was sealed under it (Tagged).            *)
(*                                                                         *)
(* KeyExchange: two keys agree because there is one reply at most, it      *)
(* belongs to the newest offer, and an offer is written right behind the   *)
(* Rekey that announces it (OneReply, FollowsOffer, OfferNext).            *)
(* The numbers of the packets fit because each side's packets rise above   *)
(* what the other has read, in the order they were written (SeqInv).       *)
(*                                                                         *)
(* ScreenShare: a frame that joins nothing is known to the end that lost   *)
(* its predecessor (GapIsKnown, WindowFollows), and a request for a        *)
(* keyframe is in one of the hands of the capture thread (ForcedIsTaken).  *)
(***************************************************************************)
EXTENDS RexStream, PacketStream, KeyExchange, ScreenShare, SequenceTheorems,
        WellFoundedInduction, TLAPS

-----------------------------------------------------------------------------
(* Arithmetic of grids and pieces of sequences.                            *)

\* Whole grids of k cells: there are k \div Area, and what is left is less than one.
LEMMA WholeGrids ==
    ASSUME NEW k \in Nat
    PROVE  /\ k \div Area \in Nat
           /\ (k \div Area) * Area \in Nat
           /\ (k \div Area) * Area <= k
           /\ k - (k \div Area) * Area < Area
  BY AreaAssumption

\* The first cell of the block after m more blocks.
LEMMA BlockStart ==
    ASSUME NEW c \in Nat, NEW m \in Nat
    PROVE  /\ (c + m) * Area = c * Area + m * Area
           /\ c * Area \in Nat
           /\ m * Area \in Nat
  BY AreaAssumption

\* A sequence cut in two.
LEMMA Cut ==
    ASSUME NEW x \in Seq(Nat), NEW f \in Nat, f <= Len(x)
    PROVE  /\ SubSeq(x, 1, f) \in Seq(Nat)
           /\ Len(SubSeq(x, 1, f)) = f
           /\ \A i \in 1 .. f : SubSeq(x, 1, f)[i] = x[i]
           /\ SubSeq(x, f + 1, Len(x)) \in Seq(Nat)
           /\ Len(SubSeq(x, f + 1, Len(x))) = Len(x) - f
           /\ \A i \in 1 .. Len(x) - f : SubSeq(x, f + 1, Len(x))[i] = x[f + i]
  <1>1. Len(x) \in Nat
    OBVIOUS
  <1>2. SubSeq(x, 1, f) \in Seq(Nat) /\ SubSeq(x, f + 1, Len(x)) \in Seq(Nat)
    BY <1>1
  <1>3. Len(SubSeq(x, 1, f)) = f /\ Len(SubSeq(x, f + 1, Len(x))) = Len(x) - f
    BY <1>1
  <1>4. \A i \in 1 .. f : SubSeq(x, 1, f)[i] = x[i]
    BY <1>1
  <1>5. \A i \in 1 .. Len(x) - f : SubSeq(x, f + 1, Len(x))[i] = x[f + i]
    BY <1>1
  <1>. QED
    BY <1>2, <1>3, <1>4, <1>5

-----------------------------------------------------------------------------
(* What one call gives back.                                               *)

Padded == [cell : Nat, pad : Nat]

\* A function on 1 .. n is a sequence of length n.
LEMMA TableIsSeq ==
    ASSUME NEW S, NEW n \in Nat, NEW t \in [1 .. n -> S]
    PROVE  t \in Seq(S) /\ Len(t) = n
  OBVIOUS

\* apply_ctr_with_shifts keeps the cells and numbers their pads from its block on.
LEMMA Pads ==
    ASSUME NEW x \in Seq(Nat), NEW c \in Nat
    PROVE  /\ ApplyPads(x, c) \in Seq(Padded)
           /\ Len(ApplyPads(x, c)) = Len(x)
           /\ \A i \in 1 .. Len(x) :
                /\ ApplyPads(x, c)[i].cell = x[i]
                /\ ApplyPads(x, c)[i].pad = c * Area + i - 1
  <1> DEFINE base == c * Area
             o == [i \in 1 .. Len(x) |-> [cell |-> x[i], pad |-> base + i - 1]]
  <1>1. base \in Nat
    BY BlockStart
  <1>2. ApplyPads(x, c) = o
    BY DEF ApplyPads
  <1> HIDE DEF base
  <1>3. Len(x) \in Nat
    OBVIOUS
  <1>4. ASSUME NEW i \in 1 .. Len(x)
        PROVE  [cell |-> x[i], pad |-> base + i - 1] \in Padded
    <2>1. x[i] \in Nat /\ base + i - 1 \in Nat
      BY <1>1, <1>3
    <2>. QED
      BY <2>1 DEF Padded
  <1>5. o \in [1 .. Len(x) -> Padded]
    BY <1>4
  <1>6. o \in Seq(Padded) /\ Len(o) = Len(x)
    BY <1>3, <1>5, TableIsSeq
  <1>7. \A i \in 1 .. Len(x) : o[i].cell = x[i] /\ o[i].pad = base + i - 1
    OBVIOUS
  <1>. QED
    BY <1>2, <1>6, <1>7 DEF base

\* Of the cells x, f in q whole grids come out as o from block k on, and r stays.
GridsGiven(x, k, q, f, o, r) ==
    /\ q \in Nat /\ f \in Nat /\ f <= Len(x)
    /\ o \in Seq(Padded) /\ Len(o) = f
    /\ \A i \in 1 .. f : o[i].cell = x[i] /\ o[i].pad = k * Area + i - 1
    /\ r \in Seq(Nat) /\ Len(r) = Len(x) - f /\ Len(r) < Area
    /\ \A i \in 1 .. Len(x) - f : r[i] = x[f + i]
    /\ (k + q) * Area = k * Area + f

\* The whole grids at the front of x come out from block k on, the rest stays.
LEMMA GridsOut ==
    ASSUME NEW x \in Seq(Nat), NEW k \in Nat, NEW q, NEW f, NEW o, NEW r,
           q = Len(x) \div Area, f = q * Area,
           o = ApplyPads(SubSeq(x, 1, f), k), r = SubSeq(x, f + 1, Len(x))
    PROVE  GridsGiven(x, k, q, f, o, r)
  <1>1. Len(x) \in Nat
    OBVIOUS
  <1>2. q \in Nat /\ f \in Nat /\ f <= Len(x) /\ Len(x) - f < Area
    BY <1>1, WholeGrids
  <1>3. /\ SubSeq(x, 1, f) \in Seq(Nat)
        /\ Len(SubSeq(x, 1, f)) = f
        /\ \A i \in 1 .. f : SubSeq(x, 1, f)[i] = x[i]
        /\ r \in Seq(Nat) /\ Len(r) = Len(x) - f
        /\ \A i \in 1 .. Len(x) - f : r[i] = x[f + i]
    BY <1>2, Cut
  <1>4. /\ o \in Seq(Padded) /\ Len(o) = f
        /\ \A i \in 1 .. f : /\ o[i].cell = SubSeq(x, 1, f)[i]
                             /\ o[i].pad = k * Area + i - 1
    <2> DEFINE y == SubSeq(x, 1, f)
    <2>1. y \in Seq(Nat) /\ Len(y) = f
      BY <1>3
    <2>2. o = ApplyPads(y, k)
      OBVIOUS
    <2> HIDE DEF y
    <2>3. /\ o \in Seq(Padded) /\ Len(o) = Len(y)
          /\ \A i \in 1 .. Len(y) : o[i].cell = y[i] /\ o[i].pad = k * Area + i - 1
      BY <2>1, <2>2, Pads, Zenon
    <2>4. \A i \in 1 .. f : o[i].cell = y[i] /\ o[i].pad = k * Area + i - 1
      BY <2>1, <2>3
    <2>. QED
      BY <2>1, <2>3, <2>4 DEF y
  <1>5. (k + q) * Area = k * Area + f
    BY <1>2, BlockStart
  <1>. QED
    BY <1>2, <1>3, <1>4, <1>5 DEF GridsGiven

Streams == {s \in [block_counter : Nat, buffer : Seq(Nat)] : Len(s.buffer) < Area}

\* A stream has a counter and less than a grid of cells.
LEMMA IsStream ==
    ASSUME NEW k \in Nat, NEW r \in Seq(Nat), Len(r) < Area
    PROVE  [block_counter |-> k, buffer |-> r] \in Streams
  BY DEF Streams

\* What a call may do with stream s and the data d: what comes out (o) and what stays in
\* the buffer are together the cells that were there, in order; the pads go on from the
\* counter without a gap, and the new counter is above all of them.
Follows(s, d, o, t) ==
    /\ o \in Seq(Padded)
    /\ t \in Streams
    /\ Len(o) + Len(t.buffer) = Len(s.buffer) + Len(d)
    /\ \A i \in 1 .. Len(o) :
         o[i].cell = (s.buffer \o d)[i] /\ o[i].pad = s.block_counter * Area + i - 1
    /\ \A i \in 1 .. Len(t.buffer) : t.buffer[i] = (s.buffer \o d)[Len(o) + i]
    /\ s.block_counter * Area + Len(o) <= t.block_counter * Area

\* RexStream::update on an empty buffer: the whole grids of the data come out.
LEMMA UpdateEmpty ==
    ASSUME NEW s \in Streams, NEW d \in Seq(Nat), s.buffer = <<>>
    PROVE  Follows(s, d, UpdateOutput(s, d), UpdateStream(s, d))
  <1> DEFINE q == Len(d) \div Area
             f == q * Area
             c == s.block_counter
             o == ApplyPads(SubSeq(d, 1, f), c)
             r == SubSeq(d, f + 1, Len(d))
  <1>1. c \in Nat /\ Len(d) \in Nat
    BY DEF Streams
  <1>2. Taken(s, d) = 0 /\ Filled(s, d) = <<>> /\ Rest(s, d) = d
    <2>1. Taken(s, d) = 0
      BY DEF Taken
    <2>2. SubSeq(d, 1, 0) = <<>> /\ SubSeq(d, 0 + 1, Len(d)) = d
      OBVIOUS
    <2>. QED
      BY <2>1, <2>2 DEF Filled, Rest
  <1>3. ~Completed(s, d)
    BY <1>2, AreaAssumption DEF Completed
  <1>4. NextBlock(s, d) = c /\ FullCells(s, d) = f
    BY <1>1, <1>2, <1>3 DEF NextBlock, FullCells
  <1>5. /\ q \in Nat /\ f \in Nat /\ f <= Len(d)
        /\ o \in Seq(Padded) /\ Len(o) = f
        /\ \A i \in 1 .. f : o[i].cell = d[i] /\ o[i].pad = c * Area + i - 1
        /\ r \in Seq(Nat) /\ Len(r) = Len(d) - f /\ Len(r) < Area
        /\ \A i \in 1 .. Len(d) - f : r[i] = d[f + i]
        /\ (c + q) * Area = c * Area + f
    <2>1. /\ q = Len(d) \div Area /\ f = q * Area /\ r = SubSeq(d, f + 1, Len(d))
          /\ o = ApplyPads(SubSeq(d, 1, f), c)
      OBVIOUS
    <2> HIDE DEF q, f, o, r, c
    <2>2. GridsGiven(d, c, q, f, o, r)
      BY <1>1, <2>1, GridsOut, Zenon
    <2>. QED
      BY <2>2 DEF GridsGiven
  <1>6. UpdateOutput(s, d) = <<>> \o o
    BY <1>2, <1>3, <1>4 DEF UpdateOutput
  <1>7. UpdateStream(s, d) = [block_counter |-> c + q, buffer |-> <<>> \o r]
    BY <1>2, <1>3, <1>4 DEF UpdateStream
  <1> HIDE DEF q, f, o, r, c
  <1> DEFINE t == [block_counter |-> c + q, buffer |-> r]
  <1>8. UpdateOutput(s, d) = o /\ UpdateStream(s, d) = t
    <2>1. <<>> \o o = o /\ <<>> \o r = r
      BY <1>5
    <2>. QED
      BY <1>6, <1>7, <2>1
  <1>9. s.buffer \o d = d /\ Len(s.buffer) = 0 /\ s.block_counter = c
    BY DEF c
  <1>10. t \in Streams
    <2>1. c + q \in Nat
      <3>1. c \in Nat /\ q \in Nat
        BY <1>1, <1>5, Zenon
      <3>. QED
        BY <3>1
    <2>2. r \in Seq(Nat) /\ Len(r) < Area
      BY <1>5, Zenon
    <2>. QED
      BY <2>1, <2>2, IsStream, Zenon
  <1>11. Follows(s, d, o, t)
    <2>1. t.buffer = r /\ t.block_counter = c + q
      OBVIOUS
    <2> HIDE DEF t
    <2>2. c * Area \in Nat
      BY <1>1, BlockStart
    <2>3. Len(o) + Len(t.buffer) = Len(s.buffer) + Len(d)
      BY <1>1, <1>5, <1>9, <2>1
    <2>4. \A i \in 1 .. Len(t.buffer) : t.buffer[i] = (s.buffer \o d)[Len(o) + i]
      BY <1>5, <1>9, <2>1, Zenon
    <2>5. \A i \in 1 .. Len(o) :
            o[i].cell = (s.buffer \o d)[i] /\ o[i].pad = s.block_counter * Area + i - 1
      BY <1>5, <1>9, Zenon
    <2>6. s.block_counter * Area + Len(o) <= t.block_counter * Area
      <3>1. (c + q) * Area = c * Area + Len(o) /\ (c + q) * Area \in Nat
        BY <1>5, <2>2
      <3>. QED
        BY <1>9, <2>1, <3>1
    <2>. QED
      BY <1>5, <1>10, <2>3, <2>4, <2>5, <2>6 DEF Follows
  <1>. QED
    BY <1>8, <1>11
\* RexStream::update with data that does not fill the buffer: nothing comes out.
LEMMA UpdateShort ==
    ASSUME NEW s \in Streams, NEW d \in Seq(Nat), s.buffer # <<>>,
           Len(d) < Area - Len(s.buffer)
    PROVE  Follows(s, d, UpdateOutput(s, d), UpdateStream(s, d))
  <1> DEFINE b == s.buffer
             c == s.block_counter
  <1>1. c \in Nat /\ b \in Seq(Nat) /\ Len(b) \in Nat /\ Len(d) \in Nat /\ Len(b) < Area
    BY DEF Streams
  <1>2. Taken(s, d) = Len(d)
    BY <1>1, AreaAssumption DEF Taken
  <1>3. SubSeq(d, 1, Len(d)) = d /\ SubSeq(d, Len(d) + 1, Len(d)) = <<>>
    BY <1>1
  <1>4. Filled(s, d) = b \o d /\ Rest(s, d) = <<>>
    BY <1>2, <1>3 DEF Filled, Rest
  <1>5. b \o d \in Seq(Nat) /\ Len(b \o d) = Len(b) + Len(d)
    BY <1>1
  <1>6. ~Completed(s, d)
    BY <1>1, <1>4, <1>5, AreaAssumption DEF Completed
  <1>7. 0 \div Area = 0 /\ 0 * Area = 0
    BY AreaAssumption
  <1>8. Len(Rest(s, d)) = 0 /\ FullCells(s, d) = 0 /\ NextBlock(s, d) = c
    BY <1>1, <1>4, <1>6, <1>7 DEF FullCells, NextBlock
  <1>9. SubSeq(Rest(s, d), 1, 0) = <<>> /\ SubSeq(Rest(s, d), 0 + 1, 0) = <<>>
    BY <1>4
  <1>10. UpdateStream(s, d) = [block_counter |-> c, buffer |-> b \o d]
    <2>1. UpdateStream(s, d) = [block_counter |-> c + 0, buffer |-> (b \o d) \o <<>>]
      BY <1>4, <1>6, <1>7, <1>8, <1>9 DEF UpdateStream
    <2>2. (b \o d) \o <<>> = b \o d /\ c + 0 = c
      BY <1>1, <1>5
    <2>. QED
      BY <2>1, <2>2
  <1>11. UpdateOutput(s, d) = <<>>
    <2>1. UpdateOutput(s, d) = <<>> \o ApplyPads(<<>>, c)
      BY <1>6, <1>8, <1>9 DEF UpdateOutput
    <2>2. ApplyPads(<<>>, c) \in Seq(Padded) /\ Len(ApplyPads(<<>>, c)) = 0
      <3>1. <<>> \in Seq(Nat) /\ Len(<<>>) = 0
        OBVIOUS
      <3> HIDE DEF c
      <3>. QED
        BY <1>1, <3>1, Pads, Zenon
    <2>3. ApplyPads(<<>>, c) = <<>>
      BY <2>2
    <2>. QED
      BY <2>1, <2>3
  <1> DEFINE t == [block_counter |-> c, buffer |-> b \o d]
  <1>12. t \in Streams
    BY <1>1, <1>5, AreaAssumption DEF Streams
  <1>13. Follows(s, d, <<>>, t)
    <2>1. t.buffer = s.buffer \o d /\ t.block_counter = s.block_counter /\ c * Area \in Nat
      BY <1>1, BlockStart
    <2> HIDE DEF t
    <2>2. Len(<<>>) + Len(t.buffer) = Len(s.buffer) + Len(d)
      BY <1>1, <1>5, <2>1
    <2>3. \A i \in 1 .. Len(t.buffer) : t.buffer[i] = (s.buffer \o d)[Len(<<>>) + i]
      BY <1>1, <1>5, <2>1
    <2>4. s.block_counter * Area + Len(<<>>) <= t.block_counter * Area
      BY <2>1
    <2>. QED
      BY <1>12, <2>2, <2>3, <2>4 DEF Follows
  <1>. QED
    BY <1>10, <1>11, <1>13

\* The places of two sequences, one after the other.
Places(x, y) ==
    /\ Len(x \o y) = Len(x) + Len(y)
    /\ \A i \in 1 .. Len(x) : (x \o y)[i] = x[i]
    /\ \A i \in 1 .. Len(y) : (x \o y)[Len(x) + i] = y[i]

\* What concatenation does.
LEMMA Joined ==
    ASSUME NEW S, NEW x \in Seq(S), NEW y \in Seq(S)
    PROVE  x \o y \in Seq(S) /\ Places(x, y)
  BY DEF Places

\* Sequences of the same cells in the same places are the same.
LEMMA SameCells ==
    ASSUME NEW x \in Seq(Nat), NEW y \in Seq(Nat), Len(x) = Len(y),
           \A i \in 1 .. Len(x) : x[i] = y[i]
    PROVE  x = y
  OBVIOUS

\* u and v are d, cut after m cells.
CutAt(d, m, u, v) ==
    /\ m <= Len(d) /\ Len(u) = m /\ Len(v) = Len(d) - m
    /\ \A i \in 1 .. m : u[i] = d[i]
    /\ \A i \in 1 .. Len(d) - m : v[i] = d[m + i]

\* What b \o u and then v are.
Rejoined(b, d, u, v) == (b \o u) \o v = b \o d

\* Data cut in two and put after the buffer piece by piece.
LEMMA Recut ==
    ASSUME NEW b \in Seq(Nat), NEW d \in Seq(Nat), NEW u \in Seq(Nat), NEW v \in Seq(Nat),
           NEW m \in Nat, CutAt(d, m, u, v)
    PROVE  Rejoined(b, d, u, v)
  <1> DEFINE x == b \o u
  <1> USE DEF CutAt
  <1>1. Len(b) \in Nat /\ Len(d) \in Nat
    OBVIOUS
  <1>2. x \in Seq(Nat) /\ Places(b, u)
    BY Joined, Zenon
  <1>3. Len(x) = Len(b) + m
    BY <1>2 DEF Places
  <1>4. x \o v \in Seq(Nat) /\ Places(x, v) /\ b \o d \in Seq(Nat) /\ Places(b, d)
    BY <1>2, Joined, Zenon
  <1>5. Len(x \o v) = Len(b) + Len(d) /\ Len(b \o d) = Len(b) + Len(d)
    BY <1>1, <1>3, <1>4 DEF Places
  <1>6. ASSUME NEW i \in 1 .. Len(b) + Len(d)
        PROVE  (x \o v)[i] = (b \o d)[i]
    <2>1. CASE i <= Len(b)
      <3>1. i \in 1 .. Len(b) /\ i \in 1 .. Len(x)
        BY <1>1, <1>3, <2>1
      <3>. QED
        BY <1>2, <1>4, <3>1, Zenon DEF Places
    <2>2. CASE Len(b) < i /\ i <= Len(b) + m
      <3> DEFINE j == i - Len(b)
      <3>1. j \in 1 .. m /\ j \in 1 .. Len(d) /\ i = Len(b) + j /\ i \in 1 .. Len(x)
        BY <1>1, <1>3, <2>2
      <3> HIDE DEF j, x
      <3>2. (x \o v)[i] = x[i]
        BY <1>4, <3>1, Zenon DEF Places
      <3>3. (b \o d)[Len(b) + j] = d[j]
        BY <1>4, <3>1, Zenon DEF Places
      <3>4. x[Len(b) + j] = u[j]
        BY <1>2, <3>1, Zenon DEF Places, x
      <3>5. u[j] = d[j]
        BY <3>1, Zenon
      <3>. QED
        BY <3>1, <3>2, <3>3, <3>4, <3>5, Zenon
    <2>3. CASE i > Len(b) + m
      <3> DEFINE j == i - Len(b) - m
      <3>1. /\ j \in 1 .. Len(v) /\ j \in 1 .. Len(d) - m
            /\ i = Len(x) + j /\ m + j \in 1 .. Len(d) /\ i = Len(b) + (m + j)
        BY <1>1, <1>3, <2>3
      <3> HIDE DEF j, x
      <3>2. (x \o v)[Len(x) + j] = v[j]
        BY <1>4, <3>1, Zenon DEF Places
      <3>3. (b \o d)[Len(b) + (m + j)] = d[m + j]
        BY <1>4, <3>1, Zenon DEF Places
      <3>4. v[j] = d[m + j]
        BY <3>1, Zenon
      <3>. QED
        BY <3>1, <3>2, <3>3, <3>4, Zenon
    <2>4. i <= Len(b) \/ (Len(b) < i /\ i <= Len(b) + m) \/ i > Len(b) + m
      BY <1>1
    <2>. QED
      BY <2>1, <2>2, <2>3, <2>4
  <1> HIDE DEF x
  <1>7. x \o v = b \o d
    BY <1>4, <1>5, <1>6, SameCells
  <1>. QED
    BY <1>7 DEF x, Rejoined

\* o is the first n cells of x under the pads from base on.
RunOf(o, x, n, base) ==
    /\ o \in Seq(Padded) /\ Len(o) = n
    /\ \A i \in 1 .. n : o[i].cell = x[i] /\ o[i].pad = base + i - 1

\* Two runs of pads that meet are one run.
LEMMA RunsMeet ==
    ASSUME NEW x \in Seq(Nat), NEW y \in Seq(Nat), NEW base \in Nat, NEW n \in Nat,
           n <= Len(y), NEW o1, NEW o2,
           RunOf(o1, x, Len(x), base), RunOf(o2, y, n, base + Len(x))
    PROVE  RunOf(o1 \o o2, x \o y, Len(x) + n, base)
  <1> USE DEF RunOf
  <1>1. Len(x) \in Nat /\ Len(y) \in Nat
    OBVIOUS
  <1>0. o1 \o o2 \in Seq(Padded) /\ Places(o1, o2) /\ Places(x, y)
    BY Joined, Zenon
  <1>2. o1 \o o2 \in Seq(Padded) /\ Len(o1 \o o2) = Len(o1) + Len(o2)
    BY <1>0 DEF Places
  <1>4. /\ \A i \in 1 .. Len(x) : (o1 \o o2)[i] = o1[i]
        /\ \A i \in 1 .. n : (o1 \o o2)[Len(x) + i] = o2[i]
    <2>1. /\ \A i \in 1 .. Len(o1) : (o1 \o o2)[i] = o1[i]
          /\ \A i \in 1 .. Len(o2) : (o1 \o o2)[Len(o1) + i] = o2[i]
      BY <1>0, Zenon DEF Places
    <2>. QED
      BY <2>1, Zenon
  <1>5. /\ \A i \in 1 .. Len(x) : (x \o y)[i] = x[i]
        /\ \A i \in 1 .. Len(y) : (x \o y)[Len(x) + i] = y[i]
    BY <1>0, Zenon DEF Places
  <1>3. ASSUME NEW i \in 1 .. Len(x) + n
        PROVE  /\ (o1 \o o2)[i].cell = (x \o y)[i]
               /\ (o1 \o o2)[i].pad = base + i - 1
    <2>1. CASE i <= Len(x)
      <3>1. i \in 1 .. Len(x)
        BY <1>1, <2>1
      <3>2. (o1 \o o2)[i] = o1[i] /\ (x \o y)[i] = x[i]
        BY <1>4, <1>5, <3>1, Zenon
      <3>. QED
        BY <3>1, <3>2
    <2>2. CASE i > Len(x)
      <3> DEFINE j == i - Len(x)
      <3>1. /\ j \in 1 .. n /\ j \in 1 .. Len(y) /\ Len(x) + j = i
            /\ base + Len(x) + j - 1 = base + i - 1
        BY <1>1, <2>2
      <3>2. (o1 \o o2)[i] = o2[j] /\ (x \o y)[i] = y[j]
        <4>1. (o1 \o o2)[Len(x) + j] = o2[j]
          BY <1>4, <3>1, Zenon
        <4>2. (x \o y)[Len(x) + j] = y[j]
          BY <1>5, <3>1, Zenon
        <4>. QED
          BY <3>1, <4>1, <4>2, Zenon
      <3> HIDE DEF j
      <3>. QED
        BY <3>1, <3>2
    <2>3. i <= Len(x) \/ i > Len(x)
      BY <1>1
    <2>. QED
      BY <2>1, <2>2, <2>3
  <1>. QED
    BY <1>2, <1>3

\* RexStream::update with data that fills the buffer: its grid comes out first, then the
\* whole grids of what is left of the data.
LEMMA UpdateFull ==
    ASSUME NEW s \in Streams, NEW d \in Seq(Nat), s.buffer # <<>>,
           ~(Len(d) < Area - Len(s.buffer))
    PROVE  Follows(s, d, UpdateOutput(s, d), UpdateStream(s, d))
  <1> DEFINE b == s.buffer
             c == s.block_counter
             m == Area - Len(b)
             d1 == SubSeq(d, 1, m)
             y == SubSeq(d, m + 1, Len(d))
             x == b \o d1
             q == Len(y) \div Area
             f == q * Area
             o1 == ApplyPads(x, c)
             o2 == ApplyPads(SubSeq(y, 1, f), c + 1)
             r == SubSeq(y, f + 1, Len(y))
             t == [block_counter |-> (c + 1) + q, buffer |-> r]
  <1>1. /\ c \in Nat /\ b \in Seq(Nat) /\ Len(b) \in Nat /\ Len(d) \in Nat
        /\ Len(b) < Area /\ m \in Nat /\ m <= Len(d) /\ Area \in Nat
    BY AreaAssumption DEF Streams
  <1>2. Taken(s, d) = m
    <2>1. CASE m < Len(d)
      BY <2>1 DEF Taken
    <2>2. CASE m = Len(d)
      <3>1. ~(m < Len(d))
        BY <1>1, <2>2
      <3>. QED
        BY <2>2, <3>1 DEF Taken
    <2>3. m < Len(d) \/ m = Len(d)
      <3> HIDE DEF m
      <3>. QED
        BY <1>1
    <2>. QED
      BY <2>1, <2>2, <2>3
  <1>3. Filled(s, d) = x /\ Rest(s, d) = y
    BY <1>2 DEF Filled, Rest
  <1>4. /\ d1 \in Seq(Nat) /\ Len(d1) = m /\ (\A i \in 1 .. m : d1[i] = d[i])
        /\ y \in Seq(Nat) /\ Len(y) = Len(d) - m
        /\ \A i \in 1 .. Len(d) - m : y[i] = d[m + i]
    <2> HIDE DEF m, b, c
    <2>. QED
      BY <1>1, Cut
  <1>5. x \in Seq(Nat) /\ Len(x) = Area
    <2>1. b \o d1 \in Seq(Nat) /\ Len(b \o d1) = Len(b) + Len(d1)
      <3> HIDE DEF d1, b
      <3>. QED
        BY <1>1, <1>4
    <2>. QED
      <3>1. Len(b) + m = Area
        BY <1>1
      <3> HIDE DEF b, d1, m
      <3>. QED
        BY <1>4, <2>1, <3>1
  <1>6. Completed(s, d)
    BY <1>3, <1>5 DEF Completed
  <1>7. NextBlock(s, d) = c + 1 /\ FullCells(s, d) = f
    BY <1>3, <1>6 DEF NextBlock, FullCells
  <1>8. UpdateOutput(s, d) = o1 \o o2
    BY <1>3, <1>6, <1>7 DEF UpdateOutput
  <1>9. UpdateStream(s, d) = [block_counter |-> (c + 1) + q, buffer |-> <<>> \o r]
    BY <1>3, <1>6, <1>7 DEF UpdateStream
  <1>10. GridsGiven(y, c + 1, q, f, o2, r)
    <2>1. /\ q = Len(y) \div Area /\ f = q * Area /\ r = SubSeq(y, f + 1, Len(y))
          /\ o2 = ApplyPads(SubSeq(y, 1, f), c + 1) /\ c + 1 \in Nat
      BY <1>1
    <2> HIDE DEF q, f, o2, r, c, y
    <2>. QED
      BY <1>4, <2>1, GridsOut, Zenon
  <1>11. /\ o1 \in Seq(Padded) /\ Len(o1) = Len(x)
         /\ \A i \in 1 .. Len(x) : o1[i].cell = x[i] /\ o1[i].pad = c * Area + i - 1
    <2> HIDE DEF x, c
    <2>. QED
      BY <1>1, <1>5, Pads, Zenon
  <1> HIDE DEF b, c, m, d1, y, x, q, f, o1, o2, r
  <1>12. /\ q \in Nat /\ f \in Nat /\ f <= Len(y)
         /\ o2 \in Seq(Padded) /\ Len(o2) = f
         /\ \A i \in 1 .. f : o2[i].cell = y[i] /\ o2[i].pad = (c + 1) * Area + i - 1
         /\ r \in Seq(Nat) /\ Len(r) = Len(y) - f /\ Len(r) < Area
         /\ \A i \in 1 .. Len(y) - f : r[i] = y[f + i]
         /\ ((c + 1) + q) * Area = (c + 1) * Area + f
    BY <1>10 DEF GridsGiven
  <1>13. c * Area \in Nat /\ (c + 1) * Area = c * Area + Len(x)
    <2>1. 1 \in Nat /\ 1 * Area = Area
      BY AreaAssumption
    <2>2. (c + 1) * Area = c * Area + 1 * Area /\ c * Area \in Nat
      BY <1>1, <2>1, BlockStart, Zenon
    <2>. QED
      BY <1>5, <2>1, <2>2, Zenon
  <1>14. \A i \in 1 .. f : o2[i].cell = y[i] /\ o2[i].pad = c * Area + Len(x) + i - 1
    BY <1>12, <1>13
  <1>15. /\ o1 \o o2 \in Seq(Padded) /\ Len(o1 \o o2) = Len(x) + f
         /\ \A i \in 1 .. Len(x) + f : /\ (o1 \o o2)[i].cell = (x \o y)[i]
                                      /\ (o1 \o o2)[i].pad = c * Area + i - 1
    <2>1. RunOf(o1, x, Len(x), c * Area) /\ RunOf(o2, y, f, c * Area + Len(x))
      BY <1>11, <1>12, <1>14, Zenon DEF RunOf
    <2>2. RunOf(o1 \o o2, x \o y, Len(x) + f, c * Area)
      BY <1>4, <1>5, <1>12, <1>13, <2>1, RunsMeet, Zenon
    <2>. QED
      BY <2>2, Zenon DEF RunOf
  <1>16. x \o y = b \o d
    <2>1. (b \o d1) \o y = b \o d
      <3>1. CutAt(d, m, d1, y)
        BY <1>1, <1>4, Zenon DEF CutAt
      <3>. QED
        <4>1. b \in Seq(Nat) /\ d1 \in Seq(Nat) /\ y \in Seq(Nat) /\ m \in Nat
          BY <1>1, <1>4, Zenon
        <4>2. Rejoined(b, d, d1, y)
          BY <3>1, <4>1, Recut, Zenon
        <4>. QED
          BY <4>2, Zenon DEF Rejoined
    <2>. QED
      BY <2>1 DEF x
  <1>17. t \in Streams
    <2>1. (c + 1) + q \in Nat
      <3>1. c \in Nat /\ q \in Nat
        BY <1>1, <1>12, Zenon
      <3>. QED
        BY <3>1
    <2>2. r \in Seq(Nat) /\ Len(r) < Area
      BY <1>12, Zenon
    <2>. QED
      BY <2>1, <2>2, IsStream, Zenon
  <1>18. UpdateOutput(s, d) = o1 \o o2 /\ UpdateStream(s, d) = t
    <2>1. <<>> \o r = r
      BY <1>12
    <2>. QED
      BY <1>8, <1>9, <2>1
  <1>19. t.buffer = r /\ t.block_counter = (c + 1) + q
    OBVIOUS
  <1>20. s.buffer = b /\ s.block_counter = c
    BY DEF b, c
  <1> HIDE DEF t
  <1>21. Len(o1 \o o2) + Len(t.buffer) = Len(s.buffer) + Len(d)
    <2>1. m = Area - Len(b)
      BY DEF m
    <2>. QED
      BY <1>1, <1>4, <1>5, <1>12, <1>15, <1>19, <1>20, <2>1
  <1>22. \A i \in 1 .. Len(o1 \o o2) :
           /\ (o1 \o o2)[i].cell = (s.buffer \o d)[i]
           /\ (o1 \o o2)[i].pad = s.block_counter * Area + i - 1
    BY <1>15, <1>16, <1>20, Zenon
  <1>23. \A i \in 1 .. Len(t.buffer) : t.buffer[i] = (s.buffer \o d)[Len(o1 \o o2) + i]
    <2> SUFFICES ASSUME NEW i \in 1 .. Len(r)
                 PROVE  r[i] = (x \o y)[Len(x) + f + i]
      BY <1>15, <1>16, <1>19, <1>20, Zenon
    <2>1. Places(x, y)
      BY <1>4, <1>5, Joined, Zenon
    <2>2. f + i \in 1 .. Len(y) /\ Len(x) + f + i = Len(x) + (f + i) /\ i \in 1 .. Len(y) - f
      <3>1. Len(x) \in Nat /\ Len(y) \in Nat /\ f \in Nat
        BY <1>4, <1>5, <1>12
      <3>2. Len(r) = Len(y) - f
        BY <1>12
      <3>. QED
        BY <3>1, <3>2
    <2>3. (x \o y)[Len(x) + (f + i)] = y[f + i]
      BY <2>1, <2>2, Zenon DEF Places
    <2>4. r[i] = y[f + i]
      BY <1>12, <2>2, Zenon
    <2>. QED
      BY <2>2, <2>3, <2>4, Zenon
  <1>24. s.block_counter * Area + Len(o1 \o o2) <= t.block_counter * Area
    <2>1. c * Area + (Len(x) + f) = (c * Area + Len(x)) + f
      BY <1>5, <1>12, <1>13, AreaAssumption
    <2>2. t.block_counter * Area = c * Area + (Len(x) + f)
      BY <1>12, <1>13, <1>19, <2>1
    <2>3. s.block_counter * Area + Len(o1 \o o2) = c * Area + (Len(x) + f)
      BY <1>15, <1>20
    <2>4. c * Area + (Len(x) + f) \in Nat
      <3>1. c * Area \in Nat /\ Len(x) \in Nat /\ f \in Nat
        BY <1>5, <1>12, <1>13
      <3>. QED
        BY <3>1
    <2>. QED
      BY <2>2, <2>3, <2>4
  <1>25. Follows(s, d, o1 \o o2, t)
    BY <1>15, <1>17, <1>21, <1>22, <1>23, <1>24 DEF Follows
  <1>. QED
    BY <1>18, <1>25

\* RexStream::update: the three cases.
LEMMA UpdateFollows ==
    ASSUME NEW s \in Streams, NEW d \in Seq(Nat)
    PROVE  Follows(s, d, UpdateOutput(s, d), UpdateStream(s, d))
  BY UpdateEmpty, UpdateShort, UpdateFull, Zenon

\* RexStream::finalize: what is buffered comes out, and a started grid is spent.
LEMMA FinalizeFollows ==
    ASSUME NEW s \in Streams
    PROVE  /\ Follows(s, <<>>, FinalizeOutput(s), FinalizeStream(s))
           /\ FinalizeStream(s).buffer = <<>>
  <1> DEFINE b == s.buffer
             c == s.block_counter
             o == ApplyPads(b, c)
             t == FinalizeStream(s)
  <1>1. /\ c \in Nat /\ b \in Seq(Nat) /\ Len(b) \in Nat /\ Len(b) < Area
        /\ Area \in Nat /\ s = [block_counter |-> c, buffer |-> b]
    BY AreaAssumption DEF Streams
  <1>2. /\ o \in Seq(Padded) /\ Len(o) = Len(b)
        /\ \A i \in 1 .. Len(b) : o[i].cell = b[i] /\ o[i].pad = c * Area + i - 1
    <2> HIDE DEF b, c
    <2>. QED
      BY <1>1, Pads, Zenon
  <1>3. c * Area \in Nat /\ (c + 1) * Area = c * Area + Area
    <2>1. 1 \in Nat /\ 1 * Area = Area
      BY AreaAssumption
    <2>2. (c + 1) * Area = c * Area + 1 * Area /\ c * Area \in Nat
      <3> HIDE DEF c
      <3>. QED
        BY <1>1, <2>1, BlockStart, Zenon
    <2>. QED
      BY <2>1, <2>2, Zenon
  <1>4. t \in Streams /\ t.buffer = <<>>
    <2>1. CASE b = <<>>
      BY <2>1 DEF FinalizeStream
    <2>2. CASE b # <<>>
      <3>1. t = [block_counter |-> c + 1, buffer |-> <<>>]
        BY <2>2 DEF FinalizeStream
      <3>2. [block_counter |-> c + 1, buffer |-> <<>>] \in Streams
        BY <1>1, AreaAssumption DEF Streams
      <3>. QED
        BY <3>1, <3>2
    <2>. QED
      BY <2>1, <2>2
  <1>5. c * Area + Len(o) <= t.block_counter * Area
    <2>1. CASE b = <<>>
      <3>1. t.block_counter = c /\ Len(b) = 0
        BY <2>1 DEF FinalizeStream
      <3>. QED
        BY <1>2, <1>3, <3>1
    <2>2. CASE b # <<>>
      <3>1. t.block_counter = c + 1
        BY <2>2 DEF FinalizeStream
      <3>2. t.block_counter * Area = c * Area + Area
        BY <1>3, <3>1, Zenon
      <3> HIDE DEF t, o, b
      <3>. QED
        BY <1>1, <1>2, <1>3, <3>2
    <2>. QED
      BY <2>1, <2>2
  <1>6. b \o <<>> = b /\ Len(<<>>) = 0 /\ FinalizeOutput(s) = o
    BY <1>1 DEF FinalizeOutput
  <1>7. Len(o) + Len(t.buffer) = Len(s.buffer) + Len(<<>>)
    BY <1>2, <1>4, <1>6
  <1>8. \A i \in 1 .. Len(o) : /\ o[i].cell = (s.buffer \o <<>>)[i]
                              /\ o[i].pad = s.block_counter * Area + i - 1
    BY <1>2, <1>6, Zenon
  <1>9. \A i \in 1 .. Len(t.buffer) : t.buffer[i] = (s.buffer \o <<>>)[Len(o) + i]
    BY <1>4
  <1>10. Follows(s, <<>>, o, t)
    BY <1>2, <1>4, <1>5, <1>7, <1>8, <1>9, Zenon DEF Follows
  <1>. QED
    BY <1>4, <1>6, <1>10

-----------------------------------------------------------------------------
(* The state of a stream after any calls.                                  *)

\* What was given back (u) and what stream s holds, after fed cells.
Holds(s, u, fed) ==
    /\ s \in Streams /\ u \in Seq(Padded) /\ fed \in Nat
    /\ Len(u) + Len(s.buffer) = fed
    /\ \A i \in 1 .. Len(u) : u[i].cell = i
    /\ \A i \in 1 .. Len(s.buffer) : s.buffer[i] = Len(u) + i
    /\ \A i, j \in 1 .. Len(u) : i < j => u[i].pad < u[j].pad
    /\ \A i \in 1 .. Len(u) : u[i].pad < s.block_counter * Area

\* A call that follows keeps it.
LEMMA CallKeeps ==
    ASSUME NEW s, NEW u, NEW fed, Holds(s, u, fed),
           NEW d \in Seq(Nat), \A i \in 1 .. Len(d) : d[i] = fed + i,
           NEW o, NEW t, Follows(s, d, o, t)
    PROVE  Holds(t, u \o o, fed + Len(d))
  <1> DEFINE b == s.buffer
             z == b \o d
             base == s.block_counter * Area
             top == t.block_counter * Area
             w == u \o o
             n == Len(u)
             k == Len(o)
  <1>1. /\ s \in Streams /\ u \in Seq(Padded) /\ fed \in Nat
        /\ n + Len(b) = fed
        /\ \A i \in 1 .. n : u[i].cell = i
        /\ \A i \in 1 .. Len(b) : b[i] = n + i
        /\ \A i, j \in 1 .. n : i < j => u[i].pad < u[j].pad
        /\ \A i \in 1 .. n : u[i].pad < base
    BY Zenon DEF Holds
  <1>2. /\ o \in Seq(Padded) /\ t \in Streams /\ k + Len(t.buffer) = Len(b) + Len(d)
        /\ \A i \in 1 .. k : o[i].cell = z[i] /\ o[i].pad = base + i - 1
        /\ \A i \in 1 .. Len(t.buffer) : t.buffer[i] = z[k + i]
        /\ base + k <= top
    BY Zenon DEF Follows
  <1>3. /\ b \in Seq(Nat) /\ t.buffer \in Seq(Nat)
        /\ s.block_counter \in Nat /\ t.block_counter \in Nat
    BY <1>1, <1>2 DEF Streams
  <1>4. /\ Len(b) \in Nat /\ Len(d) \in Nat /\ n \in Nat /\ k \in Nat
        /\ Len(t.buffer) \in Nat
    BY <1>1, <1>2, <1>3
  <1>5. base \in Nat /\ top \in Nat
    BY <1>3, BlockStart, Zenon
  <1>6. w \in Seq(Padded) /\ Places(u, o) /\ Places(b, d)
    BY <1>1, <1>2, <1>3, Joined, Zenon
  <1>7. /\ Len(w) = n + k
        /\ \A i \in 1 .. n : w[i] = u[i]
        /\ \A i \in 1 .. k : w[n + i] = o[i]
        /\ \A i \in 1 .. Len(b) : z[i] = b[i]
        /\ \A i \in 1 .. Len(d) : z[Len(b) + i] = d[i]
    BY <1>6, Zenon DEF Places
  <1>8. ASSUME NEW i \in 1 .. Len(b) + Len(d)
        PROVE  z[i] = n + i
    <2>1. CASE i <= Len(b)
      <3>1. i \in 1 .. Len(b)
        BY <1>4, <2>1
      <3>. QED
        BY <1>1, <1>7, <3>1, Zenon
    <2>2. CASE i > Len(b)
      <3> DEFINE j == i - Len(b)
      <3>1. j \in 1 .. Len(d) /\ i = Len(b) + j /\ (n + Len(b)) + j = n + i
        <4> HIDE DEF n, b, z, k
        <4>. QED
          BY <1>4, <2>2
      <3> HIDE DEF j, z, b, n
      <3>2. z[Len(b) + j] = d[j] /\ d[j] = fed + j
        BY <1>7, <3>1, Zenon
      <3>3. n + Len(b) = fed
        BY <1>1
      <3>4. fed + j = n + i
        BY <3>1, <3>3
      <3>5. z[i] = d[j]
        BY <3>1, <3>2
      <3>. QED
        BY <3>2, <3>4, <3>5
    <2>3. i <= Len(b) \/ i > Len(b)
      BY <1>4
    <2>. QED
      BY <2>1, <2>2, <2>3
  <1> HIDE DEF b, z, base, top, w, n, k
  \* A place of what was given back is an old one or one of this call.
  <1>9. ASSUME NEW i \in 1 .. n + k
        PROVE  \/ i \in 1 .. n /\ w[i] = u[i]
               \/ i > n /\ i - n \in 1 .. k /\ w[i] = o[i - n]
    <2>1. CASE i <= n
      <3>1. i \in 1 .. n
        BY <1>4, <2>1
      <3>. QED
        BY <1>7, <3>1, Zenon
    <2>2. CASE i > n
      <3>1. i - n \in 1 .. k /\ n + (i - n) = i
        BY <1>4, <2>2
      <3>2. w[n + (i - n)] = o[i - n]
        BY <1>7, <3>1, Zenon
      <3>. QED
        BY <2>2, <3>1, <3>2
    <2>3. i <= n \/ i > n
      BY <1>4
    <2>. QED
      BY <2>1, <2>2, <2>3
  \* A pad of this call is between the counter before it and the counter after it.
  <1>10. ASSUME NEW i \in 1 .. k
         PROVE  o[i].pad = base + i - 1 /\ base <= o[i].pad /\ o[i].pad < top
    <2>1. o[i].pad = base + i - 1
      BY <1>2, Zenon
    <2>2. base + k <= top
      BY <1>2
    <2>. QED
      BY <1>4, <1>5, <2>1, <2>2
  <1>11. \A i \in 1 .. n : u[i].pad \in Nat
    <2> SUFFICES ASSUME NEW i \in 1 .. n
                 PROVE  u[i].pad \in Nat
      OBVIOUS
    <2>1. u[i] \in Padded
      BY <1>1 DEF n
    <2>. QED
      BY <2>1 DEF Padded
  <1>12. base <= top
    <2>1. base + k <= top
      BY <1>2
    <2>. QED
      BY <1>4, <1>5, <2>1
  <1>13. \A i \in 1 .. n + k : w[i].cell = i
    <2> SUFFICES ASSUME NEW i \in 1 .. n + k
                 PROVE  w[i].cell = i
      OBVIOUS
    <2>1. CASE i \in 1 .. n /\ w[i] = u[i]
      BY <1>1, <2>1, Zenon
    <2>2. CASE i > n /\ i - n \in 1 .. k /\ w[i] = o[i - n]
      <3>1. o[i - n].cell = z[i - n]
        BY <1>2, <2>2, Zenon
      <3>2. i - n \in 1 .. Len(b) + Len(d) /\ n + (i - n) = i
        <4>1. k + Len(t.buffer) = Len(b) + Len(d)
          BY <1>2
        <4>. QED
          BY <1>4, <2>2, <4>1
      <3>3. z[i - n] = n + (i - n)
        BY <1>8, <3>2, Zenon
      <3>. QED
        BY <2>2, <3>1, <3>2, <3>3
    <2>. QED
      BY <1>9, <2>1, <2>2, Zenon
  <1>14. \A i \in 1 .. Len(t.buffer) : t.buffer[i] = (n + k) + i
    <2> SUFFICES ASSUME NEW i \in 1 .. Len(t.buffer)
                 PROVE  t.buffer[i] = (n + k) + i
      OBVIOUS
    <2>1. t.buffer[i] = z[k + i]
      BY <1>2, Zenon
    <2>2. k + i \in 1 .. Len(b) + Len(d) /\ n + (k + i) = (n + k) + i
      <3>1. k + Len(t.buffer) = Len(b) + Len(d)
        BY <1>2
      <3>. QED
        BY <1>4, <3>1
    <2>3. z[k + i] = n + (k + i)
      BY <1>8, <2>2, Zenon
    <2>. QED
      BY <2>1, <2>2, <2>3
  <1>15. \A i \in 1 .. n + k : w[i].pad < top
    <2> SUFFICES ASSUME NEW i \in 1 .. n + k
                 PROVE  w[i].pad < top
      OBVIOUS
    <2>1. CASE i \in 1 .. n /\ w[i] = u[i]
      <3>1. u[i].pad < base /\ u[i].pad \in Nat
        BY <1>1, <1>11, <2>1, Zenon
      <3>. QED
        BY <1>5, <1>12, <2>1, <3>1
    <2>2. CASE i > n /\ i - n \in 1 .. k /\ w[i] = o[i - n]
      <3>1. o[i - n].pad < top
        BY <1>10, <2>2, Zenon
      <3>. QED
        BY <2>2, <3>1
    <2>. QED
      BY <1>9, <2>1, <2>2, Zenon
  <1>16. \A i, j \in 1 .. n + k : i < j => w[i].pad < w[j].pad
    <2> SUFFICES ASSUME NEW i \in 1 .. n + k, NEW j \in 1 .. n + k, i < j
                 PROVE  w[i].pad < w[j].pad
      OBVIOUS
    <2>1. CASE i \in 1 .. n /\ w[i] = u[i]
      <3>1. CASE j \in 1 .. n /\ w[j] = u[j]
        <4>1. u[i].pad < u[j].pad
          BY <1>1, <2>1, <3>1, Zenon
        <4>. QED
          BY <2>1, <3>1, <4>1
      <3>2. CASE j > n /\ j - n \in 1 .. k /\ w[j] = o[j - n]
        <4>1. u[i].pad < base /\ u[i].pad \in Nat
          BY <1>1, <1>11, <2>1, Zenon
        <4>2. o[j - n].pad = base + (j - n) - 1
          BY <1>10, <3>2, Zenon
        <4>3. base <= base + (j - n) - 1 /\ base + (j - n) - 1 \in Nat
          BY <1>4, <1>5, <3>2
        <4>. QED
          BY <1>5, <2>1, <3>2, <4>1, <4>2, <4>3
      <3>. QED
        BY <1>9, <3>1, <3>2, Zenon
    <2>2. CASE i > n /\ i - n \in 1 .. k /\ w[i] = o[i - n]
      <3>1. j > n
        BY <1>4, <2>2
      <3>2. j \notin 1 .. n
        BY <1>4, <3>1
      <3>3. j - n \in 1 .. k /\ w[j] = o[j - n]
        BY <1>9, <3>2, Zenon
      <3>4. o[i - n].pad = base + (i - n) - 1 /\ o[j - n].pad = base + (j - n) - 1
        BY <1>10, <2>2, <3>3, Zenon
      <3>5. base + (i - n) - 1 < base + (j - n) - 1
        BY <1>4, <1>5
      <3>. QED
        BY <2>2, <3>3, <3>4, <3>5
    <2>. QED
      BY <1>9, <2>1, <2>2, Zenon
  <1>17. (n + k) + Len(t.buffer) = fed + Len(d) /\ fed + Len(d) \in Nat
    <2>1. n + Len(b) = fed /\ k + Len(t.buffer) = Len(b) + Len(d)
      BY <1>1, <1>2
    <2> DEFINE lb == Len(b)
               ld == Len(d)
               lt == Len(t.buffer)
    <2>2. lb \in Nat /\ ld \in Nat /\ lt \in Nat /\ n + lb = fed /\ k + lt = lb + ld
      BY <1>4, <2>1
    <2> HIDE DEF lb, ld, lt
    <2>3. (n + k) + lt = fed + ld /\ fed + ld \in Nat
      BY <1>4, <2>2
    <2>. QED
      BY <2>3 DEF lt, ld
  <1>18. Len(w) = n + k /\ w \in Seq(Padded) /\ t \in Streams
    BY <1>2, <1>6, <1>7
  <1>19. Holds(t, w, fed + Len(d))
    BY <1>13, <1>14, <1>15, <1>16, <1>17, <1>18, Zenon DEF Holds, top
  <1>. QED
    BY <1>19 DEF w

-----------------------------------------------------------------------------
(* The specification.                                                      *)

\* The inductive invariant: the state is typed, in order and rising.
StreamSafe == StreamTypeOK /\ InOrder /\ PadsRise

\* It is what Holds says of the variables.
LEMMA SafeIsHolds == StreamSafe <=> Holds(stream, out, fedCells)
  <1>1. StreamTypeOK <=> /\ stream \in Streams /\ out \in Seq(Padded) /\ fedCells \in Nat
    BY Zenon DEF StreamTypeOK, Streams, Padded
  <1>. QED
    BY <1>1, Zenon DEF StreamSafe, InOrder, PadsRise, Holds

\* What a new stream holds: nothing.
LEMMA NewHolds == Holds(NewStream, <<>>, 0)
  <1>1. NewStream \in Streams
    BY AreaAssumption DEF NewStream, Streams
  <1>2. Len(NewStream.buffer) = 0 /\ Len(<<>>) = 0 /\ <<>> \in Seq(Padded)
    BY DEF NewStream
  <1>. QED
    BY <1>1, <1>2 DEF Holds

\* A chunk holds the next cells.
LEMMA ChunkNext ==
    ASSUME fedCells \in Nat, NEW n \in Nat
    PROVE  /\ Chunk(n) \in Seq(Nat) /\ Len(Chunk(n)) = n
           /\ \A i \in 1 .. n : Chunk(n)[i] = fedCells + i
  <1>1. Chunk(n) \in [1 .. n -> Nat]
    BY DEF Chunk
  <1>2. \A i \in 1 .. n : Chunk(n)[i] = fedCells + i
    BY DEF Chunk
  <1>. QED
    BY <1>1, <1>2, TableIsSeq, Zenon

\* Every step is a call that follows: some data go in, and what comes out is appended.
LEMMA StepIsCall ==
    ASSUME StreamSafe, StreamNext
    PROVE  \E d \in Seq(Nat), o \in Seq(Padded) :
             /\ Follows(stream, d, o, stream')
             /\ \A i \in 1 .. Len(d) : d[i] = fedCells + i
             /\ out' = out \o o
             /\ fedCells' = fedCells + Len(d)
  <1>1. stream \in Streams /\ fedCells \in Nat
    BY SafeIsHolds, Zenon DEF Holds
  <1>2. ASSUME NEW n \in 0 .. MaxChunk, Update(n)
        PROVE  \E d \in Seq(Nat), o \in Seq(Padded) :
                 /\ Follows(stream, d, o, stream')
                 /\ \A i \in 1 .. Len(d) : d[i] = fedCells + i
                 /\ out' = out \o o
                 /\ fedCells' = fedCells + Len(d)
    <2>0. n \in Nat
      BY StreamAssumption
    <2>1. /\ Chunk(n) \in Seq(Nat) /\ Len(Chunk(n)) = n
          /\ \A i \in 1 .. n : Chunk(n)[i] = fedCells + i
      BY <1>1, <2>0, ChunkNext, Zenon
    <2>2. Follows(stream, Chunk(n), UpdateOutput(stream, Chunk(n)), UpdateStream(stream, Chunk(n)))
      BY <1>1, <2>1, UpdateFollows, Zenon
    <2>3. /\ stream' = UpdateStream(stream, Chunk(n))
          /\ out' = out \o UpdateOutput(stream, Chunk(n))
          /\ fedCells' = fedCells + Len(Chunk(n))
      BY <1>2, <2>1, Zenon DEF Update
    <2>4. /\ Follows(stream, Chunk(n), UpdateOutput(stream, Chunk(n)), stream')
          /\ \A i \in 1 .. Len(Chunk(n)) : Chunk(n)[i] = fedCells + i
      BY <2>1, <2>2, <2>3, Zenon
    <2>5. UpdateOutput(stream, Chunk(n)) \in Seq(Padded)
      BY <2>4, Zenon DEF Follows
    <2>. QED
      BY <2>1, <2>3, <2>4, <2>5, Zenon
  <1>3. ASSUME Finalize
        PROVE  \E d \in Seq(Nat), o \in Seq(Padded) :
                 /\ Follows(stream, d, o, stream')
                 /\ \A i \in 1 .. Len(d) : d[i] = fedCells + i
                 /\ out' = out \o o
                 /\ fedCells' = fedCells + Len(d)
    <2>1. Follows(stream, <<>>, FinalizeOutput(stream), FinalizeStream(stream))
      BY <1>1, FinalizeFollows, Zenon
    <2>2. /\ stream' = FinalizeStream(stream) /\ out' = out \o FinalizeOutput(stream)
          /\ fedCells' = fedCells
      BY <1>3 DEF Finalize
    <2>3. /\ <<>> \in Seq(Nat) /\ fedCells = fedCells + Len(<<>>)
          /\ \A i \in 1 .. Len(<<>>) : <<>>[i] = fedCells + i
      BY <1>1
    <2>4. Follows(stream, <<>>, FinalizeOutput(stream), stream')
      BY <2>1, <2>2, Zenon
    <2>5. fedCells' = fedCells + Len(<<>>)
      BY <2>2, <2>3, Zenon
    <2>6. FinalizeOutput(stream) \in Seq(Padded)
      BY <2>4, Zenon DEF Follows
    <2>. QED
      BY <2>2, <2>3, <2>4, <2>5, <2>6, Zenon
  <1>. QED
    BY <1>2, <1>3, Zenon DEF StreamNext

\* The invariant is kept.
LEMMA StepKeeps == StreamSafe /\ [StreamNext]_streamVars => StreamSafe'
  <1> SUFFICES ASSUME StreamSafe, [StreamNext]_streamVars
               PROVE  StreamSafe'
    OBVIOUS
  <1>1. CASE StreamNext
    <2>1. PICK d \in Seq(Nat), o \in Seq(Padded) :
             /\ Follows(stream, d, o, stream')
             /\ \A i \in 1 .. Len(d) : d[i] = fedCells + i
             /\ out' = out \o o
             /\ fedCells' = fedCells + Len(d)
      BY <1>1, StepIsCall, Zenon
    <2>2. Holds(stream, out, fedCells)
      BY SafeIsHolds, Zenon
    <2>3. Holds(stream', out \o o, fedCells + Len(d))
      BY <2>1, <2>2, CallKeeps, Zenon
    <2>4. Holds(stream', out', fedCells')
      BY <2>1, <2>3, Zenon
    <2>5. StreamSafe' <=> Holds(stream', out', fedCells')
      <3>1. StreamTypeOK' <=> /\ stream' \in Streams /\ out' \in Seq(Padded)
                              /\ fedCells' \in Nat
        BY Zenon DEF StreamTypeOK, Streams, Padded
      <3>. QED
        BY <3>1, Zenon DEF StreamSafe, InOrder, PadsRise, Holds
    <2>. QED
      BY <2>4, <2>5, Zenon
  <1>2. CASE UNCHANGED streamVars
    BY <1>2 DEF streamVars, StreamSafe, StreamTypeOK, InOrder, PadsRise
  <1>. QED
    BY <1>1, <1>2

\* RexStream, fed chunks of any length and finalized anywhere, gives every cell back once
\* and in order, and never uses a cell of the keystream twice, whatever the size of a grid.
THEOREM StreamIsSafe == StreamSpec => []StreamSafe
  <1>1. StreamInit => StreamSafe
    <2> SUFFICES ASSUME StreamInit
                 PROVE  Holds(stream, out, fedCells)
      BY SafeIsHolds, Zenon
    <2>. QED
      BY NewHolds, Zenon DEF StreamInit
  <1>. QED
    BY <1>1, StepKeeps, PTL DEF StreamSpec

-----------------------------------------------------------------------------
(* The promise.                                                            *)

PadsFor(u) == [i \in 1 .. Len(u) |-> u[i].pad]

\* The pads of what was given back are the sequence of pads.
LEMMA PadsAre ==
    ASSUME NEW u \in Seq(Padded)
    PROVE  /\ PadsFor(u) \in Seq(Nat) /\ Len(PadsFor(u)) = Len(u)
           /\ \A i \in 1 .. Len(u) : PadsFor(u)[i] = u[i].pad
  <1>1. Len(u) \in Nat
    OBVIOUS
  <1>2. ASSUME NEW i \in 1 .. Len(u)
        PROVE  u[i].pad \in Nat
    <2>1. u[i] \in Padded
      OBVIOUS
    <2>. QED
      BY <2>1 DEF Padded
  <1>3. PadsFor(u) \in [1 .. Len(u) -> Nat]
    BY <1>2 DEF PadsFor
  <1>4. \A i \in 1 .. Len(u) : PadsFor(u)[i] = u[i].pad
    BY DEF PadsFor
  <1>. QED
    BY <1>1, <1>3, <1>4, TableIsSeq, Zenon

\* A step of the stream gives, in the sense of the promise.
LEMMA StepGives ==
    ASSUME StreamSafe, StreamSafe', StreamNext
    PROVE  Pad!Give
  <1>1. Holds(stream, out, fedCells) /\ Holds(stream', out', fedCells')
    <2>1. StreamTypeOK' <=> /\ stream' \in Streams /\ out' \in Seq(Padded)
                            /\ fedCells' \in Nat
      BY Zenon DEF StreamTypeOK, Streams, Padded
    <2>2. StreamSafe' <=> Holds(stream', out', fedCells')
      BY <2>1, Zenon DEF StreamSafe, InOrder, PadsRise, Holds
    <2>. QED
      BY <2>2, SafeIsHolds, Zenon
  <1>2. PICK d \in Seq(Nat), o \in Seq(Padded) :
          /\ Follows(stream, d, o, stream')
          /\ out' = out \o o
          /\ fedCells' = fedCells + Len(d)
    BY StepIsCall, Zenon
  <1>3. out \in Seq(Padded) /\ out' \in Seq(Padded) /\ o \in Seq(Padded) /\ fedCells \in Nat
    BY <1>1, <1>2, Zenon DEF Holds, Follows
  <1> DEFINE p == PadsFor(out)
             r == PadsFor(out')
  <1>4. /\ Len(p) = Len(out) /\ \A i \in 1 .. Len(out) : p[i] = out[i].pad
        /\ Len(r) = Len(out') /\ \A i \in 1 .. Len(out') : r[i] = out'[i].pad
    BY <1>3, PadsAre, Zenon
  <1>5. p = [i \in 1 .. Len(out) |-> out[i].pad] /\ r = [i \in 1 .. Len(out') |-> out'[i].pad]
    BY DEF PadsFor
  <1> HIDE DEF p, r
  <1>6. fedCells' >= fedCells
    <2>1. Len(d) \in Nat
      OBVIOUS
    <2>. QED
      BY <1>2, <1>3, <2>1
  <1>7. Places(out, o)
    BY <1>3, Joined, Zenon
  <1>8. Len(out) \in Nat /\ Len(o) \in Nat /\ Len(out') = Len(out) + Len(o)
    BY <1>2, <1>3, <1>7 DEF Places
  <1>9. Len(p) <= Len(r) /\ \A i \in 1 .. Len(p) : r[i] = p[i]
    <2>1. Len(p) <= Len(r)
      BY <1>4, <1>8
    <2>2. ASSUME NEW i \in 1 .. Len(p)
          PROVE  r[i] = p[i]
      <3>1. i \in 1 .. Len(out) /\ i \in 1 .. Len(out')
        BY <1>4, <1>8
      <3>2. out'[i] = out[i]
        BY <1>2, <1>7, <3>1, Zenon DEF Places
      <3>. QED
        BY <1>4, <3>1, <3>2, Zenon
    <2>. QED
      BY <2>1, <2>2
  <1>10. \A i, j \in 1 .. Len(r) : i < j => r[i] < r[j]
    <2>1. \A i, j \in 1 .. Len(out') : i < j => out'[i].pad < out'[j].pad
      BY <1>1, Zenon DEF Holds
    <2> SUFFICES ASSUME NEW i \in 1 .. Len(r), NEW j \in 1 .. Len(r), i < j
                 PROVE  r[i] < r[j]
      OBVIOUS
    <2>2. i \in 1 .. Len(out') /\ j \in 1 .. Len(out')
      BY <1>4, Zenon
    <2>3. out'[i].pad < out'[j].pad
      BY <2>1, <2>2, Zenon
    <2>4. r[i] = out'[i].pad /\ r[j] = out'[j].pad
      BY <1>4, <2>2, Zenon
    <2>. QED
      BY <2>3, <2>4
  <1>11. Len(r) <= fedCells'
    <2>1. Len(out') + Len(stream'.buffer) = fedCells' /\ stream' \in Streams
      BY <1>1, Zenon DEF Holds
    <2>2. stream'.buffer \in Seq(Nat)
      BY <2>1 DEF Streams
    <2>3. Len(stream'.buffer) \in Nat /\ Len(out') \in Nat
      BY <1>3, <2>2
    <2>. QED
      BY <1>4, <2>1, <2>3
  <1>12. /\ fedCells' >= fedCells
         /\ Pad!Extends(p, r) /\ Pad!Rising(r) /\ Len(r) <= fedCells'
    BY <1>6, <1>9, <1>10, <1>11, Zenon DEF Pad!Extends, Pad!Rising
  <1>. QED
    BY <1>5, <1>12, Zenon DEF Pad!Give

\* finalize flushes.
LEMMA FinalizeFlushes ==
    ASSUME StreamSafe, StreamSafe', Finalize
    PROVE  Pad!Flush
  <1>1. StreamNext
    BY Zenon DEF StreamNext
  <1>2. Pad!Give
    BY <1>1, StepGives, Zenon
  <1>3. stream \in Streams
    BY SafeIsHolds, Zenon DEF Holds
  <1>4. stream'.buffer = <<>> /\ fedCells' = fedCells
    BY <1>3, FinalizeFollows, Zenon DEF Finalize
  <1>5. Len(out') + Len(stream'.buffer) = fedCells' /\ out' \in Seq(Padded)
    BY Zenon DEF StreamSafe, InOrder, StreamTypeOK, Padded
  <1>6. Len(out') = fedCells
    <2>1. Len(out') \in Nat /\ Len(<<>>) = 0
      BY <1>5
    <2>. QED
      BY <1>4, <1>5, <2>1
  <1>7. Len(PadsFor(out')) = Len(out')
    BY <1>5, PadsAre, Zenon
  <1>8. PadsFor(out') = [i \in 1 .. Len(out') |-> out'[i].pad]
    BY DEF PadsFor
  <1>. QED
    BY <1>2, <1>4, <1>6, <1>7, <1>8, Zenon DEF Pad!Flush

\* RexStream implements OneTimePad: every cell is given back under a pad of its own that is
\* above all earlier ones, in the order the cells came, and finalize holds nothing back.
THEOREM StreamKeepsPromise == StreamSpec => KeepsPromise
  <1>1. StreamInit => Pad!PadInit
    BY DEF StreamInit, Pad!PadInit
  <1>2. StreamSafe /\ StreamSafe' /\ [StreamNext]_streamVars => [Pad!Give]_(Pad!padVars)
    <2> SUFFICES ASSUME StreamSafe, StreamSafe', [StreamNext]_streamVars
                 PROVE  [Pad!Give]_(Pad!padVars)
      OBVIOUS
    <2>1. CASE StreamNext
      BY <2>1, StepGives, Zenon
    <2>2. CASE UNCHANGED streamVars
      BY <2>2 DEF streamVars, Pad!padVars
    <2>. QED
      BY <2>1, <2>2
  <1>3. StreamSafe /\ StreamSafe' /\ [StreamNext]_streamVars => [Finalize => Pad!Flush]_streamVars
    BY FinalizeFlushes, Zenon
  <1>4. StreamSpec => Pad!PadSpec /\ [][Finalize => Pad!Flush]_streamVars
    BY <1>1, <1>2, <1>3, StreamIsSafe, PTL DEF StreamSpec, Pad!PadSpec
  <1>. QED
    BY <1>4 DEF KeepsPromise

-----------------------------------------------------------------------------
(* PacketStream.                                                           *)

\* The messages of an end, whose bytes are named by the end, the message and
\* the place.
Messages == Seq(Ends \X Nat \X Nat)

MessageSeq == Seq(Messages)

Token(e) == IF e = "client" THEN ForwardToken ELSE ReverseToken

\* The body under which an end seals a message.
BodyOf(s, msg) ==
    [i \in 1 .. Len(msg) |-> [byte |-> msg[i], under |-> KeyByte(s, Len(msg), i)]]

\* H[e][k] is the stream with which end e seals after k messages: the two ends
\* of a direction pass through the same ones, one frame at a time.
Passed(H) ==
    \A e \in Ends :
        /\ H[e][0] = StreamOf(e)
        /\ \A k \in 0 .. Len(sealed[e]) : H[e][k].context = Token(e) /\ H[e][k].counter = k
        /\ \A k \in 1 .. Len(sealed[e]) : H[e][k] = Advance(H[e][k - 1], Len(sealed[e][k]))
        /\ seals[e] = H[e][Len(sealed[e])]
        /\ Len(opened[e]) <= Len(sealed[Peer(e)])
        /\ opens[e] = H[Peer(e)][Len(opened[e])]

\* The tag of a frame is the one that some end gave some message it sealed,
\* whatever became of the frame.
Tagged(f, H) ==
    \E p \in Ends : \E k \in 1 .. Len(sealed[p]) :
        f.tag = Mac(H[p][k - 1], BodyOf(H[p][k - 1], sealed[p][k]))

PacketTyped == sealed \in [Ends -> MessageSeq] /\ opened \in [Ends -> MessageSeq]

OpenedSame ==
    \A e \in Ends : \A k \in 1 .. Len(opened[e]) : opened[e][k] = sealed[Peer(e)][k]

PacketInv ==
    /\ PacketTyped /\ OpenedSame /\ DOMAIN seals = Ends /\ DOMAIN opens = Ends
    /\ \E H, F : Passed(H) /\ wire \in [Ends -> Seq(F)] /\ \A f \in F : Tagged(f, H)

-----------------------------------------------------------------------------

\* Two ends.
LEMMA PeerFacts ==
    ASSUME NEW e \in Ends
    PROVE  Peer(e) \in Ends /\ Peer(Peer(e)) = e /\ Peer(e) # e
  BY DEF Peer, Ends

\* The two directions have different contexts.
LEMMA TokensDiffer ==
    ASSUME NEW e \in Ends, NEW p \in Ends, Token(e) = Token(p)
    PROVE  e = p
  <1>1. ForwardToken # ReverseToken
    <2>1. Len(ForwardToken) = 1 /\ Len(ReverseToken) = 2
      BY DEF ForwardToken, ReverseToken
    <2>. QED
      BY <2>1
  <1>. QED
    BY <1>1 DEF Token, Ends

\* A message is sealed behind the others.
LEMMA MessageAppends ==
    ASSUME NEW s \in MessageSeq, NEW m \in Messages
    PROVE  /\ Append(s, m) \in MessageSeq
           /\ Len(s) \in Nat /\ Len(Append(s, m)) = Len(s) + 1
           /\ Append(s, m)[Len(s) + 1] = m
           /\ \A k \in 1 .. Len(s) : Append(s, m)[k] = s[k] /\ s[k] \in Messages
  BY DEF MessageSeq

\* What a frame that verifies gives.
LEMMA VerifiedIsNext ==
    ASSUME PacketTyped, NEW H, Passed(H), NEW f, Tagged(f, H), NEW e \in Ends, Verifies(opens[e], f)
    PROVE  /\ Len(opened[e]) < Len(sealed[Peer(e)])
           /\ Plaintext(opens[e], f) = sealed[Peer(e)][Len(opened[e]) + 1]
           /\ Len(f.body) = Len(sealed[Peer(e)][Len(opened[e]) + 1])
  <1>1. PICK p \in Ends, k \in Int :
            /\ k \in 1 .. Len(sealed[p])
            /\ f.tag = Mac(H[p][k - 1], BodyOf(H[p][k - 1], sealed[p][k]))
    BY DEF Tagged
  <1>2. f.tag = Mac(opens[e], f.body)
    BY DEF Verifies
  <1>3. /\ H[p][k - 1].context = opens[e].context
        /\ H[p][k - 1].counter = opens[e].counter
        /\ BodyOf(H[p][k - 1], sealed[p][k]) = f.body
    BY <1>1, <1>2 DEF Mac
  <1>4. /\ Peer(e) \in Ends /\ sealed[p] \in MessageSeq /\ sealed[Peer(e)] \in MessageSeq
        /\ opened[e] \in MessageSeq
    BY PeerFacts DEF PacketTyped
  <1>5. Len(opened[e]) \in Nat /\ Len(sealed[p]) \in Nat /\ Len(sealed[Peer(e)]) \in Nat
    BY <1>4 DEF MessageSeq
  <1>6. /\ opens[e].context = Token(Peer(e)) /\ opens[e].counter = Len(opened[e])
        /\ opens[e] = H[Peer(e)][Len(opened[e])]
    BY <1>4, <1>5 DEF Passed
  <1>7. H[p][k - 1].context = Token(p) /\ H[p][k - 1].counter = k - 1
    BY <1>1, <1>5 DEF Passed
  <1>8. p = Peer(e)
    BY <1>3, <1>4, <1>6, <1>7, TokensDiffer
  <1>9. k = Len(opened[e]) + 1
    BY <1>3, <1>5, <1>6, <1>7
  <1>10. Len(opened[e]) < Len(sealed[Peer(e)])
    BY <1>1, <1>5, <1>8, <1>9
  <1> DEFINE msg == sealed[p][k]
  <1>11. msg \in Messages
    BY <1>1, <1>4, <1>5 DEF MessageSeq
  <1>12. H[p][k - 1] = opens[e]
    BY <1>5, <1>6, <1>8, <1>9
  <1>13. f.body = BodyOf(opens[e], msg)
    BY <1>3, <1>12
  <1> HIDE DEF msg
  <1>14. Len(msg) \in Nat /\ msg = [i \in 1 .. Len(msg) |-> msg[i]]
    BY <1>11 DEF Messages
  <1>15. Len(f.body) = Len(msg)
    BY <1>13, <1>14 DEF BodyOf
  <1>16. \A i \in 1 .. Len(msg) : /\ f.body[i].byte = msg[i]
                                  /\ f.body[i].under = KeyByte(opens[e], Len(msg), i)
    BY <1>13 DEF BodyOf
  <1>17. Plaintext(opens[e], f) = [i \in 1 .. Len(msg) |-> msg[i]]
    BY <1>15, <1>16 DEF Plaintext
  <1>. QED
    BY <1>8, <1>9, <1>10, <1>14, <1>15, <1>17 DEF msg

\* The invariant holds of a new connection.
LEMMA PacketStart == PacketInit => PacketInv
  <1>. SUFFICES ASSUME PacketInit PROVE PacketInv
    OBVIOUS
  <1>1. <<>> \in MessageSeq /\ Len(<<>>) = 0
    BY DEF MessageSeq
  <1>2. \A e \in Ends : sealed[e] = <<>> /\ opened[e] = <<>> /\ wire[e] = <<>>
    BY DEF PacketInit
  <1>3. PacketTyped /\ OpenedSame /\ DOMAIN seals = Ends /\ DOMAIN opens = Ends
    BY <1>1, <1>2 DEF PacketInit, PacketTyped, OpenedSame
  <1>4. \A e \in Ends : StreamOf(e).context = Token(e) /\ StreamOf(e).counter = 0
    BY DEF StreamOf, InitStream, Token
  <1> DEFINE H == [e \in Ends |-> [k \in Nat |-> StreamOf(e)]]
  <1>5. \A e \in Ends : H[e][0] = StreamOf(e) /\ seals[e] = H[e][0] /\ opens[e] = H[Peer(e)][0]
    BY PeerFacts DEF PacketInit
  <1> HIDE DEF H
  <1>6. Passed(H)
    BY <1>1, <1>2, <1>4, <1>5, PeerFacts DEF Passed
  <1>7. PICK F : F = {}
    OBVIOUS
  <1>8. wire \in [Ends -> Seq(F)] /\ \A f \in F : Tagged(f, H)
    BY <1>7 DEF PacketInit
  <1>9. \E J, S : Passed(J) /\ wire \in [Ends -> Seq(S)] /\ \A f \in S : Tagged(f, J)
    BY <1>6, <1>8
  <1>. QED
    BY <1>3, <1>9 DEF PacketInv

-----------------------------------------------------------------------------

\* An end seals a message: its stream takes one more step.
LEMMA SealStep == ASSUME PacketInv, NEW e \in Ends, NEW n \in Lengths, Seal(e, n) PROVE PacketInv'
  <1>1. PICK H, F : Passed(H) /\ wire \in [Ends -> Seq(F)] /\ \A f \in F : Tagged(f, H)
    BY DEF PacketInv
  <1> DEFINE m == Message(e, n)
             L == Len(sealed[e])
  <1>2. /\ sealed' = [sealed EXCEPT ![e] = Append(@, m)]
        /\ wire' = [wire EXCEPT ![Peer(e)] = Append(@, SealFrame(seals[e], m))]
        /\ seals' = [seals EXCEPT ![e] = Advance(@, n)]
        /\ UNCHANGED <<opens, opened>>
    BY DEF Seal
  <1>3. /\ sealed \in [Ends -> MessageSeq] /\ opened \in [Ends -> MessageSeq]
        /\ n \in Nat /\ L \in Nat
    BY PacketAssumption DEF PacketInv, PacketTyped, MessageSeq
  <1>4. m \in Messages /\ Len(m) = n
    BY <1>3 DEF Message, Messages
  <1> PICK msg : msg = m
    OBVIOUS
  <1>5. msg \in Messages /\ Len(msg) = n /\ sealed' = [sealed EXCEPT ![e] = Append(@, msg)]
        /\ wire' = [wire EXCEPT ![Peer(e)] = Append(@, SealFrame(seals[e], msg))]
    BY <1>2, <1>4
  <1> PICK N : N = L
    OBVIOUS
  <1>6. N \in Nat /\ N = Len(sealed[e])
    BY <1>3
  <1> HIDE DEF m, L
  <1>7. /\ sealed' \in [Ends -> MessageSeq]
        /\ Len(sealed'[e]) = N + 1 /\ sealed'[e][N + 1] = msg
        /\ \A k \in 1 .. N : sealed'[e][k] = sealed[e][k]
        /\ \A p \in Ends : p # e => sealed'[p] = sealed[p]
    BY <1>3, <1>5, <1>6, MessageAppends
  <1>8. \A p \in Ends : /\ Len(sealed[p]) \in Nat /\ Len(sealed[p]) <= Len(sealed'[p])
                        /\ Len(sealed'[p]) \in Nat
                        /\ \A k \in 1 .. Len(sealed[p]) : sealed'[p][k] = sealed[p][k]
    <2>1. \A p \in Ends : Len(sealed[p]) \in Nat
      BY <1>3 DEF MessageSeq
    <2>2. ASSUME NEW p \in Ends, p # e
          PROVE  sealed'[p] = sealed[p] /\ Len(sealed'[p]) = Len(sealed[p])
      BY <1>7, <2>2
    <2>3. N <= N + 1 /\ N + 1 \in Nat
      BY <1>6
    <2>. QED
      BY <1>6, <1>7, <2>1, <2>2, <2>3
  <1> PICK s : s = Advance(seals[e], n)
    OBVIOUS
  <1> DEFINE G == [p \in Ends |-> [k \in Nat |-> IF p = e /\ k = N + 1 THEN s ELSE H[p][k]]]
  <1> PICK J : J = G
    OBVIOUS
  <1>9. /\ J[e][N + 1] = s
        /\ \A k \in 0 .. N : J[e][k] = H[e][k]
        /\ \A p \in Ends : p # e => \A k \in Nat : J[p][k] = H[p][k]
    BY <1>6
  <1> HIDE DEF G
  <1>10. \A p \in Ends : \A k \in 0 .. Len(sealed[p]) : J[p][k] = H[p][k]
    BY <1>6, <1>8, <1>9
  <1>11. s.context = Token(e) /\ s.counter = N + 1 /\ s = Advance(H[e][N], n)
    <2>1. seals[e] = H[e][N] /\ H[e][N].context = Token(e) /\ H[e][N].counter = N
      BY <1>1, <1>6 DEF Passed
    <2>. QED
      BY <2>1 DEF Advance
  <1>12. Passed(J)'
    <2>1. \A p \in Ends : J[p][0] = StreamOf(p)
      <3>1. \A p \in Ends : 0 \in 0 .. Len(sealed[p])
        BY <1>8
      <3>2. \A p \in Ends : J[p][0] = H[p][0]
        BY <1>10, <3>1
      <3>. QED
        BY <1>1, <3>2 DEF Passed
    <2>2. \A p \in Ends : \A k \in 0 .. Len(sealed'[p]) : J[p][k].context = Token(p) /\ J[p][k].counter = k
      <3>1. ASSUME NEW p \in Ends, p # e, NEW k \in 0 .. Len(sealed'[p])
            PROVE  J[p][k].context = Token(p) /\ J[p][k].counter = k
        BY <1>1, <1>7, <1>10, <3>1 DEF Passed
      <3>2. ASSUME NEW k \in 0 .. N
            PROVE  J[e][k].context = Token(e) /\ J[e][k].counter = k
        BY <1>1, <1>6, <1>10 DEF Passed
      <3>3. J[e][N + 1].context = Token(e) /\ J[e][N + 1].counter = N + 1
        BY <1>9, <1>11
      <3>. QED
        BY <1>6, <1>7, <3>1, <3>2, <3>3
    <2>3. \A p \in Ends : \A k \in 1 .. Len(sealed'[p]) : J[p][k] = Advance(J[p][k - 1], Len(sealed'[p][k]))
      <3>1. ASSUME NEW p \in Ends, NEW k \in 1 .. Len(sealed[p])
            PROVE  J[p][k] = Advance(J[p][k - 1], Len(sealed'[p][k]))
        <4>1. J[p][k] = H[p][k] /\ J[p][k - 1] = H[p][k - 1] /\ sealed'[p][k] = sealed[p][k]
          BY <1>8, <1>10
        <4>2. H[p][k] = Advance(H[p][k - 1], Len(sealed[p][k]))
          BY <1>1 DEF Passed
        <4>. QED
          BY <4>1, <4>2
      <3>2. J[e][N + 1] = Advance(J[e][(N + 1) - 1], Len(sealed'[e][N + 1]))
        BY <1>5, <1>6, <1>7, <1>9, <1>11
      <3>3. \A p \in Ends : p # e => Len(sealed'[p]) = Len(sealed[p])
        BY <1>7
      <3>4. Len(sealed'[e]) = N + 1 /\ Len(sealed[e]) = N
        BY <1>6, <1>7
      <3>5. ASSUME NEW p \in Ends, NEW k \in 1 .. Len(sealed'[p])
            PROVE  J[p][k] = Advance(J[p][k - 1], Len(sealed'[p][k]))
        <4>1. CASE k \in 1 .. Len(sealed[p])
          BY <3>1, <4>1
        <4>2. CASE k \notin 1 .. Len(sealed[p])
          <5>1. p = e /\ k = N + 1
            BY <1>6, <3>3, <3>4, <4>2
          <5>. QED
            BY <3>2, <5>1
        <4>. QED
          BY <4>1, <4>2
      <3>. QED
        BY <3>5
    <2>4. \A p \in Ends : seals'[p] = J[p][Len(sealed'[p])]
      <3>1. seals'[e] = s /\ \A p \in Ends : p # e => seals'[p] = seals[p]
        BY <1>2 DEF PacketInv
      <3>2. \A p \in Ends : p # e => seals[p] = J[p][Len(sealed[p])]
        BY <1>1, <1>8, <1>9 DEF Passed
      <3>. QED
        BY <1>7, <1>9, <3>1, <3>2
    <2>5. \A p \in Ends : Len(opened'[p]) <= Len(sealed'[Peer(p)])
                          /\ opens'[p] = J[Peer(p)][Len(opened'[p])]
      <3>. SUFFICES ASSUME NEW p \in Ends
                    PROVE  Len(opened[p]) <= Len(sealed'[Peer(p)]) /\ opens[p] = J[Peer(p)][Len(opened[p])]
        BY <1>2
      <3>1. Peer(p) \in Ends /\ Len(opened[p]) \in Nat
        BY <1>3, PeerFacts DEF MessageSeq
      <3>2. Len(opened[p]) <= Len(sealed[Peer(p)]) /\ opens[p] = H[Peer(p)][Len(opened[p])]
        BY <1>1 DEF Passed
      <3>. QED
        BY <1>8, <1>10, <3>1, <3>2
    <2>. QED
      BY <2>1, <2>2, <2>3, <2>4, <2>5 DEF Passed
  <1>13. \A f \in F : Tagged(f, J)'
    <2>. SUFFICES ASSUME NEW f \in F PROVE Tagged(f, J)'
      OBVIOUS
    <2>0. Tagged(f, H)
      BY <1>1
    <2>1. PICK p \in Ends, k \in Int :
              /\ k \in 1 .. Len(sealed[p])
              /\ f.tag = Mac(H[p][k - 1], BodyOf(H[p][k - 1], sealed[p][k]))
      BY <2>0 DEF Tagged
    <2>2. J[p][k - 1] = H[p][k - 1] /\ sealed'[p][k] = sealed[p][k] /\ k \in 1 .. Len(sealed'[p])
      <3>1. Len(sealed[p]) \in Nat /\ Len(sealed'[p]) \in Nat /\ Len(sealed[p]) <= Len(sealed'[p])
        BY <1>8
      <3>2. k \in 1 .. Len(sealed'[p]) /\ k - 1 \in 0 .. Len(sealed[p])
        BY <2>1, <3>1
      <3>. QED
        BY <1>8, <1>10, <2>1, <3>2
    <2>3. f.tag = Mac(J[p][k - 1], BodyOf(J[p][k - 1], sealed'[p][k]))
      BY <2>1, <2>2
    <2>. QED
      BY <2>2, <2>3 DEF Tagged
  <1> PICK g : g = SealFrame(seals[e], msg)
    OBVIOUS
  <1>14. Tagged(g, J)'
    <2>1. seals[e] = J[e][N] /\ J[e][N] = J[e][(N + 1) - 1]
      BY <1>1, <1>6, <1>9 DEF Passed
    <2>2. g.tag = Mac(seals[e], BodyOf(seals[e], msg))
      BY DEF SealFrame, BodyOf
    <2>3. g.tag = Mac(J[e][(N + 1) - 1], BodyOf(J[e][(N + 1) - 1], sealed'[e][N + 1]))
      BY <1>7, <2>1, <2>2
    <2>4. N + 1 \in 1 .. Len(sealed'[e])
      BY <1>6, <1>7
    <2>. QED
      BY <2>3, <2>4 DEF Tagged
  <1>15. wire' \in [Ends -> Seq(F \cup {g})]
    <2>1. \A p \in Ends : wire[p] \in Seq(F \cup {g})
      BY <1>1
    <2>2. Append(wire[Peer(e)], g) \in Seq(F \cup {g})
      BY <2>1, PeerFacts
    <2>. QED
      BY <1>1, <1>5, <2>1, <2>2
  <1>16. OpenedSame'
    <2>. SUFFICES ASSUME NEW p \in Ends, NEW k \in 1 .. Len(opened[p])
                  PROVE  opened[p][k] = sealed'[Peer(p)][k]
      BY <1>2 DEF OpenedSame
    <2>1. Peer(p) \in Ends /\ Len(opened[p]) \in Nat /\ Len(opened[p]) <= Len(sealed[Peer(p)])
      BY <1>1, <1>3, PeerFacts DEF Passed, MessageSeq
    <2>. QED
      BY <1>8, <2>1 DEF PacketInv, OpenedSame
  <1>17. PacketTyped' /\ DOMAIN seals' = Ends /\ DOMAIN opens' = Ends
    BY <1>2, <1>3, <1>7 DEF PacketInv, PacketTyped
  <1>18. \A f \in F \cup {g} : Tagged(f, J)'
    BY <1>13, <1>14
  <1>. QED
    BY <1>12, <1>15, <1>16, <1>17, <1>18 DEF PacketInv

-----------------------------------------------------------------------------

\* An end opens a frame or refuses it: the tag verifies only for the frame its stream
\* is at.
LEMMA OpenStep == ASSUME PacketInv, NEW e \in Ends, OpenNext(e) PROVE PacketInv'
  <1>1. PICK H, F : Passed(H) /\ wire \in [Ends -> Seq(F)] /\ \A f \in F : Tagged(f, H)
    BY DEF PacketInv
  <1> PICK f : f = Head(wire[e])
    OBVIOUS
  <1>2. /\ wire[e] # <<>> /\ wire' = [wire EXCEPT ![e] = Tail(@)] /\ UNCHANGED <<seals, sealed>>
        /\ IF Verifies(opens[e], f)
           THEN /\ opened' = [opened EXCEPT ![e] = Append(@, Plaintext(opens[e], f))]
                /\ opens' = [opens EXCEPT ![e] = Advance(@, Len(f.body))]
           ELSE UNCHANGED <<opened, opens>>
    BY DEF OpenNext
  <1>3. f \in F /\ wire' \in [Ends -> Seq(F)]
    BY <1>1, <1>2
  <1>4. /\ sealed \in [Ends -> MessageSeq] /\ opened \in [Ends -> MessageSeq] /\ PacketTyped
        /\ \A p \in Ends : Peer(p) \in Ends
    BY PeerFacts DEF PacketInv, PacketTyped
  <1>5. \A g \in F : Tagged(g, H)'
    BY <1>1, <1>2 DEF Tagged
  <1>6. CASE ~Verifies(opens[e], f)
    <2>1. UNCHANGED <<seals, sealed, opened, opens>>
      BY <1>2, <1>6
    <2>2. Passed(H)'
      BY <1>1, <2>1 DEF Passed
    <2>. QED
      BY <1>3, <1>5, <2>1, <2>2 DEF PacketInv, PacketTyped, OpenedSame
  <1>7. CASE Verifies(opens[e], f)
    <2> PICK N : N = Len(opened[e])
      OBVIOUS
    <2> PICK q : q = Peer(e)
      OBVIOUS
    <2>0. q \in Ends /\ q = Peer(e)
      BY PeerFacts
    <2>1. /\ N < Len(sealed[q]) /\ Plaintext(opens[e], f) = sealed[q][N + 1]
          /\ Len(f.body) = Len(sealed[q][N + 1])
      BY <1>1, <1>3, <1>4, <1>7, VerifiedIsNext
    <2>2. N \in Nat /\ Len(sealed[q]) \in Nat
      BY <1>4, <2>0 DEF MessageSeq
    <2>3. sealed[q][N + 1] \in Messages
      BY <1>4, <2>0, <2>1, <2>2 DEF MessageSeq
    <2>4. /\ opened' = [opened EXCEPT ![e] = Append(@, sealed[q][N + 1])]
          /\ opens' = [opens EXCEPT ![e] = Advance(@, Len(sealed[q][N + 1]))]
      BY <1>2, <1>7, <2>1
    <2>5. /\ opened' \in [Ends -> MessageSeq]
          /\ Len(opened'[e]) = N + 1 /\ opened'[e][N + 1] = sealed[q][N + 1]
          /\ \A k \in 1 .. N : opened'[e][k] = opened[e][k]
          /\ \A p \in Ends : p # e => opened'[p] = opened[p]
      BY <1>4, <2>3, <2>4, MessageAppends
    <2>6. /\ opens'[e] = Advance(opens[e], Len(sealed[q][N + 1])) /\ DOMAIN opens' = Ends
          /\ \A p \in Ends : p # e => opens'[p] = opens[p]
      BY <2>4 DEF PacketInv
    <2>7. opens'[e] = H[q][N + 1]
      <3>1. opens[e] = H[q][N]
        BY <1>1, <2>0 DEF Passed
      <3>2. N + 1 \in 1 .. Len(sealed[q]) /\ (N + 1) - 1 = N
        BY <2>1, <2>2
      <3>3. H[q][N + 1] = Advance(H[q][(N + 1) - 1], Len(sealed[q][N + 1]))
        BY <1>1, <2>0, <3>2 DEF Passed
      <3>. QED
        BY <2>6, <3>1, <3>2, <3>3
    <2>8. \A p \in Ends : Len(opened'[p]) <= Len(sealed[Peer(p)]) /\ opens'[p] = H[Peer(p)][Len(opened'[p])]
      <3>1. N + 1 <= Len(sealed[q])
        BY <2>1, <2>2
      <3>2. ASSUME NEW p \in Ends, p # e
            PROVE  Len(opened'[p]) <= Len(sealed[Peer(p)]) /\ opens'[p] = H[Peer(p)][Len(opened'[p])]
        BY <1>1, <2>5, <2>6, <3>2 DEF Passed
      <3>. QED
        BY <2>0, <2>5, <2>7, <3>1, <3>2
    <2>9. Passed(H)'
      BY <1>1, <1>2, <2>8 DEF Passed
    <2>10. OpenedSame'
      <3>1. ASSUME NEW p \in Ends, p # e, NEW k \in 1 .. Len(opened'[p])
            PROVE  opened'[p][k] = sealed[Peer(p)][k]
        BY <2>5, <3>1 DEF PacketInv, OpenedSame
      <3>2. ASSUME NEW k \in 1 .. N
            PROVE  opened'[e][k] = sealed[Peer(e)][k]
        BY <2>5, <3>2 DEF PacketInv, OpenedSame
      <3>3. opened'[e][N + 1] = sealed[Peer(e)][N + 1]
        BY <2>0, <2>5
      <3>. QED
        BY <1>2, <2>2, <2>5, <3>1, <3>2, <3>3 DEF OpenedSame
    <2>11. PacketTyped' /\ DOMAIN seals' = Ends
      BY <1>2, <1>4, <2>5 DEF PacketInv, PacketTyped
    <2>. QED
      BY <1>3, <1>5, <2>6, <2>9, <2>10, <2>11 DEF PacketInv
  <1>. QED
    BY <1>6, <1>7

\* Faults change what is on its way and add no tag.
LEMMA DamageKeeps ==
    ASSUME PacketInv, NEW e \in Ends, NEW w, Damage(e, w),
           \A F : wire \in [Ends -> Seq(F)] =>
               \E g : /\ w \in Seq(F \cup {g})
                      /\ \E f \in F : g.tag = f.tag
    PROVE  PacketInv'
  <1>1. PICK H, F : Passed(H) /\ wire \in [Ends -> Seq(F)] /\ \A f \in F : Tagged(f, H)
    BY DEF PacketInv
  <1>2. UNCHANGED <<seals, opens, sealed, opened>> /\ wire' = [wire EXCEPT ![e] = w]
    BY DEF Damage
  <1>3. PICK g : w \in Seq(F \cup {g}) /\ \E f \in F : g.tag = f.tag
    BY <1>1
  <1>4. wire' \in [Ends -> Seq(F \cup {g})]
    <2>1. \A p \in Ends : wire[p] \in Seq(F \cup {g})
      BY <1>1
    <2>. QED
      BY <1>1, <1>2, <1>3, <2>1
  <1>5. Passed(H)'
    BY <1>1, <1>2 DEF Passed
  <1>6. \A f \in F \cup {g} : Tagged(f, H)'
    <2>1. \A f \in F : Tagged(f, H)'
      BY <1>1, <1>2 DEF Tagged
    <2>2. Tagged(g, H)'
      BY <1>3, <2>1 DEF Tagged
    <2>. QED
      BY <2>1, <2>2
  <1>. QED
    BY <1>2, <1>4, <1>5, <1>6 DEF PacketInv, PacketTyped, OpenedSame

\* The wire loses, repeats, swaps, changes or reflects frames.
LEMMA FaultStep ==
    ASSUME PacketInv, NEW e \in Ends, Lose(e) \/ Double(e) \/ Swap(e) \/ Change(e) \/ Reflect(e)
    PROVE  PacketInv'
  <1>1. CASE Lose(e)
    <2>1. wire[e] # <<>> /\ Damage(e, Tail(wire[e]))
      BY <1>1 DEF Lose
    <2>2. ASSUME NEW F, wire \in [Ends -> Seq(F)]
          PROVE  \E g : Tail(wire[e]) \in Seq(F \cup {g}) /\ \E f \in F : g.tag = f.tag
      <3>1. Head(wire[e]) \in F /\ Tail(wire[e]) \in Seq(F)
        BY <2>1, <2>2
      <3>2. Tail(wire[e]) \in Seq(F \cup {Head(wire[e])})
        BY <3>1
      <3>. QED
        BY <3>1, <3>2
    <2>. QED
      BY <2>1, <2>2, DamageKeeps
  <1>2. CASE Double(e)
    <2>1. wire[e] # <<>> /\ Damage(e, <<Head(wire[e])>> \o wire[e])
      BY <1>2 DEF Double
    <2>2. ASSUME NEW F, wire \in [Ends -> Seq(F)]
          PROVE  \E g : <<Head(wire[e])>> \o wire[e] \in Seq(F \cup {g}) /\ \E f \in F : g.tag = f.tag
      <3>1. Head(wire[e]) \in F /\ wire[e] \in Seq(F)
        BY <2>1, <2>2
      <3>2. <<Head(wire[e])>> \in Seq(F \cup {Head(wire[e])}) /\ wire[e] \in Seq(F \cup {Head(wire[e])})
        BY <3>1
      <3>3. <<Head(wire[e])>> \o wire[e] \in Seq(F \cup {Head(wire[e])})
        BY <3>2, ConcatProperties
      <3>. QED
        BY <3>1, <3>3
    <2>. QED
      BY <2>1, <2>2, DamageKeeps
  <1>3. CASE Swap(e)
    <2> DEFINE w == <<wire[e][2], wire[e][1]>> \o SubSeq(wire[e], 3, Len(wire[e]))
    <2>1. Len(wire[e]) >= 2 /\ Damage(e, w)
      BY <1>3 DEF Swap
    <2>2. ASSUME NEW F, wire \in [Ends -> Seq(F)]
          PROVE  \E g : w \in Seq(F \cup {g}) /\ \E f \in F : g.tag = f.tag
      <3>1. wire[e] \in Seq(F) /\ Len(wire[e]) \in Nat
        BY <2>2
      <3>2. wire[e][1] \in F /\ wire[e][2] \in F
        BY <2>1, <3>1
      <3>3. <<wire[e][2], wire[e][1]>> \in Seq(F)
        BY <3>2
      <3>4. SubSeq(wire[e], 3, Len(wire[e])) \in Seq(F)
        BY <3>1
      <3>5. w \in Seq(F)
        BY <3>3, <3>4, ConcatProperties
      <3> HIDE DEF w
      <3>6. w \in Seq(F \cup {wire[e][1]})
        BY <3>5
      <3>. QED
        BY <3>2, <3>6
    <2> HIDE DEF w
    <2>. QED
      BY <2>1, <2>2, DamageKeeps
  <1>4. CASE Change(e)
    <2> DEFINE h == [tag |-> Head(wire[e]).tag, body |-> [Head(wire[e]).body EXCEPT ![1].byte = Garbage]]
    <2>1. wire[e] # <<>> /\ Damage(e, <<h>> \o Tail(wire[e]))
      BY <1>4 DEF Change
    <2>2. h.tag = Head(wire[e]).tag
      OBVIOUS
    <2> HIDE DEF h
    <2>3. ASSUME NEW F, wire \in [Ends -> Seq(F)]
          PROVE  \E g : <<h>> \o Tail(wire[e]) \in Seq(F \cup {g}) /\ \E f \in F : g.tag = f.tag
      <3>1. Head(wire[e]) \in F /\ Tail(wire[e]) \in Seq(F)
        BY <2>1, <2>3
      <3>2. <<h>> \in Seq(F \cup {h}) /\ Tail(wire[e]) \in Seq(F \cup {h})
        BY <3>1
      <3>3. <<h>> \o Tail(wire[e]) \in Seq(F \cup {h})
        BY <3>2, ConcatProperties
      <3>. QED
        BY <2>2, <3>1, <3>3
    <2>. QED
      BY <2>1, <2>3, DamageKeeps
  <1>5. CASE Reflect(e)
    <2> DEFINE h == Head(wire[Peer(e)])
    <2>1. wire[Peer(e)] # <<>> /\ Damage(e, <<h>> \o wire[e]) /\ Peer(e) \in Ends
      BY <1>5, PeerFacts DEF Reflect
    <2>2. ASSUME NEW F, wire \in [Ends -> Seq(F)]
          PROVE  \E g : <<h>> \o wire[e] \in Seq(F \cup {g}) /\ \E f \in F : g.tag = f.tag
      <3>1. h \in F /\ wire[e] \in Seq(F)
        BY <2>1, <2>2
      <3> HIDE DEF h
      <3>2. <<h>> \in Seq(F \cup {h}) /\ wire[e] \in Seq(F \cup {h})
        BY <3>1
      <3>3. <<h>> \o wire[e] \in Seq(F \cup {h})
        BY <3>2, ConcatProperties
      <3>. QED
        BY <3>1, <3>3
    <2> HIDE DEF h
    <2>. QED
      BY <2>1, <2>2, DamageKeeps
  <1>. QED
    BY <1>1, <1>2, <1>3, <1>4, <1>5

\* The invariant of the two ends.
LEMMA PacketHolds == PacketSpec => []PacketInv
  <1>1. PacketInv /\ [PacketNext]_packetVars => PacketInv'
    <2>. SUFFICES ASSUME PacketInv, [PacketNext]_packetVars PROVE PacketInv'
      OBVIOUS
    <2>1. CASE UNCHANGED packetVars
      <3>1. PICK H, F : Passed(H) /\ wire \in [Ends -> Seq(F)] /\ \A f \in F : Tagged(f, H)
        BY DEF PacketInv
      <3>2. Passed(H)' /\ (\A f \in F : Tagged(f, H)') /\ wire' \in [Ends -> Seq(F)]
        BY <2>1, <3>1 DEF packetVars, Passed, Tagged
      <3>. QED
        BY <2>1, <3>2 DEF packetVars, PacketInv, PacketTyped, OpenedSame
    <2>2. CASE PacketNext
      BY <2>2, SealStep, OpenStep, FaultStep DEF PacketNext
    <2>. QED
      BY <2>1, <2>2
  <1>. QED
    BY <1>1, PacketStart, PTL DEF PacketSpec

\* PacketStream, any lengths and any number of frames: whatever the wire does, what
\* decrypt_packet accepts is what the other end sealed, in order, without a gap and
\* none twice, and a refused frame leaves the stream where it was.
THEOREM OpensWhatWasSealed == PacketSpec => []OpenedIsSealed
  <1>1. PacketInv => OpenedIsSealed
    <2>. SUFFICES ASSUME PacketInv PROVE OpenedIsSealed
      OBVIOUS
    <2>1. PICK H, F : Passed(H) /\ wire \in [Ends -> Seq(F)] /\ \A f \in F : Tagged(f, H)
      BY DEF PacketInv
    <2>2. ASSUME NEW e \in Ends, wire[e] # <<>>, Verifies(opens[e], Head(wire[e]))
          PROVE  /\ Len(opened[e]) < Len(sealed[Peer(e)])
                 /\ Plaintext(opens[e], Head(wire[e])) = sealed[Peer(e)][Len(opened[e]) + 1]
      <3>1. Head(wire[e]) \in F
        BY <2>1, <2>2
      <3>. QED
        BY <2>1, <2>2, <3>1, VerifiedIsNext DEF PacketInv
    <2>. QED
      BY <2>1, <2>2 DEF PacketInv, OpenedSame, Passed, OpenedIsSealed
  <1>. QED
    BY <1>1, PacketHolds, PTL

-----------------------------------------------------------------------------
(* KeyExchange.                                                            *)

\* An exchange is under way.
Busy == srv.phase \in {"greet", "rekey"}

Live == srv.phase # "ended"

\* Every key the server's side works under, or has written under.
UsedKeys ==
    {srv.key, entry.key} \cup {s.key : s \in sends} \cup {s2c[i].key : i \in DOMAIN s2c}

\* The exchange the client has last answered is its key once it has derived it.
OffersCounted ==
    /\ gaveUp \subseteq 1 .. offers
    /\ cli.offer <= offers
    /\ \A i \in DOMAIN s2c : s2c[i].code = "Offer" => s2c[i].offer <= offers
    /\ cli.phase \in {"prompt", "open", "rekeying"} => cli.key = cli.offer

\* No exchange that was given up, and none that is under way, has given the
\* server a key.
KeysSettled ==
    Live => /\ \A k \in UsedKeys : k <= offers /\ k \notin gaveUp /\ (Busy => k # offers)
            /\ Busy => offers > 0 /\ offers \notin gaveUp

\* One reply at most is on its way, to the last offer the client has answered,
\* and the server does not work under its key yet.
OneReply ==
    Live => \A i \in DOMAIN c2s : c2s[i].code = "Reply" =>
        /\ c2s[i].offer = cli.offer /\ cli.offer \notin UsedKeys /\ cli.phase # "dialed"
        /\ \A j \in DOMAIN c2s : c2s[j].code = "Reply" => j = i

\* The client has gone on with an exchange that the server gave up: it reads
\* nothing of the server any more.
Stuck == cli.phase # "dialed" /\ cli.offer \in gaveUp

OffersOpen ==
    Live /\ cli.phase \notin {"idle", "ended"} =>
        /\ \A i \in DOMAIN s2c : s2c[i].code = "Offer" =>
              s2c[i].offer \in gaveUp \/ (Busy /\ s2c[i].offer = offers /\ cli.offer # offers) \/ Stuck
        /\ \A i, j \in DOMAIN s2c :
              s2c[i].code = "Offer" /\ s2c[j].code = "Offer" /\ s2c[i].offer = s2c[j].offer => i = j

\* The exchange the client has answered is the one the server works under, or
\* waits for, or has given up.
FollowsOffer ==
    Live /\ cli.phase \in {"deriving", "prompt", "open", "rekeying"} =>
        cli.offer = srv.key \/ cli.offer \in gaveUp \/ (Busy /\ cli.offer = offers)

\* What follows Rekey is the offer.
OfferNext ==
    /\ \A i \in DOMAIN s2c : s2c[i].code = "Rekey" => i + 1 \in DOMAIN s2c /\ s2c[i + 1].code = "Offer"
    /\ cli.phase = "rekeying" => s2c # <<>> /\ s2c[1].code = "Offer"
    /\ \A s \in sends : s.code \notin {"Offer", "Rekey"}

KInv == OffersCounted /\ KeysSettled /\ OneReply /\ OffersOpen /\ FollowsOffer /\ OfferNext

PacketSeq == Seq(Packet)

ServerTasks == [phase : SrvPhases, key : Keys, strays : 0 .. MaxStrays, hand : Packet]

Entries == [here : BOOLEAN, auth : BOOLEAN, key : Keys, seq : Nat, out : Nat, alive : BOOLEAN]

ClientTasks ==
    [phase : CliPhases, key : Keys, shared : Keys, seq : Nat, heard : Nat, offer : 0 .. MaxOffers,
     login : {"none", "asked", "sent", "in"}]

SendTasks == [code : Codes, key : Keys]

\* TypeOK, with its sets named.
ExchangeTyped ==
    /\ srv \in ServerTasks /\ entry \in Entries /\ sends \subseteq SendTasks /\ cli \in ClientTasks
    /\ held \subseteq Keys /\ s2c \in PacketSeq /\ c2s \in PacketSeq
    /\ offers \in 0 .. MaxOffers /\ gaveUp \subseteq 1 .. MaxOffers
    /\ pinned \in BOOLEAN /\ dials \in 0 .. MaxDials

ExchangeInv == ExchangeTyped /\ KInv

-----------------------------------------------------------------------------

\* A packet, and an offer, as they are built.
LEMMA PacketMade ==
    ASSUME NEW code \in Codes, NEW key \in Keys, NEW seq \in Nat, NEW o \in 0 .. MaxOffers
    PROVE  /\ packet(code, key, seq) \in Packet
           /\ packet(code, key, seq).code = code /\ packet(code, key, seq).key = key
           /\ [packet(code, key, seq) EXCEPT !.offer = o] \in Packet
           /\ [packet(code, key, seq) EXCEPT !.offer = o].code = code
           /\ [packet(code, key, seq) EXCEPT !.offer = o].key = key
           /\ [packet(code, key, seq) EXCEPT !.offer = o].offer = o
  <1>1. packet(code, key, seq) \in Packet
    BY BoundsAssumption DEF packet, Packet
  <1>. QED
    BY <1>1 DEF packet, Packet

\* A packet other than an offer.
LEMMA PacketPlain ==
    ASSUME NEW code \in Codes, NEW key \in Keys, NEW seq \in Nat
    PROVE  /\ packet(code, key, seq) \in Packet
           /\ packet(code, key, seq).code = code /\ packet(code, key, seq).key = key
  BY BoundsAssumption DEF packet, Packet

\* The fields of a packet.
LEMMA PacketFields ==
    ASSUME NEW p \in Packet
    PROVE  p.code \in Codes /\ p.key \in Keys /\ p.seq \in Nat /\ p.offer \in 0 .. MaxOffers
  BY DEF Packet

\* A packet is written to a stream.
LEMMA PacketAppends ==
    ASSUME NEW q \in PacketSeq, NEW p \in Packet
    PROVE  /\ Append(q, p) \in PacketSeq
           /\ Append(q, p) # <<>>
           /\ Len(q) \in Nat
           /\ DOMAIN q = 1 .. Len(q)
           /\ DOMAIN Append(q, p) = 1 .. Len(q) + 1
           /\ Append(q, p)[Len(q) + 1] = p
           /\ \A i \in DOMAIN q : i \in DOMAIN Append(q, p) /\ Append(q, p)[i] = q[i]
           /\ \A i \in DOMAIN Append(q, p) :
                 (i \in DOMAIN q /\ Append(q, p)[i] = q[i]) \/ (i = Len(q) + 1 /\ Append(q, p)[i] = p)
  <1>1. /\ Append(q, p) \in PacketSeq /\ Append(q, p) # <<>>
        /\ Len(q) \in Nat /\ DOMAIN q = 1 .. Len(q) /\ DOMAIN Append(q, p) = 1 .. Len(q) + 1
        /\ Append(q, p)[Len(q) + 1] = p
        /\ \A i \in DOMAIN q : Append(q, p)[i] = q[i]
    BY DEF PacketSeq
  <1> PICK a : a = Append(q, p)
    OBVIOUS
  <1>2. \A i \in DOMAIN a : i \in DOMAIN q \/ i = Len(q) + 1
    BY <1>1
  <1>3. \A i \in DOMAIN q : i \in DOMAIN a
    BY <1>1
  <1>. QED
    BY <1>1, <1>2, <1>3

\* A packet is written to a stream: what is in it then.
LEMMA PacketAdded ==
    ASSUME NEW q \in PacketSeq, NEW p \in Packet, NEW r, r = Append(q, p)
    PROVE  /\ r \in PacketSeq /\ r # <<>>
           /\ \A i \in DOMAIN q : i \in DOMAIN r /\ r[i] = q[i]
           /\ \A i \in DOMAIN r : (i \in DOMAIN q /\ r[i] = q[i]) \/ (i = Len(q) + 1 /\ r[i] = p)
           /\ Len(q) + 1 \in DOMAIN r /\ r[Len(q) + 1] = p /\ Len(q) \in Nat /\ DOMAIN q = 1 .. Len(q)
  <1>1. Len(q) \in Nat /\ Len(q) + 1 \in 1 .. Len(q) + 1
    BY PacketAppends
  <1>. QED
    BY <1>1, PacketAppends

\* A packet is read from a stream.
LEMMA PacketTails ==
    ASSUME NEW q \in PacketSeq, q # <<>>
    PROVE  /\ Tail(q) \in PacketSeq
           /\ Head(q) \in Packet /\ Head(q) = q[1] /\ 1 \in DOMAIN q
           /\ Len(q) \in Nat /\ Len(q) > 0
           /\ DOMAIN q = 1 .. Len(q)
           /\ DOMAIN Tail(q) = 1 .. Len(q) - 1
           /\ \A i \in 1 .. Len(q) - 1 : Tail(q)[i] = q[i + 1] /\ i + 1 \in DOMAIN q
  BY DEF PacketSeq

\* A packet is written to a stream once.
LEMMA PacketAddedOnce ==
    ASSUME NEW q \in PacketSeq, NEW p \in Packet, NEW r, r = Append(q, p)
    PROVE  \E n : \A i \in DOMAIN r : (i \in DOMAIN q /\ r[i] = q[i]) \/ (i = n /\ r[i] = p)
  <1> PICK n : n = Len(q) + 1
    OBVIOUS
  <1>1. \A i \in DOMAIN r : (i \in DOMAIN q /\ r[i] = q[i]) \/ (i = n /\ r[i] = p)
    BY PacketAdded
  <1>. QED
    BY <1>1

\* What the tail of a queue holds, the queue held, one place later.
LEMMA TailHolds ==
    ASSUME NEW q \in PacketSeq, q # <<>>, NEW i \in DOMAIN Tail(q)
    PROVE  i \in Nat /\ i + 1 \in DOMAIN q /\ Tail(q)[i] = q[i + 1] /\ i + 1 # 1
  BY PacketTails

\* The constants of an exchange have their types.
LEMMA Constants ==
    /\ Obfuscated \in Keys /\ Junk \in Keys /\ NoPacket \in Packet /\ NewEntry \in Entries
    /\ NewEntry.key = Obfuscated
    /\ 0 \in 0 .. MaxOffers /\ 0 \in 0 .. MaxStrays
    /\ \A n \in 0 .. MaxOffers : n \in Keys /\ n \in Nat
  <1>1. Obfuscated \in Keys /\ Junk \in Keys /\ 0 \in 0 .. MaxOffers /\ 0 \in 0 .. MaxStrays
    BY BoundsAssumption DEF Obfuscated, Junk, Keys
  <1>2. NoPacket \in Packet
    BY <1>1, PacketMade DEF NoPacket, Codes
  <1>3. NewEntry \in Entries /\ NewEntry.key = Obfuscated
    BY <1>1 DEF NewEntry, Entries
  <1>4. \A n \in 0 .. MaxOffers : n \in Keys /\ n \in Nat
    BY BoundsAssumption DEF Keys
  <1>. QED
    BY <1>1, <1>2, <1>3, <1>4

\* Numbering a packet leaves the keys of the entry alone.
LEMMA OutgoingFacts ==
    ASSUME NEW e \in Entries, NEW n \in Nat
    PROVE  /\ Outgoing(e, n) \in Entries /\ Outgoing(e, n).key = e.key
           /\ ServerSeq(e, n) \in Nat
  <1>1. e.out \in Nat /\ e.out + n \in Nat
    BY DEF Entries
  <1>. QED
    BY <1>1 DEF Outgoing, ServerSeq, Entries

\* The packet that is read, and what reading it counts.
LEMMA IncomingFacts ==
    ASSUME ExchangeTyped, c2s # <<>>
    PROVE  /\ Incoming \in Packet /\ Incoming = c2s[1] /\ 1 \in DOMAIN c2s
           /\ Counted \in Entries /\ Counted.key = entry.key /\ Counted.here = entry.here
           /\ Tail(c2s) \in PacketSeq
           /\ Derived \in Keys
  <1>1. Incoming \in Packet /\ Incoming = c2s[1] /\ 1 \in DOMAIN c2s /\ Tail(c2s) \in PacketSeq
    BY PacketTails DEF ExchangeTyped, Incoming
  <1>2. Incoming.seq \in Nat
    BY <1>1, PacketFields
  <1>3. Counted \in Entries /\ Counted.key = entry.key /\ Counted.here = entry.here
    BY <1>2 DEF ExchangeTyped, Counted, Entries
  <1>4. Derived \in Keys
    BY Constants DEF Derived, ExchangeTyped
  <1>. QED
    BY <1>1, <1>3, <1>4

\* The entry keeps its keys, and what is new among the sends is written under them.
SendsFrom(e) ==
    /\ entry' \in Entries /\ entry'.key = e.key
    /\ sends' \subseteq SendTasks
    /\ \A s \in sends' : s \in sends \/ (s.key = e.key /\ s.code = "Disconnect")

\* What a removal sends goes out under the keys of the entry.
LEMMA RemoveFacts ==
    ASSUME ExchangeTyped, NEW e \in Entries, NEW grace \in BOOLEAN, Remove(e, grace)
    PROVE  SendsFrom(e)
  <1>1. entry' \in Entries /\ entry'.key = e.key
    BY DEF Remove, Entries
  <1> DEFINE d == [code |-> "Disconnect", key |-> e.key]
  <1>2. d \in SendTasks /\ d.key = e.key /\ d.code = "Disconnect"
    BY DEF SendTasks, Codes, Entries
  <1>3. sends' = sends \cup {d} \/ sends' = sends
    BY DEF Remove
  <1> HIDE DEF d
  <1>. QED
    BY <1>1, <1>2, <1>3 DEF SendsFrom, ExchangeTyped

\* A session's task ends.
LEMMA EndedFacts ==
    ASSUME ExchangeTyped, Ended
    PROVE  srv' \in ServerTasks /\ srv'.phase = "ended"
  BY Constants DEF ExchangeTyped, Ended, ServerTasks, SrvPhases

\* A packet that is handled changes no key.
LEMMA HandleFacts ==
    ASSUME ExchangeTyped, NEW p \in Packet, NEW e \in Entries, NEW key \in Keys, Handle(p, e, key)
    PROVE  /\ srv' \in ServerTasks /\ srv'.key = key /\ srv'.phase \in {"ended", "session"}
           /\ SendsFrom(e)
  <1>1. srv' \in ServerTasks /\ srv'.key = key /\ srv'.phase \in {"ended", "session"}
    BY Constants DEF Handle, ServerTasks, SrvPhases
  <1>2. CASE Remove(e, TRUE)
    BY <1>1, <1>2, RemoveFacts
  <1>3. CASE /\ entry' = [e EXCEPT !.alive = @ \/ p.code = "KeepAlive"]
             /\ UNCHANGED sends
    <2>1. entry' \in Entries /\ entry'.key = e.key
      BY <1>3 DEF Entries
    <2>. QED
      BY <1>1, <1>3, <2>1 DEF SendsFrom, ExchangeTyped
  <1>. QED
    BY <1>2, <1>3 DEF Handle

\* An exchange that is given up is remembered, or ends the session.
LEMMA GiveUpFacts ==
    ASSUME ExchangeTyped, NEW e \in Entries, GiveUp(e)
    PROVE  /\ srv' \in ServerTasks /\ SendsFrom(e)
           /\ \/ /\ srv.phase = "rekey" /\ gaveUp' = gaveUp \cup {offers}
                 /\ srv'.key = srv.key /\ srv'.phase \in {"ended", "session"}
              \/ srv'.phase = "ended" /\ gaveUp' = gaveUp
  <1>1. srv.hand \in Packet /\ srv.key \in Keys
    BY DEF ExchangeTyped, ServerTasks
  <1>2. CASE srv.phase = "rekey" /\ Handle(srv.hand, e, srv.key) /\ gaveUp' = gaveUp \cup {offers}
    BY <1>1, <1>2, HandleFacts
  <1>3. CASE Remove(e, srv.phase = "version") /\ Ended /\ UNCHANGED gaveUp
    <2>1. SendsFrom(e)
      BY <1>3, RemoveFacts
    <2>. QED
      BY <1>3, <2>1, EndedFacts
  <1>. QED
    BY <1>2, <1>3 DEF GiveUp

-----------------------------------------------------------------------------
(* What the kinds of steps keep.                                           *)

\* The keys in use are among these.
LEMMA UsedAre ==
    ASSUME NEW K, srv'.key \in K, entry'.key \in K, \A s \in sends' : s.key \in K,
           \A i \in DOMAIN s2c' : s2c'[i].key \in K
    PROVE  UsedKeys' \subseteq K
  BY DEF UsedKeys

\* What the server reads of the client's packets leaves the replies that follow.
LEMMA RepliesKept ==
    ASSUME OneReply, Live, cli' = cli, UsedKeys' \subseteq UsedKeys, c2s \in PacketSeq,
           c2s' = c2s \/ (c2s # <<>> /\ c2s' = Tail(c2s))
    PROVE  OneReply'
  <1>1. CASE c2s' = c2s
    BY <1>1 DEF OneReply
  <1>2. CASE c2s # <<>> /\ c2s' = Tail(c2s)
    <2>. SUFFICES ASSUME NEW i \in DOMAIN c2s', c2s'[i].code = "Reply"
                  PROVE  /\ c2s'[i].offer = cli.offer /\ cli.offer \notin UsedKeys'
                         /\ cli.phase # "dialed"
                         /\ \A j \in DOMAIN c2s' : c2s'[j].code = "Reply" => j = i
      BY DEF OneReply
    <2>1. i \in Nat /\ i + 1 \in DOMAIN c2s /\ c2s'[i] = c2s[i + 1]
      BY <1>2, TailHolds
    <2>2. ASSUME NEW j \in DOMAIN c2s', c2s'[j].code = "Reply"
          PROVE  j = i
      <3>1. j \in Nat /\ j + 1 \in DOMAIN c2s /\ c2s'[j] = c2s[j + 1]
        BY <1>2, TailHolds
      <3>2. j + 1 = i + 1
        BY <2>1, <2>2, <3>1 DEF OneReply
      <3>. QED
        BY <2>1, <3>1, <3>2
    <2>. QED
      BY <2>1, <2>2 DEF OneReply
  <1>. QED
    BY <1>1, <1>2

\* A step of the server that neither offers, derives nor gives up.
LEMMA ServerKeeps ==
    ASSUME ExchangeInv, ExchangeTyped', UNCHANGED <<cli, offers, gaveUp>>,
           \A s \in sends' : s.code \notin {"Offer", "Rekey"},
           \/ s2c' = s2c
           \/ \E p \in Packet : /\ s2c' = Append(s2c, p) /\ p.code \notin {"Offer", "Rekey"}
                                /\ srv'.phase # "ended" => p.key \in UsedKeys,
           srv'.phase # "ended" =>
               /\ srv.phase # "ended" /\ srv'.key = srv.key /\ (Busy' <=> Busy)
               /\ entry'.key \in UsedKeys /\ \A s \in sends' : s.key \in UsedKeys
               /\ c2s' = c2s \/ (c2s # <<>> /\ c2s' = Tail(c2s))
    PROVE  ExchangeInv'
  <1>0. /\ OffersCounted /\ KeysSettled /\ OneReply /\ OffersOpen /\ FollowsOffer /\ OfferNext
        /\ s2c \in PacketSeq /\ c2s \in PacketSeq
    BY DEF ExchangeInv, KInv, ExchangeTyped
  \* The places of the queue: the old ones, and one more that is no offer.
  <1>1. /\ \A i \in DOMAIN s2c' : \/ i \in DOMAIN s2c /\ s2c'[i] = s2c[i]
                                  \/ s2c'[i].code \notin {"Offer", "Rekey"}
        /\ \A i \in DOMAIN s2c : i \in DOMAIN s2c' /\ s2c'[i] = s2c[i]
        /\ s2c # <<>> => s2c' # <<>>
    <2>1. CASE s2c' = s2c
      BY <2>1
    <2>2. ASSUME NEW p \in Packet, s2c' = Append(s2c, p), p.code \notin {"Offer", "Rekey"}
          PROVE  <1>1!1 /\ <1>1!2 /\ <1>1!3
      <3>1. /\ s2c' # <<>>
            /\ \A i \in DOMAIN s2c : i \in DOMAIN s2c' /\ s2c'[i] = s2c[i]
            /\ \A i \in DOMAIN s2c' : (i \in DOMAIN s2c /\ s2c'[i] = s2c[i]) \/ s2c'[i] = p
        BY <1>0, <2>2, PacketAdded
      <3>. QED
        BY <2>2, <3>1
    <2>. QED
      BY <2>1, <2>2
  <1>2. OffersCounted'
    BY <1>0, <1>1 DEF OffersCounted
  <1>3. OfferNext'
    <2>1. \A i \in DOMAIN s2c' : s2c'[i].code = "Rekey" => i + 1 \in DOMAIN s2c' /\ s2c'[i + 1].code = "Offer"
      BY <1>0, <1>1 DEF OfferNext
    <2>2. cli'.phase = "rekeying" => s2c' # <<>> /\ s2c'[1].code = "Offer"
      <3>1. s2c # <<>> => 1 \in DOMAIN s2c
        BY <1>0, PacketTails
      <3>. QED
        BY <1>0, <1>1, <3>1 DEF OfferNext
    <2>. QED
      BY <2>1, <2>2 DEF OfferNext
  <1>4. CASE srv'.phase = "ended"
    <2>1. ~Live'
      BY <1>4 DEF Live
    <2>. QED
      BY <1>2, <1>3, <2>1 DEF ExchangeInv, KInv, KeysSettled, OneReply, OffersOpen, FollowsOffer
  <1>5. CASE srv'.phase # "ended"
    <2>0. Live /\ Live' /\ srv'.key = srv.key /\ (Busy' <=> Busy)
      BY <1>5 DEF Live
    <2>1. UsedKeys' \subseteq UsedKeys
      <3>1. \A i \in DOMAIN s2c : s2c[i].key \in UsedKeys
        BY DEF UsedKeys
      <3>2. \A i \in DOMAIN s2c' : s2c'[i].key \in UsedKeys
        <4>1. CASE s2c' = s2c
          BY <3>1, <4>1
        <4>2. ASSUME NEW p \in Packet, s2c' = Append(s2c, p), p.key \in UsedKeys
              PROVE  \A i \in DOMAIN s2c' : s2c'[i].key \in UsedKeys
          <5>1. \A i \in DOMAIN s2c' : (i \in DOMAIN s2c /\ s2c'[i] = s2c[i]) \/ s2c'[i] = p
            BY <1>0, <4>2, PacketAdded
          <5>. QED
            BY <3>1, <4>2, <5>1
        <4>. QED
          BY <1>5, <4>1, <4>2
      <3>3. srv'.key \in UsedKeys
        BY <2>0 DEF UsedKeys
      <3>. QED
        BY <1>5, <3>2, <3>3, UsedAre
    <2>2. KeysSettled'
      BY <1>0, <2>0, <2>1 DEF KeysSettled
    <2>3. OneReply'
      BY <1>0, <1>5, <2>0, <2>1, RepliesKept
    <2>4. OffersOpen'
      BY <1>0, <1>1, <2>0 DEF OffersOpen, Stuck
    <2>5. FollowsOffer'
      BY <1>0, <2>0 DEF FollowsOffer
    <2>. QED
      BY <1>2, <1>3, <2>2, <2>3, <2>4, <2>5 DEF ExchangeInv, KInv
  <1>. QED
    BY <1>4, <1>5
\* The server gives a rekey up and goes on under the keys it had.
LEMMA GivesUp ==
    ASSUME ExchangeInv, ExchangeTyped', UNCHANGED <<cli, offers, s2c>>, srv.phase = "rekey",
           gaveUp' = gaveUp \cup {offers},
           \A s \in sends' : s.code \notin {"Offer", "Rekey"},
           srv'.phase # "ended" =>
               /\ srv'.key = srv.key /\ srv'.phase = "session"
               /\ entry'.key \in UsedKeys /\ \A s \in sends' : s.key \in UsedKeys
               /\ c2s' = c2s \/ (c2s # <<>> /\ c2s' = Tail(c2s))
    PROVE  ExchangeInv'
  <1>0. /\ OffersCounted /\ KeysSettled /\ OneReply /\ OffersOpen /\ FollowsOffer /\ OfferNext
        /\ c2s \in PacketSeq /\ offers \in Nat
    BY Constants DEF ExchangeInv, KInv, ExchangeTyped
  <1>1. OffersCounted'
    <2>1. offers \in 1 .. offers
      BY <1>0 DEF ExchangeInv, ExchangeTyped, OffersCounted, KeysSettled, UsedKeys
    <2>. QED
      BY <1>0, <2>1 DEF OffersCounted
  <1>2. OfferNext'
    BY <1>0 DEF OfferNext
  <1>3. Live /\ Busy
    BY DEF Live, Busy
  <1>4. CASE srv'.phase = "ended"
    <2>1. ~Live'
      BY <1>4 DEF Live
    <2>. QED
      BY <1>1, <1>2, <2>1 DEF ExchangeInv, KInv, KeysSettled, OneReply, OffersOpen, FollowsOffer
  <1>5. CASE srv'.phase # "ended"
    <2>0. Live' /\ srv'.key = srv.key /\ ~Busy'
      BY <1>5 DEF Live, Busy
    <2>1. UsedKeys' \subseteq UsedKeys
      <3>1. \A i \in DOMAIN s2c' : s2c'[i].key \in UsedKeys
        BY DEF UsedKeys
      <3>2. srv'.key \in UsedKeys
        BY <2>0 DEF UsedKeys
      <3>. QED
        BY <1>5, <3>1, <3>2, UsedAre
    <2>2. KeysSettled'
      BY <1>0, <1>3, <2>0, <2>1 DEF KeysSettled
    <2>3. OneReply'
      BY <1>0, <1>3, <1>5, <2>1, RepliesKept
    <2>4. OffersOpen'
      BY <1>0, <1>3, <2>0 DEF OffersOpen, Stuck
    <2>5. FollowsOffer'
      BY <1>0, <1>3, <2>0 DEF FollowsOffer
    <2>. QED
      BY <1>1, <1>2, <2>2, <2>3, <2>4, <2>5 DEF ExchangeInv, KInv
  <1>. QED
    BY <1>4, <1>5

\* The reply that was waited for.
LEMMA Settles ==
    ASSUME ExchangeInv, ExchangeTyped', UNCHANGED <<cli, offers, gaveUp>>, Busy,
           c2s # <<>>, Incoming.code = "Reply", c2s' = Tail(c2s),
           \A s \in sends' : s.code \notin {"Offer", "Rekey"},
           \/ s2c' = s2c
           \/ \E p \in Packet : /\ s2c' = Append(s2c, p) /\ p.code \notin {"Offer", "Rekey"}
                                /\ p.key = Derived,
           srv'.phase # "ended" =>
               /\ srv'.key = Derived /\ ~Busy' /\ entry'.key = Derived
               /\ \A s \in sends' : s.key \in UsedKeys \cup {Derived}
    PROVE  ExchangeInv'
  <1>0. /\ OffersCounted /\ KeysSettled /\ OneReply /\ OffersOpen /\ FollowsOffer /\ OfferNext
        /\ s2c \in PacketSeq /\ c2s \in PacketSeq /\ offers \in Nat /\ Live
    BY Constants DEF ExchangeInv, KInv, ExchangeTyped, Busy, Live
  <1>1. /\ \A i \in DOMAIN s2c' : \/ i \in DOMAIN s2c /\ s2c'[i] = s2c[i]
                                  \/ s2c'[i].code \notin {"Offer", "Rekey"} /\ s2c'[i].key = Derived
        /\ \A i \in DOMAIN s2c : i \in DOMAIN s2c' /\ s2c'[i] = s2c[i]
        /\ s2c # <<>> => s2c' # <<>>
    <2>1. CASE s2c' = s2c
      BY <2>1
    <2>2. ASSUME NEW p \in Packet, s2c' = Append(s2c, p), p.code \notin {"Offer", "Rekey"}, p.key = Derived
          PROVE  <1>1!1 /\ <1>1!2 /\ <1>1!3
      <3>1. /\ s2c' # <<>>
            /\ \A i \in DOMAIN s2c : i \in DOMAIN s2c' /\ s2c'[i] = s2c[i]
            /\ \A i \in DOMAIN s2c' : (i \in DOMAIN s2c /\ s2c'[i] = s2c[i]) \/ s2c'[i] = p
        BY <1>0, <2>2, PacketAdded
      <3>. QED
        BY <2>2, <3>1
    <2>. QED
      BY <2>1, <2>2
  <1>2. OffersCounted'
    BY <1>0, <1>1 DEF OffersCounted
  <1>3. OfferNext'
    <2>1. \A i \in DOMAIN s2c' : s2c'[i].code = "Rekey" => i + 1 \in DOMAIN s2c' /\ s2c'[i + 1].code = "Offer"
      BY <1>0, <1>1 DEF OfferNext
    <2>2. cli'.phase = "rekeying" => s2c' # <<>> /\ s2c'[1].code = "Offer"
      <3>1. s2c # <<>> => 1 \in DOMAIN s2c
        BY <1>0, PacketTails
      <3>. QED
        BY <1>0, <1>1, <3>1 DEF OfferNext
    <2>. QED
      BY <2>1, <2>2 DEF OfferNext
  <1>4. CASE srv'.phase = "ended"
    <2>1. ~Live'
      BY <1>4 DEF Live
    <2>. QED
      BY <1>2, <1>3, <2>1 DEF ExchangeInv, KInv, KeysSettled, OneReply, OffersOpen, FollowsOffer
  <1>5. CASE srv'.phase # "ended"
    <2>0. Live' /\ srv'.key = Derived /\ ~Busy'
      BY <1>5 DEF Live
    <2>1. UsedKeys' \subseteq UsedKeys \cup {Derived}
      <3>1. \A i \in DOMAIN s2c : s2c[i].key \in UsedKeys
        BY DEF UsedKeys
      <3>2. \A i \in DOMAIN s2c' : s2c'[i].key \in UsedKeys \cup {Derived}
        BY <1>1, <3>1
      <3>3. srv'.key \in UsedKeys \cup {Derived} /\ entry'.key \in UsedKeys \cup {Derived}
        BY <1>5
      <3>. QED
        BY <1>5, <3>2, <3>3, UsedAre
    \* The reply is the client's last one, and the only one.
    <2>2. /\ Incoming.offer = cli.offer /\ cli.offer \notin UsedKeys /\ cli.phase # "dialed"
          /\ \A j \in DOMAIN c2s : c2s[j].code = "Reply" => j = 1
      <3>1. Incoming = c2s[1] /\ 1 \in DOMAIN c2s
        BY IncomingFacts DEF ExchangeInv
      <3>. QED
        BY <1>0, <3>1 DEF OneReply
    <2>3. Derived = (IF cli.offer = offers THEN offers ELSE Junk) /\ cli.offer # srv.key
      BY <2>2 DEF Derived, UsedKeys
    <2>4. Derived <= offers /\ Derived \notin gaveUp
      BY <1>0, <2>3 DEF KeysSettled, OffersCounted, Junk
    <2>5. KeysSettled'
      BY <1>0, <2>0, <2>1, <2>4 DEF KeysSettled
    <2>6. OneReply'
      <3>1. ASSUME NEW i \in DOMAIN c2s', c2s'[i].code = "Reply"
            PROVE  FALSE
        <4>1. i \in Nat /\ i + 1 \in DOMAIN c2s /\ c2s'[i] = c2s[i + 1] /\ i + 1 # 1
          BY <1>0, TailHolds
        <4>. QED
          BY <2>2, <3>1, <4>1
      <3>. QED
        BY <3>1 DEF OneReply
    <2>7. cli.phase \in {"deriving", "prompt", "open", "rekeying"} /\ cli.offer # offers => cli.offer \in gaveUp
      BY <1>0, <2>3 DEF FollowsOffer
    <2>8. FollowsOffer'
      BY <2>0, <2>3, <2>7 DEF FollowsOffer
    <2>9. OffersOpen'
      <3>1. CASE cli.phase \in {"idle", "ended"}
        BY <3>1 DEF OffersOpen
      <3>2. CASE cli.phase \notin {"idle", "ended"}
        <4>1. cli.phase \in {"deriving", "prompt", "open", "rekeying"}
          BY <2>2, <3>2 DEF ExchangeInv, ExchangeTyped, ClientTasks, CliPhases
        <4>2. CASE cli.offer # offers
          BY <1>0, <1>1, <2>0, <2>2, <2>7, <3>2, <4>1, <4>2 DEF OffersOpen, Stuck
        <4>3. CASE cli.offer = offers
          <5>1. ~Stuck
            BY <1>0, <4>3 DEF Stuck, KeysSettled
          <5>. QED
            BY <1>0, <1>1, <2>0, <3>2, <4>3, <5>1 DEF OffersOpen
        <4>. QED
          BY <4>2, <4>3
      <3>. QED
        BY <3>1, <3>2
    <2>. QED
      BY <1>2, <1>3, <2>5, <2>6, <2>8, <2>9 DEF ExchangeInv, KInv
  <1>. QED
    BY <1>4, <1>5

\* Reading keeps Rekey and its offer together.
LEMMA PairsKept ==
    ASSUME OfferNext, s2c \in PacketSeq, s2c' = s2c \/ (s2c # <<>> /\ s2c' = Tail(s2c))
    PROVE  \A i \in DOMAIN s2c' : s2c'[i].code = "Rekey" => i + 1 \in DOMAIN s2c' /\ s2c'[i + 1].code = "Offer"
  <1>1. CASE s2c' = s2c
    BY <1>1 DEF OfferNext
  <1>2. CASE s2c # <<>> /\ s2c' = Tail(s2c)
    <2>. SUFFICES ASSUME NEW i \in DOMAIN s2c', s2c'[i].code = "Rekey"
                  PROVE  i + 1 \in DOMAIN s2c' /\ s2c'[i + 1].code = "Offer"
      OBVIOUS
    <2>1. i \in 1 .. Len(s2c) - 1 /\ s2c'[i] = s2c[i + 1] /\ i + 1 \in DOMAIN s2c /\ Len(s2c) \in Nat
          /\ DOMAIN s2c = 1 .. Len(s2c) /\ DOMAIN s2c' = 1 .. Len(s2c) - 1
      BY <1>2, PacketTails
    <2>2. (i + 1) + 1 \in DOMAIN s2c /\ s2c[(i + 1) + 1].code = "Offer"
      BY <2>1 DEF OfferNext
    <2>3. i + 1 \in 1 .. Len(s2c) - 1
      BY <2>1, <2>2
    <2>. QED
      BY <1>2, <2>1, <2>2, <2>3, PacketTails
  <1>. QED
    BY <1>1, <1>2

\* A step of the client that answers no offer.
LEMMA ClientKeeps ==
    ASSUME ExchangeInv, ExchangeTyped', UNCHANGED <<srv, entry, sends, offers, gaveUp>>,
           cli'.offer = cli.offer,
           c2s' = c2s \/ \E p \in Packet : c2s' = Append(c2s, p) /\ p.code # "Reply",
           s2c' = s2c \/ (s2c # <<>> /\ s2c' = Tail(s2c)),
           cli'.phase \in {"prompt", "open", "rekeying"} => cli'.key = cli.offer,
           cli'.phase \in {"deriving", "prompt", "open", "rekeying"} =>
               cli.phase \in {"deriving", "prompt", "open", "rekeying"},
           cli'.phase = "dialed" => cli.phase = "dialed",
           cli'.phase = "rekeying" => \/ s2c' = s2c /\ cli.phase = "rekeying"
                                      \/ s2c # <<>> /\ s2c' = Tail(s2c) /\ s2c[1].code = "Rekey"
    PROVE  ExchangeInv'
  <1>0. /\ OffersCounted /\ KeysSettled /\ OneReply /\ OffersOpen /\ FollowsOffer /\ OfferNext
        /\ s2c \in PacketSeq /\ c2s \in PacketSeq
    BY DEF ExchangeInv, KInv, ExchangeTyped
  <1>1. PICK d \in {0, 1} : \A i \in DOMAIN s2c' : i \in Nat /\ i + d \in DOMAIN s2c /\ s2c'[i] = s2c[i + d]
    <2>1. CASE s2c' = s2c
      <3>1. \A i \in DOMAIN s2c' : i \in Nat /\ i + 0 \in DOMAIN s2c /\ s2c'[i] = s2c[i + 0]
        BY <1>0, <2>1 DEF PacketSeq
      <3>. QED
        BY <3>1
    <2>2. CASE s2c # <<>> /\ s2c' = Tail(s2c)
      <3>1. \A i \in DOMAIN s2c' : i \in Nat /\ i + 1 \in DOMAIN s2c /\ s2c'[i] = s2c[i + 1]
        BY <1>0, <2>2, TailHolds
      <3>. QED
        BY <3>1
    <2>. QED
      BY <2>1, <2>2
  <1>2. OffersCounted'
    BY <1>0, <1>1 DEF OffersCounted
  <1>3. UsedKeys' \subseteq UsedKeys
    <2>1. \A i \in DOMAIN s2c' : s2c'[i].key \in UsedKeys
      BY <1>1 DEF UsedKeys
    <2>2. srv'.key \in UsedKeys /\ entry'.key \in UsedKeys /\ \A s \in sends' : s.key \in UsedKeys
      BY DEF UsedKeys
    <2>. QED
      BY <2>1, <2>2, UsedAre
  <1>4. (Live' <=> Live) /\ (Busy' <=> Busy)
    BY DEF Live, Busy
  <1>5. KeysSettled'
    BY <1>0, <1>3, <1>4 DEF KeysSettled
  <1>6. OneReply'
    <2>1. \A i \in DOMAIN c2s' : c2s'[i].code = "Reply" => i \in DOMAIN c2s /\ c2s'[i] = c2s[i]
      <3>1. CASE c2s' = c2s
        BY <3>1
      <3>2. ASSUME NEW p \in Packet, c2s' = Append(c2s, p), p.code # "Reply"
            PROVE  \A i \in DOMAIN c2s' : c2s'[i].code = "Reply" => i \in DOMAIN c2s /\ c2s'[i] = c2s[i]
        <4>1. \A i \in DOMAIN c2s' : (i \in DOMAIN c2s /\ c2s'[i] = c2s[i]) \/ c2s'[i] = p
          BY <1>0, <3>2, PacketAdded
        <4>. QED
          BY <3>2, <4>1
      <3>. QED
        BY <3>1, <3>2
    <2>. QED
      BY <1>0, <1>3, <1>4, <2>1 DEF OneReply
  <1>7. OffersOpen'
    <2>. SUFFICES ASSUME Live', cli'.phase \notin {"idle", "ended"}
                  PROVE  OffersOpen'
      BY DEF OffersOpen
    <2>1. cli.phase \notin {"idle", "ended"} /\ (Stuck => Stuck')
      BY DEF ExchangeTyped, ClientTasks, CliPhases, Stuck
    <2>2. \A i \in DOMAIN s2c' : s2c'[i].code = "Offer" =>
              s2c'[i].offer \in gaveUp \/ (Busy' /\ s2c'[i].offer = offers /\ cli'.offer # offers) \/ Stuck'
      BY <1>0, <1>1, <1>4, <2>1 DEF OffersOpen
    <2>3. ASSUME NEW i \in DOMAIN s2c', NEW j \in DOMAIN s2c', s2c'[i].code = "Offer",
                 s2c'[j].code = "Offer", s2c'[i].offer = s2c'[j].offer
          PROVE  i = j
      <3>1. i + d = j + d
        BY <1>0, <1>1, <1>4, <2>1, <2>3 DEF OffersOpen
      <3>. QED
        BY <1>1, <3>1
    <2>. QED
      BY <2>2, <2>3 DEF OffersOpen
  <1>8. FollowsOffer'
    BY <1>0, <1>4 DEF FollowsOffer
  <1>9. OfferNext'
    <2>1. \A i \in DOMAIN s2c' : s2c'[i].code = "Rekey" => i + 1 \in DOMAIN s2c' /\ s2c'[i + 1].code = "Offer"
      BY <1>0, PairsKept DEF OfferNext
    <2>2. cli'.phase = "rekeying" => s2c' # <<>> /\ s2c'[1].code = "Offer"
      <3>1. CASE s2c' = s2c /\ cli.phase = "rekeying"
        BY <1>0, <3>1 DEF OfferNext
      <3>2. CASE s2c # <<>> /\ s2c' = Tail(s2c) /\ s2c[1].code = "Rekey"
        <4>1. 1 \in DOMAIN s2c /\ Len(s2c) \in Nat /\ DOMAIN s2c = 1 .. Len(s2c) /\ s2c' \in PacketSeq
              /\ DOMAIN s2c' = 1 .. Len(s2c) - 1
          BY <1>0, <3>2, PacketTails
        <4>2. 1 + 1 \in DOMAIN s2c /\ s2c[1 + 1].code = "Offer"
          BY <1>0, <3>2, <4>1 DEF OfferNext
        <4>3. 1 \in 1 .. Len(s2c) - 1
          BY <4>1, <4>2
        <4>4. s2c'[1] = s2c[1 + 1] /\ 1 \in DOMAIN s2c'
          BY <1>0, <3>2, <4>1, <4>3, PacketTails
        <4>5. s2c' # <<>>
          BY <4>4
        <4>. QED
          BY <4>2, <4>4, <4>5
      <3>. QED
        BY <3>1, <3>2
    <2>. QED
      BY <1>0, <2>1, <2>2 DEF OfferNext
  <1>. QED
    BY <1>2, <1>5, <1>6, <1>7, <1>8, <1>9 DEF ExchangeInv, KInv

-----------------------------------------------------------------------------
(* The server's steps.                                                     *)

\* Reading leaves a stream of packets.
LEMMA ReadsOn ==
    ASSUME ExchangeTyped, c2s' = c2s \/ (c2s # <<>> /\ c2s' = Tail(c2s))
    PROVE  c2s' \in PacketSeq
  BY PacketTails DEF ExchangeTyped

\* What a step that writes under the entry's keys leaves to be sent.
LEMMA SendsKept ==
    ASSUME ExchangeInv, NEW e \in Entries, SendsFrom(e)
    PROVE  /\ \A s \in sends' : s.code \notin {"Offer", "Rekey"}
           /\ e.key \in UsedKeys => entry'.key \in UsedKeys /\ \A s \in sends' : s.key \in UsedKeys
           /\ \A s \in sends' : s.key \in UsedKeys \cup {e.key}
  <1>1. \A s \in sends : s.key \in UsedKeys /\ s.code \notin {"Offer", "Rekey"}
    BY DEF UsedKeys, ExchangeInv, KInv, OfferNext
  <1>. QED
    BY <1>1 DEF SendsFrom

\* The keys of the task and of its entry are in use.
LEMMA EntryUsed == srv.key \in UsedKeys /\ entry.key \in UsedKeys
  BY DEF UsedKeys

\* A task that gives an exchange up keeps the invariant.
LEMMA GivenUp ==
    ASSUME ExchangeInv, NEW e \in Entries, e.key = entry.key, GiveUp(e),
           UNCHANGED <<cli, held, s2c, offers, pinned, dials>>,
           c2s' = c2s \/ (c2s # <<>> /\ c2s' = Tail(c2s))
    PROVE  ExchangeInv'
  <1>1. ExchangeTyped /\ KeysSettled
    BY DEF ExchangeInv, KInv
  <1>2. /\ srv' \in ServerTasks /\ SendsFrom(e)
        /\ \/ /\ srv.phase = "rekey" /\ gaveUp' = gaveUp \cup {offers}
              /\ srv'.key = srv.key /\ srv'.phase \in {"ended", "session"}
           \/ srv'.phase = "ended" /\ gaveUp' = gaveUp
    BY <1>1, GiveUpFacts
  <1>3. c2s' \in PacketSeq
    BY <1>1, ReadsOn
  <1>4. /\ \A s \in sends' : s.code \notin {"Offer", "Rekey"}
        /\ entry'.key \in UsedKeys /\ \A s \in sends' : s.key \in UsedKeys
    BY <1>2, SendsKept, EntryUsed
  <1>5. CASE /\ srv.phase = "rekey" /\ gaveUp' = gaveUp \cup {offers}
             /\ srv'.key = srv.key /\ srv'.phase \in {"ended", "session"}
    <2>1. offers \in 1 .. MaxOffers
      BY <1>1, <1>5 DEF KeysSettled, Live, Busy, ExchangeTyped
    <2>2. ExchangeTyped'
      BY <1>1, <1>2, <1>3, <1>5, <2>1 DEF ExchangeTyped, SendsFrom
    <2>. QED
      BY <1>4, <1>5, <2>2, GivesUp
  <1>6. CASE srv'.phase = "ended" /\ gaveUp' = gaveUp
    <2>1. ExchangeTyped'
      BY <1>1, <1>2, <1>3, <1>6 DEF ExchangeTyped, SendsFrom
    <2>. QED
      BY <1>4, <1>6, <2>1, ServerKeeps
  <1>. QED
    BY <1>2, <1>5, <1>6

\* A task that ends with its entry removed, or already gone, keeps the invariant.
LEMMA Removed ==
    ASSUME ExchangeInv, Ended, NEW grace \in BOOLEAN,
           Remove(entry, grace) \/ UNCHANGED <<entry, sends>>,
           UNCHANGED <<cli, held, s2c, offers, gaveUp, pinned, dials>>,
           c2s' = c2s \/ (c2s # <<>> /\ c2s' = Tail(c2s))
    PROVE  ExchangeInv'
  <1>1. ExchangeTyped /\ entry \in Entries
    BY DEF ExchangeInv, ExchangeTyped
  <1>2. srv' \in ServerTasks /\ srv'.phase = "ended"
    BY <1>1, EndedFacts
  <1>3. SendsFrom(entry)
    <2>1. CASE Remove(entry, grace)
      BY <1>1, <2>1, RemoveFacts
    <2>2. CASE UNCHANGED <<entry, sends>>
      BY <1>1, <2>2 DEF SendsFrom, ExchangeTyped
    <2>. QED
      BY <2>1, <2>2
  <1>4. c2s' \in PacketSeq
    BY <1>1, ReadsOn
  <1>5. ExchangeTyped'
    BY <1>1, <1>2, <1>3, <1>4 DEF ExchangeTyped, SendsFrom
  <1>6. \A s \in sends' : s.code \notin {"Offer", "Rekey"}
    BY <1>1, <1>3, SendsKept
  <1>. QED
    BY <1>2, <1>5, <1>6, ServerKeeps

\* The wait for a reply runs out, or reads what is none.
LEMMA WaitsEnd ==
    ASSUME ExchangeInv, Timeout \/ ReadInvalid
    PROVE  ExchangeInv'
  <1>1. ExchangeTyped /\ entry \in Entries
    BY DEF ExchangeInv, ExchangeTyped
  <1>2. CASE Timeout
    BY <1>1, <1>2, GivenUp DEF Timeout
  <1>3. CASE ReadInvalid
    <2>1. CASE ~Verified
      BY <1>1, <1>3, <2>1, GivenUp DEF ReadInvalid
    <2>2. CASE Verified
      <3>1. Remove(entry, FALSE) /\ Ended
        BY <1>3, <2>2 DEF ReadInvalid
      <3>. QED
        BY <1>3, <2>2, <3>1, Removed DEF ReadInvalid
    <2>. QED
      BY <2>1, <2>2
  <1>. QED
    BY <1>2, <1>3

\* A packet sealed before the client saw the offer is handled while the server waits.
LEMMA StrayStep ==
    ASSUME ExchangeInv, ReadStray
    PROVE  ExchangeInv'
  <1>1. ExchangeTyped /\ entry \in Entries /\ c2s # <<>>
    BY DEF ExchangeInv, ExchangeTyped, ReadStray, Valid
  <1>2. Counted \in Entries /\ Counted.key = entry.key /\ Tail(c2s) \in PacketSeq
    BY <1>1, IncomingFacts
  <1>3. CASE GiveUp(Counted)
    BY <1>1, <1>2, <1>3, GivenUp DEF ReadStray
  <1>4. CASE /\ srv.strays < MaxStrays
             /\ srv' = [srv EXCEPT !.strays = @ + 1]
             /\ entry' = Counted
             /\ UNCHANGED <<sends, gaveUp>>
    <2>1. srv' \in ServerTasks /\ srv'.phase = srv.phase /\ srv'.key = srv.key
      BY <1>1, <1>4, BoundsAssumption DEF ExchangeTyped, ServerTasks
    <2>2. ExchangeTyped'
      BY <1>1, <1>2, <1>4, <2>1 DEF ExchangeTyped, ReadStray
    <2>3. \A s \in sends' : s.code \notin {"Offer", "Rekey"} /\ s.key \in UsedKeys
      BY <1>4 DEF ExchangeInv, KInv, OfferNext, UsedKeys
    <2>4. entry'.key \in UsedKeys /\ (Busy' <=> Busy)
      BY <1>2, <1>4, <2>1, EntryUsed DEF Busy
    <2>. QED
      BY <1>1, <1>4, <2>1, <2>2, <2>3, <2>4, ServerKeeps DEF ReadStray
  <1>. QED
    BY <1>3, <1>4 DEF ReadStray

\* The first reply: the two ends have their first key.
LEMMA FirstReplyStep ==
    ASSUME ExchangeInv, ReadFirstReply
    PROVE  ExchangeInv'
  <1>1. ExchangeTyped /\ entry \in Entries /\ c2s # <<>>
    BY DEF ExchangeInv, ExchangeTyped, ReadFirstReply, Valid
  <1>2. Counted \in Entries /\ Tail(c2s) \in PacketSeq /\ Derived \in Keys
    BY <1>1, IncomingFacts
  <1>3. srv' \in ServerTasks /\ srv'.phase = "version" /\ srv'.key = Derived
    BY <1>1, <1>2, Constants DEF ExchangeTyped, ServerTasks, ReadFirstReply, SrvPhases
  <1>4. entry' \in Entries /\ entry'.key = Derived
    BY <1>2 DEF ReadFirstReply, Entries
  <1> PICK p : p = packet("Version", Derived, 0)
    OBVIOUS
  <1>5. p \in Packet /\ p.code = "Version" /\ p.key = Derived
    <2>1. "Version" \in Codes /\ 0 \in Nat
      BY DEF Codes
    <2>. QED
      BY <1>2, <2>1, PacketPlain
  <1>6. s2c' = Append(s2c, p) /\ s2c' \in PacketSeq
    BY <1>1, <1>5, PacketAppends DEF ReadFirstReply, ExchangeTyped
  <1>7. ExchangeTyped'
    BY <1>1, <1>2, <1>3, <1>4, <1>6 DEF ExchangeTyped, ReadFirstReply
  <1>8. \A s \in sends' : s.code \notin {"Offer", "Rekey"} /\ s.key \in UsedKeys
    BY DEF ExchangeInv, KInv, OfferNext, UsedKeys, ReadFirstReply
  <1>9. Busy /\ ~Busy'
    BY <1>3 DEF Busy, ReadFirstReply
  <1>10. Incoming.code = "Reply" /\ c2s' = Tail(c2s) /\ UNCHANGED <<cli, offers, gaveUp>>
    BY DEF ReadFirstReply
  <1>. QED
    BY <1>1, <1>3, <1>4, <1>5, <1>6, <1>7, <1>8, <1>9, <1>10, Settles

\* The reply of a rekey: it belongs to the exchange under way, since there is one
\* reply at most.
LEMMA ReplyStep ==
    ASSUME ExchangeInv, ReadReply
    PROVE  ExchangeInv'
  <1>1. ExchangeTyped /\ entry \in Entries /\ c2s # <<>> /\ srv.hand \in Packet
    BY DEF ExchangeInv, ExchangeTyped, ReadReply, Valid, ServerTasks
  <1>2. Counted \in Entries /\ Tail(c2s) \in PacketSeq /\ Derived \in Keys
    BY <1>1, IncomingFacts
  <1> PICK e : e = [Counted EXCEPT !.key = Derived]
    OBVIOUS
  <1>3. e \in Entries /\ e.key = Derived
    BY <1>2 DEF Entries
  <1>4. Handle(srv.hand, e, Derived)
    BY DEF ReadReply
  <1>5. srv' \in ServerTasks /\ srv'.key = Derived /\ srv'.phase \in {"ended", "session"} /\ SendsFrom(e)
    BY <1>1, <1>2, <1>3, <1>4, HandleFacts
  <1>6. \A s \in sends' : s.code \notin {"Offer", "Rekey"} /\ s.key \in UsedKeys \cup {Derived}
    BY <1>3, <1>5, SendsKept
  <1>7. ExchangeTyped'
    BY <1>1, <1>2, <1>5 DEF ExchangeTyped, SendsFrom, ReadReply
  <1>8. Busy /\ ~Busy' /\ entry'.key = Derived
    BY <1>3, <1>5 DEF Busy, ReadReply, SendsFrom
  <1>9. Incoming.code = "Reply" /\ c2s' = Tail(c2s) /\ UNCHANGED <<cli, offers, gaveUp, s2c>>
    BY DEF ReadReply
  <1>. QED
    BY <1>1, <1>5, <1>6, <1>7, <1>8, <1>9, Settles


\* A packet that is no part of an exchange is written.
LEMMA Written ==
    ASSUME ExchangeTyped, NEW code \in Codes, NEW key \in Keys, NEW seq \in Nat,
           s2c' = Append(s2c, packet(code, key, seq)), code \notin {"Offer", "Rekey"}
    PROVE  /\ s2c' \in PacketSeq
           /\ \E p \in Packet : /\ s2c' = Append(s2c, p) /\ p.code \notin {"Offer", "Rekey"}
                                /\ p.code = code /\ p.key = key
  <1> PICK p : p = packet(code, key, seq)
    OBVIOUS
  <1>1. p \in Packet /\ p.code = code /\ p.key = key
    BY PacketPlain
  <1>2. s2c' = Append(s2c, p) /\ s2c' \in PacketSeq
    BY <1>1, PacketAppends DEF ExchangeTyped
  <1>. QED
    BY <1>1, <1>2

\* The server reads the version.
LEMMA VersionStep ==
    ASSUME ExchangeInv, ReadVersion
    PROVE  ExchangeInv'
  <1>1. ExchangeTyped /\ entry \in Entries /\ c2s # <<>> /\ srv.key \in Keys
    BY DEF ExchangeInv, ExchangeTyped, ReadVersion, Valid, ServerTasks
  <1>2. Counted \in Entries /\ Tail(c2s) \in PacketSeq /\ Counted.key = entry.key
    BY <1>1, IncomingFacts
  <1>3. srv' \in ServerTasks /\ srv'.phase = "login" /\ srv'.key = srv.key
    BY <1>1, Constants DEF ExchangeTyped, ServerTasks, ReadVersion, SrvPhases
  <1>4. entry' \in Entries /\ entry'.key \in UsedKeys
    BY <1>2, EntryUsed DEF ReadVersion
  <1>5. /\ s2c' \in PacketSeq
        /\ \E p \in Packet : s2c' = Append(s2c, p) /\ p.code \notin {"Offer", "Rekey"} /\ p.key = srv.key
    <2>1. "Welcome" \in Codes /\ "Welcome" \notin {"Offer", "Rekey"} /\ 0 \in Nat
      BY DEF Codes
    <2>2. s2c' = Append(s2c, packet("Welcome", srv.key, 0))
      BY DEF ReadVersion
    <2>. QED
      BY <1>1, <2>1, <2>2, Written
  <1>6. ExchangeTyped'
    BY <1>1, <1>2, <1>3, <1>4, <1>5 DEF ExchangeTyped, ReadVersion
  <1>7. \A s \in sends' : s.code \notin {"Offer", "Rekey"} /\ s.key \in UsedKeys
    BY DEF ExchangeInv, KInv, OfferNext, UsedKeys, ReadVersion
  <1>8. ~Busy /\ ~Busy' /\ srv.phase # "ended"
    BY <1>3 DEF Busy, ReadVersion
  <1>9. c2s' = Tail(c2s) /\ UNCHANGED <<cli, offers, gaveUp>>
    BY DEF ReadVersion
  <1>. QED
    BY <1>1, <1>3, <1>4, <1>5, <1>6, <1>7, <1>8, <1>9, EntryUsed, ServerKeeps

\* The server reads the credentials.
LEMMA CredentialsStep ==
    ASSUME ExchangeInv, ReadCredentials
    PROVE  ExchangeInv'
  <1>1. ExchangeTyped /\ entry \in Entries /\ c2s # <<>>
    BY DEF ExchangeInv, ExchangeTyped, ReadCredentials, Valid
  <1>2. Counted \in Entries /\ Tail(c2s) \in PacketSeq /\ Counted.key = entry.key
    BY <1>1, IncomingFacts
  <1>3. srv' \in ServerTasks /\ srv'.phase = "accept" /\ srv'.key = srv.key
    BY <1>1 DEF ExchangeTyped, ServerTasks, ReadCredentials, SrvPhases
  <1>4. entry' \in Entries /\ entry'.key = entry.key
    BY <1>1, <1>2 DEF ReadCredentials, Entries
  <1>5. ExchangeTyped'
    BY <1>1, <1>2, <1>3, <1>4 DEF ExchangeTyped, ReadCredentials
  <1>6. \A s \in sends' : s.code \notin {"Offer", "Rekey"} /\ s.key \in UsedKeys
    BY DEF ExchangeInv, KInv, OfferNext, UsedKeys, ReadCredentials
  <1>7. ~Busy /\ ~Busy' /\ srv.phase # "ended"
    BY <1>3 DEF Busy, ReadCredentials
  <1>8. c2s' = Tail(c2s) /\ UNCHANGED <<cli, offers, gaveUp, s2c>>
    BY DEF ReadCredentials
  <1>. QED
    BY <1>1, <1>3, <1>4, <1>5, <1>6, <1>7, <1>8, EntryUsed, ServerKeeps

\* The server accepts the login.
LEMMA AcceptStep ==
    ASSUME ExchangeInv, SendAccept
    PROVE  ExchangeInv'
  <1>1. ExchangeTyped /\ entry \in Entries /\ srv.key \in Keys
    BY DEF ExchangeInv, ExchangeTyped, ServerTasks
  <1>2. srv' \in ServerTasks /\ srv'.phase = "session" /\ srv'.key = srv.key
    BY <1>1 DEF ExchangeTyped, ServerTasks, SendAccept, SrvPhases
  <1>3. entry' \in Entries /\ entry'.key = entry.key /\ ServerSeq(entry, 1) \in Nat
    BY <1>1, OutgoingFacts DEF SendAccept
  <1>4. /\ s2c' \in PacketSeq
        /\ \E p \in Packet : s2c' = Append(s2c, p) /\ p.code \notin {"Offer", "Rekey"} /\ p.key = srv.key
    <2>1. "Accept" \in Codes /\ "Accept" \notin {"Offer", "Rekey"}
      BY DEF Codes
    <2>2. s2c' = Append(s2c, packet("Accept", srv.key, ServerSeq(entry, 1)))
      BY DEF SendAccept
    <2>. QED
      BY <1>1, <1>3, <2>1, <2>2, Written
  <1>5. ExchangeTyped'
    BY <1>1, <1>2, <1>3, <1>4 DEF ExchangeTyped, SendAccept
  <1>6. \A s \in sends' : s.code \notin {"Offer", "Rekey"} /\ s.key \in UsedKeys
    BY DEF ExchangeInv, KInv, OfferNext, UsedKeys, SendAccept
  <1>7. ~Busy /\ ~Busy' /\ srv.phase # "ended"
    BY <1>2 DEF Busy, SendAccept
  <1>8. UNCHANGED <<c2s, cli, offers, gaveUp>>
    BY DEF SendAccept
  <1>. QED
    BY <1>2, <1>3, <1>4, <1>5, <1>6, <1>7, <1>8, EntryUsed, ServerKeeps

\* The session reads a packet.
LEMMA ReadStep ==
    ASSUME ExchangeInv, Read
    PROVE  ExchangeInv'
  <1>1. ExchangeTyped /\ entry \in Entries /\ c2s # <<>> /\ srv.key \in Keys
    BY DEF ExchangeInv, ExchangeTyped, Read, Valid, ServerTasks
  <1>2. Counted \in Entries /\ Tail(c2s) \in PacketSeq /\ Counted.key = entry.key /\ Incoming \in Packet
    BY <1>1, IncomingFacts
  <1>3. c2s' = Tail(c2s) /\ UNCHANGED <<cli, held, s2c, offers, gaveUp, pinned, dials>> /\ srv.phase = "session"
    BY DEF Read
  <1>4. CASE Handle(Incoming, Counted, srv.key)
    <2>1. /\ srv' \in ServerTasks /\ srv'.key = srv.key /\ srv'.phase \in {"ended", "session"}
          /\ SendsFrom(Counted)
      BY <1>1, <1>2, <1>4, HandleFacts
    <2>2. /\ \A s \in sends' : s.code \notin {"Offer", "Rekey"}
          /\ entry'.key \in UsedKeys /\ \A s \in sends' : s.key \in UsedKeys
      BY <1>2, <2>1, SendsKept, EntryUsed
    <2>3. ExchangeTyped'
      BY <1>1, <1>2, <1>3, <2>1 DEF ExchangeTyped, SendsFrom
    <2>4. ~Busy /\ ~Busy'
      BY <1>3, <2>1 DEF Busy
    <2>. QED
      BY <1>1, <1>3, <2>1, <2>2, <2>3, <2>4, ServerKeeps
  <1>5. CASE Ended /\ UNCHANGED <<entry, sends>>
    BY <1>1, <1>3, <1>5, Removed
  <1>. QED
    BY <1>4, <1>5 DEF Read

\* The session ends.
LEMMA EndSteps ==
    ASSUME ExchangeInv, Reject \/ ReadEnd \/ Abort
    PROVE  ExchangeInv'
  <1>1. CASE Reject
    <2>1. Ended /\ (Remove(entry, FALSE) \/ UNCHANGED <<entry, sends>>)
      BY <1>1 DEF Reject
    <2>. QED
      BY <1>1, <2>1, Removed DEF Reject
  <1>2. CASE ReadEnd
    BY <1>2, Removed DEF ReadEnd
  <1>3. CASE Abort
    BY <1>3, Removed DEF Abort
  <1>. QED
    BY <1>1, <1>2, <1>3

\* The steps of other tasks on the entry.
LEMMA TaskSteps ==
    ASSUME ExchangeInv, Broadcast \/ KeepAlive \/ BuryDead \/ Kick
    PROVE  ExchangeInv'
  <1>1. ExchangeTyped /\ entry \in Entries /\ entry.key \in Keys
    BY DEF ExchangeInv, ExchangeTyped, Entries
  <1>2. UNCHANGED <<srv, cli, held, s2c, c2s, offers, gaveUp, pinned, dials>>
    BY DEF Broadcast, KeepAlive, BuryDead, Kick
  <1>3. /\ entry' \in Entries /\ entry'.key = entry.key /\ sends' \subseteq SendTasks
        /\ \A s \in sends' : s \in sends \/ (s.key = entry.key /\ s.code \notin {"Offer", "Rekey"})
    <2>1. CASE Broadcast
      <3> DEFINE d == [code |-> "Message", key |-> entry.key]
      <3>1. d \in SendTasks /\ d.key = entry.key /\ d.code = "Message"
        BY <1>1 DEF SendTasks, Codes
      <3>2. sends' = sends \cup {d} /\ entry' = entry
        BY <2>1 DEF Broadcast
      <3> HIDE DEF d
      <3>. QED
        BY <1>1, <3>1, <3>2 DEF ExchangeTyped
    <2>2. CASE KeepAlive
      <3> DEFINE d == [code |-> "KeepAlive", key |-> entry.key]
      <3>1. d \in SendTasks /\ d.key = entry.key /\ d.code = "KeepAlive"
        BY <1>1 DEF SendTasks, Codes
      <3>2. sends' = sends \cup {d}
        BY <2>2 DEF KeepAlive
      <3>3. entry' \in Entries /\ entry'.key = entry.key
        BY <1>1, <2>2 DEF KeepAlive, Entries
      <3> HIDE DEF d
      <3>. QED
        BY <1>1, <3>1, <3>2, <3>3 DEF ExchangeTyped
    <2>3. CASE BuryDead \/ Kick
      <3>1. Remove(entry, FALSE) \/ Remove(entry, TRUE)
        BY <2>3 DEF BuryDead, Kick
      <3>2. SendsFrom(entry)
        BY <1>1, <3>1, RemoveFacts
      <3>. QED
        BY <3>2 DEF SendsFrom
    <2>. QED
      BY <2>1, <2>2, <2>3
  <1>4. \A s \in sends : s.code \notin {"Offer", "Rekey"} /\ s.key \in UsedKeys
    BY DEF ExchangeInv, KInv, OfferNext, UsedKeys
  <1>5. \A s \in sends' : s.code \notin {"Offer", "Rekey"} /\ s.key \in UsedKeys
    BY <1>3, <1>4, EntryUsed
  <1>6. ExchangeTyped'
    BY <1>1, <1>2, <1>3 DEF ExchangeTyped
  <1>7. Busy' <=> Busy
    BY <1>2 DEF Busy
  <1>. QED
    BY <1>2, <1>3, <1>5, <1>6, <1>7, EntryUsed, ServerKeeps


\* A task writes what it sealed, under keys that are in use.
LEMMA WriteStep ==
    ASSUME ExchangeInv, WriteSend
    PROVE  ExchangeInv'
  <1>1. ExchangeTyped /\ entry \in Entries
    BY DEF ExchangeInv, ExchangeTyped
  <1>2. PICK s \in sends : /\ s2c' = Append(s2c, packet(s.code, s.key, ServerSeq(entry, 1)))
                           /\ sends' = sends \ {s}
    BY DEF WriteSend
  <1>3. s.code \in Codes /\ s.key \in Keys /\ s.code # "Rekey" /\ s.key \in UsedKeys
    BY <1>1 DEF ExchangeTyped, SendTasks, ExchangeInv, KInv, OfferNext, UsedKeys
  <1>4. entry' \in Entries /\ entry'.key = entry.key /\ ServerSeq(entry, 1) \in Nat
    BY <1>1, OutgoingFacts DEF WriteSend
  <1>5. s.code # "Offer"
    BY DEF ExchangeInv, KInv, OfferNext
  <1>6. /\ s2c' \in PacketSeq
        /\ \E p \in Packet : s2c' = Append(s2c, p) /\ p.code \notin {"Offer", "Rekey"} /\ p.key = s.key
    BY <1>1, <1>2, <1>3, <1>4, <1>5, Written
  <1>7. ExchangeTyped'
    BY <1>1, <1>2, <1>4, <1>6 DEF ExchangeTyped, WriteSend
  <1>8. \A t \in sends' : t.code \notin {"Offer", "Rekey"} /\ t.key \in UsedKeys
    BY <1>2 DEF ExchangeInv, KInv, OfferNext, UsedKeys
  <1>9. (Busy' <=> Busy) /\ UNCHANGED <<srv, c2s, cli, offers, gaveUp>>
    BY DEF Busy, WriteSend
  <1>. QED
    BY <1>3, <1>4, <1>6, <1>7, <1>8, <1>9, EntryUsed, ServerKeeps


\* Two packets written back to back.
LEMMA PairIs ==
    ASSUME NEW q \in PacketSeq, NEW a \in Packet, NEW b \in Packet
    PROVE  q \o <<a, b>> = Append(Append(q, a), b)
  BY DEF PacketSeq

\* What is in use is a key.
LEMMA UsedTyped ==
    ASSUME ExchangeTyped
    PROVE  UsedKeys \subseteq Keys
  <1>1. srv.key \in Keys /\ entry.key \in Keys
    BY DEF ExchangeTyped, ServerTasks, Entries
  <1>2. \A s \in sends : s.key \in Keys
    BY DEF ExchangeTyped, SendTasks
  <1>3. \A i \in DOMAIN s2c : s2c[i] \in Packet
    BY DEF ExchangeTyped, PacketSeq
  <1>4. \A i \in DOMAIN s2c : s2c[i].key \in Keys
    BY <1>3, PacketFields
  <1>. QED
    BY <1>1, <1>2, <1>4 DEF UsedKeys

\* r is q and two packets more.
PairAfter(q, a, b, r) ==
    /\ r \in PacketSeq /\ r # <<>>
    /\ \E n \in Nat : /\ DOMAIN q = 1 .. n /\ DOMAIN r = 1 .. n + 2
                      /\ \A i \in DOMAIN q : i \in DOMAIN r /\ r[i] = q[i]
                      /\ r[n + 1] = a /\ r[n + 2] = b

\* Two packets written back to back: what is in the stream then.
LEMMA PairAdded ==
    ASSUME NEW q \in PacketSeq, NEW a \in Packet, NEW b \in Packet, NEW r, r = Append(Append(q, a), b)
    PROVE  PairAfter(q, a, b, r)
  <1> DEFINE n == Len(q)
  <1>1. /\ r \in PacketSeq /\ n \in Nat /\ DOMAIN q = 1 .. n /\ DOMAIN r = 1 .. n + 2
        /\ r[n + 1] = a /\ r[n + 2] = b
        /\ \A i \in DOMAIN q : r[i] = q[i]
    BY DEF PacketSeq
  <1> HIDE DEF n
  <1>2. n + 1 \in DOMAIN r /\ \A i \in DOMAIN q : i \in DOMAIN r
    BY <1>1
  <1>3. r # <<>>
    BY <1>2
  <1>. QED
    BY <1>1, <1>2, <1>3 DEF PairAfter

\* A rekey starts: Rekey and the offer are written back to back.
LEMMA RekeyStep ==
    ASSUME ExchangeInv, StartRekey
    PROVE  ExchangeInv'
  <1>0. /\ OffersCounted /\ KeysSettled /\ OneReply /\ OffersOpen /\ FollowsOffer /\ OfferNext
        /\ s2c \in PacketSeq /\ c2s \in PacketSeq /\ c2s # <<>> /\ offers \in Nat /\ cli.offer \in Nat
    BY Constants DEF ExchangeInv, KInv, ExchangeTyped, StartRekey, Valid, ClientTasks
  <1>1. ExchangeTyped /\ entry \in Entries /\ srv.key \in Keys /\ offers' \in 0 .. MaxOffers /\ offers' = offers + 1
    <2>1. ExchangeTyped /\ entry \in Entries /\ srv.key \in Keys
      BY DEF ExchangeInv, ExchangeTyped, ServerTasks
    <2>2. offers' = offers + 1 /\ offers < MaxOffers
      BY DEF StartRekey
    <2>3. offers' \in 0 .. MaxOffers
      BY <2>1, <2>2, BoundsAssumption DEF ExchangeTyped
    <2>. QED
      BY <2>1, <2>2, <2>3
  <1>2. Counted \in Entries /\ Tail(c2s) \in PacketSeq /\ Counted.key = entry.key /\ Incoming \in Packet
    BY <1>0, <1>1, IncomingFacts
  <1>3. srv' \in ServerTasks /\ srv'.phase = "rekey" /\ srv'.key = srv.key
    BY <1>1, <1>2 DEF ExchangeTyped, ServerTasks, StartRekey, SrvPhases
  <1>4. entry' \in Entries /\ entry'.key = entry.key
    BY <1>2, OutgoingFacts DEF StartRekey
  <1>5. PICK a, b \in Packet : /\ s2c' = Append(Append(s2c, a), b) /\ a.code = "Rekey" /\ b.code = "Offer"
                               /\ a.key = srv.key /\ b.key = srv.key /\ b.offer = offers + 1
    <2> PICK a : a = packet("Rekey", srv.key, ServerSeq(entry, 1))
      OBVIOUS
    <2> PICK b : b = [packet("Offer", srv.key, ServerSeq(entry, 2)) EXCEPT !.offer = offers + 1]
      OBVIOUS
    <2>1. "Rekey" \in Codes /\ "Offer" \in Codes /\ ServerSeq(entry, 1) \in Nat /\ ServerSeq(entry, 2) \in Nat
      BY <1>1, OutgoingFacts DEF Codes
    <2>2. a \in Packet /\ a.code = "Rekey" /\ a.key = srv.key
      BY <1>1, <2>1, PacketPlain
    <2>3. b \in Packet /\ b.code = "Offer" /\ b.key = srv.key /\ b.offer = offers + 1
      BY <1>1, <2>1, PacketMade
    <2>4. s2c' = s2c \o <<a, b>>
      BY DEF StartRekey
    <2>5. s2c' = Append(Append(s2c, a), b)
      BY <1>0, <2>2, <2>3, <2>4, PairIs
    <2>. QED
      BY <2>2, <2>3, <2>5
  <1>18. PairAfter(s2c, a, b, s2c')
    BY <1>0, <1>5, PairAdded
  <1>16. s2c' \in PacketSeq /\ s2c' # <<>>
    BY <1>18 DEF PairAfter
  <1>6. PICK n \in Nat : /\ DOMAIN s2c = 1 .. n /\ DOMAIN s2c' = 1 .. n + 2
                         /\ \A i \in DOMAIN s2c : i \in DOMAIN s2c' /\ s2c'[i] = s2c[i]
                         /\ s2c'[n + 1] = a /\ s2c'[n + 2] = b
    BY <1>18 DEF PairAfter
  <1>17. \A i \in DOMAIN s2c' : i \in DOMAIN s2c \/ i = n + 1 \/ i = n + 2
    BY <1>6
  <1>7. ExchangeTyped'
    BY <1>1, <1>2, <1>3, <1>4, <1>16 DEF ExchangeTyped, StartRekey
  <1>8. Live /\ Live' /\ ~Busy /\ Busy' /\ UNCHANGED <<cli, gaveUp, sends>> /\ c2s' = Tail(c2s)
    BY <1>3 DEF Live, Busy, StartRekey
  <1>9. UsedKeys' \subseteq UsedKeys
    <2>1. \A i \in DOMAIN s2c : s2c[i].key \in UsedKeys
      BY DEF UsedKeys
    <2>2. \A i \in DOMAIN s2c' : s2c'[i].key \in UsedKeys
      BY <1>5, <1>6, <1>17, <2>1, EntryUsed
    <2>3. \A s \in sends' : s.key \in UsedKeys
      BY <1>8 DEF UsedKeys
    <2>. QED
      BY <1>3, <1>4, <2>2, <2>3, EntryUsed, UsedAre
  <1>10. OffersCounted'
    <2>1. gaveUp \subseteq 1 .. offers + 1 /\ cli.offer <= offers + 1
      BY <1>0 DEF OffersCounted
    <2>2. \A i \in DOMAIN s2c : s2c[i].code = "Offer" => s2c[i].offer <= offers + 1
      <3>1. \A i \in DOMAIN s2c : s2c[i] \in Packet
        BY <1>0 DEF PacketSeq
      <3>2. \A i \in DOMAIN s2c : s2c[i].offer \in 0 .. MaxOffers
        BY <3>1, PacketFields
      <3>. QED
        BY <1>0, <3>2 DEF OffersCounted
    <2>3. \A i \in DOMAIN s2c' : s2c'[i].code = "Offer" => s2c'[i].offer <= offers + 1
      BY <1>0, <1>5, <1>6, <1>17, <2>2
    <2>4. cli.phase \in {"prompt", "open", "rekeying"} => cli.key = cli.offer
      BY <1>0 DEF OffersCounted
    <2>. QED
      BY <1>1, <1>8, <2>1, <2>3, <2>4 DEF OffersCounted
  <1>11. KeysSettled'
    <2>1. \A k \in UsedKeys : k <= offers /\ k \notin gaveUp /\ k \in Int
      BY <1>0, <1>1, <1>8, UsedTyped DEF KeysSettled, Keys
    <2>2. offers + 1 \notin gaveUp
      BY <1>0 DEF OffersCounted
    <2>. QED
      BY <1>0, <1>1, <1>8, <1>9, <2>1, <2>2 DEF KeysSettled
  <1>12. OneReply'
    BY <1>0, <1>8, <1>9, RepliesKept
  <1>13. OffersOpen'
    <2>. SUFFICES ASSUME cli.phase \notin {"idle", "ended"}
                  PROVE  OffersOpen'
      BY <1>8 DEF OffersOpen
    <2>1. \A i \in DOMAIN s2c : s2c[i].code = "Offer" =>
             /\ s2c[i].offer <= offers
             /\ s2c[i].offer \in gaveUp \/ Stuck
      BY <1>0, <1>8 DEF OffersOpen, OffersCounted
    <2>2. Stuck => Stuck'
      BY <1>8 DEF Stuck
    <2>3. cli.offer # offers + 1
      BY <1>0 DEF OffersCounted
    <2>4. ASSUME NEW i \in DOMAIN s2c', s2c'[i].code = "Offer"
          PROVE  /\ s2c'[i].offer \in gaveUp \/ s2c'[i].offer = offers + 1 \/ Stuck
                 /\ i \in DOMAIN s2c \/ i = n + 2
                 /\ i \in DOMAIN s2c => s2c'[i].offer <= offers /\ s2c'[i] = s2c[i]
                 /\ i = n + 2 => s2c'[i].offer = offers + 1
      BY <1>5, <1>6, <1>17, <2>1, <2>4
    <2>5. ASSUME NEW i \in DOMAIN s2c', NEW j \in DOMAIN s2c', s2c'[i].code = "Offer",
                 s2c'[j].code = "Offer", s2c'[i].offer = s2c'[j].offer
          PROVE  i = j
      <3>1. i \in DOMAIN s2c <=> j \in DOMAIN s2c
        BY <1>0, <2>4, <2>5
      <3>2. CASE i \in DOMAIN s2c /\ j \in DOMAIN s2c
        BY <1>0, <1>6, <1>17, <1>8, <2>5, <3>2 DEF OffersOpen
      <3>. QED
        BY <2>4, <2>5, <3>1, <3>2
    <2>. QED
      BY <1>1, <1>8, <2>2, <2>3, <2>4, <2>5 DEF OffersOpen
  <1>14. FollowsOffer'
    BY <1>0, <1>3, <1>8 DEF FollowsOffer
  <1>15. OfferNext'
    <2>1. ASSUME NEW i \in DOMAIN s2c', s2c'[i].code = "Rekey"
          PROVE  i + 1 \in DOMAIN s2c' /\ s2c'[i + 1].code = "Offer"
      <3>1. CASE i \in DOMAIN s2c
        BY <1>0, <1>6, <1>17, <2>1, <3>1 DEF OfferNext
      <3>2. CASE i = n + 1
        BY <1>5, <1>6, <1>17, <3>2
      <3>3. CASE i = n + 2
        BY <1>5, <1>6, <1>17, <2>1, <3>3
      <3>. QED
        BY <1>6, <1>17, <3>1, <3>2, <3>3
    <2>2. cli'.phase = "rekeying" => s2c' # <<>> /\ s2c'[1].code = "Offer"
      <3>1. s2c # <<>> => 1 \in DOMAIN s2c
        BY <1>0, PacketTails
      <3>. QED
        BY <1>0, <1>6, <1>16, <1>8, <3>1 DEF OfferNext
    <2>. QED
      BY <1>0, <1>8, <2>1, <2>2 DEF OfferNext
  <1>. QED
    BY <1>7, <1>10, <1>11, <1>12, <1>13, <1>14, <1>15 DEF ExchangeInv, KInv


-----------------------------------------------------------------------------
(* The client's steps.                                                     *)

\* The client dials: nothing of an earlier connection is left.
LEMMA DialStep ==
    ASSUME ExchangeInv, Dial
    PROVE  ExchangeInv'
  <1>0. OffersCounted /\ ExchangeTyped /\ offers \in Nat /\ cli.offer \in Nat
    BY Constants DEF ExchangeInv, KInv, ExchangeTyped, ClientTasks
  <1>1. offers' = offers + 1 /\ offers' \in 0 .. MaxOffers /\ dials' \in 0 .. MaxDials
    <2>1. offers' = offers + 1 /\ offers < MaxOffers /\ dials' = dials + 1 /\ dials < MaxDials
      BY DEF Dial
    <2>. QED
      BY <1>0, <2>1, BoundsAssumption DEF ExchangeTyped
  <1>2. srv' \in ServerTasks /\ srv'.phase = "greet" /\ srv'.key = Obfuscated
    BY Constants DEF Dial, ServerTasks, SrvPhases
  <1>3. entry' \in Entries /\ entry'.key = Obfuscated /\ sends' = {} /\ c2s' = <<>>
    BY Constants DEF Dial
  <1>4. PICK b \in Packet : /\ s2c' = <<b>> /\ b.code = "Offer" /\ b.key = Obfuscated /\ b.offer = offers + 1
    <2> PICK b : b = [packet("Offer", Obfuscated, 0) EXCEPT !.offer = offers + 1]
      OBVIOUS
    <2>1. "Offer" \in Codes /\ 0 \in Nat
      BY DEF Codes
    <2>2. b \in Packet /\ b.code = "Offer" /\ b.key = Obfuscated /\ b.offer = offers + 1
      BY <1>1, <2>1, PacketMade, Constants
    <2>3. s2c' = <<b>>
      BY DEF Dial
    <2>. QED
      BY <2>2, <2>3
  <1>5. s2c' \in PacketSeq /\ DOMAIN s2c' = {1} /\ s2c'[1] = b
    BY <1>4 DEF PacketSeq
  <1>6. /\ cli' \in ClientTasks /\ cli'.phase = "dialed" /\ cli'.offer = cli.offer
    BY <1>0 DEF Dial, ExchangeTyped, ClientTasks, CliPhases
  <1>7. c2s' \in PacketSeq /\ DOMAIN c2s' = {}
    BY <1>3 DEF PacketSeq
  <1>8. ExchangeTyped'
    BY <1>0, <1>1, <1>2, <1>3, <1>5, <1>6, <1>7 DEF ExchangeTyped, Dial
  <1>9. UsedKeys' \subseteq {0}
    BY <1>2, <1>3, <1>4, <1>5, UsedAre DEF Obfuscated
  <1>10. gaveUp' = gaveUp /\ gaveUp \subseteq 1 .. offers /\ offers + 1 \notin gaveUp /\ 0 \notin gaveUp
    BY <1>0 DEF Dial, OffersCounted
  <1>11. Live' /\ Busy'
    BY <1>2 DEF Live, Busy
  <1>12. OffersCounted'
    <2>1. gaveUp' \subseteq 1 .. offers' /\ cli'.offer <= offers'
      BY <1>0, <1>1, <1>6, <1>10 DEF OffersCounted
    <2>2. \A i \in DOMAIN s2c' : s2c'[i].code = "Offer" => s2c'[i].offer <= offers'
      BY <1>0, <1>1, <1>4, <1>5
    <2>. QED
      BY <1>6, <2>1, <2>2 DEF OffersCounted
  <1>13. KeysSettled'
    BY <1>0, <1>1, <1>9, <1>10 DEF KeysSettled
  <1>14. OneReply' /\ FollowsOffer'
    BY <1>6, <1>7 DEF OneReply, FollowsOffer
  <1>15. OffersOpen'
    <2>1. cli'.offer # offers'
      BY <1>0, <1>1, <1>6 DEF OffersCounted
    <2>. QED
      BY <1>1, <1>4, <1>5, <1>11, <2>1 DEF OffersOpen
  <1>16. OfferNext'
    BY <1>3, <1>4, <1>5, <1>6 DEF OfferNext
  <1>. QED
    BY <1>8, <1>12, <1>13, <1>14, <1>15, <1>16 DEF ExchangeInv, KInv

\* The packet that arrived, and what hearing it counts.
LEMMA ArrivedFacts ==
    ASSUME ExchangeTyped, s2c # <<>>
    PROVE  /\ Arrived \in Packet /\ Arrived = s2c[1] /\ 1 \in DOMAIN s2c
           /\ Tail(s2c) \in PacketSeq
           /\ Heard \in ClientTasks /\ Heard.phase = cli.phase /\ Heard.key = cli.key
           /\ Heard.offer = cli.offer /\ Heard.seq = cli.seq /\ Heard.shared = cli.shared
  <1>1. Arrived \in Packet /\ Arrived = s2c[1] /\ 1 \in DOMAIN s2c /\ Tail(s2c) \in PacketSeq
    BY PacketTails DEF ExchangeTyped, Arrived
  <1>2. Arrived.seq \in Nat
    BY <1>1, PacketFields
  <1>. QED
    BY <1>1, <1>2 DEF Heard, ExchangeTyped, ClientTasks

\* The client reads an offer and replies.
LEMMA OfferStep ==
    ASSUME ExchangeInv, ReadOffer
    PROVE  ExchangeInv'
  <1>0. /\ OffersCounted /\ KeysSettled /\ OneReply /\ OffersOpen /\ FollowsOffer /\ OfferNext
        /\ ExchangeTyped /\ s2c \in PacketSeq /\ c2s \in PacketSeq /\ s2c # <<>>
        /\ cli \in ClientTasks /\ cli.phase \in {"dialed", "rekeying"}
    BY DEF ExchangeInv, KInv, ExchangeTyped, ReadOffer, Acceptable
  <1>1. /\ Arrived \in Packet /\ Arrived = s2c[1] /\ 1 \in DOMAIN s2c
        /\ Tail(s2c) \in PacketSeq
        /\ Heard \in ClientTasks /\ Heard.phase = cli.phase /\ Heard.key = cli.key
        /\ Heard.offer = cli.offer /\ Heard.seq = cli.seq
    BY <1>0, ArrivedFacts
  <1>2. s2c' = Tail(s2c) /\ UNCHANGED <<srv, entry, sends, held, offers, gaveUp, pinned, dials>>
    BY DEF ReadOffer
  <1>3. CASE Arrived.code # "Offer"
    <2>1. cli' = Heard /\ c2s' = c2s
      BY <1>3 DEF ReadOffer
    <2>2. cli.phase = "dialed"
      BY <1>0, <1>1, <1>3 DEF OfferNext
    <2>3. ExchangeTyped'
      BY <1>0, <1>1, <1>2, <2>1 DEF ExchangeTyped
    <2>. QED
      BY <1>0, <1>1, <1>2, <2>1, <2>2, <2>3, ClientKeeps
  <1>4. CASE Arrived.code = "Offer"
    <2> PICK m : m = Arrived.offer
      OBVIOUS
    <2>0. m \in 0 .. MaxOffers /\ Arrived.key = ReadKey /\ ReadKey \in Keys /\ cli.seq + 1 \in Nat
      <3>1. Arrived.key = ReadKey
        BY DEF ReadOffer, Acceptable
      <3>2. m \in 0 .. MaxOffers /\ Arrived.key \in Keys
        BY <1>1, PacketFields
      <3>3. cli.seq + 1 \in Nat
        BY <1>0 DEF ClientTasks
      <3>. QED
        BY <3>1, <3>2, <3>3
    <2>1. cli' \in ClientTasks /\ cli'.phase = "deriving" /\ cli'.offer = m
      <3> PICK h : h = Heard
        OBVIOUS
      <3>1. h \in ClientTasks /\ h.seq + 1 \in Nat
        BY <1>1, <2>0
      <3>2. cli' = [h EXCEPT !.phase = "deriving", !.seq = h.seq + 1, !.offer = m]
        BY <1>4 DEF ReadOffer
      <3>. QED
        BY <2>0, <3>1, <3>2 DEF ClientTasks, CliPhases
    <2>2. PICK p \in Packet : c2s' = Append(c2s, p) /\ p.code = "Reply" /\ p.offer = m
      <3> PICK p : p = [packet("Reply", ReadKey, cli.seq + 1) EXCEPT !.offer = m]
        OBVIOUS
      <3>1. "Reply" \in Codes
        BY DEF Codes
      <3>2. p \in Packet /\ p.code = "Reply" /\ p.offer = m
        BY <2>0, <3>1, PacketMade
      <3>3. c2s' = Append(c2s, p)
        BY <1>4 DEF ReadOffer
      <3>. QED
        BY <3>2, <3>3
    <2>3. c2s' \in PacketSeq
      BY <1>0, <2>2, PacketAdded
    <2>11. PICK n : \A i \in DOMAIN c2s' : (i \in DOMAIN c2s /\ c2s'[i] = c2s[i]) \/ (i = n /\ c2s'[i] = p)
      BY <1>0, <2>2, PacketAddedOnce
    <2>4. ExchangeTyped'
      BY <1>0, <1>1, <1>2, <2>1, <2>3 DEF ExchangeTyped
    <2>5. \A i \in DOMAIN s2c' : i \in Nat /\ i + 1 \in DOMAIN s2c /\ s2c'[i] = s2c[i + 1] /\ i + 1 # 1
      BY <1>0, <1>2, TailHolds
    <2>6. OffersCounted'
      <3>1. m <= offers
        BY <1>0, <1>1, <1>4 DEF OffersCounted
      <3>2. \A i \in DOMAIN s2c' : s2c'[i].code = "Offer" => s2c'[i].offer <= offers
        BY <1>0, <2>5 DEF OffersCounted
      <3>. QED
        BY <1>0, <1>2, <2>1, <3>1, <3>2 DEF OffersCounted
    <2>7. OfferNext'
      BY <1>0, <1>2, <2>1, PairsKept DEF OfferNext
    <2>8. (Live' <=> Live) /\ (Busy' <=> Busy)
      BY <1>2 DEF Live, Busy
    <2>9. CASE ~Live
      BY <2>4, <2>6, <2>7, <2>8, <2>9 DEF ExchangeInv, KInv, KeysSettled, OneReply, OffersOpen, FollowsOffer
    <2>10. CASE Live
      <3>1. UsedKeys' \subseteq UsedKeys
        <4>1. \A i \in DOMAIN s2c' : s2c'[i].key \in UsedKeys
          BY <2>5 DEF UsedKeys
        <4>2. srv'.key \in UsedKeys /\ entry'.key \in UsedKeys /\ \A s \in sends' : s.key \in UsedKeys
          BY <1>2 DEF UsedKeys
        <4>. QED
          BY <4>1, <4>2, UsedAre
      \* The client reads what the server writes: it has no reply on its way.
      <3>2. cli.phase = "rekeying" => cli.offer \in UsedKeys
        <4>1. ReadKey \in UsedKeys
          BY <1>1, <2>0 DEF UsedKeys
        <4>. QED
          BY <1>0, <4>1 DEF ReadKey, OffersCounted
      <3>3. ~Stuck
        BY <1>0, <2>10, <3>2 DEF Stuck, KeysSettled
      <3>4. \A i \in DOMAIN c2s : c2s[i].code # "Reply"
        BY <1>0, <2>10, <3>2 DEF OneReply
      <3>5. m \in gaveUp \/ (Busy /\ m = offers)
        BY <1>0, <1>1, <1>4, <2>10, <3>3 DEF OffersOpen
      <3>6. m \notin UsedKeys
        BY <1>0, <2>10, <3>5 DEF KeysSettled
      <3>7. KeysSettled'
        BY <1>0, <1>2, <2>8, <3>1 DEF KeysSettled
      <3>8. OneReply'
        BY <2>1, <2>2, <2>11, <3>1, <3>4, <3>6 DEF OneReply
      <3>9. FollowsOffer'
        BY <1>2, <2>1, <2>8, <3>5 DEF FollowsOffer
      <3>10. OffersOpen'
        <4>1. ASSUME NEW i \in DOMAIN s2c', s2c'[i].code = "Offer"
              PROVE  s2c'[i].offer \in gaveUp \/ (Busy /\ s2c'[i].offer = offers /\ m # offers)
          <5>1. s2c'[i].offer # m
            BY <1>0, <1>1, <1>4, <2>5, <2>10, <4>1 DEF OffersOpen
          <5>2. s2c'[i].offer \in gaveUp \/ (Busy /\ s2c'[i].offer = offers)
            BY <1>0, <2>5, <2>10, <3>3, <4>1 DEF OffersOpen
          <5>. QED
            BY <5>1, <5>2
        <4>2. ASSUME NEW i \in DOMAIN s2c', NEW j \in DOMAIN s2c', s2c'[i].code = "Offer",
                     s2c'[j].code = "Offer", s2c'[i].offer = s2c'[j].offer
              PROVE  i = j
          <5>1. i + 1 = j + 1
            BY <1>0, <2>5, <2>10, <4>2 DEF OffersOpen
          <5>. QED
            BY <2>5, <5>1
        <4>. QED
          BY <1>2, <2>1, <2>8, <4>1, <4>2 DEF OffersOpen
      <3>. QED
        BY <2>4, <2>6, <2>7, <3>7, <3>8, <3>9, <3>10 DEF ExchangeInv, KInv
    <2>. QED
      BY <2>9, <2>10
  <1>. QED
    BY <1>3, <1>4


\* A packet of the client's other than a reply.
LEMMA ClientWrites ==
    ASSUME ExchangeTyped, NEW code \in Codes, NEW key \in Keys, NEW c \in ClientTasks, code # "Reply",
           ClientSends(code, key, c)
    PROVE  /\ c2s' \in PacketSeq
           /\ \E p \in Packet : c2s' = Append(c2s, p) /\ p.code # "Reply"
           /\ cli' \in ClientTasks /\ cli'.phase = c.phase /\ cli'.key = c.key /\ cli'.offer = c.offer
  <1>1. cli.seq + 1 \in Nat
    BY DEF ExchangeTyped, ClientTasks
  <1> PICK p : p = packet(code, key, cli.seq + 1)
    OBVIOUS
  <1>2. p \in Packet /\ p.code = code
    BY <1>1, PacketPlain
  <1>3. c2s' = Append(c2s, p) /\ c2s' \in PacketSeq
    BY <1>2, PacketAppends DEF ExchangeTyped, ClientSends
  <1>4. cli' \in ClientTasks /\ cli'.phase = c.phase /\ cli'.key = c.key /\ cli'.offer = c.offer
    BY <1>1 DEF ClientSends, ClientTasks
  <1>. QED
    BY <1>2, <1>3, <1>4

\* The client passes over what is no offer.
LEMMA DropStep ==
    ASSUME ExchangeInv, Drop
    PROVE  ExchangeInv'
  <1>1. ExchangeTyped /\ UNCHANGED <<srv, entry, sends, held, s2c, c2s, offers, gaveUp, pinned, dials>>
    BY DEF ExchangeInv, Drop
  <1>2. cli' \in ClientTasks /\ cli'.phase = "ended" /\ cli'.offer = cli.offer
    BY <1>1 DEF Drop, ExchangeTyped, ClientTasks, CliPhases
  <1>3. ExchangeTyped'
    BY <1>1, <1>2 DEF ExchangeTyped
  <1>. QED
    BY <1>1, <1>2, <1>3, ClientKeeps

\* The client derives the keys of the offer it answered.
LEMMA DeriveStep ==
    ASSUME ExchangeInv, Derive
    PROVE  ExchangeInv'
  <1>1. /\ ExchangeTyped /\ UNCHANGED <<srv, entry, sends, held, s2c, c2s, offers, gaveUp, pinned, dials>>
        /\ cli.phase = "deriving"
    BY DEF ExchangeInv, Derive
  <1>2. cli.offer \in Keys
    BY <1>1, Constants DEF ExchangeTyped, ClientTasks
  <1>3. /\ cli' \in ClientTasks /\ cli'.phase \in {"open", "prompt"}
        /\ cli'.offer = cli.offer /\ cli'.key = cli.offer
    BY <1>1, <1>2 DEF Derive, ExchangeTyped, ClientTasks, CliPhases
  <1>4. ExchangeTyped'
    BY <1>1, <1>3 DEF ExchangeTyped
  <1>. QED
    BY <1>1, <1>3, <1>4, ClientKeeps

\* The user trusts the server or refuses.
LEMMA PromptSteps ==
    ASSUME ExchangeInv, Trust \/ Refuse
    PROVE  ExchangeInv'
  <1>1. /\ ExchangeTyped /\ UNCHANGED <<srv, entry, sends, held, s2c, offers, gaveUp, dials>>
        /\ pinned' \in BOOLEAN
    BY DEF ExchangeInv, ExchangeTyped, Trust, Refuse
  <1>2. PICK ph \in {"idle", "ended"} : ClientSends("Disconnect", cli.key, [cli EXCEPT !.phase = ph])
    BY DEF Trust, Refuse
  <1> PICK c : c = [cli EXCEPT !.phase = ph]
    OBVIOUS
  <1>3. c \in ClientTasks /\ c.phase \in {"idle", "ended"} /\ c.offer = cli.offer /\ cli.key \in Keys
    BY <1>1 DEF ExchangeTyped, ClientTasks, CliPhases
  <1>4. "Disconnect" \in Codes /\ "Disconnect" # "Reply"
    BY DEF Codes
  <1>5. /\ c2s' \in PacketSeq
        /\ \E p \in Packet : c2s' = Append(c2s, p) /\ p.code # "Reply"
        /\ cli' \in ClientTasks /\ cli'.phase = c.phase /\ cli'.offer = c.offer
    BY <1>1, <1>2, <1>3, <1>4, ClientWrites
  <1>6. ExchangeTyped'
    BY <1>1, <1>5 DEF ExchangeTyped
  <1>. QED
    BY <1>1, <1>3, <1>5, <1>6, ClientKeeps

\* The client answers a question of the login.
LEMMA AnswerStep ==
    ASSUME ExchangeInv, Answer
    PROVE  ExchangeInv'
  <1>1. /\ ExchangeTyped /\ UNCHANGED <<srv, entry, sends, held, offers, gaveUp, pinned, dials>>
        /\ s2c # <<>> /\ s2c' = Tail(s2c) /\ cli.phase = "open"
        /\ Arrived.code \in {"KeepAlive", "Version"} /\ ClientSends(Arrived.code, cli.shared, Heard)
    BY DEF ExchangeInv, Answer, Acceptable
  <1>2. /\ Tail(s2c) \in PacketSeq
        /\ Heard \in ClientTasks /\ Heard.phase = cli.phase /\ Heard.key = cli.key /\ Heard.offer = cli.offer
    BY <1>1, ArrivedFacts
  <1>3. Arrived.code \in Codes /\ Arrived.code # "Reply" /\ cli.shared \in Keys
    BY <1>1 DEF Codes, ExchangeTyped, ClientTasks
  <1>4. /\ c2s' \in PacketSeq
        /\ \E p \in Packet : c2s' = Append(c2s, p) /\ p.code # "Reply"
        /\ cli' \in ClientTasks /\ cli'.phase = "open" /\ cli'.offer = cli.offer /\ cli'.key = cli.key
    BY <1>1, <1>2, <1>3, ClientWrites
  <1>5. ExchangeTyped'
    BY <1>1, <1>2, <1>4 DEF ExchangeTyped
  <1>6. cli.key = cli.offer
    BY <1>1 DEF ExchangeInv, KInv, OffersCounted
  <1>. QED
    BY <1>1, <1>4, <1>5, <1>6, ClientKeeps

\* The client takes a packet of its session.
LEMMA TakeStep ==
    ASSUME ExchangeInv, Take
    PROVE  ExchangeInv'
  <1>1. /\ ExchangeTyped /\ UNCHANGED <<srv, entry, sends, held, c2s, offers, gaveUp, pinned, dials>>
        /\ s2c # <<>> /\ s2c' = Tail(s2c) /\ cli.phase = "open"
    BY DEF ExchangeInv, Take, Acceptable
  <1>2. /\ Tail(s2c) \in PacketSeq /\ Arrived = s2c[1]
        /\ Heard \in ClientTasks /\ Heard.phase = cli.phase /\ Heard.key = cli.key /\ Heard.offer = cli.offer
    BY <1>1, ArrivedFacts
  <1> PICK h : h = Heard
    OBVIOUS
  <1>3. \/ cli' = [h EXCEPT !.phase = "rekeying"] /\ Arrived.code = "Rekey"
        \/ cli' = [h EXCEPT !.phase = "ended"]
        \/ cli' = [h EXCEPT !.login = "asked"]
        \/ cli' = [h EXCEPT !.login = "in"]
        \/ cli' = h
    BY DEF Take
  <1>4. /\ cli' \in ClientTasks /\ cli'.phase \in {"open", "ended", "rekeying"}
        /\ cli'.phase = "rekeying" => Arrived.code = "Rekey"
        /\ cli'.key = cli.key /\ cli'.offer = cli.offer
    BY <1>1, <1>2, <1>3 DEF ClientTasks, CliPhases
  <1>5. ExchangeTyped'
    BY <1>1, <1>2, <1>4 DEF ExchangeTyped
  <1>6. cli.key = cli.offer
    BY <1>1 DEF ExchangeInv, KInv, OffersCounted
  <1>. QED
    BY <1>1, <1>2, <1>4, <1>5, <1>6, ClientKeeps

\* The interface's tasks write, and change nothing of the exchange.
LEMMA InterfaceSteps ==
    ASSUME ExchangeInv, LogIn \/ Type \/ RequestUpload
    PROVE  ExchangeInv'
  <1>1. /\ ExchangeTyped /\ UNCHANGED <<srv, entry, sends, s2c, offers, gaveUp, pinned, dials>>
        /\ held' \subseteq Keys
    BY DEF ExchangeInv, ExchangeTyped, LogIn, Type, RequestUpload
  <1>2. cli \in ClientTasks /\ cli.shared \in Keys /\ held \subseteq Keys
    BY <1>1 DEF ExchangeTyped, ClientTasks
  <1>3. /\ c2s' \in PacketSeq
        /\ \E p \in Packet : c2s' = Append(c2s, p) /\ p.code # "Reply"
        /\ cli' \in ClientTasks /\ cli'.phase = cli.phase /\ cli'.offer = cli.offer /\ cli'.key = cli.key
    <2>1. \A code \in {"Credentials", "Message", "Disconnect"} : code \in Codes /\ code # "Reply"
      BY DEF Codes
    <2>2. CASE LogIn
      <3> PICK c : c = [cli EXCEPT !.login = "sent"]
        OBVIOUS
      <3>1. c \in ClientTasks /\ c.phase = cli.phase /\ c.offer = cli.offer /\ c.key = cli.key
        BY <1>2 DEF ClientTasks
      <3>2. ClientSends("Credentials", cli.shared, c)
        BY <2>2 DEF LogIn
      <3>. QED
        BY <1>1, <1>2, <2>1, <3>1, <3>2, ClientWrites
    <2>3. CASE Type
      <3>1. PICK code \in {"Message", "Disconnect"} : ClientSends(code, cli.shared, cli)
        BY <2>3 DEF Type
      <3>. QED
        BY <1>1, <1>2, <2>1, <3>1, ClientWrites
    <2>4. CASE RequestUpload
      <3>1. PICK key \in held : ClientSends("Message", key, cli)
        BY <2>4 DEF RequestUpload
      <3>. QED
        BY <1>1, <1>2, <2>1, <3>1, ClientWrites
    <2>. QED
      BY <2>2, <2>3, <2>4
  <1>4. ExchangeTyped'
    BY <1>1, <1>3 DEF ExchangeTyped
  <1>5. cli.phase \in {"prompt", "open", "rekeying"} => cli.key = cli.offer
    BY DEF ExchangeInv, KInv, OffersCounted
  <1>. QED
    BY <1>1, <1>3, <1>4, <1>5, ClientKeeps

\* Nothing of the exchange's own changes.
LEMMA StillSteps ==
    ASSUME ExchangeInv, PrepareUpload \/ UNCHANGED vars
    PROVE  ExchangeInv'
  <1>1. /\ ExchangeTyped /\ UNCHANGED <<srv, entry, sends, cli, s2c, c2s, offers, gaveUp, pinned, dials>>
        /\ held' \subseteq Keys
    BY DEF ExchangeInv, ExchangeTyped, PrepareUpload, vars, ClientTasks
  <1>2. ExchangeTyped'
    BY <1>1 DEF ExchangeTyped
  <1>3. cli.phase \in {"prompt", "open", "rekeying"} => cli.key = cli.offer
    BY DEF ExchangeInv, KInv, OffersCounted
  <1>. QED
    BY <1>1, <1>2, <1>3, ClientKeeps

\* The invariant holds before the client dials.
LEMMA ExchangeStarts == Init => ExchangeInv
  <1>. SUFFICES ASSUME Init PROVE ExchangeInv
    OBVIOUS
  <1>1. srv \in ServerTasks /\ srv.phase = "none" /\ srv.key = Obfuscated
    BY Constants DEF Init, ServerTasks, SrvPhases
  <1>2. entry \in Entries /\ entry.key = Obfuscated
    BY Constants DEF Init, Entries
  <1>3. cli \in ClientTasks /\ cli.phase = "idle" /\ cli.offer = 0
    BY Constants DEF Init, ClientTasks, CliPhases
  <1>4. s2c \in PacketSeq /\ c2s \in PacketSeq /\ DOMAIN s2c = {} /\ DOMAIN c2s = {}
    BY DEF Init, PacketSeq
  <1>5. sends = {} /\ held = {} /\ offers = 0 /\ gaveUp = {} /\ pinned \in BOOLEAN /\ dials = 0
    BY DEF Init
  <1>6. ExchangeTyped
    BY <1>1, <1>2, <1>3, <1>4, <1>5, BoundsAssumption DEF ExchangeTyped
  <1>7. UsedKeys \subseteq {0}
    BY <1>1, <1>2, <1>4, <1>5 DEF UsedKeys, Obfuscated
  <1>8. ~Busy
    BY <1>1 DEF Busy
  <1>9. KeysSettled
    BY <1>5, <1>7, <1>8 DEF KeysSettled
  <1>10. OffersCounted
    BY <1>3, <1>4, <1>5 DEF OffersCounted
  <1>11. OneReply /\ OffersOpen /\ FollowsOffer /\ OfferNext
    BY <1>3, <1>4, <1>5 DEF OneReply, OffersOpen, FollowsOffer, OfferNext
  <1>. QED
    BY <1>6, <1>9, <1>10, <1>11 DEF ExchangeInv, KInv

\* Every step of either end keeps the invariant.
LEMMA ExchangeGoesOn == ExchangeInv /\ [Next]_vars => ExchangeInv'
  <1>. SUFFICES ASSUME ExchangeInv, [Next]_vars PROVE ExchangeInv'
    OBVIOUS
  <1>1. CASE ServerNext
    BY <1>1, WaitsEnd, StrayStep, FirstReplyStep, ReplyStep, VersionStep, CredentialsStep, AcceptStep,
       ReadStep, RekeyStep, EndSteps, TaskSteps, WriteStep DEF ServerNext
  <1>2. CASE ClientNext
    BY <1>2, DialStep, DropStep, OfferStep, DeriveStep, PromptSteps, AnswerStep, TakeStep,
       InterfaceSteps, StillSteps DEF ClientNext
  <1>3. CASE UNCHANGED vars
    BY <1>3, StillSteps
  <1>. QED
    BY <1>1, <1>2, <1>3 DEF Next

\* KeyExchange, any number of dials, offers and strays: every variable has its type.
THEOREM ExchangeTypes == Spec => []TypeOK
  <1>1. ExchangeInv => TypeOK
    BY DEF ExchangeInv, ExchangeTyped, TypeOK, ServerTasks, Entries, SendTasks, ClientTasks, PacketSeq
  <1>. QED
    BY <1>1, ExchangeStarts, ExchangeGoesOn, PTL DEF Spec

\* KeyExchange, any number of dials, offers and strays: the session's loop and the
\* client's run under the same keys, unless handshake::rekey had given up the
\* exchange that the client completed.
THEOREM LoopsAgree == Spec => []Agreed
  <1>1. ExchangeInv => Agreed
    <2>. SUFFICES ASSUME ExchangeInv, srv.phase = "session", cli.phase = "open", cli.key # srv.key
                  PROVE  cli.key \in gaveUp
      BY DEF Agreed
    <2>1. OffersCounted /\ FollowsOffer
      BY DEF ExchangeInv, KInv
    <2>2. Live /\ ~Busy
      BY DEF Live, Busy
    <2>. QED
      BY <2>1, <2>2 DEF OffersCounted, FollowsOffer
  <1>. QED
    BY <1>1, ExchangeStarts, ExchangeGoesOn, PTL DEF Spec

\* KeyExchange, any number of dials, offers and strays: the client's wait for an
\* offer in key_exchange passes over no packet of the server.
THEOREM OfferFollows == Spec => NothingPassedOver
  <1>1. ExchangeInv => [cli.phase = "rekeying" /\ s2c # <<>> /\ s2c' = Tail(s2c) => Arrived.code = "Offer"]_vars
    <2>. SUFFICES ASSUME ExchangeInv, cli.phase = "rekeying", s2c # <<>>
                  PROVE  Arrived.code = "Offer"
      OBVIOUS
    <2>1. Arrived = s2c[1]
      BY ArrivedFacts DEF ExchangeInv
    <2>. QED
      BY <2>1 DEF ExchangeInv, KInv, OfferNext
  <1>. QED
    BY <1>1, ExchangeStarts, ExchangeGoesOn, PTL DEF Spec, NothingPassedOver

-----------------------------------------------------------------------------
(* KeyExchange: the numbers of the packets.                                *)

\* What the client has written rises to the number n it is at, above the last one
\* that the server has read.
Climbing(last, q, n) ==
    /\ last <= n
    /\ \A i \in DOMAIN q : last < q[i].seq /\ q[i].seq <= n
    /\ \A i, j \in DOMAIN q : i < j => q[i].seq < q[j].seq

\* What the server has written is not numbered, and then rises to the number n
\* that the entry is at, above the last one that the client has read.
Numbered(last, q, n) ==
    /\ last <= n
    /\ \A i \in DOMAIN q : q[i].seq <= n /\ (last = 0 \/ last < q[i].seq)
    /\ \A i, j \in DOMAIN q : i < j => q[i].seq = 0 \/ q[i].seq < q[j].seq

\* The login is not over.
Early == srv.phase \in {"greet", "version", "login"}

SeqInv ==
    entry.here => /\ Climbing(entry.seq, c2s, cli.seq)
                  /\ Numbered(cli.heard, s2c, entry.out)
                  /\ ~entry.auth => entry.out = 0
                  /\ Early => ~entry.auth

\* The counters and the numbers on the two streams are natural numbers.
LEMMA SeqTyped ==
    ASSUME ExchangeTyped
    PROVE  /\ s2c \in PacketSeq /\ c2s \in PacketSeq
           /\ entry.seq \in Nat /\ entry.out \in Nat /\ cli.seq \in Nat /\ cli.heard \in Nat
           /\ \A i \in DOMAIN s2c : s2c[i].seq \in Nat
           /\ \A i \in DOMAIN c2s : c2s[i].seq \in Nat
  <1>1. /\ s2c \in PacketSeq /\ c2s \in PacketSeq
        /\ entry.seq \in Nat /\ entry.out \in Nat /\ cli.seq \in Nat /\ cli.heard \in Nat
    BY DEF ExchangeTyped, Entries, ClientTasks
  <1>2. (\A i \in DOMAIN s2c : s2c[i] \in Packet) /\ \A i \in DOMAIN c2s : c2s[i] \in Packet
    BY <1>1 DEF PacketSeq
  <1>. QED
    BY <1>1, <1>2, PacketFields

\* The first packet of the client is read.
LEMMA ClimbingTail ==
    ASSUME NEW q \in PacketSeq, NEW last \in Nat, NEW n \in Nat, q # <<>>, Climbing(last, q, n)
    PROVE  Climbing(Head(q).seq, Tail(q), n) /\ Climbing(last, Tail(q), n)
  <1>1. /\ Head(q) = q[1] /\ 1 \in DOMAIN q /\ Head(q) \in Packet
        /\ \A i \in DOMAIN Tail(q) : i \in Nat /\ i + 1 \in DOMAIN q /\ Tail(q)[i] = q[i + 1] /\ 1 < i + 1
        /\ \A i, j \in DOMAIN Tail(q) : i < j => i + 1 < j + 1
    BY PacketTails
  <1>2. PICK h, t : h = Head(q) /\ t = Tail(q)
    OBVIOUS
  <1>3. /\ h = q[1] /\ 1 \in DOMAIN q
        /\ \A i \in DOMAIN t : i + 1 \in DOMAIN q /\ t[i] = q[i + 1] /\ 1 < i + 1
        /\ \A i, j \in DOMAIN t : i < j => i + 1 < j + 1
    BY <1>1, <1>2
  <1>4. Climbing(h.seq, t, n) /\ Climbing(last, t, n)
    BY <1>3 DEF Climbing
  <1>. QED
    BY <1>2, <1>4

\* The client numbers a packet with its counter, which it has advanced.
LEMMA ClimbingAdds ==
    ASSUME NEW q \in PacketSeq, NEW last \in Nat, NEW n \in Nat, NEW p \in Packet, NEW r,
           r = Append(q, p), p.seq = n + 1, Climbing(last, q, n),
           \A i \in DOMAIN q : q[i].seq \in Nat
    PROVE  Climbing(last, r, n + 1)
  <1>1. /\ \A i \in DOMAIN r : (i \in DOMAIN q /\ r[i] = q[i]) \/ (i = Len(q) + 1 /\ r[i] = p)
        /\ Len(q) \in Nat /\ DOMAIN q = 1 .. Len(q)
    BY PacketAdded
  <1>2. \A i \in DOMAIN q : i < Len(q) + 1 /\ ~(Len(q) + 1 < i)
    BY <1>1
  <1>3. \A i, j \in DOMAIN r : i < j => i \in DOMAIN q /\ r[i] = q[i]
    BY <1>1, <1>2
  <1>. QED
    BY <1>1, <1>3 DEF Climbing

\* The first packet of the server is read.
LEMMA NumberedTail ==
    ASSUME NEW q \in PacketSeq, NEW last \in Nat, NEW n \in Nat, q # <<>>, Numbered(last, q, n)
    PROVE  Numbered(Head(q).seq, Tail(q), n)
  <1>1. /\ Head(q) = q[1] /\ 1 \in DOMAIN q
        /\ \A i \in DOMAIN Tail(q) : i \in Nat /\ i + 1 \in DOMAIN q /\ Tail(q)[i] = q[i + 1] /\ 1 < i + 1
        /\ \A i, j \in DOMAIN Tail(q) : i < j => i + 1 < j + 1
    BY PacketTails
  <1>2. PICK h, t : h = Head(q) /\ t = Tail(q)
    OBVIOUS
  <1>3. /\ h = q[1] /\ 1 \in DOMAIN q
        /\ \A i \in DOMAIN t : i + 1 \in DOMAIN q /\ t[i] = q[i + 1] /\ 1 < i + 1
        /\ \A i, j \in DOMAIN t : i < j => i + 1 < j + 1
    BY <1>1, <1>2
  <1>4. Numbered(h.seq, t, n)
    BY <1>3 DEF Numbered
  <1>. QED
    BY <1>2, <1>4

\* The server writes a packet with the next number, or with none before the login.
LEMMA NumberedAdds ==
    ASSUME NEW q \in PacketSeq, NEW last \in Nat, NEW n \in Nat, NEW m \in Nat, NEW p \in Packet, NEW r,
           r = Append(q, p), p.seq = m, m = n + 1 \/ (m = 0 /\ n = 0), Numbered(last, q, n),
           \A i \in DOMAIN q : q[i].seq \in Nat
    PROVE  Numbered(last, r, m) /\ r \in PacketSeq /\ \A i \in DOMAIN r : r[i].seq \in Nat
  <1>0. r \in PacketSeq
    BY PacketAdded
  <1>1. /\ \A i \in DOMAIN r : (i \in DOMAIN q /\ r[i] = q[i]) \/ (i = Len(q) + 1 /\ r[i] = p)
        /\ Len(q) \in Nat /\ DOMAIN q = 1 .. Len(q)
    BY PacketAdded
  <1>2. \A i \in DOMAIN q : i < Len(q) + 1 /\ ~(Len(q) + 1 < i)
    BY <1>1
  <1>3. \A i, j \in DOMAIN r : i < j => i \in DOMAIN q /\ r[i] = q[i]
    BY <1>1, <1>2
  <1>4. /\ last <= n /\ \A i \in DOMAIN q : q[i].seq <= n /\ (last = 0 \/ last < q[i].seq)
        /\ \A i, j \in DOMAIN q : i < j => q[i].seq = 0 \/ q[i].seq < q[j].seq
    BY DEF Numbered
  <1>5. last <= m /\ \A i \in DOMAIN r : r[i].seq <= m /\ (last = 0 \/ last < r[i].seq) /\ r[i].seq \in Nat
    BY <1>1, <1>4
  <1>6. ASSUME NEW i \in DOMAIN r, NEW j \in DOMAIN r, i < j
        PROVE  r[i].seq = 0 \/ r[i].seq < r[j].seq
    <2>1. i \in DOMAIN q /\ r[i] = q[i]
      BY <1>3, <1>6
    <2>2. CASE j \in DOMAIN q /\ r[j] = q[j]
      BY <1>4, <1>6, <2>1, <2>2
    <2>3. CASE r[j] = p
      BY <1>4, <2>1, <2>3
    <2>. QED
      BY <1>1, <2>2, <2>3
  <1>. QED
    BY <1>0, <1>5, <1>6 DEF Numbered

\* An entry that is still there has the numbers of e.
EntryFrom(e) ==
    entry'.here => e.here /\ entry'.auth = e.auth /\ entry'.seq = e.seq /\ entry'.out = e.out

\* Handling a packet of the session leaves the counters of the entry alone.
LEMMA HandleFrom ==
    ASSUME NEW p, NEW e \in Entries, NEW key, Handle(p, e, key)
    PROVE  EntryFrom(e) /\ ~Early'
  <1>1. srv'.phase \in {"ended", "session"}
    BY DEF Handle
  <1>2. CASE Remove(e, TRUE)
    BY <1>1, <1>2 DEF Remove, EntryFrom, Entries, Early
  <1>3. CASE entry' = [e EXCEPT !.alive = @ \/ p.code = "KeepAlive"]
    BY <1>1, <1>3 DEF EntryFrom, Entries, Early
  <1>. QED
    BY <1>2, <1>3 DEF Handle

\* A removed entry is gone.
LEMMA RemoveFrom ==
    ASSUME NEW e \in Entries, NEW grace, Remove(e, grace)
    PROVE  EntryFrom(entry) /\ ~entry'.here
  BY DEF Remove, EntryFrom, Entries

\* Giving an exchange up leaves the counters of the entry alone.
LEMMA GiveUpFrom ==
    ASSUME ExchangeTyped, NEW e \in Entries, GiveUp(e)
    PROVE  EntryFrom(e) /\ ~Early'
  <1>1. CASE Handle(srv.hand, e, srv.key)
    BY <1>1, HandleFrom
  <1>2. CASE Remove(e, srv.phase = "version") /\ Ended
    BY <1>2, EndedFacts DEF Remove, EntryFrom, Entries, Early
  <1>. QED
    BY <1>1, <1>2 DEF GiveUp

\* The server may have read a packet, and may have written one before the login is over.
LEMMA ServerReadsSeq ==
    ASSUME ExchangeTyped, SeqInv, NEW e, EntryFrom(e), Early' => Early, cli' = cli,
           \/ e = entry /\ c2s' = c2s
           \/ e \in {entry, Counted} /\ c2s # <<>> /\ c2s' = Tail(c2s),
           \/ s2c' = s2c
           \/ Early /\ \E p \in Packet : p.seq = 0 /\ s2c' = Append(s2c, p)
    PROVE  SeqInv'
  <1>0. /\ s2c \in PacketSeq /\ c2s \in PacketSeq
        /\ entry.seq \in Nat /\ entry.out \in Nat /\ cli.seq \in Nat /\ cli.heard \in Nat
        /\ \A i \in DOMAIN s2c : s2c[i].seq \in Nat
    BY SeqTyped
  <1>. SUFFICES ASSUME entry'.here
                PROVE  /\ Climbing(entry'.seq, c2s', cli'.seq) /\ Numbered(cli'.heard, s2c', entry'.out)
                       /\ ~entry'.auth => entry'.out = 0
                       /\ Early' => ~entry'.auth
    BY DEF SeqInv
  <1>1. e.here /\ entry'.auth = e.auth /\ entry'.seq = e.seq /\ entry'.out = e.out
    BY DEF EntryFrom
  <1>2. e \in {entry, Counted} /\ entry \in Entries
    BY DEF ExchangeTyped
  <1>3. /\ Counted.here = entry.here /\ Counted.auth = entry.auth /\ Counted.out = entry.out
        /\ Counted.seq = Incoming.seq
    BY <1>2 DEF Counted, Entries
  <1>4. entry.here /\ entry'.auth = entry.auth /\ entry'.out = entry.out
    BY <1>1, <1>2, <1>3
  <1>5. /\ Climbing(entry.seq, c2s, cli.seq) /\ Numbered(cli.heard, s2c, entry.out)
        /\ ~entry.auth => entry.out = 0
        /\ Early => ~entry.auth
    BY <1>4 DEF SeqInv
  <1>6. Climbing(entry'.seq, c2s', cli.seq)
    <2>1. CASE e = entry /\ c2s' = c2s
      BY <1>1, <1>5, <2>1
    <2>2. CASE c2s # <<>> /\ c2s' = Tail(c2s)
      <3>1. Climbing(Head(c2s).seq, Tail(c2s), cli.seq) /\ Climbing(entry.seq, Tail(c2s), cli.seq)
        BY <1>0, <1>5, <2>2, ClimbingTail
      <3>2. entry'.seq = entry.seq \/ entry'.seq = Head(c2s).seq
        BY <1>1, <1>2, <1>3 DEF Incoming
      <3>. QED
        BY <2>2, <3>1, <3>2
    <2>. QED
      BY <2>1, <2>2
  <1>7. Numbered(cli.heard, s2c', entry.out)
    <2>1. CASE s2c' = s2c
      BY <1>5, <2>1
    <2>2. ASSUME Early, NEW p \in Packet, p.seq = 0, s2c' = Append(s2c, p)
          PROVE  Numbered(cli.heard, s2c', entry.out)
      <3>1. entry.out = 0 /\ 0 \in Nat
        BY <1>5, <2>2
      <3>. QED
        BY <1>0, <1>5, <2>2, <3>1, NumberedAdds
    <2>. QED
      BY <2>1, <2>2
  <1>. QED
    BY <1>4, <1>5, <1>6, <1>7

\* A packet is written to an entry: numbered, or unnumbered before the login.
LEMMA WritesSeq ==
    ASSUME NEW e \in Entries, NEW h \in Nat, NEW q \in PacketSeq, NEW p \in Packet, NEW r,
           e.here, Numbered(h, q, e.out), ~e.auth => e.out = 0, \A i \in DOMAIN q : q[i].seq \in Nat,
           p.seq = ServerSeq(e, 1), r = Append(q, p)
    PROVE  /\ Numbered(h, r, Outgoing(e, 1).out) /\ r \in PacketSeq /\ \A i \in DOMAIN r : r[i].seq \in Nat
           /\ Outgoing(e, 1).out = ServerSeq(e, 1)
  <1>1. e.out \in Nat
    BY DEF Entries
  <1>2. /\ ServerSeq(e, 1) = IF e.auth THEN e.out + 1 ELSE 0
        /\ Outgoing(e, 1).out = IF e.auth THEN e.out + 1 ELSE e.out
    BY DEF ServerSeq, Outgoing, Entries
  <1>3. PICK m : m = ServerSeq(e, 1)
    OBVIOUS
  <1>4. m \in Nat /\ (m = e.out + 1 \/ (m = 0 /\ e.out = 0)) /\ Outgoing(e, 1).out = m
    BY <1>1, <1>2, <1>3
  <1>5. Numbered(h, r, m) /\ r \in PacketSeq /\ \A i \in DOMAIN r : r[i].seq \in Nat
    <2>1. p.seq = m
      BY <1>3
    <2>. QED
      BY ONLY q \in PacketSeq, p \in Packet, r = Append(q, p), h \in Nat, Numbered(h, q, e.out),
              \A i \in DOMAIN q : q[i].seq \in Nat, <1>1, <1>4, <2>1, NumberedAdds
  <1>. QED
    BY <1>3, <1>4, <1>5

\* SendAccept and the waiting sends write under the number that the entry gives them.
LEMMA WrittenSeq ==
    ASSUME ExchangeTyped, SeqInv, NEW code \in Codes, NEW key \in Keys, Early' => Early,
           s2c' = Append(s2c, packet(code, key, ServerSeq(entry, 1))), entry' = Outgoing(entry, 1),
           UNCHANGED <<cli, c2s>>
    PROVE  SeqInv'
  <1>0. /\ s2c \in PacketSeq /\ entry \in Entries /\ entry.seq \in Nat /\ cli.heard \in Nat
        /\ \A i \in DOMAIN s2c : s2c[i].seq \in Nat
    BY SeqTyped DEF ExchangeTyped
  <1>1. PICK p : p = packet(code, key, ServerSeq(entry, 1))
    OBVIOUS
  <1>2. p \in Packet /\ p.seq = ServerSeq(entry, 1)
    <2>1. ServerSeq(entry, 1) \in Nat
      BY <1>0, OutgoingFacts
    <2>2. p \in Packet
      BY <1>1, <2>1, PacketPlain
    <2>3. p.seq = ServerSeq(entry, 1)
      BY <1>1 DEF packet
    <2>. QED
      BY <2>2, <2>3
  <1>3. entry'.here = entry.here /\ entry'.auth = entry.auth /\ entry'.seq = entry.seq
    BY <1>0 DEF Outgoing, Entries
  <1>4. ~entry.auth => entry'.out = entry.out
    BY DEF Outgoing
  <1>5. ASSUME entry.here
        PROVE  /\ Climbing(entry.seq, c2s, cli.seq) /\ Numbered(cli.heard, s2c', entry'.out)
               /\ ~entry.auth => entry'.out = 0
               /\ Early' => ~entry.auth
    <2>1. /\ Climbing(entry.seq, c2s, cli.seq) /\ Numbered(cli.heard, s2c, entry.out)
          /\ ~entry.auth => entry.out = 0
          /\ Early => ~entry.auth
      BY <1>5 DEF SeqInv
    <2>2. s2c' = Append(s2c, p)
      BY <1>1
    <2>3. PICK r : r = s2c'
      OBVIOUS
    <2>4. r = Append(s2c, p)
      BY ONLY <2>2, <2>3
    <2>5. Numbered(cli.heard, r, Outgoing(entry, 1).out)
      BY ONLY <1>0, <1>2, <1>5, <2>1, <2>4, WritesSeq
    <2>. QED
      BY <1>4, <2>1, <2>3, <2>5
  <1>. QED
    BY <1>3, <1>5 DEF SeqInv

\* The two packets of a rekey take two numbers in a row.
LEMMA RekeySeq ==
    ASSUME ExchangeTyped, SeqInv, StartRekey
    PROVE  SeqInv'
  <1>0. /\ s2c \in PacketSeq /\ c2s \in PacketSeq /\ entry \in Entries /\ entry.seq \in Nat /\ entry.out \in Nat
        /\ cli.heard \in Nat /\ cli.seq \in Nat /\ c2s # <<>> /\ srv.key \in Keys /\ entry.here
        /\ \A i \in DOMAIN s2c : s2c[i].seq \in Nat
    BY SeqTyped DEF ExchangeTyped, StartRekey, Valid, ServerTasks
  <1>1. /\ Climbing(entry.seq, c2s, cli.seq) /\ Numbered(cli.heard, s2c, entry.out)
        /\ ~entry.auth => entry.out = 0
    BY <1>0 DEF SeqInv
  <1>2. PICK n : n = offers + 1
    OBVIOUS
  <1>3. n \in 0 .. MaxOffers
    BY <1>2, BoundsAssumption DEF ExchangeTyped, StartRekey
  <1>4. PICK a : a = packet("Rekey", srv.key, ServerSeq(entry, 1))
    OBVIOUS
  <1>5. PICK b : b = [packet("Offer", srv.key, ServerSeq(entry, 2)) EXCEPT !.offer = n]
    OBVIOUS
  <1>6. a \in Packet /\ b \in Packet /\ a.seq = ServerSeq(entry, 1) /\ b.seq = ServerSeq(entry, 2)
    <2>1. ServerSeq(entry, 1) \in Nat /\ ServerSeq(entry, 2) \in Nat /\ "Rekey" \in Codes /\ "Offer" \in Codes
      BY <1>0, OutgoingFacts DEF Codes
    <2>2. a \in Packet /\ b \in Packet
      BY <1>0, <1>3, <1>4, <1>5, <2>1, PacketMade
    <2>3. a.seq = ServerSeq(entry, 1) /\ b.seq = ServerSeq(entry, 2)
      BY <1>4, <1>5 DEF packet
    <2>. QED
      BY <2>2, <2>3
  <1>7. s2c' = s2c \o <<a, b>>
    BY <1>2, <1>4, <1>5 DEF StartRekey
  <1>8. s2c' = Append(Append(s2c, a), b)
    BY <1>0, <1>6, <1>7, PairIs
  <1>9. /\ Counted \in Entries /\ Counted.here = entry.here /\ Counted.auth = entry.auth
        /\ Counted.out = entry.out /\ Counted.seq = Head(c2s).seq
    BY <1>0, IncomingFacts DEF Counted, Entries, Incoming
  <1>10. /\ entry'.here = entry.here /\ entry'.auth = entry.auth /\ entry'.seq = Head(c2s).seq
         /\ entry'.out = IF entry.auth THEN entry.out + 2 ELSE entry.out
    BY <1>0, <1>9 DEF StartRekey, Outgoing, Entries
  <1>11. Climbing(entry'.seq, c2s', cli'.seq)
    BY <1>0, <1>1, <1>10, ClimbingTail DEF StartRekey
  <1>12. PICK q : q = Append(s2c, a)
    OBVIOUS
  <1>13. PICK r : r = Append(q, b)
    OBVIOUS
  <1>14. PICK m1, m2 : m1 = ServerSeq(entry, 1) /\ m2 = ServerSeq(entry, 2)
    OBVIOUS
  <1>15. /\ m1 \in Nat /\ m2 \in Nat /\ entry'.out = m2
         /\ m1 = entry.out + 1 \/ (m1 = 0 /\ entry.out = 0)
         /\ m2 = m1 + 1 \/ (m2 = 0 /\ m1 = 0)
    <2>1. /\ m1 = IF entry.auth THEN entry.out + 1 ELSE 0
          /\ m2 = IF entry.auth THEN entry.out + 2 ELSE 0
      BY <1>0, <1>14 DEF ServerSeq
    <2>. QED
      BY ONLY <1>0, <1>1, <1>10, <2>1
  <1>16. Numbered(cli.heard, q, m1) /\ q \in PacketSeq /\ \A i \in DOMAIN q : q[i].seq \in Nat
    <2>1. a.seq = m1
      BY <1>6, <1>14
    <2>. QED
      BY ONLY <1>0, <1>1, <1>6, <1>12, <1>15, <2>1, NumberedAdds
  <1>17. Numbered(cli.heard, r, m2)
    <2>1. b.seq = m2
      BY <1>6, <1>14
    <2>. QED
      BY ONLY <1>0, <1>6, <1>13, <1>15, <1>16, <2>1, NumberedAdds
  <1>18. s2c' = r
    BY <1>8, <1>12, <1>13
  <1>19. ~Early' /\ cli' = cli
    BY DEF StartRekey, Early, ExchangeTyped, ServerTasks
  <1>. QED
    BY <1>1, <1>10, <1>11, <1>15, <1>17, <1>18, <1>19 DEF SeqInv

\* The client may have read a packet, and may have written one.
LEMMA ClientSeq ==
    ASSUME ExchangeTyped, SeqInv, UNCHANGED <<srv, entry>>,
           \/ s2c' = s2c /\ cli'.heard = cli.heard
           \/ s2c # <<>> /\ s2c' = Tail(s2c) /\ cli'.heard = Arrived.seq,
           \/ c2s' = c2s /\ cli'.seq = cli.seq
           \/ cli'.seq = cli.seq + 1 /\ \E p \in Packet : p.seq = cli.seq + 1 /\ c2s' = Append(c2s, p)
    PROVE  SeqInv'
  <1>0. /\ s2c \in PacketSeq /\ c2s \in PacketSeq
        /\ entry.seq \in Nat /\ entry.out \in Nat /\ cli.seq \in Nat /\ cli.heard \in Nat
        /\ \A i \in DOMAIN c2s : c2s[i].seq \in Nat
    BY SeqTyped
  <1>. SUFFICES ASSUME entry.here
                PROVE  /\ Climbing(entry.seq, c2s', cli'.seq) /\ Numbered(cli'.heard, s2c', entry.out)
                       /\ ~entry.auth => entry.out = 0
                       /\ Early => ~entry.auth
    BY DEF SeqInv, Early
  <1>1. /\ Climbing(entry.seq, c2s, cli.seq) /\ Numbered(cli.heard, s2c, entry.out)
        /\ ~entry.auth => entry.out = 0
        /\ Early => ~entry.auth
    BY DEF SeqInv
  <1>2. Climbing(entry.seq, c2s', cli'.seq)
    <2>1. CASE c2s' = c2s /\ cli'.seq = cli.seq
      BY <1>1, <2>1
    <2>2. ASSUME NEW p \in Packet, cli'.seq = cli.seq + 1, p.seq = cli.seq + 1, c2s' = Append(c2s, p)
          PROVE  Climbing(entry.seq, c2s', cli'.seq)
      <3>1. Climbing(entry.seq, c2s', cli.seq + 1)
        BY <1>0, <1>1, <2>2, ClimbingAdds
      <3>. QED
        BY <2>2, <3>1
    <2>. QED
      BY <2>1, <2>2
  <1>3. Numbered(cli'.heard, s2c', entry.out)
    <2>1. CASE s2c' = s2c /\ cli'.heard = cli.heard
      BY <1>1, <2>1
    <2>2. CASE s2c # <<>> /\ s2c' = Tail(s2c) /\ cli'.heard = Arrived.seq
      <3>1. Numbered(Head(s2c).seq, Tail(s2c), entry.out)
        BY <1>0, <1>1, <2>2, NumberedTail
      <3>. QED
        BY <2>2, <3>1 DEF Arrived
    <2>. QED
      BY <2>1, <2>2
  <1>. QED
    BY <1>1, <1>2, <1>3
\* The waits of untrusted_read, when they do not get what they wait for.
LEMMA WaitsSeq ==
    ASSUME ExchangeTyped, SeqInv, Timeout \/ ReadInvalid \/ ReadStray
    PROVE  SeqInv'
  <1>0. entry \in Entries
    BY DEF ExchangeTyped
  <1>1. CASE Timeout
    <2>1. EntryFrom(entry) /\ ~Early'
      BY <1>0, <1>1, GiveUpFrom DEF Timeout
    <2>. QED
      BY <1>1, <2>1, ServerReadsSeq DEF Timeout
  <1>2. CASE ReadInvalid
    <2>1. EntryFrom(entry) /\ ~Early'
      <3>1. CASE GiveUp(entry)
        BY <1>0, <3>1, GiveUpFrom
      <3>2. CASE Remove(entry, FALSE) /\ Ended
        BY <1>0, <3>2, RemoveFrom, EndedFacts DEF Early
      <3>. QED
        BY <1>2, <3>1, <3>2 DEF ReadInvalid
    <2>. QED
      BY <1>2, <2>1, ServerReadsSeq DEF ReadInvalid
  <1>3. CASE ReadStray
    <2>0. Counted \in Entries /\ c2s # <<>>
      BY <1>3, IncomingFacts DEF ReadStray, Valid
    <2>1. EntryFrom(Counted) /\ (Early' => Early)
      <3>1. CASE GiveUp(Counted)
        BY <2>0, <3>1, GiveUpFrom
      <3>2. CASE srv' = [srv EXCEPT !.strays = @ + 1] /\ entry' = Counted
        BY <3>2 DEF EntryFrom, Early, ExchangeTyped, ServerTasks
      <3>. QED
        BY <1>3, <3>1, <3>2 DEF ReadStray
    <2>. QED
      BY <1>3, <2>0, <2>1, ServerReadsSeq DEF ReadStray
  <1>. QED
    BY <1>1, <1>2, <1>3

\* The server's packets before the login are not numbered.
LEMMA GreetingSeq ==
    ASSUME ExchangeTyped, SeqInv, ReadFirstReply \/ ReadVersion
    PROVE  SeqInv'
  <1>0. /\ Counted \in Entries /\ c2s # <<>> /\ c2s' = Tail(c2s) /\ Early /\ cli' = cli
        /\ srv.key \in Keys /\ Derived \in Keys
    BY IncomingFacts DEF ReadFirstReply, ReadVersion, Valid, Early, ExchangeTyped, ServerTasks
  <1>1. EntryFrom(Counted)
    BY <1>0 DEF ReadFirstReply, ReadVersion, EntryFrom, Entries
  <1>2. \E p \in Packet : p.seq = 0 /\ s2c' = Append(s2c, p)
    <2>1. PICK code \in Codes, key \in Keys : s2c' = Append(s2c, packet(code, key, 0))
      BY <1>0 DEF ReadFirstReply, ReadVersion, Codes
    <2>2. packet(code, key, 0) \in Packet
      BY PacketPlain
    <2>3. packet(code, key, 0).seq = 0
      BY DEF packet
    <2>. QED
      BY <2>1, <2>2, <2>3
  <1>. QED
    BY <1>0, <1>1, <1>2, ServerReadsSeq

\* The login begins the numbering, from the packets that are not numbered.
LEMMA CredentialsSeq ==
    ASSUME ExchangeTyped, SeqInv, ReadCredentials
    PROVE  SeqInv'
  <1>0. /\ c2s \in PacketSeq /\ entry \in Entries /\ entry.seq \in Nat /\ cli.seq \in Nat /\ c2s # <<>>
    BY SeqTyped DEF ExchangeTyped, ReadCredentials, Valid
  <1>1. ~Early' /\ Early
    BY DEF ReadCredentials, Early, ExchangeTyped, ServerTasks
  <1>2. CASE ~entry.here
    BY <1>2 DEF ReadCredentials, SeqInv
  <1>3. CASE entry.here
    <2>1. /\ Climbing(entry.seq, c2s, cli.seq) /\ Numbered(cli.heard, s2c, entry.out)
      BY <1>3 DEF SeqInv
    <2>2. Climbing(Head(c2s).seq, Tail(c2s), cli.seq)
      BY <1>0, <2>1, ClimbingTail
    <2>3. entry'.auth /\ entry'.seq = Head(c2s).seq /\ entry'.out = entry.out
      BY <1>0, <1>3 DEF ReadCredentials, Counted, Incoming, Entries
    <2>4. c2s' = Tail(c2s) /\ cli' = cli /\ s2c' = s2c
      BY DEF ReadCredentials
    <2>. QED
      BY <1>1, <2>1, <2>2, <2>3, <2>4 DEF SeqInv
  <1>. QED
    BY <1>2, <1>3

\* The reads of the session, and their ends.
LEMMA SessionSeq ==
    ASSUME ExchangeTyped, SeqInv, ReadReply \/ Read \/ Reject \/ ReadEnd
    PROVE  SeqInv'
  <1>0. entry \in Entries
    BY DEF ExchangeTyped
  <1>1. CASE ReadReply
    <2>0. Counted \in Entries /\ c2s # <<>> /\ Derived \in Keys
      BY <1>1, IncomingFacts DEF ReadReply, Valid
    <2>1. PICK e : e = [Counted EXCEPT !.key = Derived]
      OBVIOUS
    <2>2. /\ e \in Entries /\ e.here = Counted.here /\ e.auth = Counted.auth
          /\ e.seq = Counted.seq /\ e.out = Counted.out
      BY <2>0, <2>1 DEF Entries
    <2>3. EntryFrom(e) /\ ~Early'
      <3>1. Handle(srv.hand, e, Derived)
        BY <1>1, <2>1 DEF ReadReply
      <3>. QED
        BY <2>2, <3>1, HandleFrom
    <2>4. EntryFrom(Counted)
      BY <2>2, <2>3 DEF EntryFrom
    <2>. QED
      BY <1>1, <2>0, <2>3, <2>4, ServerReadsSeq DEF ReadReply
  <1>2. CASE Read
    <2>0. Counted \in Entries /\ c2s # <<>>
      BY <1>2, IncomingFacts DEF Read, Valid
    <2>1. CASE entry.here
      <3>1. EntryFrom(Counted) /\ ~Early'
        BY <1>2, <2>0, <2>1, HandleFrom DEF Read
      <3>. QED
        BY <1>2, <2>0, <3>1, ServerReadsSeq DEF Read
    <2>2. CASE ~entry.here
      BY <1>2, <2>2 DEF Read, SeqInv
    <2>. QED
      BY <2>1, <2>2
  <1>3. CASE Reject
    <2>1. EntryFrom(entry) /\ ~Early'
      <3>1. CASE Remove(entry, FALSE)
        BY <1>0, <1>3, <3>1, RemoveFrom, EndedFacts DEF Reject, Early
      <3>2. CASE UNCHANGED entry
        BY <1>3, <3>2, EndedFacts DEF Reject, Early, EntryFrom
      <3>. QED
        BY <1>3, <3>1, <3>2 DEF Reject
    <2>. QED
      BY <1>3, <2>1, ServerReadsSeq DEF Reject
  <1>4. CASE ReadEnd
    <2>1. ~entry'.here
      BY <1>0, <1>4, RemoveFrom DEF ReadEnd
    <2>. QED
      BY <2>1 DEF SeqInv
  <1>. QED
    BY <1>1, <1>2, <1>3, <1>4

\* What the other tasks do to the entry, short of writing.
LEMMA TasksSeq ==
    ASSUME ExchangeTyped, SeqInv, Broadcast \/ KeepAlive \/ BuryDead \/ Kick \/ Abort
    PROVE  SeqInv'
  <1>0. entry \in Entries
    BY DEF ExchangeTyped
  <1>1. CASE Broadcast \/ KeepAlive
    <2>1. EntryFrom(entry) /\ srv' = srv /\ cli' = cli /\ c2s' = c2s /\ s2c' = s2c
      BY <1>0, <1>1 DEF Broadcast, KeepAlive, EntryFrom, Entries
    <2>. QED
      BY <2>1, ServerReadsSeq DEF Early
  <1>2. CASE BuryDead \/ Kick
    <2>1. ~entry'.here
      BY <1>0, <1>2, RemoveFrom DEF BuryDead, Kick
    <2>. QED
      BY <2>1 DEF SeqInv
  <1>3. CASE Abort
    BY <1>3 DEF Abort, SeqInv
  <1>. QED
    BY <1>1, <1>2, <1>3

\* The two steps that write one packet.
LEMMA WriteSeq ==
    ASSUME ExchangeTyped, SeqInv, SendAccept \/ WriteSend
    PROVE  SeqInv'
  <1>1. CASE SendAccept
    <2>1. "Accept" \in Codes /\ srv.key \in Keys /\ ~Early'
      BY <1>1 DEF Codes, ExchangeTyped, ServerTasks, SendAccept, Early
    <2>. QED
      BY <1>1, <2>1, WrittenSeq DEF SendAccept
  <1>2. CASE WriteSend
    <2>1. PICK s \in sends : s2c' = Append(s2c, packet(s.code, s.key, ServerSeq(entry, 1)))
      BY <1>2 DEF WriteSend
    <2>2. s.code \in Codes /\ s.key \in Keys
      BY <2>1 DEF ExchangeTyped, SendTasks
    <2>3. entry' = Outgoing(entry, 1) /\ UNCHANGED <<cli, c2s>> /\ (Early' => Early)
      BY <1>2 DEF WriteSend, Early
    <2>. QED
      BY <2>1, <2>2, <2>3, WrittenSeq
  <1>. QED
    BY <1>1, <1>2

\* A new connection starts both counters anew.
LEMMA DialSeq ==
    ASSUME ExchangeTyped, SeqInv, Dial
    PROVE  SeqInv'
  <1>1. PICK p : p = [packet("Offer", Obfuscated, 0) EXCEPT !.offer = offers + 1]
    OBVIOUS
  <1>2. p.seq = 0
    BY <1>1 DEF packet
  <1>3. s2c' = <<p>> /\ c2s' = <<>>
    BY <1>1 DEF Dial
  <1>4. cli'.seq = 0 /\ cli'.heard = 0
    BY DEF Dial, ExchangeTyped, ClientTasks
  <1>5. entry'.seq = 0 /\ entry'.out = 0 /\ ~entry'.auth
    BY DEF Dial, NewEntry
  <1>6. Climbing(0, <<>>, 0)
    BY DEF Climbing
  <1>7. Numbered(0, <<p>>, 0)
    BY <1>2 DEF Numbered
  <1>. QED
    BY <1>3, <1>4, <1>5, <1>6, <1>7 DEF SeqInv

\* The client remembers the number it has read, and goes on counting its own.
LEMMA HeardIs ==
    ASSUME ExchangeTyped
    PROVE  Heard.heard = Arrived.seq /\ Heard.seq = cli.seq
  BY DEF Heard, ExchangeTyped, ClientTasks

\* send_tcp of the client writes under the next number.
LEMMA SentSeq ==
    ASSUME ExchangeTyped, NEW code \in Codes, NEW key \in Keys, NEW c,
           DOMAIN c = DOMAIN cli, ClientSends(code, key, c)
    PROVE  /\ cli'.seq = cli.seq + 1 /\ cli'.heard = c.heard
           /\ \E p \in Packet : p.seq = cli.seq + 1 /\ c2s' = Append(c2s, p)
  <1>1. cli.seq + 1 \in Nat
    BY SeqTyped
  <1>2. packet(code, key, cli.seq + 1) \in Packet
    BY <1>1, PacketPlain
  <1>3. packet(code, key, cli.seq + 1).seq = cli.seq + 1
    BY DEF packet
  <1>4. DOMAIN cli = {"phase", "key", "shared", "seq", "heard", "offer", "login"}
    BY DEF ExchangeTyped, ClientTasks
  <1>5. cli'.seq = cli.seq + 1 /\ cli'.heard = c.heard
    BY <1>4 DEF ClientSends
  <1>. QED
    BY <1>2, <1>3, <1>5 DEF ClientSends

\* The steps of the client that write nothing.
LEMMA ClientSteps ==
    ASSUME ExchangeTyped, SeqInv, Drop \/ Derive \/ Take \/ PrepareUpload
    PROVE  SeqInv'
  <1>0. cli \in ClientTasks
    BY DEF ExchangeTyped
  <1>1. UNCHANGED <<srv, entry, c2s>>
    BY DEF Drop, Derive, Take, PrepareUpload
  <1>2. CASE Drop \/ Derive \/ PrepareUpload
    <2>1. s2c' = s2c /\ cli'.heard = cli.heard /\ cli'.seq = cli.seq
      BY <1>0, <1>2 DEF Drop, Derive, PrepareUpload, ClientTasks
    <2>. QED
      BY <1>1, <2>1, ClientSeq
  <1>3. CASE Take
    <2>1. s2c # <<>> /\ s2c' = Tail(s2c)
      BY <1>3 DEF Take, Acceptable
    <2>2. cli'.heard = Heard.heard /\ cli'.seq = Heard.seq
      BY <1>0, <1>3 DEF Take, Heard, ClientTasks
    <2>. QED
      BY <1>1, <2>1, <2>2, HeardIs, ClientSeq
  <1>. QED
    BY <1>2, <1>3

\* The steps of the client that write.
LEMMA ClientWriteSteps ==
    ASSUME ExchangeTyped, SeqInv, Trust \/ Refuse \/ Answer \/ LogIn \/ Type \/ RequestUpload
    PROVE  SeqInv'
  <1>0. cli \in ClientTasks /\ cli.key \in Keys /\ cli.shared \in Keys
    BY DEF ExchangeTyped, ClientTasks
  <1>1. UNCHANGED <<srv, entry>>
    BY DEF Trust, Refuse, Answer, LogIn, Type, RequestUpload
  <1>2. {"Disconnect", "Credentials", "Message", "KeepAlive", "Version"} \subseteq Codes
    BY DEF Codes
  <1>3. CASE Answer
    <2>1. Arrived.code \in Codes /\ ClientSends(Arrived.code, cli.shared, Heard)
      BY <1>2, <1>3 DEF Answer
    <2>2. DOMAIN Heard = DOMAIN cli
      BY <1>0 DEF Heard, ClientTasks
    <2>3. /\ cli'.seq = cli.seq + 1 /\ cli'.heard = Heard.heard
          /\ \E p \in Packet : p.seq = cli.seq + 1 /\ c2s' = Append(c2s, p)
      BY <1>0, <2>1, <2>2, SentSeq
    <2>4. s2c # <<>> /\ s2c' = Tail(s2c)
      BY <1>3 DEF Answer, Acceptable
    <2>. QED
      BY <1>1, <2>3, <2>4, HeardIs, ClientSeq
  <1>4. CASE Trust \/ Refuse \/ LogIn \/ Type \/ RequestUpload
    <2>1. s2c' = s2c
      BY <1>4 DEF Trust, Refuse, LogIn, Type, RequestUpload
    <2>2. \E code \in Codes, key \in Keys, c \in ClientTasks :
            c.heard = cli.heard /\ DOMAIN c = DOMAIN cli /\ ClientSends(code, key, c)
      <3>1. \A ph \in CliPhases : LET c == [cli EXCEPT !.phase = ph] IN
              c \in ClientTasks /\ c.heard = cli.heard /\ DOMAIN c = DOMAIN cli
        BY <1>0 DEF ClientTasks
      <3>2. LET c == [cli EXCEPT !.login = "sent"] IN
              c \in ClientTasks /\ c.heard = cli.heard /\ DOMAIN c = DOMAIN cli
        BY <1>0 DEF ClientTasks
      <3>3. CASE Trust
        BY <1>0, <1>2, <3>1, <3>3 DEF Trust, CliPhases
      <3>4. CASE Refuse
        BY <1>0, <1>2, <3>1, <3>4 DEF Refuse, CliPhases
      <3>5. CASE LogIn
        BY <1>0, <1>2, <3>2, <3>5 DEF LogIn
      <3>6. CASE Type
        BY <1>0, <1>2, <3>6 DEF Type
      <3>7. CASE RequestUpload
        BY <1>0, <1>2, <3>7 DEF RequestUpload, ExchangeTyped
      <3>. QED
        BY <1>4, <3>3, <3>4, <3>5, <3>6, <3>7
    <2>3. PICK code \in Codes, key \in Keys, c \in ClientTasks :
            c.heard = cli.heard /\ DOMAIN c = DOMAIN cli /\ ClientSends(code, key, c)
      BY <2>2
    <2>4. /\ cli'.seq = cli.seq + 1 /\ cli'.heard = cli.heard
          /\ \E p \in Packet : p.seq = cli.seq + 1 /\ c2s' = Append(c2s, p)
      BY <2>3, SentSeq
    <2>. QED
      BY <1>1, <2>1, <2>4, ClientSeq
  <1>. QED
    BY <1>3, <1>4

\* The client's wait for an offer, and its reply.
LEMMA OfferSeq ==
    ASSUME ExchangeTyped, SeqInv, ReadOffer
    PROVE  SeqInv'
  <1>0. cli \in ClientTasks /\ UNCHANGED <<srv, entry>> /\ s2c # <<>> /\ s2c' = Tail(s2c)
    BY DEF ExchangeTyped, ReadOffer, Acceptable
  <1>1. CASE Arrived.code = "Offer"
    <2>1. PICK p : p = [packet("Reply", ReadKey, cli.seq + 1) EXCEPT !.offer = Arrived.offer]
      OBVIOUS
    <2>2. p \in Packet
      <3>1. cli.seq + 1 \in Nat /\ Arrived.offer \in 0 .. MaxOffers /\ ReadKey \in Keys /\ "Reply" \in Codes
        <4>1. cli.seq + 1 \in Nat
          BY SeqTyped
        <4>2. Arrived.offer \in 0 .. MaxOffers
          BY <1>0, ArrivedFacts, PacketFields
        <4>3. ReadKey \in Keys
          BY <1>0, Constants DEF ReadKey, ClientTasks
        <4>. QED
          BY <4>1, <4>2, <4>3 DEF Codes
      <3>. QED
        BY <2>1, <3>1, PacketMade
    <2>3. p.seq = cli.seq + 1
      BY <2>1 DEF packet
    <2>4. c2s' = Append(c2s, p)
      BY <1>1, <2>1 DEF ReadOffer
    <2>5. cli'.seq = cli.seq + 1 /\ cli'.heard = Arrived.seq
      BY <1>0, <1>1 DEF ReadOffer, Heard, ClientTasks
    <2>. QED
      BY <1>0, <2>2, <2>3, <2>4, <2>5, ClientSeq
  <1>2. CASE Arrived.code # "Offer"
    <2>1. cli' = Heard /\ c2s' = c2s
      BY <1>2 DEF ReadOffer
    <2>. QED
      BY <1>0, <2>1, HeardIs, ClientSeq
  <1>. QED
    BY <1>1, <1>2

\* Every step keeps the numbers in order.
LEMMA SeqGoesOn == ExchangeInv /\ SeqInv /\ [Next]_vars => SeqInv'
  <1>. SUFFICES ASSUME ExchangeTyped, SeqInv, [Next]_vars PROVE SeqInv'
    BY DEF ExchangeInv
  <1>1. CASE ServerNext
    BY <1>1, WaitsSeq, GreetingSeq, CredentialsSeq, SessionSeq, TasksSeq, WriteSeq, RekeySeq DEF ServerNext
  <1>2. CASE ClientNext
    BY <1>2, DialSeq, ClientSteps, ClientWriteSteps, OfferSeq DEF ClientNext
  <1>3. CASE UNCHANGED vars
    BY <1>3 DEF vars, SeqInv, Early
  <1>. QED
    BY <1>1, <1>2, <1>3 DEF Next

\* As long as the server holds the connection, neither side refuses the other's
\* next packet for its number: the counters of send_tcp and receive fit together
\* across logins, rekeys, redials and tasks that write at once.
THEOREM NumbersFit == Spec => []SeqAccepted
  <1>1. Init => SeqInv
    BY DEF Init, NewEntry, SeqInv
  <1>2. ExchangeInv /\ SeqInv => SeqAccepted
    <2>. SUFFICES ASSUME ExchangeInv, SeqInv, entry.here
                  PROVE  /\ c2s # <<>> => Incoming.seq > entry.seq
                         /\ s2c # <<>> => Rising
      BY DEF SeqAccepted
    <2>1. /\ s2c \in PacketSeq /\ c2s \in PacketSeq /\ entry.seq \in Nat /\ cli.heard \in Nat
          /\ \A i \in DOMAIN s2c : s2c[i].seq \in Nat
          /\ \A i \in DOMAIN c2s : c2s[i].seq \in Nat
      BY SeqTyped DEF ExchangeInv
    <2>2. Climbing(entry.seq, c2s, cli.seq) /\ Numbered(cli.heard, s2c, entry.out)
      BY DEF SeqInv
    <2>3. ASSUME c2s # <<>> PROVE Incoming.seq > entry.seq
      <3>1. Head(c2s) = c2s[1] /\ 1 \in DOMAIN c2s
        BY <2>1, <2>3, PacketTails
      <3>. QED
        BY <2>1, <2>2, <3>1 DEF Climbing, Incoming
    <2>4. ASSUME s2c # <<>> PROVE Rising
      <3>1. Head(s2c) = s2c[1] /\ 1 \in DOMAIN s2c
        BY <2>1, <2>4, PacketTails
      <3>. QED
        BY <2>1, <2>2, <3>1 DEF Numbered, Arrived, Rising
    <2>. QED
      BY <2>3, <2>4
  <1>. QED
    BY <1>1, <1>2, SeqGoesOn, ExchangeStarts, ExchangeGoesOn, PTL DEF Spec

-----------------------------------------------------------------------------
(* ScreenShare.                                                            *)

FrameSeq == Seq(Frame)

CaptureSteps == {"start", "probe", "poll", "record", "grab", "judge", "wait", "done"}

CaptureStates ==
    [at : CaptureSteps, loop : {"poll", "record"}, run : Nat, seen : Nat, forced : BOOLEAN,
     pinned : BOOLEAN, bounded : BOOLEAN, err : BOOLEAN]

Encoders == [fresh : BOOLEAN, key : BOOLEAN]

Viewers ==
    [open : BOOLEAN, running : BOOLEAN, awaiting : BOOLEAN, needs : BOOLEAN, whole : BOOLEAN]

Shares == [use : BOOLEAN, running : BOOLEAN, net : {"loop", "join", "done"}]

ShareTyped ==
    /\ share \in Shares /\ cap \in CaptureStates /\ enc \in Encoders /\ viewer \in Viewers
    /\ monitor \in Nat
    /\ queue \in FrameSeq /\ window \in FrameSeq
    /\ {force, draining, awaiting, gap, relay, torn} \subseteq BOOLEAN

\* The queue holds a keyframe.
KeyQueued == \E i \in DOMAIN queue : queue[i].key

\* What was asked for is on its way to the encoder.
ForcedIsTaken == cap.forced => cap.at = "grab" /\ (enc.key \/ enc.fresh)

\* Frames are missing only where the sending task waits for a keyframe.
GapIsKnown == gap => awaiting

\* What waits for the window can be decoded from its first frame on, unless the
\* window itself waits for a keyframe.
WindowFollows ==
    /\ \A i \in DOMAIN window : window[i].key \/ window[i].joins
    /\ window # <<>> => window[1].key \/ viewer.whole \/ viewer.awaiting
    /\ relay \/ ~viewer.running \/ window # <<>> \/ viewer.whole \/ viewer.awaiting

ShareInv ==
    /\ ShareTyped /\ ForcedIsTaken /\ GapIsKnown /\ WindowFollows
    /\ KeyframeIsComing /\ PictureIsWhole

-----------------------------------------------------------------------------

\* A frame is queued behind the others.
LEMMA FrameAppends ==
    ASSUME NEW q \in FrameSeq, NEW f \in Frame
    PROVE  /\ Append(q, f) \in FrameSeq
           /\ Append(q, f) # <<>>
           /\ DOMAIN Append(q, f) = DOMAIN q \cup {Len(q) + 1}
           /\ Append(q, f)[Len(q) + 1] = f
           /\ \A i \in DOMAIN q : Append(q, f)[i] = q[i]
           /\ q # <<>> => 1 \in DOMAIN q
           /\ q = <<>> => Len(q) = 0
  BY DEF FrameSeq

\* The oldest frame is taken.
LEMMA FrameTails ==
    ASSUME NEW q \in FrameSeq, q # <<>>
    PROVE  /\ Tail(q) \in FrameSeq
           /\ Head(q) \in Frame /\ Head(q) = q[1]
           /\ \A i \in DOMAIN q : i # 1 => i - 1 \in DOMAIN Tail(q) /\ Tail(q)[i - 1] = q[i]
  BY DEF FrameSeq

\* The server clears the flag of a frame whose predecessor it dropped.
LEMMA FrameFields ==
    ASSUME NEW f \in Frame, NEW b \in BOOLEAN
    PROVE  /\ f.key \in BOOLEAN /\ f.joins \in BOOLEAN
           /\ [f EXCEPT !.joins = b] \in Frame
           /\ [f EXCEPT !.joins = b].key = f.key
           /\ [f EXCEPT !.joins = b].joins = b
  BY DEF Frame

\* Places of a sequence have a last one, and Max names it.
LEMMA LastPlace ==
    ASSUME NEW n \in Nat, NEW S \in SUBSET (1..n), S # {}
    PROVE  Max(S) \in S
  <1> DEFINE T == {n - i : i \in S}
             R == OpToRel(<, Nat)
  <1>0. \A i \in S : i \in Int /\ n - i \in Nat
    OBVIOUS
  <1>1. T \subseteq Nat /\ T # {}
    BY <1>0
  <1>2. \A x, y \in Nat : x < y => <<x, y>> \in R
    BY DEF OpToRel
  <1>3. IsWellFoundedOn(R, Nat)
    BY NatLessThanWellFounded
  <1> HIDE DEF R, T
  <1>4. PICK m \in T : \A y \in T : ~(<<y, m>> \in R)
    BY <1>1, <1>3, WFMin
  <1>5. \A y \in T : m <= y
    <2>. SUFFICES ASSUME NEW y \in T PROVE m <= y
      OBVIOUS
    <2>1. m \in Nat /\ y \in Nat /\ ~(y < m)
      BY <1>1, <1>2, <1>4
    <2>. QED
      BY <2>1
  <1>6. PICK k \in S : m = n - k
    BY <1>4 DEF T
  <1>7. \A j \in S : k >= j
    <2>. SUFFICES ASSUME NEW j \in S PROVE k >= j
      OBVIOUS
    <2>1. n - j \in T
      BY DEF T
    <2>2. m <= n - j
      BY <1>5, <2>1
    <2>. QED
      BY <1>0, <1>6, <2>2
  <1>. QED
    BY <1>6, <1>7 DEF Max

\* The invariant holds before anything is shared.
LEMMA ShareStart == ShareInit => ShareInv
  <1>. SUFFICES ASSUME ShareInit PROVE ShareInv
    OBVIOUS
  <1>1. <<>> \in FrameSeq /\ DOMAIN <<>> = {}
    BY DEF FrameSeq
  <1>2. ShareTyped
    BY <1>1 DEF ShareInit, ShareTyped, Shares, CaptureStates, CaptureSteps, Encoders, Viewers, Fresh,
              NewViewer
  <1>3. ForcedIsTaken /\ GapIsKnown /\ PictureIsWhole
    BY DEF ShareInit, ForcedIsTaken, GapIsKnown, PictureIsWhole
  <1>4. WindowFollows
    BY <1>1 DEF ShareInit, WindowFollows
  <1>5. KeyframeIsComing
    BY DEF ShareInit, KeyframeIsComing, NewViewer
  <1>. QED
    BY <1>2, <1>3, <1>4, <1>5 DEF ShareInv

-----------------------------------------------------------------------------
(* The capture thread, which leaves the viewer alone.                      *)

\* What a step of the capture thread has to keep.
LEMMA CaptureKeeps ==
    ASSUME ShareInv, UNCHANGED <<viewerVars, awaiting, gap, draining>>,
           share' \in Shares, cap' \in CaptureStates, enc' \in Encoders, monitor' \in Nat,
           queue' \in FrameSeq, force' \in BOOLEAN, ForcedIsTaken',
           share'.net = share.net, cap.at = "done" => cap'.at = "done",
           (force \/ cap.forced \/ enc.key \/ enc.fresh) =>
               (force' \/ cap'.forced \/ enc'.key \/ enc'.fresh \/ KeyQueued'),
           KeyQueued => KeyQueued'
    PROVE  ShareInv'
  <1>1. ShareTyped'
    BY DEF ShareInv, ShareTyped, viewerVars
  <1>2. GapIsKnown' /\ PictureIsWhole' /\ WindowFollows'
    BY DEF ShareInv, GapIsKnown, PictureIsWhole, WindowFollows, viewerVars
  <1>3. KeyframeIsComing'
    BY DEF ShareInv, KeyframeIsComing, KeyQueued, viewerVars
  <1>. QED
    BY <1>1, <1>2, <1>3 DEF ShareInv

\* The capture thread keeps the invariant.
LEMMA CaptureStep == ASSUME ShareInv, Capture PROVE ShareInv'
  <1>0. /\ share \in Shares /\ cap \in CaptureStates /\ enc \in Encoders /\ monitor \in Nat
        /\ queue \in FrameSeq /\ force \in BOOLEAN /\ ForcedIsTaken
    BY DEF ShareInv, ShareTyped
  <1>1. Fresh \in Encoders /\ Fresh.fresh
    BY DEF Fresh, Encoders
  <1>2. ASSUME NEW b \in BOOLEAN
        PROVE  /\ Returned(b) \in CaptureStates /\ Returned(b).forced = cap.forced
    BY <1>0 DEF Returned, CaptureStates, CaptureSteps
  <1>3. Back \in CaptureStates /\ ~Back.forced
    BY <1>0 DEF Back, CaptureStates, CaptureSteps
  <1>4. CASE Probe
    <2>1. cap' \in CaptureStates /\ cap'.forced = cap.forced
      BY <1>0, <1>4 DEF Probe, CaptureStates, CaptureSteps
    <2>. QED
      BY <1>0, <1>4, <2>1, CaptureKeeps DEF Probe, ForcedIsTaken, KeyQueued
  <1>5. CASE CaptureEnds
    <2>1. cap' \in CaptureStates /\ cap'.forced = cap.forced
      BY <1>0, <1>5 DEF CaptureEnds, CaptureStates, CaptureSteps
    <2>2. share' \in Shares /\ share'.net = share.net
      BY <1>0, <1>5 DEF CaptureEnds, Shares
    <2>. QED
      BY <1>0, <1>1, <1>5, <2>1, <2>2, CaptureKeeps DEF CaptureEnds, ForcedIsTaken, KeyQueued
  <1>6. CASE Judge
    <2>1. cap' \in CaptureStates /\ cap'.forced = cap.forced
      <3>1. cap.err \in BOOLEAN
        BY <1>0 DEF CaptureStates
      <3>2. [cap EXCEPT !.at = "probe"] \in CaptureStates
            /\ [cap EXCEPT !.at = "probe"].forced = cap.forced
        BY <1>0 DEF CaptureStates, CaptureSteps
      <3>3. [cap EXCEPT !.at = "wait", !.bounded = ~upgrade] \in CaptureStates
            /\ [cap EXCEPT !.at = "wait", !.bounded = ~upgrade].forced = cap.forced
        BY <1>0 DEF CaptureStates, CaptureSteps
      <3>. QED
        BY <1>2, <1>6, <3>1, <3>2, <3>3 DEF Judge
    <2>. QED
      BY <1>0, <1>6, <2>1, CaptureKeeps DEF Judge, ForcedIsTaken, KeyQueued
  <1>7. CASE Wait
    <2>1. cap' \in CaptureStates /\ cap'.forced = cap.forced
      <3>1. cap.err \in BOOLEAN
        BY <1>0 DEF CaptureStates
      <3>2. /\ [cap EXCEPT !.at = "record", !.loop = "record", !.bounded = FALSE, !.err = FALSE]
                  \in CaptureStates
            /\ [cap EXCEPT !.at = "record", !.loop = "record", !.bounded = FALSE, !.err = FALSE].forced
                  = cap.forced
        BY <1>0 DEF CaptureStates, CaptureSteps
      <3>. QED
        BY <1>2, <1>7, <3>1, <3>2 DEF Wait
    <2>. QED
      BY <1>0, <1>7, <2>1, CaptureKeeps DEF Wait, ForcedIsTaken, KeyQueued
  <1>8. CASE Takes
    <2>1. /\ cap' \in CaptureStates /\ cap'.forced = force /\ cap'.at = "grab"
          /\ enc' \in Encoders /\ enc'.key = (enc.key \/ force) /\ enc'.fresh = enc.fresh
      BY <1>0, <1>8 DEF Takes, CaptureStates, CaptureSteps, Encoders
    <2>2. ~cap.forced
      BY <1>0, <1>8 DEF Takes, ForcedIsTaken
    <2>. QED
      BY <1>0, <1>8, <2>1, <2>2, CaptureKeeps DEF Takes, ForcedIsTaken, KeyQueued
  <1>9. CASE GrabSame
    BY <1>0, <1>3, <1>9, CaptureKeeps DEF GrabSame, ForcedIsTaken, KeyQueued
  <1>10. CASE GrabFails
    <2>1. cap' \in CaptureStates /\ ~cap'.forced
      BY <1>0, <1>10 DEF GrabFails, CaptureStates, CaptureSteps
    <2>. QED
      BY <1>0, <1>1, <1>10, <2>1, CaptureKeeps DEF GrabFails, ForcedIsTaken, KeyQueued
  <1>11. ASSUME NEW flag \in BOOLEAN, Begin(flag) PROVE ShareInv'
    <2>1. cap' \in CaptureStates /\ cap'.forced = cap.forced
      <3>1. cap.run \in Nat /\ cap.run + 1 \in Nat
        BY <1>0 DEF CaptureStates
      <3>. QED
        BY <1>0, <1>11, <3>1 DEF Begin, CaptureStates, CaptureSteps
    <2>. QED
      BY <1>0, <1>11, <2>1, CaptureKeeps DEF Begin, ForcedIsTaken, KeyQueued
  <1>12. ASSUME NEW flag \in BOOLEAN, GrabNothing(flag) PROVE ShareInv'
    <2>1. cap.forced \in BOOLEAN
      BY <1>0 DEF CaptureStates
    <2>2. force' \in BOOLEAN /\ (force \/ cap.forced => force')
      BY <1>0, <1>12, <2>1 DEF GrabNothing, Again
    <2>. QED
      BY <1>0, <1>3, <1>12, <2>2, CaptureKeeps DEF GrabNothing, ForcedIsTaken, KeyQueued
  <1>13. ASSUME NEW flag \in BOOLEAN, Records(flag) PROVE ShareInv'
    BY <1>0, <1>13, CaptureKeeps DEF Records, ForcedIsTaken, KeyQueued
  <1>14. ASSUME NEW n \in Runs, NEW ok \in BOOLEAN, ProbeEnds(n, ok) PROVE ShareInv'
    BY <1>0, <1>14, CaptureKeeps DEF ProbeEnds, ForcedIsTaken, KeyQueued
  <1>15. ASSUME NEW periodic \in BOOLEAN, NEW spaced \in BOOLEAN, NEW idr \in BOOLEAN,
                NEW skips \in BOOLEAN, Grab(periodic, spaced, idr, skips)
         PROVE  ShareInv'
    <2>1. /\ cap.forced \in BOOLEAN /\ enc.key \in BOOLEAN /\ enc.fresh \in BOOLEAN
          /\ cap.forced => enc.key \/ enc.fresh
      BY <1>0 DEF CaptureStates, Encoders, ForcedIsTaken
    <2>2. CASE Len(queue) < ChannelBound
      <3> DEFINE wants == enc.key \/ periodic
                 key   == Encoded(wants, spaced, idr)
      <3>1. wants \in BOOLEAN /\ key \in BOOLEAN /\ (enc.key => wants) /\ (enc.fresh => key)
        BY <2>1 DEF Encoded
      <3>2. Submit(periodic, spaced, idr, skips)
        BY <1>15, <2>2 DEF Grab
      <3>3. /\ skips => ~key
            /\ enc' = [fresh |-> FALSE, key |-> Owes(wants, key)]
            /\ IF skips THEN force' = (force \/ cap.forced) /\ queue' = queue
               ELSE queue' = Append(queue, [key |-> key, joins |-> TRUE]) /\ force' = force
        BY <3>2 DEF Submit, Again
      <3> HIDE DEF wants, key
      <3>4. enc' \in Encoders /\ (enc'.key <=> wants /\ ~key)
        BY <3>1, <3>3 DEF Owes, Encoders
      <3>5. CASE skips
        <4>1. force' \in BOOLEAN /\ queue' = queue /\ KeyQueued' = KeyQueued
          BY <1>0, <2>1, <3>3, <3>5 DEF KeyQueued
        <4>. QED
          BY <1>0, <1>3, <1>15, <2>1, <3>1, <3>3, <3>4, <3>5, <4>1, CaptureKeeps
             DEF Grab, ForcedIsTaken
      <3>6. CASE ~skips
        <4>1. [key |-> key, joins |-> TRUE] \in Frame
          BY <3>1 DEF Frame
        <4> DEFINE f == [key |-> key, joins |-> TRUE]
        <4>2. f.key = key /\ queue' = Append(queue, f)
          BY <3>3, <3>6
        <4> HIDE DEF f
        <4>3. /\ queue' \in FrameSeq
              /\ DOMAIN queue' = DOMAIN queue \cup {Len(queue) + 1}
              /\ queue'[Len(queue) + 1] = f
              /\ \A i \in DOMAIN queue : queue'[i] = queue[i]
          BY <1>0, <4>1, <4>2, FrameAppends DEF f
        <4>4. (KeyQueued => KeyQueued') /\ (key => KeyQueued')
          BY <4>2, <4>3 DEF KeyQueued
        <4>. QED
          BY <1>0, <1>3, <1>15, <2>1, <3>1, <3>3, <3>4, <3>6, <4>3, <4>4, CaptureKeeps
             DEF Grab, ForcedIsTaken
      <3>. QED
        BY <3>5, <3>6
    <2>3. CASE ~(Len(queue) < ChannelBound)
      <3>1. force' \in BOOLEAN /\ (force \/ cap.forced => force') /\ UNCHANGED <<enc, queue>>
        BY <1>0, <1>15, <2>1, <2>3 DEF Grab, Again
      <3>. QED
        BY <1>0, <1>3, <1>15, <3>1, CaptureKeeps DEF Grab, ForcedIsTaken, KeyQueued
    <2>. QED
      BY <2>2, <2>3
  <1>. QED
    BY <1>4, <1>5, <1>6, <1>7, <1>8, <1>9, <1>10, <1>11, <1>12, <1>13, <1>14, <1>15 DEF Capture

-----------------------------------------------------------------------------
(* The sending task.                                                       *)

\* The task that sends keeps the invariant, behind or not.
LEMMA SendStep == ASSUME ShareInv, Send PROVE ShareInv'
  <1>0. /\ ShareTyped /\ queue \in FrameSeq /\ window \in FrameSeq /\ share \in Shares
        /\ viewer \in Viewers
    BY DEF ShareInv, ShareTyped
  <1>1. CASE SendEnds
    <2>1. share' \in Shares /\ share'.net = "join"
      BY <1>0, <1>1 DEF SendEnds, Shares
    <2>. QED
      BY <1>1, <2>1 DEF SendEnds, ShareInv, ShareTyped, ForcedIsTaken, GapIsKnown, WindowFollows,
         KeyframeIsComing, PictureIsWhole, captureVars, viewerVars
  <1>2. CASE Joins
    <2>1. share' \in Shares /\ share'.net = "done"
      BY <1>0, <1>2 DEF Joins, Shares
    <2>. QED
      BY <1>2, <2>1 DEF Joins, ShareInv, ShareTyped, ForcedIsTaken, GapIsKnown, WindowFollows,
         KeyframeIsComing, PictureIsWhole, captureVars, viewerVars
  <1>3. CASE Off
    <2>1. share' \in Shares /\ share'.net = share.net
      BY <1>0, <1>3 DEF Off, Shares
    <2>. QED
      BY <1>3, <2>1 DEF Off, ShareInv, ShareTyped, ForcedIsTaken, GapIsKnown, WindowFollows,
         KeyframeIsComing, PictureIsWhole, captureVars, viewerVars
  <1>4. CASE Picks
    <2>1. monitor' \in Nat
      BY <1>0, <1>4 DEF Picks, ShareTyped
    <2>. QED
      BY <1>4, <2>1 DEF Picks, ShareInv, ShareTyped, ForcedIsTaken, GapIsKnown, WindowFollows,
         KeyframeIsComing, PictureIsWhole, viewerVars
  <1>5. ASSUME NEW late \in BOOLEAN, SendDrops(late) PROVE ShareInv'
    <2>1. queue # <<>> /\ queue' = Tail(queue) /\ queue' \in FrameSeq /\ gap' = TRUE
          /\ UNCHANGED <<share, captureVars, viewerVars>>
      BY <1>0, <1>5, FrameTails DEF SendDrops
    <2>2. CASE late \/ draining
      <3>1. draining' = TRUE /\ force' = TRUE /\ awaiting' = TRUE
        BY <1>5, <2>2 DEF SendDrops, Restarts
      <3>2. ShareTyped'
        BY <1>0, <2>1, <3>1 DEF ShareTyped, captureVars, viewerVars
      <3>3. ForcedIsTaken' /\ GapIsKnown' /\ PictureIsWhole'
        BY <2>1, <3>1 DEF ShareInv, ForcedIsTaken, GapIsKnown, PictureIsWhole, captureVars, viewerVars
      <3>4. WindowFollows' /\ KeyframeIsComing'
        BY <2>1, <3>1 DEF ShareInv, WindowFollows, KeyframeIsComing, viewerVars
      <3>. QED
        BY <3>2, <3>3, <3>4 DEF ShareInv
    <2>3. CASE ~(late \/ draining)
      <3>1. awaiting /\ ~queue[1].key /\ UNCHANGED <<draining, force, awaiting>>
        BY <1>0, <1>5, <2>1, <2>3, FrameTails DEF SendDrops
      <3>2. KeyQueued => KeyQueued'
        BY <1>0, <2>1, <3>1, FrameTails DEF KeyQueued
      <3>. QED
        BY <2>1, <3>1, <3>2 DEF ShareInv, ShareTyped, ForcedIsTaken, GapIsKnown,
           WindowFollows, KeyframeIsComing, PictureIsWhole, KeyQueued, captureVars, viewerVars
    <2>. QED
      BY <2>2, <2>3
  <1>6. ASSUME NEW sheds \in BOOLEAN, SendFrame(sheds) PROVE ShareInv'
    <2> DEFINE f     == Head(queue)
               drops == sheds \/ (relay /\ ~f.key)
               b     == ~gap /\ ~relay
    <2>1. /\ queue # <<>> /\ queue' = Tail(queue) /\ (awaiting => f.key)
          /\ relay' = drops
          /\ window' = IF drops \/ ~viewer.running THEN window
                       ELSE Append(window, [f EXCEPT !.joins = b])
          /\ gap' = FALSE /\ awaiting' = FALSE
          /\ UNCHANGED <<share, captureVars, force, draining, viewer, torn>>
      BY <1>6 DEF SendFrame
    <2>2. f \in Frame /\ queue' \in FrameSeq /\ f.key \in BOOLEAN
      BY <1>0, <2>1, FrameTails, FrameFields
    <2>3. relay \in BOOLEAN /\ gap \in BOOLEAN /\ b \in BOOLEAN /\ drops \in BOOLEAN
      BY <1>0, <2>2 DEF ShareTyped
    <2>4. drops = (sheds \/ (relay /\ ~f.key)) /\ (gap => awaiting) /\ b = (~gap /\ ~relay)
      BY DEF ShareInv, GapIsKnown
    <2> HIDE DEF f, drops, b
    <2>5. /\ [f EXCEPT !.joins = b] \in Frame
          /\ [f EXCEPT !.joins = b].key = f.key /\ [f EXCEPT !.joins = b].joins = b
      BY <2>2, <2>3, FrameFields
    <2>6. window' \in FrameSeq
      BY <1>0, <2>1, <2>5, FrameAppends
    <2>7. WindowFollows'
      <3>1. CASE drops \/ ~viewer.running
        BY <2>1, <2>3, <3>1 DEF ShareInv, WindowFollows
      <3>2. CASE ~drops /\ viewer.running
        <4>1. window' = Append(window, [f EXCEPT !.joins = b]) /\ (f.key \/ b)
          BY <2>1, <2>2, <2>3, <2>4, <3>2
        <4>2. \A i \in DOMAIN window' : window'[i].key \/ window'[i].joins
          BY <1>0, <2>5, <4>1, FrameAppends DEF ShareInv, WindowFollows
        <4>3. window' # <<>>
          BY <1>0, <2>5, <4>1, FrameAppends
        <4>4. window'[1].key \/ viewer.whole \/ viewer.awaiting
          <5>1. CASE window = <<>>
            <6>1. window'[1] = [f EXCEPT !.joins = b]
              BY <1>0, <2>5, <4>1, <5>1, FrameAppends
            <6>. QED
              BY <2>4, <2>5, <3>2, <4>1, <5>1, <6>1 DEF ShareInv, WindowFollows
          <5>2. CASE window # <<>>
            BY <1>0, <2>5, <4>1, <5>2, FrameAppends DEF ShareInv, WindowFollows
          <5>. QED
            BY <5>1, <5>2
        <4>. QED
          BY <2>1, <4>2, <4>3, <4>4 DEF WindowFollows
      <3>. QED
        BY <2>3, <3>1, <3>2
    <2>8. ShareTyped'
      BY <1>0, <2>1, <2>2, <2>3, <2>6 DEF ShareTyped, captureVars
    <2>. QED
      BY <2>1, <2>7, <2>8 DEF ShareInv, ForcedIsTaken, GapIsKnown, KeyframeIsComing, PictureIsWhole,
         captureVars
  <1>7. ASSUME NEW behind \in BOOLEAN, SendTick(behind) PROVE ShareInv'
    BY <1>7 DEF SendTick, Restarts, ShareInv, ShareTyped, ForcedIsTaken, GapIsKnown,
       WindowFollows, KeyframeIsComing, PictureIsWhole, captureVars, viewerVars
  <1>. QED
    BY <1>1, <1>2, <1>3, <1>4, <1>5, <1>6, <1>7 DEF Send

-----------------------------------------------------------------------------
(* The window.                                                             *)

\* The window and its decoder keep the invariant.
LEMMA ViewStep == ASSUME ShareInv, View PROVE ShareInv'
  <1>0. /\ ShareTyped /\ window \in FrameSeq /\ viewer \in Viewers
    BY DEF ShareInv, ShareTyped
  <1>1. <<>> \in FrameSeq /\ DOMAIN <<>> = {} /\ NewViewer \in Viewers
    BY DEF FrameSeq, NewViewer, Viewers
  <1>2. CASE Reports
    BY <1>2 DEF Reports, ShareInv, ShareTyped, ForcedIsTaken, GapIsKnown,
       WindowFollows, KeyframeIsComing, PictureIsWhole, SharerVars, captureVars, viewerVars
  <1>3. CASE Attaches
    <2>1. ~NewViewer.awaiting
      BY DEF NewViewer
    <2>. QED
      BY <1>1, <1>3, <2>1 DEF Attaches, ShareInv, ShareTyped, ForcedIsTaken, GapIsKnown,
         WindowFollows, KeyframeIsComing, PictureIsWhole, SharerVars, captureVars
  <1>4. CASE Detaches
    <2>1. viewer' \in Viewers /\ ~viewer'.awaiting /\ ~viewer'.running
      BY <1>0, <1>4 DEF Detaches, NewViewer, Viewers
    <2>. QED
      BY <1>1, <1>4, <2>1 DEF Detaches, ShareInv, ShareTyped, ForcedIsTaken, GapIsKnown,
         WindowFollows, KeyframeIsComing, PictureIsWhole, SharerVars, captureVars
  <1>5. ASSUME NEW old \in BOOLEAN, NEW bad \in BOOLEAN, Shows(old, bad) PROVE ShareInv'
    <2> DEFINE keys  == {i \in DOMAIN window : window[i].key}
               start == IF keys = {} THEN 1 ELSE Max(keys)
               none  == keys = {}
    <2>1. window # <<>> /\ window' = <<>> /\ UNCHANGED <<SharerVars, force, relay>>
      BY <1>5 DEF Shows
    <2>2. torn' = FALSE
      <3>1. ~torn
        BY DEF ShareInv, PictureIsWhole
      <3>2. CASE none /\ (old \/ viewer.awaiting)
        BY <1>5, <3>1, <3>2 DEF Shows
      <3>3. CASE ~(none /\ (old \/ viewer.awaiting))
        <4>1. torn' = (torn \/ ~Decodable(start))
          BY <1>5, <3>3 DEF Shows
        <4>2. \A i \in DOMAIN window : window[i].key \/ window[i].joins
          BY DEF ShareInv, WindowFollows
        <4>3. Len(window) \in Nat /\ DOMAIN window = 1..Len(window) /\ 1 \in DOMAIN window
          BY <1>0, <2>1 DEF FrameSeq
        <4>4. CASE none
          <5>1. start = 1 /\ ~window[1].key /\ viewer.whole
            BY <2>1, <3>3, <4>3, <4>4 DEF ShareInv, WindowFollows
          <5>2. \A i \in 1..Len(window) : window[i].key \/ (window[i].joins /\ (i > 1 \/ viewer.whole))
            BY <4>2, <4>3, <5>1
          <5>. QED
            BY <3>1, <4>1, <5>1, <5>2 DEF Decodable
        <4>5. CASE ~none
          <5>1. start \in keys
            <6>1. start = Max(keys) /\ keys \in SUBSET (1..Len(window)) /\ keys # {}
              BY <4>3, <4>5
            <6>. QED
              BY <4>3, <6>1, LastPlace
          <5>2. start \in 1..Len(window) /\ window[start].key
            BY <4>3, <5>1
          <5> HIDE DEF start
          <5>3. \A i \in start..Len(window) : window[i].key \/ (window[i].joins /\ (i > start \/ viewer.whole))
            BY <4>2, <4>3, <5>2
          <5>. QED
            BY <3>1, <4>1, <5>3 DEF Decodable
        <4>. QED
          BY <4>4, <4>5
      <3>. QED
        BY <3>2, <3>3
    <2>3. /\ viewer' \in Viewers
          /\ viewer'.awaiting => viewer'.needs
          /\ viewer'.whole \/ viewer'.awaiting
      <3>1. viewer.awaiting => viewer.needs
        BY DEF ShareInv, KeyframeIsComing
      <3>2. none \in BOOLEAN
        OBVIOUS
      <3>3. CASE none /\ (old \/ viewer.awaiting)
        <4>1. viewer' = IF old THEN Stale ELSE [viewer EXCEPT !.needs = TRUE]
          BY <1>5, <3>3 DEF Shows
        <4>2. CASE old
          BY <1>0, <4>1, <4>2 DEF Stale, Viewers
        <4>3. CASE ~old
          BY <1>0, <3>3, <4>1, <4>3 DEF Viewers
        <4>. QED
          BY <4>2, <4>3
      <3>4. CASE ~(none /\ (old \/ viewer.awaiting))
        <4>1. viewer' = [viewer EXCEPT !.awaiting = bad \/ (@ /\ none), !.needs = bad \/ (@ /\ none),
                                       !.whole = ~bad]
          BY <1>5, <3>4 DEF Shows
        <4> HIDE DEF none
        <4>. QED
          BY <1>0, <3>1, <3>2, <4>1 DEF Viewers
      <3>. QED
        BY <3>3, <3>4
    <2>. QED
      BY <1>1, <2>1, <2>2, <2>3 DEF ShareInv, ShareTyped, ForcedIsTaken, GapIsKnown,
         WindowFollows, KeyframeIsComing, PictureIsWhole, SharerVars, captureVars
  <1>. QED
    BY <1>2, <1>3, <1>4, <1>5 DEF View

\* The invariant of a share and its window.
LEMMA ShareHolds == ShareSpec => []ShareInv
  <1>1. ShareInv /\ [ShareNext]_shareVars => ShareInv'
    <2>. SUFFICES ASSUME ShareInv, [ShareNext]_shareVars PROVE ShareInv'
      OBVIOUS
    <2>1. CASE UNCHANGED shareVars
      BY <2>1 DEF shareVars, ShareInv, ShareTyped, ForcedIsTaken, GapIsKnown,
         WindowFollows, KeyframeIsComing, PictureIsWhole
    <2>. QED
      BY <2>1, CaptureStep, SendStep, ViewStep DEF ShareNext
  <1>. QED
    BY <1>1, ShareStart, PTL DEF ShareSpec

\* ScreenShare, any length of queue and window: no decoder is given a frame whose
\* predecessor it was not given, whichever of screen::screen, the server,
\* spawn_viewer and process_pending_frames drops frames.
THEOREM PictureWhole == ShareSpec => []PictureIsWhole
  BY ShareHolds, PTL DEF ShareInv

\* ScreenShare, any length of queue and window: a sending task that waits for a
\* keyframe has one queued, asked for or being made (take_keyframe_request,
\* FrameEncoder), and a window that waits for one keeps asking.
THEOREM KeyframeComes == ShareSpec => []KeyframeIsComing
  BY ShareHolds, PTL DEF ShareInv
=============================================================================
