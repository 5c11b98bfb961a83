---------------------------- MODULE PacketStream ----------------------------
(***************************************************************************)
(* RexPacketStream: the two ends of an auxiliary socket, each sealing with *)
(* the stream of its direction and opening with the stream of the other.   *)
(*                                                                         *)
(* A context is what a stream was opened with: the token of the transfer,  *)
(* or the token hashed for the reverse direction.  Nonce and MAC key are   *)
(* derived from it, so it stands for both.  A byte on the wire is the byte *)
(* of the message and the keystream byte it was added to; adding the same  *)
(* keystream again gives the message back, any other gives Garbage.  The   *)
(* wire may lose, double, swap, change and send back frames.               *)
(***************************************************************************)
EXTENDS RexCtr

CONSTANTS
    CellBytes,   \* bytes of a cell (8)
    Lengths,     \* lengths of messages, in bytes
    MaxFrames,   \* bound on the frames an end seals
    MaxFaults    \* bound on the faults of the wire

ASSUME PacketAssumption ==
    /\ CellBytes \in Nat \ {0}
    /\ Lengths \subseteq Nat
    /\ MaxFrames \in Nat
    /\ MaxFaults \in Nat

VARIABLES
    seals,    \* by end: the stream it seals with
    opens,    \* by end: the stream it opens with
    wire,     \* by end: the frames on their way to it
    sealed,   \* by end: the messages it sealed, in order
    opened,   \* by end: the messages it opened, in order
    faults    \* faults of the wire so far

packetVars == <<seals, opens, wire, sealed, opened, faults>>

Ends == {"client", "server"}

Peer(e) == IF e = "client" THEN "server" ELSE "client"

Garbage == <<"garbage">>

InitStream(token) == [context |-> token, stream |-> NewStream, counter |-> 0]

\* init_rex_stream for what the client sends, init_reverse_stream for what it
\* gets on the same socket.
ForwardToken == <<"token">>

ReverseToken == <<"WHY2-REVERSE-STREAM", "token">>

\* Mutant: both directions of a socket share the token.
StreamOfToken(e) == InitStream(ForwardToken)

StreamOf(e) == InitStream(IF e = "client" THEN ForwardToken ELSE ReverseToken)

PacketInit ==
    /\ seals = [e \in Ends |-> StreamOf(e)]
    /\ opens = [e \in Ends |-> StreamOf(Peer(e))]
    /\ wire = [e \in Ends |-> <<>>]
    /\ sealed = [e \in Ends |-> <<>>]
    /\ opened = [e \in Ends |-> <<>>]
    /\ faults = 0

-----------------------------------------------------------------------------
(* bytes_to_i64, update, finalize, i64_to_bytes, truncate.                 *)

CellsOf(n) == [i \in 1 .. (n + CellBytes - 1) \div CellBytes |-> i]

Through(s, n) == UpdateStream(s.stream, CellsOf(n))

PadsOf(s, n) == UpdateOutput(s.stream, CellsOf(n)) \o FinalizeOutput(Through(s, n))

\* The keystream byte under byte i of a message of n bytes.
KeyByte(s, n, i) ==
    [context |-> s.context,
     pad     |-> PadsOf(s, n)[((i - 1) \div CellBytes) + 1].pad * CellBytes
                   + ((i - 1) % CellBytes)]

Mac(s, body) == [context |-> s.context, counter |-> s.counter, body |-> body]

Advance(s, n) ==
    [context |-> s.context, stream |-> FinalizeStream(Through(s, n)), counter |-> s.counter + 1]

\* The message of an end, as its bytes.
Message(e, n) == [i \in 1 .. n |-> <<e, Len(sealed[e]), i>>]

SealFrame(s, msg) ==
    LET body == [i \in 1 .. Len(msg) |-> [byte |-> msg[i], under |-> KeyByte(s, Len(msg), i)]]
    IN  [tag |-> Mac(s, body), body |-> body]

Seal(e, n) ==
    /\ Len(sealed[e]) < MaxFrames
    /\ sealed' = [sealed EXCEPT ![e] = Append(@, Message(e, n))]
    /\ wire' = [wire EXCEPT ![Peer(e)] = Append(@, SealFrame(seals[e], Message(e, n)))]
    /\ seals' = [seals EXCEPT ![e] = Advance(@, n)]
    /\ UNCHANGED <<opens, opened, faults>>

\* The tag is right for the counter, the length and the ciphertext.
Verifies(s, frame) == frame.tag = Mac(s, frame.body)

Plaintext(s, frame) ==
    [i \in 1 .. Len(frame.body) |->
        IF frame.body[i].under = KeyByte(s, Len(frame.body), i)
        THEN frame.body[i].byte ELSE Garbage]

\* open, of the next frame; a frame that is refused changes nothing.
OpenNext(e) ==
    /\ wire[e] # <<>>
    /\ LET frame == Head(wire[e])
       IN  IF Verifies(opens[e], frame)
           THEN /\ opened' = [opened EXCEPT ![e] = Append(@, Plaintext(opens[e], frame))]
                /\ opens' = [opens EXCEPT ![e] = Advance(@, Len(frame.body))]
           ELSE UNCHANGED <<opened, opens>>
    /\ wire' = [wire EXCEPT ![e] = Tail(@)]
    /\ UNCHANGED <<seals, sealed, faults>>

-----------------------------------------------------------------------------
(* The wire.                                                               *)

Damage(e, frames) ==
    /\ faults < MaxFaults
    /\ faults' = faults + 1
    /\ wire' = [wire EXCEPT ![e] = frames]
    /\ UNCHANGED <<seals, opens, sealed, opened>>

Lose(e) == wire[e] # <<>> /\ Damage(e, Tail(wire[e]))

Double(e) == wire[e] # <<>> /\ Damage(e, <<Head(wire[e])>> \o wire[e])

Swap(e) ==
    /\ Len(wire[e]) >= 2
    /\ Damage(e, <<wire[e][2], wire[e][1]>> \o SubSeq(wire[e], 3, Len(wire[e])))

\* A byte is changed, under the tag it had.
Change(e) ==
    /\ wire[e] # <<>>
    /\ Head(wire[e]).body # <<>>
    /\ LET frame == Head(wire[e])
       IN  Damage(e, <<[tag  |-> frame.tag,
                        body |-> [frame.body EXCEPT ![1].byte = Garbage]]>> \o Tail(wire[e]))

\* A frame comes back to the end that sealed it.
Reflect(e) == wire[Peer(e)] # <<>> /\ Damage(e, <<Head(wire[Peer(e)])>> \o wire[e])

PacketNext ==
    \E e \in Ends :
        \/ \E n \in Lengths : Seal(e, n)
        \/ OpenNext(e)
        \/ Lose(e) \/ Double(e) \/ Swap(e) \/ Change(e) \/ Reflect(e)

PacketSpec == PacketInit /\ [][PacketNext]_packetVars

-----------------------------------------------------------------------------
(* Properties.                                                             *)

\* Whatever the wire did, what an end has opened is what the other end
\* sealed: the same bytes, in order, without a gap and none twice.  A frame
\* that was refused left the stream where it was: when the next frame in
\* sequence still arrives whole, it is readable.
OpenedIsSealed ==
    \A e \in Ends :
        /\ Len(opened[e]) <= Len(sealed[Peer(e)])
        /\ \A k \in 1 .. Len(opened[e]) : opened[e][k] = sealed[Peer(e)][k]
        /\ wire[e] # <<>> /\ Verifies(opens[e], Head(wire[e]))
              => /\ Len(opened[e]) < Len(sealed[Peer(e)])
                 /\ Plaintext(opens[e], Head(wire[e])) = sealed[Peer(e)][Len(opened[e]) + 1]

=============================================================================
