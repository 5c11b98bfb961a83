----------------------------- MODULE VoiceRelay -----------------------------
(***************************************************************************)
(* Voice calls: the slots of the server and its relay of datagrams         *)
(* (chat/src/network/voice/server.rs), and the tasks of a call in the      *)
(* client (chat/src/network/voice/client/mod.rs).                          *)
(*                                                                         *)
(* A datagram that was sent stays in the network: it may be delivered      *)
(* late, out of order, more than once, or never.  The request to join or   *)
(* to leave is one and the same packet of the main connection, which keeps *)
(* its order.  A client opens a new socket for every call, on one host, so *)
(* an address is the number of the call.                                   *)
(***************************************************************************)
EXTENDS Naturals, Sequences, FiniteSets

CONSTANTS
    Clients,
    Speakers,     \* the clients whose microphone picks something up
    Channels, First,   \* the channels, and the one a session starts in
    MaxCalls,     \* bound: calls of one client
    MaxSent,      \* bounds, per client: datagrams it sends in a call,
    MaxGot        \* and datagrams the server sends to it in a call

ASSUME VoiceAssumption ==
    /\ Speakers \subseteq Clients /\ First \in Channels /\ MaxCalls \in Nat
    /\ MaxSent \in [Clients -> Nat] /\ MaxGot \in [Clients -> Nat]

VARIABLES
    slot,      \* CONNECTIONS of the voice server: <<>> or <<slot>>
    channel,   \* the channel of the client's session
    muted,     \* its session is muted
    openings,  \* how many slots its session has opened
    asks,      \* VoiceRequests on their way to the server
    replies,   \* Voice packets on their way to the client
    use,       \* USE_VOICE
    gen,       \* AUDIO_GENERATION: the newest call
    acked,     \* the calls whose handshake flag is set
    hello,     \* the Hello task of the newest call runs
    loops,     \* the calls whose receive loop runs
    seq,       \* SEQ
    held,      \* what a sending task has read of SEQ, per task
    sseq,      \* SERVER_SEQ
    up,        \* datagrams to the server
    down,      \* datagrams to the clients
    heard      \* history: how often a frame was played in this call

serverVars == <<slot, channel, muted, openings>>
clientVars == <<use, gen, acked, hello, loops, seq, held, sseq>>
voiceVars  == <<slot, channel, muted, openings, asks, replies, use, gen, acked, hello, loops, seq,
                held, sseq, up, down, heard>>

Calls  == 1..MaxCalls
Frames == UNION {[from : {c}, call : Calls, seq : 1..MaxSent[c]] : c \in Speakers}
Senders  == {"audio", "beat"}

VoiceTypeOK ==
    /\ \A c \in Clients : slot[c] # <<>> =>
          slot[c][1].call \in Calls /\ slot[c][1].addr \in 0..MaxCalls
    /\ channel \in [Clients -> Channels] /\ muted \in [Clients -> BOOLEAN]
    /\ use \in [Clients -> BOOLEAN] /\ gen \in [Clients -> 0..MaxCalls]
    /\ \A c \in Clients : seq[c] \in 0..MaxSent[c] /\ sseq[c] \in 0..MaxGot[c]
    /\ \A c \in Clients : held[c] \in [Senders -> 0..MaxSent[c]]
    /\ heard \in [Clients -> [Frames -> 0..2]]

VoiceInit ==
    /\ slot = [c \in Clients |-> <<>>]
    /\ channel = [c \in Clients |-> First]
    /\ muted = [c \in Clients |-> FALSE]
    /\ openings = [c \in Clients |-> 0]
    /\ asks = [c \in Clients |-> 0] /\ replies = [c \in Clients |-> <<>>]
    /\ use = [c \in Clients |-> FALSE] /\ gen = [c \in Clients |-> 0]
    /\ acked = [c \in Clients |-> {}] /\ hello = [c \in Clients |-> FALSE]
    /\ loops = [c \in Clients |-> {}]
    /\ seq = [c \in Clients |-> 0] /\ sseq = [c \in Clients |-> 0]
    /\ held = [c \in Clients |-> [t \in Senders |-> 0]]
    /\ up = {} /\ down = {}
    /\ heard = [c \in Clients |-> [f \in Frames |-> 0]]

-----------------------------------------------------------------------------
(* Joining and leaving over the main connection.                           *)

\* /voice
Toggle(c) ==
    /\ asks[c] = 0 /\ replies[c] = <<>> /\ (slot[c] # <<>> \/ openings[c] < MaxCalls)
    /\ asks' = [asks EXCEPT ![c] = 1]
    /\ UNCHANGED <<serverVars, clientVars, replies, up, down, heard>>

\* VoiceRequest: the slot is opened with a new token, or closed.
Request(c) ==
    /\ asks[c] > 0
    /\ asks' = [asks EXCEPT ![c] = @ - 1]
    /\ IF slot[c] = <<>>
       THEN IF openings[c] < MaxCalls
            THEN /\ openings' = [openings EXCEPT ![c] = @ + 1]
                 /\ slot' = [slot EXCEPT ![c] =
                        <<[call |-> openings[c] + 1, addr |-> 0, seq |-> 0, sseq |-> 0]>>]
                 /\ replies' = [replies EXCEPT ![c] = Append(@, openings[c] + 1)]
            ELSE UNCHANGED <<openings, slot, replies>>
       ELSE /\ slot' = [slot EXCEPT ![c] = <<>>]
            /\ replies' = [replies EXCEPT ![c] = Append(@, 0)]
            /\ UNCHANGED openings
    /\ UNCHANGED <<channel, muted, clientVars, up, down, heard>>

\* Voice{token}: listen_server_voice starts; its devices open or it leaves.
Joined(c, devices) ==
    /\ replies[c] # <<>> /\ Head(replies[c]) # 0
    /\ LET k == Head(replies[c]) IN
       /\ replies' = [replies EXCEPT ![c] = Tail(@)]
       /\ use' = [use EXCEPT ![c] = TRUE]
       /\ gen' = [gen EXCEPT ![c] = k]
       /\ seq' = [seq EXCEPT ![c] = 0] /\ sseq' = [sseq EXCEPT ![c] = 0]
       /\ heard' = [heard EXCEPT ![c] = [f \in Frames |-> 0]]
       /\ hello' = [hello EXCEPT ![c] = devices]
       /\ loops' = IF devices THEN [loops EXCEPT ![c] = @ \cup {k}] ELSE loops
       /\ asks' = IF devices THEN asks ELSE [asks EXCEPT ![c] = @ + 1]
    /\ UNCHANGED <<serverVars, acked, held, up, down>>

\* Voice{None}
Left(c) ==
    /\ replies[c] # <<>> /\ Head(replies[c]) = 0
    /\ replies' = [replies EXCEPT ![c] = Tail(@)]
    /\ use' = [use EXCEPT ![c] = FALSE]
    /\ UNCHANGED <<serverVars, asks, gen, acked, hello, loops, seq, held, sseq, up, down, heard>>

\* The session switches channel, or a moderator mutes it.  The relay compares
\* two channels, so a speaker that moves stands for a listener that does.
Moves(c, ch) ==
    /\ channel[c] # ch /\ channel' = [channel EXCEPT ![c] = ch]
    /\ UNCHANGED <<slot, muted, openings, clientVars, asks, replies, up, down, heard>>

Mutes(c) ==
    /\ muted' = [muted EXCEPT ![c] = ~@]
    /\ UNCHANGED <<slot, channel, openings, clientVars, asks, replies, up, down, heard>>

-----------------------------------------------------------------------------
(* A datagram of the client: SEQ is read, then stored and sent, and two    *)
(* tasks of the client do so.                                              *)

\* Whether a task goes on: the audio task sends what the callback queued once
\* the handshake is done, the other one says hello and pings.
Sends(c, t) ==
    /\ gen[c] # 0 /\ gen[c] \in loops[c]
    /\ IF t = "audio" THEN c \in Speakers /\ gen[c] \in acked[c]
       ELSE use[c]

ReadSeq(c, t) ==
    /\ Sends(c, t) /\ held[c][t] = 0 /\ seq[c] < MaxSent[c]
    /\ held' = [held EXCEPT ![c][t] = seq[c] + 1]
    /\ UNCHANGED <<serverVars, asks, replies, use, gen, acked, hello, loops, seq, sseq, up, down,
                   heard>>

Code(c, t) == IF t = "audio" THEN "audio" ELSE IF hello[c] THEN "hello" ELSE "ping"

SendDatagram(c, t) ==
    /\ held[c][t] # 0
    /\ held' = [held EXCEPT ![c][t] = 0]
    /\ seq' = [seq EXCEPT ![c] = held[c][t]]
    /\ up' = up \cup {[from |-> c, call |-> gen[c], seq |-> held[c][t], code |-> Code(c, t),
                       to |-> c]}
    /\ UNCHANGED <<serverVars, asks, replies, use, gen, acked, hello, loops, sseq, down, heard>>

\* Mutant: the Hello task that is not answered ends without leaving.
HelloGivesUp(c) ==
    /\ hello[c]
    /\ hello' = [hello EXCEPT ![c] = FALSE]
    /\ UNCHANGED <<serverVars, asks, replies, use, gen, acked, loops, seq, held, sseq, up, down,
                   heard>>

\* The Hello task ends when it is answered, or when the call it belongs to is
\* over; at HELLO_TIMEOUT it leaves by the same request the user leaves by.
HelloEnds(c) ==
    /\ hello[c]
    /\ hello' = [hello EXCEPT ![c] = FALSE]
    /\ asks' = IF gen[c] \in acked[c] \/ ~use[c] THEN asks ELSE [asks EXCEPT ![c] = @ + 1]
    /\ UNCHANGED <<serverVars, replies, use, gen, acked, loops, seq, held, sseq, up, down, heard>>

-----------------------------------------------------------------------------
(* The server: listen_client_voice.                                        *)

\* Mutant: a datagram with the number of the last one is taken again.
IsNewerOrSame(d, s) == d.seq >= s.seq

IsNewer(d, s) == d.seq > s.seq

\* voice::send to r: the next number of its slot, to its address.
Outgoing(s, r, code, frame) ==
    [to |-> r, call |-> s[r][1].addr, seq |-> s[r][1].sseq + 1, code |-> code, frame |-> frame]

Counted(s, receivers) ==
    [r \in Clients |-> IF r \in receivers THEN <<[s[r][1] EXCEPT !.sseq = @ + 1]>> ELSE s[r]]

Bound(s) == {r \in Clients : s[r] # <<>> /\ s[r][1].addr # 0 /\ s[r][1].sseq < MaxGot[r]}

\* Who gets what d says: the one who says hello, those in the sender's channel
\* at another address, or the one that pinged.
Receivers(d, s) ==
    CASE d.code = "hello" -> {d.from}
      [] d.code = "audio" -> IF muted[d.from] THEN {}
                             ELSE {r \in Clients \ {d.from} : channel[r] = channel[d.from]}
      [] d.code = "ping"  -> {r \in Clients \ {d.from} : channel[r] = channel[d.from]}
      [] d.code = "pong"  -> {d.to}

FrameOf(d) == [from |-> d.from, call |-> d.call, seq |-> d.seq]

Relayed(d, s) ==
    LET receivers == Receivers(d, s) \cap Bound(s) IN
    /\ slot' = Counted(s, receivers)
    /\ down' = down \cup {Outgoing(s, r, d.code, FrameOf(d)) : r \in receivers}

\* A datagram of an open slot.  The first Hello with the slot's token binds it;
\* after that an address on the same host moves it, before its number is
\* looked at.  A datagram over the rate counts and is dropped.
ServerReceives(d, throttled) ==
    /\ d \in up /\ slot[d.from] # <<>>
    /\ LET s     == slot[d.from][1]
           moved == [s EXCEPT !.addr = d.call]
           known == [slot EXCEPT ![d.from] = <<[moved EXCEPT !.seq = d.seq]>>]
       IN  \/ /\ s.addr = 0 /\ d.code = "hello" /\ d.call = s.call /\ ~throttled
              /\ Relayed(d, known)
           \/ /\ s.addr # 0 /\ ~IsNewer(d, s) /\ ~throttled
              /\ slot' = [slot EXCEPT ![d.from] = <<moved>>] /\ UNCHANGED down
           \/ /\ s.addr # 0 /\ IsNewer(d, s)
              /\ IF throttled THEN slot' = known /\ UNCHANGED down ELSE Relayed(d, known)
    /\ UNCHANGED <<channel, muted, openings, asks, replies, clientVars, up, heard>>

-----------------------------------------------------------------------------
(* The receive loop of a call k.                                           *)

\* The loop sees that voice is off; a loop whose call is over may not see it,
\* when a new call has begun meanwhile.
LoopEnds(c, k) ==
    /\ k \in loops[c] /\ ~use[c]
    /\ loops' = [loops EXCEPT ![c] = @ \ {k}]
    /\ UNCHANGED <<serverVars, asks, replies, use, gen, acked, hello, seq, held, sseq, up, down,
                   heard>>

\* A frame is played if the speaker is among the consumers and not ignored.
ClientReceives(c, d, plays) ==
    /\ d \in down /\ d.to = c /\ d.call \in loops[c] /\ use[c] /\ d.seq > sseq[c]
    /\ sseq' = [sseq EXCEPT ![c] = d.seq]
    /\ acked' = IF d.code = "hello" THEN [acked EXCEPT ![c] = @ \cup {d.call}] ELSE acked
    /\ plays => d.code \in {"audio", "ping"}
    /\ heard' = IF plays /\ d.code = "audio" THEN [heard EXCEPT ![c][d.frame] = @ + 1] ELSE heard
    /\ IF plays /\ d.code = "ping" /\ seq[c] < MaxSent[c]
       THEN /\ seq' = [seq EXCEPT ![c] = @ + 1]
            /\ up' = up \cup {[from |-> c, call |-> d.call, seq |-> seq[c] + 1, code |-> "pong",
                               to |-> d.frame.from]}
       ELSE UNCHANGED <<seq, up>>
    /\ UNCHANGED <<serverVars, asks, replies, use, gen, hello, loops, held, down>>

-----------------------------------------------------------------------------
VoiceNext ==
    \/ \E c \in Clients : Toggle(c) \/ Request(c) \/ Left(c) \/ HelloEnds(c)
    \/ \E c \in Speakers : Mutes(c) \/ \E ch \in Channels : Moves(c, ch)
    \/ \E c \in Clients, devices \in BOOLEAN : Joined(c, devices)
    \/ \E c \in Clients, t \in Senders : ReadSeq(c, t) \/ SendDatagram(c, t)
    \/ \E d \in up, throttled \in BOOLEAN : ServerReceives(d, throttled)
    \/ \E c \in Clients : \E k \in loops[c] : LoopEnds(c, k)
    \/ \E d \in down, plays \in BOOLEAN : ClientReceives(d.to, d, plays)

VoiceSpec == VoiceInit /\ [][VoiceNext]_voiceVars

-----------------------------------------------------------------------------
(* Properties.                                                             *)

\* As long as speaker and listener stay in their calls, no frame is played
\* twice, however often and in whatever order the network delivers the
\* datagrams of the two hops (listen_client_voice, listen_server_voice).
PlayedOnce ==
    \A c \in Clients, f \in Frames :
        slot[f.from] # <<>> /\ slot[f.from][1].call = f.call => heard[c][f] <= 1

Unanswered(c) == use[c] /\ gen[c] \notin acked[c]

\* A call the server has not answered is being pursued: its Hello task runs,
\* or a request or a reply that settles it is on its way, though the request
\* that leaves a call also joins one (HELLO_TIMEOUT, listen_server_voice).
CallIsPursued ==
    \A c \in Clients : Unanswered(c) => hello[c] \/ asks[c] > 0 \/ replies[c] # <<>>
=============================================================================
