----------------------------- MODULE LobbyPane -----------------------------
(***************************************************************************)
(* What one client shows of the lobby: the stored messages (module         *)
(* History), the broadcasts and history pages that reach the client, and   *)
(* the pane the client keeps (chat/src/bin/client/tui/state.rs), which it  *)
(* extends upwards page by page.                                           *)
(*                                                                         *)
(* Every packet to the client is written by a task of its own, which waits *)
(* for the lock of the client's stream, so packets arrive in any order.    *)
(* Hearts, edits, pins and replies change no line and no id, and are left  *)
(* out here.                                                               *)
(***************************************************************************)
EXTENDS Naturals, Sequences, FiniteSets

CONSTANTS
    Sessions, Rank, Limits, PinLimits, MaxSaid, None,   \* of History
    PageSize,   \* history_page
    PaneLimit   \* HISTORY_LIMIT, the cap of a pane

ASSUME SizesAssumption  == PageSize \in Nat \ {0} /\ PaneLimit \in Nat \ {0}
ASSUME LobbyAssumption  == Limits \subseteq Nat /\ None \notin Nat

VARIABLES
    records, next, op, said,   \* of History
    live,      \* the client is in CONNECTIONS and authenticated
    asked,     \* the page its session has to answer: <<before>>, or <<>>
    net,       \* the packets to the client that are not delivered
    pane,      \* the lobby pane
    anchor,    \* history_anchor: how many entries are above the replayed ones
    cursor,    \* history_cursor
    pending,   \* history_pending
    lobby,     \* the lobby is the channel being looked at
    horizon,   \* history: the next id when the newest page was read
    top        \* history: the id from which on the history is replayed

store  == <<records, next, op, said>>
client == <<pane, anchor, cursor, pending, lobby, top>>
link   == <<live, asked, net, horizon>>
vars   == <<records, next, op, said, live, asked, net, pane, anchor, cursor, pending,
            lobby, horizon, top>>

H == INSTANCE History

Entry == [kind : {"live", "replay"}, id : Nat, msg : Nat] \cup {[kind |-> "line"]}

TypeOK ==
    /\ H!TypeOK
    /\ live \in BOOLEAN
    /\ asked \in {<<>>} \cup {<<before>> : before \in 0..next \cup {None}}
    /\ pane \in Seq(Entry) /\ Len(pane) <= PaneLimit
    /\ anchor \in 0..Len(pane) \cup {None}
    /\ cursor \in 0..next \cup {None}
    /\ anchor = None => cursor = None
    /\ pending \in BOOLEAN
    /\ lobby \in BOOLEAN
    /\ horizon \in Nat /\ top \in Nat

Init ==
    /\ H!Init
    /\ live = FALSE
    /\ asked = <<>>
    /\ net = {}
    /\ pane = <<>>
    /\ anchor = None
    /\ cursor = None
    /\ pending = FALSE
    /\ lobby = TRUE
    /\ horizon = 0
    /\ top = 0

-----------------------------------------------------------------------------
(* The server.                                                             *)

\* A handler changes the stored messages, and has told nobody yet.
Store(s) ==
    /\ \/ H!CheckDelete(s) \/ H!Delete(s) \/ H!SayUnkept(s)
       \/ \E limit \in Limits : H!Say(s, FALSE, limit)
    /\ UNCHANGED <<client, link>>

\* send_to_all: whoever is authenticated by now is told.
Tell(s) ==
    /\ H!Tell(s)
    /\ net' = IF ~live THEN net
              ELSE net \cup {IF op[s].do = "tell"
                             THEN [kind |-> "message", id |-> op[s].id, msg |-> op[s].msg]
                             ELSE [kind |-> "deleted", id |-> op[s].id]}
    /\ UNCHANGED <<client, live, asked, horizon>>

\* authenticate_client; the newest page is read next.
Login ==
    /\ ~live
    /\ live' = TRUE
    /\ asked' = <<None>>
    /\ UNCHANGED <<store, client, net, horizon>>

\* History::position: how many records are older than a cursor.
position(before) ==
    IF before = None THEN Len(records)
    ELSE Cardinality({i \in DOMAIN records : records[i].id < before})

Replayed(from, to) ==
    [i \in 1..to - from |-> [kind |-> "replay", id |-> records[from + i].id,
                             msg |-> records[from + i].msg]]

\* send_history and page: at least one message, if there is one, and no more
\* than history_page or the byte budget allow.  An empty newest page is not sent.
SendHistory ==
    /\ asked # <<>>
    /\ LET before == asked[1]
           to     == position(before)
       IN  /\ \E from \in 0..to :
                /\ from = to <=> to = 0
                /\ to - from <= PageSize
                /\ net' = IF before = None /\ to = 0 THEN net
                          ELSE net \cup {[kind    |-> "history",
                                          entries |-> Replayed(from, to),
                                          start   |-> IF from < Len(records) THEN records[from + 1].id
                                                      ELSE next,
                                          more    |-> from > 0,
                                          older   |-> before # None]}
           /\ horizon' = IF before = None THEN next ELSE horizon
    /\ asked' = <<>>
    /\ UNCHANGED <<store, client, live>>

-----------------------------------------------------------------------------
(* The client.                                                             *)

Receive(packet) ==
    /\ packet \in net
    /\ net' = net \ {packet}
    /\ UNCHANGED <<store, live, asked, horizon>>

\* push_entry and park_entry, for each entry: the pane is capped, the anchor
\* moves up with what is dropped, and goes with the first replayed entry.
Push(entries, base, a, c) ==
    LET all     == base \o entries
        dropped == IF Len(all) > PaneLimit THEN Len(all) - PaneLimit ELSE 0
    IN  /\ pane' = SubSeq(all, dropped + 1, Len(all))
        /\ anchor' = IF a = None \/ dropped > a THEN None ELSE a - dropped
        /\ cursor' = IF dropped > 0 /\ anchor' = None THEN None ELSE c

\* A message of the lobby, whichever channel is being looked at.
ReceiveMessage(packet) ==
    /\ Receive(packet)
    /\ packet.kind = "message"
    /\ Push(<<[kind |-> "live", id |-> packet.id, msg |-> packet.msg]>>, pane, anchor, cursor)
    /\ UNCHANGED <<pending, lobby, top>>

\* A line of another kind, such as a Join, goes to the pane being looked at.
PushLine ==
    /\ lobby
    /\ Push(<<[kind |-> "line"]>>, pane, anchor, cursor)
    /\ UNCHANGED <<store, link, pending, lobby, top>>

\* The newest page goes under its heading.
StartHistory(packet) ==
    /\ Receive(packet)
    /\ packet.kind = "history" /\ ~packet.older
    /\ LET heading == H!Newest(Append(pane, [kind |-> "line"]), PaneLimit)
       IN  Push(packet.entries, heading, Len(heading), IF packet.more THEN packet.start ELSE None)
    /\ top' = packet.start
    /\ UNCHANGED <<pending, lobby>>

\* load_visible: the top of the pane is near, and older messages are left.
Ask ==
    /\ lobby /\ ~pending /\ cursor # None
    /\ pending' = TRUE
    /\ asked' = <<cursor>>
    /\ UNCHANGED <<store, pane, anchor, cursor, lobby, top, live, net, horizon>>

\* Mutant: the cursor moves on although the page was not put anywhere.
PrependMovesOn(packet) ==
    /\ Receive(packet)
    /\ packet.kind = "history" /\ packet.older
    /\ pending' = FALSE
    /\ IF lobby /\ anchor # None
       THEN LET room == PaneLimit - Len(pane)
                old  == H!Newest(packet.entries, room)
            IN  /\ cursor' = IF packet.more /\ old = packet.entries THEN packet.start ELSE None
                /\ pane' = SubSeq(pane, 1, anchor) \o old \o SubSeq(pane, anchor + 1, Len(pane))
                /\ top' = IF old = packet.entries THEN packet.start
                          ELSE IF old = <<>> THEN top ELSE old[1].id
       ELSE /\ cursor' = IF anchor # None /\ packet.more THEN packet.start ELSE None
            /\ top' = packet.start
            /\ UNCHANGED pane
    /\ UNCHANGED <<anchor, lobby>>

\* prepend_history: an older page goes above what is replayed, unless another
\* channel is being looked at; the pane's cap ends the paging.
PrependHistory(packet) ==
    /\ Receive(packet)
    /\ packet.kind = "history" /\ packet.older
    /\ pending' = FALSE
    /\ IF lobby /\ anchor # None
       THEN LET room == PaneLimit - Len(pane)
                old  == H!Newest(packet.entries, room)
            IN  /\ cursor' = IF packet.more /\ old = packet.entries THEN packet.start ELSE None
                /\ pane' = SubSeq(pane, 1, anchor) \o old \o SubSeq(pane, anchor + 1, Len(pane))
                /\ top' = IF old = packet.entries THEN packet.start
                          ELSE IF old = <<>> THEN top ELSE old[1].id
       ELSE UNCHANGED <<cursor, pane, top>>
    /\ UNCHANGED <<anchor, lobby>>

\* The entries that carry an id.
Holding(id) == {i \in DOMAIN pane : pane[i].kind # "line" /\ pane[i].id = id}

\* Mutant: the anchor stays where it was when an entry above it goes.
DeleteWithoutShift(packet) ==
    /\ Receive(packet)
    /\ packet.kind = "deleted"
    /\ IF Holding(packet.id) = {} THEN UNCHANGED <<pane, anchor>>
       ELSE \E i \in Holding(packet.id) :
              /\ \A j \in Holding(packet.id) : i <= j
              /\ pane' = H!Without(pane, i)
              /\ anchor' = IF anchor # None /\ anchor > Len(pane) - 1 THEN Len(pane) - 1 ELSE anchor
    /\ UNCHANGED <<cursor, pending, lobby, top>>

\* delete_message: the first entry with the id goes, and the anchor moves up
\* when it was above it.
DeleteMessage(packet) ==
    /\ Receive(packet)
    /\ packet.kind = "deleted"
    /\ IF Holding(packet.id) = {} THEN UNCHANGED <<pane, anchor>>
       ELSE \E i \in Holding(packet.id) :
              /\ \A j \in Holding(packet.id) : i <= j
              /\ pane' = H!Without(pane, i)
              /\ anchor' = IF anchor # None /\ i <= anchor THEN anchor - 1 ELSE anchor
    /\ UNCHANGED <<cursor, pending, lobby, top>>

\* The session sends the newest page before it sends Accept, and the client
\* takes no command before that.
Accepted ==
    /\ live /\ asked # <<None>>
    /\ \A packet \in net : packet.kind = "history" => packet.older

\* switch_channel: the lobby's pane is parked, or put back.
SwitchChannel ==
    /\ Accepted
    /\ lobby' = ~lobby
    /\ UNCHANGED <<store, link, pane, anchor, cursor, pending, top>>

\* clear_messages, while looking at the lobby.
ClearMessages ==
    /\ Accepted
    /\ lobby /\ pane # <<>>
    /\ pane' = <<>>
    /\ anchor' = None
    /\ cursor' = None
    /\ UNCHANGED <<store, link, pending, lobby, top>>

\* disconnected: the session is thrown away, and the next one starts blank.
Disconnected ==
    /\ live' = FALSE
    /\ asked' = <<>>
    /\ net' = {}
    /\ pane' = <<>>
    /\ anchor' = None
    /\ cursor' = None
    /\ pending' = FALSE
    /\ lobby' = TRUE
    /\ horizon' = 0
    /\ top' = 0

\* The connection is lost.
Lose == live /\ Disconnected /\ UNCHANGED store

\* The server restarts, and every connection with it.
Restart == H!Restart /\ Disconnected

-----------------------------------------------------------------------------

ServerStep == Login \/ SendHistory \/ Restart \/ \E s \in Sessions : Store(s) \/ Tell(s)

Deliver == \E packet \in net :
    ReceiveMessage(packet) \/ StartHistory(packet) \/ PrependHistory(packet) \/ DeleteMessage(packet)

ClientStep == Deliver \/ PushLine \/ Ask \/ SwitchChannel \/ ClearMessages \/ Lose

Next == ServerStep \/ ClientStep

Spec == Init /\ [][Next]_vars

-----------------------------------------------------------------------------
(* Properties.                                                             *)

\* The entries that a page of the history brought.
Replays == {i \in DOMAIN pane : pane[i].kind = "replay"}

\* The replayed messages stand in the pane in the order they were said and
\* below the anchor, whatever is said, deleted, dropped by the cap or looked at
\* while a page is on its way: an older page always lands above the newer ones.
ReplayInOrder ==
    /\ \A i, j \in Replays : i < j => pane[i].id < pane[j].id
    /\ anchor # None => \A i \in Replays : anchor < i

\* "a page cursor stays valid while messages are added, trimmed or deleted
\* around it": between the oldest message replayed and the login, no message
\* that the server still keeps is missing from the pane.
NoGap ==
    anchor # None =>
        \A i \in DOMAIN records :
            records[i].id \in top..horizon - 1 =>
                \E j \in Replays : pane[j].msg = records[i].msg

\* The id of a line still stands for the message the line shows, or for none,
\* on the server: a deletion, a reply or a heart sent from the pane reaches the
\* message that was looked at, also after a restart handed out ids again.
ShownIsNamed ==
    \A j \in DOMAIN pane : pane[j].kind # "line" =>
        \A i \in DOMAIN records : records[i].id = pane[j].id => records[i].msg = pane[j].msg

=============================================================================
