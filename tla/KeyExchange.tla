---------------------------- MODULE KeyExchange ----------------------------
(***************************************************************************)
(* The main connection of one client: the handshake, the session under its *)
(* keys, and the rekeys that the server starts while both sides talk.      *)
(*                                                                         *)
(* The server's side is the task that runs listen_client, the entry that   *)
(* the other tasks of the server find in CONNECTIONS, and the sends those  *)
(* tasks have prepared with the keys of the entry and not yet written.     *)
(* The client's side is the task that runs listen_server and the tasks of  *)
(* its user interface, which write on their own.  Both directions are TCP: *)
(* two queues, in order.  A key is the number of the offer it was agreed   *)
(* from; Obfuscated stands for no key at all, Junk for what the server     *)
(* derives from the answer to another offer.                               *)
(***************************************************************************)
EXTENDS Integers, Sequences, FiniteSets

CONSTANTS
    MaxStrays,  \* strays that untrusted_read drops before it gives up (3)
    MaxOffers,  \* bound on the offers the server makes
    MaxSent,    \* bound on what other tasks send to an entry, by its counter
    MaxTyped,   \* bound on what the client's tasks write, by its counter
    MaxDials    \* bound on the connections the client opens

ASSUME BoundsAssumption ==
    /\ MaxStrays \in Nat
    /\ MaxOffers \in Nat
    /\ MaxSent \in Nat
    /\ MaxTyped \in Nat
    /\ MaxDials \in Nat

VARIABLES
    srv,      \* the task of listen_client
    entry,    \* what CONNECTIONS holds for the peer
    sends,    \* sends of other server tasks, waiting for the write half
    cli,      \* the task of listen_server and the client's options
    held,     \* keys that client tasks have copied for a packet of theirs
    s2c,      \* the socket, from the server
    c2s,      \* the socket, from the client
    offers,   \* offers made so far
    gaveUp,   \* history: offers the server gave up waiting for
    pinned,   \* the client's file of keys has the server's identity
    dials     \* connections opened

vars == <<srv, entry, sends, cli, held, s2c, c2s, offers, gaveUp,
          pinned, dials>>

Obfuscated == 0

Junk == -1

Keys == -1 .. MaxOffers

Codes == {"Offer", "Reply", "Rekey", "Version", "Welcome", "Credentials",
          "Accept", "KeepAlive", "Message", "Disconnect"}

\* A packet on the socket; offer is the exchange an Offer or a Reply is of.
Packet == [code : Codes, key : Keys, seq : Nat, offer : 0 .. MaxOffers]

packet(code, key, seq) == [code |-> code, key |-> key, seq |-> seq, offer |-> 0]

SrvPhases == {"none", "greet", "version", "login", "accept", "session",
              "rekey", "ended"}

CliPhases == {"idle", "dialed", "deriving", "prompt", "open", "rekeying",
              "ended"}

NoPacket == packet("Message", Obfuscated, 0)

NewEntry == [here |-> TRUE, auth |-> FALSE, key |-> Obfuscated, seq |-> 0,
             out |-> 0, alive |-> TRUE]

Init ==
    /\ srv = [phase |-> "none", key |-> Obfuscated, strays |-> 0, hand |-> NoPacket]
    /\ entry = [NewEntry EXCEPT !.here = FALSE]
    /\ sends = {}
    /\ cli = [phase |-> "idle", key |-> Obfuscated, shared |-> Obfuscated,
              seq |-> 0, heard |-> 0, offer |-> 0, login |-> "none"]
    /\ held = {}
    /\ s2c = <<>>
    /\ c2s = <<>>
    /\ offers = 0
    /\ gaveUp = {}
    /\ pinned \in BOOLEAN
    /\ dials = 0

-----------------------------------------------------------------------------
(* send_tcp.  A server's packet gets its number from the entry when it is  *)
(* written, with the write half locked; without an authenticated entry it  *)
(* keeps 0.  The client counts every packet it writes.                     *)

ServerSeq(e, n) == IF e.here /\ e.auth THEN e.out + n ELSE 0

\* Mutant: the number is advanced in a copy of the entry.
OutgoingCopied(e, n) == e

Outgoing(e, n) == IF e.here /\ e.auth THEN [e EXCEPT !.out = @ + n] ELSE e

ClientSends(code, key, c) ==
    /\ c2s' = Append(c2s, packet(code, key, cli.seq + 1))
    /\ cli' = [c EXCEPT !.seq = cli.seq + 1]

(* receive, on the server.                                                 *)

Incoming == Head(c2s)

Verified == Incoming.key = srv.key

InSequence == entry.here => Incoming.seq > entry.seq

Valid == c2s # <<>> /\ Verified /\ InSequence

Counted == [entry EXCEPT !.seq = Incoming.seq]

\* remove_connection: the entry goes first; with grace a Disconnect waits for
\* the write half, with the keys the entry had.
Remove(e, grace) ==
    /\ entry' = [e EXCEPT !.here = FALSE]
    /\ sends' = IF grace /\ e.here
                THEN sends \cup {[code |-> "Disconnect", key |-> e.key]}
                ELSE sends

Ended == srv' = [srv EXCEPT !.phase = "ended", !.hand = NoPacket]

-----------------------------------------------------------------------------
(* The server.                                                             *)

\* What the task does with a packet of the session: a keepalive's echo marks
\* the connection alive, Disconnect ends it.  The answers to other packets
\* are covered by Broadcast, whose keys are the task's own.
Handle(p, e, key) ==
    LET quits == p.code = "Disconnect"
    IN  /\ srv' = [phase |-> IF quits THEN "ended" ELSE "session",
                   key |-> key, strays |-> 0, hand |-> NoPacket]
        /\ \/ quits /\ Remove(e, TRUE)
           \/ /\ ~quits
              /\ entry' = [e EXCEPT !.alive = @ \/ p.code = "KeepAlive"]
              /\ UNCHANGED sends

\* The three waits of untrusted_read, and the code each waits for.
Exchanging == srv.phase \in {"greet", "version", "rekey"}

Awaited == IF srv.phase = "version" THEN "Version" ELSE "Reply"

\* untrusted_read returned nothing.  A connection that is still greeting is
\* removed; a rekey goes on with the keys it had and the packet in hand.
GiveUp(e) ==
    \/ /\ srv.phase = "rekey"
       /\ Handle(srv.hand, e, srv.key)
       /\ gaveUp' = gaveUp \cup {offers}
    \/ /\ srv.phase # "rekey"
       /\ Remove(e, srv.phase = "version")
       /\ Ended
       /\ UNCHANGED gaveUp

\* A read of untrusted_read took its two seconds.
Timeout ==
    /\ Exchanging
    /\ GiveUp(entry)
    /\ UNCHANGED <<cli, held, s2c, c2s, offers, pinned, dials>>

\* untrusted_read met a packet that does not verify; one out of sequence
\* removes the connection.
ReadInvalid ==
    /\ Exchanging
    /\ c2s # <<>>
    /\ ~Valid
    /\ c2s' = Tail(c2s)
    /\ IF ~Verified THEN GiveUp(entry)
       ELSE Remove(entry, FALSE) /\ Ended /\ UNCHANGED gaveUp
    /\ UNCHANGED <<cli, held, s2c, offers, pinned, dials>>

\* untrusted_read drops a packet it does not wait for.
ReadStray ==
    /\ Exchanging
    /\ Valid
    /\ Incoming.code # Awaited
    /\ c2s' = Tail(c2s)
    /\ \/ srv.strays = MaxStrays /\ GiveUp(Counted)
       \/ /\ srv.strays < MaxStrays
          /\ srv' = [srv EXCEPT !.strays = @ + 1]
          /\ entry' = Counted
          /\ UNCHANGED <<sends, gaveUp>>
    /\ UNCHANGED <<cli, held, s2c, offers, pinned, dials>>

\* What the server derives from a reply and the offer it has in hand.
Derived == IF Incoming.offer = offers THEN offers ELSE Junk

\* The reply to the first offer: keys, and the question for the version.
ReadFirstReply ==
    /\ srv.phase = "greet"
    /\ Valid
    /\ Incoming.code = "Reply"
    /\ c2s' = Tail(c2s)
    /\ srv' = [srv EXCEPT !.phase = "version", !.key = Derived, !.strays = 0]
    /\ entry' = [Counted EXCEPT !.key = Derived]
    /\ s2c' = Append(s2c, packet("Version", Derived, 0))
    /\ UNCHANGED <<sends, cli, held, offers, gaveUp, pinned, dials>>

\* Mutant: the entry gets the new keys, the task keeps the old ones.
ReadReplyEntryOnly ==
    /\ srv.phase = "rekey"
    /\ Valid
    /\ Incoming.code = "Reply"
    /\ c2s' = Tail(c2s)
    /\ Handle(srv.hand, [Counted EXCEPT !.key = Derived], srv.key)
    /\ UNCHANGED <<cli, held, s2c, offers, gaveUp, pinned, dials>>

\* The reply that ends a rekey.  The entry and the task take the new keys,
\* and the packet that had started the rekey is handled.
ReadReply ==
    /\ srv.phase = "rekey"
    /\ Valid
    /\ Incoming.code = "Reply"
    /\ c2s' = Tail(c2s)
    /\ Handle(srv.hand, [Counted EXCEPT !.key = Derived], Derived)
    /\ UNCHANGED <<cli, held, s2c, offers, gaveUp, pinned, dials>>

\* The version matched; the server's data and its question for a username.
ReadVersion ==
    /\ srv.phase = "version"
    /\ Valid
    /\ Incoming.code = "Version"
    /\ c2s' = Tail(c2s)
    /\ srv' = [srv EXCEPT !.phase = "login", !.strays = 0]
    /\ entry' = Counted
    /\ s2c' = Append(s2c, packet("Welcome", srv.key, 0))
    /\ UNCHANGED <<sends, cli, held, offers, gaveUp, pinned, dials>>

\* A login that was accepted (the Sessions module has the others).  From here
\* the other tasks send to the connection; an entry that is gone stays gone.
ReadCredentials ==
    /\ srv.phase = "login"
    /\ Valid
    /\ c2s' = Tail(c2s)
    /\ srv' = [srv EXCEPT !.phase = "accept"]
    /\ entry' = IF entry.here THEN [Counted EXCEPT !.auth = TRUE] ELSE entry
    /\ UNCHANGED <<sends, cli, held, s2c, offers, gaveUp, pinned, dials>>

\* The task tells the client that it is in, and goes on to its loop.
SendAccept ==
    /\ srv.phase = "accept"
    /\ srv' = [srv EXCEPT !.phase = "session"]
    /\ s2c' = Append(s2c, packet("Accept", srv.key, ServerSeq(entry, 1)))
    /\ entry' = Outgoing(entry, 1)
    /\ UNCHANGED <<sends, cli, held, c2s, offers, gaveUp, pinned, dials>>

\* A packet of the session, with no rekey due.  The loop looks its entry up
\* and panics when a task has removed it.
Read ==
    /\ srv.phase = "session"
    /\ Valid
    /\ c2s' = Tail(c2s)
    /\ IF entry.here THEN Handle(Incoming, Counted, srv.key)
       ELSE Ended /\ UNCHANGED <<entry, sends>>
    /\ UNCHANGED <<cli, held, s2c, offers, gaveUp, pinned, dials>>

\* Mutant: the write half is unlocked between the two packets of a rekey.
StartRekeyUnlocked ==
    /\ srv.phase = "session"
    /\ entry.here
    /\ offers < MaxOffers
    /\ Valid
    /\ c2s' = Tail(c2s)
    /\ srv' = [srv EXCEPT !.phase = "rekey", !.hand = Incoming]
    /\ entry' = Outgoing(Counted, 1)
    /\ offers' = offers + 1
    /\ s2c' = Append(s2c, packet("Rekey", srv.key, ServerSeq(entry, 1)))
    /\ sends' = sends \cup {[code |-> "Offer", key |-> srv.key]}
    /\ UNCHANGED <<cli, held, gaveUp, pinned, dials>>

\* A packet of the session when the keys are older than REKEY_INTERVAL: both
\* packets of the rekey are written with the write half locked throughout.
StartRekey ==
    /\ srv.phase = "session"
    /\ entry.here
    /\ offers < MaxOffers
    /\ Valid
    /\ c2s' = Tail(c2s)
    /\ srv' = [srv EXCEPT !.phase = "rekey", !.hand = Incoming]
    /\ entry' = Outgoing(Counted, 2)
    /\ offers' = offers + 1
    /\ s2c' = s2c \o
         <<packet("Rekey", srv.key, ServerSeq(entry, 1)),
           [packet("Offer", srv.key, ServerSeq(entry, 2)) EXCEPT !.offer = offers + 1]>>
    /\ UNCHANGED <<sends, cli, held, gaveUp, pinned, dials>>

\* The loop of the session met a packet that does not verify and returns,
\* leaving the entry; the login removes it, and so does one out of sequence.
Reject ==
    /\ srv.phase \in {"login", "session"}
    /\ c2s # <<>>
    /\ ~Valid
    /\ c2s' = Tail(c2s)
    /\ Ended
    /\ IF Verified \/ srv.phase = "login"
       THEN Remove(entry, FALSE) ELSE UNCHANGED <<entry, sends>>
    /\ UNCHANGED <<cli, held, s2c, offers, gaveUp, pinned, dials>>

\* The client's socket closed.
ReadEnd ==
    /\ srv.phase \notin {"none", "ended"}
    /\ cli.phase = "ended"
    /\ c2s = <<>>
    /\ Remove(entry, FALSE)
    /\ Ended
    /\ UNCHANGED <<cli, held, s2c, c2s, offers, gaveUp, pinned, dials>>

\* Another task sends the connection a packet: it copies the entry's keys
\* and waits for the write half in a task of its own.
Broadcast ==
    /\ entry.here
    /\ entry.auth
    /\ entry.out + Cardinality(sends) < MaxSent
    /\ sends' = sends \cup {[code |-> "Message", key |-> entry.key]}
    /\ UNCHANGED <<srv, entry, cli, held, s2c, c2s, offers, gaveUp,
                   pinned, dials>>

\* The watchdog's round, for a connection that has answered the last one.
KeepAlive ==
    /\ entry.here
    /\ entry.auth
    /\ entry.alive
    /\ \A s \in sends : s.code # "KeepAlive"
    /\ entry.out + Cardinality(sends) < MaxSent
    /\ entry' = [entry EXCEPT !.alive = FALSE]
    /\ sends' = sends \cup {[code |-> "KeepAlive", key |-> entry.key]}
    /\ UNCHANGED <<srv, cli, held, s2c, c2s, offers, gaveUp, pinned, dials>>

\* The watchdog's round, for a connection that has not.
BuryDead ==
    /\ entry.here
    /\ entry.auth
    /\ ~entry.alive
    /\ \A s \in sends : s.code # "KeepAlive"
    /\ Remove(entry, FALSE)
    /\ UNCHANGED <<srv, cli, held, s2c, c2s, offers, gaveUp, pinned, dials>>

\* A moderator, the inactivity check or the end of the server.
Kick ==
    /\ entry.here
    /\ Remove(entry, TRUE)
    /\ UNCHANGED <<srv, cli, held, s2c, c2s, offers, gaveUp, pinned, dials>>

\* remove_connection ends by aborting the task of the connection.
Abort ==
    /\ ~entry.here
    /\ srv.phase \notin {"none", "ended"}
    /\ Ended
    /\ UNCHANGED <<entry, sends, cli, held, s2c, c2s, offers, gaveUp,
                   pinned, dials>>

\* A waiting send gets the write half.
WriteSend ==
    /\ \E s \in sends :
         /\ s2c' = Append(s2c, packet(s.code, s.key, ServerSeq(entry, 1)))
         /\ sends' = sends \ {s}
    /\ entry' = Outgoing(entry, 1)
    /\ UNCHANGED <<srv, cli, held, c2s, offers, gaveUp, pinned, dials>>

-----------------------------------------------------------------------------
(* The client.                                                             *)

\* The client dials and opens with its header; listen_client adds the entry
\* and sends its offer, obfuscated only.
Dial ==
    /\ cli.phase = "idle"
    /\ dials < MaxDials
    /\ offers < MaxOffers
    /\ dials' = dials + 1
    /\ offers' = offers + 1
    /\ srv' = [phase |-> "greet", key |-> Obfuscated, strays |-> 0, hand |-> NoPacket]
    /\ entry' = NewEntry
    /\ sends' = {}
    /\ c2s' = <<>>
    /\ s2c' = <<[packet("Offer", Obfuscated, 0) EXCEPT !.offer = offers + 1]>>
    /\ cli' = [cli EXCEPT !.phase = "dialed", !.seq = 0, !.heard = 0]
    /\ UNCHANGED <<held, gaveUp, pinned>>

Arrived == Head(s2c)

\* receive, on the client: the keys that the client reads with, and the order
\* of the numbers.
Reading == cli.phase \in {"dialed", "open", "rekeying"}

ReadKey == IF cli.phase = "dialed" THEN Obfuscated ELSE cli.key

Rising == Arrived.seq > cli.heard \/ cli.heard = 0 \/ Arrived.code = "Disconnect"

Acceptable == s2c # <<>> /\ Arrived.key = ReadKey /\ Rising

Heard == [cli EXCEPT !.heard = Arrived.seq]

\* Mutant: the end of the socket is not told from silence.
DropUnreadable ==
    /\ Reading
    /\ s2c # <<>> /\ ~Acceptable
    /\ cli' = [cli EXCEPT !.phase = "ended"]
    /\ UNCHANGED <<srv, entry, sends, held, s2c, c2s, offers, gaveUp,
                   pinned, dials>>

\* A packet that does not verify or does not rise, or the end of the socket:
\* the client takes it for the end of the server.
Drop ==
    /\ Reading
    /\ \/ s2c # <<>> /\ ~Acceptable
       \/ s2c = <<>> /\ sends = {} /\ ~entry.here /\ srv.phase = "ended"
    /\ cli' = [cli EXCEPT !.phase = "ended"]
    /\ UNCHANGED <<srv, entry, sends, held, s2c, c2s, offers, gaveUp,
                   pinned, dials>>

\* key_exchange waits for the offer and passes over every other packet.  The
\* reply to a verified offer goes out under the keys of the exchange.
ReadOffer ==
    /\ cli.phase \in {"dialed", "rekeying"}
    /\ Acceptable
    /\ s2c' = Tail(s2c)
    /\ IF Arrived.code = "Offer"
       THEN /\ c2s' = Append(c2s, [packet("Reply", ReadKey, cli.seq + 1)
                                     EXCEPT !.offer = Arrived.offer])
            /\ cli' = [Heard EXCEPT !.phase = "deriving", !.seq = @ + 1,
                                    !.offer = Arrived.offer]
       ELSE cli' = Heard /\ UNCHANGED c2s
    /\ UNCHANGED <<srv, entry, sends, held, offers, gaveUp, pinned, dials>>

\* The keys are derived and given to the other tasks; an identity that is not
\* pinned is put to the user.
Derive ==
    /\ cli.phase = "deriving"
    /\ cli' = [cli EXCEPT !.key = cli.offer, !.shared = cli.offer,
                          !.phase = IF pinned THEN "open" ELSE "prompt"]
    /\ UNCHANGED <<srv, entry, sends, held, s2c, c2s, offers, gaveUp,
                   pinned, dials>>

\* The user trusts the identity: it is pinned, and the client dials again.
Trust ==
    /\ cli.phase = "prompt"
    /\ pinned' = TRUE
    /\ ClientSends("Disconnect", cli.key, [cli EXCEPT !.phase = "idle"])
    /\ UNCHANGED <<srv, entry, sends, held, s2c, offers, gaveUp, dials>>

\* The user does not.
Refuse ==
    /\ cli.phase = "prompt"
    /\ ClientSends("Disconnect", cli.key, [cli EXCEPT !.phase = "ended"])
    /\ UNCHANGED <<srv, entry, sends, held, s2c, offers, gaveUp, pinned,
                   dials>>

\* A packet of listen_server's loop that the client answers at once.
Answer ==
    /\ cli.phase = "open"
    /\ Acceptable
    /\ Arrived.code \in {"KeepAlive", "Version"}
    /\ s2c' = Tail(s2c)
    /\ ClientSends(Arrived.code, cli.shared, Heard)
    /\ UNCHANGED <<srv, entry, sends, held, offers, gaveUp, pinned, dials>>

\* The other packets of the loop.
Take ==
    /\ cli.phase = "open"
    /\ Acceptable
    /\ Arrived.code \notin {"KeepAlive", "Version"}
    /\ s2c' = Tail(s2c)
    /\ cli' = CASE Arrived.code = "Rekey" -> [Heard EXCEPT !.phase = "rekeying"]
                [] Arrived.code = "Disconnect" -> [Heard EXCEPT !.phase = "ended"]
                [] Arrived.code = "Welcome" -> [Heard EXCEPT !.login = "asked"]
                [] Arrived.code = "Accept" -> [Heard EXCEPT !.login = "in"]
                [] OTHER -> Heard
    /\ UNCHANGED <<srv, entry, sends, held, c2s, offers, gaveUp, pinned,
                   dials>>

\* The interface's tasks write whether or not listen_server is in a rekey.
Running == cli.phase \in {"open", "rekeying", "deriving"}

LogIn ==
    /\ Running
    /\ cli.login = "asked"
    /\ ClientSends("Credentials", cli.shared, [cli EXCEPT !.login = "sent"])
    /\ UNCHANGED <<srv, entry, sends, held, s2c, offers, gaveUp, pinned,
                   dials>>

\* The keys are read with the write half in hand.
Type ==
    /\ Running
    /\ cli.login = "in"
    /\ cli.seq < MaxTyped
    /\ \E code \in {"Message", "Disconnect"} :
         ClientSends(code, cli.shared, cli)
    /\ UNCHANGED <<srv, entry, sends, held, s2c, offers, gaveUp, pinned,
                   dials>>

\* An upload copies the keys, reads and hashes its file, and then asks.
PrepareUpload ==
    /\ Running
    /\ cli.login = "in"
    /\ held = {}
    /\ held' = {cli.shared}
    /\ UNCHANGED <<srv, entry, sends, cli, s2c, c2s, offers, gaveUp,
                   pinned, dials>>

RequestUpload ==
    /\ Running
    /\ cli.seq < MaxTyped
    /\ \E key \in held : ClientSends("Message", key, cli)
    /\ held' = {}
    /\ UNCHANGED <<srv, entry, sends, s2c, offers, gaveUp, pinned, dials>>

-----------------------------------------------------------------------------

ServerNext ==
    \/ Timeout \/ ReadInvalid \/ ReadStray \/ ReadFirstReply \/ ReadReply
    \/ ReadVersion \/ ReadCredentials \/ SendAccept \/ Read \/ StartRekey \/ Reject \/ ReadEnd
    \/ Broadcast \/ KeepAlive \/ BuryDead \/ Kick \/ Abort \/ WriteSend

ClientNext ==
    \/ Dial \/ Drop \/ ReadOffer \/ Derive \/ Trust \/ Refuse
    \/ Answer \/ Take \/ LogIn \/ Type \/ PrepareUpload \/ RequestUpload

Next == ServerNext \/ ClientNext

Spec == Init /\ [][Next]_vars

\* Every read of untrusted_read ends, by a packet or by its timeout; sends and
\* removals complete; the client's task reads on.  What users, moderators and the
\* watchdog do is left open.
ServerReads == Timeout \/ ReadInvalid \/ ReadStray \/ ReadFirstReply
               \/ ReadReply \/ ReadVersion \/ SendAccept

ClientReads == Drop \/ ReadOffer \/ Derive \/ Answer \/ Take

FairSpec ==
    /\ Spec
    /\ WF_vars(ServerReads)
    /\ WF_vars(Abort)
    /\ WF_vars(WriteSend)
    /\ WF_vars(ClientReads)

-----------------------------------------------------------------------------
(* Properties.                                                             *)

\* The type of every variable.
TypeOK ==
    /\ srv \in [phase : SrvPhases, key : Keys, strays : 0 .. MaxStrays, hand : Packet]
    /\ entry \in [here : BOOLEAN, auth : BOOLEAN, key : Keys, seq : Nat,
                  out : Nat, alive : BOOLEAN]
    /\ sends \subseteq [code : Codes, key : Keys]
    /\ cli \in [phase : CliPhases, key : Keys, shared : Keys, seq : Nat,
                heard : Nat, offer : 0 .. MaxOffers,
                login : {"none", "asked", "sent", "in"}]
    /\ held \subseteq Keys
    /\ s2c \in Seq(Packet)
    /\ c2s \in Seq(Packet)
    /\ offers \in 0 .. MaxOffers
    /\ gaveUp \subseteq 1 .. MaxOffers
    /\ pinned \in BOOLEAN
    /\ dials \in 0 .. MaxDials

\* As long as the server holds the connection, neither side refuses the
\* other's next packet for its number: the counters of send_tcp and receive
\* fit together across logins, rekeys, redials and tasks that write at once.
SeqAccepted ==
    entry.here =>
        /\ c2s # <<>> => Incoming.seq > entry.seq
        /\ s2c # <<>> /\ Reading => Rising

\* The client's wait for an offer loses no packet of the server: the rekey's
\* two packets are written back to back, so what follows Rekey is the offer.
NothingPassedOver ==
    [][cli.phase = "rekeying" /\ s2c # <<>> /\ s2c' = Tail(s2c)
         => Arrived.code = "Offer"]_vars

\* The two loops run under the same keys, unless the server had given up the
\* exchange that the client went on to complete.
Agreed ==
    srv.phase = "session" /\ entry.here /\ cli.phase = "open" /\ cli.key # srv.key
        => cli.key \in gaveUp

\* A client whose connection the server has removed notices it, whatever it
\* was doing, unless its user is being asked about the server's identity:
\* neither listen_server nor the client's key_exchange has a timeout.
RemovalIsNoticed ==
    dials > 0 /\ ~entry.here ~> entry.here \/ cli.phase \in {"ended", "idle", "prompt"}

\* "On failure keys is left untouched, which the caller checks": after an
\* exchange the two loops do not go on under different keys.
KeysAgree ==
    srv.phase = "session" /\ entry.here /\ cli.phase = "open" => cli.key = srv.key

=============================================================================
