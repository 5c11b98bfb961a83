------------------------------ MODULE Admission ------------------------------
(***************************************************************************)
(* How a socket becomes a connection of the server: the accept loop        *)
(* (chat/src/bin/server.rs), the handshake slots                           *)
(* (chat/src/network/server/handshake.rs), the one-time tokens of the      *)
(* auxiliary connections and the first steps of listen_client              *)
(* (chat/src/network/server/mod.rs).                                       *)
(*                                                                         *)
(* The loop takes sockets one by one; what follows runs in a task of each  *)
(* socket, and the release of a slot is three steps of it.  What a         *)
(* connection does later is in modules Sessions and Accounts.              *)
(***************************************************************************)
EXTENDS Integers, FiniteSets

CONSTANTS
    Sockets,            \* the sockets that come
    Peer,               \* the address each one comes from
    MaxPerIp,           \* MAX_HANDSHAKES_PER_IP
    Budget,             \* max_handshakes()
    MaxClients,         \* max_clients
    MaxUnauth,          \* max_unauth_clients
    MaxIpClients,       \* max_ip_clients
    Tokens              \* the tokens a session may be given

Ips == {Peer[s] : s \in Sockets}

ASSUME AdmissionAssumption ==
    /\ IsFiniteSet(Sockets)
    /\ MaxPerIp \in Nat \ {0} /\ Budget \in Nat \ {0}
    /\ MaxClients \in Nat /\ MaxUnauth \in Nat /\ MaxIpClients \in Nat

VARIABLES
    banned,     \* the banned addresses
    handshakes, \* HANDSHAKES
    perIp,      \* HANDSHAKES_PER_IP; 0 is an absent entry as well
    slot,       \* of each socket: "none", "taken" (by the loop), "held", "sub", "dec",
                \* "remove" (the steps of the drop) or "free"
    stage,      \* of each socket: "none", "header", "spawned" (listen_client has not
                \* run), "unauth", "auth", "aux" or "over"
    pending     \* PENDING_TOKENS

admitVars == <<banned, handshakes, perIp, slot, stage, pending>>

AdmitInit ==
    /\ banned = {} /\ handshakes = 0 /\ perIp = [i \in Ips |-> 0]
    /\ slot = [s \in Sockets |-> "none"] /\ stage = [s \in Sockets |-> "none"]
    /\ pending = {}

Set(f, s, v) == [f EXCEPT ![s] = v]
Connections  == {s \in Sockets : stage[s] \in {"unauth", "auth"}}
Authed       == {s \in Sockets : stage[s] = "auth"}

-----------------------------------------------------------------------------
(* HandshakeSlot.                                                          *)

\* The loop tests the ban and the budget and counts the address; the total is counted
\* in a step of its own.
Reserve(s) ==
    /\ slot[s] = "none" /\ \A t \in Sockets : slot[t] # "taken"
    /\ Peer[s] \notin banned
    /\ handshakes < Budget /\ perIp[Peer[s]] < MaxPerIp
    /\ perIp' = Set(perIp, Peer[s], perIp[Peer[s]] + 1)
    /\ slot' = Set(slot, s, "taken")
    /\ UNCHANGED <<banned, handshakes, stage, pending>>

Reserved(s) ==
    /\ slot[s] = "taken"
    /\ handshakes' = handshakes + 1
    /\ slot' = Set(slot, s, "held") /\ stage' = Set(stage, s, "header")
    /\ UNCHANGED <<banned, perIp, pending>>

\* A socket the loop turns away: banned, or over the budget.
Reject(s) ==
    /\ slot[s] = "none" /\ \A t \in Sockets : slot[t] # "taken"
    /\ Peer[s] \in banned \/ handshakes >= Budget \/ perIp[Peer[s]] >= MaxPerIp
    /\ slot' = Set(slot, s, "free") /\ stage' = Set(stage, s, "over")
    /\ UNCHANGED <<banned, handshakes, perIp, pending>>

DropTotal(s) ==
    /\ slot[s] = "sub"
    /\ handshakes' = handshakes - 1
    /\ slot' = Set(slot, s, "dec")
    /\ UNCHANGED <<banned, perIp, stage, pending>>

DropPeer(s) ==
    /\ slot[s] = "dec"
    /\ LET left == IF perIp[Peer[s]] = 0 THEN 0 ELSE perIp[Peer[s]] - 1
       IN  /\ perIp' = Set(perIp, Peer[s], left)
           /\ slot' = Set(slot, s, IF left = 0 THEN "remove" ELSE "free")
    /\ UNCHANGED <<banned, handshakes, stage, pending>>

\* Mutant: the entry is removed although it was counted up meanwhile.
RemoveAlways(s) == slot[s] = "remove"

\* The entry is removed while it still stands at zero.
Removes(s) == slot[s] = "remove" /\ perIp[Peer[s]] = 0

DropEntry(s) ==
    /\ slot[s] = "remove"
    /\ perIp' = IF Removes(s) THEN Set(perIp, Peer[s], 0) ELSE perIp
    /\ slot' = Set(slot, s, "free")
    /\ UNCHANGED <<banned, handshakes, stage, pending>>

-----------------------------------------------------------------------------
(* The task of a socket.                                                   *)

\* The task returns, and with it goes its slot.
Returns(s, t) == stage' = Set(stage, s, t) /\ slot' = Set(slot, s, "sub")

\* No header in two seconds, or the socket breaks.
HeaderFails(s) ==
    /\ stage[s] = "header" /\ Returns(s, "over")
    /\ UNCHANGED <<banned, handshakes, perIp, pending>>

\* The header is a token that waits: the auxiliary connection it was minted for.
Auxiliary(s, k) ==
    /\ stage[s] = "header" /\ k \in pending
    /\ pending' = pending \ {k}
    /\ Returns(s, "aux")
    /\ UNCHANGED <<banned, handshakes, perIp>>

Full(s) ==
    \/ Cardinality(Authed) >= MaxClients
    \/ Cardinality(Connections \ Authed) >= MaxUnauth
    \/ Cardinality({t \in Connections : Peer[t] = Peer[s]}) >= MaxIpClients

\* Any other header opens a main connection, if the limits allow.
Admit(s) ==
    /\ stage[s] = "header"
    /\ Returns(s, IF Full(s) THEN "over" ELSE "spawned")
    /\ UNCHANGED <<banned, handshakes, perIp, pending>>

\* listen_client inserts its connection.
Insert(s) ==
    /\ stage[s] = "spawned"
    /\ stage' = Set(stage, s, "unauth")
    /\ UNCHANGED <<banned, handshakes, perIp, slot, pending>>

Login(s) ==
    /\ stage[s] = "unauth"
    /\ stage' = Set(stage, s, "auth")
    /\ UNCHANGED <<banned, handshakes, perIp, slot, pending>>

\* The connection ends, or the watchdog finds it inactive; an auxiliary one ends.
CloseSocket(s) ==
    /\ stage[s] \in {"unauth", "auth", "aux"}
    /\ stage' = Set(stage, s, "over")
    /\ UNCHANGED <<banned, handshakes, perIp, slot, pending>>

\* open_connection, for a session that asks for a transfer or a share.
Mint(k) ==
    /\ Authed # {} /\ k \notin pending
    /\ pending' = pending \cup {k}
    /\ UNCHANGED <<banned, handshakes, perIp, slot, stage>>

\* The watchdog removes the tokens of five seconds ago.
Expire ==
    /\ \E old \in SUBSET pending : old # {} /\ pending' = pending \ old
    /\ UNCHANGED <<banned, handshakes, perIp, slot, stage>>

BanIp(i) ==
    /\ Authed # {} /\ i \notin banned
    /\ banned' = banned \cup {i}
    /\ UNCHANGED <<handshakes, perIp, slot, stage, pending>>

\* A socket that is done with may come again.
Again(s) ==
    /\ slot[s] = "free" /\ stage[s] = "over"
    /\ slot' = Set(slot, s, "none") /\ stage' = Set(stage, s, "none")
    /\ UNCHANGED <<banned, handshakes, perIp, pending>>

AdmitNext ==
    \/ \E s \in Sockets :
         \/ Reserve(s) \/ Reserved(s) \/ Reject(s)
         \/ DropTotal(s) \/ DropPeer(s) \/ DropEntry(s)
         \/ HeaderFails(s) \/ Admit(s) \/ Insert(s) \/ Login(s) \/ CloseSocket(s) \/ Again(s)
         \/ \E k \in Tokens : Auxiliary(s, k)
    \/ \E k \in Tokens : Mint(k)
    \/ Expire
    \/ \E i \in Ips : BanIp(i)

AdmitSpec == AdmitInit /\ [][AdmitNext]_admitVars

-----------------------------------------------------------------------------
(* Properties.                                                             *)

Holds(s) == slot[s] \in {"taken", "held", "sub", "dec"}

\* HandshakeSlot: the count of an address is the number of its sockets that hold a slot,
\* however the reservations of the loop fall between the steps of the releases, so that
\* no address holds more than its share and none is locked out by slots given back; and
\* the total is the number of the slots counted and not given back yet.
SlotsAreCounted ==
    /\ \A i \in Ips :
         perIp[i] = Cardinality({s \in Sockets : Peer[s] = i /\ Holds(s)})
    /\ handshakes = Cardinality({s \in Sockets : slot[s] \in {"held", "sub"}})

\* MAX_HANDSHAKES_PER_IP and max_handshakes(): both limits hold of what is being served,
\* although the loop tests the total before it counts it and tasks give slots back
\* meanwhile: nobody but the loop counts up.
WithinLimits == handshakes <= Budget /\ \A i \in Ips : perIp[i] <= MaxPerIp

\* "max_ip_clients = 3 # Maximal number of clients from same IP" (config/server.toml).
\* The accept task counts the connections of the address, and the connection it lets in
\* is inserted by another task later.
IpLimitHolds ==
    \A i \in Ips : Cardinality({s \in Connections : Peer[s] = i}) <= MaxIpClients
=============================================================================
