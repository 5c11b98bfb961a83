------------------------------ MODULE Sessions ------------------------------
(***************************************************************************)
(* The life of the main connections of the WHY2 server, from the insertion *)
(* of a NonAuthenticated entry to the end of the task that serves it       *)
(* (chat/src/network/server/mod.rs, the watchdog of chat/src/bin/server.rs)*)
(*                                                                         *)
(* The server runs on a multi-threaded executor.  One operation on the map *)
(* CONNECTIONS is atomic, two consecutive ones are not: a step of this     *)
(* module is one such operation, or the stretch of code between two awaits *)
(* when it touches the shared state once.  Aborting a task takes effect    *)
(* only where the task awaits.                                             *)
(***************************************************************************)
EXTENDS Naturals, FiniteSets

CONSTANTS
    Conns,           \* the sockets, by peer address; each is used once
    Users,           \* the usernames
    Watchdog,        \* the keepalive and inactivity task
    None,            \* no entry, no name, no id, no owner
    Rank,            \* the role of each user: 0 user, 1 moderator, 2 owner
    Ip,              \* the IP address of each socket
    VoiceChat,       \* whether voice chat is enabled
    KeepaliveEvery   \* a keepalive is sent every so many watchdog rounds

ASSUME ConnsAssumption == IsFiniteSet(Conns) /\ Watchdog \notin Conns
ASSUME NoneAssumption  == None \notin Conns \cup Users \cup Nat \cup {Watchdog}
ASSUME RankAssumption  == Rank \in [Users -> 0..2]
ASSUME VoiceAssumption == VoiceChat \in BOOLEAN
ASSUME EveryAssumption == KeepaliveEvery \in Nat \ {0}

Ids   == Nat
Entry == [user : Users \cup {None}, id : Ids \cup {None}, alive : BOOLEAN]

\* No entry is told from every entry.
ASSUME EntryAssumption == None \notin Entry

VARIABLES
    entry,     \* CONNECTIONS: the entry of each socket, or None
    task,      \* where the task of each socket is
    uname,     \* the task's local username
    sid,       \* the task's local session id
    todo,      \* the addresses an actor still has to remove
    grace,     \* whether that actor says Disconnect first
    tear,      \* the remove_connection an actor is in, or None
    aborted,   \* the sockets whose task was aborted
    voice,     \* voice CONNECTIONS: the taken slots, by session id, and who took them
    files,     \* AVAILABLE_FILES: who created the list of each username
    wd,        \* where the watchdog is
    tick,      \* the watchdog's round counter
    probe,     \* the addresses send_keepalive still has to look at
    dead,      \* the addresses it found dead
    sessions,  \* history: the sockets whose entry became Authenticated
    leaves     \* history: how often the Leave of a socket was broadcast

loginVars == <<entry, task, uname, sid, sessions>>
tearVars  == <<todo, grace, tear, aborted, leaves>>
sideVars  == <<voice, files>>
wdVars    == <<wd, tick, probe, dead>>
vars      == <<entry, task, uname, sid, todo, grace, tear, aborted, voice,
               files, wd, tick, probe, dead, sessions, leaves>>

Actors == Conns \cup {Watchdog}   \* who may run remove_connection

\* Where a task waits for its client: an abort ends it there.
AwaitPhases == {"kex", "name", "passwd", "greet", "live", "unvoice"}

\* Where a task is between two operations on shared state, without an await.
BusyPhases  == {"claim", "pick", "auth", "files", "voice"}

Phases == AwaitPhases \cup BusyPhases
            \cup {"closed", "closing", "moderating", "ended"}

Teardown == [target : Conns, user : Users \cup {None}, id : Ids \cup {None},
             step : {"farewell", "detach", "files", "leave", "abort"}]

TypeOK ==
    /\ entry \in [Conns -> Entry \cup {None}]
    /\ task \in [Conns -> Phases]
    /\ uname \in [Conns -> Users \cup {None}]
    /\ sid \in [Conns -> Ids \cup {None}]
    /\ todo \in [Actors -> SUBSET Conns]
    /\ grace \in [Actors -> BOOLEAN]
    /\ tear \in [Actors -> Teardown \cup {None}]
    /\ aborted \subseteq Conns
    /\ voice \subseteq Ids \X Conns
    /\ files \in [Users -> Conns \cup {None}]
    /\ wd \in {"sleep", "inactive", "probe", "reap"}
    /\ tick \in 0..KeepaliveEvery - 1
    /\ probe \subseteq Conns
    /\ dead \subseteq Conns
    /\ sessions \subseteq Conns
    /\ leaves \in [Conns -> Nat]

Init ==
    /\ entry = [c \in Conns |-> None]
    /\ task = [c \in Conns |-> "closed"]
    /\ uname = [c \in Conns |-> None]
    /\ sid = [c \in Conns |-> None]
    /\ todo = [x \in Actors |-> {}]
    /\ grace = [x \in Actors |-> FALSE]
    /\ tear = [x \in Actors |-> None]
    /\ aborted = {}
    /\ voice = {}
    /\ files = [u \in Users |-> None]
    /\ wd = "sleep"
    /\ tick = 0
    /\ probe = {}
    /\ dead = {}
    /\ sessions = {}
    /\ leaves = [c \in Conns |-> 0]

-----------------------------------------------------------------------------
(* The map CONNECTIONS.                                                    *)

Connected     == {c \in Conns : entry[c] # None}
Authenticated == {c \in Connected : entry[c].id # None}

user_connected(u) == \E c \in Connected : entry[c].user = u

UsedIds == {entry[c].id : c \in Authenticated}

\* i is the smallest session id that no entry holds.
get_latest_id(i) ==
    /\ i \notin UsedIds
    /\ \A j \in 0..i - 1 : j \in UsedIds

\* CONNECTIONS.get_mut and CONNECTIONS.alter: a missing entry stays missing.
Alter(c, new) == IF entry[c] = None THEN entry ELSE [entry EXCEPT ![c] = new]

\* The task of c is polled at an await: an abort would have ended it.
Resumes(c, phase) == task[c] = phase /\ c \notin aborted

Goto(c, phase) == task' = [task EXCEPT ![c] = phase]

-----------------------------------------------------------------------------
(* listen_client, up to the packet loop.                                   *)

\* The task starts: CONNECTIONS.insert(peer_addr, NonAuthenticated).
Open(c) ==
    /\ task[c] = "closed"
    /\ entry' = [entry EXCEPT ![c] = [user |-> None, id |-> None, alive |-> TRUE]]
    /\ Goto(c, "kex")
    /\ UNCHANGED <<uname, sid, sessions, tearVars, sideVars, wdVars>>

\* Key exchange (update_client_keys) and version check succeeded.
KeyExchange(c) ==
    /\ Resumes(c, "kex")
    /\ entry' = Alter(c, [entry[c] EXCEPT !.user = None])
    /\ Goto(c, "name")
    /\ UNCHANGED <<uname, sid, sessions, tearVars, sideVars, wdVars>>

\* The client offers a username that nobody connected has.
CheckName(c, u) ==
    /\ Resumes(c, "name")
    /\ ~user_connected(u)
    /\ uname' = [uname EXCEPT ![c] = u]
    /\ Goto(c, "claim")
    /\ UNCHANGED <<entry, sid, sessions, tearVars, sideVars, wdVars>>

\* The name is written to the entry, where user_connected will see it.
StoreName(c) ==
    /\ task[c] = "claim"
    /\ entry' = Alter(c, [entry[c] EXCEPT !.user = uname[c]])
    /\ Goto(c, "passwd")
    /\ UNCHANGED <<uname, sid, sessions, tearVars, sideVars, wdVars>>

\* The password was registered, or verified.
PasswordAccepted(c) ==
    /\ Resumes(c, "passwd")
    /\ Goto(c, "pick")
    /\ UNCHANGED <<entry, uname, sid, sessions, tearVars, sideVars, wdVars>>

\* let id = get_latest_id()
PickId(c) ==
    /\ task[c] = "pick"
    /\ \E i \in 0..Cardinality(Conns) :
          get_latest_id(i) /\ sid' = [sid EXCEPT ![c] = i]
    /\ Goto(c, "auth")
    /\ UNCHANGED <<entry, uname, sessions, tearVars, sideVars, wdVars>>

\* Mutant: the promoted entry is inserted, not altered.
AuthenticateInserts(c) ==
    /\ task[c] = "auth"
    /\ entry' = [entry EXCEPT ![c] = [user |-> uname[c], id |-> sid[c], alive |-> TRUE]]
    /\ sessions' = sessions \cup {c}
    /\ Goto(c, "files")
    /\ UNCHANGED <<uname, sid, tearVars, sideVars, wdVars>>

\* authenticate_client: the entry is promoted ...
Authenticate(c) ==
    /\ task[c] = "auth"
    /\ entry' = Alter(c, [user |-> uname[c], id |-> sid[c], alive |-> TRUE])
    /\ sessions' = IF entry[c] = None THEN sessions ELSE sessions \cup {c}
    /\ Goto(c, "files")
    /\ UNCHANGED <<uname, sid, tearVars, sideVars, wdVars>>

\* ... and the username is given a shared file list, whatever alter found.
GiveFiles(c) ==
    /\ task[c] = "files"
    /\ files' = [files EXCEPT ![uname[c]] = c]
    /\ Goto(c, "greet")
    /\ UNCHANGED <<entry, uname, sid, sessions, tearVars, voice, wdVars>>

\* History, Accept and List were sent, the Join is broadcast.
Greet(c) ==
    /\ Resumes(c, "greet")
    /\ Goto(c, "live")
    /\ UNCHANGED <<entry, uname, sid, sessions, tearVars, sideVars, wdVars>>

-----------------------------------------------------------------------------
(* The packet loop.                                                        *)

\* What a packet handler starts from: the entry it unwraps is there.
Receives(c) == Resumes(c, "live") /\ entry[c] # None

\* A packet arrives after the entry was removed: get(&peer_addr).unwrap().
Panic(c) ==
    /\ Resumes(c, "live")
    /\ entry[c] = None
    /\ Goto(c, "ended")
    /\ UNCHANGED <<entry, uname, sid, sessions, tearVars, sideVars, wdVars>>

\* A packet fails its HMAC: read_tcp returns None and the loop returns.
BadMac(c) ==
    /\ Resumes(c, "live")
    /\ Goto(c, "ended")
    /\ UNCHANGED <<entry, uname, sid, sessions, tearVars, sideVars, wdVars>>

\* KeepAlive: set_alive(true).
EchoKeepAlive(c) ==
    /\ Receives(c)
    /\ entry' = [entry EXCEPT ![c].alive = TRUE]
    /\ UNCHANGED <<task, uname, sid, sessions, tearVars, sideVars, wdVars>>

VoiceRequest(c) ==
    /\ Receives(c)
    /\ VoiceChat
    /\ Goto(c, "voice")
    /\ UNCHANGED <<entry, uname, sid, sessions, tearVars, sideVars, wdVars>>

\* The slot of the session id is opened if it is free; if it is taken the
\* client is told first that it leaves ...
ToggleVoice(c) ==
    /\ task[c] = "voice"
    /\ IF \A v \in voice : v[1] # sid[c]
       THEN voice' = voice \cup {<<sid[c], c>>} /\ Goto(c, "live")
       ELSE UNCHANGED voice /\ Goto(c, "unvoice")
    /\ UNCHANGED <<entry, uname, sid, sessions, tearVars, files, wdVars>>

\* ... and the slot is given up after that send.
LeaveVoice(c) ==
    /\ Resumes(c, "unvoice")
    /\ voice' = {v \in voice : v[1] # sid[c]}
    /\ Goto(c, "live")
    /\ UNCHANGED <<entry, uname, sid, sessions, tearVars, files, wdVars>>

\* An actor is given addresses to remove.
Assign(x, targets, g) ==
    /\ todo' = [todo EXCEPT ![x] = targets]
    /\ grace' = [grace EXCEPT ![x] = g]
    /\ UNCHANGED <<tear, aborted, leaves>>

\* The client disconnects, fails its login, or breaks the protocol: its own
\* task removes it (a read that fails is not graceful).
Close(c) ==
    /\ task[c] \in AwaitPhases \ {"greet", "unvoice"}
    /\ c \notin aborted
    /\ \E g \in BOOLEAN : Assign(c, {c}, g)
    /\ Goto(c, "closing")
    /\ UNCHANGED <<entry, uname, sid, sessions, sideVars, wdVars>>

\* ServerKick: a moderator removes a session of a lower rank.
ServerKick(c, d) ==
    /\ Receives(c)
    /\ d \in Authenticated
    /\ Rank[uname[c]] >= 1
    /\ Rank[entry[d].user] < Rank[uname[c]]
    /\ Assign(c, {d}, TRUE)
    /\ Goto(c, "moderating")
    /\ UNCHANGED <<entry, uname, sid, sessions, sideVars, wdVars>>

\* ServerBan: an owner bans a username other than their own, whatever its role,
\* and removes the session it has open.
ServerBan(c, d) ==
    /\ Receives(c)
    /\ d \in Authenticated
    /\ Rank[uname[c]] = 2
    /\ entry[d].user # uname[c]
    /\ Assign(c, {d}, TRUE)
    /\ Goto(c, "moderating")
    /\ UNCHANGED <<entry, uname, sid, sessions, sideVars, wdVars>>

\* ServerBanIp: an owner removes every connection from the address of another
\* session, their own included when it shares that address.
ServerBanIp(c, d) ==
    /\ Receives(c)
    /\ d \in Authenticated
    /\ Rank[uname[c]] = 2
    /\ entry[d].id # sid[c]
    /\ Assign(c, {e \in Connected : Ip[e] = Ip[d]}, TRUE)
    /\ Goto(c, "moderating")
    /\ UNCHANGED <<entry, uname, sid, sessions, sideVars, wdVars>>

-----------------------------------------------------------------------------
(* remove_connection(addr, grace), run by the actor x.                     *)

\* Mutant: the entry is looked up and left in the map.
BeginRemoveByLookup(x, d) ==
    /\ d \in todo[x]
    /\ tear[x] = None
    /\ todo' = [todo EXCEPT ![x] = @ \ {d}]
    /\ tear' = IF entry[d] = None THEN tear
               ELSE [tear EXCEPT ![x] =
                        [target |-> d, user |-> entry[d].user, id |-> entry[d].id,
                         step |-> IF entry[d].id # None THEN "detach" ELSE "abort"]]
    /\ UNCHANGED <<entry, task, uname, sid, sessions, grace, aborted, leaves, sideVars, wdVars>>

\* Mutant: the task is aborted as soon as its entry is out of the map.
BeginRemoveAbortsFirst(x, d) ==
    /\ d \in todo[x]
    /\ tear[x] = None
    /\ todo' = [todo EXCEPT ![x] = @ \ {d}]
    /\ entry' = [entry EXCEPT ![d] = None]
    /\ aborted' = aborted \cup {d}
    /\ tear' = IF entry[d] = None THEN tear
               ELSE [tear EXCEPT ![x] =
                        [target |-> d, user |-> entry[d].user, id |-> entry[d].id,
                         step |-> IF entry[d].id # None THEN "detach" ELSE "abort"]]
    /\ UNCHANGED <<task, uname, sid, sessions, grace, leaves, sideVars, wdVars>>

\* CONNECTIONS.remove(peer_addr): whoever gets the entry tears it down.
BeginRemove(x, d) ==
    /\ d \in todo[x]
    /\ tear[x] = None
    /\ todo' = [todo EXCEPT ![x] = @ \ {d}]
    /\ entry' = [entry EXCEPT ![d] = None]
    /\ tear' = IF entry[d] = None THEN tear
               ELSE [tear EXCEPT ![x] =
                        [target |-> d, user |-> entry[d].user, id |-> entry[d].id,
                         step |-> IF grace[x] THEN "farewell"
                                  ELSE IF entry[d].id # None THEN "detach"
                                  ELSE "abort"]]
    /\ UNCHANGED <<task, uname, sid, sessions, grace, aborted, leaves, sideVars, wdVars>>

Advance(x, step) == tear' = [tear EXCEPT ![x].step = step]

Tearing(x, step) == tear[x] # None /\ tear[x].step = step

\* Mutant: an authenticated connection is not told from any other.
FarewellAborts(x) ==
    /\ Tearing(x, "farewell")
    /\ Advance(x, "abort")
    /\ UNCHANGED <<loginVars, todo, grace, aborted, leaves, sideVars, wdVars>>

\* The Disconnect was sent; an unauthenticated connection has nothing else.
Farewell(x) ==
    /\ Tearing(x, "farewell")
    /\ Advance(x, IF tear[x].id # None THEN "detach" ELSE "abort")
    /\ UNCHANGED <<loginVars, todo, grace, aborted, leaves, sideVars, wdVars>>

\* File streams, screen share and viewers are let go, then the voice slot.
Detach(x) ==
    /\ Tearing(x, "detach")
    /\ voice' = {v \in voice : VoiceChat => v[1] # tear[x].id}
    /\ Advance(x, "files")
    /\ UNCHANGED <<loginVars, todo, grace, aborted, leaves, files, wdVars>>

\* The upload directory is gone, then the shared file list.
DropFiles(x) ==
    /\ Tearing(x, "files")
    /\ files' = [files EXCEPT ![tear[x].user] = None]
    /\ Advance(x, "leave")
    /\ UNCHANGED <<loginVars, todo, grace, aborted, leaves, voice, wdVars>>

\* The Leave is broadcast.
SayLeave(x) ==
    /\ Tearing(x, "leave")
    /\ leaves' = [leaves EXCEPT ![tear[x].target] = @ + 1]
    /\ Advance(x, "abort")
    /\ UNCHANGED <<loginVars, todo, grace, aborted, sideVars, wdVars>>

\* connection.task().abort(), which must be last.
AbortTask(x) ==
    /\ Tearing(x, "abort")
    /\ aborted' = aborted \cup {tear[x].target}
    /\ tear' = [tear EXCEPT ![x] = None]
    /\ UNCHANGED <<loginVars, todo, grace, leaves, sideVars, wdVars>>

\* The task that asked for the removals returns from them.
Return(c) ==
    /\ task[c] \in {"closing", "moderating"}
    /\ todo[c] = {}
    /\ tear[c] = None
    /\ Goto(c, IF task[c] = "closing" THEN "ended" ELSE "live")
    /\ UNCHANGED <<entry, uname, sid, sessions, tearVars, sideVars, wdVars>>

\* An aborted task reaches an await: it is dropped with whatever it was doing.
Cancel(c) ==
    /\ c \in aborted
    /\ \/ task[c] \in AwaitPhases
       \/ tear[c] # None /\ tear[c].step \in {"farewell", "detach", "files"}
    /\ Goto(c, "ended")
    /\ todo' = [todo EXCEPT ![c] = {}]
    /\ tear' = [tear EXCEPT ![c] = None]
    /\ UNCHANGED <<entry, uname, sid, sessions, grace, aborted, leaves, sideVars, wdVars>>

-----------------------------------------------------------------------------
(* The watchdog.                                                           *)

WatchdogFree == todo[Watchdog] = {} /\ tear[Watchdog] = None

\* disconnect_inactive: whose time is up is the clock's choice.
DisconnectInactive ==
    /\ wd = "sleep"
    /\ \E late \in SUBSET Connected : Assign(Watchdog, late, TRUE)
    /\ wd' = "inactive"
    /\ UNCHANGED <<loginVars, sideVars, tick, probe, dead>>

\* The round ends; every KeepaliveEvery-th one goes on to send_keepalive.
EndRound ==
    /\ wd = "inactive"
    /\ WatchdogFree
    /\ tick' = (tick + 1) % KeepaliveEvery
    /\ IF tick' = 0 THEN wd' = "probe" /\ probe' = Authenticated
                    ELSE wd' = "sleep" /\ UNCHANGED probe
    /\ UNCHANGED <<loginVars, tearVars, sideVars, dead>>

\* Mutant: a probed client stays alive whatever it answers.
ProbeForgets(c) ==
    /\ wd = "probe"
    /\ c \in probe
    /\ probe' = probe \ {c}
    /\ dead' = IF entry[c] # None /\ ~entry[c].alive THEN dead \cup {c} ELSE dead
    /\ UNCHANGED <<loginVars, tearVars, sideVars, wd, tick>>

\* One address: dead if it has not answered, else presumed dead until it does.
Probe(c) ==
    /\ wd = "probe"
    /\ c \in probe
    /\ probe' = probe \ {c}
    /\ dead' = IF entry[c] # None /\ ~entry[c].alive THEN dead \cup {c} ELSE dead
    /\ entry' = Alter(c, [entry[c] EXCEPT !.alive = FALSE])
    /\ UNCHANGED <<task, uname, sid, sessions, tearVars, sideVars, wd, tick>>

\* The dead are removed without a word ...
Reap ==
    /\ wd = "probe"
    /\ probe = {}
    /\ Assign(Watchdog, dead, FALSE)
    /\ dead' = {}
    /\ wd' = "reap"
    /\ UNCHANGED <<loginVars, sideVars, tick, probe>>

\* ... and the watchdog sleeps again.
EndReap ==
    /\ wd = "reap"
    /\ WatchdogFree
    /\ wd' = "sleep"
    /\ UNCHANGED <<loginVars, tearVars, sideVars, tick, probe, dead>>

-----------------------------------------------------------------------------

\* The steps a task takes without anything from its client.
TaskStep(c) ==
    \/ StoreName(c) \/ PickId(c) \/ Authenticate(c) \/ GiveFiles(c)
    \/ Greet(c) \/ ToggleVoice(c) \/ LeaveVoice(c) \/ Return(c) \/ Cancel(c)

ClientStep(c) ==
    \/ Open(c) \/ KeyExchange(c) \/ PasswordAccepted(c) \/ Close(c)
    \/ Panic(c) \/ BadMac(c) \/ EchoKeepAlive(c) \/ VoiceRequest(c)
    \/ \E u \in Users : CheckName(c, u)
    \/ \E d \in Conns : ServerKick(c, d) \/ ServerBan(c, d) \/ ServerBanIp(c, d)

RemoveStep(x) ==
    \/ \E d \in Conns : BeginRemove(x, d)
    \/ Farewell(x) \/ Detach(x) \/ DropFiles(x) \/ SayLeave(x) \/ AbortTask(x)

WatchdogStep ==
    \/ DisconnectInactive \/ EndRound \/ Reap \/ EndReap
    \/ \E c \in Conns : Probe(c)

Next ==
    \/ \E c \in Conns : TaskStep(c) \/ ClientStep(c)
    \/ \E x \in Actors : RemoveStep(x)
    \/ WatchdogStep

Spec == Init /\ [][Next]_vars

\* The executor polls every runnable task, and the watchdog's sleep ends.
Fairness ==
    /\ \A c \in Conns : WF_vars(TaskStep(c))
    /\ \A x \in Actors : WF_vars(RemoveStep(x))
    /\ WF_vars(WatchdogStep)

FairSpec == Spec /\ Fairness

-----------------------------------------------------------------------------
(* Properties.                                                             *)

\* A connection that was removed never comes back: the login that was still
\* running (an Argon2 hash, a prompt) when the watchdog dropped it may finish
\* and promote the entry, but must find nothing to promote.
NoResurrection ==
    [][\A c \in Conns : task[c] # "closed" /\ entry[c] = None => entry'[c] = None]_vars

\* remove_connection may be entered for the same address by the connection's
\* own task, by a moderator's and by the watchdog at once.  Only one of them
\* tears the session down, and its Leave is never broadcast twice.
TornDownOnce ==
    /\ \A x, y \in Actors :
          x # y /\ tear[x] # None /\ tear[y] # None => tear[x].target # tear[y].target
    /\ \A c \in Conns : leaves[c] <= 1

\* "MUST BE LAST": by the time the task of a session is aborted its Leave has
\* been broadcast, so a session that removes itself does not die halfway.
AbortIsLast ==
    \A c \in aborted : c \in sessions => leaves[c] = 1

\* Where a connection is in its life, read off the map, the set of aborted
\* tasks and what was broadcast.
Life(c) ==
    IF task[c] = "closed" THEN "new"
    ELSE IF entry[c] # None THEN IF entry[c].id = None THEN "guest" ELSE "member"
    ELSE IF c \in aborted THEN "over"
    ELSE IF c \notin sessions THEN "dropped"
    ELSE IF leaves[c] = 0 THEN "leaving" ELSE "left"

Lives == INSTANCE SessionLife WITH life <- [c \in Conns |-> Life(c)], told <- leaves

\* The logins, removals and aborts of all the tasks add up to one orderly life
\* per connection: no step takes two stages at once or goes back, a login that
\* was still running when its entry was removed (an Argon2 hash, a prompt)
\* finds nothing to promote, the Leave is broadcast for members only, once,
\* after the removal, and the task is aborted after that.
OrderlyLives == Lives!LifeSpec

\* A teardown that was begun is finished: the Leave of every session that is
\* gone from the map is eventually broadcast.
TeardownFinishes ==
    \A c \in Conns : c \in sessions /\ entry[c] = None ~> leaves[c] = 1

\* A task that ended without removing its connection (a packet with a wrong
\* HMAC) leaves an entry nobody serves; the keepalive rounds collect it.
UnservedIsReaped ==
    \A c \in Conns : task[c] = "ended" /\ entry[c] # None ~> entry[c] = None

=============================================================================
