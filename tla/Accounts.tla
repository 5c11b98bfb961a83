------------------------------ MODULE Accounts ------------------------------
(***************************************************************************)
(* The account store and the ban list of the WHY2 server, and the sessions *)
(* that log in to the accounts, register, rank, ban and delete them        *)
(* (chat/src/config/users.rs, bans.rs and the handlers of                  *)
(* chat/src/network/server/mod.rs).                                        *)
(*                                                                         *)
(* Every read or write of server_users.toml, server_bans.toml and          *)
(* CONNECTIONS is atomic; two of them are not, on a server with several    *)
(* threads.  A step of a task is one such operation together with the      *)
(* awaits before it.  A task whose entry was removed is aborted at its     *)
(* next await, and goes on until then.                                     *)
(***************************************************************************)
EXTENDS Integers, Sequences, SequencesExt

CONSTANTS
    Conns,   \* the peer addresses; one is free again when its task has ended
    Users,   \* the usernames
    Words,   \* the passwords
    None     \* no name, no password, no role, nothing remembered

ASSUME NoneAssumption == None \notin Conns \cup Users \cup Words \cup Int

VARIABLES
    entries,    \* server_users.toml: the usernames that have a table
    password,   \* the password key of each table
    role,       \* the role key of each table
    bans,       \* server_bans.toml: the list "user"
    conns,      \* CONNECTIONS: the addresses that have an entry
    named,      \* the username of each entry
    live,       \* the role of each authenticated entry
    task,       \* where the task of each address is
    uname,      \* the task's local username
    held,       \* what the task remembers between two operations
    founders,   \* history: who was registered as the first user, and not deleted
    clashed     \* history: whether two tasks ever served one username

storeVars == <<entries, password, role, founders>>
connVars  == <<conns, named, live>>
vars      == <<entries, password, role, bans, conns, named, live, task, uname,
               held, founders, clashed>>

Ranks == 0..2
User  == 0
Owner == 2

\* Where a task waits for its client, for a hash or for a send.
AwaitPhases == {"register", "login", "verify", "live", "read", "rehash", "delete", "evict"}

Phases == AwaitPhases \cup
            {"out", "claim", "lookup", "setpass", "setrole", "fill", "hash", "enter",
             "admit", "packet", "grant", "apply", "ban", "close"}

\* Where the task of a session is after its login.
SessionPhases == {"live", "read", "packet", "grant", "apply", "ban", "evict",
                  "rehash", "delete", "close"}

\* latch: the role of the login; rank: the role read for the packet at hand;
\* user, role, word, conn: the target and the values a handler works with.
Held == [latch : Ranks \cup {None}, rank : Ranks \cup {None}, user : Users \cup {None},
         role : Ranks \cup {None}, word : Words \cup {None}, conn : Conns \cup {None}]

Nothing == [latch |-> None, rank |-> None, user |-> None,
            role |-> None, word |-> None, conn |-> None]

TypeOK ==
    /\ entries \subseteq Users
    /\ password \in [Users -> Words \cup {None}]
    /\ role \in [Users -> Ranks \cup {None}]
    /\ bans \in Seq(Users)
    /\ \A i, j \in DOMAIN bans : bans[i] = bans[j] => i = j
    /\ conns \subseteq Conns
    /\ named \in [Conns -> Users \cup {None}]
    /\ live \in [Conns -> Ranks \cup {None}]
    /\ task \in [Conns -> Phases]
    /\ uname \in [Conns -> Users \cup {None}]
    /\ held \in [Conns -> Held]
    /\ founders \subseteq Users
    /\ clashed \in BOOLEAN

Init ==
    /\ entries = {}
    /\ password = [u \in Users |-> None]
    /\ role = [u \in Users |-> None]
    /\ bans = << >>
    /\ conns = {}
    /\ named = [c \in Conns |-> None]
    /\ live = [c \in Conns |-> None]
    /\ task = [c \in Conns |-> "out"]
    /\ uname = [c \in Conns |-> None]
    /\ held = [c \in Conns |-> Nothing]
    /\ founders = {}
    /\ clashed = FALSE

-----------------------------------------------------------------------------
(* The account store and the map CONNECTIONS.                              *)

\* write_user_field and write_profile_field: a missing table is created.
Touch(u) == entries' = entries \cup {u}

set_password(u, w) ==
    /\ Touch(u)
    /\ password' = [password EXCEPT ![u] = w]

set_role(u, r) ==
    /\ Touch(u)
    /\ role' = [role EXCEPT ![u] = r]

banned(u) == \E i \in DOMAIN bans : bans[i] = u

user_connected(u) == \E d \in conns : named[d] = u

\* The authenticated sessions of u.
SessionsOf(u) == {d \in conns : live[d] # None /\ named[d] = u}

\* resolve_user: an account, or the username of a session given by its id.
resolve_user(u) == u \in entries \/ SessionsOf(u) # {}

\* The task of c goes on at phase p and remembers h.
Goto(c, p, h) ==
    /\ task' = [task EXCEPT ![c] = p]
    /\ held' = [held EXCEPT ![c] = h]

\* CONNECTIONS.remove of the addresses of S.
RemoveEntries(S) ==
    /\ conns' = conns \ S
    /\ named' = [d \in Conns |-> IF d \in S THEN None ELSE named[d]]
    /\ live' = [d \in Conns |-> IF d \in S THEN None ELSE live[d]]

\* The task of c ends, after it removed its own entry.
Leave(c) ==
    /\ RemoveEntries({c})
    /\ task' = [task EXCEPT ![c] = "out"]
    /\ uname' = [uname EXCEPT ![c] = None]
    /\ held' = [held EXCEPT ![c] = Nothing]

-----------------------------------------------------------------------------
(* The login of listen_client.                                             *)

\* A new connection picks a username that no connection has.
CheckName(c, u) ==
    /\ task[c] = "out"
    /\ ~user_connected(u)
    /\ conns' = conns \cup {c}
    /\ uname' = [uname EXCEPT ![c] = u]
    /\ clashed' = (clashed \/ \E d \in Conns \ {c} : uname[d] = u)
    /\ Goto(c, "claim", Nothing)
    /\ UNCHANGED <<storeVars, bans, named, live>>

\* The name is stored in the entry, if there still is one.
StoreName(c) ==
    /\ task[c] = "claim"
    /\ named' = IF c \in conns THEN [named EXCEPT ![c] = uname[c]] ELSE named
    /\ Goto(c, "lookup", Nothing)
    /\ UNCHANGED <<storeVars, bans, conns, live, uname, clashed>>

\* users::contains: a new name registers, unless registrations are disabled.
GoRegister(c) ==
    /\ task[c] = "lookup"
    /\ uname[c] \notin entries
    /\ Goto(c, "register", Nothing)
    /\ UNCHANGED <<storeVars, bans, connVars, uname, clashed>>

\* A known name logs in, and so does any name while registrations are disabled.
GoLogin(c) ==
    /\ task[c] = "lookup"
    /\ Goto(c, "login", Nothing)
    /\ UNCHANGED <<storeVars, bans, connVars, uname, clashed>>

\* users::add, first part: the password was hashed, is this the first user?
CountUsers(c, w) ==
    /\ task[c] = "register"
    /\ Goto(c, "setpass", [Nothing EXCEPT !.word = w,
                               !.role = IF entries = {} THEN Owner ELSE User])
    /\ UNCHANGED <<storeVars, bans, connVars, uname, clashed>>

\* users::add, second part: the password.
AddPassword(c) ==
    /\ task[c] = "setpass"
    /\ set_password(uname[c], held[c].word)
    /\ Goto(c, "setrole", [held[c] EXCEPT !.word = None])
    /\ UNCHANGED <<role, founders, bans, connVars, uname, clashed>>

\* users::add, third part: the role.
AddRole(c) ==
    /\ task[c] = "setrole"
    /\ set_role(uname[c], held[c].role)
    /\ founders' = IF held[c].role = Owner THEN founders \cup {uname[c]} ELSE founders
    /\ Goto(c, "fill", Nothing)
    /\ UNCHANGED <<password, bans, connVars, uname, clashed>>

\* users::add, the rest: the colors and the profile.
AddFields(c) ==
    /\ task[c] = "fill"
    /\ Touch(uname[c])
    /\ Goto(c, "enter", Nothing)
    /\ UNCHANGED <<password, role, founders, bans, connVars, uname, clashed>>

\* The password arrived: a banned name is not even compared.
CheckBan(c) ==
    /\ task[c] = "login"
    /\ ~banned(uname[c])
    /\ Goto(c, "hash", Nothing)
    /\ UNCHANGED <<storeVars, bans, connVars, uname, clashed>>

\* Mutant: an account without a hash accepts every password.
ReadHashOrNone(c, w) ==
    /\ task[c] = "hash"
    /\ password[uname[c]] \in {w, None}
    /\ Goto(c, "verify", Nothing)
    /\ UNCHANGED <<storeVars, bans, connVars, uname, clashed>>

\* verify_password reads the hash and begins to compare it with w.
ReadHash(c, w) ==
    /\ task[c] = "hash"
    /\ password[uname[c]] = w
    /\ Goto(c, "verify", Nothing)
    /\ UNCHANGED <<storeVars, bans, connVars, uname, clashed>>

\* The comparison ends well.
Verified(c) ==
    /\ task[c] = "verify"
    /\ Goto(c, "enter", Nothing)
    /\ UNCHANGED <<storeVars, bans, connVars, uname, clashed>>

\* A banned name, an empty or a wrong password, or an unknown user is sent off.
Refuse(c) ==
    /\ task[c] \in {"login", "hash"}
    /\ Leave(c)
    /\ UNCHANGED <<storeVars, bans, clashed>>

\* users::role(...).unwrap_or_default()
ReadRole(c) ==
    /\ task[c] = "enter"
    /\ Goto(c, "admit", [Nothing EXCEPT !.latch =
                IF role[uname[c]] = None THEN User ELSE role[uname[c]]])
    /\ UNCHANGED <<storeVars, bans, connVars, uname, clashed>>

\* authenticate_client promotes the entry, if there still is one.
Admit(c) ==
    /\ task[c] = "admit"
    /\ live' = IF c \in conns THEN [live EXCEPT ![c] = held[c].latch] ELSE live
    /\ named' = IF c \in conns THEN [named EXCEPT ![c] = uname[c]] ELSE named
    /\ Goto(c, "live", held[c])
    /\ UNCHANGED <<storeVars, bans, conns, uname, clashed>>

-----------------------------------------------------------------------------
(* The packet loop.                                                        *)

\* What is left of the task's memory between two packets.
Between(c) == [Nothing EXCEPT !.latch = held[c].latch]

\* A packet arrived; the age of the keys is looked up in the entry.
Receive(c) ==
    /\ task[c] = "live"
    /\ c \in conns
    /\ Goto(c, "read", held[c])
    /\ UNCHANGED <<storeVars, bans, connVars, uname, clashed>>

\* The role is read again; without an entry it is the role of the login.
RereadRole(c) ==
    /\ task[c] = "read"
    /\ Goto(c, "packet", [held[c] EXCEPT !.rank =
                IF c \in conns /\ live[c] # None THEN live[c] ELSE held[c].latch])
    /\ UNCHANGED <<storeVars, bans, connVars, uname, clashed>>

\* The packet changes no account, or is refused.
Ignore(c) ==
    /\ task[c] = "packet"
    /\ Goto(c, "live", Between(c))
    /\ UNCHANGED <<storeVars, bans, connVars, uname, clashed>>

\* ServerRoleRequest: an owner ranks u, who is neither a peer nor a superior.
AskRole(c, u, r) ==
    /\ task[c] = "packet"
    /\ held[c].rank >= Owner /\ r <= held[c].rank
    /\ resolve_user(u) /\ u # uname[c]
    /\ role[u] # None /\ role[u] < held[c].rank /\ role[u] # r
    /\ Goto(c, "grant", [Between(c) EXCEPT !.user = u, !.role = r])
    /\ UNCHANGED <<storeVars, bans, connVars, uname, clashed>>

StoreRole(c) ==
    /\ task[c] = "grant"
    /\ set_role(held[c].user, held[c].role)
    /\ Goto(c, "apply", held[c])
    /\ UNCHANGED <<password, founders, bans, connVars, uname, clashed>>

\* The live sessions of the target are given the role.
ApplyRole(c) ==
    /\ task[c] = "apply"
    /\ live' = [d \in Conns |-> IF d \in SessionsOf(held[c].user)
                                THEN held[c].role ELSE live[d]]
    /\ Goto(c, "live", Between(c))
    /\ UNCHANGED <<storeVars, bans, conns, named, uname, clashed>>

\* ServerBan: an owner bans u; the session of u is looked up first.
AskBan(c, u) ==
    /\ task[c] = "packet"
    /\ held[c].rank >= Owner
    /\ resolve_user(u) /\ u # uname[c]
    /\ \E d \in IF SessionsOf(u) = {} THEN {None} ELSE SessionsOf(u) :
          Goto(c, "ban", [Between(c) EXCEPT !.user = u, !.conn = d])
    /\ UNCHANGED <<storeVars, bans, connVars, uname, clashed>>

\* set_ban lists a subject once.
StoreBan(c) ==
    /\ task[c] = "ban"
    /\ bans' = IF banned(held[c].user) THEN bans ELSE Append(bans, held[c].user)
    /\ Goto(c, "evict", held[c])
    /\ UNCHANGED <<storeVars, connVars, uname, clashed>>

\* The session that was found is removed, and the owner gets the list.
Evict(c) ==
    /\ task[c] = "evict"
    /\ RemoveEntries({held[c].conn})
    /\ Goto(c, "live", Between(c))
    /\ UNCHANGED <<storeVars, bans, uname, clashed>>

\* ServerPardon: an owner lifts the ban at position i of the list.
Pardon(c, i) ==
    /\ task[c] = "packet"
    /\ held[c].rank >= Owner
    /\ bans' = RemoveAt(bans, i)
    /\ Goto(c, "live", Between(c))
    /\ UNCHANGED <<storeVars, connVars, uname, clashed>>

\* AccountPasswdRequest: the old password is verified, the new one hashed.
AskPasswd(c, old, new) ==
    /\ task[c] = "packet"
    /\ password[uname[c]] = old
    /\ Goto(c, "rehash", [Between(c) EXCEPT !.word = new])
    /\ UNCHANGED <<storeVars, bans, connVars, uname, clashed>>

StorePasswd(c) ==
    /\ task[c] = "rehash"
    /\ set_password(uname[c], held[c].word)
    /\ Goto(c, "live", Between(c))
    /\ UNCHANGED <<role, founders, bans, connVars, uname, clashed>>

\* AccountDeleteRequest: the password is verified and the client told.
AskDelete(c, w) ==
    /\ task[c] = "packet"
    /\ password[uname[c]] = w
    /\ Goto(c, "delete", Between(c))
    /\ UNCHANGED <<storeVars, bans, connVars, uname, clashed>>

\* users::remove
RemoveAccount(c) ==
    /\ task[c] = "delete"
    /\ entries' = entries \ {uname[c]}
    /\ password' = [password EXCEPT ![uname[c]] = None]
    /\ role' = [role EXCEPT ![uname[c]] = None]
    /\ founders' = founders \ {uname[c]}
    /\ Goto(c, "close", Nothing)
    /\ UNCHANGED <<bans, connVars, uname, clashed>>

\* The session of a deleted account removes itself.
Close(c) ==
    /\ task[c] = "close"
    /\ Leave(c)
    /\ UNCHANGED <<storeVars, bans, clashed>>

\* ColorRequest, ProfileSave and AvatarRequest write a field of their account.
WriteField(c) ==
    /\ task[c] = "packet"
    /\ Touch(uname[c])
    /\ Goto(c, "live", Between(c))
    /\ UNCHANGED <<password, role, founders, bans, connVars, uname, clashed>>

-----------------------------------------------------------------------------
(* What happens around the task.                                           *)

\* An avatar uploaded by the session of c lands, in a task of its own, which
\* may be late: the account deleted, or the session removed.
AvatarLands(c) ==
    /\ task[c] \in SessionPhases
    /\ Touch(uname[c])
    /\ UNCHANGED <<password, role, founders, bans, connVars, task, uname, held, clashed>>

\* The client is gone, was kicked, or the watchdog gave it up.
Lose(c) ==
    /\ c \in conns
    /\ RemoveEntries({c})
    /\ UNCHANGED <<storeVars, bans, task, uname, held, clashed>>

\* A task without an entry ends at an await: aborted, or with nothing to read.
End(c) ==
    /\ task[c] \in AwaitPhases
    /\ c \notin conns
    /\ Leave(c)
    /\ UNCHANGED <<storeVars, bans, clashed>>

\* The server crashes, or is restarted: only the files remain.
Restart ==
    /\ RemoveEntries(Conns)
    /\ task' = [c \in Conns |-> "out"]
    /\ uname' = [c \in Conns |-> None]
    /\ held' = [c \in Conns |-> Nothing]
    /\ UNCHANGED <<storeVars, bans, clashed>>

LoginStep(c) ==
    \/ \E u \in Users : CheckName(c, u)
    \/ StoreName(c) \/ GoRegister(c) \/ GoLogin(c)
    \/ \E w \in Words : CountUsers(c, w) \/ ReadHash(c, w)
    \/ AddPassword(c) \/ AddRole(c) \/ AddFields(c)
    \/ CheckBan(c) \/ Verified(c) \/ Refuse(c)
    \/ ReadRole(c) \/ Admit(c)

RankStep(c) ==
    \/ \E u \in Users, r \in Ranks : AskRole(c, u, r)
    \/ \E u \in Users : AskBan(c, u)
    \/ \E i \in DOMAIN bans : Pardon(c, i)
    \/ StoreRole(c) \/ ApplyRole(c) \/ StoreBan(c) \/ Evict(c)

AccountStep(c) ==
    \/ \E old, new \in Words : AskPasswd(c, old, new)
    \/ \E w \in Words : AskDelete(c, w)
    \/ StorePasswd(c) \/ RemoveAccount(c) \/ Close(c) \/ WriteField(c)

LoopStep(c) == Receive(c) \/ RereadRole(c) \/ Ignore(c)

OuterStep(c) == AvatarLands(c) \/ Lose(c) \/ End(c)

Next ==
    \/ \E c \in Conns : LoginStep(c) \/ LoopStep(c) \/ RankStep(c) \/ AccountStep(c)
                          \/ OuterStep(c)
    \/ Restart

Spec == Init /\ [][Next]_vars

-----------------------------------------------------------------------------
(* Properties.  Two tasks serve one username when two logins pass the test *)
(* for a connected user together, or when a session is removed and its     *)
(* user is back before its task has ended.  The first three hold as long   *)
(* as that has not happened.                                               *)

\* Where a task has proved the password of its account.
Proven == {"setrole", "fill", "verify", "enter", "admit", "live", "read", "packet",
           "grant", "apply", "ban", "evict", "rehash", "delete"}

\* A task that logged in or registered has its account: it was not deleted,
\* nor is it one of the tables that a late write created without a password.
SessionHasAccount ==
    ~clashed => \A c \in Conns : task[c] \in Proven =>
        uname[c] \in entries /\ password[uname[c]] # None

\* The account that was made owner because it was the first one stays owner
\* until its user deletes it: no owner, acting on a role read earlier, ever
\* demotes it.
FounderStays ==
    ~clashed => \A u \in founders : u \in entries /\ role[u] = Owner

\* A password is replaced only by the change that its own user asked for:
\* a registration never takes over a registered account.
RegistrationIsNew ==
    [][~clashed => \A u \in Users :
          password[u] # None /\ password'[u] \notin {None, password[u]}
            => \E c \in Conns : task[c] = "rehash" /\ uname[c] = u]_vars

\* "refusing banned names" (the module documentation of server/mod.rs): no
\* session begins under a name that is on the ban list.
BannedIsRefused ==
    [][\A c \in Conns : live[c] = None /\ live'[c] # None => ~banned(uname[c])]_vars

=============================================================================
