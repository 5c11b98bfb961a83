------------------------------- MODULE Commands -------------------------------
(***************************************************************************)
(* The slash commands of the client: the table of commands and actions     *)
(* (chat/src/command.rs), what a submitted line sends or runs              *)
(* (chat/src/bin/client/mod.rs), and the permission checks of the server   *)
(* (chat/src/network/server/mod.rs) for one session whose role an owner    *)
(* changes meanwhile.                                                      *)
(*                                                                         *)
(* A parameter is told apart by what it parses as; what a packet does once *)
(* it is allowed belongs to the modules of the other parts.  The role goes *)
(* to the client in Accept, which the session's task writes itself, and in *)
(* ServerRole, each copy of which is written by a task of its own.         *)
(***************************************************************************)
EXTENDS Integers, Sequences, FiniteSets

CONSTANTS
    MaxAsked,   \* bound: packets of the client not served yet
    MaxTold     \* bound: role packets not written or not read yet

ASSUME CommandsAssumption == MaxAsked \in Nat /\ MaxTold \in Nat

User      == 0
Moderator == 1
Owner     == 2
Roles     == {User, Moderator, Owner}

\* What follows the command word, by what it parses as.
Params == {"none", "word", "bool", "id", "id text", "id id", "id bool"}

-----------------------------------------------------------------------------
(* The tables.  A parameter is <<required, values>>.                       *)

Req(v) == <<TRUE, v>>
Opt(v) == <<FALSE, v>>
Row(c, triggers, role, args) ==
    [command |-> c, triggers |-> triggers, role |-> role, args |-> args, subs |-> <<>>]
Doorway(c, triggers, role, subs) ==
    [command |-> c, triggers |-> triggers, role |-> role, args |-> <<Req("Free")>>,
     subs |-> subs]
Sub(s, triggers, role, args) ==
    [sub |-> s, triggers |-> triggers, role |-> role, args |-> args]

ModerationActions == <<
    Sub("Mute", {"MUTE", "SILENCE", "STFU"}, Moderator, <<Req("Free")>>),
    Sub("Kick", {"KICK", "BOOT", "REMOVE"}, Moderator, <<Req("Free")>>),
    Sub("Ban", {"BAN", "DISABLE", "KILL"}, Owner, <<Req("Free")>>),
    Sub("BanIp", {"BANIP", "DISABLEIP", "BLOCKIP"}, Owner, <<Req("Free")>>),
    Sub("Bans", {"BANLIST", "BANS", "BANNED", "DISABLED", "BLOCKED"}, Owner, <<>>),
    Sub("Pardon", {"PARDON", "UNBAN", "FORGIVE", "UNBLOCK"}, Owner, <<Req("Free")>>),
    Sub("PardonIp", {"PARDONIP", "UNBANIP", "FORGIVEIP", "UNBLOCKIP"}, Owner,
        <<Req("Free")>>)>>

OwnerActions == <<
    Sub("Say", {"SAY", "ECHO", "BROADCAST", "NOTICE", "MESSAGE"}, Owner, <<Req("Free")>>),
    Sub("Role", {"ROLE", "RANK", "PROMOTE", "DEMOTE"}, Owner, <<Req("Free"), Req("Roles")>>),
    Sub("Settings", {"SETTINGS", "CONFIG", "SETUP"}, Owner, <<>>),
    Sub("Icon", {"ICON", "PICTURE", "LOGO"}, Owner, <<Opt("Images")>>)>>

ACCOUNT_SUBCOMMANDS == <<
    Sub("Delete", {"DELETE", "REMOVE", "CLOSE"}, User, <<>>),
    Sub("Passwd", {"PASSWD", "PASSWORD", "CHANGEPASS"}, User, <<>>)>>

TalkRows == <<
    Row("Help", {"HELP", "H", "COMMANDS", "USAGE", "GUIDE"}, User, <<>>),
    Row("Info", {"INFO", "COMMAND", "MAN"}, User, <<Req("Free")>>),
    Row("Voice", {"VOICE", "VOIP", "CALL"}, User, <<>>),
    Row("Mute", {"MUTE", "UNMUTE", "SILENCE", "STFU"}, User, <<Opt("Free")>>),
    Row("Record", {"RECORD", "REC", "VOICEMESSAGE", "VM"}, User, <<>>),
    Row("Play", {"PLAY", "LISTEN"}, User, <<Opt("Free")>>),
    Row("Channel", {"CHANNEL", "SWITCH", "CHECKOUT", "AREA"}, User, <<Opt("Free")>>),
    Row("Upload", {"UPLOAD", "FILEUP", "PUSH", "UP"}, User, <<Req("Paths")>>)>>

ShareRows == <<
    Row("Download", {"DOWNLOAD", "FILEDOWN", "PULL", "DOWN", "FETCH"}, User,
        <<Req("Free"), Req("Free")>>),
    Row("Image", {"IMAGE", "PICTURE", "PIC"}, User, <<Req("Images")>>),
    Row("Screen", {"SCREEN", "SCREENSHARE", "PRESENTATION", "SHARE"}, User,
        <<Opt("Monitors"), Opt("Bools")>>),
    Row("Attach", {"ATTACH", "WATCH", "DISPLAY", "JOIN"}, User, <<Req("Free")>>),
    Row("Deattach", {"DEATTACH", "STOP", "CLOSE"}, User, <<>>),
    Row("MuteScreen", {"MUTESCREEN", "SILENCESTREAM"}, User, <<>>),
    Row("List", {"LIST", "USERS", "CLIENTS", "CHANNELS", "IDS", "ID"}, User, <<>>),
    Row("Files", {"FILES", "LISTFILES", "UPLOADS", "DOWNLOADS"}, User, <<>>)>>

MessageRows == <<
    Row("Screens", {"SCREENS", "LISTSCREENS", "SCREENSHARES", "SHARES"}, User, <<>>),
    Row("PrivateMessage", {"PM", "DM", "MSG", "TELL"}, User, <<Req("Free"), Req("Free")>>),
    Row("Heart", {"HEART", "UNHEART", "LIKE", "REACT", "STAR"}, User, <<Req("Free")>>),
    Row("Hearts", {"HEARTS", "LIKES", "STARS", "REACTIONS"}, User, <<Req("Free")>>),
    Row("Pin", {"PIN", "UNPIN", "HIGHLIGHT"}, Moderator, <<Req("Free")>>),
    Row("Pins", {"PINS", "PINNED", "HIGHLIGHTED"}, User, <<>>),
    Row("Reply", {"REPLY", "RESPOND"}, User, <<Req("Free"), Req("Free")>>)>>

OwnRows == <<
    Row("Re", {"RE", "ANSWER"}, User, <<Req("Free")>>),
    Row("Delete", {"DELETE", "DEL", "RM"}, User, <<Req("Free")>>),
    Row("Edit", {"EDIT", "E"}, User, <<Req("Free"), Req("Free")>>),
    Row("Settings", {"SETTINGS", "SETUP", "CONFIG", "PREFERENCES", "AUDIO"}, User, <<>>),
    Row("Profile", {"PROFILE", "BIO", "ABOUT"}, User, <<Opt("Free")>>),
    Row("UsernameColor", {"UCOLOR", "USERNAME"}, User, <<Req("Colors")>>),
    Row("MessageColor", {"COLOR", "MESSAGE"}, User, <<Req("Colors")>>)>>

DoorwayRows == <<
    Doorway("Server", {"SERVER", "ADMIN", "MOD"}, Moderator,
            ModerationActions \o OwnerActions),
    Doorway("Account", {"ACCOUNT", "MANAGEMENT", "CLIENT"}, User, ACCOUNT_SUBCOMMANDS),
    Row("Logout", {"LOGOUT", "SIGNOUT"}, User, <<>>),
    Row("Exit", {"EXIT", "LEAVE", "QUIT", "DISCONNECT"}, User, <<>>)>>

COMMAND_LIST == TalkRows \o ShareRows \o MessageRows \o OwnRows \o DoorwayRows

\* The first row of a table that a word triggers: <<>>, or the row alone.
Find(table, word) ==
    LET hits == {i \in DOMAIN table : word \in table[i].triggers}
    IN  IF hits = {} THEN <<>>
        ELSE <<table[CHOOSE i \in hits : \A j \in hits : i <= j]>>

\* CommandInfo::actions, SubcommandInfo::available
Actions(info, r) == {i \in DOMAIN info.subs : r >= info.subs[i].role}

\* CommandInfo::available: a doorway with no action left is hidden.
Available(info, r) == r >= info.role /\ (info.subs = <<>> \/ Actions(info, r) # {})

TakesId(s) == s \in {"Mute", "Kick", "BanIp", "Pardon", "PardonIp"}

-----------------------------------------------------------------------------
(* What a line sends: a packet, "usage" (refused here), "local" (run here) *)
(* or "panic" (the arm that no command may reach).                         *)

ById      == [Heart |-> "HeartRequest", Pin |-> "PinRequest", Attach |-> "AttachRequest",
              Delete |-> "DeleteRequest"]
ByIdText  == [PrivateMessage |-> "PrivateMessageRequest", Reply |-> "MessageRequest",
              Edit |-> "EditRequest"]
ByNothing == [Pins |-> "PinsRequest", Channel |-> "Channel", Profile |-> "ProfileRequest",
              List |-> "ListRequest", Files |-> "FilesRequest",
              Deattach |-> "DeattachRequest", Screens |-> "ScreensRequest",
              MuteScreen |-> "MuteScreenRequest", Exit |-> "Disconnect",
              Logout |-> "Disconnect", Voice |-> "VoiceRequest"]

If(holds, packet) == IF holds THEN packet ELSE "usage"

\* /screen: a monitor that is not there fails; a share begins or ends with a packet;
\* another monitor, or the sound, changes the running share and sends nothing.
BuildScreen(p, sharing, captured) ==
    CASE p \in {"word", "id text", "id id"} -> "usage"
      [] ~sharing                           -> "ScreenRequest"
      [] p \in {"bool", "id bool"}          -> "none"
      [] p = "none" \/ captured             -> "ScreenRequest"
      [] OTHER                              -> "none"

\* Command::build_message
BuildMessage(c, p, sharing, captured) ==
    CASE c \in DOMAIN ById      -> If(p = "id", ById[c])
      [] c \in DOMAIN ByIdText  -> If(p \in {"id text", "id id", "id bool"}, ByIdText[c])
      [] c \in DOMAIN ByNothing -> ByNothing[c]
      [] c = "Re"               -> If(p # "none", "Re")
      [] c = "Download"         -> If(p = "id id", "DownloadRequest")
      [] c = "Screen"           -> BuildScreen(p, sharing, captured)
      [] OTHER                  -> "none"

ByAction == [Mute |-> "ServerMute", Kick |-> "ServerKick", Ban |-> "ServerBan",
             BanIp |-> "ServerBanIp", Bans |-> "ServerBansRequest",
             Pardon |-> "ServerPardon", PardonIp |-> "ServerPardonIp",
             Say |-> "ServerSay", Role |-> "ServerRoleRequest",
             Settings |-> "ServerSettingsRequest", Icon |-> "ServerIconSave"]

\* server_command: the role, the action, its parameter.  A role to grant that does not
\* parse is refused here as well.
ServerCommand(r, action, p) ==
    LET info == Find(COMMAND_LIST, "SERVER")[1]
        sub  == Find(info.subs, action)
        Fits(s) == /\ r >= s.role
                   /\ (\E i \in DOMAIN s.args : s.args[i][1]) => p # "none"
                   /\ TakesId(s.sub) => p = "id"
                   /\ s.sub = "Role" => p \notin {"none", "word", "bool", "id"}
    IN  IF ~Available(info, r) \/ sub = <<>> THEN "usage" ELSE If(Fits(sub[1]), ByAction[sub[1].sub])

\* account_command opens the box of the account; the rest of the line is the action.
AccountCommand(action, p) ==
    If(p = "none" /\ Find(ACCOUNT_SUBCOMMANDS, action) # <<>>, "local")

\* submit, for a command that sent nothing.
RunLocally(c, r, action, p) ==
    CASE c \in {"Help", "Settings", "Record", "Screen"}   -> "local"
      [] c \in {"Upload", "Image"}                        -> If(p # "none", "local")
      [] c \in {"Info", "UsernameColor", "MessageColor"}  -> If(p = "word", "local")
      [] c = "Hearts"                                     -> If(p = "id", "local")
      [] c \in {"Mute", "Play"}                           -> If(p \in {"none", "id"}, "local")
      [] c = "Server"  -> ServerCommand(r, action, p)
      [] c = "Account" -> AccountCommand(action, p)
      [] c = "Invalid" -> "usage"
      [] OTHER         -> "panic"

\* get_command
GetCommand(word) ==
    LET row == Find(COMMAND_LIST, word) IN IF row = <<>> THEN "Invalid" ELSE row[1].command

\* What the palette showed for the line: the row, and the action of a doorway.
Offered(word, action, r) ==
    LET row == Find(COMMAND_LIST, word)
    IN  /\ row # <<>> /\ Available(row[1], r)
        /\ row[1].subs # <<>> => \E i \in Actions(row[1], r) : action \in row[1].subs[i].triggers

\* submit, and the Ctrl+key of a shortcut, which submits the command's name alone:
\* what the line does for a user of role r.
Effect(word, action, p, sharing, captured, r) ==
    LET c       == GetCommand(word)
        message == BuildMessage(c, p, sharing, captured)
    IN  [role    |-> r,
         does    |-> IF message = "none" THEN RunLocally(c, r, action, p) ELSE message,
         offered |-> Offered(word, action, r),
         leaves  |-> IF c \in {"Exit", "Logout"} THEN c ELSE "no"]

TriggersOf(table) == UNION {table[i].triggers : i \in DOMAIN table}
Words       == TriggersOf(COMMAND_LIST) \cup {"?"}
ActionWords == TriggersOf(ModerationActions \o OwnerActions \o ACCOUNT_SUBCOMMANDS) \cup {"?"}

\* The effects of every line, under each role.
Effects ==
    UNION {{Effect(word, "", p, FALSE, FALSE, r) : word \in Words, p \in Params}
           \cup {Effect("SCREEN", "", p, TRUE, captured, r) :
                   p \in Params, captured \in BOOLEAN}
           \cup {Effect(word, action, p, FALSE, FALSE, r) :
                   word \in {"SERVER", "ACCOUNT"}, action \in ActionWords, p \in Params} :
           r \in Roles}

\* Every command of the table, with every kind of parameter, has a packet or an arm of
\* its own in submit: none comes to the last arm, panic!("Invalid command").
ASSUME EveryCommandRuns == \A e \in Effects : e.does # "panic"

-----------------------------------------------------------------------------
VARIABLES
    stored,     \* the role of the account in the users file
    stage,      \* the session at the server: "out", "entering" or "in"
    latch,      \* the role read at the login
    live,       \* the role in CONNECTIONS
    copies,     \* ServerRole packets whose tasks have not written yet
    wire,       \* role packets on their way to the client
    online,     \* the client may send messages
    known,      \* App::role
    leaving,    \* App::leaving, App::logging_out
    asked,      \* packets on their way to the server, each with what it was sent under
    outcome     \* history: the packet served last, and whether its role was refused

commandVars == <<stored, stage, latch, live, copies, wire, online, known, leaving,
                 asked, outcome>>
serverVars  == <<stored, stage, latch, live, copies>>

Untried == [packet |-> "none", offered |-> FALSE, under |-> User, live |-> User, refused |-> FALSE]

CommandsInit ==
    /\ stored = User /\ stage = "out" /\ latch = User /\ live = User
    /\ copies = <<>> /\ wire = <<>>
    /\ online = FALSE /\ known = User /\ leaving = "no" /\ asked = <<>>
    /\ outcome = Untried

\* The line of a user, or a shortcut.  Exit and Logout are remembered, so that the end
\* of the connection is no error.
Submit ==
    /\ online /\ Len(asked) < MaxAsked
    /\ \E e \in Effects :
         /\ e.role = known
         /\ asked' = IF e.does \in {"usage", "local", "panic"} THEN asked
                     ELSE Append(asked, [packet |-> e.does, under |-> known,
                                         offered |-> e.offered])
         /\ leaving' = IF e.leaves = "no" THEN leaving ELSE e.leaves
    /\ outcome' = Untried
    /\ UNCHANGED <<serverVars, wire, online, known>>

-----------------------------------------------------------------------------
(* The server.                                                             *)

\* The role a packet needs; the others are open to every session.
Needs(packet) ==
    CASE packet \in {"PinRequest", "ServerMute", "ServerKick"} -> Moderator
      [] packet \in {"ServerBan", "ServerBanIp", "ServerIconSave", "ServerBansRequest",
                     "ServerPardon", "ServerPardonIp", "ServerSay", "ServerRoleRequest",
                     "ServerSettingsRequest"} -> Owner
      [] OTHER -> User

\* The tables of the client and the checks of the handlers agree, for every line and
\* every role: a packet that needs more than the role it was sent under is a /pin that
\* was not offered.
ASSUME TablesAgree ==
    \A e \in Effects : e.role < Needs(e.does) => e.does = "PinRequest" /\ ~e.offered

Enter ==
    /\ stage = "out" /\ ~online /\ wire = <<>>
    /\ stage' = "entering" /\ latch' = stored /\ live' = stored
    /\ UNCHANGED <<stored, copies, wire, online, known, leaving, asked, outcome>>

Accept ==
    /\ stage = "entering" /\ Len(copies) + Len(wire) < MaxTold
    /\ stage' = "in"
    /\ wire' = Append(wire, [code |-> "Accept", role |-> latch])
    /\ UNCHANGED <<stored, latch, live, copies, online, known, leaving, asked, outcome>>

\* ServerRoleRequest of an owner about this user, who is no owner.
Rank(r) ==
    /\ stored < Owner /\ r # stored
    /\ stored' = r
    /\ IF stage = "out" THEN UNCHANGED <<live, copies>>
       ELSE /\ Len(copies) + Len(wire) < MaxTold
            /\ live' = r
            /\ copies' = Append(copies, [code |-> "ServerRole", role |-> r])
    /\ UNCHANGED <<stage, latch, wire, online, known, leaving, asked, outcome>>

\* A task of send_to_all writes its copy; the tasks are not ordered.
WriteCopy ==
    \E i \in DOMAIN copies :
        /\ wire' = Append(wire, copies[i])
        /\ copies' = SubSeq(copies, 1, i - 1) \o SubSeq(copies, i + 1, Len(copies))
        /\ UNCHANGED <<stored, stage, latch, live, online, known, leaving, asked,
                       outcome>>

\* Mutant: the role of the login is kept for the session.
RoleOfPacketLatched == latch

\* The role is read again for every packet.
RoleOfPacket == live

Serve ==
    /\ stage = "in" /\ asked # <<>>
    /\ outcome' = [packet |-> Head(asked).packet, offered |-> Head(asked).offered,
                   under |-> Head(asked).under, live |-> live,
                   refused |-> RoleOfPacket < Needs(Head(asked).packet)]
    /\ IF Head(asked).packet = "Disconnect"
       THEN stage' = "out" /\ asked' = <<>> /\ copies' = <<>>
       ELSE asked' = Tail(asked) /\ UNCHANGED <<stage, copies>>
    /\ UNCHANGED <<stored, latch, live, wire, online, known, leaving>>

\* The session ends without the user: a kick, a restart, a lost connection.
Drop ==
    /\ stage # "out"
    /\ stage' = "out" /\ asked' = <<>> /\ copies' = <<>>
    /\ UNCHANGED <<stored, latch, live, wire, online, known, leaving, outcome>>

-----------------------------------------------------------------------------
(* The client's listener.                                                  *)

Listen ==
    /\ wire # <<>>
    /\ known' = Head(wire).role /\ wire' = Tail(wire)
    /\ online' = (online \/ Head(wire).code = "Accept")
    /\ UNCHANGED <<serverVars, leaving, asked, outcome>>

\* disconnected: the next server grants its own role.
Disconnected ==
    /\ stage = "out" /\ wire = <<>> /\ (online \/ known # User)
    /\ online' = FALSE /\ known' = User /\ leaving' = "no" /\ asked' = <<>>
    /\ UNCHANGED <<serverVars, wire, outcome>>

CommandsNext ==
    \/ Submit \/ Enter \/ Accept \/ WriteCopy \/ Serve \/ Drop
    \/ Listen \/ Disconnected
    \/ \E r \in Roles : Rank(r)

CommandsSpec == CommandsInit /\ [][CommandsNext]_commandVars

-----------------------------------------------------------------------------
(* Properties.                                                             *)

\* A command that the palette offers is not refused for the role by a server that holds
\* the role it was offered under: minimal_role of the tables agrees with the checks of
\* the handlers, server_command keeps the actions above the role to itself, and a handler
\* reads the role of the session as it is now.  While the role does not change, only a
\* /pin typed by a user it was not offered to, which the client lets out, is refused.
OfferedIsAllowed ==
    outcome.refused /\ outcome.live = outcome.under =>
        outcome.packet = "PinRequest" /\ ~outcome.offered
=============================================================================
