----------------------------- MODULE SettingsBox -----------------------------
(***************************************************************************)
(* The settings box of the client (chat/src/bin/client/tui/settings.rs) in *)
(* its three modes, what the event loop sends for it and applies to it     *)
(* (tui/mod.rs, tui/event.rs), and the handlers of the server              *)
(* (chat/src/network/server/mod.rs, chat/src/config/settings.rs).          *)
(*                                                                         *)
(* The rows of the server are built from its answer and edited in the box  *)
(* until they are saved; the answer to a save, or to an earlier request,   *)
(* comes while the user goes on.  A connection keeps the order of its      *)
(* packets, and the server answers them one by one.                        *)
(***************************************************************************)
EXTENDS Integers, Sequences, SequencesExt

CONSTANTS
    Layout,     \* server.toml: its keys in order, and "head" for a heading
    Toggles,    \* the keys that are switches; the others are numbers
    Top,        \* numbers go from 0 to Top
    MaxFlight   \* bound: packets on their way, both directions together

Keys    == Range(Layout) \ {"head"}
Numbers == 0..Top

ASSUME LayoutAssumption ==
    Toggles \subseteq Keys /\ Top \in Nat \ {0} /\ MaxFlight \in Nat

VARIABLES
    mode,       \* "closed", "client", "server", "own" or "other"
    rows,       \* Settings::rows
    selected,   \* the selected row
    edit,       \* what is being typed into it: <<>> or <<text>>
    saving,     \* a save is on the wire
    confirm,    \* the restart is armed
    logo,       \* disable_logo of client.toml
    asks,       \* packets to the server
    answers,    \* packets to the client
    toml,       \* server.toml
    bio,        \* our profile, as the server stores it
    begun       \* history: the key of the row the edit was begun in

boxVars    == <<mode, rows, selected, edit, saving, confirm>>
serverSide == <<toml, bio>>
settingsVars == <<mode, rows, selected, edit, saving, confirm, logo, asks, answers,
                  toml, bio, begun>>

Head_    == [kind |-> "head", key |-> "none", value |-> 0, changed |-> FALSE]
Item(k, v) == [kind |-> "item", key |-> k, value |-> v, changed |-> FALSE]
Button(b)  == [kind |-> b, key |-> "none", value |-> 0, changed |-> FALSE]

SettingsInit ==
    /\ mode = "closed" /\ rows = <<>> /\ selected = 1 /\ edit = <<>>
    /\ saving = FALSE /\ confirm = FALSE /\ logo = 0
    /\ asks = <<>> /\ answers = <<>>
    /\ toml = [k \in Keys |-> 0] /\ bio = 0
    /\ begun = "none"

InFlight == Len(asks) + Len(answers)

Unsaved  == \E i \in DOMAIN rows : rows[i].changed
Deferred == mode \in {"server", "own"}

-----------------------------------------------------------------------------
(* The selection.  It steps over headings.                                 *)

IsRow(rs, i) == i \in DOMAIN rs /\ rs[i].kind # "head"

\* step: the next row that is no heading, or where it was.
Step(rs, at, delta) ==
    LET ahead == {i \in DOMAIN rs : IsRow(rs, i) /\ (i - at) * delta > 0} IN
    IF ahead = {} THEN at
    ELSE CHOOSE i \in ahead : \A j \in ahead : (j - i) * delta >= 0

\* land: the row itself, or the nearest one ahead, or behind.
Land(rs, i, delta) ==
    IF IsRow(rs, i) THEN i
    ELSE IF Step(rs, i, delta) # i THEN Step(rs, i, delta) ELSE Step(rs, i, -delta)

\* Home, End and a page go as far as the frame fits, at most to the ends.
Move(i, delta) ==
    /\ mode # "closed" /\ edit = <<>> /\ rows # <<>>
    /\ \/ selected' = Step(rows, selected, delta)
       \/ i \in DOMAIN rows /\ selected' = Land(rows, i, delta)
    /\ confirm' = FALSE
    /\ UNCHANGED <<mode, rows, edit, saving, logo, asks, answers, serverSide, begun>>

\* scroll: the mouse wheel.
Wheel(delta) ==
    /\ mode # "closed" /\ rows # <<>> /\ edit = <<>>
    /\ selected' = Step(rows, selected, delta)
    /\ UNCHANGED <<mode, rows, edit, saving, confirm, logo, asks, answers, serverSide, begun>>

-----------------------------------------------------------------------------
(* Opening and closing.                                                    *)

\* A new set of rows: whatever was typed, armed or on the wire is forgotten.
\* The armed restart survives the opening of the client's own rows.
Shows(m, rs, at, armed) ==
    /\ mode' = m /\ rows' = rs /\ selected' = at
    /\ edit' = <<>> /\ saving' = FALSE /\ confirm' = armed
    /\ begun' = "none"

ClientRows == <<Head_, Item("logo", 1 - logo)>>

ServerRows(held) ==
    [i \in DOMAIN Layout |-> IF Layout[i] = "head" THEN Head_ ELSE Item(Layout[i], held[Layout[i]])]
        \o <<Button("save"), Button("restart")>>

ProfileRows(text, own) ==
    IF own THEN <<Item("avatar", 0), Item("bio", text), Button("save")>> ELSE <<Item("bio", text)>>

\* /settings
Open ==
    /\ mode = "closed"
    /\ Shows("client", ClientRows, Step(ClientRows, 1, 1), confirm)
    /\ UNCHANGED <<logo, asks, answers, serverSide>>

\* /server settings and /profile ask the server first.
Ask(what) ==
    /\ mode = "closed" /\ InFlight < MaxFlight
    /\ asks' = Append(asks, [kind |-> what])
    /\ UNCHANGED <<boxVars, logo, answers, serverSide, begun>>

\* Esc, or the shortcut; the end of the session closes the box as well.
Close ==
    /\ mode # "closed"
    /\ Shows("closed", <<>>, selected, FALSE)
    /\ UNCHANGED <<logo, asks, answers, serverSide>>

-----------------------------------------------------------------------------
(* Keys on a row.                                                          *)

OnItem == IsRow(rows, selected) /\ rows[selected].kind = "item"
OnKey(ks) == OnItem /\ rows[selected].key \in ks

Put(v, marked) == [rows EXCEPT ![selected].value = v, ![selected].changed = @ \/ marked]

\* A switch is flipped: written through in the client's rows, held in the others.
Toggle ==
    /\ mode \in {"client", "server"} /\ edit = <<>> /\ OnKey(Toggles \cup {"logo"})
    /\ LET v == 1 - rows[selected].value IN
       /\ rows' = Put(v, Deferred)
       /\ logo' = IF Deferred THEN logo ELSE 1 - v
    /\ UNCHANGED <<mode, selected, edit, saving, confirm, asks, answers, serverSide, begun>>

\* Left and right on a number.
Adjust(delta) ==
    /\ mode = "server" /\ edit = <<>> /\ OnKey(Keys \ Toggles)
    /\ rows[selected].value + delta \in Numbers
    /\ rows' = Put(rows[selected].value + delta, TRUE)
    /\ confirm' = FALSE
    /\ UNCHANGED <<mode, selected, edit, saving, logo, asks, answers, serverSide, begun>>

\* Enter on a number or a text: it is typed into.
BeginEdit ==
    /\ Deferred /\ edit = <<>> /\ OnItem /\ rows[selected].key \notin Toggles
    /\ edit' = <<rows[selected].value>> /\ begun' = rows[selected].key
    /\ UNCHANGED <<mode, rows, selected, saving, confirm, logo, asks, answers, serverSide>>

Type(v) ==
    /\ edit # <<>> /\ edit' = <<v>> /\ edit # edit'
    /\ UNCHANGED <<mode, rows, selected, saving, confirm, logo, asks, answers, serverSide, begun>>

\* Enter keeps it if it is a change and the row can hold it; Esc drops it.
EndEdit(keep) ==
    /\ edit # <<>> /\ edit' = <<>> /\ begun' = "none"
    /\ rows' = IF keep /\ OnItem /\ edit[1] # rows[selected].value THEN Put(edit[1], TRUE) ELSE rows
    /\ UNCHANGED <<mode, selected, saving, confirm, logo, asks, answers, serverSide>>

\* The rows a save of server.toml carries.
Edited == {i \in DOMAIN rows : rows[i].changed}

ValueOf(k) == rows[CHOOSE i \in DOMAIN rows : rows[i].key = k].value

\* Save, by its button or by Ctrl+S from any row: the event loop sends it at once.
SaveServer ==
    /\ mode = "server" /\ edit = <<>> /\ Edited # {} /\ InFlight < MaxFlight
    /\ asks' = Append(asks, [kind |-> "save",
                             values |-> [k \in {rows[i].key : i \in Edited} |-> ValueOf(k)]])
    /\ saving' = TRUE
    /\ UNCHANGED <<mode, rows, selected, edit, confirm, logo, answers, serverSide, begun>>

\* The whole profile goes, and the picture on its own.
SaveProfile ==
    /\ mode = "own" /\ edit = <<>> /\ Unsaved /\ InFlight + 1 < MaxFlight
    /\ asks' = asks \o (IF rows[2].changed THEN <<[kind |-> "saveProfile", bio |-> rows[2].value]>> ELSE <<>>)
                    \o (IF rows[1].changed THEN <<[kind |-> "avatar"]>> ELSE <<>>)
    /\ saving' = TRUE
    /\ UNCHANGED <<mode, rows, selected, edit, confirm, logo, answers, serverSide, begun>>

\* The restart button: refused while something is unsaved, armed, then pressed.
Restart ==
    /\ mode = "server" /\ edit = <<>> /\ rows[selected].kind = "restart"
    /\ ~saving /\ ~Unsaved /\ InFlight < MaxFlight
    /\ IF confirm
       THEN /\ asks' = Append(asks, [kind |-> "restart"])
            /\ Shows("closed", <<>>, selected, FALSE)
       ELSE confirm' = TRUE /\ UNCHANGED <<mode, rows, selected, edit, saving, begun, asks>>
    /\ UNCHANGED <<logo, answers, serverSide>>

-----------------------------------------------------------------------------
(* The server.                                                             *)

Verdicts == {"granted", "refused", "silent"}

Refusal == <<[kind |-> "invalidUsage"]>>

\* write: what is accepted of a save.
Write(held, new) == [k \in Keys |-> IF k \in DOMAIN new THEN new[k] ELSE held[k]]

Profile(own, save) ==
    [kind |-> "profile", own |-> own, save |-> save, bio |-> IF own THEN bio' ELSE 0]

\* A profile that is too long is refused and sent back as it is stored.
AnswerProfile(ask, granted) ==
    (IF granted THEN <<>> ELSE Refusal)
        \o (IF granted \/ ask.kind = "saveProfile"
            THEN <<Profile(ask.kind # "other", ask.kind = "saveProfile")>> ELSE <<>>)

\* A picture dropped, or uploaded.
AnswerAvatar(granted) == IF granted THEN <<Profile(TRUE, TRUE)>> ELSE Refusal

\* A restart ends the session.
AnswerSettings(ask, granted) ==
    IF ~granted THEN Refusal
    ELSE IF ask.kind = "restart" THEN <<[kind |-> "hangUp"]>>
    ELSE <<[kind |-> "settings", values |-> toml', save |-> ask.kind = "save"]>>

\* One packet and its answers.  Our role, the profiles feature and a mute may
\* have changed since it was sent: it is granted, refused with InvalidUsage, or
\* answered by a packet the box does not look at.
Handle(verdict) ==
    /\ asks # <<>>
    /\ asks' = Tail(asks)
    /\ LET ask     == Head(asks)
           granted == verdict = "granted"
           profile == ask.kind \in {"own", "other", "saveProfile"} IN
       /\ verdict = "silent" => profile \/ ask.kind = "avatar"
       /\ toml' = IF ask.kind = "save" /\ granted THEN Write(toml, ask.values) ELSE toml
       /\ bio' = IF ask.kind = "saveProfile" /\ granted THEN ask.bio ELSE bio
       /\ answers' = answers \o (IF verdict = "silent" THEN <<>>
                                 ELSE IF profile THEN AnswerProfile(ask, granted)
                                 ELSE IF ask.kind = "avatar" THEN AnswerAvatar(granted)
                                 ELSE AnswerSettings(ask, granted))
    /\ UNCHANGED <<boxVars, logo, begun>>

\* Another owner saves settings meanwhile.
Meanwhile(k) ==
    /\ toml' = [toml EXCEPT ![k] = 1 - @]
    /\ UNCHANGED <<boxVars, logo, asks, answers, bio, begun>>

-----------------------------------------------------------------------------
(* The answers.                                                            *)

Next_ == Head(answers)
Pops(kind) == answers # <<>> /\ Next_.kind = kind /\ answers' = Tail(answers)

\* ServerSettings in answer to a request: the box opens on it, whatever it showed.
OpenServer(rs) == Shows("server", rs, Step(rs, 1, 1), FALSE)

\* The rows of a save that was stored, the selection kept.
Stored(rs) == Shows("server", rs, IF IsRow(rs, selected) THEN selected ELSE Step(rs, selected, 1), FALSE)

\* Mutant: the answer to a save is only told, not taken.
ApplySettingsTold ==
    /\ Pops("settings")
    /\ IF Next_.save
       THEN UNCHANGED <<boxVars, begun>>
       ELSE OpenServer(ServerRows(Next_.values))
    /\ UNCHANGED <<logo, asks, serverSide>>

ApplySettings ==
    /\ Pops("settings")
    /\ IF Next_.save
       THEN IF mode = "server" THEN Stored(ServerRows(Next_.values)) ELSE UNCHANGED <<boxVars, begun>>
       ELSE OpenServer(ServerRows(Next_.values))
    /\ UNCHANGED <<logo, asks, serverSide>>

\* A profile that was saved goes to whichever profile is open.
ApplyProfile ==
    /\ Pops("profile")
    /\ LET rs == ProfileRows(Next_.bio, Next_.own) IN
       IF Next_.save
       THEN IF mode \in {"own", "other"}
            THEN Shows("own", rs, IF selected \in DOMAIN rs THEN selected ELSE Len(rs), FALSE)
            ELSE UNCHANGED <<boxVars, begun>>
       ELSE Shows(IF Next_.own THEN "own" ELSE "other", rs, 1, FALSE)
    /\ UNCHANGED <<logo, asks, serverSide>>

\* InvalidUsage, in answer to a save or to anything else.
ApplyInvalid ==
    /\ Pops("invalidUsage")
    /\ saving' = FALSE
    /\ UNCHANGED <<mode, rows, selected, edit, confirm, logo, asks, serverSide, begun>>

\* The session is over: what was on its way is lost, and another one begins.
HangUp ==
    /\ Pops("hangUp")
    /\ Shows("closed", <<>>, selected, FALSE)
    /\ asks' = <<>>
    /\ UNCHANGED <<logo, serverSide>>

-----------------------------------------------------------------------------
KeyPressed ==
    \/ Open \/ Close \/ Toggle \/ BeginEdit \/ SaveServer \/ SaveProfile \/ Restart
    \/ \E what \in {"settings", "own", "other"} : Ask(what)
    \/ \E delta \in {-1, 1} : Wheel(delta) \/ Adjust(delta) \/ \E i \in {1, Len(rows)} : Move(i, delta)
    \/ \E v \in Numbers : Type(v)
    \/ \E keep \in BOOLEAN : EndEdit(keep)

Answered == ApplySettings \/ ApplyProfile \/ ApplyInvalid \/ HangUp

SettingsNext ==
    \/ KeyPressed \/ Answered
    \/ \E verdict \in Verdicts : Handle(verdict)
    \/ \E k \in Toggles : Meanwhile(k)

SettingsSpec == SettingsInit /\ [][SettingsNext]_settingsVars

-----------------------------------------------------------------------------
\* What is typed goes to the row it was begun in: no answer, no wheel and no
\* new set of rows puts another row under it.
EditStaysInRow == edit # <<>> => OnItem /\ rows[selected].key = begun

\* The rows of the server are locked against the restart only while the save, or
\* the answer to it, is on its way: no order of answers leaves them locked for good.
LockedIsPending ==
    (mode = "server" /\ saving) =>
        \/ \E i \in DOMAIN asks : asks[i].kind = "save"
        \/ \E i \in DOMAIN answers : answers[i].kind \in {"settings", "invalidUsage"}

\* "Edits are held, marked, until Save": a marked row of the server loses its
\* mark only to an answer that says its value is stored.
EditsAreHeld ==
    [][mode = "server" /\ mode' = "server" =>
          \A i \in DOMAIN rows :
              rows[i].changed /\ ~rows'[i].changed => rows'[i].value = rows[i].value]_settingsVars
=============================================================================
