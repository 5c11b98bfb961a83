---------------------------- MODULE MCInterface ----------------------------
(***************************************************************************)
(* The client's interface, for TLC: the settings box, the audio devices,   *)
(* the commands, the input line, its palette, uploads and downloads.  The  *)
(* machines share no state; an initial state picks the one that runs.      *)
(***************************************************************************)
EXTENDS SettingsBox, VoiceDevices, Commands, InputLine, Palette, ClientTransfers

VARIABLE machine

\* A page of two groups, a switch in the first and a limit in the second.
TwoGroups == <<"head", "open", "head", "limit">>

a  == <<"a">>
ab == <<"a", "b">>
b  == <<"b">>
ba == <<"b", "a">>

Entry(path, words, role, args, subs) ==
    [path |-> path, words |-> words, role |-> role, args |-> args, subs |-> subs]

\* A command with an alias, one with a coloured argument, one with two subcommands, the
\* second of which is for a moderator.
ThreeCommands ==
    << Entry(<<a>>, {a, b}, 0, <<>>, <<>>),
       Entry(<<ab>>, {ab}, 0, <<"Colors", "Free">>, <<>>),
       Entry(<<ba>>, {ba}, 0, <<"Free">>,
             << Entry(<<ba, a>>, {a}, 0, <<>>, <<>>),
                Entry(<<ba, b>>, {b, ab}, 1, <<"Colors">>, <<>>) >>) >>

TwoColors == [Colors |-> << <<a>>, <<ab, b>> >>]

TwoNames == << <<"@", "a">>, <<"@", "a", "b">> >>

FewWords == {a, ab, b, ba, <<"@">>, <<"@", "a">>}

allVars == <<settingsVars, deviceVars, commandVars, lineVars, paletteVars, moveVars>>

InterfaceInit ==
    /\ machine \in {"settings", "devices", "commands", "line", "palette", "upload", "download"}
    /\ SettingsInit
    /\ DevicesInit
    /\ CommandsInit
    /\ LineInit
    /\ PaletteInit
    /\ MoveInit

InterfaceNext ==
    /\ UNCHANGED machine
    /\ \/ /\ machine = "settings" /\ SettingsNext
          /\ UNCHANGED <<deviceVars, commandVars, lineVars, paletteVars, moveVars>>
       \/ /\ machine = "devices" /\ DevicesNext
          /\ UNCHANGED <<settingsVars, commandVars, lineVars, paletteVars, moveVars>>
       \/ /\ machine = "commands" /\ CommandsNext
          /\ UNCHANGED <<settingsVars, deviceVars, lineVars, paletteVars, moveVars>>
       \/ /\ machine = "line" /\ LineNext
          /\ UNCHANGED <<settingsVars, deviceVars, commandVars, paletteVars, moveVars>>
       \/ /\ machine = "palette" /\ PaletteNext
          /\ UNCHANGED <<settingsVars, deviceVars, commandVars, lineVars, moveVars>>
       \/ /\ machine \in {"upload", "download"}
          /\ IF machine = "upload" THEN UploadNext ELSE DownloadNext
          /\ UNCHANGED <<settingsVars, deviceVars, commandVars, lineVars, paletteVars>>

InterfaceSpec == InterfaceInit /\ [][InterfaceNext]_<<machine, allVars>>
=============================================================================
