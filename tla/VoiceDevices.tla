---------------------------- MODULE VoiceDevices ----------------------------
(***************************************************************************)
(* The audio devices of a call: the rows of the settings box that pick     *)
(* them (chat/src/bin/client/tui/settings.rs), client.toml, and the tasks  *)
(* of the voice sessions that open the streams                             *)
(* (chat/src/network/voice/client/mod.rs).                                 *)
(*                                                                         *)
(* The interface, a session's task and its activity task run in parallel,  *)
(* and opening a device takes a while.  A device may refuse at any time it *)
(* is unplugged.  The streams are a pair: input and output.                *)
(***************************************************************************)
EXTENDS Naturals, FiniteSets

CONSTANTS
    Devices,       \* the device ids, the empty one (the system default) included
    Default,
    MaxCalls,      \* bounds: sessions,
    MaxPicks,      \* devices picked,
    MaxPlugs       \* and times one is plugged in or pulled out

ASSUME DevicesAssumption ==
    Default \in Devices /\ MaxCalls \in Nat /\ MaxPicks \in Nat /\ MaxPlugs \in Nat

VARIABLES
    config,    \* input_device and output_device of client.toml
    plugged,   \* the devices that open
    box,       \* the rows of the box, if it is open: <<>> or <<[in, out]>>
    listed,    \* Settings::devices: what was there when the box was opened
    picked,    \* DEVICE_GENERATION
    marks,     \* set_device has written client.toml and not bumped that yet
    call,      \* AUDIO_GENERATION
    joined,    \* USE_VOICE
    listener,  \* where listen_server_voice is, per session
    task,      \* the activity task of a session
    streams,   \* LOCAL_STREAMS
    failures,  \* VoiceDeviceFailed events the interface has not applied
    plugs      \* how often a device came or went

deviceVars == <<config, plugged, box, listed, picked, marks, call, joined, listener, task,
                streams, failures, plugs>>

Pairs == [in : Devices, out : Devices]
Calls == 1..MaxCalls
None  == <<>>

Asleep == [at |-> "none", seen |-> 0, opens |-> None, restore |-> None]

DevicesInit ==
    /\ config = [in |-> Default, out |-> Default]
    /\ plugged = Devices
    /\ box = None /\ listed = {}
    /\ picked = 0 /\ marks = FALSE
    /\ call = 0 /\ joined = FALSE
    /\ listener = [c \in Calls |-> [at |-> "none", opens |-> None]]
    /\ task = [c \in Calls |-> Asleep]
    /\ streams = None /\ failures = 0 /\ plugs = 0

-----------------------------------------------------------------------------
(* The box.                                                                *)

OpenBox ==
    /\ box = None /\ ~marks
    /\ box' = <<config>> /\ listed' = plugged
    /\ UNCHANGED <<config, plugged, picked, marks, call, joined, listener, task, streams, failures, plugs>>

CloseBox ==
    /\ box # None /\ ~marks
    /\ box' = None /\ listed' = {}
    /\ UNCHANGED <<config, plugged, picked, marks, call, joined, listener, task, streams, failures, plugs>>

\* device_entries: the default, what was listed, and what is configured.
DeviceEntries(d) == {Default} \cup listed \cup {config[d]}

\* A row is cycled, or an entry of its picker taken: client.toml, then the bump.
SetDevice(d, id) ==
    /\ box # None /\ ~marks /\ picked < MaxPicks
    /\ id \in DeviceEntries(d) /\ box[1][d] # id
    /\ box' = <<[box[1] EXCEPT ![d] = id]>>
    /\ config' = [config EXCEPT ![d] = id]
    /\ marks' = TRUE
    /\ UNCHANGED <<plugged, listed, picked, call, joined, listener, task, streams, failures, plugs>>

MarkDevicesChanged ==
    /\ marks /\ marks' = FALSE /\ picked' = picked + 1
    /\ UNCHANGED <<config, plugged, box, listed, call, joined, listener, task, streams, failures, plugs>>

\* Mutant: the rows keep what the user picked.
RefreshDevicesNever == box

\* refresh_devices
RefreshDevices == IF box = None THEN None ELSE <<config>>

ApplyFailed ==
    /\ failures > 0 /\ ~marks
    /\ failures' = failures - 1
    /\ box' = RefreshDevices
    /\ UNCHANGED <<config, plugged, listed, picked, marks, call, joined, listener, task, streams, plugs>>

-----------------------------------------------------------------------------
(* The sessions.                                                           *)

\* The server opened a slot: the next session begins, whatever became of the last.
Join ==
    /\ ~joined /\ call < MaxCalls
    /\ joined' = TRUE /\ call' = call + 1
    /\ listener' = [listener EXCEPT ![call + 1].at = "opens"]
    /\ UNCHANGED <<config, plugged, box, listed, picked, marks, task, streams, failures, plugs>>

\* The server closed the slot, or the session of the client was lost.
Leave ==
    /\ joined /\ joined' = FALSE
    /\ UNCHANGED <<config, plugged, box, listed, picked, marks, call, listener, task, streams, failures, plugs>>

\* build_streams: both devices are found and take their stream.
Opens(pair) == {pair.in, pair.out} \subseteq plugged

\* The guard of a session that ends takes the streams down, if no newer session owns them.
GuardDrops(c) == IF call = c THEN None ELSE streams

\* The session reads client.toml and opens the pair, or leaves.
ListenerOpens(c) ==
    /\ listener[c].at = "opens"
    /\ IF Opens(config)
       THEN /\ listener' = [listener EXCEPT ![c] = [at |-> "stores", opens |-> <<config>>]]
            /\ UNCHANGED streams
       ELSE /\ listener' = [listener EXCEPT ![c].at = "ended"]
            /\ streams' = GuardDrops(c)
    /\ UNCHANGED <<config, plugged, box, listed, picked, marks, call, joined, task, failures, plugs>>

ListenerStores(c) ==
    /\ listener[c].at = "stores"
    /\ streams' = <<[call |-> c, pair |-> listener[c].opens[1]]>>
    /\ listener' = [listener EXCEPT ![c] = [at |-> "runs", opens |-> None]]
    /\ task' = [task EXCEPT ![c].at = "starts"]
    /\ UNCHANGED <<config, plugged, box, listed, picked, marks, call, joined, failures, plugs>>

\* The receive loop sees that the call is over.
ListenerEnds(c) ==
    /\ listener[c].at = "runs" /\ ~joined
    /\ listener' = [listener EXCEPT ![c].at = "ended"]
    /\ streams' = GuardDrops(c)
    /\ UNCHANGED <<config, plugged, box, listed, picked, marks, call, joined, task, failures, plugs>>

-----------------------------------------------------------------------------
(* The activity task of a session.                                         *)

At(c, where) == task[c].at = where

taskUnchanged == UNCHANGED <<plugged, box, listed, picked, marks, call, joined, listener, plugs>>

TaskStarts(c) ==
    /\ At(c, "starts")
    /\ task' = [task EXCEPT ![c] = [Asleep EXCEPT !.at = "loop", !.seen = picked]]
    /\ UNCHANGED <<config, streams, failures>> /\ taskUnchanged

TaskEnds(c) ==
    /\ At(c, "loop") /\ (call # c \/ ~joined)
    /\ task' = [task EXCEPT ![c] = Asleep]
    /\ UNCHANGED <<config, streams, failures>> /\ taskUnchanged

\* replace_streams: the old pair stops first.
TakePair(c) ==
    /\ At(c, "loop") /\ call = c /\ joined /\ task[c].seen # picked
    /\ task' = [task EXCEPT ![c] = [at |-> "builds", seen |-> picked, opens |-> None,
                                    restore |-> IF streams = None THEN None ELSE <<streams[1].pair>>]]
    /\ streams' = None
    /\ UNCHANGED <<config, failures>> /\ taskUnchanged

\* The configured pair is opened, or the old one is to be put back.
BuildPair(c) ==
    /\ At(c, "builds")
    /\ task' = IF Opens(config)
               THEN [task EXCEPT ![c].at = "stores", ![c].opens = <<config>>]
               ELSE [task EXCEPT ![c].at = IF task[c].restore = None THEN "fails" ELSE "undoesIn"]
    /\ UNCHANGED <<config, streams, failures>> /\ taskUnchanged

StorePair(c) ==
    /\ At(c, "stores")
    /\ streams' = <<[call |-> c, pair |-> task[c].opens[1]]>>
    /\ task' = [task EXCEPT ![c].at = "loop", ![c].opens = None, ![c].restore = None]
    /\ UNCHANGED <<config, failures>> /\ taskUnchanged

UndoIn(c) ==
    /\ At(c, "undoesIn")
    /\ config' = [config EXCEPT !.in = task[c].restore[1].in]
    /\ task' = [task EXCEPT ![c].at = "undoesOut"]
    /\ UNCHANGED <<streams, failures>> /\ taskUnchanged

UndoOut(c) ==
    /\ At(c, "undoesOut")
    /\ config' = [config EXCEPT !.out = task[c].restore[1].out]
    /\ task' = [task EXCEPT ![c].at = "reopens"]
    /\ UNCHANGED <<streams, failures>> /\ taskUnchanged

Reopen(c) ==
    /\ At(c, "reopens")
    /\ streams' = IF Opens(task[c].restore[1])
                  THEN <<[call |-> c, pair |-> task[c].restore[1]]>> ELSE streams
    /\ task' = [task EXCEPT ![c].at = "fails"]
    /\ UNCHANGED <<config, failures>> /\ taskUnchanged

TellFailure(c) ==
    /\ At(c, "fails")
    /\ failures' = failures + 1
    /\ task' = [task EXCEPT ![c].at = "loop", ![c].restore = None]
    /\ UNCHANGED <<config, streams>> /\ taskUnchanged

\* A device is pulled out, or plugged in again.
Plug(id) ==
    /\ plugs < MaxPlugs /\ plugs' = plugs + 1
    /\ plugged' = IF id \in plugged THEN plugged \ {id} ELSE plugged \cup {id}
    /\ UNCHANGED <<config, box, listed, picked, marks, call, joined, listener, task, streams, failures>>

-----------------------------------------------------------------------------
DevicesNext ==
    \/ OpenBox \/ CloseBox \/ MarkDevicesChanged \/ ApplyFailed \/ Join \/ Leave
    \/ \E d \in {"in", "out"}, id \in Devices : SetDevice(d, id)
    \/ \E c \in Calls : ListenerOpens(c) \/ ListenerStores(c) \/ ListenerEnds(c)
    \/ \E c \in Calls :
          \/ TaskStarts(c) \/ TaskEnds(c) \/ TakePair(c) \/ BuildPair(c) \/ StorePair(c)
          \/ UndoIn(c) \/ UndoOut(c) \/ Reopen(c) \/ TellFailure(c)
    \/ \E id \in Devices : Plug(id)

DevicesSpec == DevicesInit /\ [][DevicesNext]_deviceVars

-----------------------------------------------------------------------------
\* A task that has put a device back and not said so yet.
Undoes(c) == task[c].at \in {"undoesOut", "reopens", "fails"}

\* What the box shows is what client.toml says once no failure is on its way,
\* although the tasks of the calls write the file under the box.
ShownIsConfigured ==
    (box # None /\ failures = 0 /\ \A c \in Calls : ~Undoes(c)) => box[1] = config

\* "Tears down the streams when a voice session ends, unless a newer session
\* already owns them": with every session ended and no task at work, no stream is open.
EndedIsSilent ==
    (\A c \in Calls : listener[c].at \in {"none", "ended"} /\ task[c].at \in {"none", "loop"})
        => streams = None

\* "Changing a device rebuilds both streams within the running session": a task
\* with nothing left to do plays on the pair client.toml names.
PickedIsPlayed ==
    \A c \in Calls :
        (joined /\ call = c /\ At(c, "loop") /\ task[c].seen = picked /\ ~marks
            /\ failures = 0 /\ streams # None)
        => streams[1].pair = config
=============================================================================
