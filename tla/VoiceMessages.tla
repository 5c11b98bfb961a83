--------------------------- MODULE VoiceMessages ---------------------------
(***************************************************************************)
(* Voice messages in the client: one recorder and one player, shared by    *)
(* the loop of the interface, the threads that open a device, and the      *)
(* tasks that fetch a clip (chat/src/network/voice/client/message.rs,      *)
(* chat/src/bin/client/tui/voice_message.rs).                              *)
(*                                                                         *)
(* Samples are left out: a clip is a number of frames.  An operation of    *)
(* the loop that takes two locks one after the other is two steps.         *)
(***************************************************************************)
EXTENDS Naturals, Sequences, SequencesExt, FiniteSetsExt

CONSTANTS
    Clips,       \* the hashes of the clips on screen
    MaxFrames,   \* MESSAGE_MAX_FRAMES
    MaxPlays,    \* bound: plays and stops
    MaxRecords   \* bound: recordings

\* The second steps of the loop's operations other than play.
Steps == {"none", "stop", "send", "cancel", "end"}

ASSUME ClipAssumption ==
    {MaxFrames, MaxPlays, MaxRecords} \subseteq Nat /\ Clips \cap Steps = {}

VARIABLES
    playGen,    \* PLAY_GENERATION
    player,     \* PLAYER: <<>> or <<[clip, gen, done]>>
    holder,     \* the thread that holds PLAYER's lock: a generation, or 0
    plays,      \* the tasks that bring a clip to the player
    awaited,    \* AWAITED
    shown,      \* the playback state of a clip's lines
    ui,         \* app.playing: <<>> or <<clip>>
    recGen,     \* RECORD_GENERATION
    recording,  \* RECORDING: <<>> or <<[gen, voice, frames]>>
    own,        \* OWN_INPUT: the generation it was opened for, or 0
    opening,    \* the threads that open a capture
    light,      \* app.recording: <<>> or <<held>>
    call,       \* a voice call is on
    busy,       \* the second step the loop has still to take
    linked      \* write_stream is set

playVars   == <<playGen, player, holder, plays, awaited, shown, ui>>
recordVars == <<recGen, recording, own, opening, light, call>>
clipVars   == <<playGen, player, holder, plays, awaited, shown, ui, recGen, recording, own,
                opening, light, call, busy, linked>>

Task(clip, gen, stage) == [clip |-> clip, gen |-> gen, stage |-> stage]

ClipsTypeOK ==
    /\ playGen \in 0..MaxPlays /\ recGen \in 0..MaxRecords
    /\ plays \subseteq [clip : Clips, gen : 1..MaxPlays, stage : {"load", "asked", "open", "store"}]
    /\ awaited \in Seq(Clips \X (1..MaxPlays))
    /\ shown \in [Clips -> {"idle", "loading", "playing", "gone"}]
    /\ own \in 0..MaxRecords /\ opening \subseteq 1..MaxRecords
    /\ busy \in Steps \cup Clips

ClipsInit ==
    /\ playGen = 0 /\ player = <<>> /\ holder = 0 /\ plays = {} /\ awaited = <<>>
    /\ shown = [c \in Clips |-> "idle"] /\ ui = <<>>
    /\ recGen = 0 /\ recording = <<>> /\ own = 0 /\ opening = {} /\ light = <<>>
    /\ call = FALSE /\ busy = "none" /\ linked = TRUE

Idle == busy = "none"

-----------------------------------------------------------------------------
(* Playing.                                                                *)

\* stop_loading
Settled(s) == [c \in Clips |-> IF s[c] = "loading" THEN "idle" ELSE s[c]]

\* The first half of play and stop: the generation moves on.
Begins(then) == playGen' = playGen + 1 /\ busy' = then /\ UNCHANGED player

\* A click, or /play: the clip's lines say they are loading.
Play(c) ==
    /\ Idle /\ playGen < MaxPlays /\ shown[c] \notin {"loading", "playing"}
    /\ Begins(c)
    /\ shown' = [Settled(shown) EXCEPT ![c] = "loading"]
    /\ UNCHANGED <<holder, plays, awaited, ui, recordVars, linked>>

\* The second half: the player goes, and a task brings the clip.
PlayTakes(c) ==
    /\ busy = c /\ holder = 0
    /\ player' = <<>> /\ busy' = "none"
    /\ plays' = plays \cup {Task(c, playGen, "load")}
    /\ UNCHANGED <<playGen, holder, awaited, shown, ui, recordVars, linked>>

Stop ==
    /\ Idle /\ playGen < MaxPlays /\ \E c \in Clips : shown[c] \in {"loading", "playing"}
    /\ Begins("stop")
    /\ UNCHANGED <<holder, plays, awaited, shown, ui, recordVars, linked>>

StopEnds ==
    /\ busy = "stop" /\ holder = 0
    /\ player' = <<>> /\ busy' = "none"
    /\ shown' = [c \in Clips |-> IF shown[c] = "loading" \/ ui = <<c>> THEN "idle" ELSE shown[c]]
    /\ ui' = <<>>
    /\ UNCHANGED <<playGen, holder, plays, awaited, recordVars, linked>>

\* The task looks in the cache, and asks the server for what is not there.
Load(t, hit) ==
    /\ t \in plays /\ t.stage = "load"
    /\ plays' = (plays \ {t}) \cup {Task(t.clip, t.gen, IF hit THEN "open" ELSE "asked")}
    /\ awaited' = IF hit THEN awaited ELSE Append(awaited, <<t.clip, t.gen>>)
    /\ UNCHANGED <<playGen, player, holder, shown, ui, recordVars, busy, linked>>

\* The answer goes to the play that asked first; a clip that is gone, or is
\* not what its hash says, is marked so.
Arrives(t, valid) ==
    /\ linked /\ t \in plays /\ t.stage = "asked"
    /\ \E i \in DOMAIN awaited :
          /\ awaited[i][1] = t.clip
          /\ \A j \in 1..(i - 1) : awaited[j][1] # t.clip
          /\ awaited' = RemoveAt(awaited, i)
          /\ LET asker == Task(t.clip, awaited[i][2], "open") IN
             plays' = (plays \ {Task(t.clip, awaited[i][2], "asked")})
                          \cup (IF valid THEN {asker} ELSE {})
    /\ shown' = IF valid THEN shown ELSE [shown EXCEPT ![t.clip] = "gone"]
    /\ UNCHANGED <<playGen, player, holder, ui, recordVars, busy, linked>>

\* Mutant: a clip that was stopped while its device opened plays all the same.
StillWantedAlways(gen) == TRUE

StillWanted(gen) == playGen = gen

\* open_output: the device is open; with PLAYER's lock it looks whether it is
\* still wanted.
Opens(t) ==
    /\ t \in plays /\ t.stage = "open" /\ holder = 0
    /\ IF StillWanted(t.gen)
       THEN /\ plays' = (plays \ {t}) \cup {Task(t.clip, t.gen, "store")}
            /\ holder' = t.gen
       ELSE plays' = plays \ {t} /\ UNCHANGED holder
    /\ UNCHANGED <<playGen, player, awaited, shown, ui, recordVars, busy, linked>>

Stores(t) ==
    /\ t \in plays /\ t.stage = "store"
    /\ player' = <<[clip |-> t.clip, gen |-> t.gen, done |-> FALSE]>>
    /\ plays' = plays \ {t} /\ holder' = 0
    /\ UNCHANGED <<playGen, awaited, shown, ui, recordVars, busy, linked>>

\* VoiceMessageFailed: no device, or not a clip.
Fails(t) ==
    /\ t \in plays /\ t.stage = "open"
    /\ plays' = plays \ {t}
    /\ shown' = Settled(shown)
    /\ UNCHANGED <<playGen, player, holder, awaited, ui, recordVars, busy, linked>>

\* The playhead is past the last frame.
Finishes ==
    /\ player # <<>> /\ ~player[1].done
    /\ player' = <<[player[1] EXCEPT !.done = TRUE]>>
    /\ UNCHANGED <<playGen, holder, plays, awaited, shown, ui, recordVars, busy, linked>>

\* The tick's playing() and sync_playing().
Syncs ==
    LET now == IF player = <<>> \/ player[1].done THEN <<>> ELSE <<player[1].clip>> IN
    /\ Idle /\ holder = 0
    /\ player' = IF now = <<>> THEN <<>> ELSE player
    /\ ui' = now
    /\ ui # now \/ player # player'
    /\ shown' = [c \in Clips |-> IF now = <<c>> THEN "playing"
                                 ELSE IF ui = <<c>> THEN "idle" ELSE shown[c]]
    /\ UNCHANGED <<playGen, holder, plays, awaited, recordVars, busy, linked>>

-----------------------------------------------------------------------------
(* Recording.                                                              *)

\* start: in a call the frames come from the call's capture, else a thread
\* opens one.
Record(held) ==
    /\ Idle /\ linked /\ light = <<>> /\ recording = <<>> /\ recGen < MaxRecords
    /\ recGen' = recGen + 1
    /\ recording' = <<[gen |-> recGen + 1, voice |-> call, frames |-> 0]>>
    /\ opening' = IF call THEN opening ELSE opening \cup {recGen + 1}
    /\ light' = <<held>>
    /\ UNCHANGED <<playVars, own, call, busy, linked>>

\* open_input: with both locks.
OpensInput(gen) ==
    /\ gen \in opening
    /\ opening' = opening \ {gen}
    /\ own' = IF recording # <<>> /\ recording[1].gen = gen THEN gen ELSE own
    /\ UNCHANGED <<playVars, recGen, recording, light, call, busy, linked>>

OpenFails(gen) ==
    /\ gen \in opening
    /\ opening' = opening \ {gen}
    /\ recording' = IF recording # <<>> /\ recording[1].gen = gen THEN <<>> ELSE recording
    /\ shown' = Settled(shown)
    /\ UNCHANGED <<playGen, player, holder, plays, awaited, ui, recGen, own, light, call, busy,
                   linked>>

Full(r) == r.frames >= MaxFrames

\* A capture's callback: the call's, or one of our own.
Feed ==
    /\ recording # <<>> /\ ~Full(recording[1])
    /\ IF recording[1].voice THEN call ELSE own # 0
    /\ recording' = <<[recording[1] EXCEPT !.frames = @ + 1]>>
    /\ UNCHANGED <<playVars, recGen, own, opening, light, call, busy, linked>>

\* finish_recording and cancel_recording take the capture first, the
\* recording after it.
SendTakes == busy' = (IF linked THEN "send" ELSE "cancel") /\ own' = 0

\* A second press, the release of a held key, /record, or a full recording.
Send ==
    /\ Idle /\ light # <<>>
    /\ light' = <<>>
    /\ SendTakes
    /\ UNCHANGED <<playVars, recGen, recording, opening, call, linked>>

\* A tap is no hold: the recording goes on without the key.
Tap ==
    /\ Idle /\ light = <<TRUE>>
    /\ light' = <<FALSE>>
    /\ UNCHANGED <<playVars, recGen, recording, own, opening, call, busy, linked>>

Cancel ==
    /\ Idle /\ light # <<>>
    /\ light' = <<>> /\ own' = 0 /\ busy' = "cancel"
    /\ UNCHANGED <<playVars, recGen, recording, opening, call, linked>>

\* The clip is sent if it has MESSAGE_MIN_FRAMES.
Taken ==
    /\ busy \in {"send", "cancel"}
    /\ recording' = <<>> /\ busy' = "none"
    /\ UNCHANGED <<playVars, recGen, own, opening, light, call, linked>>

\* The tick: the recording is gone, or out of room, or its call ended.
RecordTick ==
    /\ Idle /\ light # <<>>
    /\ IF recording = <<>> THEN light' = <<>> /\ UNCHANGED <<busy, own>>
       ELSE /\ Full(recording[1]) \/ (recording[1].voice /\ ~call)
            /\ light' = <<>> /\ SendTakes
    /\ UNCHANGED <<playVars, recGen, recording, opening, call, linked>>

Calling ==
    /\ Idle /\ linked
    /\ call' = ~call
    /\ UNCHANGED <<playVars, recGen, recording, own, opening, light, busy, linked>>

\* disconnected(): the clips' lines go, then cancel_recording() and stop().
Disconnects ==
    /\ Idle /\ linked /\ playGen < MaxPlays
    /\ linked' = FALSE /\ call' = FALSE /\ light' = <<>> /\ ui' = <<>>
    /\ shown' = [c \in Clips |-> "idle"]
    /\ own' = 0 /\ busy' = "end"
    /\ UNCHANGED <<playGen, player, holder, plays, awaited, recGen, recording, opening>>

DisconnectStops ==
    /\ busy = "end"
    /\ recording' = <<>>
    /\ Begins("stop")
    /\ UNCHANGED <<holder, plays, awaited, shown, ui, recGen, own, opening, light, call, linked>>

Returns ==
    /\ Idle /\ ~linked
    /\ linked' = TRUE
    /\ UNCHANGED <<playVars, recordVars, busy>>

-----------------------------------------------------------------------------
ClipsNext ==
    \/ \E c \in Clips : Play(c) \/ PlayTakes(c)
    \/ \E t \in plays : Opens(t) \/ Stores(t) \/ Fails(t)
    \/ \E t \in plays, flag \in BOOLEAN : Load(t, flag) \/ Arrives(t, flag)
    \/ \E gen \in opening : OpensInput(gen) \/ OpenFails(gen)
    \/ \E held \in BOOLEAN : Record(held)
    \/ Stop \/ StopEnds \/ Finishes \/ Syncs
    \/ Feed \/ Send \/ Tap \/ Cancel \/ Taken \/ RecordTick \/ Calling \/ Disconnects
    \/ DisconnectStops \/ Returns

ClipsSpec == ClipsInit /\ [][ClipsNext]_clipVars

-----------------------------------------------------------------------------
(* Properties.                                                             *)

\* Between two operations of the loop nothing sounds or listens but what the user asked
\* for last.  A clip whose device was still being opened when the user stopped it, or
\* chose another one, never sounds (stop, play, open_output); and the recorder runs only
\* while the interface says so, since otherwise every later recording would be refused
\* (start_recording, send, cancel_recording).
ClipsFollowTheUser ==
    Idle => /\ player # <<>> => player[1].gen = playGen
            /\ recording # <<>> => light # <<>>

\* "The stream is kept only if the recording that asked for it is still the
\* current one" (open_input): no capture is open for a recording that ended.
CaptureIsUsed == Idle /\ own # 0 => recording # <<>>
=============================================================================
