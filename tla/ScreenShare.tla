---------------------------- MODULE ScreenShare ----------------------------
(***************************************************************************)
(* A shared screen from the capture to the window that shows it: the       *)
(* capture thread and its backends, the encoder, the task that sends, and  *)
(* the window of a viewer (chat/src/network/screen/client/{capture,mod,    *)
(* rate,display}.rs, encoder/mod.rs).                                      *)
(*                                                                         *)
(* Pictures and bit rates are left out: a frame is a keyframe, which       *)
(* stands alone, or it needs the frame before it.  What time decides (a    *)
(* full link, an old backlog, a keyframe that is due) is a choice.         *)
(***************************************************************************)
EXTENDS Naturals, Sequences, FiniteSetsExt

CONSTANTS
    ChannelBound,   \* VIDEO_CHANNEL_BOUND
    WindowBound,    \* bound: frames on their way to a window
    MaxSwitches     \* bound: changes of the monitor

ASSUME ShareAssumption == {ChannelBound, WindowBound} \subseteq Nat \ {0} /\ MaxSwitches \in Nat

VARIABLES
    share,      \* use_screen, running, and the sending task
    monitor,    \* monitor_generation
    upgrade,    \* UPGRADING
    probes,     \* the threads that open a recorder, one per start of a backend
    cap,        \* the capture thread
    latest,       \* LatestFrame: a frame waits; the recorder has ended
    enc,        \* FrameEncoder: its next frame is its first; keyframe
    force,      \* FORCE_KEYFRAME
    draining,   \* DRAINING
    queue,      \* the channel of encoded frames
    awaiting,   \* awaiting_key of the sending task
    gap,        \* history: frames were dropped since the last one that was sent
    relay,      \* the server's viewer waits for a keyframe
    window,       \* the channel to the window
    viewer,     \* the window and its reports
    torn        \* history: a frame was decoded without the one before it

captureVars == <<monitor, upgrade, probes, cap, latest, enc>>
viewerVars  == <<relay, window, viewer, torn>>
shareVars   == <<share, monitor, upgrade, probes, cap, latest, enc, force, draining, queue,
                 awaiting, gap, relay, window, viewer, torn>>

Runs  == 1..(MaxSwitches + 1)
Frame == [key : BOOLEAN, joins : BOOLEAN]

ShareTypeOK ==
    /\ share.net \in {"loop", "join", "done"} /\ {share.use, share.running} \subseteq BOOLEAN
    /\ monitor \in 0..MaxSwitches
    /\ probes \in [Runs -> {"none", "opening", "ready", "failed", "gone"}]
    /\ cap.at \in {"start", "probe", "poll", "record", "grab", "judge", "wait", "done"}
    /\ queue \in Seq(Frame) /\ Len(queue) <= ChannelBound
    /\ window \in Seq(Frame) /\ Len(window) <= WindowBound

Fresh  == [fresh |-> TRUE, key |-> FALSE]
Empty  == [frame |-> FALSE, ended |-> FALSE]
NewViewer == [open |-> TRUE, running |-> TRUE, awaiting |-> FALSE, needs |-> FALSE, whole |-> FALSE]

ShareInit ==
    /\ share = [use |-> TRUE, running |-> TRUE, net |-> "loop"]
    /\ monitor = 0 /\ upgrade = FALSE /\ probes = [n \in Runs |-> "none"]
    /\ cap = [at |-> "start", loop |-> "poll", run |-> 0, seen |-> 0, forced |-> FALSE,
              pinned |-> FALSE, bounded |-> FALSE, err |-> FALSE]
    /\ latest = Empty
    /\ enc = Fresh /\ force = FALSE /\ draining = FALSE
    /\ queue = <<>> /\ awaiting = FALSE /\ gap = FALSE
    /\ relay = TRUE /\ window = <<>> /\ viewer = NewViewer /\ torn = FALSE

-----------------------------------------------------------------------------
(* The capture thread: which backend runs.                                 *)

Switched == monitor # cap.seen

\* capture_loop, and capture_backend: on Wayland a picked monitor pins the
\* polling loop, with no recorder beside it.
Begin(pinned) ==
    /\ cap.at = "start"
    /\ cap' = [cap EXCEPT !.at = IF pinned THEN "poll" ELSE "probe", !.loop = "poll",
                          !.run = @ + 1, !.seen = monitor, !.pinned = pinned, !.err = FALSE]
    /\ UNCHANGED <<share, monitor, upgrade, probes, latest, enc, force, draining, queue, awaiting,
                   gap, viewerVars>>

\* A recorder is probed for while the polling loop runs.
Probe ==
    /\ cap.at = "probe"
    /\ cap' = [cap EXCEPT !.at = "poll", !.pinned = FALSE, !.err = FALSE]
    /\ probes' = [probes EXCEPT ![cap.run] = "opening"]
    /\ upgrade' = FALSE
    /\ UNCHANGED <<share, monitor, latest, enc, force, draining, queue, awaiting, gap, viewerVars>>

\* The probe thread: its session is dropped if nobody receives it any more.
ProbeEnds(n, ok) ==
    /\ probes[n] = "opening"
    /\ upgrade' = (upgrade \/ ok)
    /\ probes' = [probes EXCEPT ![n] = IF cap.run # n \/ cap.at = "done" THEN "gone"
                                       ELSE IF ok THEN "ready" ELSE "failed"]
    /\ UNCHANGED <<share, monitor, cap, latest, enc, force, draining, queue, awaiting, gap,
                   viewerVars>>

\* A loop ends: the share is over, the monitor changed, or, for the polling
\* loop, the recorder is there.  A loop that sees the share off ends it.
CaptureEnds ==
    /\ cap.at \in {"poll", "record"}
    /\ \/ ~share.running \/ Switched \/ ~share.use
       \/ cap.at = "poll" /\ upgrade
    /\ share' = [share EXCEPT !.running = @ /\ (share.use \/ Switched
                                                 \/ (cap.at = "poll" /\ upgrade))]
    /\ cap' = [cap EXCEPT !.at = "judge", !.err = FALSE]
    /\ enc' = Fresh
    /\ UNCHANGED <<monitor, upgrade, probes, latest, force, draining, queue, awaiting, gap,
                   viewerVars>>

\* capture_loop: the backend has stopped; a new monitor starts it again.
Returned(err) ==
    [cap EXCEPT !.at = IF Switched /\ share.running /\ share.use THEN "start" ELSE "done",
                !.loop = "poll", !.pinned = FALSE, !.bounded = FALSE, !.err = err]

\* The receiver of the probe goes with the backend, or has given its recorder up.
Dropped == [probes EXCEPT ![cap.run] = IF @ \in {"ready", "failed"} THEN "gone" ELSE @]

\* What the backend does when its loop has ended.
Judge ==
    /\ cap.at = "judge"
    /\ IF cap.loop = "record" THEN cap' = Returned(cap.err)
       ELSE IF cap.pinned
       THEN cap' = IF ~cap.err \/ ~share.running THEN Returned(cap.err)
                   ELSE [cap EXCEPT !.at = "probe"]
       ELSE cap' = IF ~upgrade /\ (~cap.err \/ ~share.running) THEN Returned(cap.err)
                   ELSE [cap EXCEPT !.at = "wait", !.bounded = ~upgrade]
    /\ probes' = IF cap'.at \in {"start", "done"} THEN Dropped ELSE probes
    /\ UNCHANGED <<share, monitor, upgrade, latest, enc, force, draining, queue, awaiting,
                   gap, viewerVars>>

\* The wait for the probe is bounded only where the flag was not up.
Wait ==
    /\ cap.at = "wait"
    /\ probes[cap.run] \in {"ready", "failed"} \/ cap.bounded
    /\ upgrade' = FALSE
    /\ cap' = IF probes[cap.run] = "ready" /\ share.running
              THEN [cap EXCEPT !.at = "record", !.loop = "record", !.bounded = FALSE,
                             !.err = FALSE]
              ELSE Returned(cap.err)
    /\ latest' = Empty
    /\ probes' = Dropped
    /\ UNCHANGED <<share, monitor, enc, force, draining, queue, awaiting, gap,
                   viewerVars>>

-----------------------------------------------------------------------------
(* One turn of a loop: the request is taken, then a picture.               *)

Takes ==
    /\ cap.at \in {"poll", "record"}
    /\ share.running /\ share.use /\ ~Switched /\ ~draining
    /\ cap.at = "poll" => ~upgrade
    /\ cap' = [cap EXCEPT !.at = "grab", !.forced = force]
    /\ force' = FALSE
    /\ enc' = [enc EXCEPT !.key = @ \/ force]
    /\ UNCHANGED <<share, monitor, upgrade, probes, latest, draining, queue, awaiting, gap,
                   viewerVars>>

\* request_keyframe, where a picture that was asked for did not go.
Again == cap.forced

Back == [cap EXCEPT !.at = cap.loop, !.forced = FALSE]

\* No picture: the capture failed (and wayshot may connect again), or the
\* recorder has none and there is none to repeat.
GrabNothing(reconnects) ==
    /\ cap.at = "grab"
    /\ cap.loop = "record" => ~latest.frame /\ ~latest.ended
    /\ cap' = Back
    /\ force' = (force \/ Again \/ (cap.loop = "poll" /\ reconnects))
    /\ UNCHANGED <<share, monitor, upgrade, probes, latest, enc, draining, queue, awaiting, gap,
                   viewerVars>>

\* A picture like the last one, which nobody asked for.
GrabSame ==
    /\ cap.at = "grab" /\ ~cap.forced
    /\ cap.loop = "record" => latest.frame
    /\ cap' = Back
    /\ latest' = [latest EXCEPT !.frame = FALSE]
    /\ UNCHANGED <<share, monitor, upgrade, probes, enc, force, draining, queue, awaiting, gap,
                   viewerVars>>

\* FrameEncoder::encode, after submit has looked at the interval: whether this
\* frame is a keyframe.  spaced is that MIN_KEYFRAME_INTERVAL has passed; idr that the frame is a keyframe anyhow: the
\* codec makes one, or its backend was made anew for another size or as a fallback.
Encoded(wants, spaced, idr) == enc.fresh \/ (wants /\ spaced) \/ idr

\* Mutant: a keyframe that came too soon after the last one is not owed.
OwesNever(wants, key) == FALSE

\* The request that stays with the encoder until a keyframe is made.
Owes(wants, key) == wants /\ ~key

\* submit: the channel has room.  A frame over the budget is skipped, never a
\* keyframe; periodic is that the interval asks for one.
Submit(periodic, spaced, idr, skips) ==
    LET wants == enc.key \/ periodic
        key   == Encoded(wants, spaced, idr)
    IN  /\ skips => ~key
        /\ enc' = [fresh |-> FALSE, key |-> Owes(wants, key)]
        /\ IF skips THEN force' = (force \/ Again) /\ UNCHANGED queue
           ELSE queue' = Append(queue, [key |-> key, joins |-> TRUE]) /\ UNCHANGED force

\* A picture: of the screen, of the recorder, or the last one again.
Grab(periodic, spaced, idr, skips) ==
    /\ cap.at = "grab"
    /\ cap' = Back
    /\ latest' = [latest EXCEPT !.frame = FALSE]
    /\ IF Len(queue) < ChannelBound
       THEN Submit(periodic, spaced, idr, skips)
       ELSE force' = (force \/ Again) /\ UNCHANGED <<enc, queue>>
    /\ UNCHANGED <<share, monitor, upgrade, probes, draining, awaiting, gap, viewerVars>>

\* The encoder fails, or the recorder has stopped.
GrabFails ==
    /\ cap.at = "grab"
    /\ cap' = [cap EXCEPT !.at = "judge", !.err = TRUE, !.forced = FALSE]
    /\ enc' = Fresh
    /\ UNCHANGED <<share, monitor, upgrade, probes, latest, force, draining, queue, awaiting, gap,
                   viewerVars>>

\* The recorder puts a frame, over one that still waits, or ends.
Records(ends) ==
    /\ cap.loop = "record" /\ ~latest.ended
    /\ latest' = IF ends THEN [latest EXCEPT !.ended = TRUE] ELSE [latest EXCEPT !.frame = TRUE]
    /\ UNCHANGED <<share, monitor, upgrade, probes, cap, enc, force, draining, queue, awaiting,
                   gap, viewerVars>>

-----------------------------------------------------------------------------
(* The task that sends.                                                    *)

Sending == share.net = "loop" /\ share.use

\* Mutant: the frame after a gap is sent whatever it is.
RestartsAnyhow(drains) == draining' = drains /\ force' = TRUE /\ UNCHANGED awaiting

\* Video is held while the link is behind, and the picture starts anew with a
\* keyframe when it goes on.
Restarts(drains) == draining' = drains /\ force' = TRUE /\ awaiting' = TRUE

\* A frame that comes too late, or that nothing can decode, is dropped.
SendDrops(late) ==
    /\ Sending /\ queue # <<>>
    /\ IF late \/ draining THEN Restarts(TRUE)
       ELSE awaiting /\ ~Head(queue).key /\ UNCHANGED <<draining, force, awaiting>>
    /\ queue' = Tail(queue) /\ gap' = TRUE
    /\ UNCHANGED <<share, captureVars, viewerVars>>

\* The frame goes to the server, which relays it (ScreenRelay has the whole of
\* that): a viewer that was shed, or is new, waits for a keyframe.
SendFrame(sheds) ==
    /\ Sending /\ queue # <<>> /\ ~draining
    /\ awaiting => Head(queue).key
    /\ LET f     == Head(queue)
           drops == sheds \/ (relay /\ ~f.key)
       IN  /\ drops \/ Len(window) < WindowBound
           /\ relay' = drops
           /\ window' = IF drops \/ ~viewer.running THEN window
                      ELSE Append(window, [f EXCEPT !.joins = ~gap /\ ~relay])
    /\ queue' = Tail(queue) /\ gap' = FALSE /\ awaiting' = FALSE
    /\ UNCHANGED <<share, captureVars, force, draining, viewer, torn>>

\* The poll of the link while nothing is sent.
SendTick(behind) ==
    /\ Sending /\ draining # behind
    /\ Restarts(behind)
    /\ UNCHANGED <<share, captureVars, queue, gap, viewerVars>>

\* The share is off, its capture or its sound ended, or a write failed.
SendEnds ==
    /\ share.net = "loop"
    /\ share' = [share EXCEPT !.net = "join", !.running = FALSE]
    /\ awaiting' = FALSE /\ gap' = FALSE
    /\ UNCHANGED <<captureVars, force, draining, queue, viewerVars>>

\* The capture thread is joined, and the user is told why.
Joins ==
    /\ share.net = "join" /\ cap.at = "done"
    /\ share' = [share EXCEPT !.net = "done"]
    /\ UNCHANGED <<captureVars, force, draining, queue, awaiting, gap, viewerVars>>

\* The server says that the share is off.
Off ==
    /\ share.use
    /\ share' = [share EXCEPT !.use = FALSE]
    /\ UNCHANGED <<captureVars, force, draining, queue, awaiting, gap, viewerVars>>

\* set_monitor
Picks ==
    /\ share.use /\ monitor < MaxSwitches
    /\ monitor' = monitor + 1
    /\ UNCHANGED <<share, upgrade, probes, cap, latest, enc, force, draining, queue, awaiting, gap,
                   viewerVars>>

-----------------------------------------------------------------------------
(* The server and the viewer.                                              *)

SharerVars == <<share, captureVars, draining, queue, awaiting, gap>>

\* The reverse direction: a frame was shed, or the window asks for a keyframe.
Reports ==
    /\ relay \/ (viewer.running /\ viewer.needs)
    /\ share.net = "loop" /\ ~force
    /\ force' = TRUE
    /\ UNCHANGED <<SharerVars, viewerVars>>

\* What an old backlog without a keyframe leaves behind.
Stale == [viewer EXCEPT !.awaiting = TRUE, !.needs = TRUE, !.whole = FALSE]

\* Whether the frames from start on can all be decoded.
Decodable(start) ==
    \A i \in start..Len(window) : window[i].key \/ (window[i].joins /\ (i > start \/ viewer.whole))

\* process_pending_frames: all that waits.  bad is that the decoder fails.
Shows(old, bad) ==
    /\ viewer.open /\ window # <<>>
    /\ LET keys  == {i \in DOMAIN window : window[i].key}
           start == IF keys = {} THEN 1 ELSE Max(keys)
       IN  IF keys = {} /\ (old \/ viewer.awaiting)
           THEN viewer' = (IF old THEN Stale ELSE [viewer EXCEPT !.needs = TRUE]) /\ UNCHANGED torn
           ELSE /\ torn' = (torn \/ ~Decodable(start))
                /\ viewer' = [viewer EXCEPT
                                 !.awaiting = bad \/ (@ /\ keys = {}),
                                 !.needs    = bad \/ (@ /\ keys = {}),
                                 !.whole    = ~bad]
    /\ window' = <<>>
    /\ UNCHANGED <<SharerVars, force, relay>>

\* attach: a new stream, whose first frame is a keyframe; an open window is
\* taken over with a new decoder.
Attaches ==
    /\ share.net = "loop"
    /\ relay' = TRUE /\ window' = <<>> /\ viewer' = NewViewer
    /\ UNCHANGED <<SharerVars, force, torn>>

\* The user closes the window; or the stream ends, and the window follows.
Detaches ==
    /\ viewer.open
    /\ viewer' = [NewViewer EXCEPT !.running = FALSE, !.open = viewer.running]
    /\ window' = <<>>
    /\ UNCHANGED <<SharerVars, force, relay, torn>>

-----------------------------------------------------------------------------
Capture ==
    \/ Probe \/ CaptureEnds \/ Judge \/ Wait \/ Takes \/ GrabSame \/ GrabFails
    \/ \E flag \in BOOLEAN : Begin(flag) \/ GrabNothing(flag) \/ Records(flag)
    \/ \E periodic, spaced, idr, skips \in BOOLEAN : Grab(periodic, spaced, idr, skips)
    \/ \E n \in Runs, ok \in BOOLEAN : ProbeEnds(n, ok)

Send ==
    \/ SendEnds \/ Joins \/ Off \/ Picks
    \/ \E flag \in BOOLEAN : SendFrame(flag) \/ SendDrops(flag) \/ SendTick(flag)

View ==
    \/ Reports \/ Attaches \/ Detaches
    \/ \E old, bad \in BOOLEAN : Shows(old, bad)

ShareNext == Capture \/ Send \/ View

ShareSpec == ShareInit /\ [][ShareNext]_shareVars

-----------------------------------------------------------------------------
(* Properties.                                                             *)

\* No decoder is given a frame that needs one it was not given, whichever of
\* the four places on the way drops frames: the sending task that is behind,
\* the server, a window with an old backlog, a decoder that fails
\* (screen::screen, spawn_viewer, process_pending_frames).
PictureIsWhole == ~torn

\* A picture that stands still is being repaired: as long as the sending task
\* waits for a keyframe, one is queued, asked for, or being made, and a window
\* that waits for one keeps asking, whatever the capture thread did with the
\* request meanwhile (take_keyframe_request, FrameEncoder, ViewerReports).
KeyframeIsComing ==
    /\ share.net = "loop" /\ awaiting /\ cap.at # "done" =>
          \/ force \/ cap.forced \/ enc.key \/ enc.fresh
          \/ \E i \in DOMAIN queue : queue[i].key
    /\ viewer.awaiting => viewer.needs

\* "Set once the OS-native recorder has proven itself; tells the polling loop
\* to stand down" (UPGRADING): a polling loop that stood down for the flag has
\* a recorder to hand over to.
StandsDownForRecorder ==
    /\ cap.at = "judge" /\ cap.loop = "poll" /\ ~cap.err
    /\ share.running /\ share.use /\ ~Switched
    => probes[cap.run] = "ready"
=============================================================================
