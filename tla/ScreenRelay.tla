---------------------------- MODULE ScreenRelay ----------------------------
(***************************************************************************)
(* How the server relays the video of one screen share to its viewers      *)
(* (chat/src/network/screen/server.rs): the share loop, the short queue    *)
(* and the writer of each viewer, attaching to a share that is running,    *)
(* the placeholder shown while the sharer is muted, and the reporter that  *)
(* asks the sharer for keyframes.                                          *)
(*                                                                         *)
(* The share loop, every viewer's writer, the accept loop that runs        *)
(* attach, and the reporter are tasks of one multi-threaded executor; they *)
(* share the viewers' queues, the share's cached keyframe, its list of     *)
(* pending viewers and two flags, each behind a lock or atomic.            *)
(***************************************************************************)
EXTENDS Naturals, Sequences

CONSTANTS
    Viewers,     \* the attachments, by token; each is used once
    Client,      \* the session each attachment belongs to
    None,        \* no frame, no attachment
    VideoBound,  \* VIEWER_VIDEO_BOUND
    Period       \* frames are numbered modulo this, to keep the model finite

ASSUME BoundAssumption   == VideoBound \in Nat \ {0}
ASSUME PeriodAssumption  == Period \in Nat \ {0}

VARIABLES
    phase,      \* where the share loop is with the frame in hand
    frame,      \* the frame in hand
    last,       \* the number of the last frame the sharer sent
    muted,      \* whether a moderator muted the sharer
    sentMuted,  \* sent_muted_frame: a placeholder was the last thing relayed
    keyframe,   \* the share's cached keyframe
    stage,      \* where each attachment is
    attached,   \* CONNECTIONS: the attachment each session holds
    queue,      \* the video queue of each viewer
    closed,     \* the viewers whose socket failed
    needs_key,  \* the viewers whose video is skipped until a keyframe
    shed,       \* the viewers with the shed flag of their backlog set
    stats,      \* the viewers whose backlog the reporter reads
    key_requested,  \* somebody asked the sharer for a keyframe
    cooling,    \* KEYFRAME_REQUEST_INTERVAL since the last request is not over
    owed,       \* the sharer was told, and its answer has not arrived
    shown,      \* the last frame written to each viewer
    joined      \* history: the viewers that were given a frame of the running share

loopVars   == <<phase, frame, last, sentMuted>>
viewVars   == <<stage, queue, closed, needs_key, shown, joined>>
askVars    == <<shed, stats, key_requested, cooling, owed>>
vars == <<phase, frame, last, muted, sentMuted, keyframe, stage, attached, queue,
          closed, needs_key, shed, stats, key_requested, cooling, owed, shown, joined>>

Clients == {Client[v] : v \in Viewers}
Numbers == 0..Period - 1
Frame   == [n : Numbers, key : BOOLEAN, src : {"share", "placeholder"}]

ASSUME NoneAssumption == None \notin Viewers \cup Frame

\* A delta predicts from the frame before it.
Succ(n) == (n + 1) % Period

Placeholder == [n |-> 0, key |-> TRUE, src |-> "placeholder"]

Stages == {"out", "attaching", "built", "opened", "asked", "pending", "served", "gone"}

\* The stages in which a viewer's writer task runs.
Running == {"built", "opened", "asked", "pending", "served"}

Served == {v \in Viewers : stage[v] = "served"}

TypeOK ==
    /\ phase \in {"read", "adopt", "retire", "forward", "cache", "over"}
    /\ frame \in Frame \cup {None}
    /\ last \in Numbers \cup {None}
    /\ muted \in BOOLEAN
    /\ sentMuted \in BOOLEAN
    /\ keyframe \in Frame \cup {None}
    /\ stage \in [Viewers -> Stages]
    /\ attached \in [Clients -> Viewers \cup {None}]
    /\ queue \in [Viewers -> Seq(Frame)]
    /\ \A v \in Viewers : Len(queue[v]) <= VideoBound
    /\ closed \subseteq Viewers
    /\ needs_key \subseteq Viewers
    /\ shed \subseteq Viewers
    /\ stats \subseteq Viewers
    /\ key_requested \in BOOLEAN
    /\ cooling \in BOOLEAN
    /\ owed \in BOOLEAN
    /\ shown \in [Viewers -> Frame \cup {None}]
    /\ joined \subseteq Viewers

Init ==
    /\ phase = "read"
    /\ frame = None
    /\ last = None
    /\ muted = FALSE
    /\ sentMuted = FALSE
    /\ keyframe = None
    /\ stage = [v \in Viewers |-> "out"]
    /\ attached = [k \in Clients |-> None]
    /\ queue = [v \in Viewers |-> <<>>]
    /\ closed = {}
    /\ needs_key = {}
    /\ shed = {}
    /\ stats = {}
    /\ key_requested = FALSE
    /\ cooling = FALSE
    /\ owed = FALSE
    /\ shown = [v \in Viewers |-> None]
    /\ joined = {}

-----------------------------------------------------------------------------
(* Asking the sharer for a keyframe.                                       *)

\* Share::request_keyframe, when somebody asks: nothing happens within the
\* interval of the last request, unless it is forced.
request_keyframe(asks, force) ==
    /\ key_requested' = (key_requested \/ (asks /\ (force \/ ~cooling)))
    /\ cooling' = (cooling \/ asks)

\* The interval since the last request is over.
CoolDown ==
    /\ cooling
    /\ cooling' = FALSE
    /\ UNCHANGED <<loopVars, muted, keyframe, attached, viewVars,
                   shed, stats, key_requested, owed>>

\* A viewer's own report says that it waits for a keyframe.
ViewerAsks(v) ==
    /\ stage[v] \in Running
    /\ request_keyframe(TRUE, FALSE)
    /\ UNCHANGED <<loopVars, muted, keyframe, attached, viewVars, shed, stats, owed>>

\* Mutant: only a request that passed the cooldown reaches the sharer.
ReportRequestsOnly ==
    /\ phase # "over"
    /\ LET dropped == shed \cap stats # {}
           key     == key_requested \/ (dropped /\ ~cooling)
       IN  /\ cooling' = (cooling \/ dropped)
           /\ owed' = (owed \/ key)
           /\ key \/ dropped
    /\ shed' = shed \ stats
    /\ key_requested' = FALSE
    /\ UNCHANGED <<loopVars, muted, keyframe, attached, viewVars, stats>>

\* feedback: the sharer hears of every shed viewer and of every request.
Report ==
    /\ phase # "over"
    /\ LET dropped == shed \cap stats # {}
           key     == key_requested \/ (dropped /\ ~cooling)
       IN  /\ cooling' = (cooling \/ dropped)
           /\ owed' = (owed \/ dropped \/ key)
           /\ key \/ dropped
    /\ shed' = shed \ stats
    /\ key_requested' = FALSE
    /\ UNCHANGED <<loopVars, muted, keyframe, attached, viewVars, stats>>

-----------------------------------------------------------------------------
(* The share loop.                                                         *)

\* A video frame arrives from the sharer, whose own stream is unbroken: it
\* opens with a keyframe, and every delta predicts from the frame before it.
\* A keyframe may be the answer to what the sharer was told.
NextFrame(key, answer) ==
    /\ phase = "read"
    /\ last = None => key
    /\ answer => key /\ owed
    /\ last' = IF last = None THEN 0 ELSE Succ(last)
    /\ owed' = (owed /\ ~answer)

\* The sharer is not muted: the frame is relayed as it came.
Receive(key, answer) ==
    /\ NextFrame(key, answer)
    /\ ~muted
    /\ sentMuted' = FALSE
    /\ frame' = [n |-> last', key |-> key, src |-> "share"]
    /\ phase' = "adopt"
    /\ UNCHANGED <<muted, keyframe, attached, viewVars, shed, stats, key_requested, cooling>>

\* The sharer is muted: the placeholder frame that is due takes its place.
ReceiveMuted(key, answer) ==
    /\ NextFrame(key, answer)
    /\ muted
    /\ sentMuted' = TRUE
    /\ frame' = Placeholder
    /\ phase' = "adopt"
    /\ UNCHANGED <<muted, keyframe, attached, viewVars, shed, stats, key_requested, cooling>>

\* The placeholder frame that is due was sent already.
SkipMuted(key, answer) ==
    /\ NextFrame(key, answer)
    /\ muted
    /\ sentMuted
    /\ UNCHANGED <<phase, frame, muted, sentMuted, keyframe, attached, viewVars,
                   shed, stats, key_requested, cooling>>

\* An audio packet or a stray report of a sharer that is not muted.
ReceiveAudio ==
    /\ phase = "read"
    /\ ~muted
    /\ sentMuted
    /\ sentMuted' = FALSE
    /\ UNCHANGED <<phase, frame, last, muted, keyframe, attached, viewVars, askVars>>

\* Viewers are dropped, and their tasks with them; others are taken on.
Drop(dropped, taken) ==
    /\ stage' = [v \in Viewers |-> IF v \in dropped THEN "gone"
                                  ELSE IF v \in taken THEN "served" ELSE stage[v]]
    /\ queue' = [v \in Viewers |-> IF v \in dropped THEN <<>> ELSE queue[v]]
    /\ shown' = [v \in Viewers |-> IF v \in dropped THEN None ELSE shown[v]]
    /\ closed' = closed \ dropped
    /\ needs_key' = needs_key \ dropped
    /\ joined' = joined \ dropped

\* The pending viewers are taken on; a session has one viewer at a time.
Adopt ==
    /\ phase = "adopt"
    /\ LET arrivals == {v \in Viewers : stage[v] = "pending"}
       IN  \E taken \in SUBSET arrivals :
             /\ \A v \in arrivals : \E w \in taken : Client[w] = Client[v]
             /\ \A v, w \in taken : Client[v] = Client[w] => v = w
             /\ Drop({v \in arrivals \cup Served :
                         v \notin taken /\ \E w \in taken : Client[w] = Client[v]},
                     taken)
    /\ phase' = "retire"
    /\ UNCHANGED <<frame, last, sentMuted, muted, keyframe, attached, askVars>>

\* Whoever left, or whose socket failed, is retired.
Retire ==
    /\ phase = "retire"
    /\ LET stays == {v \in Served : v \notin closed /\ attached[Client[v]] = v}
       IN  /\ Drop(Served \ stays, {})
           /\ stats' = stays
           /\ shed' = shed \cap stays
    /\ phase' = "forward"
    /\ UNCHANGED <<frame, last, sentMuted, muted, keyframe, attached, key_requested,
                   cooling, owed>>

\* VideoPush::Shed: the queue is full and the frame cannot replace it.
Sheds(q, f) == ~f.key /\ Len(q) >= VideoBound

\* ViewerQueue::push_video: a keyframe replaces everything, and a full queue
\* is a broken chain, of which only a keyframe on its way is kept.
push_video(q, f) ==
    IF f.key THEN <<f>>
    ELSE IF Sheds(q, f) THEN IF \E i \in DOMAIN q : q[i].key THEN q ELSE <<>>
    ELSE Append(q, f)

\* The viewers that are offered the frame in hand.
Offered == {v \in Served : v \notin needs_key \/ frame.key}

\* Mutant: a viewer that got its keyframe keeps waiting for one.
ForwardStillWaiting ==
    /\ phase = "forward"
    /\ queue' = [v \in Viewers |->
                    IF v \in Served \ needs_key THEN push_video(queue[v], frame) ELSE queue[v]]
    /\ joined' = joined \cup (Served \ needs_key)
    /\ phase' = "cache"
    /\ UNCHANGED <<frame, last, sentMuted, muted, keyframe, stage, attached, closed,
                   shown, needs_key, askVars>>

\* The frame is offered to every viewer that does not wait for a keyframe; one
\* whose queue is full is shed and the sharer asked for a keyframe.
Forward ==
    /\ phase = "forward"
    /\ LET full == {v \in Offered : Sheds(queue[v], frame)}
       IN  /\ needs_key' = (needs_key \ Offered) \cup full
           /\ shed' = shed \cup full
           /\ request_keyframe(full # {}, FALSE)
           /\ queue' = [v \in Viewers |->
                           IF v \in Offered THEN push_video(queue[v], frame) ELSE queue[v]]
    /\ joined' = joined \cup Offered
    /\ phase' = "cache"
    /\ UNCHANGED <<frame, last, sentMuted, muted, keyframe, stage, attached, closed,
                   shown, stats, owed>>

\* The last keyframe is kept for the next attach.
Cache ==
    /\ phase = "cache"
    /\ keyframe' = IF frame.key THEN frame ELSE keyframe
    /\ frame' = None
    /\ phase' = "read"
    /\ UNCHANGED <<last, sentMuted, muted, attached, viewVars, askVars>>

\* The upload socket closes or the task is aborted at its read: the viewers
\* the loop holds are dropped with it.
EndShare ==
    /\ phase = "read"
    /\ Drop(Served, {})
    /\ phase' = "over"
    /\ UNCHANGED <<frame, last, sentMuted, muted, keyframe, attached, askVars>>

\* ServerMute toggles the mute of the sharer.
ToggleMute ==
    /\ muted' = ~muted
    /\ UNCHANGED <<loopVars, keyframe, attached, viewVars, askVars>>

-----------------------------------------------------------------------------
(* Attaching, and the viewer's own tasks.                                  *)

Moves(v, from, to) ==
    /\ stage[v] = from
    /\ stage' = [stage EXCEPT ![v] = to]

\* The accept loop: conn.attach_screen.
AttachScreen(v) ==
    /\ Moves(v, "out", "attaching")
    /\ attached' = [attached EXCEPT ![Client[v]] = v]
    /\ UNCHANGED <<loopVars, muted, keyframe, queue, closed, needs_key, shown, joined, askVars>>

\* attach: the share is looked up, and the viewer built waiting for a keyframe.
BuildViewer(v) ==
    /\ IF phase = "over" THEN Moves(v, "attaching", "gone") /\ UNCHANGED needs_key
       ELSE Moves(v, "attaching", "built") /\ needs_key' = needs_key \cup {v}
    /\ UNCHANGED <<loopVars, muted, keyframe, attached, queue, closed, shown, joined, askVars>>

\* The viewer opens on the share's last keyframe.
OpenOnKeyframe(v) ==
    /\ Moves(v, "built", "opened")
    /\ queue' = IF keyframe = None THEN queue
                ELSE [queue EXCEPT ![v] = push_video(@, keyframe)]
    /\ UNCHANGED <<loopVars, muted, keyframe, attached, closed, needs_key, shown, joined, askVars>>

\* A live keyframe is requested for it ...
AskForKeyframe(v) ==
    /\ Moves(v, "opened", "asked")
    /\ request_keyframe(TRUE, TRUE)
    /\ UNCHANGED <<loopVars, muted, keyframe, attached, queue, closed, needs_key, shown,
                   joined, shed, stats, owed>>

\* ... and it is left where the share loop will find it.
LeavePending(v) ==
    /\ Moves(v, "asked", "pending")
    /\ UNCHANGED <<loopVars, muted, keyframe, attached, queue, closed, needs_key, shown,
                   joined, askVars>>

\* The session detaches, or is gone.
Deattach(k) ==
    /\ attached[k] # None
    /\ attached' = [attached EXCEPT ![k] = None]
    /\ UNCHANGED <<loopVars, muted, keyframe, viewVars, askVars>>

\* The writer takes the oldest frame and writes it.
Write(v) ==
    /\ stage[v] \in Running
    /\ v \notin closed
    /\ queue[v] # <<>>
    /\ shown' = [shown EXCEPT ![v] = Head(queue[v])]
    /\ queue' = [queue EXCEPT ![v] = Tail(@)]
    /\ UNCHANGED <<loopVars, muted, keyframe, attached, stage, closed, needs_key, joined, askVars>>

\* The viewer's socket fails: ViewerQueue::close.
Close(v) ==
    /\ stage[v] \in Running
    /\ closed' = closed \cup {v}
    /\ UNCHANGED <<loopVars, muted, keyframe, attached, stage, queue, needs_key, shown,
                   joined, askVars>>

-----------------------------------------------------------------------------

LoopStep == Adopt \/ Retire \/ Forward \/ Cache

SharerStep ==
    \/ \E key, answer \in BOOLEAN :
          Receive(key, answer) \/ ReceiveMuted(key, answer) \/ SkipMuted(key, answer)
    \/ ReceiveAudio \/ EndShare \/ ToggleMute

AttachStep(v) ==
    BuildViewer(v) \/ OpenOnKeyframe(v) \/ AskForKeyframe(v) \/ LeavePending(v)

ViewerStep(v) == AttachScreen(v) \/ AttachStep(v) \/ Write(v) \/ Close(v) \/ ViewerAsks(v)

Next ==
    \/ LoopStep \/ SharerStep \/ CoolDown \/ Report
    \/ \E v \in Viewers : ViewerStep(v)
    \/ \E k \in Clients : Deattach(k)

Spec == Init /\ [][Next]_vars

\* The sharer's encoder emits a keyframe at least every KEYFRAME_INTERVAL, and
\* the placeholder that is due changes with the clock.
KeyframeArrives ==
    \E answer \in BOOLEAN : Receive(TRUE, answer) \/ ReceiveMuted(TRUE, answer)

Fairness ==
    /\ WF_vars(LoopStep)
    /\ SF_vars(KeyframeArrives)
    /\ \A v \in Viewers : WF_vars(AttachStep(v))

FairSpec == Spec /\ Fairness

-----------------------------------------------------------------------------
(* Properties.                                                             *)

\* What can be decoded after the frame f: a keyframe, or the delta after it.
Decodable(f, g) == g.key \/ (f # None /\ f.src = "share" /\ g.n = Succ(f.n))

\* However the share loop, the writer, an attach and a full queue interleave, a
\* viewer that is shown the share is never written a delta whose reference it
\* was not written just before: shedding breaks no picture.
ReferenceHeld ==
    [][\A v \in Viewers : shown'[v] \notin {shown[v], None} =>
          \/ Decodable(shown[v], shown'[v])
          \/ shown[v] # None /\ shown[v].src = "placeholder"]_vars

\* A viewer that was shed waits for a keyframe only while the sharer is going
\* to hear of it, was told, or its keyframe is in hand: neither the request's
\* cooldown nor the reporter's reset of the flags loses the request.
ShedIsHeard ==
    \A v \in Served \cap joined \cap needs_key :
        \/ v \in shed \cap stats
        \/ key_requested
        \/ owed
        \/ phase \in {"adopt", "retire", "forward"} /\ frame.key

\* A viewer that attached is given the picture of the running share, unless it
\* leaves or the share ends.
AttachedIsServed ==
    \A v \in Viewers :
        stage[v] = "pending" ~> v \in joined \/ stage[v] = "gone" \/ phase = "over"

-----------------------------------------------------------------------------
(* What the comments say and the code does not guarantee.                  *)

\* "A VIEWER THAT MISSED A FRAME WAITS FOR AN IDR": the frames a viewer misses
\* while a placeholder takes their place included.
MissedFrameWaits ==
    [][\A v \in Viewers : shown'[v] \notin {shown[v], None} => Decodable(shown[v], shown'[v])]_vars

=============================================================================
