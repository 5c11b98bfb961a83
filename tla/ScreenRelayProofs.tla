------------------------- MODULE ScreenRelayProofs -------------------------
(***************************************************************************)
(* Proofs about ScreenRelay for every set of viewers and sessions, every   *)
(* queue bound and every frame numbering.                                  *)
(*                                                                         *)
(* ReferenceHeld is about what a writer takes from a queue; what makes it  *)
(* true is that each queue, read after the frame written last, is a chain  *)
(* (QueueInv), and that a viewer that does not wait for a keyframe ends on *)
(* the frame the next delta predicts from (EndInv).                        *)
(***************************************************************************)
EXTENDS ScreenRelay, SequenceTheorems, TLAPS

\* g may be written after f.
Links(f, g) ==
    \/ g.key
    \/ f # None /\ (f.src = "placeholder" \/ g.n = Succ(f.n))

\* The frames of q may be written one after the other after s.
Chained(s, q) ==
    /\ q # <<>> => Links(s, q[1])
    /\ \A i \in 1..Len(q) - 1 : Links(q[i], q[i + 1])

\* The last of them.
Ends(s, q) == IF q = <<>> THEN s ELSE q[Len(q)]

\* A queue and what was written before it are a chain.
QueueInv == \A v \in Viewers : Chained(shown[v], queue[v])

InHand == phase \in {"adopt", "retire", "forward"}

\* The frame in hand is the sharer's last, or a placeholder.
FrameInv ==
    InHand \/ phase = "cache" =>
        /\ frame # None
        /\ frame.src = "share" => frame.n = last /\ ~sentMuted
        /\ frame.src = "placeholder" => frame.key

\* A viewer that does not wait for a keyframe ends on the frame that the next
\* delta predicts from, or on a placeholder.
EndInv ==
    \A v \in Served \ needs_key :
        LET e == Ends(shown[v], queue[v])
        IN  /\ e # None
            /\ e.src = "share" =>
                  IF InHand THEN frame.key \/ frame.n = Succ(e.n) ELSE last = e.n

\* While the placeholder is what was relayed last, every viewer ends on it.
PlaceholderInv ==
    sentMuted /\ ~InHand =>
        \A v \in Served : v \notin needs_key /\ Ends(shown[v], queue[v]).src = "placeholder"

\* A viewer that was just built waits for a keyframe; what is cached is one.
FreshInv ==
    /\ keyframe # None => keyframe.key
    /\ joined \subseteq Served
    /\ \A v \in Viewers : stage[v] \in Running \ {"served"} => v \in needs_key
    /\ phase = "forward" => Served \subseteq stats

IInv ==
    /\ TypeOK
    /\ QueueInv
    /\ FrameInv
    /\ EndInv
    /\ PlaceholderInv
    /\ FreshInv
    /\ ShedIsHeard

-----------------------------------------------------------------------------
(* Queues.                                                                 *)

\* The number after a frame number is a frame number.
LEMMA SuccType == \A n \in Numbers : Succ(n) \in Numbers
  BY PeriodAssumption DEF Succ, Numbers

\* An empty queue is a chain from what the viewer was shown.
LEMMA ChainEmpty ==
    ASSUME NEW s
    PROVE  Chained(s, <<>>) /\ Ends(s, <<>>) = s
  BY DEF Chained, Ends

\* A queue of one keyframe is a chain after anything.
LEMMA ChainKey ==
    ASSUME NEW s, NEW f \in Frame, f.key
    PROVE  Chained(s, <<f>>) /\ Ends(s, <<f>>) = f
  BY DEF Chained, Ends, Links

\* A frame that may follow the last one prolongs a chain.
LEMMA ChainAppend ==
    ASSUME NEW s, NEW q \in Seq(Frame), NEW f \in Frame,
           Chained(s, q), Links(Ends(s, q), f)
    PROVE  Chained(s, Append(q, f)) /\ Ends(s, Append(q, f)) = f
<1>1. Append(q, f) # <<>> /\ Len(Append(q, f)) = Len(q) + 1 /\ Append(q, f)[Len(q) + 1] = f
  OBVIOUS
<1>2. \A i \in 1..Len(q) : Append(q, f)[i] = q[i]
  OBVIOUS
<1>3. Len(q) \in Nat /\ (q = <<>> <=> Len(q) = 0)
  OBVIOUS
<1>4. Links(s, Append(q, f)[1])
  BY <1>1, <1>2, <1>3 DEF Chained, Ends
<1>5. ASSUME NEW i \in 1..Len(q)
      PROVE  Links(Append(q, f)[i], Append(q, f)[i + 1])
  <2>1. CASE i = Len(q)
    BY <1>1, <1>2, <1>3, <2>1 DEF Ends
  <2>2. CASE i < Len(q)
    BY <1>2, <1>3, <2>2 DEF Chained
  <2> QED
    BY <1>3, <2>1, <2>2
<1> QED
  BY <1>1, <1>3, <1>4, <1>5 DEF Chained, Ends

\* The writer's pop leaves a chain after the frame it took.
LEMMA ChainPop ==
    ASSUME NEW s, NEW q \in Seq(Frame), q # <<>>, Chained(s, q)
    PROVE  /\ Links(s, Head(q))
           /\ Chained(Head(q), Tail(q))
           /\ Ends(Head(q), Tail(q)) = Ends(s, q)
<1>0. Len(q) \in Nat /\ Len(q) # 0 /\ Tail(q) \in Seq(Frame)
  OBVIOUS
<1>1. /\ Len(q) >= 1 /\ Head(q) = q[1]
      /\ Len(Tail(q)) = Len(q) - 1
      /\ Tail(q) = <<>> <=> Len(q) = 1
  <2>1. Len(q) >= 1
    BY <1>0
  <2>2. Head(q) = q[1]
    OBVIOUS
  <2>3. Len(Tail(q)) = Len(q) - 1
    BY <1>0, HeadTailProperties
  <2>4. Tail(q) = <<>> <=> Len(Tail(q)) = 0
    BY <1>0, EmptySeq
  <2> QED
    BY <1>0, <2>1, <2>2, <2>3, <2>4
<1>2. \A i \in 1..Len(q) - 1 : Tail(q)[i] = q[i + 1]
  OBVIOUS
<1>3. Chained(Head(q), Tail(q))
  <2>1. Tail(q) # <<>> => Links(q[1], Tail(q)[1])
    BY <1>0, <1>1, <1>2 DEF Chained
  <2>2. ASSUME NEW i \in 1..Len(q) - 2
        PROVE  Links(Tail(q)[i], Tail(q)[i + 1])
    BY <1>0, <1>1, <1>2 DEF Chained
  <2> QED
    BY <1>0, <1>1, <2>1, <2>2 DEF Chained
<1> QED
  BY <1>0, <1>1, <1>2, <1>3 DEF Chained, Ends

\* push_video keeps a queue within its bound, and a chain a chain.
LEMMA PushVideo ==
    ASSUME NEW s, NEW q \in Seq(Frame), Len(q) <= VideoBound, NEW f \in Frame,
           Chained(s, q)
    PROVE  /\ push_video(q, f) \in Seq(Frame)
           /\ Len(push_video(q, f)) <= VideoBound
           /\ Sheds(q, f) => Chained(s, push_video(q, f))
           /\ f.key => Chained(s, push_video(q, f)) /\ Ends(s, push_video(q, f)) = f
           /\ ~Sheds(q, f) /\ Links(Ends(s, q), f) =>
                 Chained(s, push_video(q, f)) /\ Ends(s, push_video(q, f)) = f
<1>1. CASE f.key
  <2>1. push_video(q, f) = <<f>> /\ ~Sheds(q, f)
    BY <1>1 DEF push_video, Sheds
  <2>2. <<f>> \in Seq(Frame) /\ Len(<<f>>) <= VideoBound
    BY BoundAssumption
  <2> QED
    BY <1>1, <2>1, <2>2, ChainKey
<1>2. CASE ~f.key /\ Sheds(q, f)
  <2>1. push_video(q, f) \in {q, <<>>}
    BY <1>2 DEF push_video
  <2>2. Chained(s, <<>>) /\ <<>> \in Seq(Frame) /\ Len(<<>>) <= VideoBound
    BY BoundAssumption DEF Chained
  <2> QED
    BY <1>2, <2>1, <2>2
<1>3. CASE ~f.key /\ ~Sheds(q, f)
  <2>1. push_video(q, f) = Append(q, f)
    BY <1>3 DEF push_video
  <2>2. Append(q, f) \in Seq(Frame) /\ Len(Append(q, f)) <= VideoBound
    BY <1>3, BoundAssumption DEF Sheds
  <2> QED
    BY <1>3, <2>1, <2>2, ChainAppend
<1> QED
  BY <1>1, <1>2, <1>3

-----------------------------------------------------------------------------
(* The invariant.                                                          *)

\* The initial states satisfy the inductive invariant.
LEMMA InitIInv == Init => IInv
<1> SUFFICES ASSUME Init PROVE IInv
  OBVIOUS
<1>0. <<>> \in Seq(Frame) /\ Len(<<>>) = 0
  OBVIOUS
<1>1. TypeOK
  <2>1. queue \in [Viewers -> Seq(Frame)] /\ \A v \in Viewers : Len(queue[v]) <= VideoBound
    BY <1>0, BoundAssumption DEF Init
  <2> QED
    BY <2>1 DEF Init, TypeOK, Stages
<1>2. QueueInv
  BY ChainEmpty DEF Init, QueueInv
<1>3. FrameInv /\ EndInv /\ PlaceholderInv /\ FreshInv /\ ShedIsHeard
  BY DEF Init, FrameInv, EndInv, PlaceholderInv, FreshInv, ShedIsHeard, InHand, Served, Running
<1> QED
  BY <1>1, <1>2, <1>3 DEF IInv

\* The requests, the reporter, the mute and a detach touch neither the frame in
\* hand nor the queues.
LEMMA AskingIInv ==
    ASSUME IInv,
           \/ CoolDown \/ Report \/ ToggleMute
           \/ \E v \in Viewers : ViewerAsks(v)
           \/ \E k \in Clients : Deattach(k)
    PROVE  IInv'
<1> USE DEF IInv
<1> USE DEF loopVars, viewVars, askVars, CoolDown, Report, ToggleMute, ViewerAsks, Deattach,
            request_keyframe
<1>1. TypeOK'
  BY DEF TypeOK
<1>2. QueueInv' /\ FrameInv'
  BY DEF QueueInv, FrameInv, InHand
<1>3. EndInv' /\ PlaceholderInv'
  BY DEF EndInv, PlaceholderInv, InHand, Served
<1>4. FreshInv'
  BY DEF FreshInv, Served
<1>5. ShedIsHeard'
  BY DEF ShedIsHeard, Served, TypeOK
<1> QED
  BY <1>1, <1>2, <1>3, <1>4, <1>5

\* A packet of the sharer changes the frame in hand and no queue.
LEMMA ReceiveIInv ==
    ASSUME IInv,
           \/ ReceiveAudio
           \/ \E key, answer \in BOOLEAN :
                 Receive(key, answer) \/ ReceiveMuted(key, answer) \/ SkipMuted(key, answer)
    PROVE  IInv'
<1> USE DEF IInv
<1> USE DEF loopVars, viewVars, askVars
<1>1. CASE ReceiveAudio
  <2> USE <1>1 DEF ReceiveAudio
  <2>1. TypeOK' /\ QueueInv' /\ FrameInv'
    BY DEF TypeOK, QueueInv, FrameInv, InHand
  <2>2. EndInv' /\ PlaceholderInv' /\ FreshInv' /\ ShedIsHeard'
    BY DEF EndInv, PlaceholderInv, FreshInv, ShedIsHeard, InHand, Served
  <2> QED
    BY <2>1, <2>2
<1>2. ASSUME NEW key \in BOOLEAN, NEW answer \in BOOLEAN, NextFrame(key, answer)
      PROVE  last' \in Numbers /\ owed' \in BOOLEAN
  BY <1>2, SuccType, PeriodAssumption DEF NextFrame, TypeOK, Numbers
<1>3. ASSUME NEW key \in BOOLEAN, NEW answer \in BOOLEAN, Receive(key, answer)
      PROVE  IInv'
  <2> USE <1>3 DEF Receive
  <2>1. last' \in Numbers /\ owed' \in BOOLEAN
    BY <1>2
  <2>2. frame' \in Frame
    BY <2>1 DEF Frame
  <2>3. TypeOK'
    BY <2>1, <2>2 DEF TypeOK
  <2>4. QueueInv' /\ FreshInv'
    BY DEF QueueInv, FreshInv, Served
  <2>5. FrameInv'
    BY <2>2, NoneAssumption DEF FrameInv, InHand
  <2>6. EndInv'
    BY DEF EndInv, InHand, Served, NextFrame, TypeOK
  <2>7. PlaceholderInv'
    BY DEF PlaceholderInv, InHand
  <2>8. ShedIsHeard'
    BY DEF ShedIsHeard, Served, NextFrame, TypeOK
  <2> QED
    BY <2>3, <2>4, <2>5, <2>6, <2>7, <2>8
<1>4. ASSUME NEW key \in BOOLEAN, NEW answer \in BOOLEAN, ReceiveMuted(key, answer)
      PROVE  IInv'
  <2> USE <1>4 DEF ReceiveMuted
  <2>1. last' \in Numbers /\ owed' \in BOOLEAN
    BY <1>2
  <2>2. frame' \in Frame /\ frame'.key /\ frame'.src = "placeholder"
    BY PeriodAssumption DEF Frame, Placeholder, Numbers
  <2>3. TypeOK'
    BY <2>1, <2>2 DEF TypeOK
  <2>4. QueueInv' /\ FreshInv'
    BY DEF QueueInv, FreshInv, Served
  <2>5. FrameInv'
    BY <2>2, NoneAssumption DEF FrameInv, InHand
  <2>6. EndInv' /\ PlaceholderInv'
    BY <2>2 DEF EndInv, PlaceholderInv, InHand, Served, NextFrame
  <2>7. ShedIsHeard'
    BY <2>2 DEF ShedIsHeard, Served
  <2> QED
    BY <2>3, <2>4, <2>5, <2>6, <2>7
<1>5. ASSUME NEW key \in BOOLEAN, NEW answer \in BOOLEAN, SkipMuted(key, answer)
      PROVE  IInv'
  <2> USE <1>5 DEF SkipMuted
  <2>1. last' \in Numbers /\ owed' \in BOOLEAN
    BY <1>2
  <2>2. TypeOK'
    BY <2>1 DEF TypeOK
  <2>3. phase' = "read" /\ ~InHand /\ ~InHand'
    BY DEF NextFrame, InHand
  <2>4. QueueInv' /\ FreshInv' /\ FrameInv'
    BY <2>3 DEF QueueInv, FreshInv, FrameInv, Served
  <2>5. PlaceholderInv'
    BY <2>3 DEF PlaceholderInv, Served
  <2>6. EndInv'
    BY <2>3 DEF EndInv, PlaceholderInv, Served
  <2>7. ShedIsHeard'
    BY <2>3 DEF ShedIsHeard, PlaceholderInv, Served
  <2> QED
    BY <2>2, <2>4, <2>5, <2>6, <2>7
<1> QED
  BY <1>1, <1>3, <1>4, <1>5

\* Dropping viewers, and taking on viewers that wait for a keyframe, leaves the
\* queues of the others as they are.
LEMMA DropQueues ==
    ASSUME IInv, NEW dropped \in SUBSET Viewers, NEW taken \in SUBSET Viewers,
           Drop(dropped, taken), \A v \in taken : stage[v] = "pending"
    PROVE  /\ stage' \in [Viewers -> Stages]
           /\ queue' \in [Viewers -> Seq(Frame)]
           /\ \A v \in Viewers : Len(queue'[v]) <= VideoBound
           /\ shown' \in [Viewers -> Frame \cup {None}]
           /\ closed' \subseteq Viewers /\ needs_key' \subseteq Viewers /\ joined' \subseteq Viewers
           /\ QueueInv'
           /\ Served' = (Served \ dropped) \cup (taken \ dropped)
           /\ \A v \in Served' \ needs_key' :
                 v \in Served \ needs_key /\ queue'[v] = queue[v] /\ shown'[v] = shown[v]
           /\ joined' \subseteq Served'
           /\ Served' \cap joined' \cap needs_key' \subseteq Served \cap joined \cap needs_key
           /\ \A v \in Viewers : stage'[v] \in Running \ {"served"} => v \in needs_key'
<1> USE DEF IInv, Drop
<1>1. <<>> \in Seq(Frame) /\ Len(<<>>) = 0 /\ VideoBound >= 0
  BY BoundAssumption
<1>2. /\ stage' \in [Viewers -> Stages]
      /\ queue' \in [Viewers -> Seq(Frame)]
      /\ shown' \in [Viewers -> Frame \cup {None}]
      /\ closed' \subseteq Viewers /\ needs_key' \subseteq Viewers /\ joined' \subseteq Viewers
  BY <1>1 DEF TypeOK, Stages
<1>3. \A v \in Viewers : Len(queue'[v]) <= VideoBound
  BY <1>1 DEF TypeOK
<1>4. QueueInv'
  BY ChainEmpty DEF QueueInv, TypeOK
<1>5. Served' = (Served \ dropped) \cup (taken \ dropped)
  BY DEF Served, TypeOK
<1>6. \A v \in taken : v \in needs_key /\ v \notin Served
  BY DEF FreshInv, Running, Served
<1>7. \A v \in Served' \ needs_key' :
          v \in Served \ needs_key /\ queue'[v] = queue[v] /\ shown'[v] = shown[v]
  BY <1>5, <1>6 DEF Served
<1>8. /\ joined' \subseteq Served'
      /\ Served' \cap joined' \cap needs_key' \subseteq Served \cap joined \cap needs_key
  BY <1>5, <1>6 DEF FreshInv
<1>9. \A v \in Viewers : stage'[v] \in Running \ {"served"} => v \in needs_key'
  BY DEF FreshInv, Running
<1> QED
  BY <1>2, <1>3, <1>4, <1>5, <1>7, <1>8, <1>9

\* The loop's bookkeeping of its viewers, and the end of the share.
LEMMA DropIInv ==
    ASSUME IInv, Adopt \/ Retire \/ EndShare
    PROVE  IInv'
<1> USE DEF IInv
<1>1. CASE Adopt
  <2> USE <1>1 DEF Adopt
  <2>1. PICK taken \in SUBSET {v \in Viewers : stage[v] = "pending"} :
          Drop({v \in {u \in Viewers : stage[u] = "pending"} \cup Served :
                   v \notin taken /\ \E w \in taken : Client[w] = Client[v]}, taken)
    OBVIOUS
  <2> DEFINE dropped == {v \in {u \in Viewers : stage[u] = "pending"} \cup Served :
                            v \notin taken /\ \E w \in taken : Client[w] = Client[v]}
  <2>2. /\ dropped \in SUBSET Viewers /\ taken \in SUBSET Viewers
        /\ Drop(dropped, taken)
        /\ \A v \in taken : stage[v] = "pending"
    BY <2>1 DEF Served
  <2> HIDE DEF dropped
  <2>3. TypeOK'
    BY <2>2, DropQueues DEF TypeOK, askVars
  <2>4. QueueInv' /\ FreshInv'
    BY <2>2, DropQueues DEF FreshInv, askVars
  <2>5. FrameInv'
    BY DEF FrameInv, InHand
  <2>6. EndInv' /\ PlaceholderInv'
    BY <2>2, DropQueues DEF EndInv, PlaceholderInv, InHand
  <2>7. ShedIsHeard'
    BY <2>2, DropQueues DEF ShedIsHeard, askVars
  <2> QED
    BY <2>3, <2>4, <2>5, <2>6, <2>7
<1>2. CASE Retire
  <2> USE <1>2 DEF Retire
  <2> DEFINE stays == {v \in Served : v \notin closed /\ attached[Client[v]] = v}
  <2>1. /\ Served \ stays \in SUBSET Viewers /\ {} \in SUBSET Viewers
        /\ Drop(Served \ stays, {})
        /\ stays \subseteq Viewers /\ Served \ (Served \ stays) = stays
    BY DEF Served
  <2> DEFINE leaving == Served \ stays
  <2>2. Served' = stays
    <3>1. Served' = (Served \ leaving) \cup ({} \ leaving)
      BY <2>1, DropQueues
    <3> QED
      BY <3>1, <2>1
  <2>3. stats' = stays /\ shed' = shed \cap stays /\ phase' = "forward"
    OBVIOUS
  <2> HIDE DEF stays
  <2>4. TypeOK'
    <3>1. /\ stage' \in [Viewers -> Stages]
          /\ queue' \in [Viewers -> Seq(Frame)]
          /\ \A v \in Viewers : Len(queue'[v]) <= VideoBound
          /\ shown' \in [Viewers -> Frame \cup {None}]
          /\ closed' \subseteq Viewers /\ needs_key' \subseteq Viewers
          /\ joined' \subseteq Viewers
      BY <2>1, DropQueues
    <3>2. UNCHANGED <<frame, last, sentMuted, muted, keyframe, attached,
                      key_requested, cooling, owed>>
      OBVIOUS
    <3>3. stats' \subseteq Viewers /\ shed' \subseteq Viewers
      BY <2>1, <2>3
    <3> QED
      BY <2>3, <3>1, <3>2, <3>3 DEF TypeOK
  <2>5. QueueInv' /\ FreshInv'
    BY <2>1, <2>2, <2>3, DropQueues DEF FreshInv
  <2>6. FrameInv'
    BY DEF FrameInv, InHand
  <2>7. EndInv' /\ PlaceholderInv'
    BY <2>1, DropQueues DEF EndInv, PlaceholderInv, InHand
  <2>8. ShedIsHeard'
    <3>1. Served' \cap joined' \cap needs_key' \subseteq Served \cap joined \cap needs_key
      BY <2>1, DropQueues
    <3>2. phase = "retire" /\ UNCHANGED <<frame, key_requested, owed>>
      OBVIOUS
    <3> QED
      BY <2>2, <2>3, <3>1, <3>2 DEF ShedIsHeard
  <2> QED
    BY <2>4, <2>5, <2>6, <2>7, <2>8
<1>3. CASE EndShare
  <2> USE <1>3 DEF EndShare
  <2>1. Served \in SUBSET Viewers /\ {} \in SUBSET Viewers /\ Drop(Served, {})
    BY DEF Served
  <2>2. Served' = {}
    <3>1. Served' = (Served \ Served) \cup ({} \ Served)
      BY <2>1, DropQueues
    <3> QED
      BY <3>1
  <2>3. TypeOK'
    BY <2>1, DropQueues DEF TypeOK, askVars
  <2>4. QueueInv' /\ FreshInv'
    BY <2>1, DropQueues DEF FreshInv
  <2>5. FrameInv' /\ EndInv' /\ PlaceholderInv' /\ ShedIsHeard'
    BY <2>2 DEF FrameInv, EndInv, PlaceholderInv, ShedIsHeard, InHand
  <2> QED
    BY <2>3, <2>4, <2>5
<1> QED
  BY <1>1, <1>2, <1>3

\* The loop offers the frame in hand.  A keyframe ends every wait; a delta is
\* appended to a queue that ends on its reference, or breaks the chain, and
\* then the viewer waits.
LEMMA ForwardIInv ==
    ASSUME IInv, Forward
    PROVE  IInv'
<1> USE DEF IInv
<1> DEFINE full == {v \in Offered : Sheds(queue[v], frame)}
<1>1. /\ phase = "forward" /\ phase' = "cache"
      /\ needs_key' = (needs_key \ Offered) \cup full
      /\ shed' = shed \cup full
      /\ key_requested' = (key_requested \/ (full # {} /\ (FALSE \/ ~cooling)))
      /\ cooling' = (cooling \/ full # {})
      /\ queue' = [v \in Viewers |->
                      IF v \in Offered THEN push_video(queue[v], frame) ELSE queue[v]]
      /\ joined' = joined \cup Offered
      /\ UNCHANGED <<frame, last, sentMuted, muted, keyframe, stage, attached, closed,
                     shown, stats, owed>>
  BY DEF Forward, request_keyframe
<1>2. Served' = Served /\ Offered \subseteq Served /\ Served \subseteq Viewers /\ full \subseteq Offered
  BY <1>1 DEF Served, Offered
<1>3. frame \in Frame /\ InHand /\ ~InHand'
  BY <1>1 DEF FrameInv, InHand, TypeOK
<1>4. ASSUME NEW v \in Viewers
      PROVE  /\ queue[v] \in Seq(Frame) /\ Len(queue[v]) <= VideoBound
             /\ Chained(shown[v], queue[v])
  BY DEF TypeOK, QueueInv
<1>5. ASSUME NEW v \in Offered, v \notin full
      PROVE  /\ Chained(shown[v], queue'[v])
             /\ Ends(shown[v], queue'[v]) = frame
  <2>1. queue'[v] = push_video(queue[v], frame) /\ v \in Viewers /\ ~Sheds(queue[v], frame)
    BY <1>1, <1>2, <1>5
  <2>2. CASE frame.key
    BY <1>3, <1>4, <2>1, <2>2, PushVideo
  <2>3. CASE ~frame.key
    <3>1. v \in Served \ needs_key
      BY <2>3 DEF Offered
    <3>2. Links(Ends(shown[v], queue[v]), frame)
      <4>1. Ends(shown[v], queue[v]) \in Frame
        BY <1>4, <2>1, <3>1 DEF Ends, EndInv, TypeOK
      <4> QED
        BY <1>3, <2>3, <3>1, <4>1 DEF EndInv, Links, Frame
    <3> QED
      BY <1>3, <1>4, <2>1, <3>2, PushVideo
  <2> QED
    BY <2>2, <2>3
<1>6. ASSUME NEW v \in full
      PROVE  Chained(shown[v], queue'[v])
  BY <1>1, <1>2, <1>3, <1>4, PushVideo
<1>7. ASSUME NEW v \in Viewers
      PROVE  queue'[v] \in Seq(Frame) /\ Len(queue'[v]) <= VideoBound
  BY <1>1, <1>3, <1>4, PushVideo
<1>8. TypeOK'
  <2>1. queue' \in [Viewers -> Seq(Frame)] /\ \A v \in Viewers : Len(queue'[v]) <= VideoBound
    BY <1>1, <1>7
  <2>2. key_requested' \in BOOLEAN /\ cooling' \in BOOLEAN
    BY <1>1
  <2> HIDE DEF full
  <2> QED
    BY <1>1, <1>2, <2>1, <2>2 DEF TypeOK
<1>9. QueueInv'
  <2> SUFFICES ASSUME NEW v \in Viewers
               PROVE  Chained(shown[v], queue'[v])
    BY <1>1 DEF QueueInv
  <2>1. CASE v \in Offered
    BY <1>5, <1>6, <2>1
  <2>2. CASE v \notin Offered
    BY <1>1, <1>4, <2>2
  <2> QED
    BY <2>1, <2>2
<1>10. FrameInv'
  BY <1>1 DEF FrameInv, InHand
<1>11. Served' \ needs_key' \subseteq Offered \ full
  BY <1>1, <1>2 DEF Offered
<1>12. EndInv'
  <2> SUFFICES ASSUME NEW v \in Offered \ full
               PROVE  frame # None /\ (frame.src = "share" => last = frame.n)
    BY <1>1, <1>3, <1>5, <1>11 DEF EndInv
  <2> QED
    BY <1>3 DEF FrameInv
<1>13. PlaceholderInv'
  <2> SUFFICES ASSUME sentMuted, NEW v \in Served
               PROVE  v \notin needs_key' /\ Ends(shown[v], queue'[v]).src = "placeholder"
    BY <1>1, <1>2 DEF PlaceholderInv
  <2>1. frame.src = "placeholder" /\ frame.key
    BY <1>3 DEF FrameInv, Frame
  <2>2. v \in Offered /\ v \notin full
    BY <2>1 DEF Offered, Sheds
  <2> QED
    BY <1>1, <1>5, <2>1, <2>2
<1>14. FreshInv'
  BY <1>1, <1>2 DEF FreshInv, Running, Served
<1>15. ShedIsHeard'
  <2> SUFFICES ASSUME NEW v \in Served, v \in joined', v \in needs_key'
               PROVE  v \in shed' \cap stats' \/ key_requested' \/ owed'
    BY <1>2 DEF ShedIsHeard
  <2>1. CASE v \in full
    BY <1>1, <2>1 DEF FreshInv
  <2>2. CASE v \notin full
    <3>1. v \in needs_key \ Offered /\ v \in joined /\ ~frame.key
      BY <1>1, <2>2 DEF Offered
    <3> QED
      BY <1>1, <3>1 DEF ShedIsHeard
  <2> QED
    BY <2>1, <2>2
<1> QED
  BY <1>8, <1>9, <1>10, <1>12, <1>13, <1>14, <1>15

\* The cache keeps a keyframe.
LEMMA CacheIInv ==
    ASSUME IInv, Cache
    PROVE  IInv'
<1> USE DEF IInv, Cache, viewVars, askVars
<1>1. TypeOK' /\ QueueInv' /\ FrameInv'
  BY DEF TypeOK, QueueInv, FrameInv, InHand
<1>2. EndInv' /\ PlaceholderInv'
  BY DEF EndInv, PlaceholderInv, InHand, Served
<1>3. FreshInv'
  BY DEF FreshInv, Served
<1>4. ShedIsHeard'
  BY DEF ShedIsHeard, Served
<1> QED
  BY <1>1, <1>2, <1>3, <1>4

\* An attachment waits for a keyframe from the moment its writer runs.
LEMMA AttachIInv ==
    ASSUME IInv, NEW v \in Viewers, AttachScreen(v) \/ AttachStep(v)
    PROVE  IInv'
<1> USE DEF IInv
<1> USE DEF loopVars, askVars, Moves, AttachScreen, AttachStep, BuildViewer, OpenOnKeyframe,
            AskForKeyframe, LeavePending, request_keyframe
<1>1. Served' = Served /\ v \notin Served
  BY DEF Served, TypeOK
<1>2. /\ UNCHANGED <<phase, frame, last, muted, sentMuted, keyframe, closed, shown, joined,
                     shed, stats, owed>>
      /\ key_requested => key_requested'
      /\ \A w \in Viewers \ {v} : queue'[w] = queue[w]
      /\ needs_key \subseteq needs_key' /\ needs_key' \subseteq needs_key \cup {v}
  BY DEF TypeOK
<1>3. /\ queue' \in [Viewers -> Seq(Frame)]
      /\ \A w \in Viewers : Len(queue'[w]) <= VideoBound
      /\ QueueInv'
  <2>1. CASE UNCHANGED queue
    BY <1>2, <2>1 DEF TypeOK, QueueInv
  <2>2. CASE OpenOnKeyframe(v) /\ keyframe # None
    <3>1. /\ queue[v] \in Seq(Frame) /\ Len(queue[v]) <= VideoBound
          /\ keyframe \in Frame /\ keyframe.key
          /\ Chained(shown[v], queue[v])
      BY <2>2 DEF TypeOK, FreshInv, QueueInv
    <3>2. /\ push_video(queue[v], keyframe) \in Seq(Frame)
          /\ Len(push_video(queue[v], keyframe)) <= VideoBound
          /\ Chained(shown[v], push_video(queue[v], keyframe))
      BY <3>1, PushVideo
    <3>3. queue' = [queue EXCEPT ![v] = push_video(queue[v], keyframe)]
      BY <2>2
    <3> QED
      BY <1>2, <3>2, <3>3 DEF TypeOK, QueueInv
  <2> QED
    BY <2>1, <2>2
<1>4. TypeOK'
  <2>0. stage' \in [Viewers -> Stages]
    BY DEF TypeOK, Stages
  <2>1. attached' \in [Clients -> Viewers \cup {None}]
    <3>1. attached' = attached \/ attached' = [attached EXCEPT ![Client[v]] = v]
      OBVIOUS
    <3> QED
      BY <3>1 DEF TypeOK
  <2>2. key_requested' \in BOOLEAN /\ cooling' \in BOOLEAN
    BY DEF TypeOK
  <2> QED
    BY <1>2, <1>3, <2>0, <2>1, <2>2 DEF TypeOK
<1>5. FrameInv' /\ EndInv' /\ PlaceholderInv'
  BY <1>1, <1>2 DEF FrameInv, EndInv, PlaceholderInv, InHand, Served
<1>6. FreshInv'
  <2>1. \A w \in Viewers : stage'[w] \in Running \ {"served"} => w \in needs_key'
    BY DEF FreshInv, TypeOK, Running
  <2> QED
    BY <1>1, <1>2, <2>1 DEF FreshInv
<1>7. ShedIsHeard'
  BY <1>1, <1>2 DEF ShedIsHeard
<1> QED
  BY <1>3, <1>4, <1>5, <1>6, <1>7

\* What the writer takes may be written, and leaves a chain that ends where it
\* ended.
LEMMA WriteChain ==
    ASSUME IInv, NEW v \in Viewers, Write(v)
    PROVE  /\ Links(shown[v], Head(queue[v]))
           /\ Head(queue[v]) \in Frame
           /\ Tail(queue[v]) \in Seq(Frame) /\ Len(Tail(queue[v])) <= VideoBound
           /\ Chained(Head(queue[v]), Tail(queue[v]))
           /\ Ends(Head(queue[v]), Tail(queue[v])) = Ends(shown[v], queue[v])
<1>1. /\ queue[v] \in Seq(Frame) /\ queue[v] # <<>> /\ Len(queue[v]) <= VideoBound
      /\ Chained(shown[v], queue[v])
  BY DEF IInv, Write, TypeOK, QueueInv
<1>2. /\ Head(queue[v]) \in Frame /\ Tail(queue[v]) \in Seq(Frame)
      /\ Len(Tail(queue[v])) = Len(queue[v]) - 1
  BY <1>1, HeadTailProperties
<1>3. Len(Tail(queue[v])) <= VideoBound
  BY <1>1, <1>2, BoundAssumption
<1> QED
  BY <1>1, <1>2, <1>3, ChainPop

\* What a viewer's writer does keeps the inductive invariant.
LEMMA WriterIInv ==
    ASSUME IInv, NEW v \in Viewers, Write(v) \/ Close(v)
    PROVE  IInv'
<1> USE DEF IInv
<1>1. CASE Write(v)
  <2> USE <1>1 DEF Write, loopVars, askVars
  <2>1. /\ shown'[v] = Head(queue[v]) /\ queue'[v] = Tail(queue[v])
        /\ \A w \in Viewers \ {v} : shown'[w] = shown[w] /\ queue'[w] = queue[w]
    BY DEF TypeOK
  <2>2. TypeOK'
    <3>1. queue' \in [Viewers -> Seq(Frame)] /\ shown' \in [Viewers -> Frame \cup {None}]
      BY WriteChain DEF TypeOK
    <3>2. \A w \in Viewers : Len(queue'[w]) <= VideoBound
      BY <2>1, WriteChain DEF TypeOK
    <3> QED
      BY <3>1, <3>2 DEF TypeOK
  <2>3. QueueInv'
    BY <2>1, WriteChain DEF QueueInv
  <2>4. \A w \in Viewers : Ends(shown'[w], queue'[w]) = Ends(shown[w], queue[w])
    BY <2>1, WriteChain
  <2>5. EndInv' /\ PlaceholderInv'
    BY <2>4 DEF EndInv, PlaceholderInv, InHand, Served
  <2>6. FrameInv' /\ FreshInv' /\ ShedIsHeard'
    BY DEF FrameInv, FreshInv, ShedIsHeard, InHand, Served
  <2> QED
    BY <2>2, <2>3, <2>5, <2>6
<1>2. CASE Close(v)
  <2> USE <1>2 DEF Close, loopVars, askVars
  <2>1. TypeOK' /\ QueueInv' /\ FrameInv' /\ FreshInv'
    BY DEF TypeOK, QueueInv, FrameInv, FreshInv, InHand, Served
  <2>2. EndInv' /\ PlaceholderInv' /\ ShedIsHeard'
    BY DEF EndInv, PlaceholderInv, ShedIsHeard, InHand, Served
  <2> QED
    BY <2>1, <2>2
<1> QED
  BY <1>1, <1>2

\* Every step keeps the inductive invariant.
LEMMA NextIInv == IInv /\ [Next]_vars => IInv'
<1> SUFFICES ASSUME IInv, [Next]_vars PROVE IInv'
  OBVIOUS
<1>1. CASE UNCHANGED vars
  BY <1>1 DEF vars, IInv, TypeOK, QueueInv, FrameInv, EndInv, PlaceholderInv, FreshInv,
              ShedIsHeard, InHand, Served
<1>2. CASE LoopStep
  BY <1>2, DropIInv, ForwardIInv, CacheIInv DEF LoopStep
<1>3. CASE SharerStep
  BY <1>3, DropIInv, ReceiveIInv, AskingIInv DEF SharerStep
<1>4. CASE CoolDown \/ Report \/ \E k \in Clients : Deattach(k)
  BY <1>4, AskingIInv
<1>5. ASSUME NEW v \in Viewers, ViewerStep(v)
      PROVE  IInv'
  <2>1. CASE AttachScreen(v) \/ AttachStep(v)
    BY <2>1, AttachIInv
  <2>2. CASE Write(v) \/ Close(v)
    BY <2>2, WriterIInv
  <2>3. CASE ViewerAsks(v)
    BY <2>3, AskingIInv
  <2> QED
    BY <1>5, <2>1, <2>2, <2>3 DEF ViewerStep
<1> QED
  BY <1>1, <1>2, <1>3, <1>4, <1>5 DEF Next

-----------------------------------------------------------------------------
(* The theorems.                                                           *)

\* Whatever the tasks of a share do, its queues stay chains of frames that can
\* be written one after the other, and end where the next delta begins.
THEOREM Chains == Spec => []IInv
  BY InitIInv, NextIInv, PTL DEF Spec

\* ViewerQueue::push_video keeps every queue within VIEWER_VIDEO_BOUND, and
\* every variable in its type.
THEOREM TypeCorrect == Spec => []TypeOK
<1>1. IInv => TypeOK
  BY DEF IInv
<1> QED
  BY <1>1, Chains, PTL

\* A keyframe request for a viewer that was shed is not lost, whatever the
\* cooldown of request_keyframe and the resets of feedback do.
THEOREM RequestKept == Spec => []ShedIsHeard
<1>1. IInv => ShedIsHeard
  BY DEF IInv
<1> QED
  BY <1>1, Chains, PTL

\* A viewer's writer never writes a delta of the share whose reference it did
\* not write just before.
THEOREM ReferenceKept == Spec => ReferenceHeld
<1> DEFINE Held == \A v \in Viewers : shown'[v] \notin {shown[v], None} =>
                      \/ Decodable(shown[v], shown'[v])
                      \/ shown[v] # None /\ shown[v].src = "placeholder"
<1>1. ASSUME IInv, [Next]_vars
      PROVE  [Held]_vars
  <2>1. CASE \E v \in Viewers : Write(v)
    <3>1. PICK v \in Viewers : Write(v)
      BY <2>1
    <3>2. shown'[v] = Head(queue[v]) /\ \A w \in Viewers \ {v} : shown'[w] = shown[w]
      BY <1>1, <3>1 DEF Write, IInv, TypeOK
    <3>3. Links(shown[v], shown'[v]) /\ shown'[v] \in Frame
      BY <1>1, <3>1, <3>2, WriteChain
    <3>4. shown[v] \in Frame \cup {None}
      BY <1>1 DEF IInv, TypeOK
    <3> QED
      BY <3>2, <3>3, <3>4 DEF Links, Decodable, Frame
  <2>2. CASE \A v \in Viewers : shown'[v] \in {shown[v], None}
    BY <2>2
  <2>3. CASE UNCHANGED shown
    BY <2>3
  <2>4. CASE Adopt \/ Retire \/ EndShare
    BY <2>2, <2>4 DEF Adopt, Retire, EndShare, Drop
  <2>5. CASE UNCHANGED vars
    BY <2>5
  <2> QED
    BY <1>1, <2>1, <2>3, <2>4, <2>5
       DEF Next, LoopStep, SharerStep, ViewerStep, AttachStep, Forward, Cache, CoolDown, Report,
           Receive, ReceiveMuted, SkipMuted, ReceiveAudio, ToggleMute, AttachScreen, BuildViewer,
           OpenOnKeyframe, AskForKeyframe, LeavePending, Deattach, Close, ViewerAsks, viewVars
<1> QED
  BY <1>1, Chains, PTL DEF Spec, ReferenceHeld

=============================================================================
