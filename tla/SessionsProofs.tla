--------------------------- MODULE SessionsProofs ---------------------------
(***************************************************************************)
(* Proofs about Sessions for every set of sockets and users, every         *)
(* assignment of roles and addresses and every keepalive period, and about *)
(* Admission for every finite set of sockets and every limit.              *)
(*                                                                         *)
(* TornDownOnce and AbortIsLast are not inductive: that one actor owns a   *)
(* teardown follows from the entry being taken out of the map when the     *)
(* teardown begins, and that an abort is last from what each step of the   *)
(* teardown has already done.  TeardownInv says both.  The same invariant  *)
(* makes every step a step of SessionLife, or none: a client is dropped or *)
(* leaves once, and is said to have left once.                             *)
(*                                                                         *)
(* SlotsAreCounted needs that a task whose header is awaited holds a slot  *)
(* (HeaderIsHeld), WithinLimits that one reservation is open at a time     *)
(* (LoopInv): the loop tests the total before it counts it.                *)
(***************************************************************************)
EXTENDS Sessions, Admission, FiniteSetTheorems, TLAPS

\* An address whose task has not started is in nobody's hands.
ClosedInv ==
    \A c \in Conns : task[c] = "closed" =>
        /\ entry[c] = None
        /\ c \notin sessions
        /\ c \notin aborted
        /\ leaves[c] = 0
        /\ \A x \in Actors : tear[x] # None => tear[x].target # c

\* An entry in the map has not been torn down in any part.
EntryInv ==
    \A c \in Conns : entry[c] # None =>
        /\ leaves[c] = 0
        /\ c \notin aborted
        /\ c \in sessions <=> entry[c].id # None
        /\ \A x \in Actors : tear[x] # None => tear[x].target # c

\* What a teardown has done so far, and that its target is out of the map.
TeardownInv ==
    \A x \in Actors : tear[x] # None =>
        /\ tear[x].target \notin aborted
        /\ tear[x].target \in sessions <=> tear[x].id # None
        /\ tear[x].step # "abort" => leaves[tear[x].target] = 0
        /\ tear[x].step = "abort" /\ tear[x].id # None => leaves[tear[x].target] = 1
        /\ tear[x].step \in {"detach", "files", "leave"} => tear[x].id # None

\* A task about to be authenticated, or past that, has picked its id.
PickedInv ==
    \A c \in Conns :
        task[c] \in {"auth", "files", "greet", "live", "voice", "unvoice", "moderating"}
            => sid[c] # None

OwnershipInv ==
    /\ ClosedInv
    /\ EntryInv
    /\ TeardownInv
    /\ TornDownOnce
    /\ AbortIsLast

IInv == TypeOK /\ PickedInv /\ OwnershipInv

-----------------------------------------------------------------------------
(* Type correctness, one step per group of actions.                        *)

\* The initial states are well typed, and no one has been picked.
LEMMA InitType == Init => TypeOK /\ PickedInv
  BY EveryAssumption DEF Init, TypeOK, PickedInv, Phases, AwaitPhases, BusyPhases

\* Every step of a login keeps the types.
LEMMA LoginType ==
    ASSUME TypeOK, PickedInv, NEW c \in Conns, TaskStep(c) \/ ClientStep(c)
    PROVE  TypeOK' /\ PickedInv'
<1> USE DEF TypeOK, PickedInv, Phases, AwaitPhases, BusyPhases, Entry, Ids, Actors, Goto,
            Resumes, Receives, Alter, Connected, Authenticated, tearVars,
            sideVars, wdVars, loginVars
<1>1. CASE Open(c)
  BY <1>1 DEF Open
<1>2. CASE KeyExchange(c)
  <2>1. entry' \in [Conns -> Entry \cup {None}]
    <3>1. CASE entry[c] = None
      BY <1>2, <3>1 DEF KeyExchange
    <3>2. CASE entry[c] # None
      <4>1. [entry[c] EXCEPT !.user = None] \in Entry
        BY <3>2
      <4> QED
        BY <1>2, <3>2, <4>1 DEF KeyExchange
    <3> QED BY <3>1, <3>2
  <2>2. task' \in [Conns -> Phases] /\ PickedInv'
    BY <1>2 DEF KeyExchange
  <2> QED
    BY <1>2, <2>1, <2>2 DEF KeyExchange
<1>3. ASSUME NEW u \in Users, CheckName(c, u)
      PROVE  TypeOK' /\ PickedInv'
  BY <1>3 DEF CheckName
<1>4. CASE StoreName(c)
  BY <1>4 DEF StoreName
<1>5. CASE PasswordAccepted(c)
  BY <1>5 DEF PasswordAccepted
<1>6. CASE PickId(c)
  BY <1>6, ConnsAssumption, NoneAssumption, FS_CardinalityType DEF PickId
<1>7. CASE Authenticate(c)
  BY <1>7 DEF Authenticate
<1>8. CASE GiveFiles(c)
  BY <1>8 DEF GiveFiles
<1>9. CASE Greet(c)
  BY <1>9 DEF Greet
<1>10. CASE Panic(c)
  BY <1>10 DEF Panic
<1>11. CASE BadMac(c)
  BY <1>11 DEF BadMac
<1>12. CASE EchoKeepAlive(c)
  BY <1>12 DEF EchoKeepAlive
<1>13. CASE VoiceRequest(c)
  BY <1>13 DEF VoiceRequest
<1>14. CASE ToggleVoice(c) \/ LeaveVoice(c)
  BY <1>14 DEF ToggleVoice, LeaveVoice
<1>15. CASE Close(c)
  BY <1>15 DEF Close, Assign
<1>16. ASSUME NEW d \in Conns, ServerKick(c, d) \/ ServerBan(c, d)
       PROVE  TypeOK' /\ PickedInv'
  <2>1. Assign(c, {d}, TRUE)
    BY <1>16 DEF ServerKick, ServerBan
  <2>2. /\ Goto(c, "moderating")
        /\ task[c] = "live"
        /\ UNCHANGED <<entry, uname, sid, sessions, sideVars, wdVars>>
    BY <1>16 DEF ServerKick, ServerBan
  <2> QED
    BY <2>1, <2>2 DEF Assign
<1>17. ASSUME NEW d \in Conns, ServerBanIp(c, d)
       PROVE  TypeOK' /\ PickedInv'
  BY <1>17 DEF ServerBanIp, Assign
<1>18. CASE Return(c)
  BY <1>18 DEF Return
<1>19. CASE Cancel(c)
  BY <1>19 DEF Cancel
<1> QED
  BY <1>1, <1>2, <1>3, <1>4, <1>5, <1>6, <1>7, <1>8, <1>9, <1>10, <1>11, <1>12,
     <1>13, <1>14, <1>15, <1>16, <1>17, <1>18, <1>19 DEF TaskStep, ClientStep

\* Every step of a removal keeps the types.
LEMMA RemoveType ==
    ASSUME TypeOK, PickedInv, NEW x \in Actors, RemoveStep(x)
    PROVE  TypeOK' /\ PickedInv'
<1> USE DEF TypeOK, PickedInv, Entry, Teardown, Tearing, Advance, tearVars, sideVars,
            wdVars, loginVars
<1>1. ASSUME NEW d \in Conns, BeginRemove(x, d)
      PROVE  TypeOK' /\ PickedInv'
  BY <1>1 DEF BeginRemove
<1>2. CASE Farewell(x)
  BY <1>2 DEF Farewell
<1>3. CASE Detach(x)
  BY <1>3 DEF Detach
<1>4. CASE DropFiles(x)
  <2>1. files' \in [Users -> Conns \cup {None}]
    BY <1>4 DEF DropFiles
  <2>2. tear' \in [Actors -> Teardown \cup {None}]
    BY <1>4 DEF DropFiles
  <2> QED
    BY <1>4, <2>1, <2>2 DEF DropFiles
<1>5. CASE SayLeave(x)
  BY <1>5 DEF SayLeave
<1>6. CASE AbortTask(x)
  BY <1>6 DEF AbortTask
<1> QED
  BY <1>1, <1>2, <1>3, <1>4, <1>5, <1>6 DEF RemoveStep

\* Every step of the watchdog keeps the types.
LEMMA WatchdogType ==
    ASSUME TypeOK, PickedInv, WatchdogStep
    PROVE  TypeOK' /\ PickedInv'
<1> USE DEF TypeOK, PickedInv, Entry, Actors, Connected, Authenticated, Alter, tearVars,
            sideVars, wdVars, loginVars
<1>1. CASE DisconnectInactive
  BY <1>1 DEF DisconnectInactive, Assign
<1>2. CASE EndRound
  BY <1>2, EveryAssumption DEF EndRound
<1>3. ASSUME NEW c \in Conns, Probe(c)
      PROVE  TypeOK' /\ PickedInv'
  BY <1>3 DEF Probe
<1>4. CASE Reap
  BY <1>4 DEF Reap, Assign
<1>5. CASE EndReap
  BY <1>5 DEF EndReap
<1> QED
  BY <1>1, <1>2, <1>3, <1>4, <1>5 DEF WatchdogStep

\* Every step keeps the types.
LEMMA NextType == TypeOK /\ PickedInv /\ [Next]_vars => TypeOK' /\ PickedInv'
<1> SUFFICES ASSUME TypeOK, PickedInv, [Next]_vars
             PROVE  TypeOK' /\ PickedInv'
  OBVIOUS
<1>1. CASE UNCHANGED vars
  BY <1>1 DEF vars, TypeOK, PickedInv
<1>2. CASE Next
  BY <1>2, LoginType, RemoveType, WatchdogType DEF Next
<1> QED
  BY <1>1, <1>2

\* The state the server keeps for its connections stays of its type.
THEOREM TypeCorrect == Spec => []TypeOK
  BY InitType, NextType, PTL DEF Spec

-----------------------------------------------------------------------------
(* One owner per teardown, and the abort last.                             *)

\* Nothing is being torn down in the initial states.
LEMMA InitOwnership == Init => OwnershipInv
  BY DEF Init, OwnershipInv, ClosedInv, EntryInv, TeardownInv, TornDownOnce, AbortIsLast

\* A step that only moves tasks that have started, and alters entries without
\* promoting them, disturbs nothing.
LEMMA QuietStep ==
    ASSUME IInv, TypeOK',
           \A c \in Conns : task'[c] = "closed" <=> task[c] = "closed",
           \A c \in Conns : entry'[c] # None => entry[c] # None /\ entry'[c].id = entry[c].id,
           \A c \in Conns : task[c] = "closed" => entry'[c] = entry[c],
           UNCHANGED <<tear, aborted, leaves, sessions>>
    PROVE  OwnershipInv'
<1> USE DEF IInv, OwnershipInv
<1>1. ClosedInv'
  BY DEF ClosedInv
<1>2. EntryInv'
  BY DEF EntryInv
<1>3. TeardownInv'
  BY DEF TeardownInv
<1>4. TornDownOnce' /\ AbortIsLast'
  BY DEF TornDownOnce, AbortIsLast
<1> QED
  BY <1>1, <1>2, <1>3, <1>4

\* A step of a login or of the packet loop tears nothing down.
LEMMA TaskOwnership ==
    ASSUME IInv, TypeOK', NEW c \in Conns, TaskStep(c) \/ ClientStep(c)
    PROVE  OwnershipInv'
<1> USE DEF Phases, AwaitPhases, BusyPhases, Goto, Resumes, Receives, tearVars,
            sideVars, wdVars, loginVars
<1>1. CASE Open(c)
  BY <1>1 DEF Open, IInv, TypeOK, OwnershipInv, ClosedInv, EntryInv, TeardownInv,
              TornDownOnce, AbortIsLast
<1>2. CASE Authenticate(c)
  <2>1. sid[c] # None /\ task[c] # "closed"
    BY <1>2 DEF Authenticate, IInv, PickedInv
  <2>2. CASE entry[c] = None
    BY <1>2, <2>2, QuietStep DEF Authenticate, Alter, IInv, TypeOK
  <2>3. CASE entry[c] # None
    BY <1>2, <2>1, <2>3 DEF Authenticate, Alter, IInv, TypeOK, OwnershipInv, ClosedInv,
       EntryInv, TeardownInv, TornDownOnce, AbortIsLast
  <2> QED
    BY <2>2, <2>3
<1>3. CASE Cancel(c)
  <2>1. task[c] # "closed"
    BY <1>3 DEF Cancel, IInv, OwnershipInv, ClosedInv
  <2> QED
    BY <1>3, <2>1 DEF Cancel, IInv, TypeOK, OwnershipInv, ClosedInv, EntryInv, TeardownInv,
       TornDownOnce, AbortIsLast, Actors
<1>4. CASE KeyExchange(c) \/ StoreName(c) \/ EchoKeepAlive(c)
  BY <1>4, QuietStep DEF KeyExchange, StoreName, EchoKeepAlive, Alter, IInv, TypeOK, Entry
<1>5. CASE PasswordAccepted(c) \/ PickId(c) \/ GiveFiles(c) \/ Greet(c) \/ Return(c)
  BY <1>5, QuietStep DEF PasswordAccepted, PickId, GiveFiles, Greet, Return, IInv, TypeOK
<1>6. CASE Panic(c) \/ BadMac(c) \/ VoiceRequest(c) \/ ToggleVoice(c) \/ LeaveVoice(c) \/ Close(c)
  BY <1>6, QuietStep DEF Panic, BadMac, VoiceRequest, ToggleVoice, LeaveVoice, Close, Assign, IInv, TypeOK
<1>7. ASSUME NEW u \in Users, CheckName(c, u)
      PROVE  OwnershipInv'
  BY <1>7, QuietStep DEF CheckName, IInv, TypeOK
<1>8. ASSUME NEW d \in Conns, ServerKick(c, d) \/ ServerBan(c, d) \/ ServerBanIp(c, d)
      PROVE  OwnershipInv'
  <2>1. /\ task[c] = "live" /\ Goto(c, "moderating")
        /\ UNCHANGED <<entry, tear, aborted, leaves, sessions>>
    BY <1>8 DEF ServerKick, ServerBan, ServerBanIp, Assign
  <2> QED
    BY <2>1, QuietStep DEF IInv, TypeOK
<1> QED
  BY <1>1, <1>2, <1>3, <1>4, <1>5, <1>6, <1>7, <1>8 DEF TaskStep, ClientStep

\* A step of remove_connection keeps a teardown with its one owner.
LEMMA RemoveOwnership ==
    ASSUME IInv, TypeOK', NEW x \in Actors, RemoveStep(x)
    PROVE  OwnershipInv'
<1> USE DEF Tearing, Advance, sideVars, wdVars, loginVars
<1>1. ASSUME NEW d \in Conns, BeginRemove(x, d)
      PROVE  OwnershipInv'
  <2>1. CASE entry[d] = None
    BY <1>1, <2>1, QuietStep DEF BeginRemove, IInv, TypeOK
  <2>2. CASE entry[d] # None
    <3>1. task[d] # "closed"
      BY <2>2 DEF IInv, OwnershipInv, ClosedInv
    <3>2. ClosedInv' /\ EntryInv'
      BY <1>1, <2>2, <3>1 DEF BeginRemove, IInv, TypeOK, OwnershipInv, ClosedInv, EntryInv
    <3>3. TeardownInv'
      BY <1>1, <2>2 DEF BeginRemove, IInv, TypeOK, OwnershipInv, EntryInv, TeardownInv
    <3>4. TornDownOnce' /\ AbortIsLast'
      BY <1>1, <2>2 DEF BeginRemove, IInv, TypeOK, OwnershipInv, EntryInv, TornDownOnce, AbortIsLast
    <3> QED
      BY <3>2, <3>3, <3>4 DEF OwnershipInv
  <2> QED
    BY <2>1, <2>2
<1>2. CASE Farewell(x) \/ Detach(x) \/ DropFiles(x)
  <2>1. /\ tear[x] # None /\ tear[x] \in Teardown
        /\ tear[x].step # "abort"
        /\ \E s \in {"detach", "files", "leave", "abort"} :
              /\ s # "abort" => tear[x].id # None
              /\ s = "abort" => tear[x].id = None
              /\ tear' = [tear EXCEPT ![x].step = s]
        /\ UNCHANGED <<entry, task, sessions, aborted, leaves>>
    BY <1>2 DEF Farewell, Detach, DropFiles, IInv, TypeOK, OwnershipInv, TeardownInv
  <2>2. ClosedInv' /\ EntryInv'
    BY <2>1 DEF IInv, TypeOK, Teardown, OwnershipInv, ClosedInv, EntryInv
  <2>3. TeardownInv'
    BY <2>1 DEF IInv, TypeOK, Teardown, OwnershipInv, TeardownInv
  <2>4. TornDownOnce' /\ AbortIsLast'
    BY <2>1 DEF IInv, TypeOK, Teardown, OwnershipInv, TornDownOnce, AbortIsLast
  <2> QED
    BY <2>2, <2>3, <2>4 DEF OwnershipInv
<1>3. CASE SayLeave(x)
  <2>1. /\ tear[x] # None /\ tear[x] \in Teardown
        /\ tear[x].step = "leave"
        /\ tear' = [tear EXCEPT ![x].step = "abort"]
        /\ leaves' = [leaves EXCEPT ![tear[x].target] = @ + 1]
        /\ UNCHANGED <<entry, task, sessions, aborted>>
    BY <1>3 DEF SayLeave, IInv, TypeOK
  <2>2. leaves[tear[x].target] = 0 /\ tear[x].target \notin aborted /\ tear[x].id # None
    BY <2>1 DEF IInv, OwnershipInv, TeardownInv
  <2>3. ClosedInv' /\ EntryInv'
    BY <2>1, <2>2 DEF IInv, TypeOK, Teardown, OwnershipInv, ClosedInv, EntryInv
  <2>4. TornDownOnce' /\ AbortIsLast'
    BY <2>1, <2>2 DEF IInv, TypeOK, Teardown, OwnershipInv, TornDownOnce, AbortIsLast
  <2>5. TeardownInv'
    BY <2>1, <2>2 DEF IInv, TypeOK, Teardown, OwnershipInv, TornDownOnce, TeardownInv
  <2> QED
    BY <2>3, <2>4, <2>5 DEF OwnershipInv
<1>4. CASE AbortTask(x)
  <2>1. /\ tear[x] # None /\ tear[x] \in Teardown
        /\ tear[x].step = "abort"
        /\ tear' = [tear EXCEPT ![x] = None]
        /\ aborted' = aborted \cup {tear[x].target}
        /\ UNCHANGED <<entry, task, sessions, leaves>>
    BY <1>4 DEF AbortTask, IInv, TypeOK
  <2>2. ClosedInv' /\ EntryInv'
    BY <2>1 DEF IInv, TypeOK, Teardown, OwnershipInv, ClosedInv, EntryInv
  <2>3. TeardownInv'
    BY <2>1 DEF IInv, TypeOK, Teardown, OwnershipInv, TornDownOnce, TeardownInv
  <2>4. TornDownOnce' /\ AbortIsLast'
    BY <2>1 DEF IInv, TypeOK, Teardown, OwnershipInv, TeardownInv, TornDownOnce, AbortIsLast
  <2> QED
    BY <2>2, <2>3, <2>4 DEF OwnershipInv
<1> QED
  BY <1>1, <1>2, <1>3, <1>4 DEF RemoveStep

\* A step of the watchdog leaves the teardowns to their owners.
LEMMA WatchdogOwnership ==
    ASSUME IInv, TypeOK', WatchdogStep
    PROVE  OwnershipInv'
<1> USE DEF tearVars, sideVars, wdVars, loginVars
<1>1. CASE DisconnectInactive \/ EndRound \/ Reap \/ EndReap
  BY <1>1, QuietStep DEF DisconnectInactive, EndRound, Reap, EndReap, Assign
<1>2. ASSUME NEW c \in Conns, Probe(c)
      PROVE  OwnershipInv'
  BY <1>2, QuietStep DEF Probe, Alter, IInv, TypeOK, Entry, OwnershipInv, ClosedInv
<1> QED
  BY <1>1, <1>2 DEF WatchdogStep

\* Every step keeps the inductive invariant.
LEMMA NextIInv == IInv /\ [Next]_vars => IInv'
<1> SUFFICES ASSUME IInv, [Next]_vars
             PROVE  IInv'
  OBVIOUS
<1>1. TypeOK' /\ PickedInv'
  BY NextType DEF IInv
<1>2. CASE UNCHANGED vars
  BY <1>1, <1>2, QuietStep DEF vars, IInv
<1>3. CASE Next
  BY <1>1, <1>3, TaskOwnership, RemoveOwnership, WatchdogOwnership DEF Next, IInv
<1> QED
  BY <1>2, <1>3

\* The inductive invariant holds of every behaviour of the specification.
THEOREM Ownership == Spec => []IInv
  BY InitType, InitOwnership, NextIInv, PTL DEF Spec, IInv

\* However many actors remove the same connection, one tears it down, and its
\* Leave is broadcast at most once (remove_connection's CONNECTIONS.remove).
THEOREM OneTeardown == Spec => []TornDownOnce
<1>1. IInv => TornDownOnce
  BY DEF IInv, OwnershipInv
<1> QED
  BY <1>1, Ownership, PTL

\* A session's task is aborted only after its Leave was broadcast.
THEOREM AbortLast == Spec => []AbortIsLast
<1>1. IInv => AbortIsLast
  BY DEF IInv, OwnershipInv
<1> QED
  BY <1>1, Ownership, PTL

\* A removed connection never returns to the map.
THEOREM Removed == Spec => NoResurrection
<1>1. IInv /\ [Next]_vars =>
        [\A c \in Conns : task[c] # "closed" /\ entry[c] = None => entry'[c] = None]_vars
  <2> SUFFICES ASSUME IInv, Next, NEW c \in Conns, task[c] # "closed", entry[c] = None
               PROVE  entry'[c] = None
    BY DEF vars
  <2> USE DEF IInv, TypeOK, Alter, loginVars, Goto
  <2>1. ASSUME NEW d \in Conns, TaskStep(d) \/ ClientStep(d)
        PROVE  entry'[c] = None
    BY <2>1 DEF TaskStep, ClientStep, StoreName, PickId, Authenticate, GiveFiles, Greet,
       ToggleVoice, LeaveVoice, Return, Cancel, Open, KeyExchange, PasswordAccepted, Close, Panic, BadMac,
       EchoKeepAlive, Receives, VoiceRequest, CheckName, ServerKick, ServerBan, ServerBanIp
  <2>2. ASSUME NEW x \in Actors, RemoveStep(x)
        PROVE  entry'[c] = None
    BY <2>2 DEF RemoveStep, BeginRemove, Farewell, Detach, DropFiles, SayLeave, AbortTask
  <2>3. CASE WatchdogStep
    BY <2>3 DEF WatchdogStep, DisconnectInactive, EndRound, Reap, EndReap, Probe
  <2> QED
    BY <2>1, <2>2, <2>3 DEF Next
<1> QED
  BY <1>1, Ownership, PTL DEF Spec, NoResurrection

-----------------------------------------------------------------------------
(* Sessions implements SessionLife.                                        *)

lives == [c \in Conns |-> Life(c)]

\* A step that takes no entry in or out, promotes none and ends no task is no step of
\* any life.
LEMMA QuietLives ==
    ASSUME \A c \in Conns : task'[c] = "closed" <=> task[c] = "closed",
           \A c \in Conns : entry'[c] = None <=> entry[c] = None,
           \A c \in Conns : entry[c] # None => entry'[c].id = entry[c].id,
           UNCHANGED <<aborted, leaves, sessions>>
    PROVE  UNCHANGED <<lives, leaves>>
<1>1. ASSUME NEW c \in Conns
      PROVE  Life(c)' = Life(c)
  BY DEF Life
<1> QED
  BY <1>1 DEF lives

\* A step of one life is a step of that connection.
LEMMA OneLife ==
    ASSUME NEW c \in Conns, \A d \in Conns : d # c => Life(d)' = Life(d)
    PROVE  lives' = [lives EXCEPT ![c] = Life(c)'] /\ lives[c] = Life(c)
  BY DEF lives

\* The steps of SessionLife, of the lives read off the state.
LEMMA LifeSteps ==
    ASSUME NEW c \in Conns, NEW from, NEW to, Life(c) = from, Life(c)' = to,
           \A d \in Conns : d # c => Life(d)' = Life(d),
           \/ /\ <<from, to>> \in {<<"new", "guest">>, <<"guest", "member">>, <<"guest", "dropped">>,
                                   <<"member", "leaving">>, <<"left", "over">>, <<"dropped", "over">>}
              /\ leaves' = leaves
           \/ /\ from = "leaving" /\ to = "left"
              /\ leaves' = [leaves EXCEPT ![c] = @ + 1]
    PROVE  Lives!LifeNext
<1>1. lives' = [lives EXCEPT ![c] = to] /\ lives[c] = from
  BY OneLife
<1>2. Lives!Passes(c, from, to)
  BY <1>1 DEF Lives!Passes, lives
<1>3. Lives!Arrive(c) \/ Lives!LogIn(c) \/ Lives!Drop(c) \/ Lives!Leave(c) \/ Lives!SayLeft(c)
      \/ Lives!End(c)
  BY <1>2 DEF Lives!Arrive, Lives!LogIn, Lives!Drop, Lives!Leave, Lives!SayLeft, Lives!End
<1> QED
  BY <1>3 DEF Lives!LifeNext

\* A step of a login or of the packet loop: a guest arrives, or becomes a member.
LEMMA TaskLives ==
    ASSUME IInv, NEW c \in Conns, TaskStep(c) \/ ClientStep(c)
    PROVE  Lives!LifeNext \/ UNCHANGED <<lives, leaves>>
<1> USE DEF Phases, AwaitPhases, BusyPhases, Goto, Resumes, Receives, tearVars,
            sideVars, wdVars, loginVars
<1>1. CASE Open(c)
  <2>1. Life(c) = "new" /\ Life(c)' = "guest"
    <3>1. /\ task'[c] = "kex" /\ task[c] = "closed"
          /\ entry'[c] = [user |-> None, id |-> None, alive |-> TRUE]
      BY <1>1 DEF Open, IInv, TypeOK
    <3>2. entry'[c] \in Entry /\ entry'[c].id = None
      BY <3>1 DEF Entry
    <3>3. entry'[c] # None
      BY ONLY <3>2, EntryAssumption
    <3> QED
      BY <3>1, <3>2, <3>3 DEF Life
  <2>2. \A d \in Conns : d # c => Life(d)' = Life(d)
    BY <1>1 DEF Open, IInv, TypeOK, Life
  <2>3. leaves' = leaves
    BY <1>1 DEF Open
  <2> QED
    BY <2>1, <2>2, <2>3, LifeSteps
<1>2. CASE Authenticate(c)
  <2>1. sid[c] # None /\ task[c] # "closed"
    BY <1>2 DEF Authenticate, IInv, PickedInv
  <2>2. CASE entry[c] = None \/ entry[c].id # None
    <3>1. CASE entry[c] = None
      BY <1>2, <2>1, <3>1, QuietLives DEF Authenticate, Alter, IInv, TypeOK
    <3>2. CASE entry[c] # None /\ entry[c].id # None
      <4>1. c \in sessions
        BY <3>2 DEF IInv, OwnershipInv, EntryInv
      <4>2. /\ entry'[c] = [user |-> uname[c], id |-> sid[c], alive |-> TRUE] /\ task'[c] = "files"
            /\ \A d \in Conns : d # c => entry'[d] = entry[d] /\ task'[d] = task[d]
            /\ sessions' = sessions /\ leaves' = leaves /\ aborted' = aborted
        BY <1>2, <3>2, <4>1 DEF Authenticate, Alter, IInv, TypeOK
      <4>3. entry'[c] \in Entry
        BY <4>2 DEF IInv, TypeOK, Entry
      <4>6. entry'[c] # None
        BY ONLY <4>3, EntryAssumption
      <4>7. entry'[c].id # None /\ task'[c] # "closed"
        BY <2>1, <4>2
      <4>4. Life(c)' = "member" /\ Life(c) = "member"
        BY <2>1, <3>2, <4>6, <4>7 DEF Life
      <4>5. \A d \in Conns : Life(d)' = Life(d)
        BY <4>2, <4>4 DEF Life
      <4> QED
        BY <4>2, <4>5 DEF lives
    <3> QED
      BY <2>2, <3>1, <3>2
  <2>3. CASE entry[c] # None /\ entry[c].id = None
    <3>1. Life(c) = "guest"
      BY <2>1, <2>3 DEF Life
    <3>2. entry'[c] = [user |-> uname[c], id |-> sid[c], alive |-> TRUE] /\ task'[c] = "files"
      BY <1>2, <2>3 DEF Authenticate, Alter, IInv, TypeOK
    <3>3. entry'[c] \in Entry
      BY <3>2 DEF IInv, TypeOK, Entry
    <3>7. entry'[c] # None
      BY ONLY <3>3, EntryAssumption
    <3>8. entry'[c].id # None /\ task'[c] # "closed"
      BY <2>1, <3>2
    <3>4. Life(c)' = "member"
      BY <3>7, <3>8 DEF Life
    <3>5. \A d \in Conns : d # c => Life(d)' = Life(d)
      BY <1>2, <2>3 DEF Authenticate, Alter, IInv, TypeOK, Life
    <3>6. leaves' = leaves
      BY <1>2 DEF Authenticate
    <3> QED
      BY <3>1, <3>4, <3>5, <3>6, LifeSteps
  <2> QED
    BY <2>2, <2>3
<1>3. CASE Cancel(c)
  <2>1. task[c] # "closed"
    BY <1>3 DEF Cancel, IInv, OwnershipInv, ClosedInv
  <2> QED
    BY <1>3, <2>1, QuietLives DEF Cancel, IInv, TypeOK
<1>4. CASE KeyExchange(c) \/ StoreName(c) \/ EchoKeepAlive(c)
  <2>1. CASE entry[c] = None
    BY <1>4, <2>1, QuietLives DEF KeyExchange, StoreName, EchoKeepAlive, Alter, IInv, TypeOK
  <2>2. CASE entry[c] # None
    <3>1. entry[c] \in Entry /\ uname[c] \in Users \cup {None}
      BY <2>2 DEF IInv, TypeOK
    <3>2. PICK e \in Entry : entry' = [entry EXCEPT ![c] = e] /\ e.id = entry[c].id
      <4>1. CASE KeyExchange(c)
        <5>1. entry' = [entry EXCEPT ![c] = [entry[c] EXCEPT !.user = None]]
          BY <2>2, <4>1 DEF KeyExchange, Alter
        <5>2. [entry[c] EXCEPT !.user = None] \in Entry /\ [entry[c] EXCEPT !.user = None].id = entry[c].id
          BY <3>1 DEF Entry
        <5> QED
          BY <5>1, <5>2
      <4>2. CASE StoreName(c)
        <5>1. entry' = [entry EXCEPT ![c] = [entry[c] EXCEPT !.user = uname[c]]]
          BY <2>2, <4>2 DEF StoreName, Alter
        <5>2. [entry[c] EXCEPT !.user = uname[c]] \in Entry
              /\ [entry[c] EXCEPT !.user = uname[c]].id = entry[c].id
          BY <3>1 DEF Entry
        <5> QED
          BY <5>1, <5>2
      <4>3. CASE EchoKeepAlive(c)
        <5>1. entry' = [entry EXCEPT ![c] = [entry[c] EXCEPT !.alive = TRUE]]
          BY <4>3 DEF EchoKeepAlive
        <5>2. [entry[c] EXCEPT !.alive = TRUE] \in Entry /\ [entry[c] EXCEPT !.alive = TRUE].id = entry[c].id
          BY <3>1 DEF Entry
        <5> QED
          BY <5>1, <5>2
      <4> QED
        BY <1>4, <4>1, <4>2, <4>3
    <3>3. /\ \A d \in Conns : task'[d] = "closed" <=> task[d] = "closed"
          /\ UNCHANGED <<aborted, leaves, sessions>>
      BY <1>4 DEF KeyExchange, StoreName, EchoKeepAlive, IInv, TypeOK
    <3>4. \A d \in Conns : (entry'[d] = None <=> entry[d] = None)
                           /\ (entry[d] # None => entry'[d].id = entry[d].id)
      <4>1. e # None
        BY EntryAssumption
      <4>2. entry'[c] = e /\ \A d \in Conns : d # c => entry'[d] = entry[d]
        BY <3>2 DEF IInv, TypeOK
      <4> QED
        BY <2>2, <3>2, <4>1, <4>2
    <3> QED
      BY <3>3, <3>4, QuietLives
  <2> QED
    BY <2>1, <2>2
<1>5. CASE PasswordAccepted(c) \/ PickId(c) \/ GiveFiles(c) \/ Greet(c) \/ Return(c)
  BY <1>5, QuietLives DEF PasswordAccepted, PickId, GiveFiles, Greet, Return, IInv, TypeOK
<1>6. CASE Panic(c) \/ BadMac(c) \/ VoiceRequest(c) \/ ToggleVoice(c) \/ LeaveVoice(c) \/ Close(c)
  BY <1>6, QuietLives DEF Panic, BadMac, VoiceRequest, ToggleVoice, LeaveVoice, Close, Assign, IInv, TypeOK
<1>7. ASSUME NEW u \in Users, CheckName(c, u)
      PROVE  UNCHANGED <<lives, leaves>>
  BY <1>7, QuietLives DEF CheckName, IInv, TypeOK
<1>8. ASSUME NEW d \in Conns, ServerKick(c, d) \/ ServerBan(c, d) \/ ServerBanIp(c, d)
      PROVE  UNCHANGED <<lives, leaves>>
  <2>1. /\ task[c] = "live" /\ Goto(c, "moderating")
        /\ UNCHANGED <<entry, tear, aborted, leaves, sessions>>
    BY <1>8 DEF ServerKick, ServerBan, ServerBanIp, Assign
  <2> QED
    BY <2>1, QuietLives DEF IInv, TypeOK
<1> QED
  BY <1>1, <1>2, <1>3, <1>4, <1>5, <1>6, <1>7, <1>8 DEF TaskStep, ClientStep

\* A step of remove_connection: its target is dropped or leaves, the Leave is said, its
\* task is ended.
LEMMA RemoveLives ==
    ASSUME IInv, NEW x \in Actors, RemoveStep(x)
    PROVE  Lives!LifeNext \/ UNCHANGED <<lives, leaves>>
<1> USE DEF Tearing, Advance, sideVars, wdVars, loginVars
<1>1. ASSUME NEW d \in Conns, BeginRemove(x, d)
      PROVE  Lives!LifeNext \/ UNCHANGED <<lives, leaves>>
  <2>1. CASE entry[d] = None
    BY <1>1, <2>1, QuietLives DEF BeginRemove, IInv, TypeOK
  <2>2. CASE entry[d] # None
    <3>1. task[d] # "closed" /\ d \notin aborted /\ leaves[d] = 0
          /\ (d \in sessions <=> entry[d].id # None)
      BY <2>2 DEF IInv, OwnershipInv, ClosedInv, EntryInv
    <3>2. entry'[d] = None /\ UNCHANGED <<task, aborted, leaves, sessions>>
      BY <1>1 DEF BeginRemove, IInv, TypeOK
    <3>3. \A e \in Conns : e # d => Life(e)' = Life(e)
      BY <1>1 DEF BeginRemove, IInv, TypeOK, Life
    <3>4. CASE entry[d].id = None
      <4>1. Life(d) = "guest" /\ Life(d)' = "dropped"
        BY <2>2, <3>1, <3>2, <3>4 DEF Life
      <4> QED
        BY <3>2, <3>3, <4>1, LifeSteps
    <3>5. CASE entry[d].id # None
      <4>1. Life(d) = "member" /\ Life(d)' = "leaving"
        BY <2>2, <3>1, <3>2, <3>5 DEF Life
      <4> QED
        BY <3>2, <3>3, <4>1, LifeSteps
    <3> QED
      BY <3>4, <3>5
  <2> QED
    BY <2>1, <2>2
<1>2. CASE Farewell(x) \/ Detach(x) \/ DropFiles(x)
  BY <1>2, QuietLives DEF Farewell, Detach, DropFiles
<1>3. CASE SayLeave(x) \/ AbortTask(x)
  <2>1. PICK d \in Conns : d = tear[x].target
    BY <1>3 DEF SayLeave, AbortTask, IInv, TypeOK, Teardown
  <2>2. /\ tear[x] # None /\ d \notin aborted /\ (d \in sessions <=> tear[x].id # None)
        /\ tear[x].step # "abort" => leaves[d] = 0
        /\ tear[x].step = "abort" /\ tear[x].id # None => leaves[d] = 1
        /\ tear[x].step \in {"detach", "files", "leave"} => tear[x].id # None
    BY <1>3, <2>1 DEF SayLeave, AbortTask, IInv, OwnershipInv, TeardownInv
  <2>3. entry[d] = None /\ task[d] # "closed"
    BY <2>1, <2>2 DEF IInv, OwnershipInv, EntryInv, ClosedInv
  <2>4. CASE SayLeave(x)
    <3>1. /\ leaves' = [leaves EXCEPT ![d] = @ + 1] /\ leaves \in [Conns -> Nat]
          /\ UNCHANGED <<entry, task, sessions, aborted>> /\ tear[x].step = "leave"
      BY <2>1, <2>4 DEF SayLeave, IInv, TypeOK
    <3>2. leaves[d] = 0 /\ leaves'[d] = 1
      BY <2>2, <3>1
    <3>3. Life(d) = "leaving" /\ Life(d)' = "left"
      BY <2>2, <2>3, <3>1, <3>2 DEF Life
    <3>4. \A e \in Conns : e # d => Life(e)' = Life(e)
      BY <3>1 DEF Life
    <3> QED
      BY <3>1, <3>3, <3>4, LifeSteps
  <2>5. CASE AbortTask(x)
    <3>1. /\ aborted' = aborted \cup {d} /\ tear[x].step = "abort"
          /\ UNCHANGED <<entry, task, sessions, leaves>>
      BY <2>1, <2>5 DEF AbortTask
    <3>2. Life(d) \in {"left", "dropped"} /\ Life(d)' = "over"
      BY <2>2, <2>3, <3>1 DEF Life
    <3>3. \A e \in Conns : e # d => Life(e)' = Life(e)
      BY <3>1 DEF Life
    <3> QED
      BY <3>1, <3>2, <3>3, LifeSteps
  <2> QED
    BY <1>3, <2>4, <2>5
<1> QED
  BY <1>1, <1>2, <1>3 DEF RemoveStep

\* The watchdog ends no life by itself.
LEMMA WatchdogLives ==
    ASSUME IInv, WatchdogStep
    PROVE  UNCHANGED <<lives, leaves>>
<1> USE DEF tearVars, sideVars, wdVars, loginVars
<1>1. CASE DisconnectInactive \/ EndRound \/ Reap \/ EndReap
  BY <1>1, QuietLives DEF DisconnectInactive, EndRound, Reap, EndReap, Assign
<1>2. ASSUME NEW c \in Conns, Probe(c)
      PROVE  UNCHANGED <<lives, leaves>>
  <2>1. CASE entry[c] = None
    BY <1>2, <2>1, QuietLives DEF Probe, Alter, IInv, TypeOK
  <2>2. CASE entry[c] # None
    <3>1. entry[c] \in Entry
      BY <2>2 DEF IInv, TypeOK
    <3>2. PICK e \in Entry : entry' = [entry EXCEPT ![c] = e] /\ e.id = entry[c].id
      <4>1. entry' = [entry EXCEPT ![c] = [entry[c] EXCEPT !.alive = FALSE]]
        BY <1>2, <2>2 DEF Probe, Alter
      <4>2. [entry[c] EXCEPT !.alive = FALSE] \in Entry /\ [entry[c] EXCEPT !.alive = FALSE].id = entry[c].id
        BY <3>1 DEF Entry
      <4> QED
        BY <4>1, <4>2
    <3>3. \A d \in Conns : (entry'[d] = None <=> entry[d] = None)
                           /\ (entry[d] # None => entry'[d].id = entry[d].id)
      <4>1. e # None
        BY EntryAssumption
      <4>2. entry'[c] = e /\ \A d \in Conns : d # c => entry'[d] = entry[d]
        BY <3>2 DEF IInv, TypeOK
      <4> QED
        BY <2>2, <3>2, <4>1, <4>2
    <3> QED
      BY <1>2, <3>3, QuietLives DEF Probe
  <2> QED
    BY <2>1, <2>2
<1> QED
  BY <1>1, <1>2 DEF WatchdogStep

\* Every interleaving of logins, removals, aborts and keepalive rounds, by any number of
\* tasks, gives every connection one orderly life: Sessions implements SessionLife.
THEOREM LivesAreOrderly == Spec => OrderlyLives
<1>1. Init => Lives!LifeInit
  <2>1. ASSUME Init, NEW c \in Conns
        PROVE  Life(c) = "new"
    BY <2>1 DEF Init, Life
  <2> QED
    BY <2>1 DEF Init, Lives!LifeInit
<1>2. IInv /\ [Next]_vars => [Lives!LifeNext]_(Lives!lifeVars)
  <2> SUFFICES ASSUME IInv, [Next]_vars
               PROVE  Lives!LifeNext \/ UNCHANGED <<lives, leaves>>
    BY DEF Lives!lifeVars, lives
  <2>1. CASE UNCHANGED vars
    BY <2>1, QuietLives DEF vars
  <2>2. CASE Next
    BY <2>2, TaskLives, RemoveLives, WatchdogLives DEF Next
  <2> QED
    BY <2>1, <2>2
<1> QED
  BY <1>1, <1>2, Ownership, PTL DEF Spec, OrderlyLives, Lives!LifeSpec

-----------------------------------------------------------------------------
(* Admission.                                                              *)

SlotStates == {"none", "taken", "held", "sub", "dec", "remove", "free"}
Counts     == {"taken", "held", "sub", "dec"}
Totals     == {"held", "sub"}

\* The types of the counters and of the places of the sockets.
AdmitTypeOK ==
    /\ slot \in [Sockets -> SlotStates]
    /\ DOMAIN stage = Sockets
    /\ perIp \in [Ips -> Nat] /\ handshakes \in Nat

\* A socket whose header is awaited holds a slot that was counted: whatever its task
\* returns with, it gives back what the loop took.
HeaderIsHeld == \A s \in Sockets : stage[s] = "header" => slot[s] = "held"

AdmitInv == AdmitTypeOK /\ HeaderIsHeld /\ SlotsAreCounted

\* The sockets of a set T whose slot is in a set K of states; what one slot adds to it.
In(T, K)     == {s \in T : slot[s] \in K}
Weight(v, K) == IF v \in K THEN 1 ELSE 0

\* One slot changes: the count changes by what it adds now and did not before.
LEMMA OneSlot ==
    ASSUME NEW T \in SUBSET Sockets, NEW K, AdmitTypeOK,
           NEW s \in Sockets, NEW v, slot' = Set(slot, s, v)
    PROVE  /\ Cardinality(In(T, K)) \in Nat
           /\ Cardinality(In(T, K)') =
                IF s \in T THEN Cardinality(In(T, K)) + Weight(v, K) - Weight(slot[s], K)
                ELSE Cardinality(In(T, K))
  <1>1. IsFiniteSet(In(T, K)) /\ Cardinality(In(T, K)) \in Nat
    <2>1. In(T, K) \in SUBSET Sockets
      BY DEF In
    <2>. QED
      BY <2>1, AdmissionAssumption, FS_Subset, FS_CardinalityType
  <1>2. slot'[s] = v /\ \A t \in Sockets : t # s => slot'[t] = slot[t]
    BY DEF AdmitTypeOK, Set
  <1>3. CASE s \notin T \/ (v \in K <=> slot[s] \in K)
    <2>1. In(T, K)' = In(T, K)
      BY <1>2, <1>3 DEF In
    <2>. QED
      BY <1>1, <1>3, <2>1 DEF Weight
  <1>4. CASE s \in T /\ v \in K /\ slot[s] \notin K
    <2>1. In(T, K)' = In(T, K) \cup {s} /\ s \notin In(T, K)
      BY <1>2, <1>4 DEF In
    <2>2. Cardinality(In(T, K) \cup {s}) = Cardinality(In(T, K)) + 1
      BY <1>1, <2>1, FS_AddElement
    <2>. QED
      BY <1>1, <1>4, <2>1, <2>2 DEF Weight
  <1>5. CASE s \in T /\ v \notin K /\ slot[s] \in K
    <2>1. In(T, K)' = In(T, K) \ {s} /\ s \in In(T, K)
      BY <1>2, <1>5 DEF In
    <2>2. Cardinality(In(T, K) \ {s}) = Cardinality(In(T, K)) - 1
      BY <1>1, <2>1, FS_RemoveElement
    <2>. QED
      BY <1>1, <1>5, <2>1, <2>2 DEF Weight
  <1>. QED
    BY <1>3, <1>4, <1>5

\* The sockets of an address, and the counters as counts of them.
Of(i) == {s \in Sockets : Peer[s] = i}

\* The two counters, in terms of what the sockets hold.
LEMMA CountersAreCounts ==
    SlotsAreCounted <=> /\ \A i \in Ips : perIp[i] = Cardinality(In(Of(i), Counts))
                        /\ handshakes = Cardinality(In(Sockets, Totals))
  <1>1. \A i : In(Of(i), Counts) = {s \in Sockets : Peer[s] = i /\ Holds(s)}
    BY DEF In, Of, Counts, Holds
  <1>2. In(Sockets, Totals) = {s \in Sockets : slot[s] \in {"held", "sub"}}
    BY DEF In, Totals
  <1>. QED
    BY <1>1, <1>2 DEF SlotsAreCounted

\* The same for the next state.
LEMMA CountersAreCountsNext ==
    SlotsAreCounted' <=> /\ \A i \in Ips : perIp'[i] = Cardinality(In(Of(i), Counts)')
                         /\ handshakes' = Cardinality(In(Sockets, Totals)')
  <1>1. \A i : In(Of(i), Counts)' = {s \in Sockets : Peer[s] = i /\ slot'[s] \in Counts}
    BY DEF In, Of
  <1>2. \A i : {s \in Sockets : Peer[s] = i /\ Holds(s)}'
                 = {s \in Sockets : Peer[s] = i /\ slot'[s] \in Counts}
    BY DEF Counts, Holds
  <1>3. In(Sockets, Totals)' = {s \in Sockets : slot'[s] \in {"held", "sub"}}
    BY DEF In, Totals
  <1>. QED
    BY <1>1, <1>2, <1>3 DEF SlotsAreCounted

\* A slot goes from one state to another and the counters follow it.
LEMMA SlotMoves ==
    ASSUME AdmitInv, NEW s \in Sockets, NEW v \in SlotStates, slot' = Set(slot, s, v),
           perIp' = Set(perIp, Peer[s], perIp[Peer[s]] + Weight(v, Counts) - Weight(slot[s], Counts)),
           handshakes' = handshakes + Weight(v, Totals) - Weight(slot[s], Totals)
    PROVE  /\ slot' \in [Sockets -> SlotStates]
           /\ perIp' \in [Ips -> Nat] /\ handshakes' \in Nat
           /\ SlotsAreCounted'
  <1>1. Peer[s] \in Ips /\ s \in Of(Peer[s]) /\ \A i : s \in Of(i) <=> i = Peer[s]
    BY DEF Ips, Of
  <1>2. AdmitTypeOK /\ \A i \in Ips : Of(i) \in SUBSET Sockets
    BY DEF Of, AdmitInv
  <1>3. /\ \A i \in Ips : perIp[i] = Cardinality(In(Of(i), Counts))
        /\ handshakes = Cardinality(In(Sockets, Totals))
    BY CountersAreCounts DEF AdmitInv
  <1>4. \A i \in Ips :
          /\ Cardinality(In(Of(i), Counts)) \in Nat
          /\ Cardinality(In(Of(i), Counts)') =
               IF s \in Of(i)
               THEN Cardinality(In(Of(i), Counts)) + Weight(v, Counts) - Weight(slot[s], Counts)
               ELSE Cardinality(In(Of(i), Counts))
    BY <1>2, OneSlot
  <1>5. /\ Cardinality(In(Sockets, Totals)) \in Nat
        /\ Cardinality(In(Sockets, Totals)') =
             Cardinality(In(Sockets, Totals)) + Weight(v, Totals) - Weight(slot[s], Totals)
    BY <1>2, OneSlot
  <1>6. \A i \in Ips : perIp'[i] = Cardinality(In(Of(i), Counts)')
    BY <1>1, <1>2, <1>3, <1>4 DEF Set, AdmitTypeOK
  <1>7. handshakes' = Cardinality(In(Sockets, Totals)')
    BY <1>3, <1>5
  <1>8. SlotsAreCounted'
    BY <1>6, <1>7, CountersAreCountsNext
  <1>9. \A K : \A T \in SUBSET Sockets : Cardinality(In(T, K)') \in Nat
    <2>1. \A K : \A T \in SUBSET Sockets : In(T, K)' \in SUBSET Sockets
      BY DEF In
    <2>. QED
      BY <2>1, AdmissionAssumption, FS_Subset, FS_CardinalityType
  <1>10. handshakes' \in Nat /\ \A i \in Ips : perIp'[i] \in Nat
    BY <1>2, <1>6, <1>7, <1>9
  <1>11. DOMAIN perIp' = Ips /\ DOMAIN slot' = Sockets /\ slot' \in [Sockets -> SlotStates]
    BY <1>2 DEF AdmitTypeOK, Set
  <1>12. perIp' = [i \in Ips |-> perIp'[i]]
    BY <1>2 DEF AdmitTypeOK, Set
  <1>. QED
    BY <1>8, <1>10, <1>11, <1>12

\* The steps that leave every slot where it is.
LEMMA SlotsRest ==
    ASSUME AdmitInv, UNCHANGED <<slot, perIp, handshakes>>
    PROVE  SlotsAreCounted'
  <1>1. In(Sockets, Totals)' = In(Sockets, Totals)
        /\ \A i : In(Of(i), Counts)' = In(Of(i), Counts)
    BY DEF In, Of
  <1>. QED
    BY <1>1, CountersAreCounts, CountersAreCountsNext DEF AdmitInv

\* The invariant is kept by every step.
LEMMA AdmitStep == AdmitInv /\ [AdmitNext]_admitVars => AdmitInv'
  <1> SUFFICES ASSUME AdmitInv, [AdmitNext]_admitVars
               PROVE  AdmitInv'
    OBVIOUS
  <1> USE DEF SlotStates
  <1>0. /\ slot \in [Sockets -> SlotStates] /\ DOMAIN stage = Sockets
        /\ perIp \in [Ips -> Nat] /\ handshakes \in Nat /\ HeaderIsHeld
        /\ \A s \in Sockets : Peer[s] \in Ips
    BY DEF AdmitInv, AdmitTypeOK, Ips
  \* A socket that holds a slot is counted for its address.
  <1>1. \A s \in Sockets : slot[s] \in Counts => perIp[Peer[s]] # 0
    <2> SUFFICES ASSUME NEW s \in Sockets, slot[s] \in Counts
                 PROVE  perIp[Peer[s]] # 0
      OBVIOUS
    <2>1. perIp[Peer[s]] = Cardinality(In(Of(Peer[s]), Counts))
      BY <1>0, CountersAreCounts DEF AdmitInv
    <2>2. s \in In(Of(Peer[s]), Counts) /\ In(Of(Peer[s]), Counts) \in SUBSET Sockets
      BY DEF In, Of
    <2>. QED
      BY <2>1, <2>2, AdmissionAssumption, FS_Subset, FS_EmptySet
  <1>2. ASSUME NEW s \in Sockets, Reserve(s)
        PROVE  AdmitInv'
    <2>1. slot[s] = "none" /\ slot' = Set(slot, s, "taken")
          /\ perIp' = Set(perIp, Peer[s], perIp[Peer[s]] + Weight("taken", Counts) - Weight(slot[s], Counts))
          /\ handshakes' = handshakes + Weight("taken", Totals) - Weight(slot[s], Totals)
      BY <1>0, <1>2 DEF Reserve, Weight, Counts, Totals
    <2>2. HeaderIsHeld' /\ DOMAIN stage' = Sockets
      BY <1>0, <1>2 DEF Reserve, HeaderIsHeld, Set
    <2>. QED
      BY <2>1, <2>2, SlotMoves DEF AdmitInv, AdmitTypeOK
  <1>3. ASSUME NEW s \in Sockets, Reserved(s)
        PROVE  AdmitInv'
    <2>1. slot[s] = "taken" /\ slot' = Set(slot, s, "held")
          /\ perIp' = Set(perIp, Peer[s], perIp[Peer[s]] + Weight("held", Counts) - Weight(slot[s], Counts))
          /\ handshakes' = handshakes + Weight("held", Totals) - Weight(slot[s], Totals)
      BY <1>0, <1>3 DEF Reserved, Weight, Counts, Totals, Set
    <2>2. HeaderIsHeld' /\ DOMAIN stage' = Sockets
      BY <1>0, <1>3 DEF Reserved, HeaderIsHeld, Set
    <2>. QED
      BY <2>1, <2>2, SlotMoves DEF AdmitInv, AdmitTypeOK
  <1>4. ASSUME NEW s \in Sockets, Reject(s)
        PROVE  AdmitInv'
    <2>1. slot[s] = "none" /\ slot' = Set(slot, s, "free")
          /\ perIp' = Set(perIp, Peer[s], perIp[Peer[s]] + Weight("free", Counts) - Weight(slot[s], Counts))
          /\ handshakes' = handshakes + Weight("free", Totals) - Weight(slot[s], Totals)
      BY <1>0, <1>4 DEF Reject, Weight, Counts, Totals, Set
    <2>2. HeaderIsHeld' /\ DOMAIN stage' = Sockets
      BY <1>0, <1>4 DEF Reject, HeaderIsHeld, Set
    <2>. QED
      BY <2>1, <2>2, SlotMoves DEF AdmitInv, AdmitTypeOK
  <1>5. ASSUME NEW s \in Sockets, DropTotal(s)
        PROVE  AdmitInv'
    <2>1. slot[s] = "sub" /\ slot' = Set(slot, s, "dec")
          /\ perIp' = Set(perIp, Peer[s], perIp[Peer[s]] + Weight("dec", Counts) - Weight(slot[s], Counts))
          /\ handshakes' = handshakes + Weight("dec", Totals) - Weight(slot[s], Totals)
      BY <1>0, <1>5 DEF DropTotal, Weight, Counts, Totals, Set
    <2>2. HeaderIsHeld' /\ DOMAIN stage' = Sockets
      BY <1>0, <1>5 DEF DropTotal, HeaderIsHeld, Set
    <2>. QED
      BY <2>1, <2>2, SlotMoves DEF AdmitInv, AdmitTypeOK
  <1>6. ASSUME NEW s \in Sockets, DropPeer(s)
        PROVE  AdmitInv'
    <2>1. PICK v \in {"remove", "free"} :
             slot[s] = "dec" /\ slot' = Set(slot, s, v) /\ UNCHANGED <<handshakes, stage>>
             /\ perIp' = Set(perIp, Peer[s], perIp[Peer[s]] - 1)
      BY <1>1, <1>6 DEF DropPeer, Counts
    <2>2. perIp' = Set(perIp, Peer[s], perIp[Peer[s]] + Weight(v, Counts) - Weight(slot[s], Counts))
          /\ handshakes' = handshakes + Weight(v, Totals) - Weight(slot[s], Totals)
      BY <1>0, <2>1 DEF Weight, Counts, Totals
    <2>3. HeaderIsHeld' /\ DOMAIN stage' = Sockets
      BY <1>0, <2>1 DEF HeaderIsHeld, Set
    <2>. QED
      BY <2>1, <2>2, <2>3, SlotMoves DEF AdmitInv, AdmitTypeOK
  <1>7. ASSUME NEW s \in Sockets, DropEntry(s)
        PROVE  AdmitInv'
    <2>0. slot[s] = "remove" /\ perIp' = perIp /\ perIp = Set(perIp, Peer[s], perIp[Peer[s]])
          /\ perIp[Peer[s]] \in Nat
      BY <1>0, <1>7 DEF DropEntry, Removes, Set
    <2>1. slot[s] = "remove" /\ slot' = Set(slot, s, "free")
          /\ perIp' = Set(perIp, Peer[s], perIp[Peer[s]] + Weight("free", Counts) - Weight(slot[s], Counts))
          /\ handshakes' = handshakes + Weight("free", Totals) - Weight(slot[s], Totals)
      BY <1>0, <1>7, <2>0 DEF DropEntry, Weight, Counts, Totals
    <2>2. HeaderIsHeld' /\ DOMAIN stage' = Sockets
      BY <1>0, <1>7 DEF DropEntry, HeaderIsHeld, Set
    <2>. QED
      BY <2>1, <2>2, SlotMoves DEF AdmitInv, AdmitTypeOK
  \* The task returns before it was admitted, as the auxiliary connection or as a main one.
  <1>8. ASSUME NEW s \in Sockets, NEW t, t # "header", stage[s] = "header", Returns(s, t),
               UNCHANGED <<perIp, handshakes>>
        PROVE  AdmitInv'
    <2>1. slot[s] = "held" /\ slot' = Set(slot, s, "sub")
          /\ perIp' = Set(perIp, Peer[s], perIp[Peer[s]] + Weight("sub", Counts) - Weight(slot[s], Counts))
          /\ handshakes' = handshakes + Weight("sub", Totals) - Weight(slot[s], Totals)
      BY <1>0, <1>8 DEF Returns, HeaderIsHeld, Weight, Counts, Totals, Set
    <2>2. HeaderIsHeld' /\ DOMAIN stage' = Sockets
      BY <1>0, <1>8 DEF Returns, HeaderIsHeld, Set
    <2>. QED
      BY <2>1, <2>2, SlotMoves DEF AdmitInv, AdmitTypeOK
  <1>9. ASSUME NEW s \in Sockets, Again(s)
        PROVE  AdmitInv'
    <2>1. slot[s] = "free" /\ slot' = Set(slot, s, "none")
          /\ perIp' = Set(perIp, Peer[s], perIp[Peer[s]] + Weight("none", Counts) - Weight(slot[s], Counts))
          /\ handshakes' = handshakes + Weight("none", Totals) - Weight(slot[s], Totals)
      BY <1>0, <1>9 DEF Again, Weight, Counts, Totals, Set
    <2>2. HeaderIsHeld' /\ DOMAIN stage' = Sockets
      BY <1>0, <1>9 DEF Again, HeaderIsHeld, Set
    <2>. QED
      BY <2>1, <2>2, SlotMoves DEF AdmitInv, AdmitTypeOK
  \* A socket that has been admitted goes on, and its slot is not touched.
  <1>10. ASSUME NEW s \in Sockets, Insert(s) \/ Login(s) \/ CloseSocket(s)
         PROVE  AdmitInv'
    <2>1. UNCHANGED <<slot, perIp, handshakes>>
      BY <1>10 DEF Insert, Login, CloseSocket
    <2>2. HeaderIsHeld' /\ DOMAIN stage' = Sockets
      BY <1>0, <1>10, <2>1 DEF Insert, Login, CloseSocket, HeaderIsHeld, Set
    <2>. QED
      BY <1>0, <2>1, <2>2, SlotsRest DEF AdmitInv, AdmitTypeOK
  <1>11. ASSUME UNCHANGED <<handshakes, perIp, slot, stage>>
         PROVE  AdmitInv'
    BY <1>0, <1>11, SlotsRest DEF AdmitInv, AdmitTypeOK, HeaderIsHeld
  <1>12. ASSUME NEW s \in Sockets, HeaderFails(s) \/ Admit(s) \/ \E k \in Tokens : Auxiliary(s, k)
         PROVE  AdmitInv'
    BY <1>8, <1>12 DEF HeaderFails, Admit, Auxiliary
  <1>13. ASSUME Expire \/ (\E k \in Tokens : Mint(k)) \/ (\E i \in Ips : BanIp(i))
                \/ UNCHANGED admitVars
         PROVE  AdmitInv'
    BY <1>11, <1>13 DEF Expire, Mint, BanIp, admitVars
  <1>. QED
    BY <1>2, <1>3, <1>4, <1>5, <1>6, <1>7, <1>9, <1>10, <1>12, <1>13 DEF AdmitNext

\* It holds at first.
LEMMA AdmitBegins == AdmitInit => AdmitInv
  <1> SUFFICES ASSUME AdmitInit
               PROVE  AdmitInv
    OBVIOUS
  <1>1. AdmitTypeOK /\ HeaderIsHeld
    BY DEF AdmitInit, AdmitTypeOK, HeaderIsHeld, SlotStates
  <1>2. In(Sockets, Totals) = {} /\ \A i : In(Of(i), Counts) = {}
    BY DEF AdmitInit, In, Of, Totals, Counts
  <1>3. SlotsAreCounted
    BY <1>2, CountersAreCounts, FS_EmptySet DEF AdmitInit
  <1>. QED
    BY <1>1, <1>3 DEF AdmitInv

\* Admission, any number of sockets and addresses: the two counters of HandshakeSlot are
\* what the sockets hold, in whatever order the steps of the releases and the
\* reservations of the accept loop fall.
THEOREM SlotsCounted == AdmitSpec => []SlotsAreCounted
  <1>1. AdmitInv => SlotsAreCounted
    BY DEF AdmitInv
  <1>. QED
    BY <1>1, AdmitBegins, AdmitStep, PTL DEF AdmitSpec

\* What the loop has tested and not counted yet is one socket at most, and there is room
\* for it.
LoopInv ==
    /\ \A s, t \in Sockets : slot[s] = "taken" /\ slot[t] = "taken" => s = t
    /\ (\E s \in Sockets : slot[s] = "taken") => handshakes < Budget

\* Admission: the limits on handshakes, of an address and of the server, are never passed.
THEOREM LimitsHold == AdmitSpec => []WithinLimits
  <1>1. AdmitInit => LoopInv /\ WithinLimits
    BY AdmissionAssumption DEF AdmitInit, LoopInv, WithinLimits
  <1>2. AdmitInv /\ LoopInv /\ WithinLimits /\ [AdmitNext]_admitVars => LoopInv' /\ WithinLimits'
    <2> SUFFICES ASSUME AdmitInv, LoopInv, WithinLimits, [AdmitNext]_admitVars
                 PROVE  LoopInv' /\ WithinLimits'
      OBVIOUS
    <2> USE AdmissionAssumption DEF Set
    <2>0. /\ slot \in [Sockets -> SlotStates] /\ perIp \in [Ips -> Nat] /\ handshakes \in Nat
          /\ \A s \in Sockets : Peer[s] \in Ips
      BY DEF AdmitInv, AdmitTypeOK, Ips
    <2>1. ASSUME NEW s \in Sockets, Reserve(s)
          PROVE  LoopInv' /\ WithinLimits'
      BY <2>0, <2>1 DEF Reserve, LoopInv, WithinLimits
    <2>2. ASSUME NEW s \in Sockets, Reserved(s)
          PROVE  LoopInv' /\ WithinLimits'
      BY <2>0, <2>2 DEF Reserved, LoopInv, WithinLimits
    <2>3. ASSUME NEW s \in Sockets, Reject(s) \/ HeaderFails(s) \/ Admit(s) \/ Insert(s) \/ Login(s)
                 \/ CloseSocket(s) \/ Again(s) \/ \E k \in Tokens : Auxiliary(s, k)
          PROVE  LoopInv' /\ WithinLimits'
      <3>1. UNCHANGED <<handshakes, perIp>>
        BY <2>3 DEF Reject, HeaderFails, Admit, Insert, Login, CloseSocket, Again, Auxiliary
      <3>2. slot' = slot \/ \E v \in {"free", "sub", "none"} : slot' = [slot EXCEPT ![s] = v]
        BY <2>3 DEF Reject, HeaderFails, Admit, Insert, Login, CloseSocket, Again, Auxiliary, Returns
      <3>. QED
        BY <2>0, <3>1, <3>2 DEF LoopInv, WithinLimits
    <2>4. ASSUME NEW s \in Sockets, DropTotal(s)
          PROVE  LoopInv' /\ WithinLimits'
      BY <2>0, <2>4 DEF DropTotal, LoopInv, WithinLimits
    <2>5. ASSUME NEW s \in Sockets, DropPeer(s)
          PROVE  LoopInv' /\ WithinLimits'
      BY <2>0, <2>5 DEF DropPeer, LoopInv, WithinLimits
    <2>6. ASSUME NEW s \in Sockets, DropEntry(s)
          PROVE  LoopInv' /\ WithinLimits'
      BY <2>0, <2>6 DEF DropEntry, Removes, LoopInv, WithinLimits
    <2>7. ASSUME UNCHANGED <<handshakes, perIp, slot>>
          PROVE  LoopInv' /\ WithinLimits'
      BY <2>7 DEF LoopInv, WithinLimits
    <2>8. ASSUME Expire \/ (\E k \in Tokens : Mint(k)) \/ (\E i \in Ips : BanIp(i))
                 \/ UNCHANGED admitVars
          PROVE  LoopInv' /\ WithinLimits'
      BY <2>7, <2>8 DEF Expire, Mint, BanIp, admitVars
    <2>. QED
      BY <2>1, <2>2, <2>3, <2>4, <2>5, <2>6, <2>8 DEF AdmitNext
  <1>. QED
    BY <1>1, <1>2, AdmitBegins, AdmitStep, PTL DEF AdmitSpec
=============================================================================
