-------------------------- MODULE InterfaceProofs ---------------------------
(***************************************************************************)
(* Proofs about the client's boxes, its command line and its transfers.    *)
(*                                                                         *)
(* SettingsBox: a lock on the server's rows has a request or an answer     *)
(* that lifts it (LockInv).  VoiceDevices: a session has one listener and  *)
(* one task (StartedOnce).  ClientTransfers: a file asked for once         *)
(* is in one place between the request and the upload (OnePlace), and a    *)
(* download that is alone has written what it has hashed (DiskIsHashed).   *)
(* Commands: what is on its way was permitted by the tables (Permitted).   *)
(* InputLine: the line parked is the one that stood when the search began, *)
(* and the cursor and the search stay inside what they point into          *)
(* (LineInv).  Palette: the list was computed for the line that stands     *)
(* (PaletteInv, UpdateFits).                                               *)
(***************************************************************************)
EXTENDS SettingsBox, VoiceDevices, ClientTransfers, Commands, InputLine,
        Palette, FiniteSetTheorems, SequenceTheorems, WellFoundedInduction, TLAPS

-----------------------------------------------------------------------------
(* SettingsBox.                                                            *)

\* Packets differ in shape: a queue is a sequence of whatever it holds.
IsQueue(s) == s \in Seq({s[i] : i \in DOMAIN s})

Holds(s, kinds) == \E i \in DOMAIN s : s[i].kind \in kinds

\* A typed sequence is a queue.
LEMMA QueueOf ==
    ASSUME NEW S, NEW s \in Seq(S)
    PROVE  IsQueue(s)
  BY DEF IsQueue

\* A packet is added to a queue, and what was there is there still.
LEMMA QueueAdds ==
    ASSUME NEW s, IsQueue(s), NEW p
    PROVE  /\ IsQueue(Append(s, p))
           /\ \A kinds : Holds(s, kinds) \/ p.kind \in kinds => Holds(Append(s, p), kinds)
  <1> DEFINE S == {s[i] : i \in DOMAIN s} \cup {p}
  <1>1. s \in Seq(S)
    <2>1. s \in Seq({s[i] : i \in DOMAIN s})
      BY DEF IsQueue
    <2>. QED
      BY <2>1
  <1>2. p \in S
    OBVIOUS
  <1> HIDE DEF S
  <1>3. Append(s, p) \in Seq(S)
    BY <1>1, <1>2
  <1>4. /\ DOMAIN s = 1..Len(s) /\ Len(s) \in Nat
        /\ DOMAIN Append(s, p) = 1..(Len(s) + 1)
        /\ \A i \in 1..Len(s) : Append(s, p)[i] = s[i]
        /\ Append(s, p)[Len(s) + 1] = p
    BY <1>1, <1>2
  <1>5. IsQueue(Append(s, p))
    BY <1>3, QueueOf
  <1>6. ASSUME NEW kinds, Holds(s, kinds)
        PROVE  Holds(Append(s, p), kinds)
    BY <1>4, <1>6 DEF Holds
  <1>7. ASSUME NEW kinds, p.kind \in kinds
        PROVE  Holds(Append(s, p), kinds)
    BY <1>4, <1>7 DEF Holds
  <1>. QED
    BY <1>5, <1>6, <1>7

\* Two queues are joined, and hold what either held.
LEMMA QueueJoins ==
    ASSUME NEW s, IsQueue(s), NEW t, IsQueue(t)
    PROVE  /\ IsQueue(s \o t)
           /\ \A kinds : Holds(s, kinds) \/ Holds(t, kinds) => Holds(s \o t, kinds)
  <1> DEFINE S == {s[i] : i \in DOMAIN s} \cup {t[i] : i \in DOMAIN t}
  <1>1. s \in Seq(S) /\ t \in Seq(S)
    <2>1. s \in Seq({s[i] : i \in DOMAIN s}) /\ t \in Seq({t[i] : i \in DOMAIN t})
      BY DEF IsQueue
    <2>. QED
      BY <2>1
  <1> HIDE DEF S
  <1>2. s \o t \in Seq(S)
    BY <1>1
  <1>3. /\ DOMAIN s = 1..Len(s) /\ Len(s) \in Nat /\ DOMAIN t = 1..Len(t) /\ Len(t) \in Nat
        /\ DOMAIN (s \o t) = 1..(Len(s) + Len(t))
        /\ \A i \in 1..Len(s) : (s \o t)[i] = s[i]
        /\ \A i \in 1..Len(t) : (s \o t)[Len(s) + i] = t[i]
    BY <1>1
  <1>4. IsQueue(s \o t)
    BY <1>2, QueueOf
  <1>5. ASSUME NEW kinds, Holds(s, kinds)
        PROVE  Holds(s \o t, kinds)
    BY <1>3, <1>5 DEF Holds
  <1>6. ASSUME NEW kinds, Holds(t, kinds)
        PROVE  Holds(s \o t, kinds)
    <2>1. PICK i \in 1..Len(t) : t[i].kind \in kinds
      BY <1>3, <1>6 DEF Holds
    <2>2. Len(s) + i \in DOMAIN (s \o t) /\ (s \o t)[Len(s) + i] = t[i]
      BY <1>3, <2>1
    <2>. QED
      BY <2>1, <2>2 DEF Holds
  <1>. QED
    BY <1>4, <1>5, <1>6

\* The head of a queue is taken, and only that is gone.
LEMMA QueueTakes ==
    ASSUME NEW s, IsQueue(s), s # <<>>
    PROVE  /\ IsQueue(Tail(s))
           /\ \A kinds : Holds(s, kinds) => Head(s).kind \in kinds \/ Holds(Tail(s), kinds)
  <1> DEFINE S == {s[i] : i \in DOMAIN s}
  <1>1. s \in Seq(S)
    BY DEF IsQueue
  <1> HIDE DEF S
  <1>2. /\ Tail(s) \in Seq(S) /\ Len(s) \in Nat /\ DOMAIN s = 1..Len(s)
        /\ DOMAIN Tail(s) = 1..(Len(s) - 1) /\ Head(s) = s[1]
        /\ \A i \in 1..(Len(s) - 1) : Tail(s)[i] = s[i + 1]
    BY <1>1
  <1>3. IsQueue(Tail(s))
    BY <1>2, QueueOf
  <1>4. ASSUME NEW kinds, Holds(s, kinds), Head(s).kind \notin kinds
        PROVE  Holds(Tail(s), kinds)
    <2>1. PICK i \in 1..Len(s) : s[i].kind \in kinds
      BY <1>2, <1>4 DEF Holds
    <2>2. i # 1
      BY <1>2, <1>4, <2>1
    <2>3. i - 1 \in DOMAIN Tail(s) /\ Tail(s)[i - 1] = s[i]
      BY <1>2, <2>1, <2>2
    <2>. QED
      BY <2>1, <2>3 DEF Holds
  <1>. QED
    BY <1>3, <1>4

\* The empty queue, and a queue of one.
LEMMA QueueOne ==
    /\ IsQueue(<<>>)
    /\ \A p : IsQueue(<<p>>) /\ \A kinds : p.kind \in kinds => Holds(<<p>>, kinds)
  <1>1. IsQueue(<<>>)
    <2>1. <<>> \in Seq({})
      OBVIOUS
    <2>. QED
      BY <2>1, QueueOf
  <1>2. ASSUME NEW p
        PROVE  IsQueue(<<p>>)
    <2>1. <<p>> \in Seq({p})
      OBVIOUS
    <2>. QED
      BY <2>1, QueueOf
  <1>3. ASSUME NEW p, NEW kinds, p.kind \in kinds
        PROVE  Holds(<<p>>, kinds)
    <2>1. 1 \in DOMAIN <<p>> /\ <<p>>[1] = p
      OBVIOUS
    <2>. QED
      BY <1>3, <2>1 DEF Holds
  <1>. QED
    BY <1>1, <1>2, <1>3

Pending == Holds(asks, {"save"}) \/ Holds(answers, {"settings", "invalidUsage"})

LockInv == IsQueue(asks) /\ IsQueue(answers) /\ (mode = "server" /\ saving => Pending)

\* Every key and every answer keeps the lock's invariant.
LEMMA LockStep == LockInv /\ [SettingsNext]_settingsVars => LockInv'
  <1> SUFFICES ASSUME LockInv, [SettingsNext]_settingsVars
               PROVE  LockInv'
    OBVIOUS
  <1>0. IsQueue(asks) /\ IsQueue(answers) /\ (mode = "server" /\ saving => Pending)
    BY DEF LockInv
  \* The queues stay, and so does what is shown, or the lock goes.
  <1>1. ASSUME UNCHANGED <<asks, answers>>, UNCHANGED <<mode, saving>> \/ saving' = FALSE
        PROVE  LockInv'
    BY <1>0, <1>1 DEF LockInv, Pending
  <1>2. CASE Open \/ Close \/ Toggle \/ BeginEdit
    BY <1>1, <1>2 DEF Open, Close, Toggle, BeginEdit, Shows
  <1>3. ASSUME NEW delta, Wheel(delta) \/ Adjust(delta) \/ (\E i : Move(i, delta))
        PROVE  LockInv'
    BY <1>1, <1>3 DEF Wheel, Adjust, Move
  <1>4. ASSUME NEW v, Type(v) \/ EndEdit(v)
        PROVE  LockInv'
    BY <1>1, <1>4 DEF Type, EndEdit
  \* A packet joins the queue to the server.
  <1>5. ASSUME NEW p, asks' = Append(asks, p), UNCHANGED answers,
               UNCHANGED <<mode, saving>> \/ saving' = FALSE \/ p.kind = "save"
        PROVE  LockInv'
    BY <1>0, <1>5, QueueAdds DEF LockInv, Pending
  <1>6. ASSUME NEW what, Ask(what)
        PROVE  LockInv'
    BY <1>5, <1>6 DEF Ask, boxVars
  <1>7. CASE SaveServer
    <2>1. asks' = Append(asks, [kind |-> "save",
                                values |-> [k \in {rows[i].key : i \in Edited} |-> ValueOf(k)]])
          /\ UNCHANGED answers
      BY <1>7 DEF SaveServer
    <2>. QED
      BY <1>5, <2>1
  <1>8. CASE SaveProfile
    <2> DEFINE one == IF rows[2].changed THEN <<[kind |-> "saveProfile", bio |-> rows[2].value]>> ELSE <<>>
               two == IF rows[1].changed THEN <<[kind |-> "avatar"]>> ELSE <<>>
    <2>1. mode' = "own" /\ asks' = asks \o one \o two /\ answers' = answers
      BY <1>8 DEF SaveProfile
    <2>2. IsQueue(one) /\ IsQueue(two)
      BY QueueOne
    <2> HIDE DEF one, two
    <2>3. IsQueue(asks \o one \o two)
      BY <1>0, <2>2, QueueJoins
    <2>. QED
      BY <1>0, <2>1, <2>3 DEF LockInv
  <1>9. CASE Restart
    <2>1. CASE confirm
      BY <1>5, <1>9, <2>1 DEF Restart, Shows
    <2>2. CASE ~confirm
      BY <1>1, <1>9, <2>2 DEF Restart
    <2>. QED
      BY <2>1, <2>2
  <1>10. ASSUME NEW verdict \in Verdicts, Handle(verdict)
         PROVE  LockInv'
    <2> DEFINE ask     == Head(asks)
               granted == verdict = "granted"
               profile == ask.kind \in {"own", "other", "saveProfile"}
               reply   == IF verdict = "silent" THEN <<>>
                          ELSE IF profile THEN AnswerProfile(ask, granted)
                          ELSE IF ask.kind = "avatar" THEN AnswerAvatar(granted)
                          ELSE AnswerSettings(ask, granted)
    <2>1. /\ asks # <<>> /\ asks' = Tail(asks) /\ answers' = answers \o reply
          /\ verdict = "silent" => profile \/ ask.kind = "avatar"
          /\ UNCHANGED <<mode, saving>>
      BY <1>10 DEF Handle, boxVars
    <2>2. IsQueue(Refusal) /\ Holds(Refusal, {"settings", "invalidUsage"})
      BY QueueOne DEF Refusal
    <2>3. IsQueue(AnswerProfile(ask, granted))
      <3> DEFINE one == IF granted THEN <<>> ELSE Refusal
                 two == IF granted \/ ask.kind = "saveProfile"
                        THEN <<Profile(ask.kind # "other", ask.kind = "saveProfile")>> ELSE <<>>
      <3>1. IsQueue(one) /\ IsQueue(two)
        BY <2>2, QueueOne
      <3>2. AnswerProfile(ask, granted) = one \o two
        BY DEF AnswerProfile
      <3> HIDE DEF one, two
      <3>3. IsQueue(one \o two)
        BY <3>1, QueueJoins
      <3>. QED
        BY <3>2, <3>3
    <2>4. IsQueue(AnswerAvatar(granted))
      BY <2>2, QueueOne DEF AnswerAvatar
    <2>5. IsQueue(AnswerSettings(ask, granted))
      BY <2>2, QueueOne DEF AnswerSettings
    <2>6. IsQueue(reply)
      BY <2>3, <2>4, <2>5, QueueOne
    \* A save is answered, and its answer unlocks.
    <2>7. ask.kind = "save" => Holds(reply, {"settings", "invalidUsage"})
      <3> SUFFICES ASSUME ask.kind = "save"
                   PROVE  Holds(reply, {"settings", "invalidUsage"})
        OBVIOUS
      <3>1. reply = AnswerSettings(ask, granted)
        BY <2>1
      <3>2. CASE granted
        <4>1. AnswerSettings(ask, granted) = <<[kind |-> "settings", values |-> toml', save |-> ask.kind = "save"]>>
          BY <3>2 DEF AnswerSettings
        <4>. QED
          BY <3>1, <4>1, QueueOne
      <3>3. CASE ~granted
        BY <2>2, <3>1, <3>3 DEF AnswerSettings
      <3>. QED
        BY <3>2, <3>3
    <2> HIDE DEF ask, granted, profile, reply
    <2>8. IsQueue(asks') /\ IsQueue(answers')
      BY <1>0, <2>1, <2>6, QueueTakes, QueueJoins
    <2>9. Pending => Pending'
      <3>1. CASE Holds(asks, {"save"})
        <4>1. ask.kind \in {"save"} \/ Holds(asks', {"save"})
          BY <1>0, <2>1, <3>1, QueueTakes DEF ask
        <4>. QED
          BY <1>0, <2>1, <2>6, <2>7, <4>1, QueueJoins DEF Pending
      <3>2. CASE Holds(answers, {"settings", "invalidUsage"})
        BY <1>0, <2>1, <2>6, <3>2, QueueJoins DEF Pending
      <3>. QED
        BY <3>1, <3>2 DEF Pending
    <2>. QED
      BY <1>0, <2>1, <2>8, <2>9 DEF LockInv
  <1>11. ASSUME NEW k, Meanwhile(k)
         PROVE  LockInv'
    BY <1>1, <1>11 DEF Meanwhile, boxVars
  \* An answer is applied: it unlocks, or is none of those that are waited for, or comes
  \* while other rows are shown.
  <1>12. ASSUME NEW kind, Pops(kind), UNCHANGED asks,
                \/ mode' # "server" \/ saving' = FALSE
                \/ UNCHANGED <<mode, saving>> /\ kind \notin {"settings", "invalidUsage"}
         PROVE  LockInv'
    <2>1. answers # <<>> /\ Head(answers).kind = kind /\ answers' = Tail(answers)
      BY <1>12 DEF Pops, Next_
    <2>2. IsQueue(asks') /\ IsQueue(answers')
      BY <1>0, <1>12, <2>1, QueueTakes
    <2>. QED
      BY <1>0, <1>12, <2>1, <2>2, QueueTakes DEF LockInv, Pending
  <1>13. CASE ApplySettings
    BY <1>12, <1>13 DEF ApplySettings, Stored, OpenServer, Shows, boxVars
  <1>14. CASE ApplyProfile
    <2>1. Pops("profile") /\ UNCHANGED asks
          /\ (saving' = FALSE \/ UNCHANGED <<mode, saving>>)
      BY <1>14 DEF ApplyProfile, Shows, boxVars
    <2>. QED
      BY <1>12, <2>1
  <1>15. CASE ApplyInvalid
    BY <1>12, <1>15 DEF ApplyInvalid
  <1>16. CASE HangUp
    <2>1. answers # <<>> /\ answers' = Tail(answers) /\ asks' = <<>> /\ saving' = FALSE
      BY <1>16 DEF HangUp, Pops, Shows
    <2>. QED
      BY <1>0, <2>1, QueueTakes, QueueOne DEF LockInv
  <1>17. CASE UNCHANGED settingsVars
    BY <1>1, <1>17 DEF settingsVars
  <1>. QED
    BY <1>2, <1>3, <1>4, <1>6, <1>7, <1>8, <1>9, <1>10, <1>11, <1>13, <1>14, <1>15, <1>16, <1>17
       DEF SettingsNext, KeyPressed, Answered

\* SettingsBox, any layout: no order of answers leaves the server's rows locked for good.
THEOREM LockPending == SettingsSpec => []LockedIsPending
  <1>1. SettingsInit => LockInv
    BY QueueOne DEF SettingsInit, LockInv
  <1>2. LockInv => LockedIsPending
    BY DEF LockInv, Pending, Holds, LockedIsPending
  <1>. QED
    BY <1>1, <1>2, LockStep, PTL DEF SettingsSpec

-----------------------------------------------------------------------------
(* VoiceDevices.                                                           *)

TaskRecord(r) == r = [at |-> r.at, seen |-> r.seen, opens |-> r.opens, restore |-> r.restore]
ListenerRecord(r) == r = [at |-> r.at, opens |-> r.opens]

\* One listener and one task per session.
DevicesTyped ==
    /\ failures \in Nat /\ call \in Nat
    /\ listener = [c \in Calls |-> listener[c]] /\ task = [c \in Calls |-> task[c]]
    /\ \A c \in Calls : TaskRecord(task[c]) /\ ListenerRecord(listener[c])

\* The task of a session is started once, by its listener, and no session is begun twice.
StartedOnce ==
    \A c \in Calls :
        /\ listener[c].at \in {"none", "opens", "stores"} => task[c].at = "none"
        /\ c > call => listener[c].at = "none"

DevInv == DevicesTyped /\ StartedOnce /\ ShownIsConfigured

\* A task goes somewhere else and is still a task.
LEMMA TaskKept ==
    ASSUME NEW q, TaskRecord(q), NEW a, NEW o, NEW u
    PROVE  /\ TaskRecord([q EXCEPT !.at = a, !.opens = o])
           /\ TaskRecord([q EXCEPT !.at = a, !.restore = u])
           /\ TaskRecord([q EXCEPT !.at = a, !.opens = o, !.restore = u])
  <1>1. ASSUME NEW r, TaskRecord(r), NEW x
        PROVE  /\ TaskRecord([r EXCEPT !.at = x])
               /\ TaskRecord([r EXCEPT !.opens = x])
               /\ TaskRecord([r EXCEPT !.restore = x])
    BY <1>1 DEF TaskRecord
  <1>2. /\ [q EXCEPT !.at = a, !.opens = o] = [[q EXCEPT !.at = a] EXCEPT !.opens = o]
        /\ [q EXCEPT !.at = a, !.restore = u] = [[q EXCEPT !.at = a] EXCEPT !.restore = u]
        /\ [q EXCEPT !.at = a, !.opens = o, !.restore = u]
             = [[[q EXCEPT !.at = a] EXCEPT !.opens = o] EXCEPT !.restore = u]
    OBVIOUS
  <1>. QED
    BY <1>1, <1>2

\* Every step of the box, the listeners and the tasks keeps the invariant.
LEMMA DevStep == DevInv /\ [DevicesNext]_deviceVars => DevInv'
  <1> SUFFICES ASSUME DevInv, [DevicesNext]_deviceVars
               PROVE  DevInv'
    OBVIOUS
  <1> USE DevicesAssumption
  <1>0. DevicesTyped /\ StartedOnce /\ ShownIsConfigured /\ Calls \subseteq Nat
    BY DEF DevInv, Calls
  \* Nothing moves but the box and the file, together.
  <1>1. ASSUME UNCHANGED <<listener, task, failures, call>>, ShownIsConfigured'
        PROVE  DevInv'
    BY <1>0, <1>1 DEF DevInv, DevicesTyped, StartedOnce
  <1>2. CASE OpenBox \/ CloseBox \/ MarkDevicesChanged \/ Leave
    BY <1>0, <1>1, <1>2 DEF OpenBox, CloseBox, MarkDevicesChanged, Leave, ShownIsConfigured, Undoes, None
  <1>3. ASSUME NEW d \in {"in", "out"}, NEW id \in Devices, SetDevice(d, id)
        PROVE  DevInv'
    BY <1>0, <1>1, <1>3 DEF SetDevice, ShownIsConfigured, Undoes, None
  <1>4. ASSUME NEW id \in Devices, Plug(id)
        PROVE  DevInv'
    BY <1>0, <1>1, <1>4 DEF Plug, ShownIsConfigured, Undoes
  <1>5. CASE ApplyFailed
    <2>1. box' = (IF box = None THEN None ELSE <<config>>) /\ failures' \in Nat
          /\ UNCHANGED <<config, listener, task, call>>
      BY <1>0, <1>5 DEF ApplyFailed, RefreshDevices, DevicesTyped
    <2>. QED
      BY <1>0, <2>1 DEF DevInv, DevicesTyped, StartedOnce, ShownIsConfigured, None
  <1>6. CASE Join
    <2>1. /\ call' = call + 1 /\ call + 1 \in Calls /\ call \in Nat
          /\ listener' = [listener EXCEPT ![call + 1].at = "opens"]
          /\ UNCHANGED <<config, box, task, failures>>
      BY <1>0, <1>6 DEF Join, DevicesTyped, Calls
    <2>2. DevicesTyped'
      BY <1>0, <2>1 DEF DevicesTyped, TaskRecord, ListenerRecord
    <2>3. StartedOnce'
      BY <1>0, <2>1 DEF StartedOnce, DevicesTyped, ListenerRecord
    <2>4. ShownIsConfigured'
      BY <1>0, <2>1 DEF ShownIsConfigured, Undoes
    <2>. QED
      BY <2>2, <2>3, <2>4 DEF DevInv
  <1>7. ASSUME NEW c \in Calls, ListenerOpens(c) \/ ListenerEnds(c)
        PROVE  DevInv'
    <2>1. /\ UNCHANGED <<config, box, call, task, failures>>
          /\ \/ listener[c].at = "opens" /\ listener' = [listener EXCEPT ![c] = [at |-> "stores", opens |-> <<config>>]]
             \/ listener' = [listener EXCEPT ![c].at = "ended"]
          /\ listener[c].at # "none"
      BY <1>7 DEF ListenerOpens, ListenerEnds
    <2>2. DevicesTyped'
      BY <1>0, <2>1 DEF DevicesTyped, TaskRecord, ListenerRecord
    <2>3. StartedOnce'
      BY <1>0, <2>1 DEF StartedOnce, DevicesTyped, ListenerRecord
    <2>4. ShownIsConfigured'
      BY <1>0, <2>1 DEF ShownIsConfigured, Undoes
    <2>. QED
      BY <2>2, <2>3, <2>4 DEF DevInv
  <1>8. ASSUME NEW c \in Calls, ListenerStores(c)
        PROVE  DevInv'
    <2>1. /\ UNCHANGED <<config, box, call, failures>>
          /\ listener[c].at = "stores"
          /\ listener' = [listener EXCEPT ![c] = [at |-> "runs", opens |-> None]]
          /\ task' = [task EXCEPT ![c].at = "starts"]
      BY <1>8 DEF ListenerStores
    <2>2. DevicesTyped'
      BY <1>0, <2>1 DEF DevicesTyped, TaskRecord, ListenerRecord
    <2>3. StartedOnce'
      BY <1>0, <2>1 DEF StartedOnce, DevicesTyped, ListenerRecord, TaskRecord
    <2>4. ShownIsConfigured'
      BY <1>0, <2>1 DEF ShownIsConfigured, Undoes, StartedOnce, DevicesTyped, TaskRecord
    <2>. QED
      BY <2>2, <2>3, <2>4 DEF DevInv
  \* A step of the activity task of c, which runs.
  <1>9. ASSUME NEW c \in Calls, NEW r, TaskRecord(r), task' = [task EXCEPT ![c] = r], task[c].at # "none",
               UNCHANGED <<box, call, listener>>,
               failures' \in Nat,
               \/ r.at \in {"undoesOut", "reopens", "fails"}
               \/ failures' > 0
               \/ config' = config /\ failures' = failures /\ ~Undoes(c)
        PROVE  DevInv'
    <2>1. DevicesTyped' /\ StartedOnce'
      BY <1>0, <1>9 DEF DevicesTyped, StartedOnce, TaskRecord
    <2>2. ShownIsConfigured'
      <3>1. task'[c] = r /\ \A e \in Calls \ {c} : task'[e] = task[e]
        BY <1>0, <1>9 DEF DevicesTyped
      <3>. QED
        BY <1>0, <1>9, <3>1 DEF ShownIsConfigured, Undoes
    <2>. QED
      BY <2>1, <2>2 DEF DevInv
  <1>10. ASSUME NEW c \in Calls, TaskStarts(c) \/ TaskEnds(c) \/ TakePair(c)
         PROVE  DevInv'
    <2>1. PICK r : /\ TaskRecord(r) /\ task' = [task EXCEPT ![c] = r]
                   /\ task[c].at \in {"starts", "loop"}
                   /\ UNCHANGED <<config, failures, box, call, listener>>
      BY <1>10 DEF TaskStarts, TaskEnds, TakePair, At, taskUnchanged, TaskRecord, Asleep
    <2>. QED
      BY <1>0, <1>9, <2>1 DEF Undoes, DevicesTyped
  <1>12. ASSUME NEW c \in Calls, BuildPair(c) \/ StorePair(c)
         PROVE  DevInv'
    <2>1. \E r : TaskRecord(r) /\ task' = [task EXCEPT ![c] = r]
      <3>1. ASSUME NEW r, TaskRecord(r), task' = [task EXCEPT ![c] = r]
            PROVE  \E q : TaskRecord(q) /\ task' = [task EXCEPT ![c] = q]
        BY <3>1
      <3>2. CASE BuildPair(c) /\ Opens(config)
        <4> DEFINE r == [task[c] EXCEPT !.at = "stores", !.opens = <<config>>]
        <4>1. TaskRecord(r)
          BY <1>0, TaskKept DEF DevicesTyped
        <4>2. task' = [task EXCEPT ![c] = r]
          BY <1>0, <3>2 DEF BuildPair, DevicesTyped
        <4>. QED
          BY <3>1, <4>1, <4>2
      <3>3. CASE BuildPair(c) /\ ~Opens(config)
        <4> DEFINE r == [task[c] EXCEPT !.at = IF task[c].restore = None THEN "fails" ELSE "undoesIn"]
        <4>1. TaskRecord(r)
          BY <1>0 DEF DevicesTyped, TaskRecord
        <4>2. task' = [task EXCEPT ![c] = r]
          BY <1>0, <3>3 DEF BuildPair, DevicesTyped
        <4>. QED
          BY <3>1, <4>1, <4>2
      <3>4. CASE StorePair(c)
        <4> DEFINE r == [task[c] EXCEPT !.at = "loop", !.opens = None, !.restore = None]
        <4>1. TaskRecord(r)
          BY <1>0, TaskKept DEF DevicesTyped
        <4>2. task' = [task EXCEPT ![c] = r]
          BY <1>0, <3>4 DEF StorePair, DevicesTyped
        <4>. QED
          BY <3>1, <4>1, <4>2
      <3>. QED
        BY <1>12, <3>2, <3>3, <3>4
    <2>2. task[c].at \in {"builds", "stores"} /\ UNCHANGED <<config, failures, box, call, listener>>
      BY <1>12 DEF BuildPair, StorePair, At, taskUnchanged
    <2>. QED
      BY <1>0, <1>9, <2>1, <2>2 DEF Undoes, DevicesTyped
  <1>14. ASSUME NEW c \in Calls, UndoIn(c) \/ UndoOut(c) \/ Reopen(c) \/ TellFailure(c)
         PROVE  DevInv'
    <2>1. /\ task[c].at \in {"undoesIn", "undoesOut", "reopens", "fails"}
          /\ UNCHANGED <<box, call, listener>>
      BY <1>14 DEF UndoIn, UndoOut, Reopen, TellFailure, At, taskUnchanged
    <2>2. PICK r : /\ TaskRecord(r) /\ task' = [task EXCEPT ![c] = r] 
                   /\ \/ r.at \in {"undoesOut", "reopens", "fails"} /\ failures' = failures
                      \/ failures' = failures + 1
      <3>1. CASE UndoIn(c)
        <4> DEFINE r == [task[c] EXCEPT !.at = "undoesOut"]
        <4>1. TaskRecord(r) /\ r.at = "undoesOut" /\ task' = [task EXCEPT ![c] = r] /\ failures' = failures
          BY <1>0, <3>1 DEF UndoIn, DevicesTyped, TaskRecord
        <4>. QED
          BY <4>1
      <3>2. CASE UndoOut(c)
        <4> DEFINE r == [task[c] EXCEPT !.at = "reopens"]
        <4>1. TaskRecord(r) /\ r.at = "reopens" /\ task' = [task EXCEPT ![c] = r] /\ failures' = failures
          BY <1>0, <3>2 DEF UndoOut, DevicesTyped, TaskRecord
        <4>. QED
          BY <4>1
      <3>3. CASE Reopen(c)
        <4> DEFINE r == [task[c] EXCEPT !.at = "fails"]
        <4>1. TaskRecord(r) /\ r.at = "fails" /\ task' = [task EXCEPT ![c] = r] /\ failures' = failures
          BY <1>0, <3>3 DEF Reopen, DevicesTyped, TaskRecord
        <4>. QED
          BY <4>1
      <3>4. CASE TellFailure(c)
        <4> DEFINE r == [task[c] EXCEPT !.at = "loop", !.restore = None]
        <4>1. TaskRecord(r)
          BY <1>0, TaskKept DEF DevicesTyped
        <4>2. task' = [task EXCEPT ![c] = r] /\ failures' = failures + 1
          BY <1>0, <3>4 DEF TellFailure, DevicesTyped
        <4>. QED
          BY <4>1, <4>2
      <3>. QED
        BY <1>14, <3>1, <3>2, <3>3, <3>4
    <2>3. failures' \in Nat /\ (failures' = failures + 1 => failures' > 0)
      BY <1>0, <2>2 DEF DevicesTyped
    <2>. QED
      BY <1>9, <2>1, <2>2, <2>3
  <1>13. CASE UNCHANGED deviceVars
    BY <1>0, <1>1, <1>13 DEF deviceVars, ShownIsConfigured, Undoes
  <1>. QED
    BY <1>2, <1>3, <1>4, <1>5, <1>6, <1>7, <1>8, <1>10, <1>12, <1>13, <1>14 DEF DevicesNext

\* VoiceDevices, any devices and any number of sessions: what the box shows is what
\* client.toml says, once no failure is on its way.
THEOREM ShownConfigured == DevicesSpec => []ShownIsConfigured
  <1>1. DevicesInit => DevInv
    BY DEF DevicesInit, DevInv, DevicesTyped, StartedOnce, ShownIsConfigured, TaskRecord, ListenerRecord, Asleep, None
  <1>2. DevInv => ShownIsConfigured
    BY DEF DevInv
  <1>. QED
    BY <1>1, <1>2, DevStep, PTL DEF DevicesSpec

-----------------------------------------------------------------------------
(* ClientTransfers: uploads.                                               *)

UploadTask(t) == t = [file |-> t.file, epoch |-> t.epoch, step |-> t.step, id |-> t.id]
Replies       == [code : {"approve", "duplicate", "refuse"}, file : Files]

UploadsTyped ==
    /\ epoch \in Nat
    /\ \A t \in prep \cup tasks : UploadTask(t) /\ t.file \in Files /\ t.epoch \in Nat /\ t.epoch <= epoch
    /\ requests \in Seq(Files) /\ wanted \in Seq(Files) /\ replies \in Seq(Replies)

\* Where a file is between its being asked for and its being sent.
Asked(f)  == \E i \in DOMAIN wanted : wanted[i] = f
Twice(f)  == \E i, j \in DOMAIN wanted : i # j /\ wanted[i] = f /\ wanted[j] = f
InPrep(f)     == \E t \in prep : t.file = f
InRequests(f) == \E i \in DOMAIN requests : requests[i] = f
InReplies(f)  == \E i \in DOMAIN replies : replies[i].file = f
InTasks(f)    == \E t \in tasks : t.file = f

\* A file that was asked for once is in one place.
OnePlace ==
    \A f \in Files : ~Twice(f) =>
        /\ InPrep(f) \/ InRequests(f) \/ InReplies(f) \/ InTasks(f) => Asked(f)
        /\ InPrep(f) => ~InRequests(f) /\ ~InReplies(f) /\ ~InTasks(f)
        /\ InRequests(f) => ~InReplies(f) /\ ~InTasks(f)
        /\ InReplies(f) => ~InTasks(f)
        /\ \A t, u \in prep : t.file = f /\ u.file = f => t = u
        /\ \A i, j \in DOMAIN requests : requests[i] = f /\ requests[j] = f => i = j
        /\ \A i, j \in DOMAIN replies : replies[i].file = f /\ replies[j].file = f => i = j
        /\ \A t, u \in tasks : t.file = f /\ u.file = f => t = u

\* From its being asked for on, it is parked, as long as the session lasts.
ParkedFirst ==
    \A f \in Files : ~Twice(f) /\ f \notin parked =>
        /\ \A t \in prep : t.file = f => t.step # "then" \/ t.epoch # epoch
        /\ ~InRequests(f) /\ ~InReplies(f)
        /\ \A t \in tasks : t.file = f => t.step # "find" \/ t.epoch # epoch

Found == \A t \in tasks : t.step = "unparked" => t.epoch < epoch \/ Twice(t.file)

UpInv == UploadsTyped /\ OnePlace /\ ParkedFirst /\ Found

\* What Append does.
LEMMA AppendFacts ==
    ASSUME NEW S, NEW q \in Seq(S), NEW e \in S
    PROVE  /\ DOMAIN q = 1..Len(q) /\ Len(q) \in Nat /\ Append(q, e) \in Seq(S)
           /\ DOMAIN Append(q, e) = 1..(Len(q) + 1)
           /\ \A i \in 1..Len(q) : Append(q, e)[i] = q[i]
           /\ Append(q, e)[Len(q) + 1] = e
  OBVIOUS

\* What Tail does.
LEMMA TailFacts ==
    ASSUME NEW S, NEW q \in Seq(S), q # <<>>
    PROVE  /\ Tail(q) \in Seq(S) /\ Len(q) \in Nat /\ Len(q) > 0 /\ DOMAIN q = 1..Len(q)
           /\ DOMAIN Tail(q) = 1..(Len(q) - 1) /\ Head(q) = q[1] /\ Head(q) \in S
           /\ \A i \in 1..(Len(q) - 1) : Tail(q)[i] = q[i + 1]
  OBVIOUS

\* A task goes on to its next step.
LEMMA StepTaken ==
    ASSUME NEW t, UploadTask(t), NEW step
    PROVE  LET u == [t EXCEPT !.step = step] IN
           UploadTask(u) /\ u.file = t.file /\ u.epoch = t.epoch /\ u.step = step
  BY DEF UploadTask

\* A task that starts belongs to the session of its time.
LEMMA TaskMade ==
    ASSUME NEW f, NEW step, NEW n
    PROVE  /\ UploadTask(Task(f, step, n)) /\ Task(f, step, n).file = f
           /\ Task(f, step, n).epoch = epoch /\ Task(f, step, n).step = step
  BY DEF UploadTask, Task

\* Asking for a file.
LEMMA UploadAsked ==
    ASSUME UpInv, NEW f \in Files, AskUpload(f)
    PROVE  UpInv'
  <1> DEFINE n == Task(f, "hash", Len(wanted))
  <1>0. UploadsTyped /\ OnePlace /\ ParkedFirst /\ Found
    BY DEF UpInv
  <1>1. /\ wanted' = Append(wanted, f) /\ prep' = prep \cup {n}
        /\ UNCHANGED <<epoch, parked, requests, replies, tasks>>
    BY DEF AskUpload
  <1>2. UploadTask(n) /\ n.file = f /\ n.epoch = epoch /\ n.step = "hash"
    BY TaskMade
  <1> HIDE DEF n
  <1>3. wanted \in Seq(Files) /\ epoch \in Nat
    BY <1>0 DEF UploadsTyped
  <1>4. UploadsTyped'
    BY <1>0, <1>1, <1>2, <1>3, AppendFacts DEF UploadsTyped
  <1>5. \A g : (Twice(g) => Twice(g)') /\ (Asked(g) => Asked(g)')
    BY <1>1, <1>3, AppendFacts DEF Twice, Asked
  <1>6. Asked(f)' /\ (Asked(f) => Twice(f)')
    <2>1. Len(wanted) + 1 \in DOMAIN wanted' /\ wanted'[Len(wanted) + 1] = f
      BY <1>1, <1>3, AppendFacts
    <2>2. \A i \in DOMAIN wanted : i \in DOMAIN wanted' /\ wanted'[i] = wanted[i] /\ i # Len(wanted) + 1
      BY <1>1, <1>3, AppendFacts
    <2>. QED
      BY <2>1, <2>2 DEF Asked, Twice
  <1>7. /\ \A g : InRequests(g)' = InRequests(g) /\ InReplies(g)' = InReplies(g) /\ InTasks(g)' = InTasks(g)
        /\ \A g : InPrep(g)' => InPrep(g) \/ g = f
    BY <1>1, <1>2 DEF InRequests, InReplies, InTasks, InPrep
  <1>8. OnePlace'
    <2> SUFFICES ASSUME NEW g \in Files, ~Twice(g)'
                 PROVE  /\ InPrep(g)' \/ InRequests(g)' \/ InReplies(g)' \/ InTasks(g)' => Asked(g)'
                        /\ InPrep(g)' => ~InRequests(g)' /\ ~InReplies(g)' /\ ~InTasks(g)'
                        /\ InRequests(g)' => ~InReplies(g)' /\ ~InTasks(g)'
                        /\ InReplies(g)' => ~InTasks(g)'
                        /\ \A t, u \in prep' : t.file = g /\ u.file = g => t = u
                        /\ \A i, j \in DOMAIN requests' : requests'[i] = g /\ requests'[j] = g => i = j
                        /\ \A i, j \in DOMAIN replies' : replies'[i].file = g /\ replies'[j].file = g => i = j
                        /\ \A t, u \in tasks' : t.file = g /\ u.file = g => t = u
      BY DEF OnePlace
    <2>1. ~Twice(g) /\ (g = f => ~Asked(f))
      BY <1>5, <1>6
    <2>2. CASE g = f
      <3>1. ~InPrep(g) /\ ~InRequests(g) /\ ~InReplies(g) /\ ~InTasks(g) /\ Asked(g)'
        BY <1>0, <1>6, <2>1, <2>2 DEF OnePlace
      <3>. QED
        BY <1>1, <1>7, <3>1 DEF InPrep, InRequests, InReplies, InTasks
    <2>3. CASE g # f
      BY <1>0, <1>1, <1>2, <1>5, <1>7, <2>1, <2>3 DEF OnePlace
    <2>. QED
      BY <2>2, <2>3
  <1>9. ParkedFirst'
    BY <1>0, <1>1, <1>2, <1>5, <1>7 DEF ParkedFirst
  <1>10. Found'
    BY <1>0, <1>1, <1>5 DEF Found
  <1>. QED
    BY <1>4, <1>8, <1>9, <1>10 DEF UpInv

\* A task of upload() goes on, or ends: what is asked for, answered and sent stays.
LEMMA PrepStep ==
    ASSUME UpInv, NEW t \in prep, NEW u, UploadTask(u), u.file = t.file, u.epoch = t.epoch,
           prep' = prep \ {t} \/ prep' = (prep \ {t}) \cup {u},
           parked \subseteq parked',
           u.step = "then" => t.file \in parked',
           UNCHANGED <<epoch, wanted, requests, replies, tasks>>
    PROVE  UpInv'
  <1>0. UploadsTyped /\ OnePlace /\ ParkedFirst /\ Found
    BY DEF UpInv
  <1>1. UploadsTyped'
    BY <1>0 DEF UploadsTyped
  <1>2. \A g : Twice(g)' = Twice(g) /\ Asked(g)' = Asked(g)
    BY DEF Twice, Asked
  <1>3. /\ \A g : InRequests(g)' = InRequests(g) /\ InReplies(g)' = InReplies(g) /\ InTasks(g)' = InTasks(g)
        /\ \A g : InPrep(g)' => InPrep(g)
    BY DEF InRequests, InReplies, InTasks, InPrep
  <1>4. OnePlace'
    BY <1>0, <1>2, <1>3 DEF OnePlace
  <1>5. ParkedFirst'
    BY <1>0, <1>2, <1>3 DEF ParkedFirst
  <1>6. Found'
    BY <1>0, <1>2 DEF Found
  <1>. QED
    BY <1>1, <1>4, <1>5, <1>6 DEF UpInv

\* A task of file::upload goes on.
LEMMA TaskStep ==
    ASSUME UpInv, NEW t \in tasks, NEW u, UploadTask(u), u.file = t.file, u.epoch = t.epoch,
           tasks' = (tasks \ {t}) \cup {u}, u.step # "find",
           parked' = parked \/ (parked' = parked \ {t.file} /\ t.step = "find"),
           u.step = "unparked" => t.step = "find" /\ t.file \notin parked,
           UNCHANGED <<epoch, wanted, requests, replies, prep>>
    PROVE  UpInv'
  <1>0. UploadsTyped /\ OnePlace /\ ParkedFirst /\ Found
    BY DEF UpInv
  <1>1. UploadsTyped'
    BY <1>0 DEF UploadsTyped
  <1>2. \A g : Twice(g)' = Twice(g) /\ Asked(g)' = Asked(g)
    BY DEF Twice, Asked
  <1>3. /\ \A g : InRequests(g)' = InRequests(g) /\ InReplies(g)' = InReplies(g) /\ InPrep(g)' = InPrep(g)
        /\ \A g : InTasks(g)' => InTasks(g)
        /\ InTasks(t.file) /\ t.file \in Files
    BY <1>0 DEF InRequests, InReplies, InTasks, InPrep, UploadsTyped
  <1>4. OnePlace'
    BY <1>0, <1>2, <1>3 DEF OnePlace
  \* The file has no other place than this task.
  <1>5. ~Twice(t.file) => ~InPrep(t.file) /\ ~InRequests(t.file) /\ ~InReplies(t.file)
                          /\ \A v \in tasks : v.file = t.file => v = t
    BY <1>0, <1>3 DEF OnePlace
  <1>6. ParkedFirst'
    BY <1>0, <1>2, <1>3, <1>5 DEF ParkedFirst, InPrep
  <1>7. t.epoch \in Nat /\ epoch \in Nat /\ t.epoch <= epoch
    BY <1>0 DEF UploadsTyped
  <1>8. Found'
    <2>1. u.step = "unparked" => u.epoch < epoch \/ Twice(u.file)
      BY <1>0, <1>3, <1>7 DEF ParkedFirst
    <2>. QED
      BY <1>0, <1>2, <2>1 DEF Found
  <1>. QED
    BY <1>1, <1>4, <1>6, <1>8 DEF UpInv

\* The request goes out: the file is parked, and moves from prep to requests.
LEMMA RequestStep ==
    ASSUME UpInv, NEW t \in prep, Request(t)
    PROVE  UpInv'
  <1>0. UploadsTyped /\ OnePlace /\ ParkedFirst /\ Found
    BY DEF UpInv
  <1>1. /\ t.step = "then" /\ prep' = prep \ {t}
        /\ requests' = (IF t.epoch = epoch THEN Append(requests, t.file) ELSE requests)
        /\ UNCHANGED <<epoch, parked, replies, tasks, wanted>>
    BY DEF Request, Advance, First
  <1>2. requests \in Seq(Files) /\ t.file \in Files
    BY <1>0 DEF UploadsTyped
  <1>3. UploadsTyped'
    BY <1>0, <1>1, <1>2, AppendFacts DEF UploadsTyped
  <1>4. \A g : Twice(g)' = Twice(g) /\ Asked(g)' = Asked(g)
    BY <1>1 DEF Twice, Asked
  <1>5. \A g : InReplies(g)' = InReplies(g) /\ InTasks(g)' = InTasks(g) /\ (InPrep(g)' => InPrep(g))
    BY <1>1 DEF InReplies, InTasks, InPrep
  <1>6. CASE t.epoch # epoch
    <2>1. requests' = requests
      BY <1>1, <1>6
    <2>2. \A g : InRequests(g)' = InRequests(g)
      BY <2>1 DEF InRequests
    <2>3. OnePlace'
      BY <1>0, <1>1, <1>4, <1>5, <2>1, <2>2 DEF OnePlace
    <2>4. ParkedFirst'
      BY <1>0, <1>1, <1>4, <1>5, <2>1, <2>2 DEF ParkedFirst
    <2>5. Found'
      BY <1>0, <1>1, <1>4 DEF Found
    <2>. QED
      BY <1>3, <2>3, <2>4, <2>5 DEF UpInv
  <1>7. CASE t.epoch = epoch
    <2>1. requests' = Append(requests, t.file)
      BY <1>1, <1>7
    <2>2. \A g : InRequests(g)' => InRequests(g) \/ g = t.file
      BY <1>2, <2>1, AppendFacts DEF InRequests
    <2>3. InPrep(t.file)
      BY DEF InPrep
    <2>4. ~Twice(t.file) => /\ Asked(t.file) /\ t.file \in parked
                            /\ ~InRequests(t.file) /\ ~InReplies(t.file) /\ ~InTasks(t.file)
                            /\ \A u \in prep : u.file = t.file => u = t
      BY <1>0, <1>1, <1>2, <1>7, <2>3 DEF OnePlace, ParkedFirst
    <2>5. ~Twice(t.file) => ~InPrep(t.file)'
      BY <1>1, <2>4 DEF InPrep
    <2>6. ASSUME NEW g \in Files, ~Twice(g), NEW i \in DOMAIN requests', NEW j \in DOMAIN requests',
                 requests'[i] = g, requests'[j] = g
          PROVE  i = j
      <3>1. CASE g = t.file
        <4>1. \A k \in DOMAIN requests : requests[k] # g
          BY <2>4, <2>6, <3>1 DEF InRequests
        <4>2. \A k \in DOMAIN requests' : requests'[k] = g => k = Len(requests) + 1
          BY <1>2, <2>1, <4>1, AppendFacts
        <4>. QED
          BY <2>6, <4>2
      <3>2. CASE g # t.file
        <4>1. \A k \in DOMAIN requests' : requests'[k] = g => k \in DOMAIN requests /\ requests[k] = g
          BY <1>2, <2>1, <3>2, AppendFacts
        <4>. QED
          BY <1>0, <2>6, <4>1 DEF OnePlace
      <3>. QED
        BY <3>1, <3>2
    <2>7. OnePlace'
      BY <1>0, <1>1, <1>2, <1>4, <1>5, <2>2, <2>4, <2>5, <2>6 DEF OnePlace
    <2>8. ParkedFirst'
      BY <1>0, <1>1, <1>4, <1>5, <2>2, <2>4 DEF ParkedFirst
    <2>9. Found'
      BY <1>0, <1>1, <1>4 DEF Found
    <2>. QED
      BY <1>3, <2>7, <2>8, <2>9 DEF UpInv
  <1>. QED
    BY <1>6, <1>7

\* The server answers: the file moves from requests to replies.
LEMMA AnswerStep ==
    ASSUME UpInv, NEW code \in {"approve", "duplicate", "refuse"}, Answer(code)
    PROVE  UpInv'
  <1> PICK f : f = Head(requests)
    OBVIOUS
  <1> DEFINE a == [code |-> code, file |-> f]
  <1>0. UploadsTyped /\ OnePlace /\ ParkedFirst /\ Found
    BY DEF UpInv
  <1>1. /\ requests # <<>> /\ requests' = Tail(requests) /\ replies' = Append(replies, a)
        /\ UNCHANGED <<epoch, prep, parked, tasks, wanted>>
    BY DEF Answer
  <1>2. requests \in Seq(Files) /\ replies \in Seq(Replies)
    BY <1>0 DEF UploadsTyped
  <1>3. f = requests[1] /\ f \in Files /\ 1 \in DOMAIN requests
    BY <1>1, <1>2, TailFacts
  <1>4. a.file = f /\ a \in Replies
    BY <1>3 DEF Replies
  <1> HIDE DEF a
  <1>5. \A i \in DOMAIN requests' : i + 1 \in DOMAIN requests /\ i + 1 # 1 /\ requests'[i] = requests[i + 1]
    BY <1>1, <1>2, TailFacts
  <1>50. \A i \in DOMAIN requests' : i \in Int
    BY <1>1, <1>2, TailFacts
  <1>6. \A i \in DOMAIN replies' : (i \in DOMAIN replies /\ replies'[i] = replies[i])
                                   \/ (i = Len(replies) + 1 /\ replies'[i] = a)
    BY <1>1, <1>2, <1>4, AppendFacts
  <1>7. UploadsTyped'
    <2>1. requests' \in Seq(Files) /\ replies' \in Seq(Replies)
      BY <1>1, <1>2, <1>4, TailFacts, AppendFacts
    <2>. QED
      BY <1>0, <1>1, <2>1 DEF UploadsTyped
  <1>8. \A g : Twice(g)' = Twice(g) /\ Asked(g)' = Asked(g)
    BY <1>1 DEF Twice, Asked
  <1>9. \A g : InPrep(g)' = InPrep(g) /\ InTasks(g)' = InTasks(g)
    BY <1>1 DEF InPrep, InTasks
  <1>10. \A g : (InRequests(g)' => InRequests(g)) /\ (InReplies(g)' => InReplies(g) \/ g = f)
    BY <1>4, <1>5, <1>6 DEF InRequests, InReplies
  <1>11. InRequests(f)
    BY <1>3 DEF InRequests
  <1>12. ~Twice(f) => /\ Asked(f) /\ f \in parked /\ ~InPrep(f) /\ ~InReplies(f) /\ ~InTasks(f)
                      /\ \A i \in DOMAIN requests : requests[i] = f => i = 1
    BY <1>0, <1>3, <1>11 DEF OnePlace, ParkedFirst
  <1>13. ~Twice(f) => ~InRequests(f)'
    BY <1>5, <1>12 DEF InRequests
  <1>14. ASSUME NEW g \in Files, ~Twice(g), NEW i \in DOMAIN requests', NEW j \in DOMAIN requests',
                requests'[i] = g, requests'[j] = g
         PROVE  i = j
    <2>1. i + 1 = j + 1
      BY <1>0, <1>5, <1>14 DEF OnePlace
    <2>. QED
      BY <1>50, <2>1
  <1>15. ASSUME NEW g \in Files, ~Twice(g), NEW i \in DOMAIN replies', NEW j \in DOMAIN replies',
                replies'[i].file = g, replies'[j].file = g
         PROVE  i = j
    <2>1. CASE g = f
      BY <1>6, <1>12, <1>15, <2>1 DEF InReplies
    <2>2. CASE g # f
      BY <1>0, <1>4, <1>6, <1>15, <2>2 DEF OnePlace
    <2>. QED
      BY <2>1, <2>2
  <1>16. OnePlace'
    BY <1>0, <1>1, <1>8, <1>9, <1>10, <1>12, <1>13, <1>14, <1>15 DEF OnePlace
  <1>17. ParkedFirst'
    BY <1>0, <1>1, <1>8, <1>9, <1>10, <1>12 DEF ParkedFirst
  <1>18. Found'
    BY <1>0, <1>1, <1>8 DEF Found
  <1>. QED
    BY <1>7, <1>16, <1>17, <1>18 DEF UpInv

\* The answer is heard: an approved file moves to the tasks, a duplicate is let go.
LEMMA HearStep ==
    ASSUME UpInv, Hear
    PROVE  UpInv'
  <1> PICK f : f = Head(replies).file
    OBVIOUS
  <1> DEFINE n == Task(f, "find", Cardinality(tasks))
  <1>0. UploadsTyped /\ OnePlace /\ ParkedFirst /\ Found
    BY DEF UpInv
  <1>1. /\ replies # <<>> /\ replies' = Tail(replies)
        /\ \/ tasks' = tasks \cup {n} /\ parked' = parked
           \/ tasks' = tasks /\ (parked' = parked \/ parked' = parked \ {f})
        /\ UNCHANGED <<epoch, prep, requests, wanted>>
    BY DEF Hear
  <1>2. replies \in Seq(Replies) /\ epoch \in Nat
    BY <1>0 DEF UploadsTyped
  <1>3. f = replies[1].file /\ Head(replies) \in Replies /\ 1 \in DOMAIN replies
    BY <1>1, <1>2, TailFacts
  <1>4. f \in Files
    BY <1>3 DEF Replies
  <1>5. UploadTask(n) /\ n.file = f /\ n.epoch = epoch /\ n.step = "find"
    BY TaskMade
  <1> HIDE DEF n
  <1>6. \A i \in DOMAIN replies' : i \in Int /\ i + 1 \in DOMAIN replies /\ i + 1 # 1 /\ replies'[i] = replies[i + 1]
    BY <1>1, <1>2, TailFacts
  <1>7. UploadsTyped'
    <2>1. replies' \in Seq(Replies)
      BY <1>1, <1>2, TailFacts
    <2>2. \A t \in tasks' : t \in tasks \/ t = n
      BY <1>1
    <2>. QED
      BY <1>0, <1>1, <1>2, <1>4, <1>5, <2>1, <2>2 DEF UploadsTyped
  <1>8. \A g : Twice(g)' = Twice(g) /\ Asked(g)' = Asked(g)
    BY <1>1 DEF Twice, Asked
  <1>9. \A g : InPrep(g)' = InPrep(g) /\ InRequests(g)' = InRequests(g)
    BY <1>1 DEF InPrep, InRequests
  <1>10. \A g : (InReplies(g)' => InReplies(g)) /\ (InTasks(g)' => InTasks(g) \/ g = f)
    BY <1>1, <1>5, <1>6 DEF InReplies, InTasks
  <1>11. InReplies(f)
    BY <1>3 DEF InReplies
  <1>12. ~Twice(f) => /\ Asked(f) /\ f \in parked /\ ~InPrep(f) /\ ~InRequests(f) /\ ~InTasks(f)
                      /\ \A i \in DOMAIN replies : replies[i].file = f => i = 1
    BY <1>0, <1>3, <1>4, <1>11 DEF OnePlace, ParkedFirst
  <1>13. ~Twice(f) => ~InReplies(f)'
    BY <1>6, <1>12 DEF InReplies
  <1>14. ASSUME NEW g \in Files, ~Twice(g), NEW i \in DOMAIN replies', NEW j \in DOMAIN replies',
                replies'[i].file = g, replies'[j].file = g
         PROVE  i = j
    <2>1. i + 1 = j + 1
      BY <1>0, <1>6, <1>14 DEF OnePlace
    <2>. QED
      BY <1>6, <2>1
  <1>15. ASSUME NEW g \in Files, ~Twice(g), NEW t \in tasks', NEW u \in tasks', t.file = g, u.file = g
         PROVE  t = u
    <2>1. CASE g = f
      BY <1>1, <1>12, <1>15, <2>1 DEF InTasks
    <2>2. CASE g # f
      BY <1>0, <1>1, <1>5, <1>15, <2>2 DEF OnePlace
    <2>. QED
      BY <2>1, <2>2
  <1>16. OnePlace'
    BY <1>0, <1>1, <1>4, <1>8, <1>9, <1>10, <1>12, <1>13, <1>14, <1>15 DEF OnePlace
  <1>17. ParkedFirst'
    <2> SUFFICES ASSUME NEW g \in Files, ~Twice(g), g \notin parked'
                 PROVE  /\ \A t \in prep' : t.file = g => t.step # "then" \/ t.epoch # epoch'
                        /\ ~InRequests(g)' /\ ~InReplies(g)'
                        /\ \A t \in tasks' : t.file = g => t.step # "find" \/ t.epoch # epoch'
      BY <1>8 DEF ParkedFirst
    <2>1. CASE g = f
      <3>1. tasks' = tasks
        BY <1>1, <1>12, <2>1
      <3>. QED
        BY <1>1, <1>9, <1>12, <1>13, <2>1, <3>1 DEF InPrep, InTasks
    <2>2. CASE g # f
      BY <1>0, <1>1, <1>5, <1>9, <1>10, <2>2 DEF ParkedFirst
    <2>. QED
      BY <2>1, <2>2
  <1>18. Found'
    BY <1>0, <1>1, <1>5, <1>8 DEF Found
  <1>. QED
    BY <1>7, <1>16, <1>17, <1>18 DEF UpInv

\* reset_session: what was parked belongs to an earlier session from now on.
LEMMA EndStep ==
    ASSUME UpInv, EndSession
    PROVE  UpInv'
  <1>0. UploadsTyped /\ OnePlace /\ ParkedFirst /\ Found
    BY DEF UpInv
  <1>1. /\ epoch' = epoch + 1 /\ parked' = {} /\ requests' = <<>> /\ replies' = <<>>
        /\ UNCHANGED <<prep, tasks, wanted>>
    BY DEF EndSession
  <1>2. epoch \in Nat /\ epoch' \in Nat
    BY <1>0, <1>1 DEF UploadsTyped
  <1>3. \A t \in prep \cup tasks : t.epoch \in Nat /\ t.epoch <= epoch
    BY <1>0 DEF UploadsTyped
  <1>4. \A t \in prep \cup tasks : t.epoch < epoch' /\ t.epoch # epoch' /\ t.epoch <= epoch'
    BY <1>1, <1>2, <1>3
  <1>5. UploadsTyped'
    <2>1. \A t \in (prep \cup tasks)' : UploadTask(t) /\ t.file \in Files /\ t.epoch \in Nat /\ t.epoch <= epoch'
      BY <1>0, <1>1, <1>3, <1>4 DEF UploadsTyped
    <2>2. requests' \in Seq(Files) /\ wanted' \in Seq(Files) /\ replies' \in Seq(Replies)
      BY <1>0, <1>1 DEF UploadsTyped
    <2>. QED
      BY <1>2, <2>1, <2>2 DEF UploadsTyped
  <1>6. \A g : /\ Twice(g)' = Twice(g) /\ Asked(g)' = Asked(g)
               /\ InPrep(g)' = InPrep(g) /\ InTasks(g)' = InTasks(g)
    BY <1>1 DEF Twice, Asked, InPrep, InTasks
  <1>7. \A g : ~InRequests(g)' /\ ~InReplies(g)'
    BY <1>1 DEF InRequests, InReplies
  <1>8. DOMAIN requests' = {} /\ DOMAIN replies' = {}
    BY <1>1
  <1>9. OnePlace'
    BY <1>0, <1>1, <1>6, <1>7, <1>8 DEF OnePlace
  <1>10. ParkedFirst'
    BY <1>1, <1>4, <1>7 DEF ParkedFirst
  <1>11. Found'
    BY <1>1, <1>4 DEF Found
  <1>. QED
    BY <1>5, <1>9, <1>10, <1>11 DEF UpInv

\* Nothing is uploaded at first.
LEMMA UploadsBegin ==
    ASSUME MoveInit
    PROVE  UpInv
  <1>1. /\ epoch = 1 /\ prep = {} /\ parked = {} /\ requests = <<>>
        /\ replies = <<>> /\ tasks = {} /\ wanted = <<>>
    BY DEF MoveInit
  <1>2. DOMAIN requests = {} /\ DOMAIN replies = {} /\ DOMAIN wanted = {}
    BY <1>1
  <1>3. UploadsTyped
    BY <1>1 DEF UploadsTyped
  <1>4. OnePlace
    BY <1>1, <1>2 DEF OnePlace, InPrep, InRequests, InReplies, InTasks
  <1>5. ParkedFirst
    BY <1>1, <1>2 DEF ParkedFirst, InRequests, InReplies
  <1>6. Found
    BY <1>1 DEF Found
  <1>. QED
    BY <1>3, <1>4, <1>5, <1>6 DEF UpInv

\* Every step of an upload keeps the invariant.
LEMMA UploadStep ==
    ASSUME UpInv, UploadNext
    PROVE  UpInv'
  <1>1. \A t \in prep \cup tasks : UploadTask(t)
    BY DEF UpInv, UploadsTyped
  <1>2. ASSUME NEW t \in prep, CheckFails(t) \/ Prepare(t) \/ Park(t)
        PROVE  UpInv'
    <2>1. CASE CheckFails(t)
      <3>1. /\ t.step # "then" /\ prep' = prep \ {t}
            /\ UNCHANGED <<epoch, parked, requests, replies, tasks, wanted>>
        BY <2>1 DEF CheckFails
      <3>. QED
        BY <1>1, <3>1, PrepStep
    <2>2. CASE Prepare(t)
      <3> DEFINE u == [t EXCEPT !.step = "park"]
      <3>1. /\ prep' = (prep \ {t}) \cup {u}
            /\ UNCHANGED <<epoch, parked, requests, replies, tasks, wanted>>
        BY <2>2 DEF Prepare
      <3>2. UploadTask(u) /\ u.file = t.file /\ u.epoch = t.epoch /\ u.step = "park"
        BY <1>1, StepTaken
      <3> HIDE DEF u
      <3>. QED
        BY <3>1, <3>2, PrepStep
    <2>3. CASE Park(t)
      <3> DEFINE u == [t EXCEPT !.step = "then"]
      <3>1. /\ prep' = (prep \ {t}) \cup {u} /\ parked' = parked \cup {t.file}
            /\ UNCHANGED <<epoch, requests, replies, tasks, wanted>>
        BY <2>3 DEF Park, Advance, First
      <3>2. UploadTask(u) /\ u.file = t.file /\ u.epoch = t.epoch
        BY <1>1, StepTaken
      <3> HIDE DEF u
      <3>. QED
        BY <3>1, <3>2, PrepStep
    <2>. QED
      BY <1>2, <2>1, <2>2, <2>3
  <1>3. ASSUME NEW t \in tasks, FindPath(t) \/ OpenFile(t) \/ Sent(t)
        PROVE  UpInv'
    <2>1. PICK step \in {"open", "unparked", "send", "gone", "done"} :
             /\ tasks' = (tasks \ {t}) \cup {[t EXCEPT !.step = step]}
             /\ parked' = parked \/ (parked' = parked \ {t.file} /\ t.step = "find")
             /\ step = "unparked" => t.step = "find" /\ t.file \notin parked
             /\ UNCHANGED <<epoch, wanted, requests, replies, prep>>
      <3>1. CASE FindPath(t)
        BY <3>1 DEF FindPath, Goes
      <3>2. CASE OpenFile(t)
        BY <3>2 DEF OpenFile, Goes
      <3>3. CASE Sent(t)
        BY <3>3 DEF Sent, Goes
      <3>. QED
        BY <1>3, <3>1, <3>2, <3>3
    <2> DEFINE u == [t EXCEPT !.step = step]
    <2>2. UploadTask(u) /\ u.file = t.file /\ u.epoch = t.epoch /\ u.step = step
      BY <1>1, StepTaken
    <2>3. u.step # "find"
      BY <2>2
    <2>4. tasks' = (tasks \ {t}) \cup {u}
      BY <2>1
    <2> HIDE DEF u
    <2>. QED
      BY <2>1, <2>2, <2>3, <2>4, TaskStep
  <1>. QED
    BY <1>2, <1>3, UploadAsked, RequestStep, AnswerStep, HearStep, EndStep DEF UploadNext

\* Two places of a sequence that hold the file are two elements of the set counted.
LEMMA OnceIsNotTwice ==
    ASSUME wanted \in Seq(Files), NEW f, AskedOnce(f)
    PROVE  ~Twice(f)
  <1> DEFINE S == {i \in DOMAIN wanted : wanted[i] = f}
  <1>1. Cardinality(S) = 1
    BY DEF AskedOnce
  <1> HIDE DEF S
  <1>2. IsFiniteSet(S)
    BY FS_Interval, FS_Subset DEF S
  <1>3. \E x : S = {x}
    BY <1>1, <1>2, FS_Singleton
  <1>. QED
    BY <1>3 DEF Twice, S

\* ClientTransfers, any files and any number of sessions: the panic of file::upload
\* cannot happen in the session the approval belongs to, if its file was asked for
\* once.
THEOREM ApprovalFinds == MoveSpec => []ApprovalFindsFile
  <1>1. MoveInit => UpInv
    BY UploadsBegin
  <1>2. UpInv /\ [UploadNext \/ DownloadNext]_moveVars => UpInv'
    <2> SUFFICES ASSUME UpInv, [UploadNext \/ DownloadNext]_moveVars PROVE UpInv'
      OBVIOUS
    <2>1. CASE UploadNext
      BY <2>1, UploadStep
    <2>2. CASE DownloadNext \/ UNCHANGED moveVars
      <3>1. UNCHANGED <<epoch, prep, parked, requests, replies, tasks, wanted>>
        <4>1. UNCHANGED moveVars \/ UNCHANGED uploadVars
          <5>1. \A d \in Downloads : SendChunk(d) \/ CutOff(d) => UNCHANGED uploadVars
            BY DEF SendChunk, CutOff
          <5>2. \A d \in Downloads, sound \in BOOLEAN : Create(d, sound) => UNCHANGED uploadVars
            BY DEF Create
          <5>3. ASSUME NEW d \in Downloads, NEW written \in BOOLEAN, ReadChunk(d, written)
                PROVE  UNCHANGED uploadVars
            BY <5>3 DEF ReadChunk
          <5>. QED
            BY <2>2, <5>1, <5>2, <5>3 DEF DownloadNext
        <4>. QED
          BY <4>1 DEF uploadVars, moveVars
      <3>2. \A g : /\ Twice(g)' = Twice(g) /\ Asked(g)' = Asked(g) /\ InPrep(g)' = InPrep(g)
                   /\ InTasks(g)' = InTasks(g) /\ InRequests(g)' = InRequests(g) /\ InReplies(g)' = InReplies(g)
        BY <3>1 DEF Twice, Asked, InPrep, InRequests, InReplies, InTasks
      <3>3. UploadsTyped' /\ OnePlace' /\ ParkedFirst' /\ Found'
        BY <3>1, <3>2 DEF UpInv, UploadsTyped, OnePlace, ParkedFirst, Found
      <3>. QED
        BY <3>3 DEF UpInv
    <2>. QED
      BY <2>1, <2>2
  <1>3. UpInv => ApprovalFindsFile
    BY OnceIsNotTwice DEF UpInv, UploadsTyped, Found, ApprovalFindsFile
  <1>. QED
    BY <1>1, <1>2, <1>3, PTL DEF MoveSpec

-----------------------------------------------------------------------------
(* ClientTransfers: downloads.                                             *)

Pieces == Seq(Downloads \X Nat)
DownloadTask ==
    [step : {"idle", "reading", "over"}, sound : BOOLEAN, sent : Nat, wire : Pieces, hashed : Pieces,
     alone : BOOLEAN, whole : BOOLEAN, row : {"none", "running", "ok", "failed"}]

DownloadsTyped == down \in [Downloads -> DownloadTask]

\* While a download runs its row says so, and two that run are not alone.
RowsRun == \A d \in Downloads : Running(d) => down[d].row = "running"
OneAlone == \A d, e \in Downloads : Running(d) /\ Running(e) /\ down[d].alone => d = e
\* What a download that runs alone has hashed is what the file holds.
DiskIsHashed == \A d \in Downloads : Running(d) /\ down[d].alone => disk = down[d].hashed

DownInv == DownloadsTyped /\ RowsRun /\ OneAlone /\ DiskIsHashed /\ DownloadedIsWhole

\* One task changes, and stays alone or not alone.
LEMMA OneDownload ==
    ASSUME DownInv, NEW d \in Downloads, Running(d), NEW q \in DownloadTask, q.alone = down[d].alone,
           down' = [down EXCEPT ![d] = q],
           q.step = "reading" => q.row = "running",
           q.step = "reading" /\ q.alone => disk' = q.hashed,
           q.alone /\ q.row = "ok" => q.whole, q.alone /\ q.row = "failed" => ~q.whole
    PROVE  DownInv'
  <1>0. DownloadsTyped /\ RowsRun /\ OneAlone /\ DiskIsHashed /\ DownloadedIsWhole
    BY DEF DownInv
  <1>1. DownloadsTyped'
    BY <1>0 DEF DownloadsTyped
  <1>2. down'[d] = q /\ \A e \in Downloads \ {d} : down'[e] = down[e]
    BY <1>0 DEF DownloadsTyped
  <1>3. \A e \in Downloads : Running(e)' => Running(e)
    BY <1>2 DEF Running
  <1>4. \A e \in Downloads : down'[e].alone = down[e].alone
    BY <1>2
  <1>5. RowsRun'
    BY <1>0, <1>2 DEF RowsRun, Running
  <1>6. OneAlone'
    BY <1>0, <1>3, <1>4 DEF OneAlone
  <1>7. DiskIsHashed'
    BY <1>0, <1>2, <1>3, <1>4 DEF DiskIsHashed, OneAlone, Running
  <1>8. DownloadedIsWhole'
    BY <1>0, <1>2 DEF DownloadedIsWhole
  <1>. QED
    BY <1>1, <1>5, <1>6, <1>7, <1>8 DEF DownInv

\* A download opens its file: one that finds another one running is not alone, and
\* neither is the other.
LEMMA CreateStep ==
    ASSUME DownInv, NEW d \in Downloads, NEW sound \in BOOLEAN, Create(d, sound)
    PROVE  DownInv'
  <1> DEFINE others == {e \in Downloads : Running(e)}
             q == [Unstarted EXCEPT !.step = "reading", !.sound = sound, !.alone = others = {}, !.row = "running"]
  <1>0. DownloadsTyped /\ RowsRun /\ OneAlone /\ DiskIsHashed /\ DownloadedIsWhole
    BY DEF DownInv
  <1>1. /\ down' = [e \in Downloads |-> IF e = d THEN q
                                        ELSE IF e \in others THEN [down[e] EXCEPT !.alone = FALSE] ELSE down[e]]
        /\ disk' = <<>> /\ ~Running(d)
    BY DEF Create, Running
  <1>2. Unstarted \in DownloadTask /\ Unstarted.hashed = <<>>
    BY DEF Unstarted, DownloadTask, Pieces
  <1>3. /\ q \in DownloadTask /\ q.step = "reading" /\ q.row = "running" /\ q.hashed = <<>>
        /\ q.alone = (others = {})
    BY <1>2 DEF DownloadTask
  <1> HIDE DEF q
  <1>4. \A e \in Downloads : LET r == [down[e] EXCEPT !.alone = FALSE] IN
            r \in DownloadTask /\ r.step = down[e].step /\ r.row = down[e].row /\ r.alone = FALSE
    BY <1>0 DEF DownloadsTyped, DownloadTask
  <1>5. down'[d] = q
    BY <1>1
  <1>6. \A e \in Downloads : e # d /\ e \notin others => down'[e] = down[e]
    BY <1>1
  <1>7. \A e \in others : /\ e # d /\ down'[e] \in DownloadTask /\ down'[e].step = down[e].step
                          /\ down'[e].row = down[e].row /\ down'[e].alone = FALSE
    BY <1>1, <1>4
  <1>8. \A e \in Downloads : Running(e)' => e = d \/ e \in others
    BY <1>6 DEF Running
  <1>9. DownloadsTyped'
    BY <1>0, <1>1, <1>3, <1>4 DEF DownloadsTyped
  <1>10. RowsRun'
    BY <1>0, <1>3, <1>5, <1>7, <1>8 DEF RowsRun
  <1>11. OneAlone'
    BY <1>3, <1>5, <1>7, <1>8 DEF OneAlone
  <1>12. DiskIsHashed'
    BY <1>1, <1>3, <1>5, <1>7, <1>8 DEF DiskIsHashed
  <1>13. DownloadedIsWhole'
    BY <1>0, <1>3, <1>5, <1>6, <1>7 DEF DownloadedIsWhole
  <1>. QED
    BY <1>9, <1>10, <1>11, <1>12, <1>13 DEF DownInv

\* The server sends a chunk.
LEMMA SendStep ==
    ASSUME DownInv, NEW d \in Downloads, SendChunk(d)
    PROVE  DownInv'
  <1> PICK n : n = down[d].sent + 1
    OBVIOUS
  <1> PICK c : c = IF n = Chunks /\ ~down[d].sound THEN <<d, 0>> ELSE <<d, n>>
    OBVIOUS
  <1> PICK w : w = Append(down[d].wire, c)
    OBVIOUS
  <1> DEFINE q == [down[d] EXCEPT !.sent = n, !.wire = w]
  <1>0. DownloadsTyped /\ down[d] \in DownloadTask /\ RowsRun /\ DiskIsHashed /\ DownloadedIsWhole
    BY DEF DownInv, DownloadsTyped
  <1>1. Running(d) /\ disk' = disk /\ down' = [down EXCEPT ![d].sent = n, ![d].wire = w]
    BY <1>0 DEF SendChunk, DownloadsTyped
  <1>2. n \in Nat /\ w \in Pieces
    BY <1>0 DEF DownloadTask, Pieces
  <1>3. /\ q \in DownloadTask /\ q.alone = down[d].alone /\ q.step = down[d].step
        /\ q.row = down[d].row /\ q.hashed = down[d].hashed /\ q.whole = down[d].whole
    BY <1>0, <1>2 DEF DownloadTask
  <1>4. down' = [down EXCEPT ![d] = q]
    BY <1>0, <1>1 DEF DownloadsTyped
  <1> HIDE DEF q
  <1>5. q.row = "running"
    BY <1>0, <1>1, <1>3 DEF RowsRun
  <1>6. q.alone => disk' = q.hashed
    BY <1>0, <1>1, <1>3 DEF DiskIsHashed
  <1>. QED
    BY <1>1, <1>3, <1>4, <1>5, <1>6, OneDownload

\* The stream of a download is cut off.
LEMMA CutStep ==
    ASSUME DownInv, NEW d \in Downloads, CutOff(d)
    PROVE  DownInv'
  <1> DEFINE q == [down[d] EXCEPT !.step = "over", !.wire = <<>>]
  <1>0. DownloadsTyped /\ down[d] \in DownloadTask /\ DownloadedIsWhole
    BY DEF DownInv, DownloadsTyped
  <1>1. Running(d) /\ disk' = disk /\ down' = [down EXCEPT ![d].step = "over", ![d].wire = <<>>]
    BY DEF CutOff, Running
  <1>2. <<>> \in Pieces
    BY DEF Pieces
  <1>3. /\ q \in DownloadTask /\ q.alone = down[d].alone /\ q.step = "over"
        /\ q.row = down[d].row /\ q.whole = down[d].whole
    BY <1>0, <1>2 DEF DownloadTask
  <1>4. down' = [down EXCEPT ![d] = q]
    BY <1>0, <1>1 DEF DownloadsTyped
  <1> HIDE DEF q
  <1>. QED
    BY <1>0, <1>1, <1>3, <1>4, OneDownload DEF DownloadedIsWhole

\* Writing a chunk behind the last one makes the file longer by it.
LEMMA WritesAppends ==
    ASSUME NEW S, NEW file \in Seq(S), NEW c \in S
    PROVE  Writes(file, Len(file) + 1, c) = Append(file, c)
  <1> DEFINE n == Len(file) + 1
             w == Writes(file, n, c)
  <1>1. n \in Nat /\ n > Len(file) /\ Len(file) \in Nat
    OBVIOUS
  <1>2. \A i \in 1..n : i # n => i <= Len(file) /\ i \in 1..Len(file)
    BY <1>1
  <1>3. w = [i \in 1..n |-> IF i = n THEN c ELSE file[i]]
    BY <1>1, <1>2 DEF Writes
  <1>4. \A i \in 1..n : w[i] \in S
    BY <1>1, <1>2, <1>3
  <1>5. w \in Seq(S) /\ Len(w) = n
    BY <1>1, <1>3, <1>4
  <1>6. Append(file, c) \in Seq(S) /\ Len(Append(file, c)) = n
    BY <1>1
  <1>7. \A i \in 1..n : w[i] = Append(file, c)[i]
    BY <1>1, <1>2, <1>3
  <1> HIDE DEF w
  <1>8. w = Append(file, c)
    BY <1>5, <1>6, <1>7, SeqEqual
  <1>. QED
    BY <1>8 DEF w

\* A chunk is hashed and written, or writing fails and the row with it.
LEMMA ReadStep ==
    ASSUME DownInv, NEW d \in Downloads, NEW written \in BOOLEAN, ReadChunk(d, written)
    PROVE  DownInv'
  <1>0. DownloadsTyped /\ down[d] \in DownloadTask /\ RowsRun /\ DiskIsHashed
    BY DEF DownInv, DownloadsTyped
  <1>1. PICK c : c = Head(down[d].wire)
    OBVIOUS
  <1>2. PICK h : h = IF written THEN Append(down[d].hashed, c) ELSE down[d].hashed
    OBVIOUS
  <1>3. PICK full \in BOOLEAN : full = (written /\ Len(h) = Chunks)
    OBVIOUS
  <1>4. PICK w : w = Tail(down[d].wire)
    OBVIOUS
  <1>5. PICK s : s = IF full THEN "over" ELSE down[d].step
    OBVIOUS
  <1>6. PICK r : r = IF ~full THEN down[d].row ELSE IF h = Whole(d) THEN "ok" ELSE "failed"
    OBVIOUS
  <1>7. PICK x \in BOOLEAN : x = (disk' = Whole(d))
    OBVIOUS
  <1> DEFINE q == [down[d] EXCEPT !.wire = w, !.hashed = h, !.step = s, !.row = r, !.whole = x]
  <1>8. /\ down[d].step = "reading" /\ down[d].wire # <<>>
        /\ disk' = IF written THEN Writes(disk, Len(down[d].hashed) + 1, c) ELSE disk
    BY <1>1 DEF ReadChunk, Counted
  <1>9. down' = [down EXCEPT ![d].wire = w, ![d].hashed = h, ![d].step = s, ![d].row = r, ![d].whole = x]
    BY <1>0, <1>1, <1>2, <1>3, <1>4, <1>5, <1>6, <1>7 DEF ReadChunk, Counted, DownloadsTyped
  <1>10. down[d].wire \in Pieces /\ down[d].hashed \in Pieces
    BY <1>0 DEF DownloadTask
  <1>11. c \in Downloads \X Nat /\ h \in Pieces /\ w \in Pieces
    BY <1>1, <1>2, <1>4, <1>8, <1>10 DEF Pieces
  <1>12. down[d].row = "running"
    BY <1>0, <1>8 DEF RowsRun, Running
  <1>13. s \in {"reading", "over"} /\ r \in {"running", "ok", "failed"}
    BY <1>5, <1>6, <1>8, <1>12
  <1>14. q \in DownloadTask /\ q.alone = down[d].alone /\ q.step = s /\ q.row = r /\ q.hashed = h
    BY <1>0, <1>11, <1>13 DEF DownloadTask
  <1>15. q.whole = x
    BY <1>0, <1>11, <1>13 DEF DownloadTask
  <1>16. down' = [down EXCEPT ![d] = q]
    BY <1>0, <1>9 DEF DownloadsTyped
  <1> HIDE DEF q
  <1>17. ASSUME down[d].alone PROVE disk' = h
    <2>1. disk = down[d].hashed
      BY <1>0, <1>8, <1>17 DEF DiskIsHashed, Running
    <2>2. down[d].hashed \in Seq(Downloads \X Nat)
      BY <1>10 DEF Pieces
    <2>. QED
      BY <1>2, <1>8, <1>11, <2>1, <2>2, WritesAppends
  <1>18. q.step = "reading" => q.row = "running"
    BY <1>5, <1>6, <1>12, <1>14
  <1>19. q.step = "reading" /\ q.alone => disk' = q.hashed
    BY <1>14, <1>17
  <1>20. (q.alone /\ q.row = "ok" => q.whole) /\ (q.alone /\ q.row = "failed" => ~q.whole)
    <2> SUFFICES ASSUME q.alone PROVE (q.row = "ok" => q.whole) /\ (q.row = "failed" => ~q.whole)
      OBVIOUS
    <2>1. disk' = h
      BY <1>14, <1>17
    <2>2. (r = "ok" => h = Whole(d)) /\ (r = "failed" => h # Whole(d))
      BY <1>6, <1>12
    <2>. QED
      BY <1>7, <1>14, <1>15, <2>1, <2>2
  <1>21. Running(d)
    BY <1>8 DEF Running
  <1>. QED
    BY <1>14, <1>16, <1>18, <1>19, <1>20, <1>21, OneDownload

\* ClientTransfers, any number of downloads and chunks: the row of file::download
\* that ends well stands for a file that holds every chunk, and one that ends badly
\* for a file that does not, unless two downloads write to one name.
THEOREM DownloadWhole == MoveSpec => []DownloadedIsWhole
  <1>1. MoveInit => DownInv
    <2> SUFFICES ASSUME MoveInit PROVE DownInv
      OBVIOUS
    <2>1. \A d \in Downloads : down[d] = Unstarted
      BY DEF MoveInit
    <2>2. Unstarted \in DownloadTask /\ Unstarted.step = "idle" /\ Unstarted.row = "none"
      BY DEF DownloadTask, Pieces, Unstarted
    <2>3. DownloadsTyped
      BY <2>2 DEF DownloadsTyped, MoveInit
    <2>. QED
      BY <2>1, <2>2, <2>3 DEF DownInv, RowsRun, OneAlone, DiskIsHashed, DownloadedIsWhole, Running
  <1>2. DownInv /\ [UploadNext \/ DownloadNext]_moveVars => DownInv'
    <2> SUFFICES ASSUME DownInv, [UploadNext \/ DownloadNext]_moveVars PROVE DownInv'
      OBVIOUS
    <2>1. CASE DownloadNext
      BY <2>1, CreateStep, SendStep, CutStep, ReadStep DEF DownloadNext
    <2>2. CASE UploadNext \/ UNCHANGED moveVars
      <3>1. UNCHANGED <<down, disk>>
        <4>1. UploadNext => UNCHANGED downloadVars
          BY DEF UploadNext, AskUpload, CheckFails, Prepare, Park, Request, Answer, Hear, EndSession,
                 FindPath, OpenFile, Sent
        <4>. QED
          BY <2>2, <4>1 DEF downloadVars, moveVars
      <3>2. DownloadsTyped' /\ RowsRun' /\ OneAlone' /\ DiskIsHashed' /\ DownloadedIsWhole'
        BY <3>1 DEF DownInv, DownloadsTyped, RowsRun, OneAlone, DiskIsHashed, DownloadedIsWhole, Running
      <3>. QED
        BY <3>2 DEF DownInv
    <2>. QED
      BY <2>1, <2>2
  <1>3. DownInv => DownloadedIsWhole
    BY DEF DownInv
  <1>. QED
    BY <1>1, <1>2, <1>3, PTL DEF MoveSpec

-----------------------------------------------------------------------------
(* Commands.                                                               *)

\* What is asked under a role that does not suffice is a /pin that was not offered.
Permitted(a) == a.under < Needs(a.packet) => a.packet = "PinRequest" /\ ~a.offered

AskedPermitted(s) == s \in Seq({s[i] : i \in DOMAIN s}) /\ \A i \in DOMAIN s : Permitted(s[i])

OfferInv == AskedPermitted(asked) /\ OfferedIsAllowed

\* A permitted request is queued behind the others.
LEMMA AskedAdds ==
    ASSUME NEW s, AskedPermitted(s), NEW a, Permitted(a)
    PROVE  AskedPermitted(Append(s, a))
  <1> DEFINE S == {s[i] : i \in DOMAIN s} \cup {a}
  <1>1. s \in Seq(S) /\ a \in S
    <2>1. s \in Seq({s[i] : i \in DOMAIN s})
      BY DEF AskedPermitted
    <2>. QED
      BY <2>1
  <1> HIDE DEF S
  <1> DEFINE t == Append(s, a)
  <1>2. /\ t \in Seq(S) /\ Len(s) \in Nat /\ DOMAIN s = 1..Len(s) /\ DOMAIN t = 1..(Len(s) + 1)
        /\ \A i \in 1..Len(s) : t[i] = s[i]
        /\ t[Len(s) + 1] = a
    BY <1>1
  <1> HIDE DEF t
  <1>3. t \in Seq({t[i] : i \in DOMAIN t})
    BY <1>2
  <1>4. \A i \in DOMAIN t : Permitted(t[i])
    BY <1>2 DEF AskedPermitted
  <1>5. AskedPermitted(t)
    BY <1>3, <1>4 DEF AskedPermitted
  <1>. QED
    BY <1>5 DEF t

\* A request is taken from the queue.
LEMMA AskedServed ==
    ASSUME NEW s, AskedPermitted(s), s # <<>>
    PROVE  AskedPermitted(Tail(s)) /\ Permitted(Head(s))
  <1> DEFINE S == {s[i] : i \in DOMAIN s}
  <1>1. s \in Seq(S)
    BY DEF AskedPermitted
  <1> HIDE DEF S
  <1> DEFINE t == Tail(s)
  <1>2. /\ t \in Seq(S) /\ Len(s) \in Nat /\ DOMAIN s = 1..Len(s) /\ DOMAIN t = 1..(Len(s) - 1)
        /\ \A i \in 1..(Len(s) - 1) : t[i] = s[i + 1]
        /\ Head(s) = s[1] /\ 1 \in DOMAIN s
    BY <1>1
  <1> HIDE DEF t
  <1>3. t \in Seq({t[i] : i \in DOMAIN t})
    BY <1>2
  <1>4. ASSUME NEW i \in DOMAIN t
        PROVE  Permitted(t[i])
    <2>1. i + 1 \in DOMAIN s /\ t[i] = s[i + 1]
      BY <1>2
    <2>. QED
      BY <2>1 DEF AskedPermitted
  <1>5. AskedPermitted(t)
    BY <1>3, <1>4 DEF AskedPermitted
  <1>. QED
    BY <1>2, <1>5 DEF t, AskedPermitted

\* No request.
LEMMA NothingAsked == AskedPermitted(<<>>)
  BY DEF AskedPermitted

\* Nothing was refused yet.
LEMMA UntriedAllowed == outcome = Untried => OfferedIsAllowed
  BY DEF Untried, OfferedIsAllowed

\* A line is submitted: the tables agree, so what it asks for is permitted.
LEMMA SubmitStep ==
    ASSUME OfferInv, Submit
    PROVE  OfferInv'
  <1>1. PICK e \in Effects : /\ e.role = known
                             /\ asked' = IF e.does \in {"usage", "local", "panic"} THEN asked
                                         ELSE Append(asked, [packet |-> e.does, under |-> known,
                                                             offered |-> e.offered])
    BY DEF Submit
  <1> PICK a : a = [packet |-> e.does, under |-> known, offered |-> e.offered]
    OBVIOUS
  <1>2. a.packet = e.does /\ a.under = known /\ a.offered = e.offered
    OBVIOUS
  <1>3. Permitted(a)
    BY <1>1, <1>2, TablesAgree DEF Permitted
  <1>4. AskedPermitted(asked) /\ (asked' = asked \/ asked' = Append(asked, a))
    BY <1>1 DEF OfferInv
  <1>5. AskedPermitted(asked')
    BY <1>3, <1>4, AskedAdds
  <1>6. outcome' = Untried
    BY DEF Submit
  <1>7. OfferedIsAllowed'
    BY <1>6 DEF Untried, OfferedIsAllowed
  <1>. QED
    BY <1>5, <1>7 DEF OfferInv

\* The server's handler reads the role as it is now.
LEMMA ServeStep ==
    ASSUME OfferInv, Serve
    PROVE  OfferInv'
  <1>1. AskedPermitted(asked) /\ asked # <<>>
    BY DEF OfferInv, Serve
  <1>2. AskedPermitted(Tail(asked)) /\ Permitted(Head(asked))
    BY <1>1, AskedServed
  <1>3. asked' = <<>> \/ asked' = Tail(asked)
    BY DEF Serve
  <1>4. AskedPermitted(asked')
    BY <1>2, <1>3, NothingAsked
  <1> PICK a : a = Head(asked)
    OBVIOUS
  <1>5. outcome' = [packet |-> a.packet, offered |-> a.offered, under |-> a.under, live |-> live,
                    refused |-> live < Needs(a.packet)]
    BY DEF Serve, RoleOfPacket
  <1>6. /\ outcome'.packet = a.packet /\ outcome'.offered = a.offered /\ outcome'.under = a.under
        /\ outcome'.live = live /\ outcome'.refused = (live < Needs(a.packet))
    BY <1>5
  <1>7. OfferedIsAllowed'
    BY <1>2, <1>6 DEF OfferedIsAllowed, Permitted
  <1>. QED
    BY <1>4, <1>7 DEF OfferInv

\* Commands, every line, role and change of role: a command the palette offers is not
\* refused for the role by a server that holds the role it was offered under; only a
\* /pin that was not offered is.
THEOREM OffersAllowed == CommandsSpec => []OfferedIsAllowed
  <1>1. CommandsInit => OfferInv
    BY NothingAsked, UntriedAllowed DEF CommandsInit, OfferInv
  <1>2. OfferInv /\ [CommandsNext]_commandVars => OfferInv'
    <2>. SUFFICES ASSUME OfferInv, [CommandsNext]_commandVars PROVE OfferInv'
      OBVIOUS
    <2>1. CASE UNCHANGED <<asked, outcome>>
      BY <2>1 DEF OfferInv, OfferedIsAllowed
    <2>2. CASE asked' = <<>> /\ UNCHANGED outcome
      BY <2>2, NothingAsked DEF OfferInv, OfferedIsAllowed
    <2>3. CASE Drop \/ Disconnected
      BY <2>2, <2>3 DEF Drop, Disconnected
    <2>4. CASE Enter \/ Accept \/ WriteCopy \/ Listen \/ UNCHANGED commandVars \/ \E r \in Roles : Rank(r)
      BY <2>1, <2>4 DEF Enter, Accept, WriteCopy, Listen, commandVars, Rank
    <2>. QED
      BY <2>3, <2>4, SubmitStep, ServeStep DEF CommandsNext
  <1>3. OfferInv => OfferedIsAllowed
    BY DEF OfferInv
  <1>. QED
    BY <1>1, <1>2, <1>3, PTL DEF CommandsSpec

-----------------------------------------------------------------------------
(* InputLine.                                                              *)

Texts == Seq(Chars)

\* The cursor and the search stay inside what they point into, and while a sent
\* line is shown the line parked is the one that stood when the search began.
LineInv ==
    /\ text \in Texts /\ cursor \in 0..Len(text) /\ draft \in Texts
    /\ sent \in Seq(Texts) /\ pos \in 0..Len(sent)
    /\ stash \in {<<>>} \cup {<<t>> : t \in Texts}
    /\ pos < Len(sent) => stash = <<draft>>

\* A set of naturals has a least member.
LEMMA LeastIs ==
    ASSUME NEW T \in SUBSET Nat, T # {}
    PROVE  \E x \in T : \A y \in T : x <= y
  <1> DEFINE R == OpToRel(<, Nat)
  <1>1. \A x, y \in Nat : x < y => <<x, y>> \in R
    BY DEF OpToRel
  <1>2. IsWellFoundedOn(R, Nat)
    BY NatLessThanWellFounded
  <1>. HIDE DEF R
  <1>3. PICK x \in T : \A y \in T : ~(<<y, x>> \in R)
    BY <1>2, WFMin
  <1>4. \A y \in T : ~(y < x)
    BY <1>1, <1>3
  <1>. QED
    BY <1>3, <1>4

\* The least position of a set, or the default.
LEMMA FirstIs ==
    ASSUME NEW S \in SUBSET Nat, NEW d
    PROVE  /\ S = {} => First_(S, d) = d
           /\ S # {} => First_(S, d) \in S
  <1>1. CASE S = {}
    BY <1>1 DEF First_
  <1>2. CASE S # {}
    <2>1. \E x \in S : \A y \in S : x <= y
      BY <1>2, LeastIs
    <2>. QED
      BY <1>2, <2>1 DEF First_
  <1>. QED
    BY <1>1, <1>2

\* The greatest position of a set, or the default.
LEMMA LastIs ==
    ASSUME NEW n \in Nat, NEW S \in SUBSET (0..n), NEW d
    PROVE  /\ S = {} => Last_(S, d) = d
           /\ S # {} => Last_(S, d) \in S
  <1>1. CASE S = {}
    BY <1>1 DEF Last_
  <1>2. CASE S # {}
    <2>1. PICK T : T = {k \in Nat : n - k \in S}
      OBVIOUS
    <2>2. PICK i \in S : TRUE
      BY <1>2
    <2>3. i \in Nat /\ n - i \in Nat /\ n - (n - i) = i
      BY <2>2
    <2>4. T \in SUBSET Nat /\ T # {}
      BY <2>1, <2>2, <2>3
    <2>5. PICK x \in T : \A y \in T : x <= y
      BY <2>4, LeastIs
    <2>6. x \in Nat /\ n - x \in S
      BY <2>1, <2>5
    <2>7. \A j \in S : j <= n - x
      <3> SUFFICES ASSUME NEW j \in S PROVE j <= n - x
        OBVIOUS
      <3>1. j \in Nat /\ j <= n
        OBVIOUS
      <3>2. n - j \in Nat /\ n - (n - j) = j
        BY <3>1
      <3>3. n - j \in T
        BY <2>1, <3>2
      <3>4. x <= n - j
        BY <2>5, <3>3
      <3>. QED
        BY <2>6, <3>1, <3>4
    <2>. QED
      BY <1>2, <2>6, <2>7 DEF Last_
  <1>. QED
    BY <1>1, <1>2

\* Where the line of a position begins and ends.
LEMMA LineBounds ==
    ASSUME text \in Texts
    PROVE  /\ \A p \in Nat : LineStart(p) \in 0..p
           /\ \A p \in 0..Len(text) : LineEnd(p) \in p..Len(text)
  <1>0. Len(text) \in Nat
    BY LenProperties DEF Texts
  <1>1. ASSUME NEW p \in Nat PROVE LineStart(p) \in 0..p
    <2>1. PICK S : S = {i \in 1..p : text[i] = "nl"}
      OBVIOUS
    <2>2. S \in SUBSET (0..p)
      BY <2>1
    <2>3. Last_(S, 0) \in 0..p
      <3>1. Last_(S, 0) \in S \/ Last_(S, 0) = 0
        BY <2>2, LastIs
      <3>2. 0 \in 0..p
        BY <1>1
      <3>. QED
        BY <2>2, <3>1, <3>2
    <2>. QED
      BY <2>1, <2>3 DEF LineStart
  <1>2. ASSUME NEW p \in 0..Len(text) PROVE LineEnd(p) \in p..Len(text)
    <2>1. PICK S : S = {i \in p + 1..Len(text) : text[i] = "nl"}
      OBVIOUS
    <2>2. S \in SUBSET Nat /\ S \subseteq p + 1..Len(text)
      BY <1>0, <2>1
    <2>3. PICK f : f = First_(S, Len(text) + 1)
      OBVIOUS
    <2>4. f \in p + 1..Len(text) \/ f = Len(text) + 1
      BY <2>2, <2>3, FirstIs
    <2>5. f - 1 \in p..Len(text)
      BY <1>0, <2>4
    <2>. QED
      BY <2>1, <2>3, <2>5 DEF LineEnd
  <1>. QED
    BY <1>1, <1>2

\* Where the words around the cursor begin and end.
LEMMA WordBounds ==
    ASSUME text \in Texts, cursor \in 0..Len(text)
    PROVE  WordStart \in 0..cursor /\ WordEnd \in 0..Len(text)
  <1>0. Len(text) \in Nat /\ cursor \in Nat
    <2>1. Len(text) \in Nat
      BY LenProperties DEF Texts
    <2>. QED
      BY <2>1
  <1>1. WordStart \in 0..cursor
    <2>1. PICK S : S = {i \in 1..cursor : ~Blank(text[i])}
      OBVIOUS
    <2>2. PICK l : l = Last_(S, 0)
      OBVIOUS
    <2>3. S \in SUBSET (0..cursor)
      BY <1>0, <2>1
    <2>4. l \in 0..cursor
      <3>1. l \in S \/ l = 0
        BY <1>0, <2>2, <2>3, LastIs
      <3>2. 0 \in 0..cursor
        BY <1>0
      <3>. QED
        BY <2>3, <3>1, <3>2
    <2>5. PICK U : U = {i \in 1..l : Blank(text[i])}
      OBVIOUS
    <2>6. U \in SUBSET (0..cursor)
      BY <1>0, <2>4, <2>5
    <2>7. Last_(U, 0) \in 0..cursor
      <3>1. Last_(U, 0) \in U \/ Last_(U, 0) = 0
        BY <1>0, <2>6, LastIs
      <3>2. 0 \in 0..cursor
        BY <1>0
      <3>. QED
        BY <2>6, <3>1, <3>2
    <2>. QED
      BY <2>1, <2>2, <2>5, <2>7 DEF WordStart
  <1>2. WordEnd \in 0..Len(text)
    <2>1. PICK S : S = {i \in cursor + 1..Len(text) : ~Blank(text[i])}
      OBVIOUS
    <2>2. PICK l : l = First_(S, Len(text))
      OBVIOUS
    <2>3. S \in SUBSET Nat /\ S \subseteq 0..Len(text)
      BY <1>0, <2>1
    <2>4. l \in 0..Len(text)
      <3>1. l \in S \/ l = Len(text)
        BY <2>2, <2>3, FirstIs
      <3>2. Len(text) \in 0..Len(text)
        BY <1>0
      <3>. QED
        BY <2>3, <3>1, <3>2
    <2>5. PICK U : U = {i \in l + 1..Len(text) : Blank(text[i])}
      OBVIOUS
    <2>6. U \in SUBSET Nat /\ U \subseteq 1..Len(text)
      BY <1>0, <2>4, <2>5
    <2>7. PICK f : f = First_(U, Len(text) + 1)
      OBVIOUS
    <2>8. f \in 1..Len(text) \/ f = Len(text) + 1
      BY <2>6, <2>7, FirstIs
    <2>9. f - 1 \in 0..Len(text)
      BY <1>0, <2>8
    <2>. QED
      BY <2>1, <2>2, <2>5, <2>7, <2>9 DEF WordEnd
  <1>. QED
    BY <1>1, <1>2

\* What is left of a line when characters are cut out of it.
LEMMA CutIs ==
    ASSUME text \in Texts, NEW m \in 0..Len(text), NEW n \in 0..Len(text), m <= n
    PROVE  Cut(m, n) \in Texts /\ Len(Cut(m, n)) = m + (Len(text) - n)
  <1>0. Len(text) \in Nat
    BY LenProperties DEF Texts
  <1>1. PICK x : x = SubSeq(text, 1, m)
    OBVIOUS
  <1>2. PICK y : y = SubSeq(text, n + 1, Len(text))
    OBVIOUS
  <1>3. x \in Seq(Chars) /\ Len(x) = m
    <2>1. x \in Seq(Chars) /\ Len(x) = (IF 1 <= m THEN m - 1 + 1 ELSE 0)
      BY <1>0, <1>1, SubSeqProperties DEF Texts
    <2>. QED
      BY <1>0, <2>1
  <1>4. y \in Seq(Chars) /\ Len(y) = Len(text) - n
    <2>1. y \in Seq(Chars) /\ Len(y) = (IF n + 1 <= Len(text) THEN Len(text) - (n + 1) + 1 ELSE 0)
      BY <1>0, <1>2, SubSeqProperties DEF Texts
    <2>. QED
      BY <1>0, <2>1
  <1>5. Cut(m, n) = x \o y
    BY <1>1, <1>2 DEF Cut
  <1>. QED
    BY <1>3, <1>4, <1>5, ConcatProperties DEF Texts

\* A trimmed line is a line.
LEMMA TrimIs ==
    ASSUME NEW t \in Texts
    PROVE  Trim(t) \in Texts
  <1>0. Len(t) \in Nat /\ DOMAIN t = 1..Len(t)
    BY LenProperties DEF Texts
  <1>1. PICK S : S = {i \in DOMAIN t : ~Blank(t[i])}
    OBVIOUS
  <1>2. S \in SUBSET Nat /\ S \in SUBSET (0..Len(t)) /\ S \subseteq 1..Len(t)
    BY <1>0, <1>1
  <1>3. PICK m : m = First_(S, 1)
    OBVIOUS
  <1>4. PICK n : n = Last_(S, 0)
    OBVIOUS
  <1>5. m \in 1..Len(t) + 1
    <2>1. m \in S \/ m = 1
      BY <1>2, <1>3, FirstIs
    <2>2. \A k \in 1..Len(t) : k \in 1..Len(t) + 1
      BY <1>0
    <2>3. 1 \in 1..Len(t) + 1
      BY <1>0
    <2>. QED
      BY <1>2, <2>1, <2>2, <2>3
  <1>6. n \in 0..Len(t)
    <2>1. n \in S \/ n = 0
      BY <1>0, <1>2, <1>4, LastIs
    <2>2. 0 \in 0..Len(t)
      BY <1>0
    <2>. QED
      BY <1>2, <2>1, <2>2
  <1>7. Trim(t) = SubSeq(t, m, n)
    BY <1>1, <1>3, <1>4 DEF Trim
  <1>8. SubSeq(t, m, n) \in Seq(Chars)
    BY <1>5, <1>6, SubSeqProperties DEF Texts
  <1>. QED
    BY <1>7, <1>8 DEF Texts

\* Every key that edits the line or moves the cursor leaves the search alone and the
\* cursor in the line.
LEMMA EditKeeps ==
    ASSUME LineInv, NEW t \in Texts, NEW c \in 0..Len(t), text' = t, cursor' = c, UNCHANGED search
    PROVE  LineInv'
  BY DEF LineInv, search

\* A key that edits the line keeps the invariant.
LEMMA TypingKeeps ==
    ASSUME LineInv,
           \/ \E c \in Chars : Insert(c)
           \/ Backspace \/ Delete \/ DeleteWord \/ KillToStart \/ KillToEnd
    PROVE  LineInv'
  <1>0. text \in Texts /\ cursor \in 0..Len(text)
    BY DEF LineInv
  <1>1. Len(text) \in Nat /\ cursor \in Nat /\ cursor <= Len(text)
    <2>1. Len(text) \in Nat
      BY <1>0, LenProperties DEF Texts
    <2>. QED
      BY <1>0, <2>1
  <1>2. LineStart(cursor) \in 0..cursor /\ LineEnd(cursor) \in cursor..Len(text) /\ WordStart \in 0..cursor
    BY <1>0, <1>1, LineBounds, WordBounds
  <1>3. ASSUME NEW m \in 0..Len(text), NEW n \in 0..Len(text), m <= n, Edit(Cut(m, n), m)
        PROVE  LineInv'
    <2>1. Cut(m, n) \in Texts /\ Len(Cut(m, n)) = m + (Len(text) - n)
      BY <1>0, <1>3, CutIs
    <2>2. m \in 0..Len(Cut(m, n))
      BY <1>1, <2>1
    <2>. QED
      BY <1>3, <2>1, <2>2, EditKeeps DEF Edit
  <1>4. ASSUME NEW c \in Chars, Insert(c) PROVE LineInv'
    <2>1. PICK x : x = SubSeq(text, 1, cursor)
      OBVIOUS
    <2>2. PICK y : y = SubSeq(text, cursor + 1, Len(text))
      OBVIOUS
    <2>3. PICK z : z = <<c>>
      OBVIOUS
    <2>4. z \in Seq(Chars) /\ Len(z) = 1
      BY <2>3
    <2>5. x \in Seq(Chars) /\ Len(x) = cursor
      <3>1. x \in Seq(Chars) /\ Len(x) = (IF 1 <= cursor THEN cursor - 1 + 1 ELSE 0)
        BY <1>0, <1>1, <2>1, SubSeqProperties DEF Texts
      <3>. QED
        BY <1>1, <3>1
    <2>6. y \in Seq(Chars) /\ Len(y) \in Nat
      <3>1. y \in Seq(Chars)
        BY <1>0, <1>1, <2>2, SubSeqProperties DEF Texts
      <3>. QED
        BY <3>1, LenProperties
    <2>7. PICK w : w = x \o z
      OBVIOUS
    <2>8. w \in Seq(Chars) /\ Len(w) = cursor + 1
      <3>1. w \in Seq(Chars) /\ Len(w) = Len(x) + Len(z)
        BY <2>4, <2>5, <2>7, ConcatProperties
      <3>. QED
        BY <2>4, <2>5, <3>1
    <2>9. PICK v : v = w \o y
      OBVIOUS
    <2>10. v \in Seq(Chars) /\ Len(v) = cursor + 1 + Len(y)
      BY <2>6, <2>8, <2>9, ConcatProperties
    <2>11. text' = v /\ cursor' = cursor + 1 /\ UNCHANGED search
      BY <1>4, <2>1, <2>2, <2>3, <2>7, <2>9, Zenon DEF Insert, Edit
    <2>12. cursor + 1 \in 0..Len(v) /\ v \in Texts
      BY <1>1, <2>6, <2>10 DEF Texts
    <2>. QED
      BY <2>11, <2>12, EditKeeps
  <1>5. CASE Backspace
    <2>1. cursor > 0 /\ Edit(Cut(cursor - 1, cursor), cursor - 1)
      BY <1>5 DEF Backspace
    <2>2. cursor - 1 \in 0..Len(text) /\ cursor - 1 <= cursor
      BY <1>1, <2>1
    <2>. QED
      BY <1>0, <1>3, <2>1, <2>2
  <1>6. CASE Delete
    <2>1. cursor < Len(text) /\ Edit(Cut(cursor, cursor + 1), cursor)
      BY <1>6 DEF Delete
    <2>2. cursor + 1 \in 0..Len(text) /\ cursor <= cursor + 1
      BY <1>1, <2>1
    <2>. QED
      BY <1>0, <1>3, <2>1, <2>2
  <1>7. CASE DeleteWord
    <2>1. WordStart \in 0..Len(text) /\ WordStart <= cursor
      BY <1>1, <1>2
    <2>. QED
      BY <1>0, <1>3, <1>7, <2>1 DEF DeleteWord
  <1>8. CASE KillToStart
    <2>1. LineStart(cursor) \in 0..Len(text) /\ LineStart(cursor) <= cursor
      BY <1>1, <1>2
    <2>. QED
      BY <1>0, <1>3, <1>8, <2>1 DEF KillToStart
  <1>9. CASE KillToEnd
    <2>1. LineEnd(cursor) \in 0..Len(text) /\ cursor <= LineEnd(cursor)
      BY <1>1, <1>2
    <2>. QED
      BY <1>0, <1>3, <1>9, <2>1 DEF KillToEnd
  <1>. QED
    BY <1>4, <1>5, <1>6, <1>7, <1>8, <1>9

\* A key that moves the cursor keeps it in the line.
LEMMA MovesKeep ==
    ASSUME LineInv, Motion \/ StepUp \/ StepDown
    PROVE  LineInv'
  <1>0. text \in Texts /\ cursor \in 0..Len(text)
    BY DEF LineInv
  <1>1. Len(text) \in Nat /\ cursor \in Nat /\ cursor <= Len(text)
    <2>1. Len(text) \in Nat
      BY <1>0, LenProperties DEF Texts
    <2>. QED
      BY <1>0, <2>1
  <1>2. \A p \in Nat : LineStart(p) \in 0..p
    BY <1>0, LineBounds
  <1>3. \A p \in 0..Len(text) : LineEnd(p) \in p..Len(text)
    BY <1>0, LineBounds
  <1>4. ASSUME NEW c \in 0..Len(text), Moves(c) PROVE LineInv'
    BY <1>0, <1>4, EditKeeps DEF Moves
  <1>5. CASE Motion
    <2>1. /\ (IF cursor = 0 THEN 0 ELSE cursor - 1) \in 0..Len(text)
          /\ (IF cursor < Len(text) THEN cursor + 1 ELSE cursor) \in 0..Len(text)
      BY <1>1
    <2>2. LineStart(cursor) \in 0..Len(text) /\ LineEnd(cursor) \in 0..Len(text)
      <3>1. LineStart(cursor) \in 0..cursor /\ LineEnd(cursor) \in cursor..Len(text)
        BY <1>0, <1>1, <1>2, <1>3
      <3>. QED
        BY <1>1, <3>1
    <2>3. WordStart \in 0..Len(text) /\ WordEnd \in 0..Len(text)
      <3>1. WordStart \in 0..cursor /\ WordEnd \in 0..Len(text)
        BY <1>0, WordBounds
      <3>. QED
        BY <1>1, <3>1
    <2>. QED
      BY <1>4, <1>5, <2>1, <2>2, <2>3 DEF Motion
  <1>6. CASE StepUp
    <2>1. PICK start : start = LineStart(cursor)
      OBVIOUS
    <2>2. start \in 0..cursor
      BY <1>1, <1>2, <2>1
    <2>3. PICK above : above = LineStart(start - 1)
      OBVIOUS
    <2>4. PICK to : to = above + (cursor - start)
      OBVIOUS
    <2>5. PICK c : c = IF start = 0 THEN 0 ELSE IF to < start - 1 THEN to ELSE start - 1
      OBVIOUS
    <2>6. Moves(c)
      BY <1>6, <2>1, <2>3, <2>4, <2>5, Zenon DEF StepUp
    <2>7. start # 0 => to \in Nat
      <3>1. start # 0 => start - 1 \in Nat
        BY <1>1, <2>2
      <3>2. start # 0 => above \in 0..start - 1
        BY <1>2, <2>3, <3>1
      <3>. QED
        BY <1>1, <2>2, <2>4, <3>2
    <2>8. c \in 0..Len(text)
      BY <1>1, <2>2, <2>5, <2>7
    <2>. QED
      BY <1>4, <2>6, <2>8
  <1>7. CASE StepDown
    <2>1. PICK end : end = LineEnd(cursor)
      OBVIOUS
    <2>2. end \in cursor..Len(text)
      BY <1>0, <1>3, <2>1
    <2>3. PICK to : to = end + 1 + (cursor - LineStart(cursor))
      OBVIOUS
    <2>4. PICK l : l = LineEnd(end + 1)
      OBVIOUS
    <2>5. PICK c : c = IF end = Len(text) THEN end ELSE IF to < l THEN to ELSE l
      OBVIOUS
    <2>6. Moves(c)
      BY <1>7, <2>1, <2>3, <2>4, <2>5, Zenon DEF StepDown
    <2>7. to \in Nat
      <3>1. LineStart(cursor) \in 0..cursor
        BY <1>1, <1>2
      <3>. QED
        BY <1>1, <2>2, <2>3, <3>1
    <2>8. end # Len(text) => l \in 0..Len(text)
      <3>1. end # Len(text) => end + 1 \in 0..Len(text)
        BY <1>1, <2>2
      <3>2. end # Len(text) => l \in end + 1..Len(text)
        BY <1>3, <2>4, <3>1
      <3>. QED
        BY <1>1, <2>2, <3>2
    <2>9. c \in 0..Len(text)
      BY <1>1, <2>2, <2>5, <2>7, <2>8
    <2>. QED
      BY <1>4, <2>6, <2>9
  <1>. QED
    BY <1>5, <1>6, <1>7

\* What Up and Down show of the lines that were sent.
LEMMA UpShows ==
    ASSUME LineInv, HistoryUp
    PROVE  \/ UNCHANGED <<text, cursor, pos>>
           \/ \E i \in 1..pos : /\ Starts(sent[i], prefix') /\ pos' = i - 1
                                /\ text' = sent[i] /\ cursor' = Len(sent[i])
  <1>1. pos \in Nat
    <2>1. sent \in Seq(Texts) /\ pos \in 0..Len(sent)
      BY DEF LineInv
    <2>2. Len(sent) \in Nat
      BY <2>1, LenProperties
    <2>. QED
      BY <2>1, <2>2
  <1>2. PICK S : S = {i \in 1..pos : Starts(sent[i], prefix')}
    OBVIOUS
  <1>3. PICK found : found = Last_(S, 0)
    OBVIOUS
  <1>4. IF found = 0 THEN UNCHANGED <<text, cursor, pos>>
        ELSE pos' = found - 1 /\ ShowsLine(sent[found])
    BY <1>2, <1>3 DEF HistoryUp
  <1>5. S \in SUBSET (0..pos)
    BY <1>1, <1>2
  <1>6. found # 0 => found \in S
    BY <1>1, <1>3, <1>5, LastIs
  <1>. QED
    BY <1>2, <1>4, <1>6 DEF ShowsLine

\* What Down shows: a later line that was sent, or the line that was parked.
LEMMA DownShows ==
    ASSUME LineInv, HistoryDown
    PROVE  \/ \E i \in pos + 2..Len(sent) :
                pos' = i - 1 /\ text' = sent[i] /\ cursor' = Len(sent[i]) /\ UNCHANGED stash
           \/ pos' = Len(sent) /\ stash' = <<>> /\ text' = draft /\ cursor' = Len(draft)
  <1>1. sent \in Seq(Texts) /\ pos \in 0..Len(sent) /\ (pos < Len(sent) => stash = <<draft>>)
    BY DEF LineInv
  <1>2. Len(sent) \in Nat
    BY <1>1, LenProperties
  <1>3. PICK S : S = {i \in pos + 2..Len(sent) : Starts(sent[i], prefix)}
    OBVIOUS
  <1>4. PICK next : next = First_(S, 0)
    OBVIOUS
  <1>5. IF next # 0
        THEN pos' = next - 1 /\ ShowsLine(sent[next]) /\ UNCHANGED <<stash, prefix>>
        ELSE /\ pos' = Len(sent) /\ prefix' = <<>> /\ stash' = <<>>
             /\ ShowsLine(IF stash = <<>> THEN <<>> ELSE stash[1])
    BY <1>3, <1>4 DEF HistoryDown
  <1>6. S \in SUBSET Nat
    BY <1>1, <1>2, <1>3
  <1>7. next # 0 => next \in S
    BY <1>4, <1>6, FirstIs
  <1>8. (IF stash = <<>> THEN <<>> ELSE stash[1]) = draft
    <2>1. stash = <<draft>>
      BY <1>1 DEF HistoryDown
    <2>. QED
      BY <2>1
  <1>. QED
    BY <1>3, <1>5, <1>7, <1>8 DEF ShowsLine

\* The search keeps the invariant.
LEMMA SearchKeeps ==
    ASSUME LineInv, HistoryUp \/ HistoryDown
    PROVE  LineInv'
  <1>0. /\ text \in Texts /\ cursor \in 0..Len(text) /\ draft \in Texts
        /\ sent \in Seq(Texts) /\ pos \in 0..Len(sent)
        /\ stash \in {<<>>} \cup {<<t>> : t \in Texts}
        /\ pos < Len(sent) => stash = <<draft>>
    BY DEF LineInv
  <1>1. Len(sent) \in Nat /\ DOMAIN sent = 1..Len(sent) /\ \A i \in 1..Len(sent) : sent[i] \in Texts
    BY <1>0, LenProperties, ElementOfSeq
  <1>2. \A t \in Texts : Len(t) \in 0..Len(t)
    <2>1. \A t \in Texts : Len(t) \in Nat
      BY LenProperties DEF Texts
    <2>. QED
      BY <2>1
  <1>3. sent' = sent
    BY DEF HistoryUp, HistoryDown
  <1>4. CASE HistoryUp
    <2>1. stash' = (IF Parks THEN <<text>> ELSE stash) /\ draft' = (IF Parks THEN text ELSE draft)
      BY <1>4 DEF HistoryUp, Parks
    <2>2. /\ draft' \in Texts /\ stash' \in {<<>>} \cup {<<t>> : t \in Texts} /\ stash' = <<draft'>>
      <3>1. CASE Parks
        BY <1>0, <2>1, <3>1
      <3>2. CASE ~Parks
        <4>1. pos < Len(sent)
          BY <1>0, <1>1, <3>2 DEF Parks
        <4>. QED
          BY <1>0, <2>1, <3>2, <4>1
      <3>. QED
        BY <3>1, <3>2
    <2>3. text' \in Texts /\ cursor' \in 0..Len(text') /\ pos' \in 0..Len(sent)
      <3>1. CASE UNCHANGED <<text, cursor, pos>>
        BY <1>0, <3>1
      <3>2. ASSUME NEW i \in 1..pos, pos' = i - 1, text' = sent[i], cursor' = Len(sent[i])
            PROVE  text' \in Texts /\ cursor' \in 0..Len(text') /\ pos' \in 0..Len(sent)
        <4>1. i \in 1..Len(sent) /\ i - 1 \in 0..Len(sent)
          BY <1>0, <1>1
        <4>. QED
          BY <1>1, <1>2, <3>2, <4>1
      <3>. QED
        BY <1>4, <3>1, <3>2, UpShows
    <2>. QED
      BY <1>0, <1>3, <2>2, <2>3 DEF LineInv
  <1>5. CASE HistoryDown
    <2>1. draft' = draft /\ pos < Len(sent)
      BY <1>5 DEF HistoryDown
    <2>2. ASSUME NEW i \in pos + 2..Len(sent), pos' = i - 1, text' = sent[i], cursor' = Len(sent[i]),
                 UNCHANGED stash
          PROVE  LineInv'
      <3>1. i \in 1..Len(sent) /\ i - 1 \in 0..Len(sent)
        BY <1>0, <1>1
      <3>2. text' \in Texts /\ cursor' \in 0..Len(text')
        BY <1>1, <1>2, <2>2, <3>1
      <3>. QED
        BY <1>0, <1>3, <2>1, <2>2, <3>1, <3>2 DEF LineInv
    <2>3. CASE pos' = Len(sent) /\ stash' = <<>> /\ text' = draft /\ cursor' = Len(draft)
      <3>1. text' \in Texts /\ cursor' \in 0..Len(text')
        BY <1>0, <1>2, <2>3
      <3>2. pos' \in 0..Len(sent) /\ ~(pos' < Len(sent))
        BY <1>1, <2>3
      <3>. QED
        BY <1>0, <1>3, <2>1, <2>3, <3>1, <3>2 DEF LineInv
    <2>. QED
      BY <1>5, <2>2, <2>3, DownShows
  <1>. QED
    BY <1>4, <1>5

\* A line is sent, or a command by its key: the search is over.
LEMMA SendKeeps ==
    ASSUME LineInv, Send \/ Shortcut
    PROVE  LineInv'
  <1>0. text \in Texts /\ sent \in Seq(Texts)
    BY DEF LineInv
  <1>1. text' = <<>> /\ cursor' = 0 /\ stash' = <<>> /\ draft' = <<>>
    BY DEF Send, Shortcut
  <1>2. \A entry \in Texts : Append(sent, entry) \in Seq(Texts)
    BY <1>0, AppendProperties
  <1>3. <<"/">> \in Texts
    BY LineAssumption DEF Texts
  <1>4. sent' \in Seq(Texts) /\ pos' = Len(sent')
    <2>1. Trim(text) \in Texts
      BY <1>0, TrimIs
    <2>2. \A entry \in Texts : Push(entry) => sent' \in Seq(Texts) /\ pos' = Len(sent')
      BY <1>0, <1>2 DEF Push
    <2>. QED
      BY <1>0, <1>3, <2>1, <2>2 DEF Send, Shortcut
  <1>5. pos' \in 0..Len(sent') /\ ~(pos' < Len(sent'))
    <2>1. Len(sent') \in Nat
      BY <1>4, LenProperties
    <2>. QED
      BY <1>4, <2>1
  <1>6. <<>> \in Texts /\ 0 \in 0..Len(<<>>)
    BY EmptySeq DEF Texts
  <1>. QED
    BY <1>1, <1>4, <1>5, <1>6 DEF LineInv

\* An empty line, and nothing sent.
LEMMA LineBegins == LineInit => LineInv
  <1> SUFFICES ASSUME LineInit PROVE LineInv
    OBVIOUS
  <1>1. /\ text = <<>> /\ cursor = 0 /\ sent = <<>> /\ pos = 0
        /\ stash = <<>> /\ draft = <<>>
    BY DEF LineInit
  <1>2. <<>> \in Texts /\ <<>> \in Seq(Texts) /\ Len(<<>>) = 0
    BY EmptySeq DEF Texts
  <1>. QED
    BY <1>1, <1>2 DEF LineInv

\* Every key keeps the invariant.
LEMMA LineStep == LineInv /\ [LineNext]_lineVars => LineInv'
  <1> SUFFICES ASSUME LineInv, [LineNext]_lineVars PROVE LineInv'
    OBVIOUS
  <1>1. CASE (\E c \in Chars : Insert(c)) \/ Backspace \/ Delete \/ DeleteWord \/ KillToStart \/ KillToEnd
    BY <1>1, TypingKeeps
  <1>2. CASE Motion \/ StepUp \/ StepDown
    BY <1>2, MovesKeep
  <1>3. CASE HistoryUp \/ HistoryDown
    BY <1>3, SearchKeeps
  <1>4. CASE Send \/ Shortcut
    BY <1>4, SendKeeps
  <1>5. CASE UNCHANGED lineVars
    BY <1>5 DEF lineVars, LineInv
  <1>. QED
    BY <1>1, <1>2, <1>3, <1>4, <1>5 DEF LineNext, Up, Down

\* InputBuffer never points outside what it holds: the cursor is a place in the line
\* and the search one in the lines sent, whatever keys are pressed.
THEOREM CursorStays == LineSpec => [](cursor \in 0..Len(text) /\ pos \in 0..Len(sent))
  <1>1. LineInv => cursor \in 0..Len(text) /\ pos \in 0..Len(sent)
    BY DEF LineInv
  <1>. QED
    BY <1>1, LineBegins, LineStep, PTL DEF LineSpec

\* history_up and history_down only show sent lines that begin with what was typed,
\* and leaving the search puts back the line that stood when it began, whatever was
\* done to the lines shown in between.
THEOREM LineReturns == LineSpec => LineComesBack
  <1>1. LineInv /\ HistoryUp /\ pos' # pos => text' = sent[pos' + 1] /\ Starts(text', prefix')
    <2> SUFFICES ASSUME LineInv, HistoryUp, pos' # pos
                 PROVE  text' = sent[pos' + 1] /\ Starts(text', prefix')
      OBVIOUS
    <2>1. PICK i \in 1..pos : Starts(sent[i], prefix') /\ pos' = i - 1 /\ text' = sent[i]
      BY UpShows
    <2>2. (i - 1) + 1 = i
      OBVIOUS
    <2>. QED
      BY <2>1, <2>2
  <1>2. LineInv /\ HistoryDown /\ pos' = Len(sent) => text' = draft
    <2> SUFFICES ASSUME LineInv, HistoryDown, pos' = Len(sent)
                 PROVE  text' = draft
      OBVIOUS
    <2>1. Len(sent) \in Nat
      BY LenProperties DEF LineInv
    <2>2. \A i \in pos + 2..Len(sent) : i - 1 # Len(sent)
      BY <2>1
    <2>. QED
      BY <2>2, DownShows
  <1>. QED
    BY <1>1, <1>2, LineBegins, LineStep, PTL DEF LineSpec, LineComesBack

-----------------------------------------------------------------------------
(* Palette.                                                                *)

PlaceIn(P, i) == Cardinality({j \in P : j <= i})

\* The ranks of n places are 1 .. n.
LEMMA PlacesRanked ==
    ASSUME NEW P \in SUBSET Nat, IsFiniteSet(P)
    PROVE  /\ \A i \in P : PlaceIn(P, i) \in 1..Cardinality(P)
           /\ \A i, j \in P : PlaceIn(P, i) = PlaceIn(P, j) => i = j
           /\ \A k \in 1..Cardinality(P) : \E i \in P : PlaceIn(P, i) = k
  <1>1. Cardinality(P) \in Nat
    BY FS_CardinalityType
  <1> DEFINE D(i) == {j \in P : j <= i}
  <1>2. ASSUME NEW i \in P
        PROVE  /\ IsFiniteSet(D(i)) /\ PlaceIn(P, i) \in 1..Cardinality(P)
    <2>1. D(i) \in SUBSET P /\ {i} \in SUBSET D(i)
      OBVIOUS
    <2>2. IsFiniteSet(D(i)) /\ Cardinality(D(i)) <= Cardinality(P)
      BY <2>1, FS_Subset
    <2>3. Cardinality({i}) = 1 /\ Cardinality({i}) <= Cardinality(D(i))
      BY <2>1, <2>2, FS_Subset, FS_Singleton
    <2>4. Cardinality(D(i)) \in Nat
      BY <2>2, FS_CardinalityType
    <2>. QED
      BY <1>1, <2>2, <2>3, <2>4 DEF PlaceIn
  <1>3. ASSUME NEW i \in P, NEW j \in P, i < j
        PROVE  PlaceIn(P, i) # PlaceIn(P, j)
    <2>0. i \in Nat /\ j \in Nat /\ \A x \in P : x \in Nat
      OBVIOUS
    <2>1. D(i) \in SUBSET D(j)
      <3>1. ASSUME NEW x \in D(i)
            PROVE  x \in D(j)
        BY <1>3, <2>0
      <3>. QED
        BY <3>1
    <2>4. j \in D(j) /\ j \notin D(i)
      BY <1>3, <2>0
    <2>2. IsFiniteSet(D(j))
      BY <1>2
    <2>3. Cardinality(D(j)) # Cardinality(D(i))
      BY <2>1, <2>2, <2>4, FS_Subset
    <2>. QED
      BY <2>3 DEF PlaceIn
  <1>4. ASSUME NEW i \in P, NEW j \in P, PlaceIn(P, i) = PlaceIn(P, j)
        PROVE  i = j
    BY <1>3, <1>4
  <1>f. PICK f : f = [i \in P |-> PlaceIn(P, i)]
    OBVIOUS
  <1>5. f \in [P -> 1..Cardinality(P)] /\ \A i, j \in P : f[i] = f[j] => i = j
    BY <1>2, <1>4, <1>f
  <1>6. f \in Injection(P, 1..Cardinality(P))
    BY <1>5 DEF Injection, IsInjective
  <1>7. IsFiniteSet(1..Cardinality(P)) /\ Cardinality(1..Cardinality(P)) = Cardinality(P)
    BY <1>1, FS_Interval
  <1>8. f \in Surjection(P, 1..Cardinality(P))
    BY <1>6, <1>7, FS_Injection
  <1>9. \A k \in 1..Cardinality(P) : \E i \in P : f[i] = k
    BY <1>8 DEF Surjection
  <1>. QED
    BY <1>2, <1>4, <1>9, <1>f


\* A line as the keys can leave it.
TypedLines ==
    {l \in [slash : BOOLEAN, words : Seq(Word), blank : BOOLEAN] : l.blank => l.words # <<>>}

\* What a list holds: values, or rows of the table and of its doorways.
ListTyped(s) ==
    /\ s.mode = "values" => s.rows \in Seq(Seq(Word) \ {<<>>})
    /\ s.mode = "menu" => s.rows \in Seq(TableRow)

\* A list fits the line l, as OfferFits has it of the line.
RowsFit(s, l) ==
    \A i \in DOMAIN s.rows :
       IF s.mode = "values" THEN IsPrefix(Partial(l), s.rows[i][1])
       ELSE Matching(s.rows[i], Partial(l))

ListFits(s, l) ==
    /\ s = [mode |-> s.mode, rows |-> s.rows, at |-> s.at, start |-> s.start]
    /\ ListTyped(s)
    /\ s.mode \in {"menu", "values"} =>
          s.at \in DOMAIN s.rows /\ s.start = Kept(l) /\ RowsFit(s, l)

PaletteInv == line \in TypedLines /\ ListFits(shown, line)

\* The rows picked are rows at the positions.
LEMMA OnlyIs ==
    ASSUME NEW S, NEW list \in Seq(S), NEW hits \in SUBSET DOMAIN list
    PROVE  /\ Only(list, hits) \in Seq(S)
           /\ \A k \in DOMAIN Only(list, hits) : \E i \in hits : Only(list, hits)[k] = list[i]
  <1>1. IsFiniteSet(1..Len(list)) /\ hits \in SUBSET (1..Len(list))
    BY FS_Interval
  <1>2. hits \in SUBSET Nat /\ IsFiniteSet(hits)
    BY <1>1, FS_Subset
  <1>3. Cardinality(hits) \in Nat
    BY <1>2, FS_CardinalityType
  <1>4. ASSUME NEW k \in 1..Cardinality(hits)
        PROVE  Position(hits, k) \in hits
    <2>1. \E i \in hits : PlaceIn(hits, i) = k
      BY <1>2, PlacesRanked
    <2>. QED
      BY <2>1 DEF Position, PlaceIn
  <1>5. \A k \in 1..Cardinality(hits) : list[Position(hits, k)] \in S
    BY <1>1, <1>4
  <1>6. Only(list, hits) \in Seq(S) /\ DOMAIN Only(list, hits) = 1..Cardinality(hits)
    BY <1>3, <1>5 DEF Only
  <1>7. \A k \in 1..Cardinality(hits) : Only(list, hits)[k] = list[Position(hits, k)]
    BY DEF Only
  <1>. QED
    BY <1>4, <1>6, <1>7

\* The earliest position is one of the positions.
LEMMA EarliestIs ==
    ASSUME NEW T \in SUBSET Nat, T # {}
    PROVE  Earliest(T) \in T
  <1>1. \E x \in T : \A y \in T : x <= y
    BY LeastIs
  <1>. QED
    BY <1>1 DEF Earliest

\* A list that is opened, or goes on, selects one of its rows.
LEMMA SelectIs ==
    ASSUME NEW S, NEW list \in Seq(S), list # <<>>, NEW kind, NEW start,
           NEW exact \in SUBSET DOMAIN list,
           shown.mode = kind => shown.at \in Nat \ {0},
           NEW s, s = Select(kind, list, start, exact)
    PROVE  /\ s = [mode |-> kind, rows |-> list, at |-> s.at, start |-> start]
           /\ s.mode = kind /\ s.rows = list /\ s.start = start /\ s.at \in DOMAIN list
  <1>1. DOMAIN list = 1..Len(list) /\ Len(list) \in Nat \ {0}
    BY EmptySeq
  <1>2. exact # {} => Earliest(exact) \in exact
    BY <1>1, EarliestIs
  <1>3. s.at \in DOMAIN list
    <2>1. CASE exact # {}
      BY <1>2, <2>1 DEF Select
    <2>2. CASE exact = {} /\ shown.mode # kind
      BY <1>1, <2>2 DEF Select
    <2>3. CASE exact = {} /\ shown.mode = kind
      BY <1>1, <2>3 DEF Select
    <2>. QED
      BY <2>1, <2>2, <2>3
  <1>. QED
    BY <1>3 DEF Select

\* No list, or a signature in its place, fits every line.
LEMMA HiddenFits ==
    ASSUME NEW l
    PROVE  ListFits(Hidden, l) /\ ListFits([Hidden EXCEPT !.mode = "signature"], l)
  BY DEF ListFits, Hidden, ListTyped

\* Palette::offer.
LEMMA OfferIs ==
    ASSUME PaletteInv, NEW l \in TypedLines, NEW values \in Seq(Seq(Word) \ {<<>>}),
           values # <<>>, \A i \in DOMAIN values : IsPrefix(Partial(l), values[i][1])
    PROVE  ListFits(Offer(values, l), l)
  <1> DEFINE s == Offer(values, l)
             exact == {i \in DOMAIN values : values[i] = <<Partial(l)>>}
  <1>1. shown.mode = "values" => shown.at \in Nat \ {0}
    BY DEF PaletteInv, ListFits, ListTyped
  <1>2. s = Select("values", values, Kept(l), exact) /\ exact \in SUBSET DOMAIN values
    BY DEF Offer
  <1>. HIDE DEF s, exact
  <1>3. /\ s = [mode |-> "values", rows |-> values, at |-> s.at, start |-> Kept(l)]
        /\ s.mode = "values" /\ s.rows = values /\ s.start = Kept(l) /\ s.at \in DOMAIN values
    BY <1>1, <1>2, SelectIs
  <1>. SUFFICES ListFits(s, l)
    BY DEF s
  <1>. QED
    BY <1>3 DEF ListFits, ListTyped, RowsFit

\* Palette::menu.
LEMMA MenuIs ==
    ASSUME PaletteInv, NEW l \in TypedLines, NEW list \in Seq(TableRow), NEW word, NEW start,
           start = Kept(l), \A i \in DOMAIN list : Matching(list[i], Partial(l))
    PROVE  ListFits(Menu(list, word, start), l)
  <1>0. CASE list = <<>>
    BY <1>0, HiddenFits DEF Menu
  <1>a. CASE list # <<>>
    <2> DEFINE s == Menu(list, word, start)
               exact == {i \in DOMAIN list : word \in list[i].words}
    <2>1. shown.mode = "menu" => shown.at \in Nat \ {0}
      BY DEF PaletteInv, ListFits, ListTyped
    <2>2. s = Select("menu", list, start, exact) /\ exact \in SUBSET DOMAIN list
      BY <1>a DEF Menu
    <2>. HIDE DEF s, exact
    <2>3. /\ s = [mode |-> "menu", rows |-> list, at |-> s.at, start |-> start]
          /\ s.mode = "menu" /\ s.rows = list /\ s.start = start /\ s.at \in DOMAIN list
      BY <1>a, <2>1, <2>2, SelectIs
    <2>. SUFFICES ListFits(s, l)
      BY DEF s
    <2>. QED
      BY <2>3 DEF ListFits, ListTyped, RowsFit
  <1>. QED
    BY <1>0, <1>a

\* What of a line is half-typed, and what is kept before it.
LEMMA PartialIs ==
    ASSUME NEW l \in TypedLines
    PROVE  /\ Len(l.words) \in Nat /\ l.words \in Seq(Word) /\ l.blank \in BOOLEAN
           /\ l.slash \in BOOLEAN
           /\ l.blank => Len(l.words) # 0
           /\ l.blank \/ Len(l.words) = 0 => Partial(l) = <<>> /\ Kept(l) = Len(l.words)
           /\ ~l.blank /\ Len(l.words) # 0 =>
                 Partial(l) = l.words[Len(l.words)] /\ Kept(l) = Len(l.words) - 1
           /\ Kept(l) \in 0..Len(l.words)
  <1>1. l.words \in Seq(Word) /\ l.blank \in BOOLEAN /\ l.slash \in BOOLEAN
        /\ (l.blank => l.words # <<>>)
    BY DEF TypedLines
  <1>2. Len(l.words) \in Nat /\ (Len(l.words) = 0 <=> l.words = <<>>)
    BY <1>1, EmptySeq
  <1>3. Len(l.words) # 0 => l.words[Len(l.words)] \in Word
    BY <1>1, <1>2
  <1>4. Len(l.words) # 0 => l.words[Len(l.words)] # <<>>
    BY <1>3 DEF Word
  <1>. QED
    BY <1>1, <1>2, <1>4 DEF Partial, Kept, Last

\* active_arg: a parameter, or none.
LEMMA ActiveArgIs ==
    ASSUME NEW S, NEW args \in Seq(S), NEW given \in Nat, NEW blank \in BOOLEAN
    PROVE  ActiveArg(args, given, blank) \in 0..Len(args)
  <1>1. Len(args) \in Nat
    OBVIOUS
  <1>. QED
    BY <1>1 DEF ActiveArg

\* Palette::hint.
LEMMA HintIs ==
    ASSUME PaletteInv, NEW l \in TypedLines, NEW args \in Seq(DOMAIN Vocabulary \cup {"Free"}),
           NEW given \in Nat
    PROVE  ListFits(Hint(args, given, l), l)
  <1> DEFINE i == ActiveArg(args, given, l.blank)
             values == IF i = 0 \/ args[i] = "Free" THEN <<>> ELSE Vocabulary[args[i]]
             hits == {k \in DOMAIN values : IsPrefix(Partial(l), values[k][1])}
             matches == Only(values, hits)
  <1>1. i \in 0..Len(args)
    BY PartialIs, ActiveArgIs
  <1>2. values \in Seq(Seq(Word) \ {<<>>})
    <2>1. CASE i = 0 \/ args[i] = "Free"
      BY <2>1
    <2>2. CASE ~(i = 0 \/ args[i] = "Free")
      <3>1. args[i] \in DOMAIN Vocabulary
        BY <1>1, <2>2
      <3>. QED
        BY <2>2, <3>1, WordsAssumption
    <2>. QED
      BY <2>1, <2>2
  <1>3. hits \in SUBSET DOMAIN values
    OBVIOUS
  <1>4. Hint(args, given, l) = IF matches # <<>> THEN Offer(matches, l)
                               ELSE [Hidden EXCEPT !.mode = "signature"]
    BY DEF Hint
  <1>5. \A k \in hits : IsPrefix(Partial(l), values[k][1])
    OBVIOUS
  <1>. HIDE DEF i, values, hits
  <1>6. /\ matches \in Seq(Seq(Word) \ {<<>>})
        /\ \A k \in DOMAIN matches : \E j \in hits : matches[k] = values[j]
    BY <1>2, <1>3, OnlyIs
  <1>7. \A k \in DOMAIN matches : IsPrefix(Partial(l), matches[k][1])
    BY <1>5, <1>6
  <1>. HIDE DEF matches
  <1>8. CASE matches # <<>>
    BY <1>4, <1>6, <1>7, <1>8, OfferIs
  <1>9. CASE matches = <<>>
    BY <1>4, <1>9, HiddenFits
  <1>. QED
    BY <1>8, <1>9

\* The rows that match a word are a menu for the line that ends in it.
LEMMA MatchingMenu ==
    ASSUME PaletteInv, NEW l \in TypedLines, NEW list \in Seq(TableRow),
           NEW hits \in SUBSET DOMAIN list, NEW word, word = Partial(l), NEW start, start = Kept(l),
           \A i \in hits : Matching(list[i], word)
    PROVE  ListFits(Menu(Only(list, hits), word, start), l)
  <1>1. /\ Only(list, hits) \in Seq(TableRow)
        /\ \A k \in DOMAIN Only(list, hits) : \E i \in hits : Only(list, hits)[k] = list[i]
    BY OnlyIs
  <1>2. \A k \in DOMAIN Only(list, hits) : Matching(Only(list, hits)[k], Partial(l))
    BY <1>1
  <1>. QED
    BY <1>1, <1>2, MenuIs

\* The actions of a doorway are rows too.
LEMMA RowIs ==
    ASSUME NEW row \in TableRow
    PROVE  /\ row.path \in Seq(Word) \ {<<>>} /\ row.role \in Nat
           /\ row.args \in Seq(DOMAIN Vocabulary \cup {"Free"})
           /\ row.subs \in Seq(TableRow)
  <1>1. TableRowWith({<<>>}) \in SUBSET TableRow
    <2>1. PICK S : S = Seq(TableRowWith({<<>>}))
      OBVIOUS
    <2>2. <<>> \in S
      BY <2>1
    <2>3. TableRowWith({<<>>}) \in SUBSET TableRowWith(S)
      BY <2>2 DEF TableRowWith
    <2>. QED
      BY <2>1, <2>3 DEF TableRow
  <1>2. row.subs \in Seq(TableRowWith({<<>>}))
    BY DEF TableRowWith, TableRow
  <1>3. row.subs \in Seq(TableRow)
    BY <1>1, <1>2
  <1>. QED
    BY <1>3 DEF TableRowWith, TableRow

\* Palette::action.
LEMMA ActionIs ==
    ASSUME PaletteInv, NEW l \in TypedLines, NEW row \in TableRow, Len(l.words) # 0,
           ~(Len(l.words) <= 1 /\ ~l.blank)
    PROVE  ListFits(Action(row, l), l)
  <1> DEFINE word == IF Len(l.words) > 1 THEN l.words[2] ELSE <<>>
             fits == {i \in DOMAIN row.subs : rank >= row.subs[i].role /\ Matching(row.subs[i], word)}
             hits == {i \in DOMAIN row.subs : word \in row.subs[i].words}
             sub  == row.subs[Earliest(hits)]
  <1>0. /\ row.subs \in Seq(TableRow) /\ DOMAIN row.subs \in SUBSET Nat
    BY RowIs
  <1>1. CASE Len(l.words) = 1 \/ (Len(l.words) = 2 /\ ~l.blank)
    <2>1. Action(row, l) = Menu(Only(row.subs, fits), word, 1)
      BY <1>1 DEF Action
    <2>2. word = Partial(l) /\ 1 = Kept(l)
      <3>1. /\ Len(l.words) \in Nat /\ l.blank \in BOOLEAN
            /\ l.blank \/ Len(l.words) = 0 => Partial(l) = <<>> /\ Kept(l) = Len(l.words)
            /\ ~l.blank /\ Len(l.words) # 0 =>
                  Partial(l) = l.words[Len(l.words)] /\ Kept(l) = Len(l.words) - 1
        BY PartialIs
      <3>2. CASE Len(l.words) = 1
        <4>1. l.blank
          BY <3>1, <3>2
        <4>. QED
          BY <3>1, <3>2, <4>1
      <3>3. CASE Len(l.words) = 2 /\ ~l.blank
        BY <3>1, <3>3
      <3>. QED
        BY <1>1, <3>2, <3>3
    <2>3. fits \in SUBSET DOMAIN row.subs /\ \A i \in fits : Matching(row.subs[i], word)
      OBVIOUS
    <2>. HIDE DEF fits, word
    <2>. QED
      BY <1>0, <2>1, <2>2, <2>3, MatchingMenu
  <1>2. CASE ~(Len(l.words) = 1 \/ (Len(l.words) = 2 /\ ~l.blank))
    <2>1. Action(row, l) = IF hits = {} THEN Hidden
             ELSE IF rank < sub.role \/ sub.args = <<>> THEN Hidden
             ELSE Hint(sub.args, Len(l.words) - 2, l)
      BY <1>2 DEF Action
    <2>2. hits \in SUBSET DOMAIN row.subs
      OBVIOUS
    <2>3. Len(l.words) - 2 \in Nat
      <3>1. PICK n : n = Len(l.words)
        OBVIOUS
      <3>2. n \in Nat /\ n # 0 /\ n # 1
        BY <1>2, <3>1, PartialIs
      <3>3. n - 2 \in Nat
        BY ONLY <3>2
      <3>. QED
        BY ONLY <3>1, <3>3
    <2>. HIDE DEF hits
    <2>4. CASE hits = {}
      BY <2>1, <2>4, HiddenFits
    <2>5. CASE hits # {}
      <3>1. Earliest(hits) \in hits
        BY <1>0, <2>2, <2>5, EarliestIs
      <3>2. sub \in TableRow
        BY <1>0, <2>2, <3>1
      <3>3. sub.args \in Seq(DOMAIN Vocabulary \cup {"Free"})
        BY <3>2, RowIs
      <3>. HIDE DEF sub
      <3>4. ListFits(Hint(sub.args, Len(l.words) - 2, l), l)
        BY <2>3, <3>3, HintIs
      <3>. QED
        BY <2>1, <2>5, <3>4, HiddenFits
    <2>. QED
      BY <2>4, <2>5
  <1>. QED
    BY <1>1, <1>2

\* Palette::mention: the names that begin with what is half-typed.
LEMMA MentionsAre ==
    ASSUME NEW l \in TypedLines
    PROVE  /\ Single(Mentions(l)) \in Seq(Seq(Word) \ {<<>>})
           /\ Mentions(l) # <<>> => Single(Mentions(l)) # <<>>
           /\ \A k \in DOMAIN Single(Mentions(l)) : IsPrefix(Partial(l), Single(Mentions(l))[k][1])
  <1> DEFINE hits == {i \in DOMAIN Names : Names[i] \notin away /\ IsPrefix(Partial(l), Names[i])}
  <1>1. Mentions(l) = <<>> \/ Mentions(l) = Only(Names, hits)
    BY DEF Mentions
  <1>2. hits \in SUBSET DOMAIN Names /\ \A i \in hits : IsPrefix(Partial(l), Names[i])
    OBVIOUS
  <1>. HIDE DEF hits
  <1>3. /\ Only(Names, hits) \in Seq(Word)
        /\ \A k \in DOMAIN Only(Names, hits) : \E i \in hits : Only(Names, hits)[k] = Names[i]
    BY <1>2, OnlyIs, WordsAssumption
  <1>4. Mentions(l) \in Seq(Word) /\ \A k \in DOMAIN Mentions(l) : IsPrefix(Partial(l), Mentions(l)[k])
    <2>1. CASE Mentions(l) = <<>>
      BY <2>1
    <2>2. CASE Mentions(l) = Only(Names, hits)
      <3>1. \A k \in DOMAIN Only(Names, hits) : IsPrefix(Partial(l), Only(Names, hits)[k])
        BY <1>2, <1>3
      <3>. QED
        BY <1>3, <2>2, <3>1
    <2>. QED
      BY <1>1, <2>1, <2>2
  <1>5. PICK m : m = Mentions(l)
    OBVIOUS
  <1>6. ASSUME NEW k \in DOMAIN m
        PROVE  <<m[k]>> \in Seq(Word) \ {<<>>} /\ <<m[k]>>[1] = m[k]
    BY <1>4, <1>5, <1>6
  <1>7. Single(m) \in Seq(Seq(Word) \ {<<>>}) /\ DOMAIN Single(m) = DOMAIN m
        /\ \A k \in DOMAIN m : Single(m)[k] = <<m[k]>>
    <2>1. DOMAIN m = 1..Len(m) /\ Len(m) \in Nat
      BY <1>4, <1>5
    <2>2. PICK V : V = Seq(Word) \ {<<>>}
      OBVIOUS
    <2>3. \A k \in DOMAIN m : <<m[k]>> \in V
      BY <1>6, <2>2
    <2>4. PICK n : n = Len(m)
      OBVIOUS
    <2>5. Single(m) = [k \in 1..n |-> <<m[k]>>] /\ n \in Nat /\ \A k \in 1..n : <<m[k]>> \in V
      BY <2>1, <2>3, <2>4 DEF Single
    <2>6. Single(m) \in [1..n -> V]
      BY ONLY <2>5
    <2>7. Single(m) \in Seq(V)
      BY <2>5, <2>6
    <2>. QED
      BY <2>1, <2>2, <2>4, <2>5, <2>7
  <1>8. m # <<>> => Single(m) # <<>>
    BY <1>4, <1>5, <1>7
  <1>. QED
    BY <1>4, <1>5, <1>6, <1>7, <1>8

\* Palette::update computes a list that fits the line it was asked about.
LEMMA UpdateFits ==
    ASSUME PaletteInv, NEW l \in TypedLines
    PROVE  ListFits(Update(l), l)
  <1> DEFINE word == IF l.words = <<>> THEN <<>> ELSE l.words[1]
             fits == {i \in DOMAIN Table : AvailableRow(Table[i]) /\ Matching(Table[i], word)}
             hits == {i \in DOMAIN Table : AvailableRow(Table[i]) /\ word \in Table[i].words}
             row  == Table[Earliest(hits)]
  <1>0. Table \in Seq(TableRow) /\ DOMAIN Table \in SUBSET Nat
    BY TableAssumption
  <1>1. CASE Mentions(l) # <<>>
    <2>1. Update(l) = Offer(Single(Mentions(l)), l)
      BY <1>1 DEF Update
    <2>. QED
      BY <1>1, <2>1, MentionsAre, OfferIs
  <1>2. CASE Mentions(l) = <<>> /\ ~l.slash
    <2>1. Update(l) = Hidden
      BY <1>2 DEF Update
    <2>. QED
      BY <2>1, HiddenFits
  <1>3. CASE Mentions(l) = <<>> /\ l.slash /\ Len(l.words) <= 1 /\ ~l.blank
    <2>1. Update(l) = Menu(Only(Table, fits), word, 0)
      BY <1>3 DEF Update
    <2>2. word = Partial(l) /\ 0 = Kept(l)
      BY <1>3, PartialIs, EmptySeq
    <2>3. fits \in SUBSET DOMAIN Table /\ \A i \in fits : Matching(Table[i], word)
      OBVIOUS
    <2>. HIDE DEF fits, word
    <2>. QED
      BY <1>0, <2>1, <2>2, <2>3, MatchingMenu
  <1>4. CASE Mentions(l) = <<>> /\ l.slash /\ ~(Len(l.words) <= 1 /\ ~l.blank)
    <2>1. Update(l) = IF hits = {} THEN Hidden
             ELSE IF row.subs # <<>> THEN Action(row, l)
             ELSE IF row.args = <<>> THEN Hidden
             ELSE Hint(row.args, Len(l.words) - 1, l)
      BY <1>4 DEF Update
    <2>2. hits \in SUBSET DOMAIN Table
      OBVIOUS
    <2>3. Len(l.words) - 1 \in Nat /\ Len(l.words) # 0
      BY <1>4, PartialIs
    <2>. HIDE DEF hits
    <2>4. CASE hits = {}
      BY <2>1, <2>4, HiddenFits
    <2>5. CASE hits # {}
      <3>1. Earliest(hits) \in hits
        BY <1>0, <2>2, <2>5, EarliestIs
      <3>2. row \in TableRow
        BY <1>0, <2>2, <3>1
      <3>. HIDE DEF row
      <3>3. row.args \in Seq(DOMAIN Vocabulary \cup {"Free"})
        BY <3>2, RowIs
      <3>4. ListFits(Hint(row.args, Len(l.words) - 1, l), l)
        BY <2>3, <3>3, HintIs
      <3>5. ListFits(Action(row, l), l)
        BY <1>4, <2>3, <3>2, ActionIs
      <3>. QED
        BY <2>1, <2>5, <3>4, <3>5, HiddenFits
    <2>. QED
      BY <2>4, <2>5
  <1>. QED
    BY <1>1, <1>2, <1>3, <1>4, PartialIs

-----------------------------------------------------------------------------
(* Palette: the keys.                                                      *)

\* App::refresh_palette: the line is edited and the palette asked about it.
LEMMA BecomesFits ==
    ASSUME PaletteInv, NEW l \in TypedLines, Becomes(l)
    PROVE  PaletteInv'
  <1>1. ListFits(Update(l), l)
    BY UpdateFits
  <1>2. line' = l /\ shown' = Update(l)
    BY DEF Becomes
  <1>. QED
    BY <1>1, <1>2 DEF PaletteInv, ListFits, ListTyped, RowsFit, Partial, Kept, Matching

\* The palette is dismissed.
LEMMA HiddenLine ==
    ASSUME line' \in TypedLines, shown' = Hidden
    PROVE  PaletteInv'
  <1>1. ListFits(Hidden, line')
    BY HiddenFits
  <1>. QED
    BY <1>1 DEF PaletteInv, ListFits, ListTyped, Hidden, RowsFit

\* The line with its half-typed word taken away, or replaced.
LEMMA EditsStep ==
    ASSUME PaletteInv, Edits
    PROVE  PaletteInv'
  <1>0. line \in TypedLines /\ Kept(line) \in 0..Len(line.words) /\ Len(line.words) \in Nat
        /\ line.words \in Seq(Word) /\ line.blank \in BOOLEAN /\ line.slash \in BOOLEAN
    BY PartialIs DEF PaletteInv
  <1>1. PICK kept : kept = SubSeq(line.words, 1, Kept(line))
    OBVIOUS
  <1>2. kept \in Seq(Word) /\ Len(kept) = Kept(line)
    BY <1>0, <1>1
  <1>3. CASE \E w \in Letters :
               Becomes([line EXCEPT !.words = Append(SubSeq(@, 1, Kept(line)), w), !.blank = FALSE])
    <2>1. PICK w \in Letters :
               Becomes([line EXCEPT !.words = Append(SubSeq(@, 1, Kept(line)), w), !.blank = FALSE])
      BY <1>3
    <2>2. Append(kept, w) \in Seq(Word)
      BY <1>2, WordsAssumption
    <2>3. PICK l : l = [line EXCEPT !.words = Append(kept, w), !.blank = FALSE]
      OBVIOUS
    <2>4. l \in TypedLines
      BY <1>0, <2>2, <2>3 DEF TypedLines
    <2>5. Becomes(l)
      BY <1>1, <2>1, <2>3
    <2>. QED
      BY <2>4, <2>5, BecomesFits
  <1>4. CASE Becomes([line EXCEPT !.words = SubSeq(@, 1, Kept(line)), !.blank = Kept(line) > 0])
    <2>1. Kept(line) > 0 => kept # <<>>
      BY <1>0, <1>2
    <2>2. (Kept(line) > 0) \in BOOLEAN
      BY <1>0
    <2>3. PICK l : l = [line EXCEPT !.words = kept, !.blank = Kept(line) > 0]
      OBVIOUS
    <2>4. l \in TypedLines
      <3>1. CASE Kept(line) > 0
        <4>1. l = [line EXCEPT !.words = kept, !.blank = TRUE]
          BY <2>2, <2>3, <3>1, Zenon
        <4>. QED
          BY <1>0, <1>2, <2>1, <3>1, <4>1 DEF TypedLines
      <3>2. CASE ~(Kept(line) > 0)
        <4>1. l = [line EXCEPT !.words = kept, !.blank = FALSE]
          BY <2>2, <2>3, <3>2, Zenon
        <4>. QED
          BY <1>0, <1>2, <4>1 DEF TypedLines
      <3>. QED
        BY <3>1, <3>2
    <2>5. Becomes(l)
      BY <1>1, <1>4, <2>3
    <2>. QED
      BY <2>4, <2>5, BecomesFits
  <1>5. CASE line.words # <<>> /\ Becomes([line EXCEPT !.blank = ~@])
    <2>3. PICK l : l = [line EXCEPT !.blank = ~@]
      OBVIOUS
    <2>4. l \in TypedLines
      BY <1>0, <1>5, <2>3 DEF TypedLines
    <2>. QED
      BY <1>5, <2>3, <2>4, BecomesFits
  <1>6. CASE Becomes([line EXCEPT !.slash = ~@])
    <2>3. PICK l : l = [line EXCEPT !.slash = ~@]
      OBVIOUS
    <2>4. l \in TypedLines
      BY <1>0, <2>3 DEF TypedLines
    <2>. QED
      BY <1>6, <2>3, <2>4, BecomesFits
  <1>. QED
    BY <1>3, <1>4, <1>5, <1>6 DEF Edits

\* A completion leaves a line of words.
LEMMA CompleteStep ==
    ASSUME PaletteInv, Active, Complete
    PROVE  PaletteInv'
  <1>0. /\ line \in TypedLines /\ Len(line.words) \in Nat /\ line.words \in Seq(Word)
        /\ line.slash \in BOOLEAN /\ Kept(line) \in 0..Len(line.words)
    BY PartialIs DEF PaletteInv
  <1>1. shown.at \in DOMAIN shown.rows /\ shown.start = Kept(line)
    BY DEF PaletteInv, ListFits, Active
  <1>2. Completed \in TypedLines
    <2>1. CASE shown.mode = "values"
      <3>1. Chosen \in Seq(Word) /\ Chosen # <<>>
        BY <1>1, <2>1 DEF PaletteInv, ListFits, ListTyped, Chosen
      <3>2. PICK kept : kept = SubSeq(line.words, 1, shown.start)
        OBVIOUS
      <3>3. kept \in Seq(Word)
        BY <1>0, <1>1, <3>2
      <3>4. kept \o Chosen \in Seq(Word)
        BY <3>1, <3>3
      <3>5. Completed = [line EXCEPT !.words = kept \o Chosen, !.blank = FALSE]
        BY <2>1, <3>2 DEF Completed
      <3>. QED
        BY <1>0, <3>4, <3>5 DEF TypedLines
    <2>2. CASE shown.mode = "menu"
      <3>1. Chosen \in TableRow
        BY <1>1, <2>2 DEF PaletteInv, ListFits, ListTyped, Chosen
      <3>2. Chosen.path \in Seq(Word) \ {<<>>}
        BY <3>1, RowIs
      <3>3. Completed = [slash |-> TRUE, blank |-> Chosen.args # <<>>, words |-> Chosen.path]
        BY <2>2 DEF Completed
      <3>. QED
        BY <3>2, <3>3 DEF TypedLines
    <2>. QED
      BY <2>1, <2>2 DEF Active
  <1>. QED
    BY <1>2, BecomesFits DEF Complete

\* Palette::next, Palette::previous: the selection goes around.
LEMMA RowStep ==
    ASSUME PaletteInv, NextRow \/ PreviousRow
    PROVE  PaletteInv'
  <1>1. PICK to : shown' = [shown EXCEPT !.at = to] /\ line' = line /\ Active /\ to \in DOMAIN shown.rows
    <2>1. Active /\ shown.at \in DOMAIN shown.rows
      BY DEF NextRow, PreviousRow, PaletteInv, ListFits, Active
    <2>2. DOMAIN shown.rows = 1..Len(shown.rows) /\ Len(shown.rows) \in Nat
      BY <2>1 DEF PaletteInv, ListFits, ListTyped, Active
    <2>3. CASE NextRow
      <3>1. (IF shown.at = Len(shown.rows) THEN 1 ELSE shown.at + 1) \in DOMAIN shown.rows
        BY <2>1, <2>2
      <3>. QED
        BY <2>1, <2>3, <3>1 DEF NextRow, MoveTo
    <2>4. CASE PreviousRow
      <3>1. (IF shown.at = 1 THEN Len(shown.rows) ELSE shown.at - 1) \in DOMAIN shown.rows
        BY <2>1, <2>2
      <3>. QED
        BY <2>1, <2>4, <3>1 DEF PreviousRow, MoveTo
    <2>. QED
      BY <2>3, <2>4
  <1>2. shown = [mode |-> shown.mode, rows |-> shown.rows, at |-> shown.at, start |-> shown.start]
    BY DEF PaletteInv, ListFits
  <1>3. /\ shown' = [mode |-> shown.mode, rows |-> shown.rows, at |-> to, start |-> shown.start]
        /\ shown'.mode = shown.mode /\ shown'.rows = shown.rows /\ shown'.at = to
        /\ shown'.start = shown.start
    BY <1>1, <1>2
  <1>. QED
    BY <1>1, <1>3 DEF PaletteInv, ListFits, ListTyped, RowsFit, Partial, Kept, Matching

\* The line at the start, and after Enter.
LEMMA EmptyTyped == Empty \in TypedLines
  BY DEF Empty, TypedLines

\* Every key, and every change around the line, keeps the list fitting.
LEMMA PaletteStep ==
    ASSUME PaletteInv, [PaletteNext]_paletteVars
    PROVE  PaletteInv'
  <1>0. line \in TypedLines /\ line.words \in Seq(Word) /\ line.slash \in BOOLEAN
    BY PartialIs DEF PaletteInv
  <1>1. CASE Edits
    BY <1>1, EditsStep
  <1>2. CASE Newline
    <2>1. line' \in TypedLines
      BY <1>0, <1>2 DEF Newline, TypedLines
    <2>. QED
      BY <1>2, <2>1, HiddenLine DEF Newline
  <1>3. CASE NextRow \/ PreviousRow
    BY <1>3, RowStep
  <1>4. CASE Recall
    <2>1. shown' = shown /\ ~(shown.mode \in {"menu", "values"})
      BY <1>4 DEF Recall, Recalls, Active
    <2>2. PICK slash \in BOOLEAN, w \in Letters : line' = [slash |-> slash, words |-> <<w>>, blank |-> FALSE]
      BY <1>4 DEF Recall
    <2>3. <<w>> \in Seq(Word)
      BY WordsAssumption
    <2>4. line' \in TypedLines
      BY <2>2, <2>3 DEF TypedLines
    <2>. QED
      BY <2>1, <2>4 DEF PaletteInv, ListFits, ListTyped
  <1>5. CASE Tab
    BY <1>5, CompleteStep DEF Tab
  <1>6. CASE EnterKey
    <2>1. CASE Active /\ ~TypedOut
      BY <1>6, <2>1, CompleteStep DEF EnterKey
    <2>2. CASE ~(Active /\ ~TypedOut)
      BY <1>6, <2>2, HiddenLine, EmptyTyped DEF EnterKey
    <2>. QED
      BY <2>1, <2>2
  <1>7. CASE Dismiss
    BY <1>0, <1>7, HiddenLine DEF Dismiss
  <1>8. CASE UNCHANGED <<line, shown>>
    BY <1>8 DEF PaletteInv, ListFits, ListTyped, RowsFit, Partial, Kept, Matching
  <1>. QED
    BY <1>1, <1>2, <1>3, <1>4, <1>5, <1>6, <1>7, <1>8 DEF PaletteNext, Changes, paletteVars

\* Whatever the table of commands, the values, the names and the role: the list over the
\* line fits the line, after every sequence of keys, recalls, role changes and departures.
THEOREM OfferFitsHolds == PaletteSpec => []OfferFits
  <1>1. PaletteInit => PaletteInv
    <2>1. PaletteInit => line = Empty /\ shown = Hidden
      BY DEF PaletteInit
    <2>2. ListFits(Hidden, Empty)
      BY HiddenFits
    <2>. QED
      BY <2>1, <2>2, EmptyTyped DEF PaletteInv
  <1>2. PaletteInv => OfferFits
    BY DEF PaletteInv, ListFits, RowsFit, OfferFits, Active
  <1>. QED
    BY <1>1, <1>2, PaletteStep, PTL DEF PaletteSpec
=============================================================================
