-------------------------- MODULE TransfersProofs --------------------------
(***************************************************************************)
(* Proofs about Transfers, for any sessions, transfers, files and limits.  *)
(***************************************************************************)
EXTENDS Transfers, TLAPS

Busy == {"open", "checked", "active", "full", "probed", "named"}

\* A transfer in use has an owner, and one that runs has its other fields.
Filled(u) ==
    /\ task[u].phase # "idle" => task[u].owner \in Sessions
    /\ task[u].phase \in {"idle", "token"} => ~task[u].aborted
    /\ task[u].phase \notin {"idle", "over"} =>
         /\ task[u].kind # None
         /\ task[u].hash \in Contents
         /\ task[u].name \in Names
         /\ task[u].kind \in Kinds => task[u].content \in Contents
    /\ task[u].phase \in Busy \ {"open"} => task[u].kind \in Kinds

\* Nothing is known of a transfer before its task has started.
Fresh(u) ==
    task[u].phase \in {"idle", "token"} =>
        /\ u \notin active
        /\ u \notin temps
        /\ \A s \in Sessions : u \notin streams[s]

\* Only the end of the session that a task is registered with aborts it.
Registered(u) ==
    /\ \A s \in Sessions : u \in streams[s] => task[u].owner = s
    /\ task[u].aborted => task[u].owner \in Sessions /\ ~Here(task[u].owner)

\* A partial file of a connected session can be found by the guard.
Findable(u) ==
    u \in temps /\ task[u].owner \in Sessions =>
        /\ Here(task[u].owner) => u \in active
        /\ task[u].phase # "named"

\* A transfer that has ended holds neither a slot nor a registration.
LetGo(u) ==
    task[u].phase = "over" /\ Here(task[u].owner) =>
        u \notin active /\ u \notin streams[task[u].owner]

\* What a task is about to publish was verified, and is in place.
Ready(u) ==
    /\ task[u].phase \in {"full", "probed", "named"} => task[u].content = task[u].hash
    /\ task[u].phase = "named" /\ task[u].kind = "File" /\ Here(task[u].owner) =>
         shared[task[u].owner][task[u].name] # None

Good(u) == Filled(u) /\ Fresh(u) /\ Registered(u) /\ Findable(u) /\ LetGo(u) /\ Ready(u)

\* The inductive invariant.
IInv == TypeOK /\ WholeFiles /\ ListedExists /\ \A u \in Uids : Good(u)

\* The initial states satisfy the invariant.
LEMMA InitGood == Init => IInv
BY ConstantsAssumption DEF Init, IInv, TypeOK, Task, Phases, Kinds, Unused, NoSweep,
   WholeFiles, ListedExists, Good, Filled, Fresh, Registered, Findable, LetGo,
   Ready, Here, Busy

\* Metadata that passes its checks only moves the task.
LEMMA MetadataStep ==
    ASSUME IInv, NEW u \in Uids, task[u].phase = "open", task[u].kind # "Download",
           task' = Moved(u, "checked"),
           UNCHANGED <<conn, streams, active, temps, images, shared, listed, records,
                       avatar, dropped, sweep>>
    PROVE  IInv'
<1> USE ConstantsAssumption
<1>1. TypeOK'
  BY DEF IInv, TypeOK, Task, Phases, Kinds, Moved, At
<1>2. WholeFiles'
  BY DEF IInv, WholeFiles, Moved, At
<1>3. ListedExists'
  BY DEF IInv, ListedExists, Here, Moved, At
<1>4. \A v \in Uids : Good(v)'
  BY DEF IInv, TypeOK, Task, Phases, Kinds, Good, Filled, Fresh, Registered, Findable,
     LetGo, Ready, Here, Busy, Moved, At
<1> QED
  BY <1>1, <1>2, <1>3, <1>4 DEF IInv

\* A token that is dropped was in no table.
LEMMA ExpireStep ==
    ASSUME IInv, NEW u \in Uids, Expire(u)
    PROVE  IInv'
<1> USE ConstantsAssumption
<1>1. TypeOK'
  BY DEF IInv, TypeOK, Task, Phases, Kinds, Expire, Over
<1>2. WholeFiles'
  BY DEF IInv, WholeFiles, Expire, Over
<1>3. ListedExists'
  BY DEF IInv, ListedExists, Here, Expire, Over
<1>4. \A v \in Uids : Good(v)'
  BY DEF IInv, TypeOK, Task, Phases, Kinds, Good, Filled, Fresh, Registered, Findable,
     LetGo, Ready, Here, Busy, Expire, Over
<1> QED
  BY <1>1, <1>2, <1>3, <1>4 DEF IInv


\* The guard of a task that ends, whatever ended it: while the session is
\* connected it finds what the task left.
LEMMA EndStep ==
    ASSUME IInv, NEW u \in Uids, task[u].phase \in Busy, End(u),
           UNCHANGED <<conn, images, shared, listed, records, avatar, dropped, sweep>>
    PROVE  IInv'
<1> USE ConstantsAssumption
<1> DEFINE s == task[u].owner
<1>1. s \in Sessions /\ task[u] \in Task
  BY DEF IInv, TypeOK, Good, Filled, Busy
<1>2. /\ task' \in [Uids -> Task]
      /\ task'[u].phase = "over" /\ task'[u].owner = s /\ ~task'[u].aborted
      /\ \A v \in Uids \ {u} : task'[v] = task[v]
  BY <1>1 DEF IInv, TypeOK, End, Over, Task, Phases
<1>3. /\ streams' \in [Sessions -> SUBSET Uids]
      /\ active' \subseteq active /\ temps' \subseteq temps
      /\ \A x \in Sessions : streams'[x] \subseteq streams[x]
      /\ Here(s) => u \notin active' /\ u \notin streams'[s]
      /\ Here(s) /\ u \in active => u \notin temps'
      /\ \A v \in Uids \ {u} :
           (v \in active <=> v \in active') /\ (v \in temps <=> v \in temps')
  <2>1. CASE Here(s)
    <3>1. /\ streams' = [streams EXCEPT ![s] = @ \ {u}]
          /\ active' = active \ {u}
          /\ temps' = IF u \in active THEN temps \ {u} ELSE temps
      BY <2>1 DEF End, Guarded
    <3> QED
      BY <1>1, <2>1, <3>1 DEF IInv, TypeOK
  <2>2. CASE ~Here(s)
    BY <1>1, <2>2 DEF IInv, TypeOK, End, Guarded
  <2> QED BY <2>1, <2>2
<1>4. TypeOK'
  BY <1>2, <1>3 DEF IInv, TypeOK
<1>5. WholeFiles' /\ ListedExists'
  BY DEF IInv, WholeFiles, ListedExists, Here
<1>6. Good(u)'
  BY <1>1, <1>2, <1>3 DEF IInv, TypeOK, Task, Phases, Kinds, Good, Filled, Fresh,
     Registered, Findable, LetGo, Ready, Here, Busy
<1>7. \A v \in Uids \ {u} : Good(v)'
  BY <1>1, <1>2, <1>3 DEF IInv, TypeOK, Task, Phases, Kinds, Good, Filled, Fresh,
     Registered, Findable, LetGo, Ready, Here, Busy
<1> QED
  BY <1>4, <1>5, <1>6, <1>7 DEF IInv

\* A task that registers with its session, or finds it gone.
LEMMA ConnectStep ==
    ASSUME IInv, NEW u \in Uids, Connect(u)
    PROVE  IInv'
<1> USE ConstantsAssumption
<1> DEFINE s == task[u].owner
<1>1. s \in Sessions /\ task[u] \in Task /\ task[u].phase = "token"
  BY DEF IInv, TypeOK, Good, Filled, Connect
<1>2. CASE Here(s)
  <2>1. /\ task' \in [Uids -> Task]
        /\ task'[u] = At(task[u], "open", task[u].insert)
        /\ \A v \in Uids \ {u} : task'[v] = task[v]
    <3>1. At(task[u], "open", task[u].insert) \in Task
      BY <1>1 DEF At, Task, Phases
    <3> QED
      BY <1>2, <3>1 DEF IInv, TypeOK, Connect, Moved
  <2>2. /\ streams' \in [Sessions -> SUBSET Uids]
        /\ \A x \in Sessions :
             streams'[x] = IF x = s THEN streams[x] \cup {u} ELSE streams[x]
    BY <1>1, <1>2 DEF IInv, TypeOK, Connect
  <2>3. UNCHANGED <<conn, active, temps, images, shared, listed, records, avatar,
                    dropped, sweep>>
    BY DEF Connect
  <2>4. TypeOK'
    BY <2>1, <2>2, <2>3 DEF IInv, TypeOK
  <2>5. WholeFiles' /\ ListedExists'
    BY <2>3 DEF IInv, WholeFiles, ListedExists, Here
  <2>6. Good(u)'
    BY <1>1, <1>2, <2>1, <2>2, <2>3 DEF IInv, TypeOK, Task, Phases, Kinds, Good, Filled,
       Fresh, Registered, Findable, LetGo, Ready, Here, Busy, At
  <2>7. ASSUME NEW v \in Uids \ {u} PROVE Good(v)'
    <3>1. Good(v) /\ v # u /\ v \in Uids
      BY DEF IInv
    <3>2. \A x \in Sessions : v \in streams'[x] <=> v \in streams[x]
      BY <1>1, <2>2, <3>1 DEF IInv, TypeOK
    <3>3. task'[v] = task[v] /\ task[v] \in Task
      BY <2>1 DEF IInv, TypeOK
    <3> QED
      BY <2>3, <3>1, <3>2, <3>3 DEF Good, Filled, Fresh, Registered, Findable, LetGo,
         Ready, Here, Busy, Task
  <2> QED
    BY <2>4, <2>5, <2>6, <2>7 DEF IInv
<1>3. CASE ~Here(s)
  <2>1. Expire(u)
    BY <1>3 DEF Connect, Expire
  <2> QED
    BY <2>1, ExpireStep
<1> QED
  BY <1>2, <1>3

\* A verified upload takes its name, or its partial file was swept away.
LEMMA RenameStep ==
    ASSUME IInv, NEW u \in Uids, Rename(u)
    PROVE  IInv'
<1> USE ConstantsAssumption
<1>1. CASE u \notin temps
  BY <1>1, EndStep DEF Rename, Runs, Busy
<1>2. CASE u \in temps
  <2> DEFINE s == task[u].owner
             t == task[u]
  <2>1. t \in Task /\ t.phase = "probed" /\ s \in Sessions /\ t.name \in Names
        /\ t.hash \in Contents /\ t.content = t.hash /\ t.kind \in Kinds
    BY DEF IInv, TypeOK, Good, Filled, Ready, Busy, Rename, Runs
  <2>2. /\ task' \in [Uids -> Task]
        /\ task'[u] = At(t, "named", t.insert)
        /\ \A v \in Uids \ {u} : task'[v] = task[v]
    <3>1. At(t, "named", t.insert) \in Task
      BY <2>1 DEF At, Task, Phases
    <3>2. task' = [task EXCEPT ![u] = At(t, "named", t.insert)]
      BY <1>2 DEF Rename, Moved
    <3> QED
      BY <3>1, <3>2 DEF IInv, TypeOK
  <2>3. temps' = temps \ {u}
        /\ UNCHANGED <<streams, active, conn, listed, records, avatar, dropped, sweep>>
    BY <1>2 DEF Rename
  <2>4. /\ images' \in [Contents -> Contents \cup {None}]
        /\ WholeFiles'
    <3>1. CASE Persistent(u)
      BY <1>2, <2>1, <3>1 DEF IInv, TypeOK, WholeFiles, Rename
    <3>2. CASE ~Persistent(u)
      BY <1>2, <3>2 DEF IInv, TypeOK, WholeFiles, Rename
    <3> QED BY <3>1, <3>2
  <2>5. /\ shared' \in [Sessions -> [Names -> Sealed \cup {None}]]
        /\ \A x \in Sessions, n \in Names : shared[x][n] # None => shared'[x][n] # None
        /\ t.kind = "File" => shared'[s][t.name] # None
    <3>1. CASE Persistent(u)
      BY <1>2, <2>1, <3>1 DEF IInv, TypeOK, Rename, Persistent
    <3>2. CASE ~Persistent(u)
      <4> DEFINE new == [content |-> t.content, key |-> u]
      <4>1. shared' = [shared EXCEPT ![s][t.name] = new]
        BY <1>2, <3>2 DEF Rename
      <4>2. new \in Sealed /\ new # None
        BY <2>1 DEF Sealed
      <4> HIDE DEF new
      <4> QED
        BY <2>1, <4>1, <4>2 DEF IInv, TypeOK
    <3> QED BY <3>1, <3>2
  <2>6. TypeOK'
    BY <2>2, <2>3, <2>4, <2>5 DEF IInv, TypeOK
  <2>7. ListedExists'
    BY <2>3, <2>5 DEF IInv, TypeOK, ListedExists, Here, AvailableFile
  <2>8. Good(u)'
    BY <2>1, <2>2, <2>3, <2>5 DEF IInv, TypeOK, Task, Phases, Kinds, Good, Filled,
       Fresh, Registered, Findable, LetGo, Ready, Here, Busy, At
  <2>9. ASSUME NEW v \in Uids \ {u} PROVE Good(v)'
    BY <2>1, <2>2, <2>3, <2>5 DEF IInv, TypeOK, Task, Phases, Kinds, Good, Filled,
       Fresh, Registered, Findable, LetGo, Ready, Here, Busy
  <2> QED
    BY <2>4, <2>6, <2>7, <2>8, <2>9 DEF IInv
<1> QED
  BY <1>1, <1>2

\* A picture that is said again is one more record.
LEMMA DuplicateStep ==
    ASSUME IInv, NEW s \in Sessions, NEW h \in Contents, Duplicate(s, h)
    PROVE  IInv'
<1> USE ConstantsAssumption
<1>1. TypeOK'
  BY DEF IInv, TypeOK, Task, Phases, Kinds, Duplicate
<1>2. WholeFiles'
  BY DEF IInv, WholeFiles, Duplicate
<1>3. ListedExists'
  BY DEF IInv, ListedExists, Here, Duplicate
<1>4. \A v \in Uids : Good(v)'
  BY DEF IInv, TypeOK, Task, Phases, Kinds, Good, Filled, Fresh, Registered, Findable,
     LetGo, Ready, Here, Busy, Duplicate
<1> QED
  BY <1>1, <1>2, <1>3, <1>4 DEF IInv

\* A profile that takes or drops a picture starts a sweep.
LEMMA AvatarStep ==
    ASSUME IInv, NEW s \in Sessions, NEW h \in Contents \cup {None}, SetAvatar(s, h)
    PROVE  IInv'
<1> USE ConstantsAssumption
<1>1. TypeOK'
  BY DEF IInv, TypeOK, Task, Phases, Kinds, SetAvatar
<1>2. WholeFiles'
  BY DEF IInv, WholeFiles, SetAvatar
<1>3. ListedExists'
  BY DEF IInv, ListedExists, Here, SetAvatar
<1>4. \A v \in Uids : Good(v)'
  BY DEF IInv, TypeOK, Task, Phases, Kinds, Good, Filled, Fresh, Registered, Findable,
     LetGo, Ready, Here, Busy, SetAvatar
<1> QED
  BY <1>1, <1>2, <1>3, <1>4 DEF IInv

\* A download of a listed file has the name and the hash of its entry.
LEMMA AskStep ==
    ASSUME IInv, NEW s \in Sessions, NEW owner \in Sessions, NEW u \in Uids,
           AskDownload(s, u, owner)
    PROVE  IInv'
<1> USE ConstantsAssumption
<1>1. TypeOK'
  BY DEF IInv, TypeOK, Task, Phases, Kinds, AskDownload, Approved, AvailableFile
<1>2. WholeFiles'
  BY DEF IInv, WholeFiles, AskDownload, Approved, AvailableFile
<1>3. ListedExists'
  BY DEF IInv, ListedExists, Here, AskDownload, Approved, AvailableFile
<1>4. \A v \in Uids : Good(v)'
  BY DEF IInv, TypeOK, Task, Phases, Kinds, Good, Filled, Fresh, Registered, Findable,
     LetGo, Ready, Here, Busy, AskDownload, Approved, AvailableFile
<1> QED
  BY <1>1, <1>2, <1>3, <1>4 DEF IInv

\* A record less leaves the files as they are.
LEMMA DropStep ==
    ASSUME IInv, NEW h \in Contents, DropRecord(h)
    PROVE  IInv'
<1> USE ConstantsAssumption
<1>1. TypeOK'
  BY DEF IInv, TypeOK, Task, Phases, Kinds, DropRecord
<1>2. WholeFiles'
  BY DEF IInv, WholeFiles, DropRecord
<1>3. ListedExists'
  BY DEF IInv, ListedExists, Here, DropRecord
<1>4. \A v \in Uids : Good(v)'
  BY DEF IInv, TypeOK, Task, Phases, Kinds, Good, Filled, Fresh, Registered, Findable,
     LetGo, Ready, Here, Busy, DropRecord
<1> QED
  BY <1>1, <1>2, <1>3, <1>4 DEF IInv

\* Deleting a picture leaves its hash without a file.
LEMMA RemoveImagesStep ==
    ASSUME IInv, NEW h \in Contents, RemoveImages(h)
    PROVE  IInv'
<1> USE ConstantsAssumption
<1>1. TypeOK'
  BY DEF IInv, TypeOK, Task, Phases, Kinds, RemoveImages
<1>2. WholeFiles'
  BY DEF IInv, WholeFiles, RemoveImages
<1>3. ListedExists'
  BY DEF IInv, ListedExists, Here, RemoveImages
<1>4. \A v \in Uids : Good(v)'
  BY DEF IInv, TypeOK, Task, Phases, Kinds, Good, Filled, Fresh, Registered, Findable,
     LetGo, Ready, Here, Busy, RemoveImages
<1> QED
  BY <1>1, <1>2, <1>3, <1>4 DEF IInv

\* A sweep that reads what is named changes no file.
LEMMA SweepKeepStep ==
    ASSUME IInv, SweepKeep
    PROVE  IInv'
<1> USE ConstantsAssumption
<1>1. TypeOK'
  BY DEF IInv, TypeOK, Task, Phases, Kinds, SweepKeep
<1>2. WholeFiles'
  BY DEF IInv, WholeFiles, SweepKeep
<1>3. ListedExists'
  BY DEF IInv, ListedExists, Here, SweepKeep
<1>4. \A v \in Uids : Good(v)'
  BY DEF IInv, TypeOK, Task, Phases, Kinds, Good, Filled, Fresh, Registered, Findable,
     LetGo, Ready, Here, Busy, SweepKeep
<1> QED
  BY <1>1, <1>2, <1>3, <1>4 DEF IInv

\* A sweep only removes files.
LEMMA SweepRemoveStep ==
    ASSUME IInv, SweepRemove
    PROVE  IInv'
<1> USE ConstantsAssumption
<1>1. TypeOK'
  BY DEF IInv, TypeOK, Task, Phases, Kinds, SweepRemove, NoSweep
<1>2. WholeFiles'
  BY DEF IInv, WholeFiles, SweepRemove, NoSweep
<1>3. ListedExists'
  BY DEF IInv, ListedExists, Here, SweepRemove, NoSweep
<1>4. \A v \in Uids : Good(v)'
  BY DEF IInv, TypeOK, Task, Phases, Kinds, Good, Filled, Fresh, Registered, Findable,
     LetGo, Ready, Here, Busy, SweepRemove, NoSweep
<1> QED
  BY <1>1, <1>2, <1>3, <1>4 DEF IInv

\* A partial file and its entry in ACTIVE_FILESHARES appear together.
LEMMA CreateStep ==
    ASSUME IInv, NEW u \in Uids, Create(u)
    PROVE  IInv'
<1> USE ConstantsAssumption
<1>1. TypeOK'
  BY DEF IInv, TypeOK, Task, Phases, Kinds, Create, Runs, Moved, At
<1>2. WholeFiles'
  BY DEF IInv, WholeFiles, Create, Runs, Moved, At
<1>3. ListedExists'
  BY DEF IInv, ListedExists, Here, Create, Runs, Moved, At
<1>4. \A v \in Uids : Good(v)'
  BY DEF IInv, TypeOK, Task, Phases, Kinds, Good, Filled, Fresh, Registered, Findable,
     LetGo, Ready, Here, Busy, Create, Runs, Moved, At
<1> QED
  BY <1>1, <1>2, <1>3, <1>4 DEF IInv

\* Looking for a file of the same name only moves the task.
LEMMA ProbeStep ==
    ASSUME IInv, NEW u \in Uids, Probe(u)
    PROVE  IInv'
<1> USE ConstantsAssumption
<1>1. TypeOK'
  BY DEF IInv, TypeOK, Task, Phases, Kinds, Probe, Runs, At
<1>2. WholeFiles'
  BY DEF IInv, WholeFiles, Probe, Runs, At
<1>3. ListedExists'
  BY DEF IInv, ListedExists, Here, Probe, Runs, At
<1>4. \A v \in Uids : Good(v)'
  BY DEF IInv, TypeOK, Task, Phases, Kinds, Good, Filled, Fresh, Registered, Findable,
     LetGo, Ready, Here, Busy, Probe, Runs, At
<1> QED
  BY <1>1, <1>2, <1>3, <1>4 DEF IInv

\* A task whose content has the announced hash is full.
LEMMA FinishStep ==
    ASSUME IInv, NEW u \in Uids, task[u].phase = "active",
           task[u].content = task[u].hash, task' = Moved(u, "full"),
           UNCHANGED <<conn, streams, active, temps, images, shared, listed, records,
                       avatar, dropped, sweep>>
    PROVE  IInv'
<1> USE ConstantsAssumption
<1>1. TypeOK'
  BY DEF IInv, TypeOK, Task, Phases, Kinds, Moved, At
<1>2. WholeFiles'
  BY DEF IInv, WholeFiles, Moved, At
<1>3. ListedExists'
  BY DEF IInv, ListedExists, Here, Moved, At
<1>4. \A v \in Uids : Good(v)'
  BY DEF IInv, TypeOK, Task, Phases, Kinds, Good, Filled, Fresh, Registered, Findable,
     LetGo, Ready, Here, Busy, Moved, At
<1> QED
  BY <1>1, <1>2, <1>3, <1>4 DEF IInv

\* An avatar in place is set, and the task leaves its tables.
LEMMA PublishAvatarStep ==
    ASSUME IInv, NEW u \in Uids, PublishAvatar(u)
    PROVE  IInv'
<1> USE ConstantsAssumption
<1>1. TypeOK'
  BY DEF IInv, TypeOK, Task, Phases, Kinds, PublishAvatar, Runs, Released, Over
<1>2. WholeFiles'
  BY DEF IInv, WholeFiles, PublishAvatar, Runs, Released, Over
<1>3. ListedExists'
  BY DEF IInv, ListedExists, Here, PublishAvatar, Runs, Released, Over
<1>4. \A v \in Uids : Good(v)'
  BY DEF IInv, TypeOK, Task, Phases, Kinds, Good, Filled, Fresh, Registered, Findable,
     LetGo, Ready, Here, Busy, PublishAvatar, Runs, Released, Over
<1> QED
  BY <1>1, <1>2, <1>3, <1>4 DEF IInv

\* An abort that leaves a file behind: only once the session is gone.
LEMMA CancelStep ==
    ASSUME IInv, NEW u \in Uids, task[u].phase = "checked",
           task' = [task EXCEPT ![u] = Over(task[u])], Guarded(u, temps \cup {u}),
           task[u].aborted,
           UNCHANGED <<conn, images, shared, listed, records, avatar, dropped, sweep>>
    PROVE  IInv'
<1> USE ConstantsAssumption
<1>0. temps' = temps \cup {u} /\ UNCHANGED <<streams, active>>
  BY DEF IInv, Good, Registered, Guarded
<1>1. TypeOK'
  BY <1>0 DEF IInv, TypeOK, Task, Phases, Kinds, Over
<1>2. WholeFiles'
  BY DEF IInv, WholeFiles, Guarded, Over
<1>3. ListedExists'
  BY DEF IInv, ListedExists, Here, Guarded, Over
<1>4. \A v \in Uids : Good(v)'
  BY DEF IInv, TypeOK, Task, Phases, Kinds, Good, Filled, Fresh, Registered, Findable,
     LetGo, Ready, Here, Busy, Guarded, Over
<1> QED
  BY <1>1, <1>2, <1>3, <1>4 DEF IInv

\* A session that leaves CONNECTIONS leaves its transfers as they are.
LEMMA RemoveStep ==
    ASSUME IInv, NEW s \in Sessions, Remove(s)
    PROVE  IInv'
<1> USE ConstantsAssumption
<1>1. TypeOK'
  BY DEF IInv, TypeOK, Task, Phases, Kinds, Remove
<1>2. WholeFiles'
  BY DEF IInv, WholeFiles, Remove
<1>3. ListedExists'
  BY DEF IInv, ListedExists, Here, Remove
<1>4. \A v \in Uids : Good(v)'
  BY DEF IInv, TypeOK, Task, Phases, Kinds, Good, Filled, Fresh, Registered, Findable,
     LetGo, Ready, Here, Busy, Remove
<1> QED
  BY <1>1, <1>2, <1>3, <1>4 DEF IInv

\* Only tasks that are registered with the session are aborted.
LEMMA CloseStep ==
    ASSUME IInv, NEW s \in Sessions, CloseStreams(s)
    PROVE  IInv'
<1> USE ConstantsAssumption
<1>1. TypeOK'
  BY DEF IInv, TypeOK, Task, Phases, Kinds, CloseStreams, Aborted
<1>2. WholeFiles'
  BY DEF IInv, WholeFiles, CloseStreams, Aborted
<1>3. ListedExists'
  BY DEF IInv, ListedExists, Here, CloseStreams, Aborted
<1>4. \A v \in Uids : Good(v)'
  BY DEF IInv, TypeOK, Task, Phases, Kinds, Good, Filled, Fresh, Registered, Findable,
     LetGo, Ready, Here, Busy, CloseStreams, Aborted
<1> QED
  BY <1>1, <1>2, <1>3, <1>4 DEF IInv

\* The directory of a session goes once it is not connected.
LEMMA RemoveFilesStep ==
    ASSUME IInv, NEW s \in Sessions, RemoveFiles(s)
    PROVE  IInv'
<1> USE ConstantsAssumption
<1>1. TypeOK'
  BY DEF IInv, TypeOK, Task, Phases, Kinds, RemoveFiles, Persistent
<1>2. WholeFiles'
  BY DEF IInv, WholeFiles, RemoveFiles, Persistent
<1>3. ListedExists'
  BY DEF IInv, ListedExists, Here, RemoveFiles, Persistent
<1>4. \A v \in Uids : Good(v)'
  BY DEF IInv, TypeOK, Task, Phases, Kinds, Good, Filled, Fresh, Registered, Findable,
     LetGo, Ready, Here, Busy, RemoveFiles, Persistent
<1> QED
  BY <1>1, <1>2, <1>3, <1>4 DEF IInv

\* The lists of a session go last.
LEMMA ForgetStep ==
    ASSUME IInv, NEW s \in Sessions, Forget(s)
    PROVE  IInv'
<1> USE ConstantsAssumption
<1>1. TypeOK'
  BY DEF IInv, TypeOK, Task, Phases, Kinds, Forget, Owned
<1>2. WholeFiles'
  BY DEF IInv, WholeFiles, Forget, Owned
<1>3. ListedExists'
  BY DEF IInv, ListedExists, Here, Forget, Owned
<1>4. \A v \in Uids : Good(v)'
  BY DEF IInv, TypeOK, Task, Phases, Kinds, Good, Filled, Fresh, Registered, Findable,
     LetGo, Ready, Here, Busy, Forget, Owned
<1> QED
  BY <1>1, <1>2, <1>3, <1>4 DEF IInv

\* A token of an upload names a session, a content and a name.
LEMMA RequestStep ==
    ASSUME IInv, NEW s \in Sessions, NEW u \in Uids, NEW kind \in Kinds,
           NEW h \in Contents, NEW n \in Names, NEW c \in Contents,
           Request(s, u, kind, h, n, c)
    PROVE  IInv'
<1> USE ConstantsAssumption
<1>1. TypeOK'
  BY DEF IInv, TypeOK, Task, Phases, Kinds, Request, Approved
<1>2. WholeFiles' /\ ListedExists'
  BY DEF IInv, WholeFiles, ListedExists, Here, Request
<1>3. \A v \in Uids : Good(v)'
  BY DEF IInv, TypeOK, Task, Phases, Kinds, Good, Filled, Fresh, Registered, Findable,
     LetGo, Ready, Here, Busy, Request, Approved
<1> QED
  BY <1>1, <1>2, <1>3 DEF IInv

\* A picture in place becomes a record or goes again.
LEMMA PublishImageStep ==
    ASSUME IInv, NEW u \in Uids, PublishImage(u)
    PROVE  IInv'
<1> USE ConstantsAssumption
<1> DEFINE h == task[u].hash
<1>1. h \in Contents /\ task[u].owner \in Sessions
  BY DEF IInv, Good, Filled, PublishImage, Runs
<1>2. images' \in [Contents -> Contents \cup {None}] /\ WholeFiles'
  <2>1. CASE images' = images
    BY <2>1 DEF IInv, TypeOK, WholeFiles
  <2>2. CASE images' = [images EXCEPT ![h] = None]
    BY <1>1, <2>2 DEF IInv, TypeOK, WholeFiles
  <2> QED
    BY <2>1, <2>2 DEF PublishImage
<1>3. records' \in [Contents -> 0 .. MaxRecords]
  <2>1. CASE records' = records
    BY <2>1 DEF IInv, TypeOK
  <2>2. CASE records[h] < MaxRecords /\ records' = [records EXCEPT ![h] = @ + 1]
    BY <1>1, <2>2 DEF IInv, TypeOK
  <2> QED
    BY <2>1, <2>2 DEF PublishImage
<1>4. streams' \in [Sessions -> SUBSET Uids] /\ task' \in [Uids -> Task]
  BY <1>1 DEF IInv, TypeOK, PublishImage, Released, Over, Task, Phases
<1>5. TypeOK'
  BY <1>2, <1>3, <1>4 DEF IInv, TypeOK, PublishImage, Released
<1>6. ListedExists'
  BY DEF IInv, ListedExists, Here, PublishImage, Released
<1>7. \A v \in Uids : Good(v)'
  BY DEF IInv, TypeOK, Task, Phases, Kinds, Good, Filled, Fresh, Registered, Findable,
     LetGo, Ready, Here, Busy, PublishImage, Runs, Released, Over
<1> QED
  BY <1>2, <1>5, <1>6, <1>7 DEF IInv

\* A fileshare in place is offered, and the task leaves its tables.
LEMMA PublishFileStep ==
    ASSUME IInv, NEW u \in Uids, PublishFile(u)
    PROVE  IInv'
<1> USE ConstantsAssumption
<1> DEFINE s == task[u].owner
           file == [name |-> task[u].name, hash |-> task[u].hash, key |-> u]
<1>1. /\ s \in Sessions /\ task[u] \in Task /\ task[u].phase = "named"
      /\ task[u].kind = "File" /\ file \in AvailableFile
      /\ Here(s) => shared[s][file.name] # None
  BY DEF IInv, TypeOK, Good, Filled, Ready, PublishFile, Runs, AvailableFile
<1>2. UNCHANGED <<conn, images, shared, records, avatar, dropped, sweep>>
  BY DEF PublishFile
<1>3. CASE task[u].insert /\ conn[s] = "gone"
  <2>1. End(u) /\ listed' = listed
    BY <1>3 DEF PublishFile
  <2> QED
    BY <1>1, <1>2, <2>1, EndStep DEF Busy
<1>4. CASE ~(task[u].insert /\ conn[s] = "gone")
  <2> HIDE DEF file
  <2>1. listed' = listed \/ listed' = [listed EXCEPT ![s] = @ \cup {file}]
    BY DEF PublishFile, file
  <2>2. listed' \in [Sessions -> SUBSET AvailableFile] /\ ListedExists'
    <3>1. CASE listed' = listed
      BY <1>2, <3>1 DEF IInv, TypeOK, ListedExists, Here
    <3>2. CASE listed' = [listed EXCEPT ![s] = @ \cup {file}]
      BY <1>1, <1>2, <3>2 DEF IInv, TypeOK, ListedExists, Here
    <3> QED BY <2>1, <3>1, <3>2
  <2>3. /\ task' = [task EXCEPT ![u] = Over(task[u])]
        /\ active' = active \ {u}
        /\ streams' = IF Here(s) THEN [streams EXCEPT ![s] = @ \ {u}] ELSE streams
        /\ temps' = temps
    BY <1>4 DEF PublishFile
  <2>4. /\ task' \in [Uids -> Task]
        /\ task'[u].phase = "over" /\ task'[u].owner = s /\ ~task'[u].aborted
        /\ \A v \in Uids \ {u} : task'[v] = task[v]
    BY <1>1, <2>3 DEF IInv, TypeOK, Over, Task, Phases
  <2>5. /\ streams' \in [Sessions -> SUBSET Uids]
        /\ \A x \in Sessions : streams'[x] \subseteq streams[x]
        /\ Here(s) => u \notin streams'[s]
    BY <1>1, <2>3 DEF IInv, TypeOK
  <2>6. TypeOK'
    BY <1>2, <2>2, <2>3, <2>4, <2>5 DEF IInv, TypeOK
  <2>7. WholeFiles'
    BY <1>2 DEF IInv, WholeFiles
  <2>8. u \in temps => ~Here(s)
    BY <1>1 DEF IInv, Good, Findable
  <2>9. Good(u)'
    BY <1>1, <1>2, <2>3, <2>4, <2>5, <2>8 DEF IInv, TypeOK, Task, Phases, Kinds, Good,
       Filled, Fresh, Registered, Findable, LetGo, Ready, Here, Busy
  <2>10. ASSUME NEW v \in Uids \ {u} PROVE Good(v)'
    <3>1. Good(v) /\ v # u /\ v \in Uids /\ task'[v] = task[v] /\ task[v] \in Task
      BY <2>4 DEF IInv, TypeOK
    <3> QED
      BY <1>2, <2>3, <2>5, <3>1 DEF Good, Filled, Fresh, Registered, Findable, LetGo,
         Ready, Here, Busy, Task
  <2> QED
    BY <2>2, <2>6, <2>7, <2>9, <2>10 DEF IInv
<1> QED
  BY <1>3, <1>4

\* A step that changes nothing.
LEMMA StutterStep ==
    ASSUME IInv, UNCHANGED vars
    PROVE  IInv'
BY DEF vars, IInv, TypeOK, WholeFiles, ListedExists, Good, Filled, Fresh, Registered,
   Findable, LetGo, Ready, Here, Busy

\* Every step of a task.
LEMMA TransferStep ==
    ASSUME IInv, NEW u \in Uids, Step(u)
    PROVE  IInv'
<1>1. CASE Expire(u)
  BY <1>1, ExpireStep
<1>2. CASE Connect(u)
  BY <1>2, ConnectStep
<1>3. CASE Metadata(u)
  <2>1. CASE End(u)
    BY <1>3, <2>1, EndStep DEF Metadata, Runs, Busy
  <2>2. CASE task' = Moved(u, "checked") /\ UNCHANGED <<streams, active, temps>>
    BY <1>3, <2>2, MetadataStep DEF Metadata, Runs
  <2> QED
    BY <1>3, <2>1, <2>2 DEF Metadata
<1>4. CASE Create(u)
  BY <1>4, CreateStep
<1>5. CASE Finish(u)
  <2>1. CASE End(u)
    BY <1>5, <2>1, EndStep DEF Finish, Runs, Busy
  <2>2. CASE ~End(u)
    BY <1>5, <2>2, FinishStep DEF Finish, Runs
  <2> QED
    BY <2>1, <2>2
<1>6. CASE Probe(u)
  BY <1>6, ProbeStep
<1>7. CASE Rename(u)
  BY <1>7, RenameStep
<1>8. CASE PublishFile(u)
  BY <1>8, PublishFileStep
<1>9. CASE PublishImage(u)
  BY <1>9, PublishImageStep
<1>10. CASE PublishAvatar(u)
  BY <1>10, PublishAvatarStep
<1>11. CASE Fail(u)
  BY <1>11, EndStep DEF Fail, Busy
<1>12. CASE Cancel(u)
  <2>1. CASE Guarded(u, temps)
    BY <1>12, <2>1, EndStep DEF Cancel, End, Busy
  <2>2. CASE task[u].phase = "checked" /\ Guarded(u, temps \cup {u})
    BY <1>12, <2>2, CancelStep DEF Cancel
  <2> QED
    BY <1>12, <2>1, <2>2 DEF Cancel
<1>13. CASE Serve(u)
  BY <1>13, EndStep DEF Serve, Runs, Busy
<1> QED
  BY <1>1, <1>2, <1>3, <1>4, <1>5, <1>6, <1>7, <1>8, <1>9, <1>10, <1>11, <1>12,
     <1>13 DEF Step

\* Every step of the server keeps the invariant.
LEMMA NextGood == IInv /\ [Next]_vars => IInv'
<1> SUFFICES ASSUME IInv, [Next]_vars PROVE IInv'
  OBVIOUS
<1>1. CASE Asks
  BY <1>1, RequestStep, DuplicateStep, AvatarStep, AskStep DEF Asks
<1>2. CASE Pictures
  BY <1>2, DropStep, RemoveImagesStep, SweepKeepStep, SweepRemoveStep DEF Pictures
<1>3. CASE \E u \in Uids : Step(u)
  BY <1>3, TransferStep
<1>4. CASE \E s \in Sessions : Teardown(s)
  BY <1>4, RemoveStep, CloseStep, RemoveFilesStep, ForgetStep DEF Teardown
<1>5. CASE UNCHANGED vars
  BY <1>5, StutterStep
<1> QED
  BY <1>1, <1>2, <1>3, <1>4, <1>5 DEF Next

\* The inductive invariant holds in every reachable state.
THEOREM Transferring == Spec => []IInv
BY InitGood, NextGood, PTL DEF Spec

\* Every variable keeps its type.
THEOREM TypeCorrect == Spec => []TypeOK
<1>1. IInv => TypeOK
  BY DEF IInv
<1> QED
  BY <1>1, Transferring, PTL

\* What server_images holds under a hash has that hash.
THEOREM FilesWhole == Spec => []WholeFiles
<1>1. IInv => WholeFiles
  BY DEF IInv
<1> QED
  BY <1>1, Transferring, PTL

\* What a connected session offers is on the disk.
THEOREM ListingsExist == Spec => []ListedExists
<1>1. IInv => ListedExists
  BY DEF IInv
<1> QED
  BY <1>1, Transferring, PTL

\* A transfer that has ended leaves nothing with a connected session.
THEOREM EndedIsTidy == Spec => []Tidy
<1>1. IInv => Tidy
  BY DEF IInv, TypeOK, Tidy, Good, Filled, Findable, LetGo
<1> QED
  BY <1>1, Transferring, PTL

=============================================================================
