----------------------------- MODULE Transfers -----------------------------
(***************************************************************************)
(* File transfers on the server: the requests that mint a token, the tasks *)
(* that take an upload in (download) or send a shared file out (upload),   *)
(* the directories they build in, and what a session's end does to them.   *)
(*                                                                         *)
(* A step of a task reaches from one await to the next.  An aborted task   *)
(* ends at its next await: it may finish the step that it is in, and takes *)
(* no other.  Voice clips go the way of pictures and the server's icon the *)
(* way of an avatar.  A content stands for its own SHA-256, and the key a  *)
(* fileshare is sealed with is named after the upload that drew it.        *)
(***************************************************************************)
EXTENDS Integers, FiniteSets

CONSTANTS
    Sessions,    \* session ids; each is one login of a user of its own
    Uids,        \* ids of transfers
    Contents,    \* contents of files, each its own hash
    Names,       \* file names
    MaxUploads,  \* max_client_parallel_uploads
    MaxRecords,  \* bound on the history's records of one picture
    None

ASSUME ConstantsAssumption ==
    /\ MaxUploads \in Nat
    /\ MaxRecords \in Nat
    /\ None \notin Contents \cup Uids \cup Sessions \cup Names
    /\ None \notin {"File", "Image", "Avatar", "Download"}
    /\ None \notin [content : Contents, key : Uids]

VARIABLES
    conn,     \* a session's entry in CONNECTIONS, or how far its teardown is
    streams,  \* file_streams of a session: the tasks its end will abort
    task,     \* the transfers, from their token on
    active,   \* ACTIVE_FILESHARES
    temps,    \* files under the id of their upload, in either directory
    images,   \* server_images: what is stored under each hash
    shared,   \* the upload directory of each user
    listed,   \* AVAILABLE_FILES
    records,  \* how many records of the history name a picture
    avatar,   \* the picture each profile names
    dropped,  \* pictures that remove_images is about to delete
    sweep     \* the sweep in progress

vars == <<conn, streams, task, active, temps, images, shared, listed, records,
          avatar, dropped, sweep>>

Kinds == {"File", "Image", "Avatar"}

Phases == {"idle", "token", "open", "checked", "active", "full", "probed",
           "named", "over"}

\* A fileshare on disk, and the entry that offers it for download.
Sealed == [content : Contents, key : Uids]

AvailableFile == [name : Names, hash : Contents, key : Uids]

Task == [phase : Phases, owner : Sessions \cup {None},
         kind : Kinds \cup {"Download", None}, hash : Contents \cup {None},
         name : Names \cup {None}, content : Contents \cup {None},
         insert : BOOLEAN, aborted : BOOLEAN, cut : BOOLEAN]

Unused == [phase |-> "idle", owner |-> None, kind |-> None, hash |-> None,
           name |-> None, content |-> None, insert |-> FALSE,
           aborted |-> FALSE, cut |-> FALSE]

\* A transfer whose token has been handed out.
Approved(s, kind, h, n, c) ==
    [phase |-> "token", owner |-> s, kind |-> kind, hash |-> h, name |-> n,
     content |-> c, insert |-> FALSE, aborted |-> FALSE, cut |-> FALSE]

\* A task in another phase; one that was aborted takes no other step.
At(t, phase, insert) ==
    [phase |-> phase, owner |-> t.owner, kind |-> t.kind, hash |-> t.hash,
     name |-> t.name, content |-> t.content, insert |-> insert,
     aborted |-> t.aborted, cut |-> t.aborted]

Aborted(t) ==
    [phase |-> t.phase, owner |-> t.owner, kind |-> t.kind, hash |-> t.hash,
     name |-> t.name, content |-> t.content, insert |-> t.insert,
     aborted |-> TRUE, cut |-> t.cut]

\* A task that has ended, of which only its session and its kind matter.
Over(t) ==
    [phase |-> "over", owner |-> t.owner, kind |-> t.kind, hash |-> None,
     name |-> None, content |-> None, insert |-> FALSE, aborted |-> FALSE,
     cut |-> FALSE]

NoSweep == [phase |-> "no", hashes |-> {}, uids |-> {}]

Init ==
    /\ conn = [s \in Sessions |-> "here"]
    /\ streams = [s \in Sessions |-> {}]
    /\ task = [u \in Uids |-> Unused]
    /\ active = {}
    /\ temps = {}
    /\ images = [h \in Contents |-> None]
    /\ shared = [s \in Sessions |-> [n \in Names |-> None]]
    /\ listed = [s \in Sessions |-> {}]
    /\ records = [h \in Contents |-> 0]
    /\ avatar = [s \in Sessions |-> None]
    /\ dropped = {}
    /\ sweep = NoSweep

Here(s) == conn[s] = "here"

Owned(s) == {u \in Uids : task[u].owner = s}

\* Uploads of a session that are counted against its limit.
Running(s) == active \cap Owned(s)

Persistent(u) == task[u].kind \in {"Image", "Avatar"}

NamedByProfile(h) == \E s \in Sessions : avatar[s] = h

\* stored: a record of the history or a profile names the picture.
Stored(h) == records[h] > 0 \/ NamedByProfile(h)

-----------------------------------------------------------------------------
(* The requests of the main connection.                                    *)

\* An approved upload: its token waits in PENDING_TOKENS.  A picture that is
\* stored already is not uploaded again.
Request(s, u, kind, h, n, c) ==
    /\ Here(s)
    /\ task[u].phase = "idle"
    /\ kind # "File" => ~Stored(h)
    /\ Cardinality(Running(s)) < MaxUploads
    /\ task' = [task EXCEPT ![u] = Approved(s, kind, h, n, c)]
    /\ UNCHANGED <<conn, streams, active, temps, images, shared, listed,
                   records, avatar, dropped, sweep>>

\* A picture that the server keeps is said again without an upload, and is a
\* record of the history when it is said in the lobby.
Duplicate(s, h) ==
    /\ Here(s)
    /\ Stored(h)
    /\ records[h] < MaxRecords
    /\ records' = [records EXCEPT ![h] = @ + 1]
    /\ UNCHANGED <<conn, streams, task, active, temps, images, shared, listed,
                   avatar, dropped, sweep>>

\* A profile takes a picture that the server keeps and can read, or drops its
\* own, as an account that is deleted does; either sweeps what nothing names
\* any more.  At most one sweep runs at a time here.
SetAvatar(s, h) ==
    /\ Here(s)
    /\ sweep = NoSweep
    /\ h # None => Stored(h) /\ images[h] # None
    /\ avatar' = [avatar EXCEPT ![s] = h]
    /\ sweep' = [phase |-> "listed", hashes |-> {g \in Contents : images[g] # None},
                 uids |-> {u \in temps : Persistent(u)}]
    /\ UNCHANGED <<conn, streams, task, active, temps, images, shared, listed,
                   records, dropped>>

\* A record of a picture is deleted, or trimmed off by a new one.  The files
\* that nothing names are known under the lock and deleted after it.
DropRecord(h) ==
    /\ records[h] > 0
    /\ records' = [records EXCEPT ![h] = @ - 1]
    /\ dropped' = IF records[h] = 1 /\ ~NamedByProfile(h)
                  THEN dropped \cup {h} ELSE dropped
    /\ UNCHANGED <<conn, streams, task, active, temps, images, shared, listed,
                   avatar, sweep>>

RemoveImages(h) ==
    /\ h \in dropped
    /\ dropped' = dropped \ {h}
    /\ images' = [images EXCEPT ![h] = None]
    /\ UNCHANGED <<conn, streams, task, active, temps, shared, listed, records,
                   avatar, sweep>>

\* sweep_images reads what is named after it has read the directory.
SweepKeep ==
    /\ sweep.phase = "listed"
    /\ sweep' = [phase |-> "doomed", hashes |-> {h \in sweep.hashes : ~Stored(h)},
                 uids |-> sweep.uids]
    /\ UNCHANGED <<conn, streams, task, active, temps, images, shared, listed,
                   records, avatar, dropped>>

\* It deletes the rest, uploads that are still being built included.
SweepRemove ==
    /\ sweep.phase = "doomed"
    /\ images' = [h \in Contents |-> IF h \in sweep.hashes THEN None ELSE images[h]]
    /\ temps' = temps \ sweep.uids
    /\ sweep' = NoSweep
    /\ UNCHANGED <<conn, streams, task, active, shared, listed, records, avatar,
                   dropped>>

\* A download of a listed file.
AskDownload(s, u, owner) ==
    /\ Here(s)
    /\ Here(owner)
    /\ task[u].phase = "idle"
    /\ \E f \in listed[owner] :
         task' = [task EXCEPT ![u] = Approved(s, "Download", f.hash, f.name, None)]
    /\ UNCHANGED <<conn, streams, active, temps, images, shared, listed,
                   records, avatar, dropped, sweep>>

-----------------------------------------------------------------------------
(* A transfer's task.                                                      *)

\* The guard of a task that ends: it cleans up after the task if the session
\* is still connected.
Guarded(u, tmps) ==
    LET s == task[u].owner
    IN  IF Here(s)
        THEN /\ streams' = [streams EXCEPT ![s] = @ \ {u}]
             /\ active' = active \ {u}
             /\ temps' = IF u \in active THEN tmps \ {u} ELSE tmps
        ELSE temps' = tmps /\ UNCHANGED <<streams, active>>

\* Mutant: the guard forgets ACTIVE_FILESHARES.
EndKeepsActive(u) ==
    /\ task' = [task EXCEPT ![u] = Over(task[u])]
    /\ LET s == task[u].owner
       IN  streams' = IF Here(s) THEN [streams EXCEPT ![s] = @ \ {u}] ELSE streams
    /\ UNCHANGED <<active, temps>>

End(u) ==
    /\ task' = [task EXCEPT ![u] = Over(task[u])]
    /\ Guarded(u, temps)

\* A task takes its next step; an aborted one takes no other.
Runs(u, phase) == task[u].phase = phase /\ ~task[u].cut

Moved(u, phase) == [task EXCEPT ![u] = At(task[u], phase, task[u].insert)]

\* The watchdog drops a token that is older than five seconds.
Expire(u) ==
    /\ task[u].phase = "token"
    /\ task' = [task EXCEPT ![u] = Over(task[u])]
    /\ UNCHANGED <<conn, streams, active, temps, images, shared, listed,
                   records, avatar, dropped, sweep>>

\* Mutant: the task is not registered with its session.
ConnectUnregistered(u) ==
    /\ task[u].phase = "token"
    /\ task' = IF Here(task[u].owner) THEN Moved(u, "open")
               ELSE [task EXCEPT ![u] = Over(task[u])]
    /\ UNCHANGED <<conn, streams, active, temps, images, shared, listed,
                   records, avatar, dropped, sweep>>

\* The client presents the token.  The task finds the session's entry and
\* registers with it, or ends.
Connect(u) ==
    /\ task[u].phase = "token"
    /\ LET s == task[u].owner
       IN  IF Here(s)
           THEN /\ task' = Moved(u, "open")
                /\ streams' = [streams EXCEPT ![s] = @ \cup {u}]
           ELSE /\ task' = [task EXCEPT ![u] = Over(task[u])]
                /\ UNCHANGED streams
    /\ UNCHANGED <<conn, active, temps, images, shared, listed, records, avatar,
                   dropped, sweep>>

\* The metadata, checked against the limit of parallel uploads.
Metadata(u) ==
    /\ Runs(u, "open")
    /\ task[u].kind # "Download"
    /\ IF Cardinality(Running(task[u].owner)) < MaxUploads
       THEN task' = Moved(u, "checked") /\ UNCHANGED <<streams, active, temps>>
       ELSE End(u)
    /\ UNCHANGED <<conn, images, shared, listed, records, avatar, dropped, sweep>>

\* The directory and the file are made, and the upload is active.
Create(u) ==
    /\ Runs(u, "checked")
    /\ temps' = temps \cup {u}
    /\ active' = active \cup {u}
    /\ task' = Moved(u, "active")
    /\ UNCHANGED <<conn, streams, images, shared, listed, records, avatar,
                   dropped, sweep>>

\* Mutant: the content is not compared with its hash.
FinishUnverified(u) ==
    /\ Runs(u, "active")
    /\ IF u \in active
       THEN task' = Moved(u, "full") /\ UNCHANGED <<streams, active, temps>>
       ELSE End(u)
    /\ UNCHANGED <<conn, images, shared, listed, records, avatar, dropped, sweep>>

\* The last chunk is written, and the hash of what came must be the one that
\* was announced.
Finish(u) ==
    /\ Runs(u, "active")
    /\ IF u \in active /\ task[u].content = task[u].hash
       THEN task' = Moved(u, "full") /\ UNCHANGED <<streams, active, temps>>
       ELSE End(u)
    /\ UNCHANGED <<conn, images, shared, listed, records, avatar, dropped, sweep>>

\* The name in place: what it is the first file of, is inserted.
Target(u) == IF Persistent(u) THEN images[task[u].hash]
             ELSE shared[task[u].owner][task[u].name]

Probe(u) ==
    /\ Runs(u, "full")
    /\ task' = [task EXCEPT ![u] = At(task[u], "probed", Target(u) = None)]
    /\ UNCHANGED <<conn, streams, active, temps, images, shared, listed,
                   records, avatar, dropped, sweep>>

\* The file takes its place, over whatever was there; without the file the
\* upload ends.
Rename(u) ==
    /\ Runs(u, "probed")
    /\ IF u \in temps
       THEN /\ temps' = temps \ {u}
            /\ task' = Moved(u, "named")
            /\ images' = IF Persistent(u)
                         THEN [images EXCEPT ![task[u].hash] = task[u].content]
                         ELSE images
            /\ shared' = IF Persistent(u) THEN shared
                         ELSE [shared EXCEPT ![task[u].owner][task[u].name] =
                                 [content |-> task[u].content, key |-> u]]
            /\ UNCHANGED <<streams, active>>
       ELSE End(u) /\ UNCHANGED <<images, shared>>
    /\ UNCHANGED <<conn, listed, records, avatar, dropped, sweep>>

\* A fileshare is offered for download, unless its name was taken before; a
\* user without a list makes the task panic.
PublishFile(u) ==
    LET s == task[u].owner
        file == [name |-> task[u].name, hash |-> task[u].hash, key |-> u]
    IN  /\ Runs(u, "named")
        /\ task[u].kind = "File"
        /\ listed' = IF task[u].insert /\ conn[s] # "gone"
                     THEN [listed EXCEPT ![s] = @ \cup {file}] ELSE listed
        /\ IF task[u].insert /\ conn[s] = "gone" THEN End(u)
           ELSE /\ active' = active \ {u}
                /\ task' = [task EXCEPT ![u] = Over(task[u])]
                /\ streams' = IF Here(s) THEN [streams EXCEPT ![s] = @ \ {u}] ELSE streams
                /\ UNCHANGED temps
        /\ UNCHANGED <<conn, images, shared, records, avatar, dropped, sweep>>

\* What is left to do for a picture that is in place.
Released(u) ==
    LET s == task[u].owner
    IN  /\ active' = active \ {u}
        /\ task' = [task EXCEPT ![u] = Over(task[u])]
        /\ streams' = IF Here(s) THEN [streams EXCEPT ![s] = @ \ {u}] ELSE streams
        /\ UNCHANGED <<conn, temps, shared, listed>>

\* A picture said in the lobby becomes a record; elsewhere, or with the
\* history off, it is deleted unless it was there before.
PublishImage(u) ==
    LET h == task[u].hash
    IN  /\ Runs(u, "named")
        /\ task[u].kind = "Image"
        /\ \/ /\ records[h] < MaxRecords
              /\ records' = [records EXCEPT ![h] = @ + 1]
              /\ UNCHANGED images
           \/ /\ images' = IF task[u].insert THEN [images EXCEPT ![h] = None] ELSE images
              /\ UNCHANGED records
        /\ Released(u)
        /\ UNCHANGED <<avatar, dropped, sweep>>

\* An avatar is set and the directory is swept.
PublishAvatar(u) ==
    /\ Runs(u, "named")
    /\ task[u].kind = "Avatar"
    /\ sweep = NoSweep
    /\ avatar' = [avatar EXCEPT ![task[u].owner] = task[u].hash]
    /\ sweep' = [phase |-> "listed", hashes |-> {g \in Contents : images[g] # None},
                 uids |-> {v \in temps : Persistent(v)}]
    /\ Released(u)
    /\ UNCHANGED <<images, records, dropped>>

\* The task returns early: the socket closed, a packet did not verify, a size
\* or a kind was wrong, a file could not be made; or it was aborted.
Fail(u) ==
    /\ task[u].phase \in {"open", "checked", "active", "full"}
    /\ End(u)
    /\ UNCHANGED <<conn, images, shared, listed, records, avatar, dropped, sweep>>

\* An aborted task ends at an await.  A file that it was making may be made.
Cancel(u) ==
    /\ task[u].aborted
    /\ task[u].phase \in {"open", "checked", "active", "full", "probed", "named"}
    /\ task' = [task EXCEPT ![u] = Over(task[u])]
    /\ \/ Guarded(u, temps)
       \/ /\ task[u].phase = "checked"
          /\ conn[task[u].owner] \notin {"forget", "gone"} \/ Persistent(u)
          /\ Guarded(u, temps \cup {u})
    /\ UNCHANGED <<conn, images, shared, listed, records, avatar, dropped, sweep>>

\* upload sends a listed file and ends; one that is gone makes it panic.
Serve(u) ==
    /\ Runs(u, "open")
    /\ task[u].kind = "Download"
    /\ End(u)
    /\ UNCHANGED <<conn, images, shared, listed, records, avatar, dropped, sweep>>

-----------------------------------------------------------------------------
(* The end of a session, in the order of remove_connection.                *)

Remove(s) ==
    /\ Here(s)
    /\ conn' = [conn EXCEPT ![s] = "streams"]
    /\ UNCHANGED <<streams, task, active, temps, images, shared, listed,
                   records, avatar, dropped, sweep>>

CloseStreams(s) ==
    /\ conn[s] = "streams"
    /\ conn' = [conn EXCEPT ![s] = "files"]
    /\ streams' = [streams EXCEPT ![s] = {}]
    /\ task' = [u \in Uids |-> IF u \in streams[s] THEN Aborted(task[u]) ELSE task[u]]
    /\ UNCHANGED <<active, temps, images, shared, listed, records, avatar,
                   dropped, sweep>>

RemoveFiles(s) ==
    /\ conn[s] = "files"
    /\ conn' = [conn EXCEPT ![s] = "forget"]
    /\ shared' = [shared EXCEPT ![s] = [n \in Names |-> None]]
    /\ temps' = {u \in temps : Persistent(u) \/ task[u].owner # s}
    /\ UNCHANGED <<streams, task, active, images, listed, records, avatar,
                   dropped, sweep>>

Forget(s) ==
    /\ conn[s] = "forget"
    /\ conn' = [conn EXCEPT ![s] = "gone"]
    /\ active' = active \ Owned(s)
    /\ listed' = [listed EXCEPT ![s] = {}]
    /\ UNCHANGED <<streams, task, temps, images, shared, records, avatar,
                   dropped, sweep>>

-----------------------------------------------------------------------------

Asks ==
    \/ \E s \in Sessions, u \in Uids, kind \in Kinds, h, c \in Contents, n \in Names :
         Request(s, u, kind, h, n, c)
    \/ \E s \in Sessions, h \in Contents : Duplicate(s, h)
    \/ \E s \in Sessions, h \in Contents \cup {None} : SetAvatar(s, h)
    \/ \E s, owner \in Sessions, u \in Uids : AskDownload(s, u, owner)

Pictures ==
    \/ \E h \in Contents : DropRecord(h)
    \/ \E h \in Contents : RemoveImages(h)
    \/ SweepKeep
    \/ SweepRemove

Step(u) ==
    \/ Expire(u) \/ Connect(u) \/ Metadata(u) \/ Create(u) \/ Finish(u)
    \/ Probe(u) \/ Rename(u) \/ PublishFile(u) \/ PublishImage(u)
    \/ PublishAvatar(u) \/ Fail(u) \/ Cancel(u) \/ Serve(u)

Teardown(s) == Remove(s) \/ CloseStreams(s) \/ RemoveFiles(s) \/ Forget(s)

Next == Asks \/ Pictures \/ (\E u \in Uids : Step(u)) \/ (\E s \in Sessions : Teardown(s))

Spec == Init /\ [][Next]_vars

\* The watchdog collects tokens, an abort reaches its task, and a teardown
\* that has begun goes on.  What the peer of a transfer does is left open.
FairSpec ==
    /\ Spec
    /\ \A u \in Uids : WF_vars(Expire(u)) /\ WF_vars(Cancel(u))
    /\ \A s \in Sessions :
         WF_vars(CloseStreams(s)) /\ WF_vars(RemoveFiles(s)) /\ WF_vars(Forget(s))

-----------------------------------------------------------------------------
(* Properties.                                                             *)

\* The type of every variable.
TypeOK ==
    /\ conn \in [Sessions -> {"here", "streams", "files", "forget", "gone"}]
    /\ streams \in [Sessions -> SUBSET Uids]
    /\ task \in [Uids -> Task]
    /\ active \subseteq Uids
    /\ temps \subseteq Uids
    /\ images \in [Contents -> Contents \cup {None}]
    /\ shared \in [Sessions -> [Names -> Sealed \cup {None}]]
    /\ listed \in [Sessions -> SUBSET AvailableFile]
    /\ records \in [Contents -> 0 .. MaxRecords]
    /\ avatar \in [Sessions -> Contents \cup {None}]
    /\ dropped \subseteq Contents
    /\ sweep \in [phase : {"no", "listed", "doomed"}, hashes : SUBSET Contents,
                  uids : SUBSET Uids]

\* "An upload is only named once it is verified": what server_images holds
\* under a hash is the picture with that hash, whoever uploads, sweeps or
\* deletes at the same time.
WholeFiles == \A h \in Contents : images[h] \in {h, None}

\* A transfer that has ended leaves nothing behind while its session goes on:
\* no slot of ACTIVE_FILESHARES, which would count against its limit and hold
\* back its rekeys, no partial file and no registered task.
Tidy ==
    \A u \in Uids :
        task[u].phase = "over" /\ Here(task[u].owner)
            => u \notin active /\ u \notin temps /\ u \notin streams[task[u].owner]

\* While a session is connected, what it offers for download is on the disk.
ListedExists ==
    \A s \in Sessions : Here(s) => \A f \in listed[s] : shared[s][f.name] # None

\* The end of a session ends its transfers, whatever they are waiting for:
\* none of them has a timeout of its own.
RemovalEndsTransfers ==
    \A s \in Sessions, u \in Uids :
        ~Here(s) /\ u \in Owned(s) ~> task[u].phase = "over"

\* "The shared file, with its at-rest key and nonce": the file that is on the
\* disk under a listed name opens with the key of its entry.
ListedIsReadable ==
    \A s \in Sessions : Here(s) =>
        \A f \in listed[s] : shared[s][f.name] # None => shared[s][f.name].key = f.key

=============================================================================
