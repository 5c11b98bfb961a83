--------------------------- MODULE ClientTransfers ---------------------------
(***************************************************************************)
(* The client's half of the file transfers: the requests of uploads        *)
(* (chat/src/bin/client/mod.rs), the tasks that upload and download        *)
(* (chat/src/network/file/client.rs), their rows in the pane               *)
(* (chat/src/bin/client/tui/state.rs) and the end of the session.          *)
(*                                                                         *)
(* A file is named by its hash.  An upload waits in ACTIVE_UPLOADS for its *)
(* approval; a cut avatar or a recorded clip lies in the temp directory    *)
(* till it is sent.  A download is a sequence of chunks; the downloads     *)
(* here have one name, so that their files are one file.  The server's     *)
(* half is module Transfers.                                               *)
(***************************************************************************)
EXTENDS Integers, Sequences, FiniteSets

CONSTANTS
    Files,      \* the files that are uploaded
    Made,       \* those the client makes itself: avatars and clips
    Downloads,  \* the download tasks
    Chunks,     \* the chunks of a download
    MaxAsks,    \* bound: requests to upload
    MaxEpoch    \* bound: sessions

ASSUME ClientTransfersAssumption ==
    Made \subseteq Files /\ Chunks \in Nat \ {0} /\ MaxAsks \in Nat /\ MaxEpoch \in Nat

VARIABLES
    epoch,      \* the session
    prep,       \* the tasks of upload(), each [file, epoch, step, id]
    parked,     \* ACTIVE_UPLOADS
    temps,      \* the files in the temp directory
    requests,   \* on their way to the server
    replies,    \* on their way back: [code, file]
    tasks,      \* the tasks of file::upload, each [file, epoch, step, id]
    wanted,     \* history: the requests made, a sequence of files
    down,       \* the tasks of file::download
    disk        \* the file the downloads write

uploadVars   == <<epoch, prep, parked, temps, requests, replies, tasks, wanted>>
downloadVars == <<down, disk>>
moveVars     == <<epoch, prep, parked, temps, requests, replies, tasks, wanted, down, disk>>

\* sound: the server's copy is whole; wire: the chunks on their way; sent: how many
\* were sent; wrote, hashed: what was written and counted; alone: no other download
\* of the name ran with it; whole: at the report, the file was the one asked for.
Unstarted == [step |-> "idle", sound |-> TRUE, sent |-> 0, wire |-> <<>>, hashed |-> <<>>,
              alone |-> TRUE, whole |-> FALSE, row |-> "none"]

MoveInit ==
    /\ epoch = 1 /\ prep = {} /\ parked = {} /\ temps = {} /\ requests = <<>>
    /\ replies = <<>> /\ tasks = {} /\ wanted = <<>>
    /\ down = [d \in Downloads |-> Unstarted] /\ disk = <<>>

-----------------------------------------------------------------------------
(* Uploads.                                                                *)

Task(f, step, n) == [file |-> f, epoch |-> epoch, step |-> step, id |-> n]

\* upload, send_voice: a task hashes the file, or makes it and puts it in the temp
\* directory.
AskUpload(f) ==
    /\ Len(wanted) < MaxAsks
    /\ wanted' = Append(wanted, f)
    /\ prep' = prep \cup {Task(f, "hash", Len(wanted))}
    /\ UNCHANGED <<epoch, parked, temps, requests, replies, tasks, downloadVars>>

\* check_upload, hash_file, cut_avatar: the file cannot be read, or is refused here.
CheckFails(t) ==
    /\ t.step = "hash"
    /\ prep' = prep \ {t}
    /\ UNCHANGED <<epoch, parked, temps, requests, replies, tasks, wanted, downloadVars>>

Prepare(t) ==
    /\ t.step = "hash"
    /\ temps' = temps \cup ({t.file} \cap Made)
    /\ prep' = (prep \ {t}) \cup {[t EXCEPT !.step = "park"]}
    /\ UNCHANGED <<epoch, parked, requests, replies, tasks, wanted, downloadVars>>

\* Mutant: the request goes out before the file is parked.
FirstSends == "send"

\* The step of a request that is taken first.
First == "park"

\* The file is parked, then it is asked for; a request on the stream of an earlier
\* session is lost.
Advance(t, step) ==
    prep' = IF step = First THEN (prep \ {t}) \cup {[t EXCEPT !.step = "then"]} ELSE prep \ {t}

Park(t) ==
    /\ t.step = (IF First = "park" THEN "park" ELSE "then")
    /\ parked' = parked \cup {t.file}
    /\ Advance(t, "park")
    /\ UNCHANGED <<epoch, temps, requests, replies, tasks, wanted, downloadVars>>

Request(t) ==
    /\ t.step = (IF First = "park" THEN "then" ELSE "park")
    /\ requests' = IF t.epoch = epoch THEN Append(requests, t.file) ELSE requests
    /\ Advance(t, "send")
    /\ UNCHANGED <<epoch, parked, temps, replies, tasks, wanted, downloadVars>>

\* The server approves, refuses (a limit, a mute), or has the picture already.
Answer(code) ==
    /\ requests # <<>>
    /\ requests' = Tail(requests)
    /\ replies' = Append(replies, [code |-> code, file |-> Head(requests)])
    /\ UNCHANGED <<epoch, prep, parked, temps, tasks, wanted, downloadVars>>

\* drop_upload_temp
DropTemp(f) == temps' = temps \ {f}

\* listen_server: an approval starts a task, a duplicate is let go; a refusal is shown.
Hear ==
    /\ replies # <<>>
    /\ replies' = Tail(replies)
    /\ LET a == Head(replies) IN
         \/ /\ a.code = "approve"
            /\ tasks' = tasks \cup {Task(a.file, "find", Cardinality(tasks))}
            /\ UNCHANGED <<parked, temps>>
         \/ /\ a.code = "duplicate"
            /\ parked' = parked \ {a.file}
            /\ IF a.file \in parked THEN DropTemp(a.file) ELSE UNCHANGED temps
            /\ UNCHANGED tasks
         \/ a.code = "refuse" /\ UNCHANGED <<parked, temps, tasks>>
    /\ UNCHANGED <<epoch, prep, requests, wanted, downloadVars>>

Goes(t, step) == tasks' = (tasks \ {t}) \cup {[t EXCEPT !.step = step]}

\* file::upload, after its socket is open: the path is taken from ACTIVE_UPLOADS, and a
\* task that does not find it panics.
FindPath(t) ==
    /\ t.step = "find"
    /\ parked' = parked \ {t.file}
    /\ Goes(t, IF t.file \in parked THEN "open" ELSE "unparked")
    /\ UNCHANGED <<epoch, prep, temps, requests, replies, wanted, downloadVars>>

\* A temp file that another upload of it has dropped makes the task panic too.
OpenFile(t) ==
    /\ t.step = "open"
    /\ Goes(t, IF t.file \in temps \/ t.file \notin Made THEN "send" ELSE "gone")
    /\ UNCHANGED <<epoch, prep, parked, temps, requests, replies, wanted, downloadVars>>

\* send_file, and the row: the sends are not looked at, so the row ends well.
Sent(t) ==
    /\ t.step = "send"
    /\ Goes(t, "done") /\ DropTemp(t.file)
    /\ UNCHANGED <<epoch, prep, parked, requests, replies, wanted, downloadVars>>

\* reset_session.  The tasks go on.
EndSession ==
    /\ epoch < MaxEpoch
    /\ epoch' = epoch + 1 /\ parked' = {} /\ requests' = <<>> /\ replies' = <<>>
    /\ UNCHANGED <<prep, temps, tasks, wanted, downloadVars>>

-----------------------------------------------------------------------------
(* Downloads.                                                              *)

Running(d) == down[d].step = "reading"
Whole(d)   == [i \in 1..Chunks |-> <<d, i>>]
Writes(file, at, c) ==
    [i \in 1..(IF at > Len(file) THEN at ELSE Len(file)) |->
        IF i = at THEN c ELSE IF i <= Len(file) THEN file[i] ELSE <<>>]

\* download: the metadata came; the row is pushed and the file is created.
Create(d, sound) ==
    /\ down[d].step = "idle"
    /\ LET others == {e \in Downloads : Running(e)}
       IN  down' = [e \in Downloads |->
                      IF e = d THEN [Unstarted EXCEPT !.step = "reading", !.sound = sound,
                                     !.alone = others = {}, !.row = "running"]
                      ELSE IF e \in others THEN [down[e] EXCEPT !.alone = FALSE]
                      ELSE down[e]]
    /\ disk' = <<>>
    /\ UNCHANGED uploadVars

\* The server sends a chunk; its last one may not be what was hashed.
SendChunk(d) ==
    /\ Running(d) /\ down[d].sent < Chunks
    /\ LET n == down[d].sent + 1
       IN  down' = [down EXCEPT ![d].sent = n,
                        ![d].wire = Append(@, IF n = Chunks /\ ~down[d].sound THEN <<d, 0>> ELSE <<d, n>>)]
    /\ UNCHANGED <<uploadVars, disk>>

\* Mutant: a chunk counts although it could not be written.
CountedAnyway(written) == TRUE

\* Only what was written is hashed and counted.
Counted(written) == written

\* A chunk is read and written; with the last one the row is given its outcome.
ReadChunk(d, written) ==
    /\ down[d].step = "reading" /\ down[d].wire # <<>>
    /\ LET c      == Head(down[d].wire)
           at     == Len(down[d].hashed) + 1
           hashed == IF Counted(written) THEN Append(down[d].hashed, c) ELSE down[d].hashed
           full   == Counted(written) /\ Len(hashed) = Chunks
       IN  /\ disk' = IF written THEN Writes(disk, at, c) ELSE disk
           /\ down' = [down EXCEPT ![d].wire = Tail(@), ![d].hashed = hashed,
                         ![d].step = IF full THEN "over" ELSE @,
                         ![d].row = IF ~full THEN @ ELSE IF hashed = Whole(d) THEN "ok" ELSE "failed",
                         ![d].whole = disk' = Whole(d)]
    /\ UNCHANGED uploadVars

\* The connection ends before the last chunk: the task returns, the row stays.
CutOff(d) ==
    /\ down[d].step = "reading"
    /\ down' = [down EXCEPT ![d].step = "over", ![d].wire = <<>>]
    /\ UNCHANGED <<uploadVars, disk>>

UploadNext ==
    \/ \E f \in Files : AskUpload(f)
    \/ \E t \in prep : CheckFails(t) \/ Prepare(t) \/ Park(t) \/ Request(t)
    \/ \E code \in {"approve", "duplicate", "refuse"} : Answer(code)
    \/ Hear \/ EndSession
    \/ \E t \in tasks : FindPath(t) \/ OpenFile(t) \/ Sent(t)

DownloadNext ==
    \E d \in Downloads :
        \/ SendChunk(d) \/ CutOff(d)
        \/ \E sound \in BOOLEAN : Create(d, sound)
        \/ \E written \in BOOLEAN : ReadChunk(d, written)

\* Uploads and downloads share no state.
MoveSpec == MoveInit /\ [][UploadNext \/ DownloadNext]_moveVars

-----------------------------------------------------------------------------
(* Properties.                                                             *)

\* file::download: a row that ends well stands for a file that holds every chunk in its
\* order, unless another download wrote to a file of that name meanwhile; a row that
\* ends badly stands for a file that does not.
DownloadedIsWhole ==
    \A d \in Downloads : down[d].alone =>
        /\ down[d].row = "ok" => down[d].whole
        /\ down[d].row = "failed" => ~down[d].whole

AskedOnce(f) == Cardinality({i \in DOMAIN wanted : wanted[i] = f}) = 1

\* The panic of file::upload that its comment keeps for a file nobody offered: an
\* approval finds its file in ACTIVE_UPLOADS while the session lasts, provided the file
\* was asked for once.  (Asked for twice it has one entry and two approvals, and a task
\* of an earlier session may take the entry of a later one.)
ApprovalFindsFile ==
    \A t \in tasks : t.step = "unparked" =>
        t.epoch < epoch \/ ~AskedOnce(t.file)
=============================================================================
