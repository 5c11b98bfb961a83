------------------------------ MODULE History ------------------------------
(***************************************************************************)
(* The stored messages of the lobby (chat/src/config/messages.rs) and the  *)
(* packet handlers that change them (chat/src/network/server/mod.rs).      *)
(*                                                                         *)
(* The records and the id counter sit behind one lock, and every change    *)
(* rewrites the file before the lock is released, so memory and disk agree *)
(* between two steps.  A handler takes the lock more than once: it looks a *)
(* message up by id, decides, and acts on the id later.                    *)
(***************************************************************************)
EXTENDS Naturals, Sequences, FiniteSets

CONSTANTS
    Sessions,   \* the sessions, each with the user it belongs to
    Rank,       \* the role of each: 0 user, 1 moderator, 2 owner
    Limits,     \* what max_persistent_messages may be set to
    PinLimits,  \* what max_pinned_messages may be set to
    MaxSaid,    \* bound: the messages that are said
    None        \* no operation, no reply

ASSUME RankAssumption   == Rank \in [Sessions -> 0..2]
ASSUME LimitsAssumption == /\ Limits \subseteq Nat /\ Limits # {}
                           /\ PinLimits \subseteq Nat /\ PinLimits # {}
ASSUME NoneAssumption   == None \notin Nat

VARIABLES
    records,  \* History::records
    next,     \* History::next
    op,       \* what each handler has looked up and not acted on yet
    said      \* history: how many messages were said, which tells them apart

vars == <<records, next, op, said>>

\* A stored message; msg is what the id is supposed to stand for.
Record == [id : Nat, msg : Nat, author : Sessions, media : BOOLEAN,
           reply : Nat \cup {None}, target : Nat \cup {None},
           hearts : SUBSET Sessions, edited : BOOLEAN, pinned : BOOLEAN]

\* A reply or a deletion that passed its check, and a message or a deletion
\* that was stored and not told to the clients yet.
Op == [do : {"reply", "delete", "tell", "untell"}, id : Nat, msg : Nat]

\* Types, and the records within the largest limit there ever was.
TypeOK ==
    /\ records \in Seq(Record)
    /\ \E limit \in Limits : Len(records) <= limit
    /\ next \in Nat
    /\ op \in [Sessions -> Op \cup {None}]
    /\ said \in Nat

-----------------------------------------------------------------------------
(* The records.                                                            *)

\* The newest n elements of a sequence.
Newest(s, n) == IF Len(s) <= n THEN s ELSE SubSeq(s, Len(s) - n + 1, Len(s))

\* Vec::remove.
Without(s, k) == [i \in 1..Len(s) - 1 |-> IF i < k THEN s[i] ELSE s[i + 1]]

\* History::find: the index of record id, if kept.
find(id) == {i \in DOMAIN records : records[i].id = id}

\* History::new: the id after the last stored one.
continue(kept) == IF kept = <<>> THEN 0 ELSE kept[Len(kept)].id + 1

Begin(s, do, id, msg) == op' = [op EXCEPT ![s] = [do |-> do, id |-> id, msg |-> msg]]

Done(s) == op' = [op EXCEPT ![s] = None]

\* A handler that has looked nothing up.
Idle(s) == op[s] = None

\* The message a handler is about to store replies to what it looked up.
Replying(s) == op[s] # None /\ op[s].do = "reply"

Init ==
    /\ records = <<>>
    /\ next = 0
    /\ op = [s \in Sessions |-> None]
    /\ said = 0

-----------------------------------------------------------------------------
(* The packet handlers.                                                    *)

\* MessageRequest with a reply: the message must exist.
CheckReply(s) ==
    /\ Idle(s)
    /\ \E i \in DOMAIN records : Begin(s, "reply", records[i].id, records[i].msg)
    /\ UNCHANGED <<records, next, said>>

\* push: a message of the lobby is appended and the oldest are trimmed.  A
\* limit of nothing stores nothing; a picture or a clip replies to nothing.
Say(s, media, limit) ==
    /\ Idle(s) \/ (Replying(s) /\ ~media)
    /\ said < MaxSaid
    /\ said' = said + 1
    /\ next' = next + 1
    /\ LET record == [id |-> next, msg |-> said, author |-> s, media |-> media,
                      reply  |-> IF Replying(s) THEN op[s].id ELSE None,
                      target |-> IF Replying(s) THEN op[s].msg ELSE None,
                      hearts |-> {}, edited |-> FALSE, pinned |-> FALSE]
       IN  records' = IF limit = 0 THEN records ELSE Newest(Append(records, record), limit)
    /\ Begin(s, "tell", next, said)

\* next_id: a message of a channel, or with the history off.
SayUnkept(s) ==
    /\ Idle(s) \/ Replying(s)
    /\ said < MaxSaid
    /\ said' = said + 1
    /\ next' = next + 1
    /\ Done(s)
    /\ UNCHANGED records

\* send_to_all, of what was stored or deleted.
Tell(s) ==
    /\ op[s] # None /\ op[s].do \in {"tell", "untell"}
    /\ Done(s)
    /\ UNCHANGED <<records, next, said>>

\* DeleteRequest: the author is looked up, and must be oneself, or of a lower
\* rank than a moderator.
CheckDelete(s) ==
    /\ Idle(s)
    /\ \E i \in DOMAIN records :
          /\ \/ records[i].author = s
             \/ Rank[s] >= 1 /\ Rank[records[i].author] < Rank[s]
          /\ Begin(s, "delete", records[i].id, records[i].msg)
    /\ UNCHANGED <<records, next, said>>

\* Mutant: a deleted newest message gives its id back.
DeleteReclaims(s) ==
    /\ op[s] # None /\ op[s].do = "delete"
    /\ IF find(op[s].id) = {} THEN Done(s) /\ UNCHANGED <<records, next>>
       ELSE \E i \in find(op[s].id) :
              /\ records' = Without(records, i)
              /\ next' = IF i = Len(records) THEN records[i].id ELSE next
              /\ Begin(s, "untell", op[s].id, op[s].msg)
    /\ UNCHANGED said

\* delete: the message with that id goes, if there still is one.
Delete(s) ==
    /\ op[s] # None /\ op[s].do = "delete"
    /\ IF find(op[s].id) = {} THEN Done(s) /\ UNCHANGED records
       ELSE \E i \in find(op[s].id) :
              /\ records' = Without(records, i)
              /\ Begin(s, "untell", op[s].id, op[s].msg)
    /\ UNCHANGED <<next, said>>

\* heart: toggles the user's heart.
Heart(s) ==
    /\ Idle(s)
    /\ \E i \in DOMAIN records :
          records' = [records EXCEPT ![i].hearts = IF s \in @ THEN @ \ {s} ELSE @ \cup {s}]
    /\ UNCHANGED <<next, op, said>>

\* edit: one's own text messages only.
Edit(s) ==
    /\ Idle(s)
    /\ \E i \in DOMAIN records :
          /\ records[i].author = s /\ ~records[i].media
          /\ records' = [records EXCEPT ![i].edited = TRUE]
    /\ UNCHANGED <<next, op, said>>

Pinned == {i \in DOMAIN records : records[i].pinned}

\* pin: a moderator toggles a pin, and no pin goes past the limit.
Pin(s, limit) ==
    /\ Idle(s) /\ Rank[s] >= 1
    /\ \E i \in DOMAIN records :
          /\ records[i].pinned \/ Cardinality(Pinned) < limit
          /\ records' = [records EXCEPT ![i].pinned = ~@]
    /\ UNCHANGED <<next, op, said>>

\* Mutant: loading numbers the records from nothing again.
RestartRenumbers ==
    /\ records' \in {[i \in DOMAIN records |-> [records[i] EXCEPT !.id = i - 1]], <<>>}
    /\ next' = continue(records')
    /\ op' = [s \in Sessions |-> None]
    /\ UNCHANGED said

\* The server restarts and loads the file; one that will not verify, as after a
\* crash in the middle of a write, is an empty history.
Restart ==
    /\ records' \in {records, <<>>}
    /\ next' = continue(records')
    /\ op' = [s \in Sessions |-> None]
    /\ UNCHANGED said

-----------------------------------------------------------------------------

HandlerStep(s) ==
    \/ CheckReply(s) \/ SayUnkept(s) \/ Tell(s) \/ CheckDelete(s) \/ Delete(s)
    \/ Heart(s) \/ Edit(s)
    \/ \E media \in BOOLEAN, limit \in Limits : Say(s, media, limit)
    \/ \E limit \in PinLimits : Pin(s, limit)

Next == Restart \/ \E s \in Sessions : HandlerStep(s)

Spec == Init /\ [][Next]_vars

-----------------------------------------------------------------------------
(* Properties.                                                             *)

\* The stored ids rise in record order, and the next one is above them all,
\* across trims, deletions, lowered limits and restarts: what the binary search
\* of position and every page cursor rest on.
RisingIds ==
    /\ \A i, j \in DOMAIN records : i < j => records[i].id < records[j].id
    /\ \A i \in DOMAIN records : records[i].id < next

\* An id that a handler looked up still stands for the same message, or for
\* none, when the handler gets to act on it: a deletion never takes a message
\* whose author was not checked, whatever other handlers do in between.
CheckedIsNamed ==
    \A s \in Sessions : op[s] # None =>
        \A i \in find(op[s].id) : records[i].msg = op[s].msg

\* A stored reply never comes to point at another message than the one it
\* answered, also after the newest messages were deleted and their ids handed
\* out again by a restart.
RepliesStay ==
    \A k \in DOMAIN records : records[k].reply # None =>
        \A i \in find(records[k].reply) : records[i].msg = records[k].target

\* There are never more pins than max_pinned_messages was ever set to.
PinsBounded ==
    \E limit \in PinLimits : Cardinality(Pinned) <= limit

=============================================================================
