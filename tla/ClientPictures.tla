--------------------------- MODULE ClientPictures ---------------------------
(***************************************************************************)
(* The pictures of a client's panes: the captions that offer, defer or     *)
(* wait for a picture, the look-ups in the cache on disk, the requests to  *)
(* the server and the slots they hold, and the answers, which tasks of     *)
(* their own decode (chat/src/bin/client/tui/{state,event,mod}.rs,         *)
(* chat/src/network/client/{mod,image}.rs, chat/src/cache.rs).             *)
(*                                                                         *)
(* A picture is named by its hash.  Every task is on its own, so what is   *)
(* on its way between two steps is a count per hash.                       *)
(***************************************************************************)
EXTENDS Naturals, Sequences, FiniteSets, FiniteSetsExt, SequencesExt

CONSTANTS
    Hashes,
    MaxFetches,   \* MAX_IMAGE_FETCHES
    PaneLines,    \* HISTORY_LIMIT
    MaxTokens     \* bound: look-ups, requests and answers on their way

ASSUME PictureAssumption == {MaxFetches, PaneLines, MaxTokens} \subseteq Nat \ {0}

VARIABLES
    lines,      \* messages: the captions of the channel on screen
    parked,     \* the pane of the other channel
    loads,      \* image_loads
    lookups,    \* fetch_image tasks
    requests,   \* image_requests
    fetching,   \* image_fetching
    wire,       \* requests the server has not answered
    decoding,   \* answers being decoded
    misses,     \* events ImageRequest
    found,      \* events ImageData with a picture
    lost,       \* events ImageData without one
    cached,     \* the hashes in the cache
    online,     \* write_stream is set
    auto,       \* auto_show_images
    offered     \* history: a caption was shown that waits for a click

pictureVars == <<lines, parked, loads, lookups, requests, fetching, wire, decoding, misses,
                 found, lost, cached, online, auto, offered>>

Pictures == {"deferred", "waiting", "absent", "gone", "ready"}
Line     == [hash : Hashes, pic : Pictures]
Nothing  == [h \in Hashes |-> 0]

Plus(count, h)  == [count EXCEPT ![h] = @ + 1]
Minus(count, h) == [count EXCEPT ![h] = @ - 1]
Times(seq, h)   == Cardinality({i \in DOMAIN seq : seq[i] = h})

\* The k-th of a set of places.
Nth(places, k) == CHOOSE i \in places : Cardinality({j \in places : j <= i}) = k

Lines(h, pics) == {i \in DOMAIN lines : lines[i].hash = h /\ lines[i].pic \in pics}

\* What will still come back for a hash.
Tokens(h) ==
    Times(loads, h) + lookups[h] + misses[h] + Times(requests, h) + wire[h] + decoding[h]
        + found[h] + lost[h]

Room == MapThenSumSet(Tokens, Hashes) < MaxTokens

PicturesTypeOK ==
    /\ lines \in Seq(Line) /\ Len(lines) <= PaneLines
    /\ parked \in Seq(Line) /\ Len(parked) <= PaneLines
    /\ \A count \in {lookups, wire, decoding, misses, found, lost} : count \in [Hashes -> Nat]
    /\ Len(fetching) <= MaxFetches
    /\ cached \subseteq Hashes

PicturesInit ==
    /\ lines = <<>> /\ parked = <<>> /\ loads = <<>> /\ requests = <<>> /\ fetching = <<>>
    /\ lookups = Nothing /\ wire = Nothing /\ decoding = Nothing
    /\ misses = Nothing /\ found = Nothing /\ lost = Nothing
    /\ cached = {} /\ online = TRUE /\ auto \in BOOLEAN /\ offered = FALSE

-----------------------------------------------------------------------------
(* Captions.                                                               *)

Pushed(pane, h, pic) ==
    LET all == Append(pane, [hash |-> h, pic |-> pic])
    IN  IF Len(all) > PaneLines THEN Tail(all) ELSE all

Tasks == <<lookups, fetching, wire, decoding, misses, found, lost, cached, online, auto>>

\* The packet ImageDisplay: with pictures shown at once, its picture is looked
\* up, or decoded and cached; otherwise it is only offered.
Announced(shown) == online /\ (auto <=> shown)

\* cache::store and cache::load: a file is named by its hash, and one that
\* cannot be read back is a miss.
Stored(h) == cached \cup {h}

Loaded(h, hit) == hit => h \in cached

\* ImagePending: shown in this channel and not in the cache.
Pending(h) ==
    /\ Announced(TRUE) /\ Room
    /\ lines' = Pushed(lines, h, "waiting")
    /\ requests' = Append(requests, h)
    /\ UNCHANGED <<parked, loads, Tasks, offered>>

\* ImageOffer: pictures are shown on a click only.
Offer(h) ==
    /\ Announced(FALSE)
    /\ lines' = Pushed(lines, h, "absent")
    /\ offered' = TRUE
    /\ UNCHANGED <<parked, loads, requests, Tasks>>

\* ImageParked, and the captions of a history page: for the other channel, or
\* for this one if it is on screen by now.
Parked(h, here) ==
    /\ online
    /\ LET pic == IF auto THEN "deferred" ELSE "absent" IN
       IF here THEN lines' = Pushed(lines, h, pic) /\ UNCHANGED parked
       ELSE parked' = Pushed(parked, h, pic) /\ UNCHANGED lines
    /\ offered' = (offered \/ ~auto)
    /\ UNCHANGED <<loads, requests, Tasks>>

\* ImageDisplay: decoded before it is shown; data that came along is cached.
Display(h) ==
    /\ Announced(TRUE)
    /\ lines' = Pushed(lines, h, "ready")
    /\ cached' = Stored(h)
    /\ UNCHANGED <<parked, loads, requests, lookups, fetching, wire, decoding, misses, found,
                   lost, online, auto, offered>>

Settings ==
    /\ auto' = ~auto
    /\ UNCHANGED <<lines, parked, loads, requests, lookups, fetching, wire, decoding, misses,
                   found, lost, cached, online, offered>>

-----------------------------------------------------------------------------
(* What the user does.                                                     *)

\* load_visible: the frame asks for the deferred pictures it reaches.
Draw(visible) ==
    LET asks == {i \in visible : lines[i].pic = "deferred"} IN
    /\ asks # {} /\ Room
    /\ lines' = [i \in DOMAIN lines |->
                    IF i \in asks THEN [lines[i] EXCEPT !.pic = "waiting"] ELSE lines[i]] \o <<>>
    /\ loads' = loads \o [k \in 1..Cardinality(asks) |-> lines[Nth(asks, k)].hash]
    /\ UNCHANGED <<parked, requests, Tasks, offered>>

\* request_image, then fetch_image.
Click(i) ==
    /\ online /\ Room /\ lines[i].pic \in {"absent", "gone"}
    /\ lines' = [lines EXCEPT ![i].pic = "waiting"]
    /\ lookups' = Plus(lookups, lines[i].hash)
    /\ UNCHANGED <<parked, loads, requests, fetching, wire, decoding, misses, found, lost,
                   cached, online, auto, offered>>

\* Mutant: a caption that is parked while it waits keeps waiting.
SetAsideWaits(pane) == pane

SetAside(pane) ==
    [i \in DOMAIN pane |->
        IF pane[i].pic = "waiting" THEN [pane[i] EXCEPT !.pic = "deferred"] ELSE pane[i]] \o <<>>

\* switch_channel
Switch ==
    /\ lines' = parked /\ parked' = SetAside(lines)
    /\ UNCHANGED <<loads, requests, Tasks, offered>>

-----------------------------------------------------------------------------
(* The tick: cache look-ups for the loads, then take_image_requests.       *)

\* Whether the request for h is dropped: all its captions were scrolled away.
ScrolledAway(h, visible) == Lines(h, {"waiting"}) # {} /\ Lines(h, {"waiting"}) \cap visible = {}

Dropped(visible) == {h \in ToSet(requests) : ScrolledAway(h, visible)}

\* The requests left: the first request of a hash that is dropped goes and
\* defers its captions; a second one finds none waiting and is sent.
Kept(visible) ==
    LET first(i) == \A j \in 1..(i - 1) : requests[j] # requests[i]
        stays    == {i \in DOMAIN requests : requests[i] \in Dropped(visible) => ~first(i)}
    IN  [k \in 1..Cardinality(stays) |-> requests[Nth(stays, k)]] \o <<>>

Sent(visible) == SubSeq(Kept(visible), 1, Min({Len(Kept(visible)), MaxFetches - Len(fetching)}))

Tick(visible) ==
    /\ loads # <<>> \/ (online /\ requests # <<>>)
    /\ loads' = <<>>
    /\ lookups' = [h \in Hashes |-> lookups[h] + Times(loads, h)]
    /\ IF online
       THEN /\ fetching' = fetching \o Sent(visible)
            /\ wire' = [h \in Hashes |-> wire[h] + Times(Sent(visible), h)]
            /\ requests' = SubSeq(Kept(visible), Len(Sent(visible)) + 1, Len(Kept(visible)))
            /\ lines' = [i \in DOMAIN lines |->
                            IF lines[i].pic = "waiting" /\ lines[i].hash \in Dropped(visible)
                            THEN [lines[i] EXCEPT !.pic = "deferred"] ELSE lines[i]] \o <<>>
       ELSE UNCHANGED <<fetching, wire, requests, lines>>
    /\ UNCHANGED <<parked, decoding, misses, found, lost, cached, online, auto, offered>>

-----------------------------------------------------------------------------
(* Tasks and the server.                                                   *)

Elsewhere == <<lines, parked, loads, requests, fetching, online, auto, offered>>

\* fetch_image: a picture that is in the cache may be unreadable there.
LookUp(h, hit) ==
    /\ lookups[h] > 0
    /\ Loaded(h, hit)
    /\ lookups' = Minus(lookups, h)
    /\ IF hit THEN found' = Plus(found, h) /\ UNCHANGED misses
       ELSE misses' = Plus(misses, h) /\ UNCHANGED found
    /\ UNCHANGED <<Elsewhere, wire, decoding, lost, cached>>

\* The server answers every request, with no data if the picture is gone.
ServerAnswers(h) ==
    /\ online /\ wire[h] > 0
    /\ wire' = Minus(wire, h) /\ decoding' = Plus(decoding, h)
    /\ UNCHANGED <<Elsewhere, lookups, misses, found, lost, cached>>

Decode(h, ok) ==
    /\ decoding[h] > 0
    /\ decoding' = Minus(decoding, h)
    /\ IF ok THEN found' = Plus(found, h) /\ cached' = Stored(h) /\ UNCHANGED lost
       ELSE lost' = Plus(lost, h) /\ UNCHANGED <<found, cached>>
    /\ UNCHANGED <<Elsewhere, lookups, wire, misses>>

\* The cache is at MAX_IMAGE_CACHE and drops its oldest picture, or a file did
\* not verify.
Evict(h) ==
    /\ h \in cached
    /\ cached' = cached \ {h}
    /\ UNCHANGED <<Elsewhere, lookups, wire, decoding, misses, found, lost>>

-----------------------------------------------------------------------------
(* Events.                                                                 *)

ApplyMiss(h) ==
    /\ misses[h] > 0
    /\ misses' = Minus(misses, h)
    /\ requests' = Append(requests, h)
    /\ UNCHANGED <<lines, parked, loads, lookups, fetching, wire, decoding, found, lost, cached,
                   online, auto, offered>>

\* Mutant: only a picture that arrived frees its slot.
FetchedWhole(h, ok) ==
    LET at == {i \in DOMAIN fetching : fetching[i] = h}
    IN  IF at = {} \/ ~ok THEN fetching ELSE RemoveAt(fetching, Min(at))

\* fetched()
Fetched(h, ok) ==
    LET at == {i \in DOMAIN fetching : fetching[i] = h}
    IN  IF at = {} THEN fetching ELSE RemoveAt(fetching, Min(at))

\* deliver_image: one line takes it, the oldest one it fits.
Delivered(h, ok) ==
    LET fits == Lines(h, IF ok THEN {"absent", "waiting"} ELSE {"waiting"})
    IN  IF fits = {} THEN lines
        ELSE [lines EXCEPT ![Min(fits)].pic = IF ok THEN "ready" ELSE "gone"]

ApplyData(h, ok) ==
    /\ IF ok THEN found[h] > 0 /\ found' = Minus(found, h) /\ UNCHANGED lost
       ELSE lost[h] > 0 /\ lost' = Minus(lost, h) /\ UNCHANGED found
    /\ fetching' = Fetched(h, ok)
    /\ lines' = Delivered(h, ok)
    /\ UNCHANGED <<parked, loads, lookups, requests, wire, decoding, misses, cached, online,
                   auto, offered>>

\* disconnected(): the tasks go on, what the loop holds is cleared.
Disconnect ==
    /\ online
    /\ online' = FALSE
    /\ lines' = <<>> /\ parked' = <<>> /\ loads' = <<>> /\ requests' = <<>> /\ fetching' = <<>>
    /\ wire' = Nothing
    /\ offered' = FALSE
    /\ UNCHANGED <<lookups, decoding, misses, found, lost, cached, auto>>

Return ==
    /\ ~online
    /\ online' = TRUE
    /\ UNCHANGED <<lines, parked, loads, lookups, requests, fetching, wire, decoding, misses,
                   found, lost, cached, auto, offered>>

-----------------------------------------------------------------------------
PicturesNext ==
    \/ \E h \in Hashes : Pending(h) \/ Offer(h) \/ Display(h) \/ ServerAnswers(h) \/ Evict(h) \/ ApplyMiss(h)
    \/ \E h \in Hashes, flag \in BOOLEAN :
          Parked(h, flag) \/ LookUp(h, flag) \/ Decode(h, flag) \/ ApplyData(h, flag)
    \/ \E visible \in SUBSET DOMAIN lines : Draw(visible) \/ Tick(visible)
    \/ \E i \in DOMAIN lines : Click(i)
    \/ Settings \/ Switch \/ Disconnect \/ Return

PicturesSpec == PicturesInit /\ [][PicturesNext]_pictureVars

-----------------------------------------------------------------------------
(* Properties.                                                             *)

\* A caption that says its picture is coming is right: for every caption that
\* waits, a look-up, a request or an answer is on its way, whatever was
\* scrolled away, switched, evicted or cut off meanwhile (load_visible,
\* take_image_requests, switch_channel).  Captions offered for a click are the
\* exception: one of them takes the picture another one asked for.
PictureIsComing ==
    ~offered => \A h \in Hashes : Cardinality(Lines(h, {"waiting"})) <= Tokens(h)

\* Every slot that is held waits for an answer that is on its way: slots are
\* given back however a picture fails, and none is lost when the connection
\* ends (App::fetched, App::disconnected).
SlotsComeBack ==
    \A h \in Hashes : Times(fetching, h) <= wire[h] + decoding[h] + found[h] + lost[h]

\* "Fills the waiting or offered captions of a picture" (deliver_image): no
\* caption waits for a picture that nothing will bring.
EveryCaptionIsFilled ==
    \A h \in Hashes : Lines(h, {"waiting"}) # {} => Tokens(h) > 0
=============================================================================
