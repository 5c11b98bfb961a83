---------------------------- MODULE ClientProofs ----------------------------
(***************************************************************************)
(* Proofs about the tasks of a client and the voice server it talks to.    *)
(*                                                                         *)
(* ClientSession: where the credentials go depends on the dial and the     *)
(* connection being the newest ones (BoxMatches, ReturnsHome) and on the   *)
(* task that listens falling silent after its last word (EventsEnd).       *)
(*                                                                         *)
(* ClientPictures: each caption that waits has a token on its way, counted *)
(* (Times) through queues, tasks and the wire.  This needs that no caption *)
(* is offered for a click, on screen or in the pane set aside (Coming),    *)
(* and that the pane set aside waits for nothing (PicInv).                 *)
(*                                                                         *)
(* VoiceMessages: a task that holds PLAYER's lock is one of the newest     *)
(* generation or will have its output taken away (StoreHolds).             *)
(*                                                                         *)
(* VoiceRelay: a frame is played once because each hop counts: the server  *)
(* relays a frame once (RelayedOnce) and a client remembers the newest     *)
(* datagram it took (HeardCame).                                           *)
(*                                                                         *)
(* LobbyPane: one page is asked for or on its way at a time (TurnInv), it  *)
(* begins where the pane's replay ends, and it holds all that is kept      *)
(* from there on (PageIs, Covers); ids rise and do not come back to what   *)
(* was deleted (StoreInv).  That an id shown stands for one message needs  *)
(* the same of what is stored and untold and of what is on its way         *)
(* (ShownInv).                                                             *)
(***************************************************************************)
EXTENDS ClientSession, ClientPictures, VoiceMessages, VoiceRelay, LobbyPane,
        FiniteSetTheorems, SequenceTheorems, WellFoundedInduction, TLAPS

-----------------------------------------------------------------------------
(* ClientSession.                                                          *)

Fields     == Addresses \cup {Unset, "text"}
Boxes      == [stage : Stages, field : Fields, busy : BOOLEAN, connected : BOOLEAN, attempt : Nat]
Logins     == {<<>>} \cup {<<b>> : b \in Boxes}
Reconnects == [known : BOOLEAN, due : BOOLEAN, left : Nat, answers : Nat, retrying : BOOLEAN,
               submit : BOOLEAN]
Dials      == [attempt : Nat, addr : Fields]
Conns      == [phase : {"off", "keys", "prompt", "redial", "steps", "in", "rekey", "done"},
               addr : Fields, owes : {"ask", "answer", "keys", "rekey"}, changed : BOOLEAN]

Forms      == [kind : {"passwd", "delete"}, filled : BOOLEAN, armed : BOOLEAN, busy : BOOLEAN]

SessionTyped ==
    /\ form \in {<<>>} \cup {<<f>> : f \in Forms}
    /\ login \in Logins /\ rc \in Reconnects /\ conn \in Conns
    /\ dials \subseteq Dials /\ address \in Fields /\ tries \in Nat

\* The last thing the task that listens says.
LastWords == {"Quit", "HandshakeFailed", "ReconnectFailed", "TofuError"}
Questions == {"username", "login", "register"}
Messages  == {"TofuPrompt", "UsernameRejected", "PasswordRejected", "Authenticated", "passwd", "delete"}
EventSet  == [kind : LastWords \cup Messages, arg : BOOLEAN] \cup [kind : {"Ask"}, arg : Questions]
EventSeqs == Seq(EventSet)

Quiet(q) == \A i \in DOMAIN q : q[i].kind \notin LastWords
Final(q) == \A i \in DOMAIN q : q[i].kind \in LastWords => i = Len(q)

\* After its last words the task is done, and without a task no event waits.
EventsEnd ==
    /\ events \in EventSeqs /\ Final(events)
    /\ conn.phase # "done" => Quiet(events)
    /\ conn.phase = "off" => events = <<>>

\* A dial of the box's last attempt goes to the address dialled last, and so does the
\* connection; there is a connection just when the box says so, or is closed.
BoxMatches ==
    /\ login = <<>> => conn.phase # "off"
    /\ conn.phase # "off" => conn.addr = address
    /\ write => conn.phase # "off"
    /\ login # <<>> =>
          /\ login[1].connected <=> conn.phase # "off"
          /\ login[1].connected => login[1].busy \/ login[1].stage # "address"
          /\ \A d \in dials : d.attempt <= login[1].attempt
          /\ \A d \in dials : d.attempt = login[1].attempt =>
                /\ d.addr = address /\ ~login[1].connected /\ ~rc.due
                /\ login[1].busy => login[1].field = address

\* While the client may still return by itself, the address dialled last is the one that
\* accepted the user, and the box cannot be used to dial another.
ReturnsHome ==
    /\ rc.retrying => rc.known
    /\ gone => ~rc.known
    /\ rc.due => /\ rc.retrying /\ conn.phase = "off"
                 /\ login # <<>> /\ login[1].busy /\ login[1].field = address
    /\ rc.known /\ (rc.left > 0 \/ rc.retrying) =>
          address = home /\ (login # <<>> => login[1].busy \/ login[1].connected)

\* The dials made and those still to make.
TriesCounted ==
    /\ tries <= Tries
    /\ rc.known => tries + rc.left + (IF rc.due THEN 1 ELSE 0) <= Tries

SesInv == SessionTyped /\ EventsEnd /\ BoxMatches /\ ReturnsHome /\ TriesCounted

\* What an event does to the queue.
LEMMA EventAdded ==
    ASSUME NEW q \in EventSeqs, NEW e \in EventSet, Quiet(q)
    PROVE  /\ Append(q, e) \in EventSeqs
           /\ Final(Append(q, e))
           /\ e.kind \notin LastWords => Quiet(Append(q, e))
  <1>1. Append(q, e) \in EventSeqs
    BY DEF EventSeqs
  <1>2. DOMAIN q = 1..Len(q) /\ Len(q) \in Nat
    BY DEF EventSeqs
  <1>3. /\ DOMAIN Append(q, e) = 1..(Len(q) + 1)
        /\ Len(Append(q, e)) = Len(q) + 1
        /\ \A i \in 1..Len(q) : Append(q, e)[i] = q[i]
        /\ Append(q, e)[Len(q) + 1] = e
    BY DEF EventSeqs
  <1>4. Final(Append(q, e))
    BY <1>2, <1>3 DEF Final, Quiet
  <1>. QED
    BY <1>1, <1>2, <1>3, <1>4 DEF Quiet

\* The loop takes an event: what the task that listens says last stays last.
LEMMA EventTaken ==
    ASSUME NEW q \in EventSeqs, q # <<>>, Final(q)
    PROVE  /\ Tail(q) \in EventSeqs /\ Final(Tail(q))
           /\ Quiet(q) => Quiet(Tail(q))
           /\ Head(q).kind \in LastWords => Tail(q) = <<>>
           /\ Head(q) \in EventSet
  <1>1. /\ Tail(q) \in EventSeqs /\ Len(q) \in Nat /\ Len(q) > 0
        /\ DOMAIN q = 1..Len(q) /\ DOMAIN Tail(q) = 1..(Len(q) - 1) /\ Len(Tail(q)) = Len(q) - 1
        /\ \A i \in 1..(Len(q) - 1) : Tail(q)[i] = q[i + 1]
        /\ Head(q) = q[1]
        /\ q[1] \in EventSet
    BY DEF EventSeqs
  <1>2. Final(Tail(q))
    BY <1>1 DEF Final
  <1>3. Quiet(q) => Quiet(Tail(q))
    BY <1>1 DEF Quiet
  <1>4. Head(q).kind \in LastWords => Tail(q) = <<>>
    <2>1. Head(q).kind \in LastWords => Len(Tail(q)) = 0
      BY <1>1 DEF Final
    <2>. QED
      BY <2>1, <1>1 DEF EventSeqs
  <1>. QED
    BY <1>1, <1>2, <1>3, <1>4

\* The events the task sends.
LEMMA EventSaid ==
    ASSUME NEW k \in LastWords \cup Messages, NEW b \in BOOLEAN
    PROVE  Event(k, b) \in EventSet /\ Event(k, b).kind = k
  BY DEF Event, EventSet

\* The questions of a login are events, and no message of a session is the last word.
LEMMA EventAsked ==
    /\ \A a \in Questions : Event("Ask", a) \in EventSet /\ Event("Ask", a).kind = "Ask"
    /\ \A e \in EventSet : e.kind = "Ask" => e.arg \in Questions
    /\ \A k \in Messages : k \notin LastWords
  BY DEF Event, EventSet, LastWords, Messages

\* Arming keeps a return what it is: it spends one of the dials that are left.
LEMMA ArmWorks ==
    ASSUME NEW r \in Reconnects
    PROVE  /\ Arm(r) \in Reconnects
           /\ Arm(r).known = r.known
           /\ Armed(r) => Arm(r).due /\ Arm(r).retrying /\ Arm(r).left = r.left - 1
           /\ ~Armed(r) => ~Arm(r).retrying /\ Arm(r).due = r.due /\ Arm(r).left = r.left
           /\ Armed(r) <=> r.known /\ r.left > 0
  <1>1. CASE Armed(r)
    <2>1. Arm(r) = [r EXCEPT !.left = @ - 1, !.retrying = TRUE, !.answers = 2, !.due = TRUE]
      BY <1>1 DEF Arm, Armed, Reconnects
    <2>2. r.left - 1 \in Nat
      BY <1>1 DEF Armed, Reconnects
    <2>3. Arm(r) \in Reconnects
      <3>1. Arm(r) = [known |-> r.known, due |-> TRUE, left |-> r.left - 1, answers |-> 2,
                      retrying |-> TRUE, submit |-> r.submit]
        BY <2>1 DEF Reconnects
      <3>2. r.known \in BOOLEAN /\ r.submit \in BOOLEAN
        BY DEF Reconnects
      <3>. QED
        BY <2>2, <3>1, <3>2 DEF Reconnects
    <2>4. Arm(r).known = r.known /\ Arm(r).due = TRUE /\ Arm(r).retrying = TRUE /\ Arm(r).left = r.left - 1
      BY <2>1 DEF Reconnects
    <2>. QED
      BY <1>1, <2>3, <2>4 DEF Armed
  <1>2. CASE ~Armed(r)
    <2>1. Arm(r) = [r EXCEPT !.retrying = FALSE]
      BY <1>2 DEF Arm, Armed, Reconnects
    <2>. QED
      BY <1>2, <2>1 DEF Reconnects, Armed
  <1>. QED
    BY <1>1, <1>2

\* A fresh session has nothing to return to.
LEMMA NobodyReturns ==
    Nobody \in Reconnects /\ ~Nobody.known /\ ~Nobody.due /\ ~Nobody.retrying
  BY DEF Nobody, Reconnects

\* The box is there or it is not.
LEMMA BoxUp ==
    ASSUME login \in Logins
    PROVE  /\ login # <<>> => login[1] \in Boxes
           /\ login = <<>> \/ login = <<login[1]>>
  BY DEF Logins

\* The login box is shown.
LEMMA LoginOf ==
    ASSUME NEW b \in Boxes
    PROVE  <<b>> \in Logins /\ <<b>> # <<>> /\ <<b>>[1] = b
  BY DEF Logins

\* The network's and the key prompt's part of a step: the box and the return stay as
\* they are, and the connection goes on.
LEMMA GoesOn ==
    ASSUME SesInv, UNCHANGED <<login, rc, dials, write, form, address, home, gone, tries>>,
           conn.phase # "off", conn' \in Conns, conn'.phase # "off", conn'.addr = conn.addr,
           EventsEnd'
    PROVE  SesInv'
  BY DEF SesInv, SessionTyped, BoxMatches, ReturnsHome, TriesCounted

\* The task that listens, without an event and with one.
LEMMA Unheard ==
    ASSUME SesInv, UNCHANGED <<login, rc, dials, write, form, address, home, gone, tries>>,
           conn.phase \notin {"off", "done"}, conn' \in Conns, conn'.phase # "off",
           conn'.addr = conn.addr, events' = events
    PROVE  SesInv'
  <1>1. EventsEnd'
    BY DEF SesInv, EventsEnd
  <1>. QED
    BY <1>1, GoesOn

\* The task that listens goes on and says something.
LEMMA Heard ==
    ASSUME SesInv, NEW e \in EventSet, UNCHANGED <<login, rc, dials, write, form, address, home, gone, tries>>,
           conn.phase \notin {"off", "done"}, conn' \in Conns, conn'.phase # "off",
           conn'.addr = conn.addr, events' = Append(events, e),
           e.kind \in LastWords => conn'.phase = "done"
    PROVE  SesInv'
  <1>1. events \in EventSeqs /\ Quiet(events) /\ Final(events)
    BY DEF SesInv, EventsEnd
  <1>2. EventsEnd'
    BY <1>1, EventAdded DEF EventsEnd
  <1>. QED
    BY <1>2, GoesOn

\* The task that listens keeps the invariant.
LEMMA NetworkStep == SesInv /\ Network => SesInv'
  <1> SUFFICES ASSUME SesInv, Network
               PROVE  SesInv'
    OBVIOUS
  <1>0. /\ SessionTyped /\ EventsEnd /\ BoxMatches /\ ReturnsHome /\ TriesCounted
        /\ login \in Logins /\ rc \in Reconnects /\ conn \in Conns
        /\ dials \subseteq Dials /\ address \in Fields /\ tries \in Nat
    BY DEF SesInv, SessionTyped
  <1>1. login # <<>> => login[1] \in Boxes
    BY <1>0, BoxUp
  <1>2. Tries \in Nat
    BY SessionAssumption
  \* A dial of the last attempt is the only one.
  <1>3. ASSUME NEW d \in dials, Accepts(d.attempt)
        PROVE  /\ login # <<>> /\ login[1] \in Boxes /\ d.addr = address /\ d \in Dials
               /\ ~login[1].connected /\ conn.phase = "off" /\ ~rc.due /\ events = <<>>
               /\ login[1].busy /\ login[1].field = address /\ d.attempt = login[1].attempt
               /\ \A e \in dials \ {d} : e.attempt < login[1].attempt
    <2>1. login # <<>> /\ login[1] \in Boxes /\ d.attempt = login[1].attempt /\ d \in Dials /\ login[1].busy
      BY <1>0, <1>1, <1>3 DEF Accepts
    <2>2. d.addr = address /\ ~login[1].connected /\ ~rc.due /\ login[1].field = address
      BY <1>0, <2>1 DEF BoxMatches
    <2>3. conn.phase = "off"
      BY <1>0, <2>1, <2>2 DEF BoxMatches
    <2>4. ASSUME NEW e \in dials \ {d}
          PROVE  e.attempt < login[1].attempt
      <3>1. e \in Dials /\ e.attempt <= login[1].attempt
            /\ (e.attempt = login[1].attempt => e.addr = address)
        BY <1>0, <2>1 DEF BoxMatches
      <3>2. e.attempt \in Nat /\ login[1].attempt \in Nat
        BY <3>1, <2>1 DEF Dials, Boxes
      <3>3. e.attempt = d.attempt /\ e.addr = d.addr => e = d
        BY <3>1, <2>1 DEF Dials
      <3>. QED
        BY <2>1, <2>2, <3>1, <3>2, <3>3
    <2>. QED
      BY <1>0, <2>1, <2>2, <2>3, <2>4 DEF EventsEnd
  <1>4. ASSUME NEW d \in dials, DialFails(d)
        PROVE  SesInv'
    <2>1. CASE Accepts(d.attempt)
      <3> DEFINE b == [login[1] EXCEPT !.busy = Armed(rc)]
      <3>1. /\ login' = <<b>> /\ rc' = Arm(rc) /\ dials' = dials \ {d}
            /\ UNCHANGED <<conn, write, events, form, address, home, gone, tries>>
        BY <1>4, <2>1 DEF DialFails, screenVars, historyVars
      <3>2. Armed(rc) \in BOOLEAN
        BY <1>0 DEF Armed, Reconnects
      <3>3. b \in Boxes
        BY <1>3, <2>1, <3>2 DEF Boxes
      <3>4. /\ b.busy = Armed(rc) /\ b.connected = login[1].connected
            /\ b.attempt = login[1].attempt /\ b.field = login[1].field
        BY <1>3, <2>1 DEF Boxes
      <3> HIDE DEF b
      <3>5. login' \in Logins /\ login' # <<>> /\ login'[1] = b
        BY <3>1, <3>3, LoginOf
      <3>a. /\ rc' \in Reconnects /\ rc'.known = rc.known
            /\ Armed(rc) => rc'.due /\ rc'.retrying /\ rc'.left = rc.left - 1
            /\ ~Armed(rc) => ~rc'.retrying /\ ~rc'.due /\ rc'.left = rc.left
            /\ Armed(rc) <=> rc.known /\ rc.left > 0
        BY <1>0, <1>3, <2>1, <3>1, ArmWorks
      <3>b. rc.left \in Nat /\ rc'.left \in Nat
        BY <1>0, <3>a DEF Reconnects
      <3>6. SessionTyped' /\ EventsEnd'
        BY <1>0, <3>1, <3>5, <3>a DEF SessionTyped, EventsEnd
      <3>7. BoxMatches'
        <4>1. \A e \in dials' : e.attempt < login[1].attempt /\ e.attempt \in Nat /\ login[1].attempt \in Nat
          BY <1>0, <1>3, <2>1, <3>1 DEF Dials, Boxes
        <4>. QED
          BY <1>0, <1>3, <2>1, <3>1, <3>4, <3>5, <4>1 DEF BoxMatches
      <3>8. ReturnsHome'
        BY <1>0, <1>3, <2>1, <3>1, <3>4, <3>5, <3>a, <3>b DEF ReturnsHome, BoxMatches
      <3>9. TriesCounted'
        BY <1>0, <1>2, <1>3, <2>1, <3>1, <3>a, <3>b DEF TriesCounted
      <3>. QED
        BY <3>6, <3>7, <3>8, <3>9 DEF SesInv
    <2>2. CASE ~Accepts(d.attempt)
      <3>1. UNCHANGED <<login, rc, conn, write, events, form, address, home, gone, tries>> /\ dials' = dials \ {d}
        BY <1>4, <2>2 DEF DialFails, screenVars, historyVars
      <3>. QED
        BY <1>0, <3>1 DEF SesInv, SessionTyped, EventsEnd, BoxMatches, ReturnsHome, TriesCounted
    <2>. QED
      BY <2>1, <2>2
  <1>5. ASSUME NEW d \in dials, DialOpens(d)
        PROVE  SesInv'
    <2>1. CASE Accepts(d.attempt)
      <3> DEFINE b == [login[1] EXCEPT !.connected = TRUE]
                 c == [Off EXCEPT !.phase = "keys", !.addr = d.addr]
      <3>1. /\ login' = <<b>> /\ conn' = c /\ write' = TRUE /\ dials' = dials \ {d}
            /\ UNCHANGED <<rc, events, form, address, home, gone, tries>>
        BY <1>5, <2>1 DEF DialOpens, screenVars, historyVars
      <3>2. b \in Boxes
        BY <1>3, <2>1 DEF Boxes
      <3>3. /\ b.connected = TRUE /\ b.busy = login[1].busy
            /\ b.attempt = login[1].attempt /\ b.field = login[1].field
        BY <1>3, <2>1 DEF Boxes
      <3>4. c \in Conns /\ c.phase = "keys" /\ c.addr = d.addr
        BY <1>0, <1>3, <2>1 DEF Conns, Off
      <3>5. login[1].busy
        BY <2>1 DEF Accepts
      <3> HIDE DEF b, c
      <3>6. login' \in Logins /\ login' # <<>> /\ login'[1] = b
        BY <3>1, <3>2, LoginOf
      <3>7. SessionTyped' /\ EventsEnd'
        BY <1>0, <1>3, <2>1, <3>1, <3>4, <3>6 DEF SessionTyped, EventsEnd, Quiet, Final
      <3>8. BoxMatches'
        <4>1. \A e \in dials' : e.attempt < login[1].attempt /\ e.attempt \in Nat /\ login[1].attempt \in Nat
          BY <1>0, <1>3, <2>1, <3>1 DEF Dials, Boxes
        <4>2. login'[1].connected /\ login'[1].busy /\ login'[1].attempt = login[1].attempt
          BY <3>3, <3>5, <3>6
        <4>3. conn'.phase # "off" /\ conn'.addr = address'
          BY <1>3, <2>1, <3>1, <3>4
        <4>4. \A e \in dials' : e.attempt <= login'[1].attempt /\ e.attempt # login'[1].attempt
          BY <4>1, <4>2
        <4>. QED
          BY <3>6, <4>2, <4>3, <4>4 DEF BoxMatches
      <3>9. ReturnsHome' /\ TriesCounted'
        BY <1>0, <1>3, <2>1, <3>1, <3>3, <3>6 DEF ReturnsHome, TriesCounted
      <3>. QED
        BY <3>7, <3>8, <3>9 DEF SesInv
    <2>2. CASE ~Accepts(d.attempt)
      <3>1. UNCHANGED <<login, rc, conn, write, events, form, address, home, gone, tries>> /\ dials' = dials \ {d}
        BY <1>5, <2>2 DEF DialOpens, screenVars, historyVars
      <3>. QED
        BY <1>0, <3>1 DEF SesInv, SessionTyped, EventsEnd, BoxMatches, ReturnsHome, TriesCounted
    <2>. QED
      BY <2>1, <2>2
  \* The task that listens.
  <1>6. CASE KeysReady
    <2>1. /\ conn.phase \in {"keys", "rekey"} /\ events' = events
          /\ conn' = [conn EXCEPT !.phase = IF @ = "keys" THEN "steps" ELSE "in"]
          /\ UNCHANGED <<login, rc, dials, write, form, address, home, gone, tries>>
      BY <1>6 DEF KeysReady, Listens, Reads, historyVars
    <2>2. conn' \in Conns /\ conn'.phase # "off" /\ conn'.addr = conn.addr
      BY <1>0, <2>1 DEF Conns
    <2>. QED
      BY <2>1, <2>2, Unheard
  <1>7. ASSUME NEW m \in BOOLEAN, KeysUnknown(m)
        PROVE  SesInv'
    <2>1. /\ conn.phase \in {"keys", "rekey"} /\ events' = Append(events, Event("TofuPrompt", m))
          /\ conn' = [conn EXCEPT !.phase = "prompt", !.owes = conn.phase, !.changed = m]
          /\ UNCHANGED <<login, rc, dials, write, form, address, home, gone, tries>>
      BY <1>7 DEF KeysUnknown, Listens, Reads, historyVars
    <2>2. conn' \in Conns /\ conn'.phase # "off" /\ conn'.addr = conn.addr
      BY <1>0, <2>1 DEF Conns
    <2>3. Event("TofuPrompt", m) \in EventSet /\ Event("TofuPrompt", m).kind \notin LastWords
      BY EventSaid DEF LastWords, Messages
    <2>. QED
      BY <2>1, <2>2, <2>3, Heard
  \* The task ends with its last words.
  <1>8. ASSUME NEW k \in LastWords, NEW f \in BOOLEAN,
               conn.phase \notin {"off", "done"}, conn' = [conn EXCEPT !.phase = "done"],
               events' = Append(events, Event(k, f)), Reads
        PROVE  SesInv'
    <2>1. conn' \in Conns /\ conn'.phase = "done" /\ conn'.addr = conn.addr
      BY <1>0, <1>8 DEF Conns
    <2>2. Event(k, f) \in EventSet
      BY <1>8, EventSaid DEF LastWords, Messages
    <2>. QED
      BY <1>8, <2>1, <2>2, Heard DEF Reads, historyVars
  <1>9. CASE KeysFail
    BY <1>8, <1>9 DEF KeysFail, Listens, LastWords
  <1>10. ASSUME NEW aloud \in BOOLEAN, Ends(aloud)
         PROVE  SesInv'
    BY <1>8, <1>10 DEF Ends, Listens, LastWords
  <1>11. CASE Redials
    <2>1. CASE conn' = [conn EXCEPT !.phase = "keys", !.owes = "ask"] /\ UNCHANGED events
      <3>1. conn' \in Conns /\ conn'.phase # "off" /\ conn'.addr = conn.addr
        BY <1>0, <2>1 DEF Conns
      <3>. QED
        BY <1>11, <2>1, <3>1, Unheard DEF Redials, Listens, Reads, historyVars
    <2>. QED
      BY <1>8, <1>11, <2>1 DEF Redials, Listens, LastWords
  <1>12. ASSUME NEW stage \in {"username", "login", "register"}, NEW again \in BOOLEAN, Asks(stage, again)
         PROVE  SesInv'
    <2> DEFINE no == Event(IF stage = "username" THEN "UsernameRejected" ELSE "PasswordRejected", FALSE)
    <2>1. /\ conn.phase = "steps" /\ conn' = [conn EXCEPT !.owes = "answer"]
          /\ events' = Append(IF again THEN Append(events, no) ELSE events, Event("Ask", stage))
          /\ UNCHANGED <<login, rc, dials, write, form, address, home, gone, tries>>
      BY <1>12 DEF Asks, Listens, Reads, historyVars
    <2>2. conn' \in Conns /\ conn'.phase = "steps" /\ conn'.addr = conn.addr
      BY <1>0, <2>1 DEF Conns
    <2>3. no \in EventSet /\ no.kind \notin LastWords
      <3>1. CASE stage = "username"
        BY <3>1, EventSaid DEF LastWords, Messages
      <3>2. CASE stage # "username"
        BY <3>2, EventSaid DEF LastWords, Messages
      <3>. QED
        BY <3>1, <3>2
    <2>4. Event("Ask", stage) \in EventSet /\ Event("Ask", stage).kind \notin LastWords
      BY EventAsked DEF LastWords, Questions
    <2> HIDE DEF no
    <2>5. events \in EventSeqs /\ Quiet(events)
      BY <1>0, <2>1 DEF EventsEnd
    <2>6. Append(events, no) \in EventSeqs /\ Quiet(Append(events, no))
      BY <2>3, <2>5, EventAdded
    <2>7. EventsEnd'
      BY <2>1, <2>2, <2>4, <2>5, <2>6, EventAdded DEF EventsEnd
    <2>. QED
      BY <2>1, <2>2, <2>7, GoesOn
  <1>13. CASE Accept
    <2>1. /\ conn.phase = "steps" /\ conn' = [conn EXCEPT !.phase = "in"]
          /\ events' = Append(events, Event("Authenticated", FALSE))
          /\ UNCHANGED <<login, rc, dials, write, form, address, home, gone, tries>>
      BY <1>13 DEF Accept, Listens, Reads, historyVars
    <2>2. conn' \in Conns /\ conn'.phase # "off" /\ conn'.addr = conn.addr
      BY <1>0, <2>1 DEF Conns
    <2>3. Event("Authenticated", FALSE) \in EventSet /\ Event("Authenticated", FALSE).kind \notin LastWords
      BY DEF Event, EventSet, LastWords, Messages
    <2>. QED
      BY <2>1, <2>2, <2>3, Heard
  <1>14. CASE Rekey
    <2>1. /\ conn.phase = "in" /\ conn' = [conn EXCEPT !.phase = "rekey"] /\ events' = events
          /\ UNCHANGED <<login, rc, dials, write, form, address, home, gone, tries>>
      BY <1>14 DEF Rekey, Listens, Reads, historyVars
    <2>2. conn' \in Conns /\ conn'.phase # "off" /\ conn'.addr = conn.addr
      BY <1>0, <2>1 DEF Conns
    <2>. QED
      BY <2>1, <2>2, Unheard
  <1>15. ASSUME NEW ok \in BOOLEAN, Answer(ok)
         PROVE  SesInv'
    <2>1. /\ conn.phase = "in" /\ conn' = conn /\ events' = Append(events, Event(form[1].kind, ok))
          /\ UNCHANGED <<login, rc, dials, write, form, address, home, gone, tries>>
          /\ form # <<>>
      BY <1>15 DEF Answer, Listens, Reads, historyVars
    <2>2. form[1].kind \in Messages
      BY <1>0, <2>1 DEF SessionTyped, Forms, Messages
    <2>3. Event(form[1].kind, ok) \in EventSet /\ Event(form[1].kind, ok).kind \notin LastWords
      BY <2>2, EventSaid, EventAsked
    <2>. QED
      BY <1>0, <2>1, <2>3, Heard
  <1>. QED
    BY <1>4, <1>5, <1>6, <1>7, <1>9, <1>10, <1>11, <1>12, <1>13, <1>14, <1>15 DEF Network

-----------------------------------------------------------------------------
\* disconnected() after the task's last words, with what the return was or with Nobody.
LEMMA DropsStep ==
    ASSUME SesInv, NEW r \in {rc, Nobody}, Drops(r), events # <<>>, events' = Tail(events),
           Head(events).kind \in LastWords, login = <<>> => dials = {},
           UNCHANGED <<dials, address, home, tries>>,
           gone' => gone \/ user.logging_out \/ r = Nobody
    PROVE  SesInv'
  <1> DEFINE armed == IF user.logging_out THEN Nobody ELSE r
             n     == IF login = <<>> THEN 0 ELSE login[1].attempt
             b     == [Box(address, n) EXCEPT !.busy = Armed(armed)]
  <1>0. /\ SessionTyped /\ EventsEnd /\ BoxMatches /\ ReturnsHome /\ TriesCounted
        /\ login \in Logins /\ rc \in Reconnects /\ conn \in Conns
        /\ dials \subseteq Dials /\ address \in Fields /\ tries \in Nat /\ Tries \in Nat
    BY SessionAssumption DEF SesInv, SessionTyped
  <1>1. /\ login' = <<b>> /\ rc' = Arm(armed) /\ write' = FALSE /\ conn' = Off /\ form' = <<>>
    BY DEF Drops
  <1>2. n \in Nat /\ \A d \in dials : d.attempt \in Nat /\ d.attempt < n
    <2>1. CASE login = <<>>
      BY <2>1
    <2>2. CASE login # <<>>
      <3>1. conn.phase # "off"
        BY <1>0 DEF EventsEnd
      <3>2. login[1] \in Boxes /\ n = login[1].attempt /\ login[1].attempt \in Nat
        BY <1>0, <2>2, BoxUp DEF Boxes
      <3>3. \A d \in dials : d.attempt \in Nat
        BY <1>0 DEF Dials
      <3>. QED
        BY <1>0, <2>2, <3>1, <3>2, <3>3 DEF BoxMatches
    <2>. QED
      BY <2>1, <2>2
  <1>3. armed \in Reconnects /\ (armed = rc \/ armed = Nobody)
        /\ (gone' => ~armed.known)
    BY <1>0, NobodyReturns DEF ReturnsHome
  <1> HIDE DEF armed, n
  <1>4. Armed(armed) \in BOOLEAN
    BY <1>3 DEF Armed, Reconnects
  <1>5. b \in Boxes
    BY <1>0, <1>2, <1>4 DEF Boxes, Box, Stages
  <1>6. b.busy = Armed(armed) /\ b.connected = FALSE /\ b.field = address /\ b.attempt = n
    BY DEF Box
  <1> HIDE DEF b
  <1>7. login' \in Logins /\ login' # <<>> /\ login'[1] = b
    BY <1>1, <1>5, LoginOf
  <1>8. conn' \in Conns /\ conn'.phase = "off" /\ events' = <<>>
    BY <1>0, <1>1, EventTaken DEF Conns, Off, EventsEnd, Fields
  <1>9. ~armed.due
    <2>1. ~rc.due
      BY <1>0 DEF ReturnsHome, EventsEnd
    <2>. QED
      BY <2>1, <1>3, NobodyReturns
  <1>10. /\ rc' \in Reconnects /\ rc'.known = armed.known
         /\ Armed(armed) => rc'.due /\ rc'.retrying /\ rc'.left = armed.left - 1
         /\ ~Armed(armed) => ~rc'.retrying /\ ~rc'.due /\ rc'.left = armed.left
         /\ Armed(armed) <=> armed.known /\ armed.left > 0
    BY <1>1, <1>3, <1>9, ArmWorks
  <1>11. armed.left \in Nat /\ rc'.left \in Nat
    BY <1>3, <1>10 DEF Reconnects
  <1>12. SessionTyped' /\ EventsEnd'
    <2>1. <<>> \in EventSeqs /\ Final(<<>>) /\ Quiet(<<>>)
      BY DEF EventSeqs, Final, Quiet
    <2>. QED
      BY <1>0, <1>1, <1>7, <1>8, <1>10, <2>1 DEF SessionTyped, EventsEnd
  <1>13. BoxMatches'
    <2>1. ~login'[1].connected /\ login'[1].attempt = n /\ ~write'
      BY <1>1, <1>6, <1>7
    <2>2. \A d \in dials' : d.attempt <= login'[1].attempt /\ d.attempt # login'[1].attempt
      BY <1>2, <2>1
    <2>. QED
      BY <1>7, <1>8, <2>1, <2>2 DEF BoxMatches
  <1>14. ReturnsHome'
    <2>1. armed.known /\ armed.left > 0 => address = home
      BY <1>0, <1>3, NobodyReturns DEF ReturnsHome
    <2>. QED
      BY <1>3, <1>6, <1>7, <1>8, <1>10, <1>11, <2>1 DEF ReturnsHome
  <1>15. TriesCounted'
    <2>1. armed.known => tries + armed.left <= Tries
      BY <1>0, <1>3, <1>9, NobodyReturns DEF TriesCounted, Reconnects
    <2>. QED
      BY <1>0, <1>10, <1>11, <2>1 DEF TriesCounted
  <1>. QED
    BY <1>12, <1>13, <1>14, <1>15 DEF SesInv

\* An event is applied that leaves the box and the return as they are.
LEMMA AppliedOnly ==
    ASSUME SesInv, events # <<>>, events' = Tail(events), form' \in {<<>>} \cup {<<f>> : f \in Forms},
           UNCHANGED <<login, rc, dials, conn, write, address, home, gone, tries>>
    PROVE  SesInv'
  <1>1. EventsEnd'
    BY EventTaken DEF SesInv, EventsEnd
  <1>. QED
    BY <1>1 DEF SesInv, SessionTyped, BoxMatches, ReturnsHome, TriesCounted

\* A dial of the box, and a replayed answer.
LEMMA Dialled ==
    ASSUME NEW b \in Boxes
    PROVE  /\ [b EXCEPT !.busy = TRUE, !.attempt = b.attempt + 1] \in Boxes
           /\ [b EXCEPT !.busy = TRUE, !.attempt = b.attempt + 1].busy = TRUE
           /\ [b EXCEPT !.busy = TRUE, !.attempt = b.attempt + 1].connected = b.connected
           /\ [b EXCEPT !.busy = TRUE, !.attempt = b.attempt + 1].field = b.field
           /\ [b EXCEPT !.busy = TRUE, !.attempt = b.attempt + 1].attempt = b.attempt + 1
           /\ [attempt |-> b.attempt + 1, addr |-> b.field] \in Dials
           /\ b.attempt \in Nat /\ b.attempt + 1 \in Nat /\ b.attempt < b.attempt + 1
           /\ b.field \in Fields
  <1>1. b.attempt \in Nat /\ b.field \in Fields
    BY DEF Boxes
  <1> DEFINE n == b.attempt + 1
  <1>2. n \in Nat /\ b.attempt < n
    BY <1>1
  <1> HIDE DEF n
  <1>3. /\ [b EXCEPT !.busy = TRUE, !.attempt = n] \in Boxes
        /\ [b EXCEPT !.busy = TRUE, !.attempt = n].busy = TRUE
        /\ [b EXCEPT !.busy = TRUE, !.attempt = n].connected = b.connected
        /\ [b EXCEPT !.busy = TRUE, !.attempt = n].field = b.field
        /\ [b EXCEPT !.busy = TRUE, !.attempt = n].attempt = n
        /\ [attempt |-> n, addr |-> b.field] \in Dials
    BY <1>1, <1>2 DEF Boxes, Dials
  <1>. QED
    BY <1>1, <1>2, <1>3 DEF n

\* An answer the client gives for the user is one of those it has left.
LEMMA AnswerReplayed ==
    ASSUME NEW r \in Reconnects, r.answers > 0
    PROVE  LET q == [r EXCEPT !.answers = @ - 1, !.submit = TRUE] IN
           /\ q \in Reconnects /\ q.known = r.known /\ q.due = r.due /\ q.left = r.left
           /\ q.retrying = r.retrying
  <1> DEFINE n == r.answers - 1
  <1>1. n \in Nat
    BY DEF Reconnects
  <1> HIDE DEF n
  <1>2. LET q == [r EXCEPT !.answers = n, !.submit = TRUE] IN
        /\ q \in Reconnects /\ q.known = r.known /\ q.due = r.due /\ q.left = r.left
        /\ q.retrying = r.retrying
    BY <1>1 DEF Reconnects
  <1>. QED
    BY <1>2 DEF n

\* The answer in the box is sent: no dial is on its way.
LEMMA SubmitStep ==
    ASSUME SesInv, login # <<>>, conn.phase # "off", NEW r \in Reconnects, Submit(r),
           r.known = rc.known, r.due = rc.due, r.left = rc.left, r.retrying = rc.retrying,
           UNCHANGED <<dials, write, events, form, address, home, gone, tries>>
    PROVE  SesInv'
  <1> DEFINE b == [login[1] EXCEPT !.field = Unset, !.busy = TRUE]
  <1>0. /\ SessionTyped /\ EventsEnd /\ BoxMatches /\ ReturnsHome /\ TriesCounted
        /\ login \in Logins /\ conn \in Conns
    BY DEF SesInv, SessionTyped
  <1>1. login[1] \in Boxes /\ login[1].connected
    BY <1>0, BoxUp DEF BoxMatches
  <1>2. login' = <<b>> /\ rc' = r
    BY DEF Submit
  <1>3. /\ b \in Boxes /\ b.busy = TRUE /\ b.connected = login[1].connected
        /\ b.attempt = login[1].attempt
    BY <1>1 DEF Boxes, Fields
  <1>4. conn' \in Conns /\ conn'.phase = conn.phase /\ conn'.addr = conn.addr
    BY <1>0 DEF Submit, Conns
  <1> HIDE DEF b
  <1>5. login' \in Logins /\ login' # <<>> /\ login'[1] = b
    BY <1>2, <1>3, LoginOf
  <1>6. SessionTyped' /\ EventsEnd'
    BY <1>0, <1>2, <1>4, <1>5 DEF SessionTyped, EventsEnd
  <1>7. BoxMatches'
    BY <1>0, <1>1, <1>2, <1>3, <1>4, <1>5 DEF BoxMatches
  <1>8. ReturnsHome' /\ TriesCounted'
    BY <1>0, <1>2, <1>3, <1>4, <1>5 DEF ReturnsHome, TriesCounted
  <1>. QED
    BY <1>6, <1>7, <1>8 DEF SesInv

\* The loop keeps the invariant, whichever event it takes.
LEMMA LoopStep == SesInv /\ Loop => SesInv'
  <1> SUFFICES ASSUME SesInv, Loop
               PROVE  SesInv'
    OBVIOUS
  <1>0. /\ SessionTyped /\ EventsEnd /\ BoxMatches /\ ReturnsHome /\ TriesCounted
        /\ login \in Logins /\ rc \in Reconnects /\ conn \in Conns
        /\ dials \subseteq Dials /\ address \in Fields /\ tries \in Nat /\ Tries \in Nat
        /\ form \in {<<>>} \cup {<<f>> : f \in Forms}
    BY SessionAssumption DEF SesInv, SessionTyped
  <1>1. login # <<>> => login[1] \in Boxes
    BY <1>0, BoxUp
  <1>2. ASSUME events # <<>>, events' = Tail(events)
        PROVE  /\ conn.phase # "off" /\ ~rc.due /\ Head(events) \in EventSet
               /\ events' \in EventSeqs /\ Final(events') /\ (Quiet(events) => Quiet(events'))
               /\ login # <<>> => login[1].connected
    BY <1>0, <1>2, EventTaken DEF EventsEnd, BoxMatches, ReturnsHome
  <1>3. CASE ApplyAsk
    <2> DEFINE stage   == Head(events).arg
               replays == Answers(rc, stage)
               text    == IF replays THEN "text" ELSE Unset
               b       == [AskStep(login[1], stage) EXCEPT !.field = text]
    <2>1. /\ events # <<>> /\ events' = Tail(events) /\ Head(events).kind = "Ask"
          /\ login' = IF login = <<>> THEN login ELSE <<b>>
          /\ rc' = IF replays THEN [rc EXCEPT !.answers = @ - 1, !.submit = TRUE] ELSE rc
          /\ UNCHANGED <<dials, conn, write, form, address, home, gone, tries>>
      BY <1>3 DEF ApplyAsk, Applies, screenVars, historyVars
    <2>2. stage \in Questions
      BY <1>2, <2>1, EventAsked
    <2>3. text \in Fields
      BY DEF Fields
    <2>4. /\ rc' \in Reconnects /\ rc'.known = rc.known /\ rc'.due = rc.due /\ rc'.left = rc.left
          /\ rc'.retrying = rc.retrying
      <3>1. CASE replays
        <4>1. rc.answers > 0
          BY <3>1 DEF Answers
        <4>. QED
          BY <1>0, <2>1, <3>1, <4>1, AnswerReplayed
      <3>. QED
        BY <1>0, <2>1, <3>1
    <2> HIDE DEF replays, text
    <2>5. SessionTyped' /\ EventsEnd'
      <3>1. CASE login = <<>>
        BY <1>0, <1>2, <2>1, <2>4, <3>1 DEF SessionTyped, EventsEnd
      <3>2. CASE login # <<>>
        <4>1. b \in Boxes
          BY <1>1, <2>2, <2>3, <3>2 DEF Boxes, AskStep, Questions, Stages
        <4> HIDE DEF b
        <4>. QED
          BY <1>0, <1>2, <2>1, <2>4, <3>2, <4>1, LoginOf DEF SessionTyped, EventsEnd
      <3>. QED
        BY <3>1, <3>2
    <2>6. BoxMatches' /\ ReturnsHome' /\ TriesCounted'
      <3>1. CASE login = <<>>
        BY <1>0, <1>2, <2>1, <2>4, <3>1 DEF BoxMatches, ReturnsHome, TriesCounted
      <3>2. CASE login # <<>>
        <4>1. b.connected = login[1].connected /\ b.attempt = login[1].attempt /\ b.stage # "address"
          BY <1>1, <2>2, <3>2 DEF Boxes, AskStep, Questions
        <4> HIDE DEF b
        <4>2. login' # <<>> /\ login'[1] = b
          BY <2>1, <3>2
        <4>3. BoxMatches'
          BY <1>0, <1>2, <2>1, <2>4, <3>2, <4>1, <4>2 DEF BoxMatches
        <4>4. ReturnsHome'
          BY <1>0, <1>2, <2>1, <2>4, <3>2, <4>1, <4>2 DEF ReturnsHome
        <4>. QED
          BY <1>0, <2>1, <2>4, <4>3, <4>4 DEF TriesCounted
      <3>. QED
        BY <3>1, <3>2
    <2>. QED
      BY <2>5, <2>6 DEF SesInv
  <1>4. CASE ApplyRejected
    <2>1. CASE rc' = Nobody /\ events # <<>> /\ events' = Tail(events)
                 /\ UNCHANGED <<login, dials, conn, write, form, address, home, tries>>
      <3>1. SessionTyped' /\ EventsEnd'
        BY <1>0, <1>2, <2>1, NobodyReturns DEF SessionTyped, EventsEnd
      <3>. QED
        BY <1>0, <2>1, <3>1, NobodyReturns DEF SesInv, BoxMatches, ReturnsHome, TriesCounted
    <2>2. CASE events # <<>> /\ events' = Tail(events)
                 /\ UNCHANGED <<login, rc, dials, conn, write, form, address, home, gone, tries>>
      BY <1>0, <2>2, AppliedOnly
    <2>. QED
      BY <1>4, <2>1, <2>2 DEF ApplyRejected, Applies, screenVars, historyVars
  <1>5. CASE ApplyAuthenticated
    <2>1. /\ events # <<>> /\ events' = Tail(events)
          /\ login' = <<>> /\ rc' = Remembered(rc) /\ home' = conn.addr /\ gone' = FALSE /\ tries' = 0
          /\ UNCHANGED <<dials, conn, write, form, address>>
      BY <1>5 DEF ApplyAuthenticated, Applies, screenVars
    <2>2. /\ rc' \in Reconnects /\ rc'.left = Tries
          /\ rc'.retrying = FALSE /\ rc'.due = FALSE
      BY <1>0, <2>1 DEF Remembered, Reconnects
    <2>3. SessionTyped' /\ EventsEnd'
      BY <1>0, <1>2, <2>1, <2>2 DEF SessionTyped, EventsEnd, Logins
    <2>4. BoxMatches'
      BY <1>0, <1>2, <2>1 DEF BoxMatches
    <2>5. ReturnsHome'
      BY <1>0, <1>2, <2>1, <2>2 DEF BoxMatches, ReturnsHome
    <2>6. TriesCounted'
      BY <1>0, <2>1, <2>2 DEF TriesCounted
    <2>. QED
      BY <2>3, <2>4, <2>5, <2>6 DEF SesInv
  <1>6. CASE ApplyTofuPrompt \/ ApplyTofuError
    BY <1>0, <1>6, AppliedOnly DEF ApplyTofuPrompt, ApplyTofuError, Applies, historyVars
  <1>7. CASE ApplyAccount
    <2>1. /\ events # <<>> /\ events' = Tail(events)
          /\ form' = (IF Head(events).arg \/ form = <<>> THEN <<>>
                     ELSE <<[kind |-> form[1].kind, filled |-> FALSE, armed |-> FALSE, busy |-> FALSE]>>)
          /\ UNCHANGED <<login, rc, dials, conn, write, address, home, gone, tries>>
      BY <1>7 DEF ApplyAccount, Applies, historyVars
    <2>2. form' \in {<<>>} \cup {<<f>> : f \in Forms}
      <3>1. CASE form = <<>>
        BY <2>1, <3>1
      <3>2. CASE form # <<>>
        <4>1. [kind |-> form[1].kind, filled |-> FALSE, armed |-> FALSE, busy |-> FALSE] \in Forms
          BY <1>0, <3>2 DEF Forms
        <4>. QED
          BY <2>1, <4>1
      <3>. QED
        BY <3>1, <3>2
    <2>. QED
      BY <2>1, <2>2, AppliedOnly
  <1>8. CASE ApplyHandshakeFailed
    BY <1>8, DropsStep DEF ApplyHandshakeFailed, Applies, LastWords
  <1>9. CASE ApplyQuit
    <2>1. CASE user.leaving
      BY <1>0, <1>9, <2>1, AppliedOnly DEF ApplyQuit, Applies
    <2>2. CASE ~user.leaving
      <3> DEFINE r == IF ~user.logging_out /\ Forgets(Head(events).arg) THEN Nobody ELSE rc
      <3>1. /\ events # <<>> /\ events' = Tail(events) /\ Head(events).kind \in LastWords
            /\ login = <<>> => dials = {}
            /\ Drops(r) /\ r \in {rc, Nobody}
            /\ gone' = (gone \/ user.logging_out \/ Head(events).arg)
            /\ UNCHANGED <<dials, address, home, tries>>
        BY <1>9, <2>2 DEF ApplyQuit, Applies, LastWords
      <3>2. gone' => gone \/ user.logging_out \/ r = Nobody
        BY <3>1 DEF Forgets
      <3> HIDE DEF r
      <3>. QED
        BY <3>1, <3>2, DropsStep
    <2>. QED
      BY <2>1, <2>2
  <1>10. CASE TickDue
    <2> DEFINE b == [login[1] EXCEPT !.busy = TRUE, !.attempt = login[1].attempt + 1]
               d == [attempt |-> login[1].attempt + 1, addr |-> login[1].field]
    <2>1. /\ rc.due /\ dials = {} /\ rc' = [rc EXCEPT !.due = FALSE] /\ tries' = tries + 1
          /\ Connect(login) /\ UNCHANGED <<conn, write, events, form, home, gone>>
      BY <1>10 DEF TickDue, screenVars
    <2>2. /\ login # <<>> /\ login[1] \in Boxes /\ login[1].busy /\ login[1].field = address
          /\ rc.retrying /\ rc.known /\ conn.phase = "off" /\ address = home
      BY <1>0, <1>1, <2>1 DEF ReturnsHome
    <2>3. /\ rc' \in Reconnects /\ rc'.known = rc.known /\ rc'.due = FALSE /\ rc'.left = rc.left
          /\ rc'.retrying = rc.retrying /\ rc.left \in Nat
      BY <1>0, <2>1 DEF Reconnects
    <2>4. TriesCounted'
      BY <1>0, <2>1, <2>2, <2>3 DEF TriesCounted
    <2>5. CASE login[1].field = Unset
      <3>1. UNCHANGED <<login, dials, address>>
        BY <2>1, <2>5 DEF Connect
      <3>2. SessionTyped' /\ EventsEnd'
        BY <1>0, <2>1, <2>3, <2>4, <3>1 DEF SessionTyped, EventsEnd
      <3>. QED
        BY <1>0, <2>1, <2>2, <2>3, <2>4, <3>1, <3>2 DEF SesInv, BoxMatches, ReturnsHome
    <2>6. CASE login[1].field # Unset
      <3>1. login' = <<b>> /\ address' = address /\ dials' = dials \cup {d}
        BY <2>1, <2>2, <2>6 DEF Connect
      <3>2. /\ b \in Boxes /\ b.busy = TRUE /\ b.attempt = login[1].attempt + 1 /\ b.field = address
            /\ b.connected = login[1].connected /\ d \in Dials
            /\ d.attempt = b.attempt /\ d.addr = address
        BY <2>2, Dialled
      <3> HIDE DEF b, d
      <3>3. login' \in Logins /\ login' # <<>> /\ login'[1] = b /\ dials' = {d}
        BY <2>1, <3>1, <3>2, LoginOf
      <3>4. SessionTyped' /\ EventsEnd'
        BY <1>0, <2>1, <2>3, <3>1, <3>2, <3>3 DEF SessionTyped, EventsEnd
      <3>5. BoxMatches'
        <4>1. ~login'[1].connected /\ ~rc'.due /\ login'[1].attempt \in Nat
          BY <1>0, <2>2, <2>3, <3>2, <3>3 DEF BoxMatches, Boxes
        <4>. QED
          BY <1>0, <2>1, <2>2, <3>1, <3>2, <3>3, <4>1 DEF BoxMatches
      <3>6. ReturnsHome'
        BY <1>0, <2>1, <2>2, <2>3, <3>1, <3>2, <3>3 DEF ReturnsHome
      <3>. QED
        BY <2>4, <3>4, <3>5, <3>6 DEF SesInv
    <2>. QED
      BY <2>5, <2>6
  <1>11. CASE TickSubmit
    <2> DEFINE r == [rc EXCEPT !.submit = FALSE]
    <2>1. /\ r \in Reconnects /\ r.known = rc.known /\ r.due = rc.due /\ r.left = rc.left
          /\ r.retrying = rc.retrying
      BY <1>0 DEF Reconnects
    <2>2. /\ conn.phase # "off"
          /\ UNCHANGED <<dials, write, events, form, address, home, gone, tries>>
          /\ IF login = <<>> THEN rc' = r /\ UNCHANGED <<login, conn>> ELSE Submit(r)
      BY <1>0, <1>11 DEF TickSubmit, BoxMatches, screenVars, historyVars
    <2> HIDE DEF r
    <2>3. CASE login = <<>>
      <3>1. SessionTyped' /\ EventsEnd'
        BY <1>0, <2>1, <2>2, <2>3 DEF SessionTyped, EventsEnd
      <3>. QED
        BY <1>0, <2>1, <2>2, <2>3, <3>1 DEF SesInv, BoxMatches, ReturnsHome, TriesCounted
    <2>. QED
      BY <2>1, <2>2, <2>3, SubmitStep
  <1>. QED
    BY <1>3, <1>4, <1>5, <1>6, <1>7, <1>8, <1>9, <1>10, <1>11 DEF Loop

\* The keys of the user keep the invariant.
LEMMA KeysStep == SesInv /\ Keys => SesInv'
  <1> SUFFICES ASSUME SesInv, Keys
               PROVE  SesInv'
    OBVIOUS
  <1>0. /\ SessionTyped /\ EventsEnd /\ BoxMatches /\ ReturnsHome /\ TriesCounted
        /\ login \in Logins /\ rc \in Reconnects /\ conn \in Conns
        /\ dials \subseteq Dials /\ address \in Fields /\ tries \in Nat /\ Tries \in Nat
        /\ form \in {<<>>} \cup {<<f>> : f \in Forms}
    BY SessionAssumption DEF SesInv, SessionTyped
  <1>1. login # <<>> => login[1] \in Boxes
    BY <1>0, BoxUp
  \* The form, the prompt and the user's wishes say nothing of the box.
  <1>2. ASSUME form' \in {<<>>} \cup {<<f>> : f \in Forms},
               UNCHANGED <<login, rc, dials, conn, write, events, address, home, gone, tries>>
        PROVE  SesInv'
    BY <1>0, <1>2 DEF SesInv, SessionTyped, EventsEnd, BoxMatches, ReturnsHome, TriesCounted
  <1>3. CASE KeyEsc
    <2>1. CASE login[1].connected \/ login[1].stage # "address" \/ ~login[1].busy
      BY <1>0, <1>2, <1>3, <2>1 DEF KeyEsc, Quits
    <2>2. CASE ~(login[1].connected \/ login[1].stage # "address" \/ ~login[1].busy)
      <3> DEFINE b == [login[1] EXCEPT !.busy = FALSE]
      <3>1. /\ login # <<>> /\ login' = <<b>> /\ rc' = Nobody
            /\ UNCHANGED <<dials, conn, write, events, form, address, home, tries>>
        BY <1>3, <2>2 DEF KeyEsc, BoxHasKeys
      <3>2. /\ b \in Boxes /\ b.busy = FALSE /\ b.connected = login[1].connected
            /\ b.attempt = login[1].attempt
        BY <1>1, <3>1 DEF Boxes
      <3> HIDE DEF b
      <3>3. login' \in Logins /\ login' # <<>> /\ login'[1] = b
        BY <3>1, <3>2, LoginOf
      <3>4. SessionTyped' /\ EventsEnd'
        BY <1>0, <3>1, <3>3, NobodyReturns DEF SessionTyped, EventsEnd
      <3>5. BoxMatches'
        BY <1>0, <2>2, <3>1, <3>2, <3>3, NobodyReturns DEF BoxMatches
      <3>6. ReturnsHome' /\ TriesCounted'
        BY <1>0, <3>1, NobodyReturns DEF ReturnsHome, TriesCounted
      <3>. QED
        BY <3>4, <3>5, <3>6 DEF SesInv
    <2>. QED
      BY <2>1, <2>2
  <1>4. ASSUME NEW text \in Fields, KeyEdit(text)
        PROVE  SesInv'
    <2> DEFINE b == [login[1] EXCEPT !.field = text]
    <2>1. /\ login # <<>> /\ ~login[1].busy /\ login' = <<b>>
          /\ UNCHANGED <<rc, dials, conn, write, events, form, address, home, gone, tries>>
      BY <1>4 DEF KeyEdit, BoxHasKeys, screenVars, historyVars
    <2>2. /\ b \in Boxes /\ b.busy = login[1].busy /\ b.connected = login[1].connected
          /\ b.attempt = login[1].attempt /\ b.stage = login[1].stage
      BY <1>1, <2>1 DEF Boxes
    <2> HIDE DEF b
    <2>3. login' \in Logins /\ login' # <<>> /\ login'[1] = b
      BY <2>1, <2>2, LoginOf
    <2>4. SessionTyped' /\ EventsEnd'
      BY <1>0, <2>1, <2>3 DEF SessionTyped, EventsEnd
    <2>5. BoxMatches'
      BY <1>0, <2>1, <2>2, <2>3 DEF BoxMatches
    <2>6. ReturnsHome' /\ TriesCounted'
      BY <1>0, <2>1, <2>2, <2>3 DEF ReturnsHome, TriesCounted
    <2>. QED
      BY <2>4, <2>5, <2>6 DEF SesInv
  <1>5. CASE KeyDial
    <2> DEFINE b == [login[1] EXCEPT !.busy = TRUE, !.attempt = login[1].attempt + 1]
               d == [attempt |-> login[1].attempt + 1, addr |-> login[1].field]
    <2>1. /\ login # <<>> /\ ~login[1].busy /\ login[1].stage = "address"
          /\ login' = <<b>> /\ address' = login[1].field /\ dials' = dials \cup {d}
          /\ UNCHANGED <<rc, conn, write, events, form, home, gone, tries>>
      BY <1>5 DEF KeyDial, BoxHasKeys, Connect, screenVars, historyVars
    <2>2. /\ ~login[1].connected /\ conn.phase = "off" /\ ~write /\ ~rc.due
          /\ ~(rc.known /\ (rc.left > 0 \/ rc.retrying))
      BY <1>0, <2>1 DEF BoxMatches, ReturnsHome
    <2>3. /\ b \in Boxes /\ b.busy = TRUE /\ b.attempt = login[1].attempt + 1
          /\ b.field = login[1].field /\ b.connected = login[1].connected /\ d \in Dials
          /\ login[1].field \in Fields
      BY <1>1, <2>1, Dialled
    <2>4. d.attempt = b.attempt /\ d.addr = b.field
      BY <2>3
    <2>5. \A e \in dials : e.attempt \in Nat /\ e.attempt < b.attempt /\ b.attempt \in Nat
      <3>1. login[1].attempt \in Nat
        BY <1>1, <2>1 DEF Boxes
      <3>2. \A e \in dials : e.attempt \in Nat /\ e.attempt <= login[1].attempt
        BY <1>0, <2>1 DEF BoxMatches, Dials
      <3> HIDE DEF b
      <3>. QED
        BY <2>3, <3>1, <3>2
    <2> HIDE DEF b, d
    <2>6. login' \in Logins /\ login' # <<>> /\ login'[1] = b
      BY <2>1, <2>3, LoginOf
    <2>7. SessionTyped' /\ EventsEnd'
      BY <1>0, <2>1, <2>3, <2>6 DEF SessionTyped, EventsEnd
    <2>8. BoxMatches'
      <3>1. ASSUME NEW e \in dials'
            PROVE  /\ e.attempt <= b.attempt
                   /\ e.attempt = b.attempt => e = d
        BY <2>1, <2>3, <2>4, <2>5 DEF Boxes
      <3>. QED
        BY <2>1, <2>2, <2>3, <2>4, <2>6, <3>1 DEF BoxMatches
    <2>9. ReturnsHome' /\ TriesCounted'
      BY <1>0, <2>1, <2>2 DEF ReturnsHome, TriesCounted
    <2>. QED
      BY <2>7, <2>8, <2>9 DEF SesInv
  <1>6. CASE KeySubmit
    <2>1. CASE write
      <3>1. /\ login # <<>> /\ conn.phase # "off" /\ Submit(rc)
            /\ UNCHANGED <<dials, write, events, form, address, home, gone, tries>>
        BY <1>0, <1>6, <2>1 DEF KeySubmit, BoxHasKeys, BoxMatches, screenVars, historyVars
      <3>. QED
        BY <1>0, <3>1, SubmitStep
    <2>2. CASE ~write
      BY <1>0, <1>2, <1>6, <2>2 DEF KeySubmit, screenVars, historyVars
    <2>. QED
      BY <2>1, <2>2
  <1>7. ASSUME NEW answer, TofuAnswer(answer),
               UNCHANGED <<login, rc, dials, write, form, address, home, gone, tries>>
        PROVE  SesInv'
    <2>1. CASE conn.phase # "prompt"
      BY <1>0, <1>2, <1>7, <2>1 DEF TofuAnswer
    <2>2. CASE conn.phase = "prompt" /\ ~answer
      <3>1. conn' = [conn EXCEPT !.phase = "done"] /\ events' = Append(events, Event("TofuError", FALSE))
        BY <1>7, <2>2 DEF TofuAnswer
      <3>2. conn' \in Conns /\ conn'.phase = "done" /\ conn'.addr = conn.addr
        BY <1>0, <3>1 DEF Conns
      <3>3. Event("TofuError", FALSE) \in EventSet
        BY DEF Event, EventSet, LastWords
      <3>. QED
        BY <1>7, <2>2, <3>1, <3>2, <3>3, Heard
    <2>3. CASE conn.phase = "prompt" /\ answer
      <3>1. /\ conn' = [conn EXCEPT !.phase = IF conn.owes = "rekey" THEN "in" ELSE "redial"]
            /\ events' = events
        BY <1>7, <2>3 DEF TofuAnswer
      <3>2. conn' \in Conns /\ conn'.phase # "off" /\ conn'.addr = conn.addr
        BY <1>0, <3>1 DEF Conns
      <3>. QED
        BY <1>7, <2>3, <3>1, <3>2, Unheard
    <2>. QED
      BY <2>1, <2>2, <2>3
  <1>8. CASE KeyTofu
    <2>1. UNCHANGED <<login, rc, dials, write, form, address, home, gone, tries>>
      BY <1>8 DEF KeyTofu, boxVars, historyVars
    <2>2. ASSUME UNCHANGED <<conn, events>>
          PROVE  SesInv'
      BY <1>0, <1>2, <2>1, <2>2
    <2>3. TofuAnswer(FALSE) \/ TofuAnswer(TRUE) \/ TofuAnswer(tofu[1].accept) \/ UNCHANGED <<conn, events>>
      BY <1>8, Zenon DEF KeyTofu, TofuTurns
    <2>. QED
      BY <1>7, <2>1, <2>2, <2>3
  <1>9. CASE KeyCommand
    <2>1. /\ UNCHANGED <<login, rc, dials, conn, write, events, address, home, gone, tries>>
          /\ \/ \E kind \in {"passwd", "delete"} :
                   form' = <<[kind |-> kind, filled |-> FALSE, armed |-> FALSE, busy |-> FALSE]>>
             \/ form' = form
      BY <1>9 DEF KeyCommand, boxVars, historyVars
    <2>2. \A kind \in {"passwd", "delete"} :
             [kind |-> kind, filled |-> FALSE, armed |-> FALSE, busy |-> FALSE] \in Forms
      BY DEF Forms
    <2>. QED
      BY <1>0, <1>2, <2>1, <2>2
  <1>10. CASE KeyForm
    <2> DEFINE f == form[1]
    <2>1. f \in Forms
      BY <1>0, <1>10 DEF KeyForm
    <2>2. /\ [f EXCEPT !.filled = ~@, !.armed = FALSE] \in Forms
          /\ [f EXCEPT !.armed = TRUE] \in Forms /\ [f EXCEPT !.busy = TRUE] \in Forms
      BY <2>1 DEF Forms
    <2>3. /\ UNCHANGED <<login, rc, dials, conn, write, events, address, home, gone, tries>>
          /\ \/ form' = <<>>
             \/ form' = <<[f EXCEPT !.filled = ~@, !.armed = FALSE]>>
             \/ form' = <<[f EXCEPT !.armed = TRUE]>>
             \/ form' = <<[f EXCEPT !.busy = TRUE]>>
      BY <1>10 DEF KeyForm, boxVars, historyVars
    <2> HIDE DEF f
    <2>. QED
      BY <1>2, <2>2, <2>3
  <1>. QED
    BY <1>3, <1>4, <1>5, <1>6, <1>8, <1>9, <1>10 DEF Keys, Fields

\* The invariant holds when the program starts, with an address or without one.
LEMMA SessionBegins == SessionInit => SesInv
  <1> SUFFICES ASSUME SessionInit
               PROVE  SesInv
    OBVIOUS
  <1>1. /\ rc = Nobody /\ conn = Off /\ write = FALSE /\ events = <<>> /\ form = <<>>
        /\ gone = FALSE /\ tries = 0
    BY DEF SessionInit
  <1>2. PICK given \in BOOLEAN, addr \in Addresses :
          IF given
          THEN /\ login = <<[Box(addr, 1) EXCEPT !.busy = TRUE]>> /\ address = addr
               /\ dials = {[attempt |-> 1, addr |-> addr]}
          ELSE login = <<Box(Unset, 0)>> /\ address = Unset /\ dials = {}
    BY DEF SessionInit
  <1>3. \E b \in Boxes, n \in Nat :
           /\ login = <<b>> /\ ~b.connected /\ b.attempt = n /\ b.field = address
           /\ \A d \in dials : d \in Dials /\ d.attempt = n /\ d.addr = address
    <2>1. CASE given
      <3> DEFINE b == [Box(addr, 1) EXCEPT !.busy = TRUE]
      <3>1. b \in Boxes /\ b.connected = FALSE /\ b.attempt = 1 /\ b.field = addr
        BY DEF Boxes, Box, Stages, Fields
      <3>2. login = <<b>> /\ address = addr /\ dials = {[attempt |-> 1, addr |-> addr]}
        BY <1>2, <2>1
      <3>3. \A d \in dials : d \in Dials /\ d.attempt = 1 /\ d.addr = addr
        BY <3>2 DEF Dials, Fields
      <3>. QED
        BY <3>1, <3>2, <3>3
    <2>2. CASE ~given
      <3>1. Box(Unset, 0) \in Boxes /\ Box(Unset, 0).connected = FALSE /\ Box(Unset, 0).attempt = 0
            /\ Box(Unset, 0).field = Unset
        BY DEF Boxes, Box, Stages, Fields
      <3>. QED
        BY <1>2, <2>2, <3>1
    <2>. QED
      BY <2>1, <2>2
  <1>4. PICK b \in Boxes, n \in Nat :
           /\ login = <<b>> /\ ~b.connected /\ b.attempt = n /\ b.field = address
           /\ \A d \in dials : d \in Dials /\ d.attempt = n /\ d.addr = address
    BY <1>3
  <1>5. login \in Logins /\ login # <<>> /\ login[1] = b
    BY <1>4, LoginOf
  <1>6. address \in Fields
    BY <1>4 DEF Boxes
  <1>7. conn \in Conns /\ conn.phase = "off"
    BY <1>1 DEF Conns, Off, Fields
  <1>8. SessionTyped
    BY <1>1, <1>4, <1>5, <1>6, <1>7, NobodyReturns DEF SessionTyped
  <1>9. EventsEnd
    BY <1>1, <1>7 DEF EventsEnd, EventSeqs, Final, Quiet
  <1>10. BoxMatches
    BY <1>1, <1>4, <1>5, <1>7, NobodyReturns DEF BoxMatches
  <1>11. ReturnsHome /\ TriesCounted
    BY <1>1, NobodyReturns, SessionAssumption DEF ReturnsHome, TriesCounted
  <1>. QED
    BY <1>8, <1>9, <1>10, <1>11 DEF SesInv

\* Every step of the client keeps the invariant.
LEMMA SessionStep == SesInv /\ [SessionNext]_sessionVars => SesInv'
  <1>1. SesInv /\ UNCHANGED sessionVars => SesInv'
    BY DEF SesInv, sessionVars, SessionTyped, EventsEnd, BoxMatches, ReturnsHome, TriesCounted
  <1>. QED
    BY <1>1, LoopStep, KeysStep, NetworkStep DEF SessionNext

\* ClientSession, any addresses and any number of tries: as long as the client may answer
\* for the user, its dial and its connection go to the address that accepted the
\* credentials.
THEOREM CredentialsHome == SessionSpec => []CredentialsStayHome
  <1>1. SesInv => CredentialsStayHome
    BY DEF SesInv, BoxMatches, ReturnsHome, CredentialsStayHome, Accepts
  <1>. QED
    BY <1>1, SessionBegins, SessionStep, PTL DEF SessionSpec

\* ClientSession, any addresses and any number of tries: what the user or the server ended
\* is not taken up again, and what dropped is dialled RECONNECT_ATTEMPTS times at most.
THEOREM ReturnWanted == SessionSpec => []ReturnIsWanted
  <1>1. SesInv => ReturnIsWanted
    BY DEF SesInv, ReturnsHome, TriesCounted, ReturnIsWanted
  <1>. QED
    BY <1>1, SessionBegins, SessionStep, PTL DEF SessionSpec

-----------------------------------------------------------------------------
(* ClientPictures: how often a hash stands in a sequence.                  *)

\* Two sets have as many elements as each other if there is a function between them.
LEMMA SameCount ==
    ASSUME NEW S, NEW T, IsFiniteSet(S), NEW f \in [S -> T],
           \A x, y \in S : f[x] = f[y] => x = y,
           \A t \in T : \E x \in S : f[x] = t
    PROVE  IsFiniteSet(T) /\ Cardinality(T) = Cardinality(S)
  <1>1. f \in Bijection(S, T)
    BY DEF Bijection, Injection, Surjection, IsInjective
  <1>2. ExistsBijection(S, T)
    BY <1>1 DEF ExistsBijection
  <1>. QED
    BY <1>2, FS_Bijection

Places(s, h) == {i \in DOMAIN s : s[i] = h}

\* How often a hash stands in a sequence is the size of the set of its places.
LEMMA PlacesFinite ==
    ASSUME NEW S, NEW s \in Seq(S), NEW h
    PROVE  /\ IsFiniteSet(Places(s, h)) /\ Cardinality(Places(s, h)) \in Nat
           /\ Times(s, h) = Cardinality(Places(s, h)) /\ Times(s, h) \in Nat
  <1>1. DOMAIN s = 1..Len(s) /\ Len(s) \in Int
    OBVIOUS
  <1>2. IsFiniteSet(DOMAIN s)
    BY <1>1, FS_Interval
  <1>3. IsFiniteSet(Places(s, h))
    BY <1>2, FS_Subset DEF Places
  <1>. QED
    BY <1>3, FS_CardinalityType DEF Times, Places

\* Two sets without a common element.
LEMMA CountJoin ==
    ASSUME NEW A, IsFiniteSet(A), NEW B, IsFiniteSet(B), A \cap B = {}
    PROVE  IsFiniteSet(A \cup B) /\ Cardinality(A \cup B) = Cardinality(A) + Cardinality(B)
  <1>1. /\ IsFiniteSet(A \cup B)
        /\ Cardinality(A \cup B) = Cardinality(A) + Cardinality(B) - Cardinality(A \cap B)
    BY FS_Union
  <1>2. Cardinality(A \cap B) = 0 /\ Cardinality(A) \in Nat /\ Cardinality(B) \in Nat
    BY FS_EmptySet, FS_CardinalityType
  <1>. QED
    BY <1>1, <1>2

\* Nothing stands in the empty sequence.
LEMMA TimesEmpty == \A h : Times(<<>>, h) = 0
  <1>1. \A h : Places(<<>>, h) = {}
    BY DEF Places
  <1>. QED
    BY <1>1, FS_EmptySet DEF Times, Places

\* What stands in a sequence of one.
LEMMA TimesOne ==
    ASSUME NEW x, NEW h
    PROVE  Times(<<x>>, h) = IF x = h THEN 1 ELSE 0
  <1>1. Places(<<x>>, h) = IF x = h THEN {1} ELSE {}
    BY DEF Places
  <1>2. Times(<<x>>, h) = Cardinality(Places(<<x>>, h))
    BY DEF Times, Places
  <1>. QED
    BY <1>1, <1>2, FS_EmptySet, FS_Singleton

Joins(s, t, r) == r = s \o t

\* Two sequences joined.
LEMMA TimesJoin ==
    ASSUME NEW S, NEW s \in Seq(S), NEW t \in Seq(S), NEW r, Joins(s, t, r), NEW h
    PROVE  r \in Seq(S) /\ Times(r, h) = Times(s, h) + Times(t, h)
  <1>n. PICK n : n = Len(s)
    OBVIOUS
  <1>m. PICK m : m = Len(t)
    OBVIOUS
  <1>1. /\ r \in Seq(S) /\ n \in Nat /\ m \in Nat
        /\ DOMAIN s = 1..n /\ DOMAIN t = 1..m /\ DOMAIN r = 1..(n + m)
        /\ \A i \in 1..n : r[i] = s[i]
        /\ \A i \in 1..m : r[n + i] = t[i]
    BY <1>n, <1>m DEF Joins
  <1> DEFINE B == {i \in (n + 1)..(n + m) : r[i] = h}
  <1>2. Places(r, h) = Places(s, h) \cup B
    <2>1. ASSUME NEW i, i \in Places(r, h)
          PROVE  i \in Places(s, h) \cup B
      BY <1>1, <2>1 DEF Places
    <2>2. ASSUME NEW i, i \in Places(s, h) \cup B
          PROVE  i \in Places(r, h)
      BY <1>1, <2>2 DEF Places
    <2>. QED
      BY <2>1, <2>2
  <1>3. Places(s, h) \cap B = {}
    BY <1>1 DEF Places
  <1>4. IsFiniteSet(B) /\ Cardinality(B) = Cardinality(Places(t, h))
    <2>f. PICK f : f = [i \in Places(t, h) |-> n + i]
      OBVIOUS
    <2>1. f \in [Places(t, h) -> B]
      BY <1>1, <2>f DEF Places
    <2>2. \A x, y \in Places(t, h) : f[x] = f[y] => x = y
      BY <1>1, <2>f DEF Places
    <2>3. ASSUME NEW b \in B
          PROVE  \E x \in Places(t, h) : f[x] = b
      <3>1. b - n \in 1..m /\ n + (b - n) = b
        BY <1>1
      <3>2. b - n \in Places(t, h)
        BY <1>1, <3>1 DEF Places
      <3>. QED
        BY <3>1, <3>2, <2>f
    <2>4. IsFiniteSet(Places(t, h))
      BY PlacesFinite
    <2> HIDE DEF B
    <2>. QED
      BY <2>1, <2>2, <2>3, <2>4, SameCount
  <1> HIDE DEF B
  <1>5. IsFiniteSet(Places(s, h))
    BY PlacesFinite
  <1>6. Cardinality(Places(r, h)) = Cardinality(Places(s, h)) + Cardinality(B)
    BY <1>2, <1>3, <1>4, <1>5, CountJoin
  <1>7. Times(r, h) = Cardinality(Places(r, h)) /\ Times(s, h) = Cardinality(Places(s, h))
        /\ Times(t, h) = Cardinality(Places(t, h))
    BY <1>1, PlacesFinite
  <1>. QED
    BY <1>1, <1>4, <1>6, <1>7

\* A hash that is appended stands there once more.
LEMMA TimesAppend ==
    ASSUME NEW S, NEW s \in Seq(S), NEW x \in S, NEW h
    PROVE  Append(s, x) \in Seq(S) /\ Times(Append(s, x), h) = Times(s, h) + (IF x = h THEN 1 ELSE 0)
  <1> DEFINE o == <<x>>
  <1>1. Joins(s, o, Append(s, x)) /\ o \in Seq(S)
    BY DEF Joins
  <1>2. Times(o, h) = IF x = h THEN 1 ELSE 0
    BY TimesOne
  <1> HIDE DEF o
  <1>3. Append(s, x) \in Seq(S) /\ Times(Append(s, x), h) = Times(s, h) + Times(o, h)
    BY <1>1, TimesJoin
  <1>. QED
    BY <1>2, <1>3


\* A sequence cut in two.
LEMMA TimesCut ==
    ASSUME NEW S, NEW s \in Seq(S), NEW n \in 0..Len(s), NEW h
    PROVE  /\ SubSeq(s, 1, n) \in Seq(S) /\ SubSeq(s, n + 1, Len(s)) \in Seq(S)
           /\ Len(SubSeq(s, 1, n)) = n
           /\ Times(s, h) = Times(SubSeq(s, 1, n), h) + Times(SubSeq(s, n + 1, Len(s)), h)
  <1>1. Len(s) \in Nat /\ n \in (1 - 1)..Len(s) /\ Len(s) \in n..Len(s) /\ 1 \in 1..(Len(s) + 1)
    OBVIOUS
  <1>2. SubSeq(s, 1, n) \in Seq(S) /\ SubSeq(s, n + 1, Len(s)) \in Seq(S) /\ Len(SubSeq(s, 1, n)) = n
    OBVIOUS
  <1>3. SubSeq(s, 1, n) \o SubSeq(s, n + 1, Len(s)) = SubSeq(s, 1, Len(s))
    BY <1>1, ConcatAdjacentSubSeq
  <1>4. SubSeq(s, 1, Len(s)) = s
    BY SubSeqFull
  <1>5. Joins(SubSeq(s, 1, n), SubSeq(s, n + 1, Len(s)), s)
    BY <1>3, <1>4, Zenon DEF Joins
  <1>6. Times(s, h) = Times(SubSeq(s, 1, n), h) + Times(SubSeq(s, n + 1, Len(s)), h)
    <2> DEFINE a == SubSeq(s, 1, n)
               b == SubSeq(s, n + 1, Len(s))
    <2>1. a \in Seq(S) /\ b \in Seq(S) /\ Joins(a, b, s)
      BY <1>2, <1>5
    <2>2. SUFFICES Times(s, h) = Times(a, h) + Times(b, h)
      OBVIOUS
    <2> HIDE DEF a, b
    <2>. QED
      BY <2>1, TimesJoin
  <1>. QED
    BY <1>2, <1>6

\* A sequence without one of its elements.
LEMMA TimesRemove ==
    ASSUME NEW S, NEW s \in Seq(S), NEW i \in DOMAIN s, NEW h
    PROVE  /\ RemoveAt(s, i) \in Seq(S)
           /\ Times(RemoveAt(s, i), h) = Times(s, h) - (IF s[i] = h THEN 1 ELSE 0)
  <1>1. /\ i \in 1..Len(s) /\ i - 1 \in 0..Len(s) /\ (i - 1) + 1 = i /\ Len(s) \in i..Len(s)
        /\ i \in 0..Len(s) /\ Len(s) \in Nat /\ s[i] \in S
    OBVIOUS
  <1> DEFINE a == SubSeq(s, 1, i - 1)
             b == SubSeq(s, i, Len(s))
             c == SubSeq(s, i + 1, Len(s))
  <1>2. a \in Seq(S) /\ b \in Seq(S) /\ Times(s, h) = Times(a, h) + Times(b, h)
    BY <1>1, TimesCut
  <1>3. c \in Seq(S)
    BY <1>1, TimesCut
  <1> DEFINE o == <<s[i]>>
  <1>4. Joins(o, c, b)
    BY <1>1, SubSeqRecursiveFirst DEF Joins
  <1>9. o \in Seq(S) /\ Times(o, h) = IF s[i] = h THEN 1 ELSE 0
    BY <1>1, TimesOne
  <1>6. Joins(a, c, RemoveAt(s, i))
    BY Zenon DEF RemoveAt, Joins
  <1> HIDE DEF a, b, c, o
  <1>5. Times(b, h) = Times(o, h) + Times(c, h)
    BY <1>3, <1>4, <1>9, TimesJoin
  <1>7. RemoveAt(s, i) \in Seq(S) /\ Times(RemoveAt(s, i), h) = Times(a, h) + Times(c, h)
    BY <1>2, <1>3, <1>6, TimesJoin
  <1>8. Times(a, h) \in Nat /\ Times(c, h) \in Nat
    BY <1>2, <1>3, PlacesFinite
  <1>. QED
    BY <1>2, <1>5, <1>6, <1>7, <1>8, <1>9

\* A sequence without its oldest element.
LEMMA TimesTail ==
    ASSUME NEW S, NEW s \in Seq(S), s # <<>>, NEW h
    PROVE  Tail(s) \in Seq(S) /\ Times(Tail(s), h) <= Times(s, h)
  <1> DEFINE o == <<Head(s)>>
             t == Tail(s)
  <1>1. t \in Seq(S) /\ Joins(o, t, s) /\ o \in Seq(S)
    BY DEF Joins
  <1>. SUFFICES t \in Seq(S) /\ Times(t, h) <= Times(s, h)
    OBVIOUS
  <1> HIDE DEF o, t
  <1>2. Times(s, h) = Times(o, h) + Times(t, h)
    BY <1>1, TimesJoin
  <1>3. Times(o, h) \in Nat /\ Times(t, h) \in Nat
    BY <1>1, PlacesFinite
  <1>. QED
    BY <1>1, <1>2, <1>3

-----------------------------------------------------------------------------
(* The places of a set, in order.                                          *)

RankIn(P, i) == Cardinality({j \in P : j <= i})

\* The ranks of n places are 1 .. n.
LEMMA Ranks ==
    ASSUME NEW P \in SUBSET Nat, IsFiniteSet(P)
    PROVE  /\ \A i \in P : RankIn(P, i) \in 1..Cardinality(P)
           /\ \A i, j \in P : RankIn(P, i) = RankIn(P, j) => i = j
           /\ \A k \in 1..Cardinality(P) : \E i \in P : RankIn(P, i) = k
  <1>1. Cardinality(P) \in Nat
    BY FS_CardinalityType
  <1> DEFINE D(i) == {j \in P : j <= i}
  <1>2. ASSUME NEW i \in P
        PROVE  /\ IsFiniteSet(D(i)) /\ RankIn(P, i) \in 1..Cardinality(P)
    <2>1. D(i) \in SUBSET P /\ {i} \in SUBSET D(i)
      OBVIOUS
    <2>2. IsFiniteSet(D(i)) /\ Cardinality(D(i)) <= Cardinality(P)
      BY <2>1, FS_Subset
    <2>3. Cardinality({i}) = 1 /\ Cardinality({i}) <= Cardinality(D(i))
      BY <2>1, <2>2, FS_Subset, FS_Singleton
    <2>4. Cardinality(D(i)) \in Nat
      BY <2>2, FS_CardinalityType
    <2>. QED
      BY <1>1, <2>2, <2>3, <2>4 DEF RankIn
  <1>3. ASSUME NEW i \in P, NEW j \in P, i < j
        PROVE  RankIn(P, i) # RankIn(P, j)
    <2>0. i \in Nat /\ j \in Nat /\ \A x \in P : x \in Nat
      OBVIOUS
    <2>1. D(i) \in SUBSET D(j)
      <3>1. ASSUME NEW x \in D(i)
            PROVE  x \in D(j)
        BY <1>3, <2>0
      <3>. QED
        BY <3>1
    <2>4. j \in D(j) /\ j \notin D(i)
      BY <1>3, <2>0
    <2>2. IsFiniteSet(D(j))
      BY <1>2
    <2>3. Cardinality(D(j)) # Cardinality(D(i))
      BY <2>1, <2>2, <2>4, FS_Subset
    <2>. QED
      BY <2>3 DEF RankIn
  <1>4. ASSUME NEW i \in P, NEW j \in P, RankIn(P, i) = RankIn(P, j)
        PROVE  i = j
    BY <1>3, <1>4
  <1>f. PICK f : f = [i \in P |-> RankIn(P, i)]
    OBVIOUS
  <1>5. f \in [P -> 1..Cardinality(P)] /\ \A i, j \in P : f[i] = f[j] => i = j
    BY <1>2, <1>4, <1>f
  <1>6. f \in Injection(P, 1..Cardinality(P))
    BY <1>5 DEF Injection, IsInjective
  <1>7. IsFiniteSet(1..Cardinality(P)) /\ Cardinality(1..Cardinality(P)) = Cardinality(P)
    BY <1>1, FS_Interval
  <1>8. f \in Surjection(P, 1..Cardinality(P))
    BY <1>6, <1>7, FS_Injection
  <1>9. \A k \in 1..Cardinality(P) : \E i \in P : f[i] = k
    BY <1>8 DEF Surjection
  <1>. QED
    BY <1>2, <1>4, <1>9, <1>f

\* Nth goes through the places, each one once.
LEMMA NthFacts ==
    ASSUME NEW P \in SUBSET Nat, IsFiniteSet(P)
    PROVE  /\ Cardinality(P) \in Nat
           /\ \A k \in 1..Cardinality(P) : Nth(P, k) \in P
           /\ \A k, l \in 1..Cardinality(P) : Nth(P, k) = Nth(P, l) => k = l
           /\ \A i \in P : \E k \in 1..Cardinality(P) : Nth(P, k) = i
  <1>1. Cardinality(P) \in Nat
    BY FS_CardinalityType
  <1>2. ASSUME NEW k \in 1..Cardinality(P)
        PROVE  Nth(P, k) \in P /\ RankIn(P, Nth(P, k)) = k
    <2>1. \E i \in P : RankIn(P, i) = k
      BY Ranks
    <2>2. Nth(P, k) = CHOOSE i \in P : RankIn(P, i) = k
      BY DEF Nth, RankIn
    <2>. QED
      BY <2>1, <2>2
  <1>3. ASSUME NEW i \in P
        PROVE  \E k \in 1..Cardinality(P) : Nth(P, k) = i
    <2>1. RankIn(P, i) \in 1..Cardinality(P)
      BY Ranks
    <2>2. Nth(P, RankIn(P, i)) \in P /\ RankIn(P, Nth(P, RankIn(P, i))) = RankIn(P, i)
      BY <1>2, <2>1
    <2>4. \A a, b \in P : RankIn(P, a) = RankIn(P, b) => a = b
      BY Ranks
    <2>3. Nth(P, RankIn(P, i)) = i
      BY <2>2, <2>4
    <2>. QED
      BY <2>1, <2>3
  <1>4. ASSUME NEW k \in 1..Cardinality(P), NEW l \in 1..Cardinality(P), Nth(P, k) = Nth(P, l)
        PROVE  k = l
    BY <1>2, <1>4
  <1>. QED
    BY <1>1, <1>2, <1>3, <1>4

\* The least place of a set is one of its places.
LEMMA MinIs ==
    ASSUME NEW P \in SUBSET Nat, IsFiniteSet(P), P # {}
    PROVE  Min(P) \in P /\ \A j \in P : Min(P) <= j
  <1>1. Cardinality(P) \in Nat /\ Cardinality(P) # 0
    BY FS_CardinalityType, FS_EmptySet
  <1>2. PICK i \in P : RankIn(P, i) = 1
    BY <1>1, Ranks
  <1>3. ASSUME NEW j \in P
        PROVE  i <= j
    <2>1. SUFFICES ASSUME j < i
                   PROVE  FALSE
      OBVIOUS
    <2> DEFINE D == {x \in P : x <= i}
    <2>2. IsFiniteSet(D) /\ {i, j} \in SUBSET D
      BY <2>1, FS_Subset
    <2>3. Cardinality(D) = 1
      BY <1>2 DEF RankIn
    <2>4. \E x : D = {x}
      BY <2>2, <2>3, FS_Singleton
    <2>. QED
      BY <2>1, <2>2, <2>4
  <1>. QED
    BY <1>3 DEF Min

\* The places of P at which g has h.
Found(P, g, h) == {i \in P : g[i] = h}

\* What g has at the places of P, in order.
Picked(P, g) == [k \in 1..Cardinality(P) |-> g[Nth(P, k)]]

\* Finitely many places, at which g has elements of S.
ReadsOut(P, g, S) == P \in SUBSET Nat /\ IsFiniteSet(P) /\ \A i \in P : g[i] \in S

\* How often h is found at the places, taken in order.
LEMMA TimesNth ==
    ASSUME NEW S, NEW g, NEW P, ReadsOut(P, g, S), NEW h
    PROVE  /\ Picked(P, g) \in Seq(S) /\ IsFiniteSet(Found(P, g, h))
           /\ Times(Picked(P, g), h) = Cardinality(Found(P, g, h))
  <1>0. P \in SUBSET Nat /\ IsFiniteSet(P) /\ \A i \in P : g[i] \in S
    BY DEF ReadsOut
  <1> DEFINE t == Picked(P, g)
  <1> PICK n : n = Cardinality(P)
    OBVIOUS
  <1>1. /\ n \in Nat
        /\ \A k \in 1..n : Nth(P, k) \in P
        /\ \A k, l \in 1..n : Nth(P, k) = Nth(P, l) => k = l
        /\ \A i \in P : \E k \in 1..n : Nth(P, k) = i
    BY <1>0, NthFacts
  <1>2. t \in [1..n -> S] /\ DOMAIN t = 1..n /\ \A k \in 1..n : t[k] = g[Nth(P, k)]
    BY <1>0, <1>1 DEF Picked
  <1>3. t \in Seq(S)
    BY <1>1, <1>2, IsASeq
  <1> DEFINE G == Found(P, g, h)
  <1> HIDE DEF t
  <1> PICK f : f = [k \in Places(t, h) |-> Nth(P, k)]
    OBVIOUS
  <1>4. f \in [Places(t, h) -> G]
    BY <1>1, <1>2 DEF Places, Found
  <1>5. \A x, y \in Places(t, h) : f[x] = f[y] => x = y
    BY <1>1, <1>2 DEF Places
  <1>6. ASSUME NEW i \in G
        PROVE  \E k \in Places(t, h) : f[k] = i
    <2>1. PICK k \in 1..n : Nth(P, k) = i
      BY <1>1 DEF Found
    <2>. QED
      BY <1>2, <2>1 DEF Places, Found
  <1>7. IsFiniteSet(Places(t, h)) /\ Times(t, h) = Cardinality(Places(t, h))
    BY <1>3, PlacesFinite
  <1>8. IsFiniteSet(G) /\ Cardinality(G) = Cardinality(Places(t, h))
    <2> HIDE DEF G
    <2>. QED
      BY <1>4, <1>5, <1>6, <1>7, SameCount
  <1>. QED
    BY <1>3, <1>7, <1>8 DEF t

-----------------------------------------------------------------------------
(* ClientPictures.                                                         *)

LineSeq == Seq(Line)
HashSeq == Seq(Hashes)
Counts  == [Hashes -> Nat]

\* The types of the panes, the queues and the counts.
PicTyped ==
    /\ lines \in LineSeq /\ Len(lines) <= PaneLines
    /\ parked \in LineSeq /\ Len(parked) <= PaneLines
    /\ loads \in HashSeq /\ requests \in HashSeq
    /\ fetching \in HashSeq /\ Len(fetching) <= MaxFetches
    /\ lookups \in Counts /\ wire \in Counts /\ decoding \in Counts
    /\ misses \in Counts /\ found \in Counts /\ lost \in Counts
    /\ cached \subseteq Hashes /\ offered \in BOOLEAN

Waits(h) == [hash |-> h, pic |-> "waiting"]

NoneOf(sheet, pic) == \A i \in DOMAIN sheet : sheet[i].pic # pic

\* Without captions that are offered for a click, nobody takes the picture that another
\* caption waits for.
Coming ==
    ~offered => /\ NoneOf(lines, "absent") /\ NoneOf(parked, "absent")
                /\ \A h \in Hashes : Times(lines, Waits(h)) <= Tokens(h)

\* A pane that is put away waits for nothing.
PicInv == PicTyped /\ NoneOf(parked, "waiting") /\ Coming /\ SlotsComeBack

\* The captions that wait for a hash.
LEMMA WaitingLines ==
    ASSUME lines \in LineSeq, NEW h \in Hashes
    PROVE  /\ Lines(h, {"waiting"}) = Places(lines, Waits(h))
           /\ Cardinality(Lines(h, {"waiting"})) = Times(lines, Waits(h))
  <1>1. \A i \in DOMAIN lines : lines[i] \in Line
    BY DEF LineSeq
  <1>2. \A l \in Line : l = Waits(h) <=> l.hash = h /\ l.pic = "waiting"
    BY DEF Line, Waits
  <1>3. Lines(h, {"waiting"}) = Places(lines, Waits(h))
    BY <1>1, <1>2 DEF Lines, Places
  <1>. QED
    BY <1>3, PlacesFinite DEF LineSeq

\* How many captions wait is a number.
LEMMA LineTimes ==
    ASSUME NEW s \in LineSeq, NEW w
    PROVE  Times(s, w) \in Nat
  BY PlacesFinite DEF LineSeq

\* A pane in which fewer captions are like w.
LEMMA Fewer ==
    ASSUME NEW s \in LineSeq, NEW t \in LineSeq, NEW w, Places(t, w) \subseteq Places(s, w)
    PROVE  Times(t, w) <= Times(s, w)
  <1>1. IsFiniteSet(Places(s, w)) /\ Times(s, w) = Cardinality(Places(s, w))
        /\ Times(t, w) = Cardinality(Places(t, w))
    BY PlacesFinite DEF LineSeq
  <1>. QED
    BY <1>1, FS_Subset

\* A count goes up or down.
LEMMA CountSteps ==
    ASSUME NEW c \in Counts, NEW h \in Hashes
    PROVE  /\ Plus(c, h) \in Counts
           /\ \A g \in Hashes : Plus(c, h)[g] = c[g] + (IF g = h THEN 1 ELSE 0)
           /\ c[h] > 0 => /\ Minus(c, h) \in Counts
                          /\ \A g \in Hashes : Minus(c, h)[g] = c[g] - (IF g = h THEN 1 ELSE 0)
  BY DEF Counts, Plus, Minus

\* The counts and the queues of a hash are numbers.
LEMMA Numbers ==
    ASSUME PicTyped, NEW h \in Hashes
    PROVE  /\ lookups[h] \in Nat /\ wire[h] \in Nat /\ decoding[h] \in Nat
           /\ misses[h] \in Nat /\ found[h] \in Nat /\ lost[h] \in Nat
           /\ Times(loads, h) \in Nat /\ Times(requests, h) \in Nat /\ Times(fetching, h) \in Nat
           /\ Tokens(h) \in Nat
  <1>1. /\ lookups[h] \in Nat /\ wire[h] \in Nat /\ decoding[h] \in Nat
        /\ misses[h] \in Nat /\ found[h] \in Nat /\ lost[h] \in Nat
    BY DEF PicTyped, Counts
  <1>2. Times(loads, h) \in Nat /\ Times(requests, h) \in Nat /\ Times(fetching, h) \in Nat
    BY PlacesFinite DEF PicTyped, HashSeq
  <1>. QED
    BY <1>1, <1>2 DEF Tokens

\* A caption is pushed: the oldest one may go.
LEMMA PushKept ==
    ASSUME NEW sheet \in LineSeq, Len(sheet) <= PaneLines, NEW h \in Hashes, NEW pic \in Pictures,
           NEW r, r = Pushed(sheet, h, pic)
    PROVE  /\ r \in LineSeq /\ Len(r) <= PaneLines
           /\ \A p : NoneOf(sheet, p) /\ pic # p => NoneOf(r, p)
           /\ \A w : Times(r, w) <= Times(sheet, w) + (IF w = [hash |-> h, pic |-> pic] THEN 1 ELSE 0)
  <1> DEFINE l == [hash |-> h, pic |-> pic]
  <1>1. l \in Line /\ l.pic = pic
    BY DEF Line
  <1> HIDE DEF l
  <1>a. PICK a : a = Append(sheet, l)
    OBVIOUS
  <1>2. /\ a \in Seq(Line) /\ Len(a) = Len(sheet) + 1 /\ Len(sheet) \in Nat /\ a # <<>>
        /\ DOMAIN a = 1..(Len(sheet) + 1) /\ DOMAIN sheet = 1..Len(sheet)
        /\ a[Len(sheet) + 1] = l /\ \A i \in 1..Len(sheet) : a[i] = sheet[i]
    BY <1>1, <1>a DEF LineSeq
  <1>3. \A p : NoneOf(sheet, p) /\ pic # p => NoneOf(a, p)
    BY <1>1, <1>2 DEF NoneOf
  <1>4. \A w : Times(a, w) = Times(sheet, w) + (IF w = l THEN 1 ELSE 0)
    BY <1>1, <1>a, TimesAppend DEF LineSeq
  <1>t. PICK t : t = Tail(a)
    OBVIOUS
  <1>5. /\ t \in Seq(Line) /\ Len(t) = Len(sheet) /\ DOMAIN t = 1..Len(sheet)
        /\ \A i \in 1..Len(sheet) : t[i] = a[i + 1] /\ i + 1 \in DOMAIN a
    BY <1>2, <1>t
  <1>6. \A p : NoneOf(a, p) => NoneOf(t, p)
    BY <1>5 DEF NoneOf
  <1>7. \A w : Times(t, w) <= Times(a, w)
    BY <1>2, <1>t, TimesTail
  <1>8. r = IF Len(a) > PaneLines THEN t ELSE a
    BY <1>a, <1>t DEF Pushed, l
  <1>9. \A w : Times(a, w) \in Nat /\ Times(t, w) \in Nat /\ Times(sheet, w) \in Nat
    BY <1>2, <1>5, LineTimes DEF LineSeq
  <1>10. PaneLines \in Nat
    BY PictureAssumption
  <1>11. r \in LineSeq /\ Len(r) <= PaneLines
    BY <1>2, <1>5, <1>8, <1>10 DEF LineSeq
  <1>12. \A w : Times(r, w) <= Times(sheet, w) + (IF w = l THEN 1 ELSE 0)
    BY <1>4, <1>7, <1>8, <1>9
  <1>13. \A p : NoneOf(sheet, p) /\ pic # p => NoneOf(r, p)
    BY <1>3, <1>6, <1>8
  <1>. QED
    BY <1>11, <1>12, <1>13 DEF l

-----------------------------------------------------------------------------
(* One lemma per group of actions.                                         *)

\* Captions: nothing is on its way but the request that goes with one that waits.
LEMMA CaptionSteps ==
    ASSUME PicInv, NEW h \in Hashes, NEW here \in BOOLEAN,
           Pending(h) \/ Offer(h) \/ Parked(h, here) \/ Display(h)
    PROVE  PicInv'
  <1>0. PicTyped /\ NoneOf(parked, "waiting") /\ Coming /\ SlotsComeBack
    BY DEF PicInv
  <1>1. ASSUME NEW pic \in Pictures \ {"waiting"}, lines' = Pushed(lines, h, pic), parked' = parked,
               UNCHANGED <<loads, requests, lookups, fetching, wire, decoding, misses, found, lost>>,
               cached' \subseteq Hashes, offered' \in BOOLEAN,
               ~offered' => ~offered /\ pic # "absent"
        PROVE  PicInv'
    <2>1. /\ lines' \in LineSeq /\ Len(lines') <= PaneLines
          /\ \A p : NoneOf(lines, p) /\ pic # p => NoneOf(lines', p)
          /\ \A w : Times(lines', w) <= Times(lines, w) + (IF w = [hash |-> h, pic |-> pic] THEN 1 ELSE 0)
      BY <1>0, <1>1, PushKept DEF PicTyped
    <2>2. \A g \in Hashes : Waits(g) # [hash |-> h, pic |-> pic]
      BY DEF Waits
    <2>3. \A g \in Hashes : Times(lines', Waits(g)) <= Times(lines, Waits(g))
      <3>1. \A w : Times(lines, w) \in Nat /\ Times(lines', w) \in Nat
        BY <1>0, <2>1, LineTimes DEF PicTyped
      <3>. QED
        BY <2>1, <2>2, <3>1
    <2>4. PicTyped' /\ NoneOf(parked', "waiting")
      BY <1>0, <1>1, <2>1 DEF PicTyped
    <2>5. \A g \in Hashes : Tokens(g)' = Tokens(g) /\ Tokens(g) \in Nat
      BY <1>0, <1>1, Numbers DEF Tokens
    <2>6. \A w : Times(lines, w) \in Nat /\ Times(lines', w) \in Nat
      BY <1>0, <2>1, LineTimes DEF PicTyped
    <2>7. Coming'
      <3>1. SUFFICES ASSUME ~offered'
                     PROVE  /\ NoneOf(lines', "absent") /\ NoneOf(parked', "absent")
                            /\ \A g \in Hashes : Times(lines', Waits(g)) <= Tokens(g)'
        BY DEF Coming
      <3>2. ~offered /\ pic # "absent"
        BY <1>1, <3>1
      <3>3. NoneOf(lines', "absent") /\ NoneOf(parked', "absent")
        BY <1>0, <1>1, <2>1, <3>2 DEF Coming
      <3>4. \A g \in Hashes : Times(lines', Waits(g)) <= Tokens(g)'
        BY <1>0, <2>3, <2>5, <2>6, <3>2 DEF Coming
      <3>. QED
        BY <3>3, <3>4
    <2>8. SlotsComeBack'
      BY <1>0, <1>1 DEF SlotsComeBack
    <2>. QED
      BY <2>4, <2>7, <2>8 DEF PicInv
  <1>2. ASSUME NEW pic \in {"deferred", "absent"}, parked' = Pushed(parked, h, pic),
               UNCHANGED <<lines, loads, requests, lookups, fetching, wire, decoding, misses, found,
                           lost, cached>>,
               offered' \in BOOLEAN, ~offered' => ~offered /\ pic # "absent"
        PROVE  PicInv'
    <2>1. /\ parked' \in LineSeq /\ Len(parked') <= PaneLines
          /\ \A p : NoneOf(parked, p) /\ pic # p => NoneOf(parked', p)
      BY <1>0, <1>2, PushKept DEF PicTyped, Pictures
    <2>2. PicTyped' /\ NoneOf(parked', "waiting")
      BY <1>0, <1>2, <2>1 DEF PicTyped
    <2>3. Coming'
      BY <1>0, <1>2, <2>1 DEF Coming, Tokens
    <2>4. SlotsComeBack'
      BY <1>0, <1>2 DEF SlotsComeBack
    <2>. QED
      BY <2>2, <2>3, <2>4 DEF PicInv
  <1>3. CASE Pending(h)
    <2>0. /\ lines' = Pushed(lines, h, "waiting") /\ requests' = Append(requests, h)
          /\ UNCHANGED <<parked, loads, lookups, fetching, wire, decoding, misses, found, lost,
                         cached, offered>>
      BY <1>3 DEF Pending, Tasks
    <2>1. /\ lines' \in LineSeq /\ Len(lines') <= PaneLines
          /\ \A p : NoneOf(lines, p) /\ "waiting" # p => NoneOf(lines', p)
          /\ \A w : Times(lines', w) <= Times(lines, w) + (IF w = Waits(h) THEN 1 ELSE 0)
      BY <1>0, <2>0, PushKept DEF PicTyped, Pictures, Waits
    <2>2. /\ requests' \in HashSeq
          /\ \A g : Times(requests', g) = Times(requests, g) + (IF h = g THEN 1 ELSE 0)
      BY <1>0, <2>0, TimesAppend DEF PicTyped, HashSeq
    <2>3. PicTyped' /\ NoneOf(parked', "waiting")
      BY <1>0, <2>0, <2>1, <2>2 DEF PicTyped
    <2>4. ASSUME NEW g \in Hashes
          PROVE  Tokens(g)' = Tokens(g) + (IF h = g THEN 1 ELSE 0)
      <3>1. Times(requests, g) \in Nat /\ Times(requests', g) = Times(requests, g) + (IF h = g THEN 1 ELSE 0)
        BY <1>0, <2>2, Numbers
      <3>2. /\ Times(loads, g) \in Nat /\ lookups[g] \in Nat /\ misses[g] \in Nat /\ wire[g] \in Nat
            /\ decoding[g] \in Nat /\ found[g] \in Nat /\ lost[g] \in Nat
        BY <1>0, Numbers
      <3>3. Tokens(g)' = Times(loads, g) + lookups[g] + misses[g] + Times(requests', g) + wire[g]
                           + decoding[g] + found[g] + lost[g]
        BY <2>0 DEF Tokens
      <3>. QED
        BY <3>1, <3>2, <3>3 DEF Tokens
    <2>5. \A g \in Hashes : Waits(g) = Waits(h) => g = h
      BY DEF Waits
    <2>6. ASSUME NEW g \in Hashes, Times(lines, Waits(g)) <= Tokens(g)
          PROVE  Times(lines', Waits(g)) <= Tokens(g)'
      <3>1. Times(lines, Waits(g)) \in Nat /\ Times(lines', Waits(g)) \in Nat /\ Tokens(g) \in Nat
        BY <1>0, <2>1, LineTimes, Numbers DEF PicTyped
      <3>2. Times(lines', Waits(g)) <= Times(lines, Waits(g)) + (IF h = g THEN 1 ELSE 0)
        BY <2>1, <2>5, <3>1
      <3>. QED
        BY <2>4, <2>6, <3>1, <3>2
    <2>7. Coming'
      BY <1>0, <2>0, <2>1, <2>6 DEF Coming
    <2>8. SlotsComeBack'
      BY <1>0, <2>0 DEF SlotsComeBack
    <2>. QED
      BY <2>3, <2>7, <2>8 DEF PicInv
  <1>4. CASE Offer(h)
    BY <1>0, <1>1, <1>4 DEF Offer, Tasks, Pictures, PicTyped
  <1>5. CASE Display(h)
    BY <1>0, <1>1, <1>5 DEF Display, Stored, Pictures, PicTyped
  <1>6. CASE Parked(h, here)
    <2> DEFINE pic == IF auto THEN "deferred" ELSE "absent"
    <2>1. /\ pic \in {"deferred", "absent"} /\ pic \in Pictures \ {"waiting"}
          /\ offered' \in BOOLEAN /\ (~offered' => ~offered /\ pic # "absent")
          /\ UNCHANGED <<loads, requests, lookups, fetching, wire, decoding, misses, found, lost, cached>>
          /\ cached' \subseteq Hashes
      BY <1>0, <1>6 DEF Parked, Tasks, Pictures, PicTyped
    <2>2. CASE here
      <3>1. lines' = Pushed(lines, h, pic) /\ parked' = parked
        BY <1>6, <2>2 DEF Parked
      <3> HIDE DEF pic
      <3>. QED
        BY <1>1, <2>1, <3>1
    <2>3. CASE ~here
      <3>1. parked' = Pushed(parked, h, pic) /\ lines' = lines
        BY <1>6, <2>3 DEF Parked
      <3> HIDE DEF pic
      <3>. QED
        BY <1>2, <2>1, <3>1
    <2>. QED
      BY <2>2, <2>3
  <1>. QED
    BY <1>3, <1>4, <1>5, <1>6

\* A caption that was deferred waits, and its look-up is asked for.
LEMMA DrawStep ==
    ASSUME PicInv, NEW visible \in SUBSET DOMAIN lines, Draw(visible)
    PROVE  PicInv'
  <1>0. PicTyped /\ NoneOf(parked, "waiting") /\ Coming /\ SlotsComeBack
    BY DEF PicInv
  <1> DEFINE wants == {i \in visible : lines[i].pic = "deferred"}
  <1>d. /\ DOMAIN lines = 1..Len(lines) /\ Len(lines) \in Nat /\ \A i \in DOMAIN lines : lines[i] \in Line
    BY <1>0 DEF PicTyped, LineSeq
  <1>m. PICK m : m = [i \in DOMAIN lines |-> IF i \in wants THEN [lines[i] EXCEPT !.pic = "waiting"] ELSE lines[i]]
    OBVIOUS
  <1>g. PICK g : g = [i \in DOMAIN lines |-> lines[i].hash]
    OBVIOUS
  <1>k. PICK k : k = Picked(wants, g)
    OBVIOUS
  <1>1. /\ UNCHANGED <<parked, requests, lookups, fetching, wire, decoding, misses, found, lost,
                       cached, offered>>
        /\ lines' = m \o <<>>
        /\ loads' = loads \o [j \in 1..Cardinality(wants) |-> lines[Nth(wants, j)].hash]
    BY <1>m DEF Draw, Tasks
  <1>2. wants \in SUBSET Nat /\ IsFiniteSet(wants) /\ wants \subseteq DOMAIN lines
    <2>1. IsFiniteSet(DOMAIN lines)
      BY <1>d, FS_Interval
    <2>. QED
      BY <1>d, <2>1, FS_Subset
  <1>3. /\ \A i \in wants : lines[i].pic = "deferred" /\ g[i] = lines[i].hash /\ g[i] \in Hashes
        /\ \A i \in DOMAIN lines : m[i] = IF i \in wants THEN [lines[i] EXCEPT !.pic = "waiting"] ELSE lines[i]
    BY <1>d, <1>m, <1>g, <1>2 DEF Line
  <1> HIDE DEF wants
  <1>4. k = [j \in 1..Cardinality(wants) |-> lines[Nth(wants, j)].hash]
    <2>1. \A j \in 1..Cardinality(wants) : Nth(wants, j) \in wants
      BY <1>2, NthFacts
    <2>. QED
      BY <1>k, <1>3, <2>1 DEF Picked
  <1>t. ASSUME NEW h
        PROVE  /\ k \in Seq(Hashes)
               /\ Times(k, h) = Cardinality(Found(wants, g, h)) /\ IsFiniteSet(Found(wants, g, h))
    <2>1. \A i \in wants : g[i] \in Hashes
      BY <1>3
    <2>2. wants \in SUBSET Nat /\ IsFiniteSet(wants)
      BY <1>2
    <2>4. ReadsOut(wants, g, Hashes)
      BY <2>1, <2>2 DEF ReadsOut
    <2>3. /\ Picked(wants, g) \in Seq(Hashes) /\ IsFiniteSet(Found(wants, g, h))
          /\ Times(Picked(wants, g), h) = Cardinality(Found(wants, g, h))
      BY <2>4, TimesNth
    <2>. QED
      BY <1>k, <2>3
  <1>5. k \in HashSeq
    BY <1>t DEF HashSeq
  <1>6. Joins(loads, k, loads')
    BY <1>1, <1>4 DEF Joins
  <1>7. /\ loads' \in HashSeq
        /\ \A h : Times(loads', h) = Times(loads, h) + Times(k, h)
    BY <1>0, <1>5, <1>6, TimesJoin DEF HashSeq, PicTyped
  <1>8. /\ lines' = m /\ m \in LineSeq /\ Len(m) = Len(lines) /\ DOMAIN m = DOMAIN lines
    <2>1. m \in [1..Len(lines) -> Line]
      BY <1>d, <1>m, <1>3 DEF Line, Pictures
    <2>2. m \in Seq(Line) /\ Len(m) = Len(lines)
      BY <1>d, <2>1
    <2>3. m \o <<>> = m
      BY <2>2, ConcatEmptySeq
    <2>. QED
      BY <1>d, <1>1, <2>1, <2>2, <2>3 DEF LineSeq
  <1>9. ASSUME NEW h \in Hashes
        PROVE  Times(lines', Waits(h)) = Times(lines, Waits(h)) + Times(k, h)
    <2> DEFINE A == Found(wants, g, h)
    <2>1. Places(m, Waits(h)) = Places(lines, Waits(h)) \cup A
      <3>1. ASSUME NEW i \in DOMAIN lines
            PROVE  m[i] = Waits(h) <=> lines[i] = Waits(h) \/ i \in A
        <4>1. lines[i] \in Line /\ (i \in wants => lines[i].pic = "deferred" /\ g[i] = lines[i].hash)
          BY <1>d, <1>3
        <4>2. CASE i \in wants
          <5>1. m[i] = [hash |-> lines[i].hash, pic |-> "waiting"]
            BY <1>3, <4>1, <4>2 DEF Line
          <5>2. m[i] = Waits(h) <=> g[i] = h
            BY <4>1, <4>2, <5>1 DEF Waits
          <5>3. lines[i] # Waits(h)
            BY <4>1, <4>2 DEF Waits
          <5>. QED
            BY <4>2, <5>2, <5>3 DEF Found
        <4>3. CASE i \notin wants
          BY <1>3, <4>1, <4>3 DEF Found
        <4>. QED
          BY <4>2, <4>3
      <3>2. A \subseteq DOMAIN lines
        BY <1>2 DEF Found
      <3> HIDE DEF A
      <3>. QED
        BY <1>8, <3>1, <3>2 DEF Places
    <2>2. Places(lines, Waits(h)) \cap A = {}
      BY <1>3 DEF Places, Waits, Found
    <2>3. IsFiniteSet(A) /\ Times(k, h) = Cardinality(A)
      BY <1>t
    <2>4. /\ IsFiniteSet(Places(lines, Waits(h)))
          /\ Times(lines, Waits(h)) = Cardinality(Places(lines, Waits(h)))
          /\ Times(m, Waits(h)) = Cardinality(Places(m, Waits(h)))
      BY <1>0, <1>8, PlacesFinite DEF PicTyped, LineSeq
    <2> HIDE DEF A
    <2>5. Cardinality(Places(m, Waits(h))) = Cardinality(Places(lines, Waits(h))) + Cardinality(A)
      BY <2>1, <2>2, <2>3, <2>4, CountJoin
    <2>. QED
      BY <1>8, <2>3, <2>4, <2>5
  <1>10. PicTyped' /\ NoneOf(parked', "waiting")
    BY <1>0, <1>1, <1>7, <1>8 DEF PicTyped
  <1>11. ASSUME NEW h \in Hashes, Times(lines, Waits(h)) <= Tokens(h)
         PROVE  Times(lines', Waits(h)) <= Tokens(h)'
    <2>1. /\ Times(loads, h) \in Nat /\ lookups[h] \in Nat /\ misses[h] \in Nat /\ wire[h] \in Nat
          /\ decoding[h] \in Nat /\ found[h] \in Nat /\ lost[h] \in Nat /\ Times(requests, h) \in Nat
      BY <1>0, Numbers
    <2>2. Tokens(h)' = Times(loads', h) + lookups[h] + misses[h] + Times(requests, h) + wire[h]
                         + decoding[h] + found[h] + lost[h]
      BY <1>1 DEF Tokens
    <2>3. Times(k, h) \in Nat /\ Times(lines, Waits(h)) \in Nat
      BY <1>0, <1>5, LineTimes, PlacesFinite DEF PicTyped, HashSeq
    <2>4. Tokens(h)' = Tokens(h) + Times(k, h)
      BY <1>7, <2>1, <2>2, <2>3 DEF Tokens
    <2>5. Tokens(h) \in Nat
      BY <1>0, Numbers
    <2>. QED
      BY <1>9, <1>11, <2>3, <2>4, <2>5
  <1>12. NoneOf(lines, "absent") => NoneOf(lines', "absent")
    BY <1>d, <1>3, <1>8 DEF NoneOf, Line
  <1>13. Coming'
    BY <1>0, <1>1, <1>11, <1>12 DEF Coming
  <1>14. SlotsComeBack'
    BY <1>0, <1>1 DEF SlotsComeBack
  <1>. QED
    BY <1>10, <1>13, <1>14 DEF PicInv

\* A caption that is clicked waits for its look-up.
LEMMA ClickStep ==
    ASSUME PicInv, NEW i \in DOMAIN lines, Click(i)
    PROVE  PicInv'
  <1>0. PicTyped /\ NoneOf(parked, "waiting") /\ Coming /\ SlotsComeBack
    BY DEF PicInv
  <1>d. /\ DOMAIN lines = 1..Len(lines) /\ Len(lines) \in Nat /\ \A j \in DOMAIN lines : lines[j] \in Line
    BY <1>0 DEF PicTyped, LineSeq
  <1>h. PICK h : h = lines[i].hash
    OBVIOUS
  <1>1. /\ UNCHANGED <<parked, loads, requests, fetching, wire, decoding, misses, found, lost,
                       cached, offered>>
        /\ lines[i].pic \in {"absent", "gone"}
        /\ lines' = [lines EXCEPT ![i].pic = "waiting"] /\ lookups' = Plus(lookups, h)
    BY <1>h DEF Click
  <1>2. h \in Hashes /\ lines[i] # Waits(h)
    BY <1>d, <1>h, <1>1 DEF Line, Waits
  <1>3. /\ lookups' \in Counts
        /\ \A g \in Hashes : lookups'[g] = lookups[g] + (IF g = h THEN 1 ELSE 0)
    BY <1>0, <1>1, <1>2, CountSteps DEF PicTyped
  <1>4. /\ lines' \in LineSeq /\ Len(lines') = Len(lines) /\ DOMAIN lines' = DOMAIN lines
        /\ lines'[i] = Waits(h) /\ \A j \in DOMAIN lines : j # i => lines'[j] = lines[j]
    <2>1. [lines[i] EXCEPT !.pic = "waiting"] = Waits(h) /\ Waits(h) \in Line
      BY <1>d, <1>h, <1>2 DEF Line, Waits, Pictures
    <2>2. lines' = [lines EXCEPT ![i] = Waits(h)]
      BY <1>1, <2>1
    <2>3. lines \in Seq(Line)
      BY <1>0 DEF PicTyped, LineSeq
    <2>. QED
      BY <1>d, <2>1, <2>2, <2>3 DEF LineSeq
  <1>5. ASSUME NEW g \in Hashes
        PROVE  Times(lines', Waits(g)) = Times(lines, Waits(g)) + (IF g = h THEN 1 ELSE 0)
    <2>1. /\ IsFiniteSet(Places(lines, Waits(g)))
          /\ Times(lines, Waits(g)) = Cardinality(Places(lines, Waits(g)))
          /\ Times(lines', Waits(g)) = Cardinality(Places(lines', Waits(g)))
      BY <1>0, <1>4, PlacesFinite DEF PicTyped, LineSeq
    <2>2. CASE g = h
      <3>1. Places(lines', Waits(g)) = Places(lines, Waits(g)) \cup {i} /\ i \notin Places(lines, Waits(g))
        BY <1>2, <1>4, <2>2 DEF Places
      <3>. QED
        BY <2>1, <2>2, <3>1, FS_AddElement
    <2>3. CASE g # h
      <3>1. Waits(g) # Waits(h)
        BY <2>3 DEF Waits
      <3>2. lines[i] # Waits(g)
        BY <1>h, <2>3 DEF Waits
      <3>3. Places(lines', Waits(g)) = Places(lines, Waits(g))
        BY <1>4, <3>1, <3>2 DEF Places
      <3>4. Times(lines, Waits(g)) \in Nat
        BY <1>0, LineTimes DEF PicTyped
      <3>. QED
        BY <2>1, <2>3, <3>3, <3>4
    <2>. QED
      BY <2>2, <2>3
  <1>6. PicTyped' /\ NoneOf(parked', "waiting")
    BY <1>0, <1>1, <1>3, <1>4 DEF PicTyped
  <1>7. ASSUME NEW g \in Hashes, Times(lines, Waits(g)) <= Tokens(g)
        PROVE  Times(lines', Waits(g)) <= Tokens(g)'
    <2>1. /\ Times(loads, g) \in Nat /\ lookups[g] \in Nat /\ misses[g] \in Nat /\ wire[g] \in Nat
          /\ decoding[g] \in Nat /\ found[g] \in Nat /\ lost[g] \in Nat /\ Times(requests, g) \in Nat
      BY <1>0, Numbers
    <2>2. Tokens(g)' = Times(loads, g) + lookups'[g] + misses[g] + Times(requests, g) + wire[g]
                         + decoding[g] + found[g] + lost[g]
      BY <1>1 DEF Tokens
    <2>3. Times(lines, Waits(g)) \in Nat
      BY <1>0, LineTimes DEF PicTyped
    <2>4. Tokens(g)' = Tokens(g) + (IF g = h THEN 1 ELSE 0)
      BY <1>3, <2>1, <2>2 DEF Tokens
    <2>5. Tokens(g) \in Nat
      BY <1>0, Numbers
    <2>. QED
      BY <1>5, <1>7, <2>3, <2>4, <2>5
  <1>8. NoneOf(lines, "absent") => NoneOf(lines', "absent")
    BY <1>4 DEF NoneOf, Waits
  <1>9. Coming'
    BY <1>0, <1>1, <1>7, <1>8 DEF Coming
  <1>10. SlotsComeBack'
    BY <1>0, <1>1 DEF SlotsComeBack
  <1>. QED
    BY <1>6, <1>9, <1>10 DEF PicInv

\* A pane that is set aside waits for nothing, and what is shown instead waited for
\* nothing.
LEMMA SwitchStep ==
    ASSUME PicInv, Switch
    PROVE  PicInv'
  <1>0. PicTyped /\ NoneOf(parked, "waiting") /\ Coming /\ SlotsComeBack
    BY DEF PicInv
  <1>d. /\ DOMAIN lines = 1..Len(lines) /\ Len(lines) \in Nat /\ \A j \in DOMAIN lines : lines[j] \in Line
    BY <1>0 DEF PicTyped, LineSeq
  <1>m. PICK m : m = [i \in DOMAIN lines |->
                         IF lines[i].pic = "waiting" THEN [lines[i] EXCEPT !.pic = "deferred"] ELSE lines[i]]
    OBVIOUS
  <1>1. /\ UNCHANGED <<loads, requests, lookups, fetching, wire, decoding, misses, found, lost,
                       cached, offered>>
        /\ lines' = parked /\ parked' = m \o <<>>
    BY <1>m DEF Switch, SetAside, Tasks
  <1>2. m \in [1..Len(lines) -> Line]
    BY <1>d, <1>m DEF Line, Pictures
  <1>3. /\ parked' = m /\ m \in LineSeq /\ Len(m) = Len(lines) /\ DOMAIN m = DOMAIN lines
    <2>1. m \in Seq(Line) /\ Len(m) = Len(lines)
      BY <1>d, <1>2
    <2>2. m \o <<>> = m
      BY <2>1, ConcatEmptySeq
    <2>. QED
      BY <1>d, <1>1, <1>2, <2>1, <2>2 DEF LineSeq
  <1>4. NoneOf(m, "waiting") /\ (NoneOf(lines, "absent") => NoneOf(m, "absent"))
    BY <1>d, <1>m DEF NoneOf, Line
  <1>5. PicTyped' /\ NoneOf(parked', "waiting")
    BY <1>0, <1>1, <1>3, <1>4 DEF PicTyped
  <1>6. ASSUME NEW h \in Hashes
        PROVE  Times(lines', Waits(h)) <= Tokens(h)'
    <2>1. Places(parked, Waits(h)) = {}
      BY <1>0 DEF NoneOf, Places, Waits
    <2>2. Times(parked, Waits(h)) = 0
      BY <1>0, <2>1, PlacesFinite, FS_EmptySet DEF PicTyped, LineSeq
    <2>3. Tokens(h)' = Tokens(h)
      BY <1>1 DEF Tokens
    <2>4. Tokens(h) \in Nat
      BY <1>0, Numbers
    <2>. QED
      BY <1>1, <2>2, <2>3, <2>4
  <1>7. Coming'
    BY <1>0, <1>1, <1>3, <1>4, <1>6 DEF Coming
  <1>8. SlotsComeBack'
    BY <1>0, <1>1 DEF SlotsComeBack
  <1>. QED
    BY <1>5, <1>7, <1>8 DEF PicInv

\* What is on its way goes on: the tasks leave the captions and the queues alone.
LEMMA PictureTaskSteps ==
    ASSUME PicInv, NEW h \in Hashes, NEW flag \in BOOLEAN,
           LookUp(h, flag) \/ ServerAnswers(h) \/ Decode(h, flag) \/ Evict(h)
    PROVE  PicInv'
  <1>0. PicTyped /\ NoneOf(parked, "waiting") /\ Coming /\ SlotsComeBack
    BY DEF PicInv
  <1>1. UNCHANGED <<lines, parked, loads, requests, fetching, offered>>
    BY DEF LookUp, ServerAnswers, Decode, Evict, Elsewhere
  <1>2. ASSUME lookups' \in Counts, wire' \in Counts, decoding' \in Counts, misses' \in Counts,
               found' \in Counts, lost' \in Counts, cached' \subseteq Hashes,
               \A g \in Hashes :
                   /\ lookups'[g] + misses'[g] + wire'[g] + decoding'[g] + found'[g] + lost'[g]
                        = lookups[g] + misses[g] + wire[g] + decoding[g] + found[g] + lost[g]
                   /\ wire[g] + decoding[g] + found[g] + lost[g]
                        <= wire'[g] + decoding'[g] + found'[g] + lost'[g]
        PROVE  PicInv'
    <2>1. PicTyped' /\ NoneOf(parked', "waiting")
      BY <1>0, <1>1, <1>2 DEF PicTyped
    <2>2. ASSUME NEW g \in Hashes
          PROVE  Tokens(g)' = Tokens(g) /\ (Times(fetching, g) <= wire[g] + decoding[g] + found[g] + lost[g]
                     => Times(fetching', g) <= wire'[g] + decoding'[g] + found'[g] + lost'[g])
      <3>1. /\ lookups[g] \in Nat /\ wire[g] \in Nat /\ decoding[g] \in Nat
            /\ misses[g] \in Nat /\ found[g] \in Nat /\ lost[g] \in Nat
            /\ Times(loads, g) \in Nat /\ Times(requests, g) \in Nat /\ Times(fetching, g) \in Nat
        BY <1>0, Numbers
      <3>2. /\ lookups'[g] \in Nat /\ wire'[g] \in Nat /\ decoding'[g] \in Nat
            /\ misses'[g] \in Nat /\ found'[g] \in Nat /\ lost'[g] \in Nat
        BY <1>2 DEF Counts
      <3>3. Tokens(g)' = Times(loads, g) + lookups'[g] + misses'[g] + Times(requests, g) + wire'[g]
                           + decoding'[g] + found'[g] + lost'[g]
        BY <1>1 DEF Tokens
      <3>4. /\ lookups'[g] + misses'[g] + wire'[g] + decoding'[g] + found'[g] + lost'[g]
                 = lookups[g] + misses[g] + wire[g] + decoding[g] + found[g] + lost[g]
            /\ wire[g] + decoding[g] + found[g] + lost[g]
                 <= wire'[g] + decoding'[g] + found'[g] + lost'[g]
        BY <1>2
      <3>7. Tokens(g) = Times(loads, g) + lookups[g] + misses[g] + Times(requests, g) + wire[g]
                          + decoding[g] + found[g] + lost[g]
        BY DEF Tokens
      <3>8. Tokens(g) = Times(loads, g) + Times(requests, g)
                + (lookups[g] + misses[g] + wire[g] + decoding[g] + found[g] + lost[g])
        BY <3>1, <3>7
      <3>9. Tokens(g)' = Times(loads, g) + Times(requests, g)
                + (lookups'[g] + misses'[g] + wire'[g] + decoding'[g] + found'[g] + lost'[g])
        BY <3>1, <3>2, <3>3
      <3>5. Tokens(g)' = Tokens(g)
        BY <3>4, <3>8, <3>9
      <3>6. fetching' = fetching
        BY <1>1
      <3>. QED
        BY <3>1, <3>2, <3>4, <3>5, <3>6
    <2>3. Coming'
      BY <1>0, <1>1, <2>2 DEF Coming
    <2>4. SlotsComeBack'
      BY <1>0, <2>2 DEF SlotsComeBack
    <2>. QED
      BY <2>1, <2>3, <2>4 DEF PicInv
  <1>n. /\ lookups \in Counts /\ wire \in Counts /\ decoding \in Counts /\ misses \in Counts
        /\ found \in Counts /\ lost \in Counts /\ cached \subseteq Hashes
    BY <1>0 DEF PicTyped
  <1>v. \A c \in Counts, g \in Hashes : c[g] \in Nat
    BY DEF Counts
  <1>3. CASE LookUp(h, flag)
    <2>1. lookups[h] > 0 /\ lookups' = Minus(lookups, h) /\ UNCHANGED <<wire, decoding, lost, cached>>
      BY <1>3 DEF LookUp
    <2>2. \/ found' = Plus(found, h) /\ misses' = misses
          \/ misses' = Plus(misses, h) /\ found' = found
      BY <1>3 DEF LookUp
    <2>3. /\ lookups' \in Counts
          /\ \A g \in Hashes : lookups'[g] = lookups[g] - (IF g = h THEN 1 ELSE 0)
      BY <1>n, <2>1, CountSteps
    <2>4. \/ /\ found' \in Counts /\ misses' = misses
             /\ \A g \in Hashes : found'[g] = found[g] + (IF g = h THEN 1 ELSE 0)
          \/ /\ misses' \in Counts /\ found' = found
             /\ \A g \in Hashes : misses'[g] = misses[g] + (IF g = h THEN 1 ELSE 0)
      <3>1. /\ Plus(found, h) \in Counts
            /\ \A g \in Hashes : Plus(found, h)[g] = found[g] + (IF g = h THEN 1 ELSE 0)
        BY <1>n, CountSteps
      <3>2. /\ Plus(misses, h) \in Counts
            /\ \A g \in Hashes : Plus(misses, h)[g] = misses[g] + (IF g = h THEN 1 ELSE 0)
        BY <1>n, CountSteps
      <3>. QED
        BY <2>2, <3>1, <3>2
    <2>t. /\ lookups' \in Counts /\ wire' \in Counts /\ decoding' \in Counts /\ misses' \in Counts
          /\ found' \in Counts /\ lost' \in Counts /\ cached' \subseteq Hashes
      BY <1>n, <2>1, <2>3, <2>4
    <2>s. ASSUME NEW g \in Hashes
          PROVE  /\ lookups'[g] + misses'[g] + wire'[g] + decoding'[g] + found'[g] + lost'[g]
                      = lookups[g] + misses[g] + wire[g] + decoding[g] + found[g] + lost[g]
                 /\ wire[g] + decoding[g] + found[g] + lost[g]
                      <= wire'[g] + decoding'[g] + found'[g] + lost'[g]
      <3>1. /\ lookups[g] \in Nat /\ wire[g] \in Nat /\ decoding[g] \in Nat
            /\ misses[g] \in Nat /\ found[g] \in Nat /\ lost[g] \in Nat
        BY <1>n, <1>v
      <3>. QED
        BY <3>1, <2>1, <2>3, <2>4
    <2>. QED
      BY <1>2, <2>t, <2>s
  <1>4. CASE ServerAnswers(h)
    <2>1. /\ wire[h] > 0 /\ wire' = Minus(wire, h) /\ decoding' = Plus(decoding, h)
          /\ UNCHANGED <<lookups, misses, found, lost, cached>>
      BY <1>4 DEF ServerAnswers
    <2>2. /\ wire' \in Counts /\ decoding' \in Counts
          /\ \A g \in Hashes : wire'[g] = wire[g] - (IF g = h THEN 1 ELSE 0)
          /\ \A g \in Hashes : decoding'[g] = decoding[g] + (IF g = h THEN 1 ELSE 0)
      BY <1>n, <2>1, CountSteps
    <2>t. /\ lookups' \in Counts /\ wire' \in Counts /\ decoding' \in Counts /\ misses' \in Counts
          /\ found' \in Counts /\ lost' \in Counts /\ cached' \subseteq Hashes
      BY <1>n, <2>1, <2>2
    <2>s. ASSUME NEW g \in Hashes
          PROVE  /\ lookups'[g] + misses'[g] + wire'[g] + decoding'[g] + found'[g] + lost'[g]
                      = lookups[g] + misses[g] + wire[g] + decoding[g] + found[g] + lost[g]
                 /\ wire[g] + decoding[g] + found[g] + lost[g]
                      <= wire'[g] + decoding'[g] + found'[g] + lost'[g]
      <3>1. /\ lookups[g] \in Nat /\ wire[g] \in Nat /\ decoding[g] \in Nat
            /\ misses[g] \in Nat /\ found[g] \in Nat /\ lost[g] \in Nat
        BY <1>n, <1>v
      <3>. QED
        BY <3>1, <2>1, <2>2
    <2>. QED
      BY <1>2, <2>t, <2>s
  <1>5. CASE Decode(h, flag)
    <2>1. decoding[h] > 0 /\ decoding' = Minus(decoding, h) /\ UNCHANGED <<lookups, wire, misses>>
      BY <1>5 DEF Decode
    <2>2. \/ found' = Plus(found, h) /\ lost' = lost
          \/ lost' = Plus(lost, h) /\ found' = found
      BY <1>5 DEF Decode
    <2>3. /\ decoding' \in Counts
          /\ \A g \in Hashes : decoding'[g] = decoding[g] - (IF g = h THEN 1 ELSE 0)
      BY <1>n, <2>1, CountSteps
    <2>4. \/ /\ found' \in Counts /\ lost' = lost
             /\ \A g \in Hashes : found'[g] = found[g] + (IF g = h THEN 1 ELSE 0)
          \/ /\ lost' \in Counts /\ found' = found
             /\ \A g \in Hashes : lost'[g] = lost[g] + (IF g = h THEN 1 ELSE 0)
      <3>1. /\ Plus(found, h) \in Counts
            /\ \A g \in Hashes : Plus(found, h)[g] = found[g] + (IF g = h THEN 1 ELSE 0)
        BY <1>n, CountSteps
      <3>2. /\ Plus(lost, h) \in Counts
            /\ \A g \in Hashes : Plus(lost, h)[g] = lost[g] + (IF g = h THEN 1 ELSE 0)
        BY <1>n, CountSteps
      <3>. QED
        BY <2>2, <3>1, <3>2
    <2>5. cached' \subseteq Hashes
      BY <1>n, <1>5 DEF Decode, Stored
    <2>t. /\ lookups' \in Counts /\ wire' \in Counts /\ decoding' \in Counts /\ misses' \in Counts
          /\ found' \in Counts /\ lost' \in Counts /\ cached' \subseteq Hashes
      BY <1>n, <2>1, <2>3, <2>4, <2>5
    <2>s. ASSUME NEW g \in Hashes
          PROVE  /\ lookups'[g] + misses'[g] + wire'[g] + decoding'[g] + found'[g] + lost'[g]
                      = lookups[g] + misses[g] + wire[g] + decoding[g] + found[g] + lost[g]
                 /\ wire[g] + decoding[g] + found[g] + lost[g]
                      <= wire'[g] + decoding'[g] + found'[g] + lost'[g]
      <3>1. /\ lookups[g] \in Nat /\ wire[g] \in Nat /\ decoding[g] \in Nat
            /\ misses[g] \in Nat /\ found[g] \in Nat /\ lost[g] \in Nat
        BY <1>n, <1>v
      <3>. QED
        BY <3>1, <2>1, <2>3, <2>4, <2>5
    <2>. QED
      BY <1>2, <2>t, <2>s
  <1>6. CASE Evict(h)
    BY <1>n, <1>v, <1>2, <1>6 DEF Evict
  <1>. QED
    BY <1>3, <1>4, <1>5, <1>6

\* A look-up that found nothing becomes a request.
LEMMA MissStep ==
    ASSUME PicInv, NEW h \in Hashes, ApplyMiss(h)
    PROVE  PicInv'
  <1>0. PicTyped /\ NoneOf(parked, "waiting") /\ Coming /\ SlotsComeBack
    BY DEF PicInv
  <1>1. /\ misses[h] > 0 /\ misses' = Minus(misses, h) /\ requests' = Append(requests, h)
        /\ UNCHANGED <<lines, parked, loads, lookups, fetching, wire, decoding, found, lost, cached, offered>>
    BY DEF ApplyMiss
  <1>2. /\ misses' \in Counts
        /\ \A g \in Hashes : misses'[g] = misses[g] - (IF g = h THEN 1 ELSE 0)
    BY <1>0, <1>1, CountSteps DEF PicTyped
  <1>3. /\ requests' \in HashSeq
        /\ \A g : Times(requests', g) = Times(requests, g) + (IF h = g THEN 1 ELSE 0)
    BY <1>0, <1>1, TimesAppend DEF PicTyped, HashSeq
  <1>4. PicTyped' /\ NoneOf(parked', "waiting")
    BY <1>0, <1>1, <1>2, <1>3 DEF PicTyped
  <1>5. ASSUME NEW g \in Hashes
        PROVE  Tokens(g)' = Tokens(g)
    <2>1. /\ Times(loads, g) \in Nat /\ lookups[g] \in Nat /\ misses[g] \in Nat /\ wire[g] \in Nat
          /\ decoding[g] \in Nat /\ found[g] \in Nat /\ lost[g] \in Nat /\ Times(requests, g) \in Nat
      BY <1>0, Numbers
    <2>2. Tokens(g)' = Times(loads, g) + lookups[g] + misses'[g] + Times(requests', g) + wire[g]
                         + decoding[g] + found[g] + lost[g]
      BY <1>1 DEF Tokens
    <2>3. /\ misses'[g] = misses[g] - (IF g = h THEN 1 ELSE 0)
          /\ Times(requests', g) = Times(requests, g) + (IF h = g THEN 1 ELSE 0)
      BY <1>2, <1>3
    <2>. QED
      BY <2>1, <2>2, <2>3 DEF Tokens
  <1>6. Coming'
    BY <1>0, <1>1, <1>5 DEF Coming
  <1>7. SlotsComeBack'
    BY <1>0, <1>1 DEF SlotsComeBack
  <1>. QED
    BY <1>4, <1>6, <1>7 DEF PicInv

\* The first slot of a hash is freed.
LEMMA FetchedFacts ==
    ASSUME PicTyped, NEW h \in Hashes, NEW ok
    PROVE  /\ Fetched(h, ok) \in HashSeq /\ Len(Fetched(h, ok)) <= MaxFetches
           /\ \A g \in Hashes : g # h => Times(Fetched(h, ok), g) = Times(fetching, g)
           /\ Times(Fetched(h, ok), h) = IF Times(fetching, h) = 0 THEN 0 ELSE Times(fetching, h) - 1
  <1> DEFINE at == {i \in DOMAIN fetching : fetching[i] = h}
  <1>1. fetching \in Seq(Hashes) /\ Len(fetching) \in Nat /\ DOMAIN fetching = 1..Len(fetching)
        /\ Len(fetching) <= MaxFetches /\ MaxFetches \in Nat
    BY PictureAssumption DEF PicTyped, HashSeq
  <1>2. at = Places(fetching, h)
    BY DEF Places
  <1>3. IsFiniteSet(at) /\ Times(fetching, h) = Cardinality(at) /\ at \in SUBSET Nat
    <2>1. IsFiniteSet(Places(fetching, h)) /\ Times(fetching, h) = Cardinality(Places(fetching, h))
      BY <1>1, PlacesFinite
    <2>2. at \in SUBSET Nat
      BY <1>1
    <2> HIDE DEF at
    <2>. QED
      BY <1>2, <2>1, <2>2
  <1>4. \A g : Times(fetching, g) \in Nat
    BY <1>1, PlacesFinite
  <1>5. CASE at = {}
    <2>1. Fetched(h, ok) = fetching
      BY <1>5 DEF Fetched
    <2>2. Times(fetching, h) = 0
      BY <1>3, <1>5, FS_EmptySet
    <2>. QED
      BY <1>1, <2>1, <2>2 DEF HashSeq
  <1>6. CASE at # {}
    <2>i. PICK i : i = Min(at)
      OBVIOUS
    <2>1. i \in at
      BY <1>3, <1>6, <2>i, MinIs
    <2>2. Fetched(h, ok) = RemoveAt(fetching, i)
      BY <1>6, <2>i DEF Fetched
    <2>3. i \in DOMAIN fetching /\ fetching[i] = h
      BY <2>1
    <2>r. PICK r : r = RemoveAt(fetching, i)
      OBVIOUS
    <2>4. /\ r \in Seq(Hashes)
          /\ \A g : Times(r, g) = Times(fetching, g) - (IF h = g THEN 1 ELSE 0)
      BY <1>1, <2>3, <2>r, TimesRemove
    <2>5. Len(r) <= Len(fetching)
      <3>1. i \in 1..Len(fetching)
        BY <1>1, <2>3
      <3>2. Len(SubSeq(fetching, 1, i - 1)) = i - 1
        BY <1>1, <3>1
      <3>3. Len(SubSeq(fetching, i + 1, Len(fetching))) = Len(fetching) - i
        <4>n. PICK n : n = Len(fetching)
          OBVIOUS
        <4>m. PICK m : m = i + 1
          OBVIOUS
        <4>1. m \in Int /\ n \in Int /\ \A j \in m..n : fetching[j] \in Hashes
          BY <1>1, <3>1, <4>n, <4>m
        <4>2. Len(SubSeq(fetching, m, n)) = IF m <= n THEN n - m + 1 ELSE 0
          BY <4>1, SubSeqProperties
        <4>4. i \in Nat /\ n \in Nat /\ i <= n
          BY <1>1, <3>1, <4>n
        <4>5. (IF m <= n THEN n - m + 1 ELSE 0) = n - i
          BY <4>4, <4>m
        <4>3. (IF m <= n THEN n - m + 1 ELSE 0) = Len(fetching) - i
          BY <4>5, <4>n, Zenon
        <4>. QED
          BY <4>n, <4>m, <4>2, <4>3, Zenon
      <3>4. SubSeq(fetching, 1, i - 1) \in Seq(Hashes) /\ SubSeq(fetching, i + 1, Len(fetching)) \in Seq(Hashes)
        BY <1>1, <3>1
      <3>5. Len(r) = Len(SubSeq(fetching, 1, i - 1)) + Len(SubSeq(fetching, i + 1, Len(fetching)))
        BY <2>r, <3>4, ConcatProperties DEF RemoveAt
      <3>6. Len(r) = (i - 1) + (Len(fetching) - i)
        BY <3>2, <3>3, <3>5
      <3>. QED
        BY <1>1, <3>1, <3>6
    <2>6. Times(fetching, h) # 0
      BY <1>3, <1>6, FS_EmptySet
    <2>7. Len(r) <= MaxFetches
      BY <1>1, <2>4, <2>5
    <2>. QED
      BY <1>4, <2>2, <2>r, <2>4, <2>6, <2>7 DEF HashSeq
  <1>. QED
    BY <1>5, <1>6

\* The oldest caption that fits takes what came.
LEMMA DeliveredFacts ==
    ASSUME PicTyped, NEW h \in Hashes, NEW ok \in BOOLEAN
    PROVE  /\ Delivered(h, ok) \in LineSeq /\ Len(Delivered(h, ok)) <= PaneLines
           /\ NoneOf(lines, "absent") =>
                 /\ NoneOf(Delivered(h, ok), "absent")
                 /\ \A g \in Hashes : g # h => Times(Delivered(h, ok), Waits(g)) <= Times(lines, Waits(g))
                 /\ Times(Delivered(h, ok), Waits(h))
                       <= IF Times(lines, Waits(h)) = 0 THEN 0 ELSE Times(lines, Waits(h)) - 1
  <1>f. PICK fits : fits = Lines(h, IF ok THEN {"absent", "waiting"} ELSE {"waiting"})
    OBVIOUS
  <1>1. /\ lines \in Seq(Line) /\ Len(lines) \in Nat /\ DOMAIN lines = 1..Len(lines)
        /\ Len(lines) <= PaneLines /\ \A i \in DOMAIN lines : lines[i] \in Line
    BY DEF PicTyped, LineSeq
  <1>2. fits \in SUBSET DOMAIN lines /\ fits \in SUBSET Nat
    BY <1>1, <1>f DEF Lines
  <1>3. IsFiniteSet(fits)
    <2>1. IsFiniteSet(DOMAIN lines)
      BY <1>1, FS_Interval
    <2>. QED
      BY <1>2, <2>1, FS_Subset
  <1>4. NoneOf(lines, "absent") => fits = Places(lines, Waits(h))
    <2>1. \A l \in Line : l = Waits(h) <=> l.hash = h /\ l.pic = "waiting"
      BY DEF Line, Waits
    <2>. QED
      BY <1>1, <1>f, <2>1 DEF Lines, Places, NoneOf
  <1>5. \A w : Times(lines, w) \in Nat
    BY LineTimes DEF PicTyped
  <1>6. CASE fits = {}
    <2>1. Delivered(h, ok) = lines
      BY <1>f, <1>6 DEF Delivered
    <2>2. NoneOf(lines, "absent") => Times(lines, Waits(h)) = 0
      BY <1>1, <1>4, <1>6, PlacesFinite, FS_EmptySet
    <2>. QED
      BY <1>1, <1>5, <2>1, <2>2 DEF LineSeq
  <1>7. CASE fits # {}
    <2>i. PICK i : i = Min(fits)
      OBVIOUS
    <2>1. i \in fits /\ i \in DOMAIN lines
      BY <1>2, <1>3, <1>7, <2>i, MinIs
    <2> DEFINE pic == IF ok THEN "ready" ELSE "gone"
    <2>l. PICK l : l = [lines[i] EXCEPT !.pic = pic]
      OBVIOUS
    <2>2. l \in Line /\ l.pic = pic /\ pic \notin {"absent", "waiting"}
      BY <1>1, <2>1, <2>l DEF Line, Pictures
    <2>d. PICK d : d = [lines EXCEPT ![i] = l]
      OBVIOUS
    <2>3. Delivered(h, ok) = d
      BY <1>f, <1>7, <2>i, <2>l, <2>d DEF Delivered
    <2>4. /\ d \in Seq(Line) /\ Len(d) = Len(lines) /\ DOMAIN d = DOMAIN lines
          /\ d[i] = l /\ \A j \in DOMAIN lines : j # i => d[j] = lines[j]
      BY <1>1, <2>1, <2>2, <2>d
    <2> HIDE DEF pic
    <2>5. NoneOf(lines, "absent") => NoneOf(d, "absent")
      BY <2>2, <2>4 DEF NoneOf
    <2>6. \A g : l # Waits(g)
      BY <2>2 DEF Waits
    <2>7. \A g : Places(d, Waits(g)) = Places(lines, Waits(g)) \ {i}
      BY <2>4, <2>6 DEF Places
    <2>8. \A g : Times(d, Waits(g)) <= Times(lines, Waits(g))
      BY <1>1, <2>4, <2>7, Fewer DEF LineSeq
    <2>9. ASSUME NoneOf(lines, "absent")
          PROVE  Times(d, Waits(h)) = Times(lines, Waits(h)) - 1 /\ Times(lines, Waits(h)) # 0
      <3>1. fits = Places(lines, Waits(h)) /\ i \in Places(lines, Waits(h))
        BY <1>4, <2>1, <2>9
      <3>2. /\ Times(d, Waits(h)) = Cardinality(Places(d, Waits(h)))
            /\ Times(lines, Waits(h)) = Cardinality(Places(lines, Waits(h)))
            /\ IsFiniteSet(Places(lines, Waits(h)))
        BY <1>1, <2>4, PlacesFinite
      <3>3. Cardinality(Places(lines, Waits(h)) \ {i}) = Cardinality(Places(lines, Waits(h))) - 1
        BY <3>1, <3>2, FS_RemoveElement
      <3>4. Cardinality(Places(lines, Waits(h))) # 0
        BY <3>1, <3>2, FS_EmptySet
      <3>5. Places(d, Waits(h)) = Places(lines, Waits(h)) \ {i}
        BY <2>7
      <3>. QED
        BY <3>2, <3>3, <3>4, <3>5
    <2>10. Times(d, Waits(h)) \in Nat
      BY <2>4, LineTimes DEF LineSeq
    <2>. QED
      BY <1>1, <1>5, <2>3, <2>4, <2>5, <2>8, <2>9, <2>10 DEF LineSeq
  <1>. QED
    BY <1>6, <1>7

\* An answer is used up: it frees a slot and fills a caption, if there is one.
LEMMA DataStep ==
    ASSUME PicInv, NEW h \in Hashes, NEW ok \in BOOLEAN, ApplyData(h, ok)
    PROVE  PicInv'
  <1>0. PicTyped /\ NoneOf(parked, "waiting") /\ Coming /\ SlotsComeBack
    BY DEF PicInv
  <1>1. /\ fetching' = Fetched(h, ok) /\ lines' = Delivered(h, ok)
        /\ UNCHANGED <<parked, loads, lookups, requests, wire, decoding, misses, cached, offered>>
    BY DEF ApplyData
  <1>n. found \in Counts /\ lost \in Counts
    BY <1>0 DEF PicTyped
  <1>2. /\ found' \in Counts /\ lost' \in Counts
        /\ \A g \in Hashes : g # h => found'[g] = found[g] /\ lost'[g] = lost[g]
        /\ found'[h] + lost'[h] = found[h] + lost[h] - 1
    <2>v. found[h] \in Nat /\ lost[h] \in Nat
      BY <1>0, Numbers
    <2>1. CASE ok
      <3>1. found[h] > 0 /\ found' = Minus(found, h) /\ lost' = lost
        BY <2>1 DEF ApplyData
      <3>2. found' \in Counts /\ \A g \in Hashes : found'[g] = found[g] - (IF g = h THEN 1 ELSE 0)
        BY <1>n, <3>1, CountSteps
      <3>3. \A g \in Hashes : found[g] \in Nat
        BY <1>n DEF Counts
      <3>. QED
        BY <1>n, <2>v, <3>1, <3>2, <3>3
    <2>2. CASE ~ok
      <3>1. lost[h] > 0 /\ lost' = Minus(lost, h) /\ found' = found
        BY <2>2 DEF ApplyData
      <3>2. lost' \in Counts /\ \A g \in Hashes : lost'[g] = lost[g] - (IF g = h THEN 1 ELSE 0)
        BY <1>n, <3>1, CountSteps
      <3>3. \A g \in Hashes : lost[g] \in Nat
        BY <1>n DEF Counts
      <3>. QED
        BY <1>n, <2>v, <3>1, <3>2, <3>3
    <2>. QED
      BY <2>1, <2>2
  <1>3. /\ fetching' \in HashSeq /\ Len(fetching') <= MaxFetches
        /\ \A g \in Hashes : g # h => Times(fetching', g) = Times(fetching, g)
        /\ Times(fetching', h) = IF Times(fetching, h) = 0 THEN 0 ELSE Times(fetching, h) - 1
    BY <1>0, <1>1, FetchedFacts
  <1>4. /\ lines' \in LineSeq /\ Len(lines') <= PaneLines
        /\ NoneOf(lines, "absent") =>
              /\ NoneOf(lines', "absent")
              /\ \A g \in Hashes : g # h => Times(lines', Waits(g)) <= Times(lines, Waits(g))
              /\ Times(lines', Waits(h)) <= IF Times(lines, Waits(h)) = 0 THEN 0 ELSE Times(lines, Waits(h)) - 1
    BY <1>0, <1>1, DeliveredFacts
  <1>5. PicTyped' /\ NoneOf(parked', "waiting")
    BY <1>0, <1>1, <1>2, <1>3, <1>4 DEF PicTyped
  <1>6. ASSUME NEW g \in Hashes
        PROVE  Tokens(g)' = Tokens(g) - (IF g = h THEN 1 ELSE 0) /\ Tokens(g)' \in Nat
    <2>1. /\ Times(loads, g) \in Nat /\ lookups[g] \in Nat /\ misses[g] \in Nat /\ wire[g] \in Nat
          /\ decoding[g] \in Nat /\ found[g] \in Nat /\ lost[g] \in Nat /\ Times(requests, g) \in Nat
      BY <1>0, Numbers
    <2>2. found'[g] \in Nat /\ lost'[g] \in Nat
      BY <1>2 DEF Counts
    <2>3. found'[g] + lost'[g] = found[g] + lost[g] - (IF g = h THEN 1 ELSE 0)
      BY <1>2, <2>1, <2>2
    <2>4. Tokens(g)' = Times(loads, g) + lookups[g] + misses[g] + Times(requests, g) + wire[g]
                         + decoding[g] + (found'[g] + lost'[g])
      <3>1. Tokens(g)' = Times(loads, g) + lookups[g] + misses[g] + Times(requests, g) + wire[g]
                         + decoding[g] + found'[g] + lost'[g]
        BY <1>1 DEF Tokens
      <3>. QED
        BY <2>1, <2>2, <3>1
    <2>5. Tokens(g)' \in Nat
      BY <2>1, <2>2, <2>4
    <2>6. Tokens(g)' = Tokens(g) - (IF g = h THEN 1 ELSE 0)
      BY <2>1, <2>3, <2>4 DEF Tokens
    <2>. QED
      BY <2>5, <2>6
  <1>7. ASSUME NEW g \in Hashes, NoneOf(lines, "absent"), Times(lines, Waits(g)) <= Tokens(g)
        PROVE  Times(lines', Waits(g)) <= Tokens(g)'
    <2>1. Tokens(g) \in Nat /\ Tokens(g)' \in Nat
      BY <1>0, <1>6, Numbers
    <2>2. Times(lines, Waits(g)) \in Nat /\ Times(lines', Waits(g)) \in Nat
      BY <1>0, <1>4, LineTimes DEF PicTyped
    <2>3. CASE g = h
      BY <1>4, <1>6, <1>7, <2>1, <2>2, <2>3
    <2>4. CASE g # h
      BY <1>4, <1>6, <1>7, <2>1, <2>2, <2>4
    <2>. QED
      BY <2>3, <2>4
  <1>8. Coming'
    BY <1>0, <1>1, <1>4, <1>7 DEF Coming
  <1>9. ASSUME NEW g \in Hashes
        PROVE  Times(fetching', g) <= wire'[g] + decoding'[g] + found'[g] + lost'[g]
    <2>1. /\ wire[g] \in Nat /\ decoding[g] \in Nat /\ found[g] \in Nat /\ lost[g] \in Nat
          /\ Times(fetching, g) \in Nat
      BY <1>0, Numbers
    <2>2. found'[g] \in Nat /\ lost'[g] \in Nat /\ wire'[g] = wire[g] /\ decoding'[g] = decoding[g]
      BY <1>1, <1>2 DEF Counts
    <2>3. Times(fetching, g) <= wire[g] + decoding[g] + found[g] + lost[g]
      BY <1>0 DEF SlotsComeBack
    <2>4. CASE g = h
      <3>1. found'[g] + lost'[g] = found[g] + lost[g] - 1
        BY <1>2, <2>4
      <3>2. Times(fetching', g) = IF Times(fetching, g) = 0 THEN 0 ELSE Times(fetching, g) - 1
        BY <1>3, <2>4
      <3>. QED
        BY <2>1, <2>2, <2>3, <3>1, <3>2
    <2>5. CASE g # h
      BY <1>2, <1>3, <2>1, <2>2, <2>3, <2>5
    <2>. QED
      BY <2>4, <2>5
  <1>10. SlotsComeBack'
    BY <1>9 DEF SlotsComeBack
  <1>. QED
    BY <1>5, <1>8, <1>10 DEF PicInv

-----------------------------------------------------------------------------
(* The tick.                                                               *)

\* What take_image_requests leaves of the requests, and what it sends.
LEMMA KeptFacts ==
    ASSUME PicTyped, NEW visible
    PROVE  /\ Kept(visible) \in HashSeq
           /\ \A h \in Hashes : h \notin Dropped(visible) => Times(Kept(visible), h) = Times(requests, h)
           /\ Dropped(visible) \subseteq Hashes
  <1> DEFINE first(i) == \A j \in 1..(i - 1) : requests[j] # requests[i]
             stays    == {i \in DOMAIN requests : requests[i] \in Dropped(visible) => ~first(i)}
  <1>1. /\ requests \in Seq(Hashes) /\ Len(requests) \in Nat /\ DOMAIN requests = 1..Len(requests)
        /\ \A i \in DOMAIN requests : requests[i] \in Hashes
    BY DEF PicTyped, HashSeq
  <1>2. stays \in SUBSET DOMAIN requests /\ stays \in SUBSET Nat
    BY <1>1
  <1>3. IsFiniteSet(stays)
    <2>1. IsFiniteSet(DOMAIN requests)
      BY <1>1, FS_Interval
    <2>. QED
      BY <1>2, <2>1, FS_Subset
  <1>k. PICK k : k = Picked(stays, requests)
    OBVIOUS
  <1>4. Kept(visible) = k \o <<>>
    BY <1>k DEF Kept, Picked
  <1>5. ASSUME NEW h \in Hashes, h \notin Dropped(visible)
        PROVE  Found(stays, requests, h) = Places(requests, h)
    BY <1>5 DEF Found, Places
  <1>6. \A i \in stays : requests[i] \in Hashes
    BY <1>1
  <1> HIDE DEF stays
  <1>7. ASSUME NEW h
        PROVE  k \in Seq(Hashes) /\ Times(k, h) = Cardinality(Found(stays, requests, h))
    <2>1. ReadsOut(stays, requests, Hashes)
      BY <1>2, <1>3, <1>6 DEF ReadsOut
    <2>2. /\ Picked(stays, requests) \in Seq(Hashes)
          /\ Times(Picked(stays, requests), h) = Cardinality(Found(stays, requests, h))
      BY <2>1, TimesNth
    <2>. QED
      BY <1>k, <2>2
  <1>8. k \in Seq(Hashes) /\ Kept(visible) = k
    BY <1>4, <1>7, ConcatEmptySeq
  <1>9. ASSUME NEW h \in Hashes, h \notin Dropped(visible)
        PROVE  Times(Kept(visible), h) = Times(requests, h)
    <2>1. Times(requests, h) = Cardinality(Places(requests, h))
      BY <1>1, PlacesFinite
    <2>2. Found(stays, requests, h) = Places(requests, h)
      BY <1>5, <1>9
    <2>. QED
      BY <1>7, <1>8, <2>1, <2>2
  <1>10. Dropped(visible) \subseteq Hashes
    BY <1>1 DEF Dropped, ToSet
  <1>. QED
    BY <1>8, <1>9, <1>10 DEF HashSeq

\* The first requests are sent, as many as there are slots.
LEMMA SentFacts ==
    ASSUME PicTyped, NEW visible
    PROVE  LET rest == SubSeq(Kept(visible), Len(Sent(visible)) + 1, Len(Kept(visible))) IN
           /\ Sent(visible) \in HashSeq /\ rest \in HashSeq
           /\ fetching \o Sent(visible) \in HashSeq /\ Len(fetching \o Sent(visible)) <= MaxFetches
           /\ \A h : /\ Times(Kept(visible), h) = Times(Sent(visible), h) + Times(rest, h)
                     /\ Times(fetching \o Sent(visible), h) = Times(fetching, h) + Times(Sent(visible), h)
  <1>k. PICK k : k = Kept(visible)
    OBVIOUS
  <1>1. k \in Seq(Hashes) /\ Len(k) \in Nat
    BY <1>k, KeptFacts DEF HashSeq
  <1>2. /\ fetching \in Seq(Hashes) /\ Len(fetching) \in Nat /\ MaxFetches \in Nat
        /\ MaxFetches - Len(fetching) \in Nat
    BY PictureAssumption DEF PicTyped, HashSeq
  <1>n. PICK n : n = Min({Len(k), MaxFetches - Len(fetching)})
    OBVIOUS
  <1>3. n \in 0..Len(k) /\ n <= MaxFetches - Len(fetching)
    <2>p. PICK P : P = {Len(k), MaxFetches - Len(fetching)}
      OBVIOUS
    <2>1. P \in SUBSET Nat /\ IsFiniteSet(P) /\ P # {}
      <3>1. P \in SUBSET Nat /\ P # {}
        BY <1>1, <1>2, <2>p
      <3>2. P = {Len(k)} \cup {MaxFetches - Len(fetching)}
        BY <2>p
      <3>3. IsFiniteSet({Len(k)}) /\ IsFiniteSet({MaxFetches - Len(fetching)})
        BY FS_Singleton
      <3>4. IsFiniteSet(P)
        BY <3>2, <3>3, FS_Union
      <3>. QED
        BY <3>1, <3>4
    <2>2. n \in P /\ \A j \in P : n <= j
      BY <1>n, <2>p, <2>1, MinIs
    <2>. QED
      BY <1>1, <1>2, <2>p, <2>1, <2>2
  <1>s. PICK s : s = Sent(visible)
    OBVIOUS
  <1>r. PICK r : r = SubSeq(k, n + 1, Len(k))
    OBVIOUS
  <1>4. s = SubSeq(k, 1, n)
    BY <1>k, <1>n, <1>s DEF Sent
  <1>5. /\ s \in Seq(Hashes) /\ r \in Seq(Hashes) /\ Len(s) = n
        /\ \A h : Times(k, h) = Times(s, h) + Times(r, h)
    BY <1>1, <1>3, <1>4, <1>r, TimesCut
  <1>f. PICK f : f = fetching \o s
    OBVIOUS
  <1>6. f \in Seq(Hashes) /\ Len(f) = Len(fetching) + Len(s)
    BY <1>2, <1>5, <1>f, ConcatProperties
  <1>7. \A h : Times(f, h) = Times(fetching, h) + Times(s, h)
    <2>1. Joins(fetching, s, f)
      BY <1>f DEF Joins
    <2>. QED
      BY <1>2, <1>5, <2>1, TimesJoin
  <1>8. Len(f) <= MaxFetches
    BY <1>2, <1>3, <1>5, <1>6
  <1>9. SubSeq(Kept(visible), Len(Sent(visible)) + 1, Len(Kept(visible))) = r
    BY <1>k, <1>s, <1>r, <1>5, Zenon
  <1>10. fetching \o Sent(visible) = f
    BY <1>f, <1>s, Zenon
  <1>. QED
    BY <1>k, <1>s, <1>5, <1>6, <1>7, <1>8, <1>9, <1>10, Zenon DEF HashSeq

\* The loads are looked up; the requests are sent, kept, or dropped with their captions.
LEMMA TickStep ==
    ASSUME PicInv, NEW visible \in SUBSET DOMAIN lines, Tick(visible)
    PROVE  PicInv'
  <1>0. PicTyped /\ NoneOf(parked, "waiting") /\ Coming /\ SlotsComeBack
    BY DEF PicInv
  <1>1. /\ loads' = <<>> /\ lookups' = [h \in Hashes |-> lookups[h] + Times(loads, h)]
        /\ UNCHANGED <<parked, decoding, misses, found, lost, cached, offered>>
    BY DEF Tick
  <1>2. \A h \in Hashes : /\ lookups[h] \in Nat /\ wire[h] \in Nat /\ decoding[h] \in Nat
                          /\ misses[h] \in Nat /\ found[h] \in Nat /\ lost[h] \in Nat
                          /\ Times(loads, h) \in Nat /\ Times(requests, h) \in Nat
                          /\ Times(fetching, h) \in Nat
    BY <1>0, Numbers
  <1>3. /\ loads' \in HashSeq /\ lookups' \in Counts
        /\ \A h \in Hashes : Times(loads', h) = 0 /\ lookups'[h] = lookups[h] + Times(loads, h)
    BY <1>1, <1>2, TimesEmpty DEF Counts, HashSeq
  <1>4. CASE ~online
    <2>1. UNCHANGED <<fetching, wire, requests, lines>>
      BY <1>4 DEF Tick
    <2>2. PicTyped' /\ NoneOf(parked', "waiting")
      BY <1>0, <1>1, <1>3, <2>1 DEF PicTyped
    <2>3. ASSUME NEW h \in Hashes
          PROVE  Tokens(h)' = Tokens(h)
      <3>1. Tokens(h)' = Times(loads', h) + lookups'[h] + misses[h] + Times(requests, h) + wire[h]
                           + decoding[h] + found[h] + lost[h]
        BY <1>1, <2>1 DEF Tokens
      <3>2. Times(loads', h) = 0 /\ lookups'[h] = lookups[h] + Times(loads, h)
        BY <1>3
      <3>. QED
        BY <1>2, <3>1, <3>2 DEF Tokens
    <2>4. Coming' /\ SlotsComeBack'
      BY <1>0, <1>1, <2>1, <2>3 DEF Coming, SlotsComeBack
    <2>. QED
      BY <2>2, <2>4 DEF PicInv
  <1>5. CASE online
    <2>s. PICK s : s = Sent(visible)
      OBVIOUS
    <2>f. PICK f : f = fetching \o Sent(visible)
      OBVIOUS
    <2>r. PICK r : r = SubSeq(Kept(visible), Len(Sent(visible)) + 1, Len(Kept(visible)))
      OBVIOUS
    <2>m. PICK m : m = [i \in DOMAIN lines |->
                           IF lines[i].pic = "waiting" /\ lines[i].hash \in Dropped(visible)
                           THEN [lines[i] EXCEPT !.pic = "deferred"] ELSE lines[i]]
      OBVIOUS
    <2>1. /\ fetching' = f /\ requests' = r /\ lines' = m \o <<>>
          /\ wire' = [h \in Hashes |-> wire[h] + Times(s, h)]
      BY <1>5, <2>s, <2>f, <2>r, <2>m DEF Tick
    <2>2. /\ s \in HashSeq /\ r \in HashSeq /\ f \in HashSeq /\ Len(f) <= MaxFetches
          /\ \A h : /\ Times(Kept(visible), h) = Times(s, h) + Times(r, h)
                    /\ Times(f, h) = Times(fetching, h) + Times(s, h)
      BY <1>0, <2>s, <2>f, <2>r, SentFacts
    <2>3. \A h : Times(s, h) \in Nat /\ Times(r, h) \in Nat
      BY <2>2, PlacesFinite DEF HashSeq
    <2>4. wire' \in Counts /\ \A h \in Hashes : wire'[h] = wire[h] + Times(s, h)
      BY <1>2, <2>1, <2>3 DEF Counts
    <2>d. /\ lines \in Seq(Line) /\ DOMAIN lines = 1..Len(lines) /\ Len(lines) \in Nat
          /\ \A i \in DOMAIN lines : lines[i] \in Line
      BY <1>0 DEF PicTyped, LineSeq
    <2>5. m \in [1..Len(lines) -> Line]
      BY <2>d, <2>m DEF Line, Pictures
    <2>6. /\ lines' = m /\ m \in LineSeq /\ Len(m) = Len(lines) /\ DOMAIN m = DOMAIN lines
      <3>1. m \in Seq(Line) /\ Len(m) = Len(lines)
        BY <2>d, <2>5
      <3>2. m \o <<>> = m
        BY <3>1, ConcatEmptySeq
      <3>. QED
        BY <2>d, <2>1, <2>5, <3>1, <3>2 DEF LineSeq
    <2>7. PicTyped' /\ NoneOf(parked', "waiting")
      BY <1>0, <1>1, <1>3, <2>1, <2>2, <2>4, <2>6 DEF PicTyped
    <2>8. NoneOf(lines, "absent") => NoneOf(lines', "absent")
      BY <2>d, <2>m, <2>6 DEF NoneOf, Line
    <2>9. ASSUME NEW h \in Hashes
          PROVE  /\ Times(m, Waits(h)) <= Times(lines, Waits(h))
                 /\ h \in Dropped(visible) => Times(m, Waits(h)) = 0
      <3>1. ASSUME NEW i \in DOMAIN lines, m[i] = Waits(h)
            PROVE  lines[i] = Waits(h) /\ h \notin Dropped(visible)
        <4>1. CASE lines[i].pic = "waiting" /\ lines[i].hash \in Dropped(visible)
          <5>1. m[i].pic = "deferred"
            BY <2>d, <2>m, <4>1 DEF Line
          <5>. QED
            BY <3>1, <5>1 DEF Waits
        <4>2. CASE ~(lines[i].pic = "waiting" /\ lines[i].hash \in Dropped(visible))
          <5>1. lines[i] = Waits(h)
            BY <2>m, <3>1, <4>2
          <5>. QED
            BY <4>2, <5>1 DEF Waits
        <4>. QED
          BY <4>1, <4>2
      <3>2. Places(m, Waits(h)) \subseteq Places(lines, Waits(h))
        BY <2>6, <3>1 DEF Places
      <3>3. h \in Dropped(visible) => Places(m, Waits(h)) = {}
        BY <2>6, <3>1 DEF Places
      <3>4. Times(m, Waits(h)) = Cardinality(Places(m, Waits(h)))
        BY <2>6, PlacesFinite DEF LineSeq
      <3>5. Times(m, Waits(h)) <= Times(lines, Waits(h))
        BY <1>0, <2>6, <3>2, Fewer DEF PicTyped
      <3>. QED
        BY <3>3, <3>4, <3>5, FS_EmptySet
    <2>10. ASSUME NEW h \in Hashes
           PROVE  /\ Tokens(h)' \in Nat
                  /\ h \notin Dropped(visible) => Tokens(h)' = Tokens(h)
      <3>1. Tokens(h)' = Times(loads', h) + lookups'[h] + misses[h] + Times(r, h) + wire'[h]
                           + decoding[h] + found[h] + lost[h]
        BY <1>1, <2>1 DEF Tokens
      <3>2. /\ Times(loads', h) = 0 /\ lookups'[h] = lookups[h] + Times(loads, h)
            /\ wire'[h] = wire[h] + Times(s, h)
        BY <1>3, <2>4
      <3>3. /\ lookups[h] \in Nat /\ wire[h] \in Nat /\ decoding[h] \in Nat
            /\ misses[h] \in Nat /\ found[h] \in Nat /\ lost[h] \in Nat
            /\ Times(loads, h) \in Nat /\ Times(requests, h) \in Nat
            /\ Times(s, h) \in Nat /\ Times(r, h) \in Nat
        BY <1>2, <2>3
      <3>4. Tokens(h)' \in Nat
        BY <3>1, <3>2, <3>3
      <3>5. ASSUME h \notin Dropped(visible)
            PROVE  Tokens(h)' = Tokens(h)
        <4>1. Times(requests, h) = Times(s, h) + Times(r, h)
          BY <1>0, <2>2, <3>5, KeptFacts
        <4>2. Tokens(h) = Times(loads, h) + lookups[h] + misses[h] + (Times(s, h) + Times(r, h)) + wire[h]
                            + decoding[h] + found[h] + lost[h]
          BY <4>1 DEF Tokens
        <4>. QED
          BY <3>1, <3>2, <3>3, <4>2
      <3>. QED
        BY <3>4, <3>5
    <2>11. ASSUME NEW h \in Hashes, Times(lines, Waits(h)) <= Tokens(h)
           PROVE  Times(lines', Waits(h)) <= Tokens(h)'
      <3>1. Times(lines, Waits(h)) \in Nat /\ Times(m, Waits(h)) \in Nat
        BY <1>0, <2>6, LineTimes DEF PicTyped
      <3>2. CASE h \in Dropped(visible)
        BY <2>6, <2>9, <2>10, <3>1, <3>2
      <3>3. CASE h \notin Dropped(visible)
        BY <2>6, <2>9, <2>10, <2>11, <3>1, <3>3
      <3>. QED
        BY <3>2, <3>3
    <2>12. Coming'
      BY <1>0, <1>1, <2>8, <2>11 DEF Coming
    <2>13. ASSUME NEW h \in Hashes
           PROVE  Times(fetching', h) <= wire'[h] + decoding'[h] + found'[h] + lost'[h]
      <3>1. /\ wire[h] \in Nat /\ decoding[h] \in Nat /\ found[h] \in Nat /\ lost[h] \in Nat
            /\ Times(fetching, h) \in Nat /\ Times(s, h) \in Nat
        BY <1>2, <2>3
      <3>2. Times(fetching, h) <= wire[h] + decoding[h] + found[h] + lost[h]
        BY <1>0 DEF SlotsComeBack
      <3>3. Times(fetching', h) = Times(fetching, h) + Times(s, h) /\ wire'[h] = wire[h] + Times(s, h)
        BY <2>1, <2>2, <2>4
      <3>4. decoding'[h] = decoding[h] /\ found'[h] = found[h] /\ lost'[h] = lost[h]
        BY <1>1
      <3>. QED
        BY <3>1, <3>2, <3>3, <3>4
    <2>14. SlotsComeBack'
      BY <2>13 DEF SlotsComeBack
    <2>. QED
      BY <2>7, <2>12, <2>14 DEF PicInv
  <1>. QED
    BY <1>4, <1>5

\* A pane, a queue and a count that are empty have their types.
LEMMA NothingKept ==
    /\ Nothing \in Counts /\ <<>> \in LineSeq /\ <<>> \in HashSeq
    /\ Len(<<>>) <= PaneLines /\ Len(<<>>) <= MaxFetches
  <1>1. Nothing \in Counts
    BY DEF Nothing, Counts
  <1>2. <<>> \in LineSeq
    BY EmptySeq DEF LineSeq
  <1>3. <<>> \in HashSeq
    BY EmptySeq DEF HashSeq
  <1>4. PaneLines \in Nat /\ MaxFetches \in Nat
    BY PictureAssumption
  <1>5. Len(<<>>) = 0
    BY EmptySeq
  <1>6. Len(<<>>) <= PaneLines /\ Len(<<>>) <= MaxFetches
    BY <1>4, <1>5
  <1>. QED
    BY <1>1, <1>2, <1>3, <1>6

\* Nothing is shown and nothing is on its way at first.
LEMMA PicturesStart == PicturesInit => PicInv
  <1> SUFFICES ASSUME PicturesInit
               PROVE  PicInv
    OBVIOUS
  <1>e. /\ <<>> \in Seq(Line) /\ <<>> \in Seq(Hashes) /\ Len(<<>>) = 0
        /\ \A p : NoneOf(<<>>, p)
    BY EmptySeq DEF NoneOf
  <1>1. PicTyped
    <2>1. Nothing \in Counts /\ <<>> \in LineSeq /\ <<>> \in HashSeq
      BY NothingKept
    <2>2. Len(<<>>) <= PaneLines /\ Len(<<>>) <= MaxFetches
      BY NothingKept
    <2>3. lines \in LineSeq /\ Len(lines) <= PaneLines /\ parked \in LineSeq /\ Len(parked) <= PaneLines
      BY <2>1, <2>2 DEF PicturesInit
    <2>4. loads \in HashSeq /\ requests \in HashSeq /\ fetching \in HashSeq /\ Len(fetching) <= MaxFetches
      BY <2>1, <2>2 DEF PicturesInit
    <2>5. /\ lookups \in Counts /\ wire \in Counts /\ decoding \in Counts
          /\ misses \in Counts /\ found \in Counts /\ lost \in Counts
      BY <2>1 DEF PicturesInit
    <2>6. cached \subseteq Hashes /\ offered \in BOOLEAN
      BY DEF PicturesInit
    <2>. QED
      BY <2>3, <2>4, <2>5, <2>6 DEF PicTyped
  <1>2. \A h : Times(lines, Waits(h)) = 0 /\ Times(fetching, h) = 0
    BY TimesEmpty DEF PicturesInit
  <1>3. \A h \in Hashes : Tokens(h) \in Nat
    BY <1>1, Numbers
  <1>4. \A h \in Hashes : wire[h] + decoding[h] + found[h] + lost[h] \in Nat
    BY <1>1, Numbers
  <1>5. NoneOf(lines, "absent") /\ NoneOf(parked, "absent") /\ NoneOf(parked, "waiting")
    BY <1>e DEF PicturesInit
  <1>6. Coming /\ SlotsComeBack
    BY <1>2, <1>3, <1>4, <1>5 DEF Coming, SlotsComeBack
  <1>. QED
    BY <1>1, <1>5, <1>6 DEF PicInv

\* The connection ends: what the loop holds is cleared, the tasks go on.
LEMMA DisconnectStep ==
    ASSUME PicInv, Disconnect
    PROVE  PicInv'
  <1>0. PicTyped /\ NoneOf(parked, "waiting") /\ Coming /\ SlotsComeBack
    BY DEF PicInv
  <1>1. /\ lines' = <<>> /\ parked' = <<>> /\ loads' = <<>> /\ requests' = <<>> /\ fetching' = <<>>
        /\ wire' = Nothing /\ offered' = FALSE
        /\ UNCHANGED <<lookups, decoding, misses, found, lost, cached>>
    BY DEF Disconnect
  <1>e. /\ <<>> \in Seq(Line) /\ <<>> \in Seq(Hashes) /\ Len(<<>>) = 0
        /\ \A p : NoneOf(<<>>, p)
    BY EmptySeq DEF NoneOf
  <1>2. PicTyped'
    <2>1. Nothing \in Counts /\ <<>> \in LineSeq /\ <<>> \in HashSeq
      BY NothingKept
    <2>2. Len(<<>>) <= PaneLines /\ Len(<<>>) <= MaxFetches
      BY NothingKept
    <2>3. lines' \in LineSeq /\ Len(lines') <= PaneLines /\ parked' \in LineSeq /\ Len(parked') <= PaneLines
      BY <1>1, <2>1, <2>2
    <2>4. loads' \in HashSeq /\ requests' \in HashSeq /\ fetching' \in HashSeq /\ Len(fetching') <= MaxFetches
      BY <1>1, <2>1, <2>2
    <2>5. /\ lookups' \in Counts /\ wire' \in Counts /\ decoding' \in Counts
          /\ misses' \in Counts /\ found' \in Counts /\ lost' \in Counts
      BY <1>0, <1>1, <2>1 DEF PicTyped
    <2>6. cached' \subseteq Hashes /\ offered' \in BOOLEAN
      BY <1>0, <1>1 DEF PicTyped
    <2>. QED
      BY <2>3, <2>4, <2>5, <2>6 DEF PicTyped
  <1>3. NoneOf(lines', "absent") /\ NoneOf(parked', "absent") /\ NoneOf(parked', "waiting")
    BY <1>1, <1>e
  <1>4. ASSUME NEW h \in Hashes
        PROVE  /\ Times(lines', Waits(h)) <= Tokens(h)'
               /\ Times(fetching', h) <= wire'[h] + decoding'[h] + found'[h] + lost'[h]
    <2>1. /\ Times(lines', Waits(h)) = 0 /\ Times(fetching', h) = 0 /\ Times(loads', h) = 0
          /\ Times(requests', h) = 0
      BY <1>1, TimesEmpty
    <2>2. /\ lookups'[h] \in Nat /\ wire'[h] \in Nat /\ decoding'[h] \in Nat
          /\ misses'[h] \in Nat /\ found'[h] \in Nat /\ lost'[h] \in Nat
      BY <1>2 DEF PicTyped, Counts
    <2>3. Tokens(h)' = Times(loads', h) + lookups'[h] + misses'[h] + Times(requests', h) + wire'[h]
                         + decoding'[h] + found'[h] + lost'[h]
      BY DEF Tokens
    <2>. QED
      BY <2>1, <2>2, <2>3
  <1>5. Coming' /\ SlotsComeBack'
    BY <1>3, <1>4 DEF Coming, SlotsComeBack
  <1>. QED
    BY <1>2, <1>3, <1>5 DEF PicInv

\* Every step keeps the invariant.
LEMMA PicturesStep == PicInv /\ [PicturesNext]_pictureVars => PicInv'
  <1> SUFFICES ASSUME PicInv, [PicturesNext]_pictureVars
               PROVE  PicInv'
    OBVIOUS
  <1>1. ASSUME UNCHANGED <<lines, parked, loads, lookups, requests, fetching, wire, decoding, misses,
                           found, lost, cached, offered>>
        PROVE  PicInv'
    BY <1>1 DEF PicInv, PicTyped, Coming, SlotsComeBack, Tokens
  <1>2. CASE Settings \/ Return \/ UNCHANGED pictureVars
    BY <1>1, <1>2 DEF Settings, Return, pictureVars
  <1>3. ASSUME NEW h \in Hashes,
               Pending(h) \/ Offer(h) \/ Display(h) \/ ServerAnswers(h) \/ Evict(h) \/ ApplyMiss(h)
        PROVE  PicInv'
    <2>1. TRUE \in BOOLEAN
      OBVIOUS
    <2>2. CASE Pending(h) \/ Offer(h) \/ Display(h)
      BY <2>1, <2>2, CaptionSteps
    <2>3. CASE ServerAnswers(h) \/ Evict(h)
      BY <2>1, <2>3, PictureTaskSteps
    <2>4. CASE ApplyMiss(h)
      BY <2>4, MissStep
    <2>. QED
      BY <1>3, <2>2, <2>3, <2>4
  <1>4. ASSUME NEW h \in Hashes, NEW flag \in BOOLEAN,
               Parked(h, flag) \/ LookUp(h, flag) \/ Decode(h, flag) \/ ApplyData(h, flag)
        PROVE  PicInv'
    BY <1>4, CaptionSteps, PictureTaskSteps, DataStep
  <1>5. ASSUME NEW visible \in SUBSET DOMAIN lines, Draw(visible) \/ Tick(visible)
        PROVE  PicInv'
    BY <1>5, DrawStep, TickStep
  <1>6. ASSUME NEW i \in DOMAIN lines, Click(i)
        PROVE  PicInv'
    BY <1>6, ClickStep
  <1>7. CASE Switch \/ Disconnect
    BY <1>7, SwitchStep, DisconnectStep
  <1>. QED
    BY <1>2, <1>3, <1>4, <1>5, <1>6, <1>7 DEF PicturesNext

\* ClientPictures, any hashes, panes and number of slots: a slot that is held waits for
\* an answer that is on its way, so App::fetched and App::disconnected give back all that
\* take_image_requests takes.
THEOREM SlotsReturn == PicturesSpec => []SlotsComeBack
  <1>1. PicInv => SlotsComeBack
    BY DEF PicInv
  <1>. QED
    BY <1>1, PicturesStart, PicturesStep, PTL DEF PicturesSpec

\* ClientPictures, any hashes, panes and number of slots: as long as no caption is offered
\* for a click, as many look-ups, requests and answers are on their way for a picture as
\* captions wait for it (load_visible, take_image_requests, switch_channel, deliver_image).
THEOREM PicturesCome == PicturesSpec => []PictureIsComing
  <1>1. PicInv => PictureIsComing
    <2> SUFFICES ASSUME PicInv, ~offered, NEW h \in Hashes
                 PROVE  Cardinality(Lines(h, {"waiting"})) <= Tokens(h)
      BY DEF PictureIsComing
    <2>1. Times(lines, Waits(h)) <= Tokens(h) /\ lines \in LineSeq
      BY DEF PicInv, Coming, PicTyped
    <2>. QED
      BY <2>1, WaitingLines
  <1>. QED
    BY <1>1, PicturesStart, PicturesStep, PTL DEF PicturesSpec

\* ClientPictures: the panes stay within HISTORY_LIMIT and the slots within
\* MAX_IMAGE_FETCHES, and no count falls below zero.
THEOREM PicturesTyped == PicturesSpec => []PicturesTypeOK
  <1>1. PicInv => PicturesTypeOK
    BY DEF PicInv, PicTyped, PicturesTypeOK, LineSeq, Counts
  <1>. QED
    BY <1>1, PicturesStart, PicturesStep, PTL DEF PicturesSpec

-----------------------------------------------------------------------------
(* VoiceMessages.                                                          *)

Gens   == Nat \ {0}
PlayTasks == [clip : Clips, gen : Gens, stage : {"load", "asked", "open", "store"}]
Askers    == Seq(Clips \X Gens)

\* The tasks carry the generation they were started under, and it is not 0, which stands
\* for a free lock.
PlaysTyped ==
    /\ playGen \in Nat /\ busy \in Steps \cup Clips
    /\ busy \in Clips => playGen # 0
    /\ plays \subseteq PlayTasks
    /\ awaited \in Askers
    /\ player # <<>> => player[1] \in [clip : Clips, gen : Gens, done : BOOLEAN]

\* PLAYER's lock is held by the one task that is about to store its output.
StoreHolds ==
    \A t, u \in plays : t.stage = "store" =>
        holder = t.gen /\ (u.stage = "store" => t = u)

\* The loop is between the two halves of play or stop: it will take the player away.
Taking == busy \in Clips \cup {"stop"}

\* What sounds, or is about to, is of the current generation or about to be taken away.
SoundsWanted ==
    /\ player # <<>> => player[1].gen = playGen \/ Taking
    /\ \A t \in plays : t.stage = "store" => t.gen = playGen \/ Taking

\* A recording without its light is about to be taken away.
RecordingShown == recording # <<>> => light # <<>> \/ busy \in {"send", "cancel", "end"}

ClipInv == PlaysTyped /\ StoreHolds /\ SoundsWanted /\ RecordingShown

\* A clip that is asked for joins the queue of those who wait; an answer takes one out.
LEMMA Enqueued ==
    ASSUME NEW q \in Askers, NEW c \in Clips, NEW g \in Gens
    PROVE  Append(q, <<c, g>>) \in Askers
  BY DEF Askers

\* A request whose answer came, or never will, leaves the queue.
LEMMA Dequeued ==
    ASSUME NEW q \in Askers, NEW i \in DOMAIN q
    PROVE  RemoveAt(q, i) \in Askers /\ q[i][2] \in Gens
  <1>1. q \in Seq(Clips \X Gens) /\ i \in 1 .. Len(q) /\ Len(q) \in Nat
    BY DEF Askers
  <1>2. q[i] \in Clips \X Gens
    BY <1>1
  <1>3. SubSeq(q, 1, i - 1) \in Seq(Clips \X Gens) /\ SubSeq(q, i + 1, Len(q)) \in Seq(Clips \X Gens)
    BY <1>1
  <1>. QED
    BY <1>2, <1>3 DEF RemoveAt, Askers

\* The invariant is kept by every step.
LEMMA ClipStep == ClipInv /\ [ClipsNext]_clipVars => ClipInv'
  <1> SUFFICES ASSUME ClipInv, [ClipsNext]_clipVars
               PROVE  ClipInv'
    OBVIOUS
  <1> USE ClipAssumption DEF Steps, Taking, Idle, playVars, recordVars
  <1>0. PlaysTyped /\ StoreHolds /\ SoundsWanted /\ RecordingShown
    BY DEF ClipInv
  \* The generation moves on: what sounds is about to be taken away.
  <1>1. ASSUME NEW then \in Clips \cup {"stop"}, playGen' = playGen + 1, busy' = then,
               UNCHANGED <<player, holder, plays, awaited>>, RecordingShown'
        PROVE  ClipInv'
    <2>0. playGen \in Nat /\ playGen' = playGen + 1
      BY <1>0, <1>1 DEF PlaysTyped
    <2>1. playGen' \in Nat /\ playGen' # 0
      BY <2>0
    <2>2. busy' \in Steps \cup Clips
      BY <1>1
    <2>3. Taking'
      BY <1>1
    <2>4. PlaysTyped'
      BY <1>0, <1>1, <2>1, <2>2 DEF PlaysTyped
    <2>5. StoreHolds'
      BY <1>0, <1>1 DEF StoreHolds
    <2>. QED
      BY <1>1, <2>3, <2>4, <2>5 DEF ClipInv, SoundsWanted
  <1>2. ASSUME NEW c \in Clips, Play(c)
        PROVE  ClipInv'
    BY <1>0, <1>1, <1>2 DEF Play, Begins, RecordingShown
  <1>3. CASE Stop
    BY <1>0, <1>1, <1>3 DEF Stop, Begins, RecordingShown
  <1>4. CASE DisconnectStops
    BY <1>1, <1>4 DEF DisconnectStops, Begins, RecordingShown
  \* The player is taken away: nobody holds its lock, so nobody is about to store.
  <1>5. ASSUME holder = 0, player' = <<>>, busy' = "none", Taking, UNCHANGED <<playGen, holder, awaited, recording, light>>,
               plays' \subseteq PlayTasks,
               \A t \in plays' : t.stage = "store" => t \in plays
        PROVE  ClipInv'
    <2>1. \A t \in plays : t.stage # "store"
      BY <1>0, <1>5 DEF StoreHolds, PlaysTyped, PlayTasks, Gens
    <2>. QED
      BY <1>0, <1>5, <2>1 DEF ClipInv, PlaysTyped, StoreHolds, SoundsWanted, RecordingShown
  <1>6. ASSUME NEW c \in Clips, PlayTakes(c)
        PROVE  ClipInv'
    <2>1. Task(c, playGen, "load") \in PlayTasks
          /\ Task(c, playGen, "load").stage # "store"
      BY <1>0, <1>6 DEF PlayTakes, PlaysTyped, Task, PlayTasks, Gens
    <2>. QED
      BY <1>0, <1>5, <1>6, <2>1 DEF PlayTakes, PlaysTyped
  <1>7. CASE StopEnds
    BY <1>0, <1>5, <1>7 DEF StopEnds, PlaysTyped
  \* A task goes on, or ends, short of storing.
  <1>8. ASSUME plays' \subseteq PlayTasks,
               \A t \in plays' : t.stage = "store" => t \in plays,
               awaited' \in Askers,
               UNCHANGED <<playGen, player, holder, busy, recording, light>>
        PROVE  ClipInv'
    BY <1>0, <1>8 DEF ClipInv, PlaysTyped, StoreHolds, SoundsWanted, RecordingShown
  <1>9. ASSUME NEW t \in plays, NEW hit \in BOOLEAN, Load(t, hit)
        PROVE  ClipInv'
    <2>1. t.clip \in Clips /\ t.gen \in Gens
      BY <1>0 DEF PlaysTyped, PlayTasks
    <2>2. ASSUME NEW stage \in {"open", "asked"}
          PROVE  Task(t.clip, t.gen, stage) \in PlayTasks
                 /\ Task(t.clip, t.gen, stage).stage # "store"
      BY <2>1 DEF Task, PlayTasks
    <2>3. awaited' \in Askers
      BY <1>0, <1>9, <2>1, Enqueued DEF Load, PlaysTyped
    <2>. QED
      BY <1>0, <1>8, <1>9, <2>2, <2>3 DEF Load, PlaysTyped
  <1>10. ASSUME NEW t \in plays, NEW valid \in BOOLEAN, Arrives(t, valid)
         PROVE  ClipInv'
    <2>1. PICK i \in DOMAIN awaited :
             /\ awaited' = RemoveAt(awaited, i)
             /\ plays' = (plays \ {Task(t.clip, awaited[i][2], "asked")})
                          \cup (IF valid THEN {Task(t.clip, awaited[i][2], "open")} ELSE {})
      BY <1>10 DEF Arrives
    <2>2. awaited[i][2] \in Gens /\ awaited' \in Askers /\ t.clip \in Clips
      BY <1>0, <2>1, Dequeued DEF PlaysTyped, PlayTasks
    <2>3. Task(t.clip, awaited[i][2], "open") \in PlayTasks
          /\ Task(t.clip, awaited[i][2], "open").stage # "store"
      BY <2>2 DEF Task, PlayTasks
    <2>. QED
      BY <1>0, <1>8, <1>10, <2>1, <2>2, <2>3 DEF Arrives, PlaysTyped
  <1>11. ASSUME NEW t \in plays, Fails(t)
         PROVE  ClipInv'
    BY <1>0, <1>8, <1>11 DEF Fails, PlaysTyped
  <1>12. ASSUME NEW t \in plays, Opens(t)
         PROVE  ClipInv'
    <2>1. CASE ~StillWanted(t.gen)
      BY <1>0, <1>8, <1>12, <2>1 DEF Opens, PlaysTyped
    <2>2. CASE StillWanted(t.gen)
      <3>1. /\ plays' = (plays \ {t}) \cup {Task(t.clip, t.gen, "store")} /\ holder' = t.gen
            /\ t.gen = playGen /\ holder = 0
            /\ UNCHANGED <<playGen, player, busy, recording, light, awaited>>
        BY <1>12, <2>2 DEF Opens, StillWanted
      <3>2. \A u \in plays : u.stage # "store"
        BY <1>0, <3>1 DEF StoreHolds, PlaysTyped, PlayTasks, Gens
      <3>3. /\ Task(t.clip, t.gen, "store") \in PlayTasks
            /\ Task(t.clip, t.gen, "store").gen = t.gen
        BY <1>0 DEF PlaysTyped, Task, PlayTasks
      <3>. QED
        BY <1>0, <3>1, <3>2, <3>3 DEF ClipInv, PlaysTyped, StoreHolds, SoundsWanted, RecordingShown
    <2>. QED
      BY <2>1, <2>2
  <1>13. ASSUME NEW t \in plays, Stores(t)
         PROVE  ClipInv'
    <2>1. \A u \in plays' : u.stage # "store"
      BY <1>0, <1>13 DEF Stores, StoreHolds
    <2>2. player'[1].gen = playGen' \/ Taking'
      BY <1>0, <1>13 DEF Stores, SoundsWanted
    <2>3. player'[1] \in [clip : Clips, gen : Gens, done : BOOLEAN]
      BY <1>0, <1>13 DEF Stores, PlaysTyped, PlayTasks
    <2>. QED
      BY <1>0, <1>13, <2>1, <2>2, <2>3 DEF Stores, ClipInv, PlaysTyped, StoreHolds, SoundsWanted, RecordingShown
  <1>14. CASE Finishes
    <2>1. player' # <<>> /\ player'[1].gen = player[1].gen /\ player # <<>>
          /\ player'[1] \in [clip : Clips, gen : Gens, done : BOOLEAN]
      BY <1>0, <1>14 DEF Finishes, PlaysTyped
    <2>. QED
      BY <1>0, <1>14, <2>1 DEF Finishes, ClipInv, PlaysTyped, StoreHolds, SoundsWanted, RecordingShown
  <1>15. CASE Syncs
    BY <1>0, <1>15 DEF Syncs, ClipInv, PlaysTyped, StoreHolds, SoundsWanted, RecordingShown
  \* The recorder: the player's side is left alone, and the loop is not about to take it.
  <1>16. ASSUME UNCHANGED <<playGen, player, holder, plays, awaited>>, RecordingShown',
                busy' = busy \/ (busy \in {"none", "send", "cancel"} /\ busy' \in {"none", "send", "cancel", "end"})
         PROVE  ClipInv'
    BY <1>0, <1>16 DEF ClipInv, PlaysTyped, StoreHolds, SoundsWanted
  <1>17. ASSUME NEW hold \in BOOLEAN, Record(hold)
         PROVE  ClipInv'
    BY <1>0, <1>16, <1>17 DEF Record, RecordingShown
  <1>18. ASSUME NEW g \in opening, OpensInput(g) \/ OpenFails(g)
         PROVE  ClipInv'
    BY <1>0, <1>16, <1>18 DEF OpensInput, OpenFails, RecordingShown
  <1>19. CASE Feed
    BY <1>0, <1>16, <1>19 DEF Feed, RecordingShown
  <1>20. CASE Send \/ Tap \/ Cancel \/ Taken \/ RecordTick
    <2>1. CASE Send
      BY <1>0, <1>16, <2>1 DEF Send, SendTakes, RecordingShown
    <2>2. CASE Tap
      BY <1>0, <1>16, <2>2 DEF Tap, RecordingShown
    <2>3. CASE Cancel
      BY <1>0, <1>16, <2>3 DEF Cancel, RecordingShown
    <2>4. CASE Taken
      BY <1>0, <1>16, <2>4 DEF Taken, RecordingShown
    <2>5. CASE RecordTick
      BY <1>0, <1>16, <2>5 DEF RecordTick, SendTakes, RecordingShown
    <2>. QED
      BY <1>20, <2>1, <2>2, <2>3, <2>4, <2>5
  <1>21. CASE Calling \/ Disconnects \/ Returns
    BY <1>0, <1>16, <1>21 DEF Calling, Disconnects, Returns, RecordingShown
  <1>22. CASE UNCHANGED clipVars
    BY <1>0, <1>16, <1>22 DEF clipVars, RecordingShown
  <1>. QED
    BY <1>2, <1>3, <1>4, <1>6, <1>7, <1>9, <1>10, <1>11, <1>12, <1>13, <1>14, <1>15, <1>17, <1>18,
       <1>19, <1>20, <1>21, <1>22 DEF ClipsNext

\* VoiceMessages, any number of clips, plays and recordings: between two operations of the
\* loop nothing sounds or listens but what the user asked for last.
THEOREM ClipsFollow == ClipsSpec => []ClipsFollowTheUser
  <1>1. ClipsInit => ClipInv
    <2>1. <<>> \in Askers
      BY DEF Askers
    <2>2. "none" \in Steps
      BY DEF Steps
    <2>3. "none" \notin Clips
      BY <2>2, ClipAssumption
    <2>. QED
      BY <2>1, <2>2, <2>3 DEF ClipsInit, ClipInv, PlaysTyped, StoreHolds, SoundsWanted, RecordingShown
  <1>2. ClipInv => ClipsFollowTheUser
    BY ClipAssumption DEF ClipInv, SoundsWanted, RecordingShown, ClipsFollowTheUser, Idle, Taking, Steps
  <1>. QED
    BY <1>1, <1>2, ClipStep, PTL DEF ClipsSpec

-----------------------------------------------------------------------------
(* VoiceRelay: a call that is not answered is being pursued.               *)

CallIds  == Seq(Nat)
Slots   == [call : Nat, addr : Nat, seq : Nat, sseq : Nat]
SlotSeq == Seq(Slots)

\* What the requests and the replies of a client are about.
MainTyped ==
    /\ slot \in [Clients -> SlotSeq] /\ openings \in [Clients -> Nat]
    /\ asks \in [Clients -> Nat] /\ replies \in [Clients -> CallIds]
    /\ use \in [Clients -> BOOLEAN] /\ gen \in [Clients -> Nat]
    /\ hello \in [Clients -> BOOLEAN] /\ acked \in [Clients -> SUBSET Nat]

\* The client's idea of its slot is the server's, once the replies are heard.
SlotIsKnown ==
    \A c \in Clients :
        LET told == IF replies[c] = <<>> THEN use[c] ELSE replies[c][Len(replies[c])] # 0
        IN  told <=> slot[c] # <<>>

PursuitInv == MainTyped /\ SlotIsKnown /\ CallIsPursued

\* A reply is added behind the others.
LEMMA TokenSent ==
    ASSUME NEW q \in CallIds, NEW k \in Nat
    PROVE  /\ Append(q, k) \in CallIds /\ Append(q, k) # <<>>
           /\ Append(q, k)[Len(Append(q, k))] = k
  <1>1. q \in Seq(Nat)
    BY DEF CallIds
  <1>2. Append(q, k) \in Seq(Nat) /\ Len(Append(q, k)) = Len(q) + 1 /\ Append(q, k)[Len(q) + 1] = k
    BY <1>1
  <1>3. Append(q, k) # <<>>
    BY <1>1
  <1>. QED
    BY <1>2, <1>3 DEF CallIds

\* The reply that is heard first leaves the last one where it is.
LEMMA TokenHeard ==
    ASSUME NEW q \in CallIds, q # <<>>
    PROVE  /\ Tail(q) \in CallIds /\ Head(q) \in Nat
           /\ IF Tail(q) = <<>> THEN q[Len(q)] = Head(q) ELSE q[Len(q)] = Tail(q)[Len(Tail(q))]
  <1>1. q \in Seq(Nat)
    BY DEF CallIds
  <1>2. Tail(q) \in Seq(Nat) /\ Head(q) \in Nat /\ Head(q) = q[1] /\ Len(Tail(q)) = Len(q) - 1
        /\ Len(q) \in Nat /\ Len(q) > 0
    BY <1>1
  <1>3. \A i \in 1..Len(Tail(q)) : Tail(q)[i] = q[i + 1]
    BY <1>1
  <1>4. Tail(q) = <<>> => Len(q) = 1
    <2> PICK t : t = Tail(q)
      OBVIOUS
    <2>1. t = <<>> => Len(t) = 0
      BY EmptySeq
    <2>2. Len(t) = Len(q) - 1 /\ Len(q) \in Nat
      BY <1>2
    <2>3. t = <<>> => Len(q) = 1
      BY <2>1, <2>2
    <2>. QED
      BY <2>3
  <1>5. Tail(q) # <<>> => Len(Tail(q)) \in 1..Len(Tail(q)) /\ Len(Tail(q)) + 1 = Len(q)
    BY <1>2
  <1>. QED
    BY <1>2, <1>3, <1>4, <1>5 DEF CallIds

\* A client has one slot or none.
LEMMA SlotMade ==
    ASSUME NEW r \in Slots
    PROVE  <<r>> \in SlotSeq /\ <<r>> # <<>> /\ <<r>>[1] = r /\ <<>> \in SlotSeq
  BY DEF SlotSeq

\* A step of client c that leaves the other clients alone.
LEMMA OneClient ==
    ASSUME PursuitInv, MainTyped', NEW c \in Clients,
           \A e \in Clients \ {c} : /\ slot'[e] = slot[e] /\ asks'[e] = asks[e] /\ replies'[e] = replies[e]
                                    /\ use'[e] = use[e] /\ gen'[e] = gen[e] /\ hello'[e] = hello[e]
                                    /\ acked'[e] = acked[e],
           (IF replies'[c] = <<>> THEN use'[c] ELSE replies'[c][Len(replies'[c])] # 0) <=> slot'[c] # <<>>,
           use'[c] /\ gen'[c] \notin acked'[c] => hello'[c] \/ asks'[c] > 0 \/ replies'[c] # <<>>
    PROVE  PursuitInv'
  <1>1. SlotIsKnown'
    BY DEF PursuitInv, SlotIsKnown
  <1>2. CallIsPursued'
    BY DEF PursuitInv, CallIsPursued, Unanswered
  <1>. QED
    BY <1>1, <1>2 DEF PursuitInv

\* The server answers a request: the reply pursues the call.
LEMMA RequestPursues ==
    ASSUME PursuitInv, NEW c \in Clients, Request(c)
    PROVE  PursuitInv'
  <1>0. MainTyped /\ SlotIsKnown /\ CallIsPursued
    BY DEF PursuitInv
  <1>1. /\ asks[c] > 0 /\ asks' = [asks EXCEPT ![c] = @ - 1]
        /\ UNCHANGED <<use, gen, acked, hello>>
    BY DEF Request, clientVars
  <1>2. asks' \in [Clients -> Nat]
    BY <1>0, <1>1 DEF MainTyped
  <1>3. CASE slot[c] = <<>> /\ openings[c] < MaxCalls
    <2> DEFINE k == openings[c] + 1
               r == [call |-> k, addr |-> 0, seq |-> 0, sseq |-> 0]
    <2>1. /\ openings' = [openings EXCEPT ![c] = k]
          /\ slot' = [slot EXCEPT ![c] = <<r>>]
          /\ replies' = [replies EXCEPT ![c] = Append(@, k)]
      BY <1>3 DEF Request
    <2>2. k \in Nat /\ k # 0 /\ r \in Slots
      BY <1>0 DEF MainTyped, Slots
    <2> HIDE DEF k, r
    <2>3. <<r>> \in SlotSeq /\ <<r>> # <<>>
      BY <2>2, SlotMade
    <2>4. replies[c] \in CallIds
      BY <1>0 DEF MainTyped
    <2>5. /\ Append(replies[c], k) \in CallIds /\ Append(replies[c], k) # <<>>
          /\ Append(replies[c], k)[Len(Append(replies[c], k))] = k
      BY <2>2, <2>4, TokenSent
    <2>6. MainTyped'
      BY <1>0, <1>1, <1>2, <2>1, <2>2, <2>3, <2>5 DEF MainTyped
    <2>7. slot'[c] = <<r>> /\ replies'[c] = Append(replies[c], k)
      BY <1>0, <2>1 DEF MainTyped
    <2>8. \A e \in Clients \ {c} : slot'[e] = slot[e] /\ asks'[e] = asks[e] /\ replies'[e] = replies[e]
      BY <1>0, <1>1, <2>1 DEF MainTyped
    <2>. QED
      BY <1>1, <2>2, <2>3, <2>5, <2>6, <2>7, <2>8, OneClient
  <1>4. CASE slot[c] = <<>> /\ ~(openings[c] < MaxCalls)
    <2>1. UNCHANGED <<openings, slot, replies>>
      BY <1>4 DEF Request
    <2>2. MainTyped'
      BY <1>0, <1>1, <1>2, <2>1 DEF MainTyped
    \* No call is on: the client knows, or will hear.
    <2>3. use[c] => replies[c] # <<>>
      BY <1>0, <1>4 DEF SlotIsKnown
    <2>4. (IF replies[c] = <<>> THEN use[c] ELSE replies[c][Len(replies[c])] # 0) <=> slot[c] # <<>>
      BY <1>0 DEF SlotIsKnown
    <2>5. \A e \in Clients \ {c} : asks'[e] = asks[e]
      BY <1>0, <1>1 DEF MainTyped
    <2>. QED
      BY <1>1, <2>1, <2>2, <2>3, <2>4, <2>5, OneClient
  <1>5. CASE slot[c] # <<>>
    <2>1. /\ openings' = openings
          /\ slot' = [slot EXCEPT ![c] = <<>>]
          /\ replies' = [replies EXCEPT ![c] = Append(@, 0)]
      BY <1>5 DEF Request
    <2>2. replies[c] \in CallIds /\ <<>> \in SlotSeq
      BY <1>0 DEF MainTyped, SlotSeq
    <2>3. /\ Append(replies[c], 0) \in CallIds /\ Append(replies[c], 0) # <<>>
          /\ Append(replies[c], 0)[Len(Append(replies[c], 0))] = 0
      BY <2>2, TokenSent
    <2>4. MainTyped'
      BY <1>0, <1>1, <1>2, <2>1, <2>2, <2>3 DEF MainTyped
    <2>5. slot'[c] = <<>> /\ replies'[c] = Append(replies[c], 0)
      BY <1>0, <2>1 DEF MainTyped
    <2>6. \A e \in Clients \ {c} : slot'[e] = slot[e] /\ asks'[e] = asks[e] /\ replies'[e] = replies[e]
      BY <1>0, <1>1, <2>1 DEF MainTyped
    <2>. QED
      BY <1>1, <2>3, <2>4, <2>5, <2>6, OneClient
  <1>. QED
    BY <1>3, <1>4, <1>5

\* The client hears that it is in: its Hello task pursues the call.
LEMMA JoinedPursues ==
    ASSUME PursuitInv, NEW c \in Clients, NEW devices \in BOOLEAN, Joined(c, devices)
    PROVE  PursuitInv'
  <1>0. MainTyped /\ SlotIsKnown /\ replies[c] \in CallIds /\ asks[c] \in Nat
    BY DEF PursuitInv, MainTyped
  <1> PICK k : k = Head(replies[c])
    OBVIOUS
  <1>1. /\ replies[c] # <<>> /\ k # 0
        /\ replies' = [replies EXCEPT ![c] = Tail(@)]
        /\ use' = [use EXCEPT ![c] = TRUE] /\ gen' = [gen EXCEPT ![c] = k]
        /\ hello' = [hello EXCEPT ![c] = devices]
        /\ asks' = (IF devices THEN asks ELSE [asks EXCEPT ![c] = @ + 1])
        /\ UNCHANGED <<slot, openings, acked>>
    BY DEF Joined, serverVars
  <1>2. /\ Tail(replies[c]) \in CallIds /\ k \in Nat
        /\ IF Tail(replies[c]) = <<>> THEN replies[c][Len(replies[c])] = k
           ELSE replies[c][Len(replies[c])] = Tail(replies[c])[Len(Tail(replies[c]))]
    BY <1>0, <1>1, TokenHeard
  <1>3. asks' \in [Clients -> Nat] /\ (~devices => asks'[c] > 0) /\ \A e \in Clients \ {c} : asks'[e] = asks[e]
    BY <1>0, <1>1 DEF MainTyped
  <1>4. MainTyped'
    BY <1>0, <1>1, <1>2, <1>3 DEF MainTyped
  <1>5. replies'[c] = Tail(replies[c]) /\ use'[c] = TRUE /\ hello'[c] = devices
    BY <1>0, <1>1 DEF MainTyped
  <1>6. \A e \in Clients \ {c} : /\ slot'[e] = slot[e] /\ replies'[e] = replies[e] /\ use'[e] = use[e]
                                 /\ gen'[e] = gen[e] /\ hello'[e] = hello[e] /\ acked'[e] = acked[e]
    BY <1>0, <1>1 DEF MainTyped
  <1>7. (IF replies'[c] = <<>> THEN use'[c] ELSE replies'[c][Len(replies'[c])] # 0) <=> slot'[c] # <<>>
    <2>1. replies[c][Len(replies[c])] # 0 <=> slot[c] # <<>>
      BY <1>0, <1>1 DEF SlotIsKnown
    <2>. QED
      BY <1>1, <1>2, <1>5, <2>1
  <1>. QED
    BY <1>3, <1>4, <1>5, <1>6, <1>7, OneClient

\* The client hears that it is out.
LEMMA LeftPursues ==
    ASSUME PursuitInv, NEW c \in Clients, Left(c)
    PROVE  PursuitInv'
  <1>0. MainTyped /\ SlotIsKnown /\ replies[c] \in CallIds
    BY DEF PursuitInv, MainTyped
  <1>1. /\ replies[c] # <<>> /\ Head(replies[c]) = 0
        /\ replies' = [replies EXCEPT ![c] = Tail(@)]
        /\ use' = [use EXCEPT ![c] = FALSE]
        /\ UNCHANGED <<slot, openings, asks, gen, acked, hello>>
    BY DEF Left, serverVars
  <1>2. /\ Tail(replies[c]) \in CallIds
        /\ IF Tail(replies[c]) = <<>> THEN replies[c][Len(replies[c])] = 0
           ELSE replies[c][Len(replies[c])] = Tail(replies[c])[Len(Tail(replies[c]))]
    BY <1>0, <1>1, TokenHeard
  <1>3. MainTyped'
    BY <1>0, <1>1, <1>2 DEF MainTyped
  <1>4. replies'[c] = Tail(replies[c]) /\ use'[c] = FALSE
    BY <1>0, <1>1 DEF MainTyped
  <1>5. \A e \in Clients \ {c} : replies'[e] = replies[e] /\ use'[e] = use[e]
    BY <1>0, <1>1 DEF MainTyped
  <1>6. (IF replies'[c] = <<>> THEN use'[c] ELSE replies'[c][Len(replies'[c])] # 0) <=> slot'[c] # <<>>
    <2>1. replies[c][Len(replies[c])] # 0 <=> slot[c] # <<>>
      BY <1>0, <1>1 DEF SlotIsKnown
    <2>. QED
      BY <1>1, <1>2, <1>4, <2>1
  <1>. QED
    BY <1>1, <1>3, <1>4, <1>5, <1>6, OneClient

\* The Hello task ends, with an acknowledgement or after asking again.
LEMMA HelloPursues ==
    ASSUME PursuitInv, NEW c \in Clients, HelloEnds(c)
    PROVE  PursuitInv'
  <1>0. MainTyped /\ SlotIsKnown /\ CallIsPursued
    BY DEF PursuitInv
  <1>1. /\ hello' = [hello EXCEPT ![c] = FALSE]
        /\ asks' = (IF gen[c] \in acked[c] \/ ~use[c] THEN asks ELSE [asks EXCEPT ![c] = @ + 1])
        /\ UNCHANGED <<slot, openings, replies, use, gen, acked>>
    BY DEF HelloEnds, serverVars
  <1>2. /\ asks' \in [Clients -> Nat] /\ \A e \in Clients \ {c} : asks'[e] = asks[e]
        /\ (gen[c] \in acked[c] \/ ~use[c] \/ asks'[c] > 0)
    BY <1>0, <1>1 DEF MainTyped
  <1>3. MainTyped'
    BY <1>0, <1>1, <1>2 DEF MainTyped
  <1>4. \A e \in Clients \ {c} : hello'[e] = hello[e]
    BY <1>0, <1>1 DEF MainTyped
  <1>5. (IF replies[c] = <<>> THEN use[c] ELSE replies[c][Len(replies[c])] # 0) <=> slot[c] # <<>>
    BY <1>0 DEF SlotIsKnown
  <1>. QED
    BY <1>1, <1>2, <1>3, <1>4, <1>5, OneClient

-----------------------------------------------------------------------------
(* VoiceRelay: what is on its way.                                         *)

Codes  == {"audio", "hello", "ping", "pong"}
FrameNames == [from : Clients, call : Nat, seq : Nat]
Ups    == [from : Clients, call : Nat, seq : Nat, code : Codes, to : Clients]
Downs  == [to : Clients, call : Nat, seq : Nat, code : Codes, frame : FrameNames]

NetTyped ==
    /\ up \subseteq Ups /\ down \subseteq Downs
    /\ seq \in [Clients -> Nat] /\ sseq \in [Clients -> Nat]
    /\ held \in [Clients -> [Senders -> Nat]] /\ loops \in [Clients -> SUBSET Nat]
    /\ heard \in [Clients -> [Frames -> Nat]]

\* The call of a frame that can be in a slot: the slot that is open now.
Current(f) == slot[f.from] # <<>> /\ slot[f.from][1].call = f.call

Within(q, n) == \A i \in DOMAIN q : q[i] <= n

\* No call has a number that no slot has had, and none is call 0.
CallsKnown ==
    /\ \A c \in Clients :
          /\ gen[c] <= openings[c]
          /\ \A k \in loops[c] : k # 0 /\ k <= openings[c]
          /\ Within(replies[c], openings[c])
          /\ \A t \in Senders : held[c][t] # 0 => gen[c] # 0
          /\ slot[c] # <<>> => slot[c][1].call <= openings[c] /\ (slot[c][1].addr = 0 => slot[c][1].seq = 0)
    /\ \A d \in up : d.call # 0 /\ d.call <= openings[d.from]
    /\ \A d \in down : d.frame.call <= openings[d.frame.from]

\* The server has sent a frame of an open call on once, and only if it was newer.
RelayedOnce ==
    /\ \A d \in down : d.code = "audio" /\ Current(d.frame) => d.frame.seq <= slot[d.frame.from][1].seq
    /\ \A d, e \in down : d.code = "audio" /\ e.code = "audio" /\ d.to = e.to /\ d.frame = e.frame
                            /\ Current(d.frame) => d = e

\* What was played has been received.
HeardCame ==
    \A c \in Clients, f \in Frames : heard[c][f] # 0 =>
        \E d \in down : d.code = "audio" /\ d.to = c /\ d.frame = f /\ d.seq <= sseq[c]

PlayInv == CallsKnown /\ RelayedOnce /\ HeardCame /\ PlayedOnce

\* Counting what is sent to them leaves the slots otherwise as they are.
LEMMA CountedKeeps ==
    ASSUME NEW s \in [Clients -> SlotSeq], NEW R \in SUBSET Bound(s)
    PROVE  LET t == Counted(s, R) IN
           /\ t \in [Clients -> SlotSeq]
           /\ \A c \in Clients : t[c] # <<>> <=> s[c] # <<>>
           /\ \A c \in Clients : s[c] # <<>> => /\ t[c][1].call = s[c][1].call
                                                /\ t[c][1].addr = s[c][1].addr
                                                /\ t[c][1].seq = s[c][1].seq
  <1> DEFINE plus(r) == [s[r][1] EXCEPT !.sseq = @ + 1]
  <1>1. \A r \in Clients : s[r] # <<>> => s[r][1] \in Slots
    BY DEF SlotSeq
  <1>2. \A r \in R : r \in Clients /\ s[r] # <<>> /\ s[r][1] \in Slots
    BY <1>1 DEF Bound
  <1>3. \A r \in R : /\ plus(r) \in Slots /\ plus(r).call = s[r][1].call
                     /\ plus(r).addr = s[r][1].addr /\ plus(r).seq = s[r][1].seq
    BY <1>2 DEF Slots
  <1>4. Counted(s, R) = [r \in Clients |-> IF r \in R THEN <<plus(r)>> ELSE s[r]]
    BY DEF Counted
  <1> HIDE DEF plus
  <1>5. \A r \in R : <<plus(r)>> \in SlotSeq /\ <<plus(r)>> # <<>> /\ <<plus(r)>>[1] = plus(r)
    BY <1>3, SlotMade
  <1>6. \A c \in Clients : Counted(s, R)[c] = IF c \in R THEN <<plus(c)>> ELSE s[c]
    BY <1>4
  <1>7. Counted(s, R) \in [Clients -> SlotSeq]
    BY <1>4, <1>5
  <1>. QED
    BY <1>2, <1>3, <1>5, <1>6, <1>7

\* What the server does with a datagram of client f.
LEMMA ServerFacts ==
    ASSUME slot \in [Clients -> SlotSeq], NEW d \in Ups, NEW throttled, ServerReceives(d, throttled)
    PROVE  /\ slot' \in [Clients -> SlotSeq] /\ slot[d.from] # <<>>
           /\ \A c \in Clients : slot'[c] # <<>> <=> slot[c] # <<>>
           /\ \A c \in Clients : slot[c] # <<>> => slot'[c][1].call = slot[c][1].call
           /\ \A c \in Clients : slot[c] # <<>> /\ c # d.from =>
                  slot'[c][1].addr = slot[c][1].addr /\ slot'[c][1].seq = slot[c][1].seq
           /\ slot'[d.from][1].addr = d.call
           /\ \/ slot'[d.from][1].seq = slot[d.from][1].seq /\ slot[d.from][1].addr # 0 /\ down' = down
              \/ /\ slot'[d.from][1].seq = d.seq
                 /\ \/ slot[d.from][1].addr = 0 /\ d.code = "hello"
                    \/ slot[d.from][1].addr # 0 /\ d.seq > slot[d.from][1].seq
                 /\ \/ down' = down
                    \/ \E s \in [Clients -> SlotSeq], R \in SUBSET Clients :
                          /\ R \subseteq Bound(s)
                          /\ down' = down \cup {Outgoing(s, r, d.code, FrameOf(d)) : r \in R}
  <1> DEFINE f     == d.from
             s     == slot[f][1]
             moved == [s EXCEPT !.addr = d.call]
             now   == [moved EXCEPT !.seq = d.seq]
             known == [slot EXCEPT ![f] = <<now>>]
  <1>1. f \in Clients /\ d.call \in Nat /\ d.seq \in Nat
    BY DEF Ups
  <1>2. slot[f] # <<>>
    BY DEF ServerReceives
  <1>3. s \in Slots
    BY <1>1, <1>2 DEF SlotSeq
  <1>4. /\ moved \in Slots /\ moved.call = s.call /\ moved.addr = d.call /\ moved.seq = s.seq
        /\ now \in Slots /\ now.call = s.call /\ now.addr = d.call /\ now.seq = d.seq
    BY <1>1, <1>3 DEF Slots
  <1>5. \/ /\ s.addr = 0 /\ d.code = "hello"
           /\ \E R \in SUBSET Bound(known) : /\ slot' = Counted(known, R)
                                             /\ down' = down \cup {Outgoing(known, r, d.code, FrameOf(d)) : r \in R}
        \/ s.addr # 0 /\ slot' = [slot EXCEPT ![f] = <<moved>>] /\ down' = down
        \/ s.addr # 0 /\ d.seq > s.seq /\ slot' = known /\ down' = down
        \/ /\ s.addr # 0 /\ d.seq > s.seq
           /\ \E R \in SUBSET Bound(known) : /\ slot' = Counted(known, R)
                                             /\ down' = down \cup {Outgoing(known, r, d.code, FrameOf(d)) : r \in R}
    BY DEF ServerReceives, Relayed, IsNewer
  <1> HIDE DEF moved, now
  <1>6. /\ <<moved>> \in SlotSeq /\ <<now>> \in SlotSeq /\ <<moved>> # <<>> /\ <<now>> # <<>>
        /\ <<moved>>[1] = moved /\ <<now>>[1] = now
    BY <1>4, SlotMade
  <1>7. /\ known \in [Clients -> SlotSeq] /\ known[f] = <<now>>
        /\ \A c \in Clients : c # f => known[c] = slot[c]
    BY <1>1, <1>6
  <1> HIDE DEF known
  <1>8. CASE s.addr # 0 /\ slot' = [slot EXCEPT ![f] = <<moved>>] /\ down' = down
    <2>1. /\ slot' \in [Clients -> SlotSeq] /\ slot'[f] = <<moved>>
          /\ \A c \in Clients : c # f => slot'[c] = slot[c]
      BY <1>1, <1>6, <1>8
    <2>. QED
      BY <1>2, <1>4, <1>6, <1>8, <2>1
  <1>9. CASE s.addr # 0 /\ d.seq > s.seq /\ slot' = known /\ down' = down
    BY <1>2, <1>4, <1>6, <1>7, <1>9
  <1>10. ASSUME NEW R \in SUBSET Bound(known), slot' = Counted(known, R)
         PROVE  /\ slot' \in [Clients -> SlotSeq]
                /\ \A c \in Clients : slot'[c] # <<>> <=> slot[c] # <<>>
                /\ \A c \in Clients : slot[c] # <<>> => slot'[c][1].call = slot[c][1].call
                /\ \A c \in Clients : slot[c] # <<>> /\ c # f =>
                       slot'[c][1].addr = slot[c][1].addr /\ slot'[c][1].seq = slot[c][1].seq
                /\ slot'[f][1].addr = d.call /\ slot'[f][1].seq = d.seq
                /\ known \in [Clients -> SlotSeq] /\ R \in SUBSET Clients
    <2>1. /\ slot' \in [Clients -> SlotSeq]
          /\ \A c \in Clients : slot'[c] # <<>> <=> known[c] # <<>>
          /\ \A c \in Clients : known[c] # <<>> => /\ slot'[c][1].call = known[c][1].call
                                                   /\ slot'[c][1].addr = known[c][1].addr
                                                   /\ slot'[c][1].seq = known[c][1].seq
      BY <1>7, <1>10, CountedKeeps
    <2>2. R \in SUBSET Clients
      BY DEF Bound
    <2>3. known[f] # <<>> /\ known[f][1] = now
      BY <1>6, <1>7
    <2>. QED
      BY <1>1, <1>2, <1>4, <1>7, <2>1, <2>2, <2>3
  <1>. QED
    BY <1>2, <1>5, <1>8, <1>9, <1>10

TypedInv == PursuitInv /\ NetTyped

\* A step that opens or closes no slot and settles no call.
LEMMA Undisturbed ==
    ASSUME PursuitInv, MainTyped', UNCHANGED <<replies, use, gen, hello, asks>>,
           \A c \in Clients : slot'[c] # <<>> <=> slot[c] # <<>>,
           \A c \in Clients : acked[c] \subseteq acked'[c]
    PROVE  PursuitInv'
  <1>1. SlotIsKnown'
    BY DEF PursuitInv, SlotIsKnown
  <1>2. CallIsPursued'
    BY DEF PursuitInv, CallIsPursued, Unanswered
  <1>. QED
    BY <1>1, <1>2 DEF PursuitInv

\* The steps over the main connection.
LEMMA MainSteps ==
    ASSUME TypedInv, NEW c \in Clients,
           Toggle(c) \/ Request(c) \/ Left(c) \/ HelloEnds(c) \/ \E devices \in BOOLEAN : Joined(c, devices)
    PROVE  TypedInv'
  <1>0. PursuitInv /\ MainTyped /\ NetTyped
    BY DEF TypedInv, PursuitInv
  <1>1. CASE Toggle(c)
    <2>1. /\ asks' = [asks EXCEPT ![c] = 1]
          /\ UNCHANGED <<slot, openings, replies, use, gen, acked, hello, loops, seq, held, sseq, up, down, heard>>
      BY <1>1 DEF Toggle, serverVars, clientVars
    <2>2. MainTyped' /\ NetTyped'
      BY <1>0, <2>1 DEF MainTyped, NetTyped
    <2>3. /\ \A e \in Clients \ {c} : asks'[e] = asks[e]
          /\ asks'[c] > 0
      BY <1>0, <2>1 DEF MainTyped
    <2>4. (IF replies[c] = <<>> THEN use[c] ELSE replies[c][Len(replies[c])] # 0) <=> slot[c] # <<>>
      BY <1>0 DEF PursuitInv, SlotIsKnown
    <2>5. PursuitInv'
      BY <1>0, <2>1, <2>2, <2>3, <2>4, OneClient
    <2>. QED
      BY <2>2, <2>5 DEF TypedInv
  <1>2. CASE Request(c) \/ Left(c) \/ HelloEnds(c)
    <2>1. UNCHANGED <<loops, seq, held, sseq, up, down, heard>>
      BY <1>2 DEF Request, Left, HelloEnds, clientVars
    <2>2. NetTyped'
      BY <1>0, <2>1 DEF NetTyped
    <2>. QED
      BY <1>0, <1>2, <2>2, RequestPursues, LeftPursues, HelloPursues DEF TypedInv
  <1>3. ASSUME NEW devices \in BOOLEAN, Joined(c, devices)
        PROVE  TypedInv'
    <2>1. PICK k \in Nat : k = Head(replies[c])
      <3>1. replies[c] \in CallIds /\ replies[c] # <<>>
        BY <1>0, <1>3 DEF MainTyped, Joined
      <3>. QED
        BY <3>1, TokenHeard
    <2>2. /\ seq' = [seq EXCEPT ![c] = 0] /\ sseq' = [sseq EXCEPT ![c] = 0]
          /\ heard' = [heard EXCEPT ![c] = [f \in Frames |-> 0]]
          /\ loops' = (IF devices THEN [loops EXCEPT ![c] = @ \cup {k}] ELSE loops)
          /\ UNCHANGED <<held, up, down>>
      BY <1>3, <2>1 DEF Joined
    <2>3. loops' \in [Clients -> SUBSET Nat]
      BY <1>0, <2>2 DEF NetTyped
    <2>4. NetTyped'
      BY <1>0, <2>2, <2>3 DEF NetTyped
    <2>. QED
      BY <1>0, <1>3, <2>4, JoinedPursues DEF TypedInv
  <1>. QED
    BY <1>1, <1>2, <1>3

\* The steps of the client's tasks, and of its session.
LEMMA TaskSteps ==
    ASSUME TypedInv, NEW c \in Clients, NEW t \in Senders, NEW k,
           ReadSeq(c, t) \/ SendDatagram(c, t) \/ LoopEnds(c, k) \/ Mutes(c) \/ \E ch \in Channels : Moves(c, ch)
    PROVE  TypedInv'
  <1>0. PursuitInv /\ MainTyped /\ NetTyped
    BY DEF TypedInv, PursuitInv
  <1>1. UNCHANGED <<slot, openings, asks, replies, use, gen, acked, hello, down, heard, sseq>>
    BY DEF ReadSeq, SendDatagram, LoopEnds, Mutes, Moves, serverVars, clientVars
  <1>2. PursuitInv'
    <2>1. MainTyped'
      BY <1>0, <1>1 DEF MainTyped
    <2>. QED
      BY <1>0, <1>1, <2>1, Undisturbed
  <1>3. NetTyped'
    <2>1. CASE ReadSeq(c, t)
      <3>1. held' = [held EXCEPT ![c][t] = seq[c] + 1] /\ UNCHANGED <<seq, loops, up>>
        BY <2>1 DEF ReadSeq
      <3>2. held' \in [Clients -> [Senders -> Nat]]
        BY <1>0, <3>1 DEF NetTyped
      <3>. QED
        BY <1>0, <1>1, <3>1, <3>2 DEF NetTyped
    <2>2. CASE SendDatagram(c, t)
      <3>1. /\ held' = [held EXCEPT ![c][t] = 0] /\ seq' = [seq EXCEPT ![c] = held[c][t]] /\ loops' = loops
            /\ up' = up \cup {[from |-> c, call |-> gen[c], seq |-> held[c][t], code |-> Code(c, t), to |-> c]}
        BY <2>2 DEF SendDatagram
      <3>2. held' \in [Clients -> [Senders -> Nat]] /\ seq' \in [Clients -> Nat]
        BY <1>0, <3>1 DEF NetTyped
      <3>3. gen[c] \in Nat /\ held[c][t] \in Nat /\ Code(c, t) \in Codes
        BY <1>0 DEF MainTyped, NetTyped, Code, Codes
      <3>4. [from |-> c, call |-> gen[c], seq |-> held[c][t], code |-> Code(c, t), to |-> c] \in Ups
        BY <3>3 DEF Ups
      <3>. QED
        BY <1>0, <1>1, <3>1, <3>2, <3>4 DEF NetTyped
    <2>3. CASE LoopEnds(c, k)
      <3>1. loops' = [loops EXCEPT ![c] = @ \ {k}] /\ UNCHANGED <<seq, held, up>>
        BY <2>3 DEF LoopEnds
      <3>. QED
        BY <1>0, <1>1, <3>1 DEF NetTyped
    <2>4. CASE Mutes(c) \/ \E ch \in Channels : Moves(c, ch)
      BY <1>0, <1>1, <2>4 DEF NetTyped, Mutes, Moves, clientVars
    <2>. QED
      BY <2>1, <2>2, <2>3, <2>4
  <1>. QED
    BY <1>2, <1>3 DEF TypedInv

\* What is sent on is addressed and numbered.
LEMMA SentOn ==
    ASSUME NEW s \in [Clients -> SlotSeq], NEW r \in Bound(s), NEW d \in Ups
    PROVE  LET o == Outgoing(s, r, d.code, FrameOf(d)) IN
           o \in Downs /\ o.to = r /\ o.code = d.code /\ o.frame = FrameOf(d)
  <1>1. r \in Clients /\ s[r][1] \in Slots
    BY DEF Bound, SlotSeq
  <1>2. FrameOf(d) \in FrameNames /\ d.code \in Codes
    BY DEF FrameOf, FrameNames, Ups
  <1>3. s[r][1].addr \in Nat /\ s[r][1].sseq + 1 \in Nat
    BY <1>1 DEF Slots
  <1>. QED
    BY <1>1, <1>2, <1>3 DEF Outgoing, Downs

\* The server takes a datagram.
LEMMA ServerTyped ==
    ASSUME TypedInv, NEW d \in up, NEW throttled, ServerReceives(d, throttled)
    PROVE  TypedInv'
  <1>0. PursuitInv /\ MainTyped /\ NetTyped /\ d \in Ups /\ slot \in [Clients -> SlotSeq]
    BY DEF TypedInv, PursuitInv, NetTyped, MainTyped
  <1>1. UNCHANGED <<openings, asks, replies, use, gen, acked, hello, loops, seq, held, sseq, up, heard>>
    BY DEF ServerReceives, clientVars
  <1>2. slot' \in [Clients -> SlotSeq] /\ \A c \in Clients : slot'[c] # <<>> <=> slot[c] # <<>>
    BY <1>0, ServerFacts
  <1>3. down' = down \/ \E s \in [Clients -> SlotSeq], R \in SUBSET Clients :
                          /\ R \subseteq Bound(s)
                          /\ down' = down \cup {Outgoing(s, r, d.code, FrameOf(d)) : r \in R}
    BY <1>0, ServerFacts
  <1>4. down' \subseteq Downs
    <2>1. CASE down' = down
      BY <1>0, <2>1 DEF NetTyped
    <2>2. ASSUME NEW s \in [Clients -> SlotSeq], NEW R \in SUBSET Clients, R \subseteq Bound(s),
                 down' = down \cup {Outgoing(s, r, d.code, FrameOf(d)) : r \in R}
          PROVE  down' \subseteq Downs
      <3>1. \A r \in R : Outgoing(s, r, d.code, FrameOf(d)) \in Downs
        BY <1>0, <2>2, SentOn
      <3>. QED
        BY <1>0, <2>2, <3>1 DEF NetTyped
    <2>. QED
      BY <1>3, <2>1, <2>2
  <1>5. MainTyped' /\ NetTyped'
    BY <1>0, <1>1, <1>2, <1>4 DEF MainTyped, NetTyped
  <1>. QED
    BY <1>0, <1>1, <1>2, <1>5, Undisturbed DEF TypedInv

\* A client takes a datagram.
LEMMA ClientTyped ==
    ASSUME TypedInv, NEW d \in down, NEW sounds \in BOOLEAN, ClientReceives(d.to, d, sounds)
    PROVE  TypedInv'
  <1> PICK c : c = d.to
    OBVIOUS
  <1>0. PursuitInv /\ MainTyped /\ NetTyped /\ d \in Downs
    BY DEF TypedInv, PursuitInv, NetTyped
  <1>1. c \in Clients /\ d.seq \in Nat /\ d.call \in Nat /\ d.frame.from \in Clients
    BY <1>0 DEF Downs, FrameNames
  <1>2. /\ sseq' = [sseq EXCEPT ![c] = d.seq]
        /\ acked' = (IF d.code = "hello" THEN [acked EXCEPT ![c] = @ \cup {d.call}] ELSE acked)
        /\ heard' = (IF sounds /\ d.code = "audio" THEN [heard EXCEPT ![c][d.frame] = @ + 1] ELSE heard)
        /\ UNCHANGED <<slot, openings, asks, replies, use, gen, hello, loops, held, down>>
    BY DEF ClientReceives, serverVars
  <1>3. \/ UNCHANGED <<seq, up>>
        \/ /\ seq' = [seq EXCEPT ![c] = @ + 1]
           /\ up' = up \cup {[from |-> c, call |-> d.call, seq |-> seq[c] + 1, code |-> "pong", to |-> d.frame.from]}
    BY DEF ClientReceives
  <1>4. acked' \in [Clients -> SUBSET Nat] /\ \A e \in Clients : acked[e] \subseteq acked'[e]
    BY <1>0, <1>1, <1>2 DEF MainTyped
  <1>5. MainTyped'
    BY <1>0, <1>2, <1>4 DEF MainTyped
  <1>6. heard' \in [Clients -> [Frames -> Nat]]
    <2>1. CASE sounds /\ d.code = "audio"
      <3>1. heard' = [heard EXCEPT ![c][d.frame] = @ + 1]
        BY <1>2, <2>1
      <3> DEFINE h == [heard[c] EXCEPT ![d.frame] = heard[c][d.frame] + 1]
      <3>2. heard' = [heard EXCEPT ![c] = h]
        BY <3>1
      <3>3. heard[c] \in [Frames -> Nat]
        BY <1>0, <1>1 DEF NetTyped
      <3>4. h = [g \in Frames |-> IF g = d.frame THEN heard[c][d.frame] + 1 ELSE heard[c][g]]
        BY <3>3
      <3>5. \A g \in Frames : (IF g = d.frame THEN heard[c][d.frame] + 1 ELSE heard[c][g]) \in Nat
        BY <3>3
      <3>6. h \in [Frames -> Nat]
        BY <3>4, <3>5
      <3> HIDE DEF h
      <3>. QED
        BY <1>0, <1>1, <3>2, <3>6 DEF NetTyped
    <2>2. CASE ~(sounds /\ d.code = "audio")
      BY <1>0, <1>2, <2>2 DEF NetTyped
    <2>. QED
      BY <2>1, <2>2
  <1>7. seq' \in [Clients -> Nat] /\ up' \subseteq Ups
    <2>1. seq[c] + 1 \in Nat
      BY <1>0, <1>1 DEF NetTyped
    <2>2. [from |-> c, call |-> d.call, seq |-> seq[c] + 1, code |-> "pong", to |-> d.frame.from] \in Ups
      BY <1>1, <2>1 DEF Ups, Codes
    <2>. QED
      BY <1>0, <1>1, <1>3, <2>1, <2>2 DEF NetTyped
  <1>8. NetTyped'
    BY <1>0, <1>1, <1>2, <1>6, <1>7 DEF NetTyped
  <1>. QED
    BY <1>0, <1>2, <1>4, <1>5, <1>8, Undisturbed DEF TypedInv

\* Every step keeps the types and pursues the calls.
LEMMA VoiceTyped ==
    ASSUME TypedInv, [VoiceNext]_voiceVars
    PROVE  TypedInv'
  <1>0. \A d \in down : d.to \in Clients
    BY DEF TypedInv, NetTyped, Downs
  <1>1. CASE VoiceNext
    <2>1. "audio" \in Senders
      BY DEF Senders
    <2>. QED
      BY <1>1, <2>1, VoiceAssumption, MainSteps, TaskSteps, ServerTyped, ClientTyped DEF VoiceNext
  <1>2. CASE UNCHANGED voiceVars
    <2>1. MainTyped' /\ NetTyped'
      BY <1>2 DEF TypedInv, PursuitInv, MainTyped, NetTyped, voiceVars
    <2>2. PursuitInv'
      BY <1>2, <2>1, Undisturbed DEF TypedInv, voiceVars
    <2>. QED
      BY <2>1, <2>2 DEF TypedInv
  <1>. QED
    BY <1>1, <1>2

\* Nobody is in a call at first.
LEMMA VoiceBegins ==
    ASSUME VoiceInit
    PROVE  TypedInv
  <1>1. MainTyped
    BY DEF VoiceInit, MainTyped, CallIds, SlotSeq
  <1>2. NetTyped
    BY DEF VoiceInit, NetTyped
  <1>3. SlotIsKnown /\ CallIsPursued
    BY DEF VoiceInit, SlotIsKnown, CallIsPursued, Unanswered
  <1>. QED
    BY <1>1, <1>2, <1>3 DEF TypedInv, PursuitInv

\* VoiceRelay, any number of clients and calls: a call the server has not answered is
\* pursued by a Hello task, a request or a reply, in whatever order
\* listen_server_voice and the main connection speak.
THEOREM CallPursued == VoiceSpec => []CallIsPursued
  <1>1. VoiceInit => TypedInv
    BY VoiceBegins
  <1>2. TypedInv /\ [VoiceNext]_voiceVars => TypedInv'
    BY VoiceTyped
  <1>3. TypedInv => CallIsPursued
    BY DEF TypedInv, PursuitInv
  <1>. QED
    BY <1>1, <1>2, <1>3, PTL DEF VoiceSpec

-----------------------------------------------------------------------------
(* VoiceRelay: no frame is played twice.                                   *)

\* The tokens on their way stay within the slots there were.
LEMMA WithinTail ==
    ASSUME NEW q \in CallIds, q # <<>>, NEW n \in Nat, Within(q, n)
    PROVE  Within(Tail(q), n) /\ Head(q) <= n
  <1>1. q \in Seq(Nat)
    BY DEF CallIds
  <1>2. Head(q) = q[1] /\ 1 \in DOMAIN q
    BY <1>1
  <1>3. \A i \in DOMAIN Tail(q) : i + 1 \in DOMAIN q /\ Tail(q)[i] = q[i + 1]
    BY <1>1
  <1>. QED
    BY <1>2, <1>3 DEF Within

\* A sequence of calls stays within the calls opened so far.
LEMMA WithinAppend ==
    ASSUME NEW q \in CallIds, NEW n \in Nat, NEW m \in Nat, n <= m, Within(q, n), NEW k \in Nat, k <= m
    PROVE  Within(Append(q, k), m)
  <1>1. q \in Seq(Nat)
    BY DEF CallIds
  <1>2. \A i \in DOMAIN q : q[i] \in Nat /\ q[i] <= n
    BY <1>1 DEF Within
  <1>3. \A i \in DOMAIN q : q[i] <= m
    BY <1>2
  <1>4. \A i \in DOMAIN Append(q, k) : (i \in DOMAIN q /\ Append(q, k)[i] = q[i]) \/ Append(q, k)[i] = k
    BY <1>1
  <1>. QED
    BY <1>3, <1>4 DEF Within

\* A step that changes neither slots nor what was relayed or heard.
LEMMA SameRelay ==
    ASSUME PlayInv, CallsKnown', UNCHANGED <<slot, down, heard, sseq>>
    PROVE  PlayInv'
  <1>1. \A f : Current(f)' <=> Current(f)
    BY DEF Current
  <1>2. RelayedOnce'
    BY <1>1 DEF PlayInv, RelayedOnce
  <1>3. HeardCame' /\ PlayedOnce'
    BY DEF PlayInv, HeardCame, PlayedOnce
  <1>. QED
    BY <1>2, <1>3 DEF PlayInv

\* The steps of a client that play nothing.
LEMMA QuietSteps ==
    ASSUME TypedInv, PlayInv, NEW c \in Clients, NEW t \in Senders, NEW k,
           Toggle(c) \/ Left(c) \/ HelloEnds(c) \/ ReadSeq(c, t) \/ SendDatagram(c, t) \/ LoopEnds(c, k)
             \/ Mutes(c) \/ \E ch \in Channels : Moves(c, ch)
    PROVE  PlayInv'
  <1>0. CallsKnown /\ MainTyped /\ NetTyped
    BY DEF PlayInv, TypedInv, PursuitInv
  <1>1. UNCHANGED <<slot, openings, gen, down, heard, sseq>>
    BY DEF Toggle, Left, HelloEnds, ReadSeq, SendDatagram, LoopEnds, Mutes, Moves, serverVars, clientVars
  <1>2. CASE Toggle(c) \/ HelloEnds(c) \/ Mutes(c) \/ \E ch \in Channels : Moves(c, ch)
    <2>1. UNCHANGED <<replies, loops, held, up>>
      BY <1>2 DEF Toggle, HelloEnds, Mutes, Moves, clientVars
    <2>2. CallsKnown'
      BY <1>0, <1>1, <2>1 DEF CallsKnown
    <2>. QED
      BY <1>1, <2>2, SameRelay
  <1>3. CASE Left(c)
    <2>1. replies[c] # <<>> /\ replies' = [replies EXCEPT ![c] = Tail(@)] /\ UNCHANGED <<loops, held, up>>
      BY <1>3 DEF Left
    <2>2. replies[c] \in CallIds /\ openings[c] \in Nat /\ Within(replies[c], openings[c])
      BY <1>0 DEF MainTyped, CallsKnown
    <2>3. Within(Tail(replies[c]), openings[c])
      BY <2>1, <2>2, WithinTail
    <2>4. \A e \in Clients : replies'[e] = IF e = c THEN Tail(replies[c]) ELSE replies[e]
      BY <1>0, <2>1 DEF MainTyped
    <2>5. \A e \in Clients : Within(replies'[e], openings[e])
      BY <1>0, <2>3, <2>4 DEF CallsKnown
    <2>6. CallsKnown'
      BY <1>0, <1>1, <2>1, <2>5 DEF CallsKnown
    <2>. QED
      BY <1>1, <2>6, SameRelay
  <1>4. CASE LoopEnds(c, k)
    <2>1. loops' = [loops EXCEPT ![c] = @ \ {k}] /\ UNCHANGED <<replies, held, up>>
      BY <1>4 DEF LoopEnds
    <2>2. \A e \in Clients : loops'[e] \subseteq loops[e]
      BY <1>0, <2>1 DEF NetTyped
    <2>3. CallsKnown'
      BY <1>0, <1>1, <2>1, <2>2 DEF CallsKnown
    <2>. QED
      BY <1>1, <2>3, SameRelay
  <1>5. CASE ReadSeq(c, t)
    <2>1. gen[c] # 0 /\ held' = [held EXCEPT ![c][t] = seq[c] + 1] /\ UNCHANGED <<replies, loops, up>>
      BY <1>5 DEF ReadSeq, Sends
    <2>2. \A e \in Clients, u \in Senders : held'[e][u] = held[e][u] \/ (e = c /\ u = t)
      BY <1>0, <2>1 DEF NetTyped
    <2>3. \A e \in Clients, u \in Senders : held'[e][u] # 0 => gen[e] # 0
      BY <1>0, <2>1, <2>2 DEF CallsKnown
    <2>4. CallsKnown'
      BY <1>0, <1>1, <2>1, <2>3 DEF CallsKnown
    <2>. QED
      BY <1>1, <2>4, SameRelay
  <1>6. CASE SendDatagram(c, t)
    <2> DEFINE d == [from |-> c, call |-> gen[c], seq |-> held[c][t], code |-> Code(c, t), to |-> c]
    <2>1. /\ held[c][t] # 0 /\ held' = [held EXCEPT ![c][t] = 0] /\ up' = up \cup {d}
          /\ UNCHANGED <<replies, loops>>
      BY <1>6 DEF SendDatagram
    <2>2. \A e \in Clients, u \in Senders : held'[e][u] = held[e][u] \/ held'[e][u] = 0
      BY <1>0, <2>1 DEF NetTyped
    <2>3. \A e \in Clients, u \in Senders : held'[e][u] # 0 => gen[e] # 0
      BY <1>0, <2>2 DEF CallsKnown
    <2>4. d.call # 0 /\ d.call <= openings[d.from]
      BY <1>0, <2>1 DEF CallsKnown
    <2> HIDE DEF d
    <2>5. CallsKnown'
      BY <1>0, <1>1, <2>1, <2>3, <2>4 DEF CallsKnown
    <2>. QED
      BY <1>1, <2>5, SameRelay
  <1>. QED
    BY <1>2, <1>3, <1>4, <1>5, <1>6

\* A slot that is opened is a call no frame is of yet, and one that is closed is no
\* longer looked at.
LEMMA RequestPlays ==
    ASSUME TypedInv, PlayInv, NEW c \in Clients, Request(c)
    PROVE  PlayInv'
  <1>0. CallsKnown /\ RelayedOnce /\ HeardCame /\ PlayedOnce /\ MainTyped /\ NetTyped
    BY DEF PlayInv, TypedInv, PursuitInv
  <1>1. UNCHANGED <<gen, loops, held, sseq, up, down, heard>>
    BY DEF Request, clientVars
  <1>2. replies[c] \in CallIds /\ Within(replies[c], openings[c]) /\ \A e \in Clients : openings[e] \in Nat
    BY <1>0 DEF MainTyped, CallsKnown
  \* The frames that are on their way, or were played, are of the calls there were.
  <1>3. \A d \in down : d.frame.from \in Clients /\ d.frame.call \in Nat /\ d.frame.seq \in Nat
    BY <1>0 DEF NetTyped, Downs, FrameNames
  <1>4. CASE slot[c] = <<>> /\ openings[c] < MaxCalls
    <2> DEFINE k == openings[c] + 1
               r == [call |-> k, addr |-> 0, seq |-> 0, sseq |-> 0]
    <2>1. /\ openings' = [openings EXCEPT ![c] = k]
          /\ slot' = [slot EXCEPT ![c] = <<r>>]
          /\ replies' = [replies EXCEPT ![c] = Append(@, k)]
      BY <1>4 DEF Request
    <2>2. k \in Nat /\ k > openings[c]
      BY <1>2
    <2>3. <<r>> # <<>> /\ <<r>>[1].call = k /\ <<r>>[1].seq = 0
      OBVIOUS
    <2> HIDE DEF k, r
    <2>4. \A e \in Clients : /\ openings'[e] = IF e = c THEN k ELSE openings[e]
                             /\ slot'[e] = IF e = c THEN <<r>> ELSE slot[e]
                             /\ replies'[e] = IF e = c THEN Append(replies[c], k) ELSE replies[e]
      BY <1>0, <2>1 DEF MainTyped
    <2>5. \A e \in Clients : openings[e] <= openings'[e] /\ openings'[e] \in Nat
      BY <1>2, <2>2, <2>4
    <2>6. \A f : f.from \in Clients /\ Current(f)' /\ f.from # c => Current(f) /\ slot'[f.from] = slot[f.from]
      BY <2>4 DEF Current
    <2>7. \A f : f.from = c /\ Current(f)' => f.call = k
      BY <2>3, <2>4 DEF Current
    <2>8. \A d \in down : Current(d.frame)' => Current(d.frame) /\ slot'[d.frame.from] = slot[d.frame.from]
      <3> SUFFICES ASSUME NEW d \in down, Current(d.frame)'
                   PROVE  Current(d.frame) /\ slot'[d.frame.from] = slot[d.frame.from]
        OBVIOUS
      <3>1. d.frame.call <= openings[d.frame.from]
        BY <1>0 DEF CallsKnown
      <3>2. d.frame.from # c
        BY <1>2, <1>3, <2>2, <2>7, <3>1
      <3>. QED
        BY <1>3, <2>6, <3>2
    <2>9. RelayedOnce'
      BY <1>0, <1>1, <2>8 DEF RelayedOnce
    <2>10. HeardCame'
      BY <1>0, <1>1 DEF HeardCame
    <2>11. PlayedOnce'
      <3> SUFFICES ASSUME NEW e \in Clients, NEW f \in Frames, Current(f)'
                   PROVE  heard[e][f] <= 1
        BY <1>1 DEF PlayedOnce, Current
      <3>1. heard[e][f] \in Nat
        BY <1>0 DEF NetTyped
      <3>2. CASE heard[e][f] # 0
        <4>1. PICK d \in down : d.frame = f
          BY <1>0, <3>2 DEF HeardCame
        <4>2. Current(f)
          BY <2>8, <4>1
        <4>. QED
          BY <1>0, <4>2 DEF PlayedOnce, Current
      <3>. QED
        BY <3>1, <3>2
    <2>12. CallsKnown'
      <3>1. Within(Append(replies[c], k), k)
        BY <1>2, <2>2, WithinAppend
      <3>3. \A e \in Clients : Within(replies'[e], openings'[e])
        BY <1>0, <2>4, <3>1 DEF CallsKnown
      <3>4. \A e \in Clients : gen[e] \in Nat /\ gen[e] <= openings'[e]
        BY <1>0, <1>2, <2>5 DEF CallsKnown, MainTyped
      <3>5. \A e \in Clients : \A j \in loops[e] : j # 0 /\ j <= openings'[e]
        <4>1. \A e \in Clients : \A j \in loops[e] : j \in Nat /\ j # 0 /\ j <= openings[e]
          BY <1>0 DEF CallsKnown, NetTyped
        <4>. QED
          BY <1>2, <2>5, <4>1
      <3>6. \A e \in Clients : slot'[e] # <<>> =>
                 slot'[e][1].call <= openings'[e] /\ (slot'[e][1].addr = 0 => slot'[e][1].seq = 0)
        BY <1>0, <1>2, <2>2, <2>3, <2>4 DEF CallsKnown
      <3>7. \A d \in up : d.call # 0 /\ d.call <= openings'[d.from]
        <4>1. \A d \in up : d.from \in Clients /\ d.call \in Nat
          BY <1>0 DEF NetTyped, Ups
        <4>2. \A d \in up : d.call # 0 /\ d.call <= openings[d.from]
          BY <1>0 DEF CallsKnown
        <4>. QED
          BY <1>2, <2>5, <4>1, <4>2
      <3>8. \A d \in down : d.frame.call <= openings'[d.frame.from]
        BY <1>0, <1>2, <1>3, <2>5 DEF CallsKnown
      <3>9. \A e \in Clients, u \in Senders : held[e][u] # 0 => gen[e] # 0
        BY <1>0 DEF CallsKnown
      <3>. QED
        BY <1>1, <3>3, <3>4, <3>5, <3>6, <3>7, <3>8, <3>9 DEF CallsKnown
    <2>. QED
      BY <2>9, <2>10, <2>11, <2>12 DEF PlayInv
  <1>5. CASE slot[c] = <<>> /\ ~(openings[c] < MaxCalls)
    <2>1. UNCHANGED <<openings, slot, replies>>
      BY <1>5 DEF Request
    <2>2. CallsKnown'
      BY <1>0, <1>1, <2>1 DEF CallsKnown
    <2>. QED
      BY <1>1, <2>1, <2>2, SameRelay
  <1>6. CASE slot[c] # <<>>
    <2>1. /\ openings' = openings
          /\ slot' = [slot EXCEPT ![c] = <<>>]
          /\ replies' = [replies EXCEPT ![c] = Append(@, 0)]
      BY <1>6 DEF Request
    <2>2. \A e \in Clients : /\ slot'[e] = (IF e = c THEN <<>> ELSE slot[e])
                             /\ replies'[e] = IF e = c THEN Append(replies[c], 0) ELSE replies[e]
      BY <1>0, <2>1 DEF MainTyped
    <2>3. \A f : f.from \in Clients /\ Current(f)' => Current(f) /\ slot'[f.from] = slot[f.from]
      BY <2>2 DEF Current
    <2>4. RelayedOnce'
      BY <1>0, <1>1, <1>3, <2>3 DEF RelayedOnce
    <2>5. HeardCame'
      BY <1>0, <1>1 DEF HeardCame
    <2>6. PlayedOnce'
      <3>1. \A f \in Frames : f.from \in Clients
        BY VoiceAssumption DEF Frames
      <3>. QED
        BY <1>0, <1>1, <2>3, <3>1 DEF PlayedOnce, Current
    <2>7. CallsKnown'
      <3>1. Within(Append(replies[c], 0), openings[c])
        BY <1>2, WithinAppend
      <3>2. \A e \in Clients : Within(replies'[e], openings[e])
        BY <1>0, <2>2, <3>1 DEF CallsKnown
      <3>. QED
        BY <1>0, <1>1, <2>1, <2>2, <3>2 DEF CallsKnown
    <2>. QED
      BY <2>4, <2>5, <2>6, <2>7 DEF PlayInv
  <1>. QED
    BY <1>4, <1>5, <1>6

\* A client that joins hears nothing of the call before.
LEMMA JoinedPlays ==
    ASSUME TypedInv, PlayInv, NEW c \in Clients, NEW devices \in BOOLEAN, Joined(c, devices)
    PROVE  PlayInv'
  <1>0. CallsKnown /\ RelayedOnce /\ HeardCame /\ PlayedOnce /\ MainTyped /\ NetTyped
    BY DEF PlayInv, TypedInv, PursuitInv
  <1> PICK k : k = Head(replies[c])
    OBVIOUS
  <1>1. /\ replies[c] # <<>> /\ k # 0
        /\ replies' = [replies EXCEPT ![c] = Tail(@)]
        /\ gen' = [gen EXCEPT ![c] = k]
        /\ sseq' = [sseq EXCEPT ![c] = 0]
        /\ heard' = [heard EXCEPT ![c] = [f \in Frames |-> 0]]
        /\ loops' = (IF devices THEN [loops EXCEPT ![c] = @ \cup {k}] ELSE loops)
        /\ UNCHANGED <<slot, openings, held, up, down>>
    BY DEF Joined, serverVars
  <1>2. replies[c] \in CallIds /\ openings[c] \in Nat /\ Within(replies[c], openings[c])
    BY <1>0 DEF MainTyped, CallsKnown
  <1>3. Within(Tail(replies[c]), openings[c]) /\ k <= openings[c]
    BY <1>1, <1>2, WithinTail
  <1>4. \A e \in Clients : /\ replies'[e] = (IF e = c THEN Tail(replies[c]) ELSE replies[e])
                           /\ gen'[e] = (IF e = c THEN k ELSE gen[e])
    BY <1>0, <1>1 DEF MainTyped
  <1>5. \A e \in Clients : /\ loops'[e] \subseteq loops[e] \cup (IF e = c THEN {k} ELSE {})
                           /\ heard'[e] = (IF e = c THEN [f \in Frames |-> 0] ELSE heard[e])
                           /\ e # c => sseq'[e] = sseq[e]
    BY <1>0, <1>1 DEF NetTyped
  <1>7. CallsKnown'
    <2>1. \A e \in Clients : Within(replies'[e], openings[e])
      BY <1>0, <1>3, <1>4 DEF CallsKnown
    <2>2. \A e \in Clients : gen'[e] <= openings[e] /\ (gen[e] # 0 => gen'[e] # 0)
      BY <1>0, <1>1, <1>3, <1>4 DEF CallsKnown
    <2>3. \A e \in Clients : \A j \in loops'[e] : j # 0 /\ j <= openings[e]
      BY <1>0, <1>1, <1>3, <1>5 DEF CallsKnown
    <2>. QED
      BY <1>0, <1>1, <2>1, <2>2, <2>3 DEF CallsKnown
  <1>8. \A f : Current(f)' <=> Current(f)
    BY <1>1 DEF Current
  <1>9. RelayedOnce'
    BY <1>0, <1>1, <1>8 DEF RelayedOnce
  <1>10. \A f \in Frames : heard'[c][f] = 0
    BY <1>5
  <1>11. HeardCame'
    BY <1>0, <1>1, <1>5, <1>10 DEF HeardCame
  <1>12. PlayedOnce'
    BY <1>0, <1>1, <1>5, <1>10 DEF PlayedOnce
  <1>. QED
    BY <1>7, <1>9, <1>11, <1>12 DEF PlayInv

\* The server relays a frame once: the sequence number of its slot rises.
LEMMA ServerPlays ==
    ASSUME TypedInv, PlayInv, NEW d \in up, NEW throttled, ServerReceives(d, throttled)
    PROVE  PlayInv'
  <1>0. /\ CallsKnown /\ RelayedOnce /\ HeardCame /\ PlayedOnce /\ MainTyped /\ NetTyped
        /\ d \in Ups /\ slot \in [Clients -> SlotSeq]
    BY DEF PlayInv, TypedInv, PursuitInv, NetTyped, MainTyped
  <1>1. UNCHANGED <<openings, replies, gen, loops, held, sseq, up, heard>>
    BY DEF ServerReceives, clientVars
  <1>2. /\ slot' \in [Clients -> SlotSeq] /\ slot[d.from] # <<>>
        /\ \A c \in Clients : slot'[c] # <<>> <=> slot[c] # <<>>
        /\ \A c \in Clients : slot[c] # <<>> => slot'[c][1].call = slot[c][1].call
        /\ \A c \in Clients : slot[c] # <<>> /\ c # d.from =>
               slot'[c][1].addr = slot[c][1].addr /\ slot'[c][1].seq = slot[c][1].seq
        /\ slot'[d.from][1].addr = d.call
    BY <1>0, ServerFacts
  <1>3. \/ slot'[d.from][1].seq = slot[d.from][1].seq /\ down' = down
        \/ /\ slot'[d.from][1].seq = d.seq
           /\ \/ slot[d.from][1].addr = 0 /\ d.code = "hello"
              \/ d.seq > slot[d.from][1].seq
           /\ \/ down' = down
              \/ \E s \in [Clients -> SlotSeq], R \in SUBSET Clients :
                    /\ R \subseteq Bound(s)
                    /\ down' = down \cup {Outgoing(s, r, d.code, FrameOf(d)) : r \in R}
    BY <1>0, ServerFacts
  <1>4. /\ d.from \in Clients /\ d.call \in Nat /\ d.seq \in Nat /\ d.call # 0 /\ d.call <= openings[d.from]
        /\ FrameOf(d).from = d.from /\ FrameOf(d).call = d.call /\ FrameOf(d).seq = d.seq
    BY <1>0 DEF Ups, CallsKnown, FrameOf
  <1>5. \A c \in Clients : slot[c] # <<>> => slot[c][1].seq \in Nat
    <2>1. \A c \in Clients : slot[c] # <<>> => slot[c][1] \in Slots
      BY <1>0 DEF SlotSeq
    <2>. QED
      BY <2>1 DEF Slots
  <1>6. \A c \in Clients : slot[c] # <<>> => slot'[c][1].seq \in Nat /\ slot[c][1].seq <= slot'[c][1].seq
    <2>1. slot[d.from][1].addr = 0 => slot[d.from][1].seq = 0
      BY <1>0, <1>2, <1>4 DEF CallsKnown
    <2>2. slot'[d.from][1].seq \in Nat /\ slot[d.from][1].seq <= slot'[d.from][1].seq
      BY <1>2, <1>3, <1>4, <1>5, <2>1
    <2>. QED
      BY <1>2, <1>5, <2>2
  \* What is new on its way, and what an audio frame among it is.
  <1>7. \A o \in down' : o \in down \/ /\ o.frame = FrameOf(d) /\ o.code = d.code
                                       /\ d.code = "audio" => d.seq > slot[d.from][1].seq
                                       /\ slot'[d.from][1].seq = d.seq
    <2>1. CASE down' = down
      BY <2>1
    <2>2. ASSUME NEW s \in [Clients -> SlotSeq], NEW R \in SUBSET Clients, R \subseteq Bound(s),
                 down' = down \cup {Outgoing(s, r, d.code, FrameOf(d)) : r \in R},
                 slot'[d.from][1].seq = d.seq,
                 (slot[d.from][1].addr = 0 /\ d.code = "hello") \/ d.seq > slot[d.from][1].seq
          PROVE  \A o \in down' : o \in down \/ /\ o.frame = FrameOf(d) /\ o.code = d.code
                                                /\ d.code = "audio" => d.seq > slot[d.from][1].seq
                                                /\ slot'[d.from][1].seq = d.seq
      <3>1. \A r \in R : LET o == Outgoing(s, r, d.code, FrameOf(d)) IN o.frame = FrameOf(d) /\ o.code = d.code
        BY <1>0, <2>2, SentOn
      <3>. QED
        BY <2>2, <3>1
    <2>. QED
      BY <1>3, <2>1, <2>2
  <1>8. \A o, p \in down' : o \notin down /\ p \notin down /\ o.to = p.to => o = p
    <2>1. CASE down' = down
      BY <2>1
    <2>2. ASSUME NEW s \in [Clients -> SlotSeq], NEW R \in SUBSET Clients, R \subseteq Bound(s),
                 down' = down \cup {Outgoing(s, r, d.code, FrameOf(d)) : r \in R}
          PROVE  \A o, p \in down' : o \notin down /\ p \notin down /\ o.to = p.to => o = p
      <3>1. \A r \in R : Outgoing(s, r, d.code, FrameOf(d)).to = r
        BY <1>0, <2>2, SentOn
      <3>. QED
        BY <2>2, <3>1
    <2>. QED
      BY <1>3, <2>1, <2>2
  <1>9. down \subseteq down'
    BY <1>3
  <1>10. \A f : f.from \in Clients => (Current(f)' <=> Current(f))
    BY <1>2 DEF Current
  <1>11. \A o \in down : o.frame.from \in Clients /\ o.frame.seq \in Nat
    BY <1>0 DEF NetTyped, Downs, FrameNames
  <1>12. RelayedOnce'
    <2>1. ASSUME NEW o \in down', o.code = "audio", Current(o.frame)'
          PROVE  o.frame.seq <= slot'[o.frame.from][1].seq
      <3>1. CASE o \in down
        <4>1. Current(o.frame)
          BY <1>10, <1>11, <2>1, <3>1
        <4>2. o.frame.seq <= slot[o.frame.from][1].seq /\ slot[o.frame.from] # <<>>
          BY <1>0, <2>1, <3>1, <4>1 DEF RelayedOnce, Current
        <4>. QED
          BY <1>5, <1>6, <1>11, <3>1, <4>2
      <3>2. CASE o \notin down
        <4>1. o.frame = FrameOf(d) /\ slot'[d.from][1].seq = d.seq
          BY <1>7, <3>2
        <4>. QED
          BY <1>4, <4>1
      <3>. QED
        BY <3>1, <3>2
    <2>2. ASSUME NEW o \in down', NEW p \in down, o \notin down, o.code = "audio", p.code = "audio",
                 o.frame = p.frame, Current(p.frame)
          PROVE  FALSE
      <3>1. p.frame = FrameOf(d) /\ d.seq > slot[d.from][1].seq
        BY <1>7, <2>2
      <3>2. p.frame.seq <= slot[p.frame.from][1].seq
        BY <1>0, <2>2 DEF RelayedOnce
      <3>. QED
        BY <1>2, <1>4, <1>5, <3>1, <3>2
    <2>3. ASSUME NEW o \in down', NEW p \in down', o.code = "audio", p.code = "audio", o.to = p.to,
                 o.frame = p.frame, Current(o.frame)'
          PROVE  o = p
      <3>1. o.frame.from \in Clients
        BY <1>4, <1>7, <1>11
      <3>2. Current(o.frame)
        BY <1>10, <2>3, <3>1
      <3>3. CASE o \in down /\ p \in down
        BY <1>0, <2>3, <3>2, <3>3 DEF RelayedOnce
      <3>4. CASE o \notin down /\ p \notin down
        BY <1>8, <2>3, <3>4
      <3>5. CASE o \notin down /\ p \in down
        BY <2>2, <2>3, <3>2, <3>5
      <3>6. CASE o \in down /\ p \notin down
        BY <2>2, <2>3, <3>2, <3>6
      <3>. QED
        BY <3>3, <3>4, <3>5, <3>6
    <2>. QED
      BY <2>1, <2>3 DEF RelayedOnce
  <1>13. HeardCame'
    BY <1>0, <1>1, <1>9 DEF HeardCame
  <1>14. PlayedOnce'
    <2>1. \A f \in Frames : f.from \in Clients
      BY VoiceAssumption DEF Frames
    <2>. QED
      BY <1>0, <1>1, <1>10, <2>1 DEF PlayedOnce, Current
  <1>15. CallsKnown'
    <2>1. \A c \in Clients : slot'[c] # <<>> =>
              slot'[c][1].call <= openings[c] /\ (slot'[c][1].addr = 0 => slot'[c][1].seq = 0)
      BY <1>0, <1>2, <1>4 DEF CallsKnown
    <2>2. \A o \in down' : o.frame.call <= openings[o.frame.from]
      BY <1>0, <1>4, <1>7 DEF CallsKnown
    <2>. QED
      BY <1>0, <1>1, <2>1, <2>2 DEF CallsKnown
  <1>. QED
    BY <1>12, <1>13, <1>14, <1>15 DEF PlayInv

\* The client plays a frame once: its own count of the server's datagrams rises.
LEMMA ClientPlays ==
    ASSUME TypedInv, PlayInv, NEW d \in down, NEW sounds \in BOOLEAN, ClientReceives(d.to, d, sounds)
    PROVE  PlayInv'
  <1> PICK c : c = d.to
    OBVIOUS
  <1>0. /\ CallsKnown /\ RelayedOnce /\ HeardCame /\ PlayedOnce /\ MainTyped /\ NetTyped
        /\ d \in Downs
    BY DEF PlayInv, TypedInv, PursuitInv, NetTyped
  <1>1. c \in Clients /\ d.seq \in Nat /\ sseq[c] \in Nat
    BY <1>0 DEF Downs, NetTyped
  <1>2. /\ d.call \in loops[c] /\ d.seq > sseq[c]
        /\ sseq' = [sseq EXCEPT ![c] = d.seq]
        /\ heard' = (IF sounds /\ d.code = "audio" THEN [heard EXCEPT ![c][d.frame] = @ + 1] ELSE heard)
        /\ UNCHANGED <<slot, openings, replies, gen, loops, held, down>>
    BY DEF ClientReceives, serverVars
  <1>3. \/ up' = up
        \/ up' = up \cup {[from |-> c, call |-> d.call, seq |-> seq[c] + 1, code |-> "pong", to |-> d.frame.from]}
    BY DEF ClientReceives
  <1>4. CallsKnown'
    <2> DEFINE p == [from |-> c, call |-> d.call, seq |-> seq[c] + 1, code |-> "pong", to |-> d.frame.from]
    <2>1. p.call # 0 /\ p.call <= openings[p.from]
      BY <1>0, <1>1, <1>2 DEF CallsKnown
    <2> HIDE DEF p
    <2>2. \A e \in up' : e.call # 0 /\ e.call <= openings[e.from]
      BY <1>0, <1>3, <2>1 DEF CallsKnown, p
    <2>. QED
      BY <1>0, <1>2, <2>2 DEF CallsKnown
  <1>5. \A f : Current(f)' <=> Current(f)
    BY <1>2 DEF Current
  <1>6. RelayedOnce'
    BY <1>0, <1>2, <1>5 DEF RelayedOnce
  <1>7. sseq'[c] = d.seq /\ \A e \in Clients : e # c => sseq'[e] = sseq[e]
    BY <1>0, <1>1, <1>2 DEF NetTyped
  <1>8. heard \in [Clients -> [Frames -> Nat]]
    BY <1>0 DEF NetTyped
  <1>9. ASSUME NEW e \in Clients, NEW f \in Frames
        PROVE  \/ heard'[e][f] = heard[e][f]
               \/ e = c /\ f = d.frame /\ d.code = "audio" /\ heard'[e][f] = heard[e][f] + 1
    <2>1. CASE sounds /\ d.code = "audio"
      <3> DEFINE h == [heard[c] EXCEPT ![d.frame] = heard[c][d.frame] + 1]
      <3>1. heard' = [heard EXCEPT ![c] = h]
        BY <1>2, <2>1
      <3>2. heard[c] \in [Frames -> Nat]
        BY <1>1, <1>8
      <3>3. h[f] = IF f = d.frame THEN heard[c][f] + 1 ELSE heard[c][f]
        BY <3>2
      <3> HIDE DEF h
      <3>4. heard'[e] = IF e = c THEN h ELSE heard[e]
        BY <1>1, <1>8, <3>1
      <3>. QED
        BY <2>1, <3>3, <3>4
    <2>2. CASE ~(sounds /\ d.code = "audio")
      BY <1>2, <2>2
    <2>. QED
      BY <2>1, <2>2
  <1>10. HeardCame'
    <2> SUFFICES ASSUME NEW e \in Clients, NEW f \in Frames, heard'[e][f] # 0
                 PROVE  \E o \in down : o.code = "audio" /\ o.to = e /\ o.frame = f /\ o.seq <= sseq'[e]
      BY <1>2 DEF HeardCame
    <2>1. CASE heard'[e][f] = heard[e][f]
      <3>1. PICK o \in down : o.code = "audio" /\ o.to = e /\ o.frame = f /\ o.seq <= sseq[e]
        BY <1>0, <2>1 DEF HeardCame
      <3>2. o.seq \in Nat /\ sseq[e] \in Nat
        BY <1>0 DEF NetTyped, Downs
      <3>3. o.seq <= sseq'[e]
        BY <1>1, <1>2, <1>7, <3>1, <3>2
      <3>. QED
        BY <3>1, <3>3
    <2>2. CASE e = c /\ f = d.frame /\ d.code = "audio"
      BY <1>1, <1>7, <2>2
    <2>. QED
      BY <1>9, <2>1, <2>2
  <1>11. PlayedOnce'
    <2> SUFFICES ASSUME NEW e \in Clients, NEW f \in Frames, Current(f)
                 PROVE  heard'[e][f] <= 1
      BY <1>2 DEF PlayedOnce, Current
    <2>1. heard[e][f] <= 1 /\ heard[e][f] \in Nat
      BY <1>0, <1>8 DEF PlayedOnce, Current
    <2>2. CASE e = c /\ f = d.frame /\ d.code = "audio" /\ heard'[e][f] = heard[e][f] + 1
      \* The one datagram with this frame has just come, so none came before.
      <3>1. CASE heard[e][f] # 0
        <4>1. PICK o \in down : o.code = "audio" /\ o.to = e /\ o.frame = f /\ o.seq <= sseq[e]
          BY <1>0, <3>1 DEF HeardCame
        <4>2. o = d
          BY <1>0, <2>2, <4>1 DEF RelayedOnce
        <4>. QED
          BY <1>1, <1>2, <2>2, <4>1, <4>2
      <3>. QED
        BY <2>1, <2>2, <3>1
    <2>. QED
      BY <1>9, <2>1, <2>2
  <1>. QED
    BY <1>4, <1>6, <1>10, <1>11 DEF PlayInv

\* VoiceRelay, any number of clients, channels and frames: as long as speaker and
\* listener stay in their calls no frame is played twice, however the network repeats
\* and reorders the datagrams of the two hops.
THEOREM PlaysOnce == VoiceSpec => []PlayedOnce
  <1>1. VoiceInit => TypedInv /\ PlayInv
    <2> SUFFICES ASSUME VoiceInit PROVE PlayInv
      BY VoiceBegins
    <2>1. /\ \A c \in Clients : /\ gen[c] = 0 /\ loops[c] = {} /\ replies[c] = <<>> /\ slot[c] = <<>>
                                /\ openings[c] = 0 /\ \A t \in Senders : held[c][t] = 0
          /\ up = {} /\ down = {}
      BY DEF VoiceInit
    <2>2. Within(<<>>, 0)
      BY DEF Within
    <2>3. CallsKnown
      BY <2>1, <2>2 DEF CallsKnown
    <2>4. \A c \in Clients, f \in Frames : heard[c][f] = 0
      BY DEF VoiceInit
    <2>. QED
      BY <2>1, <2>3, <2>4 DEF PlayInv, RelayedOnce, HeardCame, PlayedOnce
  <1>2. TypedInv /\ PlayInv /\ [VoiceNext]_voiceVars => TypedInv' /\ PlayInv'
    <2> SUFFICES ASSUME TypedInv, PlayInv, [VoiceNext]_voiceVars PROVE PlayInv'
      BY VoiceTyped
    <2>1. CASE VoiceNext
      <3>1. "audio" \in Senders
        BY DEF Senders
      <3>. QED
        BY <2>1, <3>1, VoiceAssumption, QuietSteps, RequestPlays, JoinedPlays, ServerPlays, ClientPlays
           DEF VoiceNext
    <2>2. CASE UNCHANGED voiceVars
      <3>1. UNCHANGED <<slot, openings, replies, gen, loops, held, sseq, up, down, heard>>
        BY <2>2 DEF voiceVars
      <3>2. CallsKnown'
        BY <3>1 DEF PlayInv, CallsKnown
      <3>. QED
        BY <3>1, <3>2, SameRelay
    <2>. QED
      BY <2>1, <2>2
  <1>3. PlayInv => PlayedOnce
    BY DEF PlayInv
  <1>. QED
    BY <1>1, <1>2, <1>3, PTL DEF VoiceSpec

-----------------------------------------------------------------------------
(* LobbyPane: the records that pages are cut from.                         *)

\* Ids rise along a sequence.
Climbs(s) == \A i, j \in DOMAIN s : i < j => s[i].id < s[j].id

\* What t holds was in s, or is newer than all that had an id below n.
Later(t, s, n) == \A i \in DOMAIN t : n <= t[i].id \/ \E k \in DOMAIN s : s[k] = t[i]

\* Nothing kept has the id.
Forgotten(s, id) == \A i \in DOMAIN s : s[i].id # id

StoreInv ==
    /\ records \in Seq(H!Record) /\ next \in Nat /\ said \in Nat
    /\ op \in [Sessions -> H!Op \cup {None}]
    /\ Climbs(records) /\ \A i \in DOMAIN records : records[i].id < next
    /\ \A s \in Sessions : op[s] # None =>
          /\ op[s].id < next
          /\ op[s].do = "untell" => Forgotten(records, op[s].id)

\* Vec::remove.
LEMMA WithoutIs ==
    ASSUME NEW S, NEW s \in Seq(S), NEW k \in DOMAIN s
    PROVE  /\ H!Without(s, k) \in Seq(S) /\ Len(H!Without(s, k)) = Len(s) - 1
           /\ DOMAIN H!Without(s, k) = 1..Len(s) - 1
           /\ \A i \in 1..Len(s) - 1 : H!Without(s, k)[i] = IF i < k THEN s[i] ELSE s[i + 1]
  <1> DEFINE t == H!Without(s, k)
  <1>1. Len(s) \in Nat /\ Len(s) >= 1 /\ DOMAIN s = 1..Len(s) /\ k \in 1..Len(s)
    BY LenProperties
  <1>2. \A i \in 1..Len(s) : s[i] \in S
    BY ElementOfSeq
  <1>3. t = [i \in 1..Len(s) - 1 |-> IF i < k THEN s[i] ELSE s[i + 1]]
    BY DEF H!Without
  <1>4. t \in [1..Len(s) - 1 -> S]
    BY <1>1, <1>2, <1>3
  <1>5. Len(s) - 1 \in Nat
    BY <1>1
  <1>6. t \in Seq(S)
    BY <1>4, <1>5, SeqDef
  <1>7. Len(t) = Len(s) - 1 /\ DOMAIN t = 1..Len(s) - 1
    BY <1>4, <1>5, <1>6, LenProperties
  <1>. QED
    BY <1>3, <1>6, <1>7

\* The newest of a sequence.
LEMMA NewestIs ==
    ASSUME NEW S, NEW s \in Seq(S), NEW n \in Nat
    PROVE  /\ H!Newest(s, n) \in Seq(S)
           /\ Len(H!Newest(s, n)) = IF Len(s) <= n THEN Len(s) ELSE n
           /\ \A i \in 1..Len(H!Newest(s, n)) :
                H!Newest(s, n)[i] = s[i + (Len(s) - Len(H!Newest(s, n)))]
           /\ Len(s) <= n => H!Newest(s, n) = s
  <1>1. Len(s) \in Nat /\ DOMAIN s = 1..Len(s)
    BY LenProperties
  <1>2. CASE Len(s) <= n
    <2>1. H!Newest(s, n) = s
      BY <1>2 DEF H!Newest
    <2>. QED
      BY <1>1, <1>2, <2>1
  <1>3. CASE ~ (Len(s) <= n)
    <2> DEFINE t == SubSeq(s, Len(s) - n + 1, Len(s))
    <2>1. H!Newest(s, n) = t
      BY <1>3 DEF H!Newest
    <2>2. t \in Seq(S) /\ Len(t) = n /\ DOMAIN t = 1..n
      BY <1>1, <1>3, SubSeqProperties
    <2>3. \A i \in 1..n : t[i] = s[i + (Len(s) - n)]
      BY <1>1, <1>3, <2>2, SubSeqProperties
    <2>. HIDE DEF t
    <2>. QED
      BY <1>3, <2>1, <2>2, <2>3
  <1>. QED
    BY <1>2, <1>3

\* The fields of the records.
LEMMA RecordFields ==
    ASSUME NEW s \in Seq(H!Record), NEW i \in DOMAIN s
    PROVE  s[i].id \in Nat /\ s[i].msg \in Nat /\ i \in 1..Len(s) /\ Len(s) \in Nat
  <1>1. DOMAIN s = 1..Len(s) /\ Len(s) \in Nat
    BY LenProperties
  <1>2. s[i] \in H!Record
    BY <1>1, ElementOfSeq
  <1>. QED
    BY <1>1, <1>2 DEF H!Record

\* delete: the id that was looked up is removed.
LEMMA DeleteStores ==
    ASSUME StoreInv, NEW s \in Sessions, H!Delete(s)
    PROVE  StoreInv' /\ next' = next /\ Later(records', records, next)
  <1>0. /\ records \in Seq(H!Record) /\ next \in Nat /\ said \in Nat
        /\ op \in [Sessions -> H!Op \cup {None}]
        /\ Climbs(records) /\ \A i \in DOMAIN records : records[i].id < next
        /\ \A x \in Sessions : op[x] # None =>
              /\ op[x].id < next
              /\ op[x].do = "untell" => Forgotten(records, op[x].id)
    BY DEF StoreInv
  <1>1. /\ op[s] # None /\ next' = next /\ said' = said
        /\ \/ op' = [op EXCEPT ![s] = None] /\ records' = records
           \/ \E i \in H!find(op[s].id) :
                /\ records' = H!Without(records, i)
                /\ op' = [op EXCEPT ![s] = [do |-> "untell", id |-> op[s].id, msg |-> op[s].msg]]
    BY DEF H!Delete, H!Done, H!Begin
  <1>2. CASE op' = [op EXCEPT ![s] = None] /\ records' = records
    BY <1>0, <1>1, <1>2 DEF StoreInv, Later
  <1>3. ASSUME NEW i \in H!find(op[s].id), records' = H!Without(records, i),
               op' = [op EXCEPT ![s] = [do |-> "untell", id |-> op[s].id, msg |-> op[s].msg]]
        PROVE  StoreInv' /\ Later(records', records, next)
    <2>1. i \in DOMAIN records /\ records[i].id = op[s].id
      BY DEF H!find
    <2>2. /\ records' \in Seq(H!Record) /\ DOMAIN records' = 1..Len(records) - 1
          /\ \A k \in DOMAIN records' : records'[k] = IF k < i THEN records[k] ELSE records[k + 1]
      <3>1. /\ H!Without(records, i) \in Seq(H!Record) /\ DOMAIN H!Without(records, i) = 1..Len(records) - 1
            /\ \A k \in 1..Len(records) - 1 :
                  H!Without(records, i)[k] = IF k < i THEN records[k] ELSE records[k + 1]
        BY <1>0, <2>1, WithoutIs
      <3>. QED
        BY <1>3, <3>1, Zenon
    <2>3. Len(records) \in Nat /\ DOMAIN records = 1..Len(records)
      BY <1>0, LenProperties
    <2>4. \A k \in DOMAIN records : records[k].id \in Nat
      BY <1>0, RecordFields
    <2> DEFINE f(k) == IF k < i THEN k ELSE k + 1
    <2>5. \A k \in DOMAIN records' : f(k) \in DOMAIN records /\ records'[k] = records[f(k)] /\ f(k) # i
      BY <2>1, <2>2, <2>3
    <2>6. \A k, l \in DOMAIN records' : k < l => f(k) < f(l)
      BY <2>1, <2>2, <2>3
    <2>7. Climbs(records')
      BY <1>0, <2>5, <2>6 DEF Climbs
    <2>8. \A k \in DOMAIN records : k # i => records[k].id # op[s].id
      <3>1. \A k \in DOMAIN records : k # i => k < i \/ i < k
        BY <2>1, <2>3
      <3>. QED
        BY <1>0, <2>1, <2>4, <3>1 DEF Climbs
    <2>9. \A x \in Sessions : op[x] # None /\ op[x].do = "untell" => Forgotten(records', op[x].id)
      BY <1>0, <2>5 DEF Forgotten
    <2>10. Forgotten(records', op[s].id)
      BY <2>5, <2>8 DEF Forgotten
    <2>11. \A k \in DOMAIN records' : records'[k].id < next
      BY <1>0, <2>5
    <2>12. Later(records', records, next)
      BY <2>5 DEF Later
    <2> HIDE DEF f
    <2> DEFINE o == [do |-> "untell", id |-> op[s].id, msg |-> op[s].msg]
    <2>13. o \in H!Op /\ o.id = op[s].id
      BY <1>0, <1>1 DEF H!Op
    <2>14. op' = [op EXCEPT ![s] = o]
      BY <1>3
    <2> HIDE DEF o
    <2>15. \A x \in Sessions : op'[x] = IF x = s THEN o ELSE op[x]
      BY <1>0, <2>14
    <2>16. op' \in [Sessions -> H!Op \cup {None}]
      BY <1>0, <2>13, <2>14
    <2>17. \A x \in Sessions : op'[x] # None =>
              /\ op'[x].id < next
              /\ op'[x].do = "untell" => Forgotten(records', op'[x].id)
      BY <1>0, <1>1, <2>9, <2>10, <2>13, <2>15
    <2>. QED
      BY <1>0, <1>1, <2>2, <2>7, <2>11, <2>12, <2>16, <2>17 DEF StoreInv
  <1>. QED
    BY <1>1, <1>2, <1>3

\* A handler goes on, and the records are thinned or grow by a new one.
LEMMA HandlerStores ==
    ASSUME StoreInv, NEW s \in Sessions, NEW o, op' = [op EXCEPT ![s] = o],
           o # None => o \in H!Op /\ o.id < next' /\ o.do # "untell",
           next' \in Nat, said' \in Nat, next <= next', records' \in Seq(H!Record),
           Climbs(records'), \A i \in DOMAIN records' : records'[i].id < next',
           Later(records', records, next)
    PROVE  StoreInv'
  <1>0. /\ next \in Nat /\ op \in [Sessions -> H!Op \cup {None}]
        /\ \A x \in Sessions : op[x] # None =>
              /\ op[x].id < next
              /\ op[x].do = "untell" => Forgotten(records, op[x].id)
    BY DEF StoreInv
  <1>1. op' \in [Sessions -> H!Op \cup {None}] /\ \A x \in Sessions : op'[x] = IF x = s THEN o ELSE op[x]
    BY <1>0
  <1>2. ASSUME NEW x \in Sessions, op'[x] # None
        PROVE  op'[x].id < next' /\ (op'[x].do = "untell" => Forgotten(records', op'[x].id))
    <2>1. CASE x = s
      BY <1>1, <1>2, <2>1
    <2>2. CASE x # s
      <3>1. op'[x] = op[x] /\ op[x] \in H!Op
        BY <1>0, <1>1, <1>2, <2>2
      <3>2. op[x].id \in Nat /\ op[x].id < next
        BY <1>0, <1>2, <3>1 DEF H!Op
      <3>3. ASSUME Forgotten(records, op[x].id)
            PROVE  Forgotten(records', op[x].id)
        <4>1. \A i \in DOMAIN records' : records'[i].id \in Nat
          BY RecordFields
        <4>. QED
          BY <1>0, <3>2, <3>3, <4>1 DEF Forgotten, Later
      <3>. QED
        BY <1>0, <1>2, <3>1, <3>2, <3>3
    <2>. QED
      BY <2>1, <2>2
  <1>. QED
    BY <1>1, <1>2 DEF StoreInv

\* push: the new record has the next id, and the oldest are trimmed.
LEMMA SayStores ==
    ASSUME StoreInv, NEW s \in Sessions, NEW limit \in Limits, H!Say(s, FALSE, limit)
    PROVE  StoreInv' /\ next <= next' /\ Later(records', records, next)
  <1>0. /\ records \in Seq(H!Record) /\ next \in Nat /\ said \in Nat
        /\ op \in [Sessions -> H!Op \cup {None}]
        /\ Climbs(records) /\ \A i \in DOMAIN records : records[i].id < next
    BY DEF StoreInv
  <1>l. limit \in Nat
    BY LobbyAssumption
  <1> DEFINE o == [do |-> "tell", id |-> next, msg |-> said]
  <1>1. PICK r : /\ r = [id |-> next, msg |-> said, author |-> s, media |-> FALSE,
                         reply  |-> IF H!Replying(s) THEN op[s].id ELSE None,
                         target |-> IF H!Replying(s) THEN op[s].msg ELSE None,
                         hearts |-> {}, edited |-> FALSE, pinned |-> FALSE]
                 /\ records' = IF limit = 0 THEN records ELSE H!Newest(Append(records, r), limit)
    BY DEF H!Say
  <1>2. said' = said + 1 /\ next' = next + 1 /\ op' = [op EXCEPT ![s] = o]
    BY DEF H!Say, H!Begin
  <1>3. H!Replying(s) => op[s] \in H!Op /\ op[s].id \in Nat /\ op[s].msg \in Nat
    BY <1>0 DEF H!Replying, H!Op
  <1>4. r \in H!Record /\ r.id = next
    BY <1>0, <1>1, <1>3 DEF H!Record
  <1>5. o \in H!Op /\ o.id = next /\ o.do # "untell"
    BY <1>0 DEF H!Op
  <1>. HIDE DEF o
  <1>6. Len(records) \in Nat /\ DOMAIN records = 1..Len(records)
    BY <1>0, LenProperties
  <1>7. \A i \in DOMAIN records : records[i].id \in Nat
    BY <1>0, RecordFields
  <1>8. PICK t : t = Append(records, r)
    OBVIOUS
  <1>9. /\ t \in Seq(H!Record) /\ Len(t) = Len(records) + 1 /\ DOMAIN t = 1..Len(records) + 1
        /\ \A i \in 1..Len(records) : t[i] = records[i]
        /\ t[Len(records) + 1] = r
    BY <1>0, <1>4, <1>6, <1>8, AppendProperties, LenProperties
  <1>10. /\ Climbs(t) /\ \A i \in DOMAIN t : t[i].id < next + 1
         /\ \A i \in DOMAIN t : next <= t[i].id \/ (t[i] = records[i] /\ i \in DOMAIN records)
    <2>1. \A i \in DOMAIN t : \/ i \in DOMAIN records /\ t[i] = records[i]
                              \/ i = Len(records) + 1 /\ t[i].id = next
      BY <1>4, <1>6, <1>9
    <2>. QED
      BY <1>0, <1>6, <1>7, <2>1 DEF Climbs
  <1>11. /\ records' \in Seq(H!Record) /\ Climbs(records')
         /\ \A i \in DOMAIN records' : records'[i].id < next'
         /\ Later(records', records, next)
    <2>1. CASE limit = 0
      <3>1. records' = records
        BY <1>1, <2>1
      <3>. QED
        BY <1>0, <1>2, <1>7, <3>1 DEF Later
    <2>2. CASE limit # 0
      <3>1. records' = H!Newest(t, limit)
        BY <1>1, <1>8, <2>2
      <3>2. /\ records' \in Seq(H!Record) /\ Len(records') = IF Len(t) <= limit THEN Len(t) ELSE limit
            /\ \A i \in 1..Len(records') : records'[i] = t[i + (Len(t) - Len(records'))]
        <4>1. /\ H!Newest(t, limit) \in Seq(H!Record)
              /\ Len(H!Newest(t, limit)) = IF Len(t) <= limit THEN Len(t) ELSE limit
              /\ \A i \in 1..Len(H!Newest(t, limit)) :
                    H!Newest(t, limit)[i] = t[i + (Len(t) - Len(H!Newest(t, limit)))]
          BY <1>l, <1>9, NewestIs
        <4>. QED
          BY <3>1, <4>1, Zenon
      <3>3. DOMAIN records' = 1..Len(records') /\ Len(records') \in Nat /\ Len(t) - Len(records') \in Nat
        BY <1>l, <1>6, <1>9, <3>2, LenProperties
      <3> DEFINE d == Len(t) - Len(records')
      <3>4. \A i \in DOMAIN records' : i + d \in DOMAIN t /\ records'[i] = t[i + d]
        BY <1>6, <1>9, <3>2, <3>3
      <3>5. \A i, j \in DOMAIN records' : i < j => i + d < j + d
        BY <3>3
      <3>. HIDE DEF d
      <3>6. Climbs(records')
        BY <1>10, <3>4, <3>5 DEF Climbs
      <3>7. \A i \in DOMAIN records' : records'[i].id < next'
        BY <1>2, <1>10, <3>4
      <3>8. Later(records', records, next)
        BY <1>10, <3>4 DEF Later
      <3>. QED
        BY <3>2, <3>6, <3>7, <3>8
    <2>. QED
      BY <2>1, <2>2
  <1>12. next' \in Nat /\ said' \in Nat /\ next <= next' /\ (o # None => o \in H!Op /\ o.id < next' /\ o.do # "untell")
    BY <1>0, <1>2, <1>5
  <1>. QED
    BY <1>2, <1>11, <1>12, HandlerStores

\* The steps of the server that keep the next id or raise it.
LEMMA ServerStores ==
    ASSUME StoreInv, NEW s \in Sessions, Store(s) \/ Tell(s)
    PROVE  StoreInv' /\ next <= next' /\ Later(records', records, next)
  <1>0. /\ records \in Seq(H!Record) /\ next \in Nat /\ said \in Nat
        /\ op \in [Sessions -> H!Op \cup {None}]
        /\ Climbs(records) /\ \A i \in DOMAIN records : records[i].id < next
    BY DEF StoreInv
  <1>r. \A i \in DOMAIN records : records[i].id \in Nat /\ records[i].msg \in Nat
    BY <1>0, RecordFields
  <1>l. Later(records, records, next)
    BY DEF Later
  <1>1. CASE H!CheckDelete(s)
    <2>1. PICK i \in DOMAIN records : op' = [op EXCEPT ![s] = [do |-> "delete", id |-> records[i].id, msg |-> records[i].msg]]
      BY <1>1 DEF H!CheckDelete, H!Begin
    <2>2. UNCHANGED <<records, next, said>>
      BY <1>1 DEF H!CheckDelete
    <2> DEFINE o == [do |-> "delete", id |-> records[i].id, msg |-> records[i].msg]
    <2>3. o \in H!Op /\ o.id < next /\ o.do # "untell"
      BY <1>0, <1>r DEF H!Op
    <2>4. op' = [op EXCEPT ![s] = o]
      BY <2>1
    <2>. HIDE DEF o
    <2>6. /\ next' \in Nat /\ said' \in Nat /\ next <= next' /\ records' \in Seq(H!Record)
          /\ Climbs(records') /\ \A k \in DOMAIN records' : records'[k].id < next'
          /\ Later(records', records, next)
          /\ o # None => o \in H!Op /\ o.id < next' /\ o.do # "untell"
      BY <1>0, <1>l, <2>2, <2>3
    <2>5. StoreInv'
      BY <2>4, <2>6, HandlerStores
    <2>. QED
      BY <1>0, <1>l, <2>2, <2>5
  <1>2. CASE H!Delete(s)
    BY <1>0, <1>2, DeleteStores
  <1>3. CASE H!SayUnkept(s)
    <2>1. op' = [op EXCEPT ![s] = None] /\ next' = next + 1 /\ said' = said + 1 /\ records' = records
      BY <1>3 DEF H!SayUnkept, H!Done
    <2>2. next' \in Nat /\ said' \in Nat /\ next <= next' /\ \A i \in DOMAIN records' : records'[i].id < next'
      BY <1>0, <1>r, <2>1
    <2>3. StoreInv'
      BY <1>0, <1>l, <2>1, <2>2, HandlerStores
    <2>. QED
      BY <1>l, <2>1, <2>2, <2>3
  <1>4. CASE \E limit \in Limits : H!Say(s, FALSE, limit)
    BY <1>4, SayStores
  <1>5. CASE H!Tell(s)
    <2>1. op' = [op EXCEPT ![s] = None] /\ next' = next /\ said' = said /\ records' = records
      BY <1>5 DEF H!Tell, H!Done
    <2>2. /\ next' \in Nat /\ said' \in Nat /\ next <= next' /\ records' \in Seq(H!Record)
          /\ Climbs(records') /\ \A k \in DOMAIN records' : records'[k].id < next'
          /\ Later(records', records, next)
      BY <1>0, <1>l, <2>1
    <2>3. StoreInv'
      BY <2>1, <2>2, HandlerStores
    <2>. QED
      BY <1>0, <1>l, <2>1, <2>3
  <1>. QED
    BY <1>1, <1>2, <1>3, <1>4, <1>5 DEF Store, Tell

\* A restart goes on above the ids that are kept, and ends the handlers.
LEMMA RestartStores ==
    ASSUME StoreInv, H!Restart
    PROVE  StoreInv'
  <1>0. /\ records \in Seq(H!Record) /\ said \in Nat /\ Climbs(records)
    BY DEF StoreInv
  <1>1. /\ records' = records \/ records' = <<>>
        /\ next' = H!continue(records') /\ said' = said
        /\ op' = [s \in Sessions |-> None]
    BY DEF H!Restart
  <1>2. records' \in Seq(H!Record) /\ Climbs(records')
    <2>1. <<>> \in Seq(H!Record) /\ DOMAIN <<>> = {}
      BY EmptySeq
    <2>2. Climbs(<<>>)
      BY <2>1 DEF Climbs
    <2>. QED
      BY <1>0, <1>1, <2>1, <2>2
  <1>3. /\ Len(records') \in Nat /\ DOMAIN records' = 1..Len(records')
        /\ records' # <<>> => Len(records') >= 1
    BY <1>2, LenProperties, EmptySeq
  <1>4. \A i \in DOMAIN records' : records'[i].id \in Nat
    BY <1>2, RecordFields
  <1>5. next' \in Nat /\ \A i \in DOMAIN records' : records'[i].id < next'
    <2>1. CASE records' = <<>>
      BY <1>1, <2>1 DEF H!continue
    <2>2. CASE records' # <<>>
      <3>1. next' = records'[Len(records')].id + 1 /\ Len(records') \in DOMAIN records'
        BY <1>1, <1>3, <2>2 DEF H!continue
      <3>2. \A i \in DOMAIN records' : i < Len(records') \/ i = Len(records')
        BY <1>3
      <3>. QED
        BY <1>2, <1>4, <3>1, <3>2 DEF Climbs
    <2>. QED
      BY <2>1, <2>2
  <1>6. op' \in [Sessions -> H!Op \cup {None}] /\ \A s \in Sessions : op'[s] = None
    BY <1>1
  <1>. QED
    BY <1>0, <1>1, <1>2, <1>5, <1>6 DEF StoreInv

-----------------------------------------------------------------------------
(* LobbyPane: the pane and the pages on their way to it.                   *)

\* An entry of a page.
Replay == [kind : {"replay"}, id : Nat, msg : Nat]

\* The replayed entries of a pane.
Rep(p) == {i \in DOMAIN p : p[i].kind = "replay"}

Ordered(p, a) ==
    /\ \A i, j \in Rep(p) : i < j => p[i].id < p[j].id
    /\ a # None => \A i \in Rep(p) : a < i

\* The replayed entries of a pane are not older than an id.
NotBelow(p, b) == \A i \in Rep(p) : b <= p[i].id

\* What is kept of the ids from lo to hi is replayed in a pane or a page.
Covers(r, p, lo, hi) ==
    \A i \in DOMAIN r : lo <= r[i].id /\ r[i].id < hi =>
        \E k \in Rep(p) : p[k].id = r[i].id /\ p[k].msg = r[i].msg

\* A page of records r: what it replays rises, begins at start, and is all
\* there is from there to hi.
PageIs(p, r, n, hi) ==
    /\ p.entries \in Seq(Replay) /\ p.start \in Nat /\ p.start <= n
    /\ p.more \in BOOLEAN /\ p.older \in BOOLEAN
    /\ Climbs(p.entries)
    /\ p.entries # <<>> => p.start = p.entries[1].id
    /\ p.entries = <<>> => p.older /\ ~p.more
    /\ Covers(r, p.entries, p.start, hi)

NoPage(older) == \A p \in net : p.kind = "history" => p.older # older

\* The newest page has not come.
Blank == anchor = None /\ cursor = None /\ ~pending /\ Rep(pane) = {}

LinkInv ==
    /\ live \in BOOLEAN /\ pending \in BOOLEAN /\ lobby \in BOOLEAN
    /\ horizon \in Nat /\ horizon <= next /\ top \in Nat /\ top <= next
    /\ asked \in {<<>>, <<None>>, <<top>>} /\ cursor \in {None, top}

\* One page is asked for or on its way at a time, the newest one first.
TurnInv ==
    /\ ~live => asked = <<>> /\ net = {}
    /\ asked = <<None>> => NoPage(FALSE)
    /\ ~live \/ asked = <<None>> \/ ~NoPage(FALSE) => Blank
    /\ asked = <<top>> => pending /\ NoPage(TRUE)
    /\ ~pending => NoPage(TRUE)
    /\ \A p, q \in net : p.kind = "history" /\ q.kind = "history" /\ p.older = q.older => p = q

NetInv ==
    \A p \in net :
        /\ p.kind \in {"message", "deleted", "history"}
        /\ p.kind = "message" => p.id \in Nat /\ p.msg \in Nat
        /\ p.kind = "deleted" => p.id \in Nat /\ p.id < next /\ Forgotten(records, p.id)
        /\ p.kind = "history" =>
              /\ PageIs(p, records, next, IF p.older THEN top ELSE horizon)
              /\ p.older => \A k \in DOMAIN p.entries : p.entries[k].id < top

PaneInv ==
    /\ pane \in Seq(Entry) /\ Len(pane) <= PaneLimit
    /\ anchor \in 0..Len(pane) \cup {None} /\ (anchor = None => cursor = None)
    /\ Ordered(pane, anchor)
    /\ cursor # None \/ pending => NotBelow(pane, top)
    /\ anchor # None => Covers(records, pane, top, horizon)

LobbyInv == StoreInv /\ LinkInv /\ TurnInv /\ NetInv /\ PaneInv

\* New records do not make a page or a pane incomplete.
LEMMA CoversLater ==
    ASSUME NEW r, NEW t \in Seq(H!Record), NEW p, NEW lo \in Nat, NEW hi \in Nat, NEW n \in Nat,
           Covers(r, p, lo, hi), Later(t, r, n), hi <= n
    PROVE  Covers(t, p, lo, hi)
  <1>1. \A i \in DOMAIN t : t[i].id \in Nat
    BY RecordFields
  <1>2. ASSUME NEW i \in DOMAIN t, lo <= t[i].id /\ t[i].id < hi
        PROVE  \E k \in Rep(p) : p[k].id = t[i].id /\ p[k].msg = t[i].msg
    <2>1. PICK k \in DOMAIN r : r[k] = t[i]
      BY <1>1, <1>2 DEF Later
    <2>. QED
      BY <1>2, <2>1 DEF Covers
  <1>. QED
    BY <1>2 DEF Covers

\* An id that is not kept does not come back.
LEMMA ForgottenLater ==
    ASSUME NEW r, NEW t \in Seq(H!Record), NEW id \in Nat, NEW n \in Nat,
           Forgotten(r, id), Later(t, r, n), id < n
    PROVE  Forgotten(t, id)
  <1>1. \A i \in DOMAIN t : t[i].id \in Nat
    BY RecordFields
  <1>. QED
    BY <1>1 DEF Forgotten, Later

\* What asked may be.
LEMMA AskedIs ==
    ASSUME NEW n \in Nat
    PROVE  <<None>> # <<n>> /\ <<None>> # <<>> /\ <<n>> # <<>> /\ <<None>>[1] = None /\ <<n>>[1] = n
  <1>1. None # n
    BY LobbyAssumption
  <1>. QED
    BY <1>1

\* The server changes what it keeps, and may tell it.
LEMMA ServerKeeps ==
    ASSUME LobbyInv, NEW s \in Sessions, Store(s) \/ Tell(s)
    PROVE  LobbyInv'
  <1>0. StoreInv /\ LinkInv /\ TurnInv /\ NetInv /\ PaneInv
    BY DEF LobbyInv
  <1>1. StoreInv' /\ next <= next' /\ Later(records', records, next)
    BY <1>0, ServerStores
  <1>2. next \in Nat /\ next' \in Nat /\ records' \in Seq(H!Record)
    BY <1>0, <1>1 DEF StoreInv
  <1>3. UNCHANGED <<client, live, asked, horizon>>
    BY DEF Store, Tell, link
  <1>4. UNCHANGED <<pane, anchor, cursor, pending, lobby, top, live, asked, horizon>>
    BY <1>3 DEF client
  <1>5. /\ horizon \in Nat /\ top \in Nat /\ horizon <= next /\ top <= next
    BY <1>0 DEF LinkInv
  <1>6. LinkInv'
    BY <1>0, <1>1, <1>2, <1>4 DEF LinkInv
  <1>7. PaneInv'
    <2>1. anchor # None => Covers(records', pane, top, horizon)
      BY <1>0, <1>1, <1>2, <1>5, CoversLater DEF PaneInv
    <2>. QED
      BY <1>0, <1>4, <2>1 DEF PaneInv
  <1>8. \A p \in net : /\ p.kind \in {"message", "deleted", "history"}
                       /\ p.kind = "message" => p.id \in Nat /\ p.msg \in Nat
                       /\ p.kind = "deleted" => p.id \in Nat /\ p.id < next' /\ Forgotten(records', p.id)
                       /\ p.kind = "history" =>
                            /\ PageIs(p, records', next', IF p.older THEN top ELSE horizon)
                            /\ p.older => \A k \in DOMAIN p.entries : p.entries[k].id < top
    <2> SUFFICES ASSUME NEW p \in net
                 PROVE  /\ p.kind \in {"message", "deleted", "history"}
                        /\ p.kind = "message" => p.id \in Nat /\ p.msg \in Nat
                        /\ p.kind = "deleted" => p.id \in Nat /\ p.id < next' /\ Forgotten(records', p.id)
                        /\ p.kind = "history" =>
                             /\ PageIs(p, records', next', IF p.older THEN top ELSE horizon)
                             /\ p.older => \A k \in DOMAIN p.entries : p.entries[k].id < top
      OBVIOUS
    <2>1. /\ p.kind \in {"message", "deleted", "history"}
          /\ p.kind = "message" => p.id \in Nat /\ p.msg \in Nat
      BY <1>0 DEF NetInv
    <2>2. ASSUME p.kind = "deleted" PROVE p.id \in Nat /\ p.id < next' /\ Forgotten(records', p.id)
      <3>1. p.id \in Nat /\ p.id < next /\ Forgotten(records, p.id)
        BY <1>0, <2>2 DEF NetInv
      <3>. QED
        BY <1>1, <1>2, <3>1, ForgottenLater
    <2>3. ASSUME p.kind = "history"
          PROVE  /\ PageIs(p, records', next', IF p.older THEN top ELSE horizon)
                 /\ p.older => \A k \in DOMAIN p.entries : p.entries[k].id < top
      <3> DEFINE hi == IF p.older THEN top ELSE horizon
      <3>1. PageIs(p, records, next, hi) /\ (p.older => \A k \in DOMAIN p.entries : p.entries[k].id < top)
        BY <1>0, <2>3 DEF NetInv
      <3>2. hi \in Nat /\ hi <= next
        BY <1>5
      <3>. HIDE DEF hi
      <3>3. p.start \in Nat /\ p.start <= next /\ Covers(records, p.entries, p.start, hi)
        BY <3>1 DEF PageIs
      <3>4. Covers(records', p.entries, p.start, hi)
        BY <1>1, <1>2, <3>2, <3>3, CoversLater
      <3>5. p.start <= next'
        BY <1>1, <1>2, <3>3
      <3>6. PageIs(p, records', next', hi)
        BY <3>1, <3>4, <3>5 DEF PageIs
      <3>. QED
        BY <3>1, <3>6 DEF hi
    <2>. QED
      BY <2>1, <2>2, <2>3
  <1>9. NetInv' /\ TurnInv'
    <2>1. CASE net' = net
      <3>1. NetInv'
        BY <1>4, <1>8, <2>1 DEF NetInv
      <3>2. TurnInv'
        BY <1>0, <1>4, <2>1 DEF TurnInv, NoPage, Blank
      <3>. QED
        BY <3>1, <3>2
    <2>2. CASE live /\ \E q : net' = net \cup {q} /\ (\/ q.kind = "message" /\ q.id \in Nat /\ q.msg \in Nat
                                             \/ /\ q.kind = "deleted" /\ q.id \in Nat /\ q.id < next'
                                                /\ Forgotten(records', q.id))
      <3>1. PICK q : net' = net \cup {q} /\ (\/ q.kind = "message" /\ q.id \in Nat /\ q.msg \in Nat
                                             \/ /\ q.kind = "deleted" /\ q.id \in Nat /\ q.id < next'
                                                /\ Forgotten(records', q.id))
        BY <2>2
      <3>2. NetInv'
        BY <1>4, <1>8, <3>1 DEF NetInv
      <3>3. \A o : NoPage(o)' <=> NoPage(o)
        BY <3>1 DEF NoPage
      <3>4. \A p1, p2 \in net' : p1.kind = "history" /\ p2.kind = "history" /\ p1.older = p2.older => p1 = p2
        BY <1>0, <3>1 DEF TurnInv
      <3>5. Blank' <=> Blank
        BY <1>4 DEF Blank
      <3>6. TurnInv'
        BY <1>0, <1>4, <2>2, <3>3, <3>4, <3>5 DEF TurnInv
      <3>. QED
        BY <3>2, <3>6
    <2>3. CASE Store(s)
      BY <2>1, <2>3 DEF Store, link
    <2>4. CASE Tell(s)
      <3>1. op[s] # None /\ op[s].do \in {"tell", "untell"} /\ records' = records /\ next' = next
        BY <2>4 DEF Tell, H!Tell
      <3>2. op[s] \in H!Op /\ (op[s].do = "untell" => Forgotten(records, op[s].id)) /\ op[s].id < next
        BY <1>0, <3>1 DEF StoreInv
      <3>3. op[s].id \in Nat /\ op[s].msg \in Nat
        BY <3>2 DEF H!Op
      <3>4. CASE ~live
        BY <2>1, <2>4, <3>4 DEF Tell
      <3>5. CASE live
        <4>1. CASE op[s].do = "tell"
          <5> DEFINE q == [kind |-> "message", id |-> op[s].id, msg |-> op[s].msg]
          <5>1. net' = net \cup {q}
            BY <2>4, <3>5, <4>1 DEF Tell
          <5>2. q.kind = "message" /\ q.id \in Nat /\ q.msg \in Nat
            BY <3>3
          <5>. HIDE DEF q
          <5>. QED
            BY <2>2, <3>5, <5>1, <5>2
        <4>2. CASE op[s].do = "untell"
          <5> DEFINE q == [kind |-> "deleted", id |-> op[s].id]
          <5>1. net' = net \cup {q}
            BY <2>4, <3>5, <4>2 DEF Tell
          <5>2. q.kind = "deleted" /\ q.id \in Nat /\ q.id < next' /\ Forgotten(records', q.id)
            BY <3>1, <3>2, <3>3, <4>2
          <5>. HIDE DEF q
          <5>. QED
            BY <2>2, <3>5, <5>1, <5>2
        <4>. QED
          BY <3>1, <4>1, <4>2
      <3>. QED
        BY <3>4, <3>5
    <2>. QED
      BY <2>3, <2>4
  <1>. QED
    BY <1>1, <1>6, <1>7, <1>9 DEF LobbyInv

\* A pane that lost the entries of some ids, or all above what it keeps: if it still
\* has an anchor, no other replayed entry is lost.
Thinned(p, a, q, b, removed) ==
    /\ q \in Seq(Entry) /\ Len(q) <= PaneLimit /\ b \in 0..Len(q) \cup {None}
    /\ Ordered(q, b)
    /\ \A i \in Rep(q) : \E j \in Rep(p) : p[j] = q[i]
    /\ b # None => a # None /\ \A j \in Rep(p) : p[j].id \notin removed => \E i \in Rep(q) : q[i] = p[j]

\* A replayed entry has an id.
LEMMA EntryFields ==
    ASSUME NEW p \in Seq(Entry), NEW i \in Rep(p)
    PROVE  p[i].id \in Nat /\ p[i].msg \in Nat /\ i \in 1..Len(p) /\ Len(p) \in Nat
  <1>1. DOMAIN p = 1..Len(p) /\ Len(p) \in Nat
    BY LenProperties
  <1>2. i \in DOMAIN p /\ p[i].kind = "replay"
    BY DEF Rep
  <1>3. p[i] \in Entry
    BY <1>1, <1>2, ElementOfSeq
  <1>4. [kind |-> "line"].kind = "line"
    OBVIOUS
  <1>5. p[i] \in [kind : {"live", "replay"}, id : Nat, msg : Nat]
    BY <1>2, <1>3, <1>4 DEF Entry
  <1>. QED
    BY <1>1, <1>2, <1>5

\* The client takes a packet, if any, and its pane is thinned.
LEMMA PaneKeeps ==
    ASSUME LobbyInv, UNCHANGED <<records, next, op, said, live, asked, horizon, pending, top>>,
           lobby' \in BOOLEAN, net' \subseteq net,
           NEW removed, \A id \in removed : Forgotten(records, id),
           Thinned(pane, anchor, pane', anchor', removed),
           cursor' \in {cursor, None}, anchor' = None => cursor' = None
    PROVE  LobbyInv'
  <1>0. StoreInv /\ LinkInv /\ TurnInv /\ NetInv /\ PaneInv
    BY DEF LobbyInv
  <1>1. StoreInv'
    BY <1>0 DEF StoreInv
  <1>2. LinkInv'
    BY <1>0 DEF LinkInv
  <1>3. NetInv'
    BY <1>0 DEF NetInv
  <1>4. Blank => Blank'
    BY DEF Blank, Thinned
  <1>5. \A o : NoPage(o) => NoPage(o)'
    BY DEF NoPage
  <1>6. TurnInv'
    BY <1>0, <1>4, <1>5 DEF TurnInv
  <1>7. PaneInv'
    <2>1. NotBelow(pane, top) => NotBelow(pane', top)
      BY DEF NotBelow, Thinned
    <2>2. ASSUME anchor' # None
          PROVE  Covers(records, pane', top, horizon)
      <3>1. anchor # None /\ \A j \in Rep(pane) : pane[j].id \notin removed => \E i \in Rep(pane') : pane'[i] = pane[j]
        BY <2>2 DEF Thinned
      <3>2. Covers(records, pane, top, horizon)
        BY <1>0, <3>1 DEF PaneInv
      <3>3. ASSUME NEW i \in DOMAIN records, top <= records[i].id /\ records[i].id < horizon
            PROVE  \E k \in Rep(pane') : pane'[k].id = records[i].id /\ pane'[k].msg = records[i].msg
        <4>1. PICK k \in Rep(pane) : pane[k].id = records[i].id /\ pane[k].msg = records[i].msg
          BY <3>2, <3>3 DEF Covers
        <4>2. pane[k].id \notin removed
          BY <4>1 DEF Forgotten
        <4>. QED
          BY <3>1, <4>1, <4>2
      <3>. QED
        BY <3>3 DEF Covers
    <2>3. cursor' # None \/ pending' => NotBelow(pane', top)
      BY <1>0, <2>1 DEF PaneInv
    <2>4. /\ pane' \in Seq(Entry) /\ Len(pane') <= PaneLimit /\ anchor' \in 0..Len(pane') \cup {None}
          /\ Ordered(pane', anchor')
      BY DEF Thinned
    <2>. QED
      BY <2>2, <2>3, <2>4 DEF PaneInv
  <1>. QED
    BY <1>1, <1>2, <1>3, <1>6, <1>7 DEF LobbyInv

\* The pane after entries e were added below base and the d oldest entries dropped.
Capped(d, base, e, a, c) ==
    /\ d <= Len(base) + Len(e) /\ (Len(base) + Len(e) <= PaneLimit => d = 0)
    /\ pane' \in Seq(Entry) /\ Len(pane') <= PaneLimit /\ Len(pane') = Len(base) + Len(e) - d
    /\ \A i \in 1..Len(pane') :
          pane'[i] = IF i + d <= Len(base) THEN base[i + d] ELSE e[i + d - Len(base)]
    /\ anchor' = IF a = None \/ d > a THEN None ELSE a - d
    /\ cursor' = IF d > 0 /\ anchor' = None THEN None ELSE c

\* push_entry: what a pane is after entries were added and it was capped.
LEMMA PushIs ==
    ASSUME NEW base \in Seq(Entry), NEW e \in Seq(Entry), Len(base) <= PaneLimit,
           NEW a \in 0..Len(base) \cup {None}, NEW c, Push(e, base, a, c)
    PROVE  \E d \in Nat : Capped(d, base, e, a, c)
  <1>1. PICK all : all = base \o e
    OBVIOUS
  <1>2. /\ all \in Seq(Entry) /\ Len(all) = Len(base) + Len(e) /\ Len(base) \in Nat /\ Len(e) \in Nat
        /\ \A i \in 1..Len(all) : all[i] = IF i <= Len(base) THEN base[i] ELSE e[i - Len(base)]
    BY <1>1, ConcatProperties, LenProperties
  <1>3. PICK d : d = IF Len(all) > PaneLimit THEN Len(all) - PaneLimit ELSE 0
    OBVIOUS
  <1>4. d \in Nat /\ d <= Len(all) /\ (Len(all) <= PaneLimit => d = 0) /\ Len(all) - d <= PaneLimit
    BY <1>2, <1>3, SizesAssumption
  <1>5. /\ pane' = SubSeq(all, d + 1, Len(all))
        /\ anchor' = IF a = None \/ d > a THEN None ELSE a - d
        /\ cursor' = IF d > 0 /\ anchor' = None THEN None ELSE c
    BY <1>1, <1>3 DEF Push
  <1>6. PICK q : q = SubSeq(all, d + 1, Len(all))
    OBVIOUS
  <1>7. /\ q \in Seq(Entry) /\ Len(q) = Len(all) - d
        /\ \A i \in 1..Len(q) : q[i] = all[d + i]
    <2>1. d + 1 \in 1..Len(all) + 1 /\ Len(all) \in Nat /\ Len(all) \in d..Len(all)
      BY <1>2, <1>4
    <2>2. q \in Seq(Entry)
      BY <1>2, <1>4, <1>6, SubSeqProperties
    <2>3. Len(q) = Len(all) - d
      <3>1. Len(q) = IF d + 1 <= Len(all) THEN Len(all) - (d + 1) + 1 ELSE 0
        BY <1>2, <1>4, <1>6, <2>1, SubSeqProperties
      <3>. QED
        BY <1>4, <2>1, <3>1
    <2>4. \A i \in 1..Len(all) - (d + 1) + 1 : q[i] = all[(d + 1) + i - 1]
      BY <1>2, <1>4, <1>6, <2>1, SubSeqProperties
    <2>5. Len(all) - (d + 1) + 1 = Len(q) /\ \A i \in 1..Len(q) : (d + 1) + i - 1 = d + i
      BY <1>4, <2>1, <2>3
    <2>. QED
      BY <2>2, <2>3, <2>4, <2>5
  <1>8. \A i \in 1..Len(q) : q[i] = IF i + d <= Len(base) THEN base[i + d] ELSE e[i + d - Len(base)]
    <2>1. \A i \in 1..Len(q) : i + d \in 1..Len(all) /\ d + i = i + d
      BY <1>2, <1>4, <1>7
    <2>2. \A i \in 1..Len(q) : q[i] = all[i + d]
      BY <1>7, <2>1
    <2>3. ASSUME NEW i \in 1..Len(q)
          PROVE  q[i] = IF i + d <= Len(base) THEN base[i + d] ELSE e[i + d - Len(base)]
      <3>1. PICK j : j = i + d
        OBVIOUS
      <3>2. j \in 1..Len(all) /\ q[i] = all[j]
        BY <2>1, <2>2, <3>1
      <3>3. q[i] = IF j <= Len(base) THEN base[j] ELSE e[j - Len(base)]
        BY <1>2, <3>2
      <3>4. i \in Int /\ d \in Int /\ Len(base) \in Int
        BY <1>2, <1>4, <1>7
      <3>. QED
        BY <3>1, <3>3, <3>4
    <2>. QED
      BY <2>3
  <1>9. pane' = q
    BY <1>5, <1>6
  <1>10. Capped(d, base, e, a, c)
    <2>1. /\ d <= Len(base) + Len(e) /\ (Len(base) + Len(e) <= PaneLimit => d = 0)
          /\ Len(q) <= PaneLimit /\ Len(q) = Len(base) + Len(e) - d
      BY <1>2, <1>4, <1>7
    <2>. QED
      BY <1>5, <1>7, <1>8, <1>9, <2>1 DEF Capped
  <1>. QED
    BY <1>4, <1>10

\* A live message, or a line, comes in below.
LEMMA PushKeeps ==
    ASSUME PaneInv, NEW x \in Entry, x.kind # "replay", Push(<<x>>, pane, anchor, cursor)
    PROVE  /\ Thinned(pane, anchor, pane', anchor', {})
           /\ cursor' \in {cursor, None} /\ (anchor' = None => cursor' = None)
  <1>0. /\ pane \in Seq(Entry) /\ Len(pane) <= PaneLimit
        /\ anchor \in 0..Len(pane) \cup {None} /\ (anchor = None => cursor = None)
        /\ Ordered(pane, anchor)
    BY DEF PaneInv
  <1>a. PICK e : e = <<x>>
    OBVIOUS
  <1>1. e \in Seq(Entry) /\ Len(e) = 1 /\ e[1] = x
    BY <1>a
  <1>b. PICK d \in Nat : Capped(d, pane, e, anchor, cursor)
    BY <1>0, <1>1, <1>a, PushIs
  <1>2. /\ d <= Len(pane) + Len(e) /\ (Len(pane) + Len(e) <= PaneLimit => d = 0)
        /\ pane' \in Seq(Entry) /\ Len(pane') <= PaneLimit /\ Len(pane') = Len(pane) + Len(e) - d
        /\ \A i \in 1..Len(pane') :
              pane'[i] = IF i + d <= Len(pane) THEN pane[i + d] ELSE e[i + d - Len(pane)]
        /\ anchor' = IF anchor = None \/ d > anchor THEN None ELSE anchor - d
        /\ cursor' = IF d > 0 /\ anchor' = None THEN None ELSE cursor
    BY <1>b DEF Capped
  <1>3. Len(pane) \in Nat /\ DOMAIN pane = 1..Len(pane) /\ Len(pane') \in Nat /\ DOMAIN pane' = 1..Len(pane')
    BY <1>0, <1>2, LenProperties
  <1>4. \A i \in Rep(pane') : i + d \in Rep(pane) /\ pane[i + d] = pane'[i] /\ i \in Nat
    <2> SUFFICES ASSUME NEW i \in Rep(pane')
                 PROVE  i + d \in Rep(pane) /\ pane[i + d] = pane'[i] /\ i \in Nat
      OBVIOUS
    <2>1. i \in 1..Len(pane') /\ pane'[i].kind = "replay"
      BY <1>3 DEF Rep
    <2>2. i + d <= Len(pane)
      <3>1. SUFFICES ASSUME ~(i + d <= Len(pane)) PROVE FALSE
        OBVIOUS
      <3>2. i + d - Len(pane) = 1
        BY <1>1, <1>2, <1>3, <2>1, <3>1
      <3>3. pane'[i] = e[1]
        BY <1>2, <2>1, <3>1, <3>2
      <3>. QED
        BY <1>1, <2>1, <3>3
    <2>3. pane'[i] = pane[i + d]
      BY <1>2, <2>1, <2>2
    <2>. QED
      BY <1>2, <1>3, <2>1, <2>2, <2>3 DEF Rep
  <1>5. \A i \in Rep(pane) : i > d => i - d \in Rep(pane') /\ pane'[i - d] = pane[i]
    <2> SUFFICES ASSUME NEW i \in Rep(pane), i > d
                 PROVE  i - d \in Rep(pane') /\ pane'[i - d] = pane[i]
      OBVIOUS
    <2>1. i \in 1..Len(pane) /\ pane[i].kind = "replay"
      BY <1>3 DEF Rep
    <2>2. i - d \in 1..Len(pane') /\ (i - d) + d = i
      BY <1>1, <1>2, <1>3, <2>1
    <2>3. pane'[i - d] = pane[i]
      BY <1>2, <2>1, <2>2
    <2>. QED
      BY <1>3, <2>1, <2>2, <2>3 DEF Rep
  <1>6. anchor' \in 0..Len(pane') \cup {None}
    BY <1>0, <1>1, <1>2, <1>3, LobbyAssumption
  <1>7. Ordered(pane', anchor')
    <2>1. \A i, j \in Rep(pane') : i < j => pane'[i].id < pane'[j].id
      <3>1. \A i, j \in Rep(pane') : i < j => i + d < j + d
        BY <1>2, <1>4
      <3>. QED
        BY <1>0, <1>4, <3>1 DEF Ordered
    <2>2. ASSUME anchor' # None, NEW i \in Rep(pane') PROVE anchor' < i
      <3>1. anchor # None /\ anchor' = anchor - d /\ anchor < i + d
        BY <1>0, <1>2, <1>4, <2>2 DEF Ordered
      <3>2. anchor \in Nat
        BY <1>0, <1>3, <3>1
      <3>. QED
        BY <1>2, <1>4, <3>1, <3>2
    <2>. QED
      BY <2>1, <2>2 DEF Ordered
  <1>8. ASSUME anchor' # None, NEW j \in Rep(pane)
        PROVE  \E i \in Rep(pane') : pane'[i] = pane[j]
    <2>1. anchor # None /\ anchor \in Nat /\ d <= anchor /\ anchor < j /\ j \in Nat
      BY <1>0, <1>2, <1>3, <1>8, EntryFields DEF Ordered
    <2>2. j > d
      BY <1>2, <2>1
    <2>. QED
      BY <1>5, <2>2
  <1>9. anchor' # None => anchor # None
    BY <1>2
  <1>10. Thinned(pane, anchor, pane', anchor', {})
    BY <1>2, <1>4, <1>6, <1>7, <1>8, <1>9 DEF Thinned
  <1>. QED
    BY <1>0, <1>2, <1>10

\* delete_message: an entry that is not kept any more goes.
LEMMA DeleteKeeps ==
    ASSUME PaneInv, NEW id, NEW i \in Holding(id), pane' = H!Without(pane, i),
           anchor' = IF anchor # None /\ i <= anchor THEN anchor - 1 ELSE anchor
    PROVE  Thinned(pane, anchor, pane', anchor', {id})
  <1>0. /\ pane \in Seq(Entry) /\ Len(pane) <= PaneLimit
        /\ anchor \in 0..Len(pane) \cup {None} /\ Ordered(pane, anchor)
    BY DEF PaneInv
  <1>1. Len(pane) \in Nat /\ DOMAIN pane = 1..Len(pane) /\ i \in 1..Len(pane) /\ pane[i].id = id
    BY <1>0, LenProperties DEF Holding
  <1>2. /\ pane' \in Seq(Entry) /\ Len(pane') = Len(pane) - 1 /\ DOMAIN pane' = 1..Len(pane) - 1
        /\ \A k \in 1..Len(pane) - 1 : pane'[k] = IF k < i THEN pane[k] ELSE pane[k + 1]
    <2>1. /\ H!Without(pane, i) \in Seq(Entry) /\ Len(H!Without(pane, i)) = Len(pane) - 1
          /\ DOMAIN H!Without(pane, i) = 1..Len(pane) - 1
          /\ \A k \in 1..Len(pane) - 1 : H!Without(pane, i)[k] = IF k < i THEN pane[k] ELSE pane[k + 1]
      BY <1>0, <1>1, WithoutIs
    <2>. QED
      BY <2>1, Zenon
  <1> DEFINE f(k) == IF k < i THEN k ELSE k + 1
  <1>3. \A k \in Rep(pane') : f(k) \in Rep(pane) /\ pane'[k] = pane[f(k)] /\ k \in Nat
    BY <1>1, <1>2 DEF Rep
  <1>4. \A k, l \in Rep(pane') : k < l => f(k) < f(l)
    BY <1>1, <1>3
  <1>5. ASSUME NEW j \in Rep(pane), pane[j].id # id
        PROVE  \E k \in Rep(pane') : pane'[k] = pane[j]
    <2>1. j \in 1..Len(pane) /\ pane[j].kind = "replay" /\ j # i
      BY <1>1, <1>5 DEF Rep
    <2>2. CASE j < i
      <3>1. j \in 1..Len(pane) - 1 /\ pane'[j] = pane[j]
        BY <1>1, <1>2, <2>1, <2>2
      <3>. QED
        BY <1>2, <2>1, <3>1 DEF Rep
    <2>3. CASE i < j
      <3>1. j - 1 \in 1..Len(pane) - 1 /\ ~(j - 1 < i) /\ (j - 1) + 1 = j
        BY <1>1, <2>1, <2>3
      <3>2. pane'[j - 1] = pane[j]
        BY <1>2, <3>1
      <3>. QED
        BY <1>2, <2>1, <3>1, <3>2 DEF Rep
    <2>. QED
      BY <1>1, <2>1, <2>2, <2>3
  <1>6. anchor' \in 0..Len(pane') \cup {None}
    BY <1>0, <1>1, <1>2
  <1>7. Ordered(pane', anchor')
    <2>1. \A k, l \in Rep(pane') : k < l => pane'[k].id < pane'[l].id
      BY <1>0, <1>3, <1>4 DEF Ordered
    <2>2. ASSUME anchor' # None, NEW k \in Rep(pane') PROVE anchor' < k
      <3>1. anchor # None /\ anchor \in Nat
        BY <1>0, <1>1, <2>2
      <3>2. anchor < f(k)
        BY <1>0, <1>3, <3>1 DEF Ordered
      <3>. QED
        BY <1>1, <1>3, <3>1, <3>2
    <2>. QED
      BY <2>1, <2>2 DEF Ordered
  <1>8. anchor' # None => anchor # None
    OBVIOUS
  <1>9. Len(pane') <= PaneLimit
    BY <1>0, <1>1, <1>2, SizesAssumption
  <1>. HIDE DEF f
  <1>. QED
    BY <1>2, <1>3, <1>5, <1>6, <1>7, <1>8, <1>9 DEF Thinned

\* The steps of the client that no page has a part in.
LEMMA ClientKeeps ==
    ASSUME LobbyInv,
           \/ \E packet \in net : ReceiveMessage(packet) \/ DeleteMessage(packet)
           \/ PushLine \/ SwitchChannel \/ ClearMessages
    PROVE  LobbyInv'
  <1>0. StoreInv /\ LinkInv /\ TurnInv /\ NetInv /\ PaneInv
    BY DEF LobbyInv
  <1>p. /\ pane \in Seq(Entry) /\ Len(pane) <= PaneLimit
        /\ anchor \in 0..Len(pane) \cup {None} /\ (anchor = None => cursor = None)
        /\ Ordered(pane, anchor) /\ lobby \in BOOLEAN
    BY <1>0 DEF PaneInv, LinkInv
  <1>s. Thinned(pane, anchor, pane, anchor, {})
    BY <1>p DEF Thinned
  <1>n. \A id \in {} : Forgotten(records, id)
    OBVIOUS
  <1>1. ASSUME NEW packet \in net, ReceiveMessage(packet)
        PROVE  LobbyInv'
    <2> DEFINE x == [kind |-> "live", id |-> packet.id, msg |-> packet.msg]
    <2>1. /\ net' \subseteq net /\ packet.kind = "message" /\ Push(<<x>>, pane, anchor, cursor)
          /\ UNCHANGED <<records, next, op, said, live, asked, horizon, pending, lobby, top>>
      BY <1>1 DEF ReceiveMessage, Receive, store
    <2>2. packet.id \in Nat /\ packet.msg \in Nat
      BY <1>0, <2>1 DEF NetInv
    <2>3. x \in Entry /\ x.kind # "replay"
      BY <2>2 DEF Entry
    <2>. HIDE DEF x
    <2>4. /\ Thinned(pane, anchor, pane', anchor', {})
          /\ cursor' \in {cursor, None} /\ (anchor' = None => cursor' = None)
      BY <1>0, <2>1, <2>3, PushKeeps
    <2>5. lobby' \in BOOLEAN
      BY <1>p, <2>1
    <2>. QED
      BY <1>n, <2>1, <2>4, <2>5, PaneKeeps
  <1>2. ASSUME NEW packet \in net, DeleteMessage(packet)
        PROVE  LobbyInv'
    <2>1. /\ net' \subseteq net /\ packet.kind = "deleted"
          /\ UNCHANGED <<records, next, op, said, live, asked, horizon, cursor, pending, lobby, top>>
      BY <1>2 DEF DeleteMessage, Receive, store
    <2>2. Forgotten(records, packet.id)
      BY <1>0, <2>1 DEF NetInv
    <2>3. lobby' \in BOOLEAN /\ cursor' \in {cursor, None}
      BY <1>p, <2>1
    <2>4. CASE UNCHANGED <<pane, anchor>>
      <3>1. Thinned(pane, anchor, pane', anchor', {}) /\ (anchor' = None => cursor' = None)
        BY <1>p, <1>s, <2>1, <2>4
      <3>. QED
        BY <1>n, <2>1, <2>3, <3>1, PaneKeeps
    <2>5. ASSUME NEW i \in Holding(packet.id), pane' = H!Without(pane, i),
                 anchor' = IF anchor # None /\ i <= anchor THEN anchor - 1 ELSE anchor
          PROVE  LobbyInv'
      <3>1. Thinned(pane, anchor, pane', anchor', {packet.id})
        BY <1>0, <2>5, DeleteKeeps
      <3>2. i \in 1..Len(pane) /\ Len(pane) \in Nat
        BY <1>p, LenProperties DEF Holding
      <3>3. anchor' = None => cursor' = None
        <4>1. CASE anchor = None
          BY <1>p, <2>1, <4>1
        <4>2. CASE anchor # None
          <5>1. anchor \in Nat
            BY <1>p, <3>2, <4>2
          <5>2. anchor' \in Nat
            BY <2>5, <3>2, <4>2, <5>1
          <5>. QED
            BY <5>2, LobbyAssumption
        <4>. QED
          BY <4>1, <4>2
      <3>. QED
        BY <2>1, <2>2, <2>3, <3>1, <3>3, PaneKeeps
    <2>. QED
      BY <1>2, <2>4, <2>5 DEF DeleteMessage
  <1>3. CASE PushLine
    <2> DEFINE x == [kind |-> "line"]
    <2>1. /\ Push(<<x>>, pane, anchor, cursor)
          /\ UNCHANGED <<records, next, op, said, live, asked, net, horizon, pending, lobby, top>>
      BY <1>3 DEF PushLine, store, link
    <2>3. x \in Entry /\ x.kind # "replay"
      BY DEF Entry
    <2>. HIDE DEF x
    <2>4. /\ Thinned(pane, anchor, pane', anchor', {})
          /\ cursor' \in {cursor, None} /\ (anchor' = None => cursor' = None)
      BY <1>0, <2>1, <2>3, PushKeeps
    <2>5. lobby' \in BOOLEAN /\ net' \subseteq net
      BY <1>p, <2>1
    <2>. QED
      BY <1>n, <2>1, <2>4, <2>5, PaneKeeps
  <1>4. CASE SwitchChannel
    <2>1. /\ UNCHANGED <<records, next, op, said, live, asked, net, horizon, pending, top, pane, anchor, cursor>>
          /\ lobby' = ~lobby
      BY <1>4 DEF SwitchChannel, store, link
    <2>2. lobby' \in BOOLEAN /\ net' \subseteq net /\ cursor' \in {cursor, None}
      BY <1>p, <2>1
    <2>3. Thinned(pane, anchor, pane', anchor', {}) /\ (anchor' = None => cursor' = None)
      BY <1>p, <1>s, <2>1
    <2>. QED
      BY <1>n, <2>1, <2>2, <2>3, PaneKeeps
  <1>5. CASE ClearMessages
    <2>1. /\ UNCHANGED <<records, next, op, said, live, asked, net, horizon, pending, lobby, top>>
          /\ pane' = <<>> /\ anchor' = None /\ cursor' = None
      BY <1>5 DEF ClearMessages, store, link
    <2>2. lobby' \in BOOLEAN /\ net' \subseteq net /\ cursor' \in {cursor, None}
      BY <1>p, <2>1
    <2>3. pane' \in Seq(Entry) /\ Len(pane') = 0 /\ Rep(pane') = {}
      BY <2>1, EmptySeq DEF Rep
    <2>4. Thinned(pane, anchor, pane', anchor', {})
      BY <2>1, <2>3, SizesAssumption DEF Thinned, Ordered
    <2>. QED
      BY <1>n, <2>1, <2>2, <2>4, PaneKeeps
  <1>. QED
    BY <1>1, <1>2, <1>3, <1>4, <1>5

-----------------------------------------------------------------------------
(* LobbyPane: the pages.                                                   *)

\* The size of a set of places that has no holes.
LEMMA PrefixIs ==
    ASSUME NEW n \in Nat, NEW S \in SUBSET (1..n), \A i \in S, j \in 1..n : j <= i => j \in S
    PROVE  Cardinality(S) \in 0..n /\ \A i \in 1..n : i \in S <=> i <= Cardinality(S)
  <1> DEFINE T == {k \in Nat : k + 1 \notin S}
             R == OpToRel(<, Nat)
  <1>1. T \subseteq Nat /\ n \in T
    OBVIOUS
  <1>2. \A x, y \in Nat : x < y => <<x, y>> \in R
    BY DEF OpToRel
  <1>3. IsWellFoundedOn(R, Nat)
    BY NatLessThanWellFounded
  <1>t. \A k \in Nat : k \in T <=> k + 1 \notin S
    OBVIOUS
  <1> HIDE DEF R, T
  <1>4. PICK m \in T : \A y \in T : ~(<<y, m>> \in R)
    BY <1>1, <1>3, WFMin
  <1>5. m \in Nat /\ m + 1 \notin S
    BY <1>1, <1>4, <1>t
  <1>6. \A i \in 1..m : i \in S
    <2> SUFFICES ASSUME NEW i \in 1..m PROVE i \in S
      OBVIOUS
    <2>1. i - 1 \in Nat /\ i - 1 < m /\ (i - 1) + 1 = i
      BY <1>5
    <2>2. i - 1 \notin T
      BY <1>2, <1>4, <1>5, <2>1
    <2>. QED
      BY <1>t, <2>1, <2>2
  <1>7. \A i \in S : i \in 1..m
    <2> SUFFICES ASSUME NEW i \in S, ~(i <= m) PROVE FALSE
      BY <1>5
    <2>1. m + 1 \in 1..n /\ m + 1 <= i
      BY <1>5
    <2>. QED
      BY <1>5, <2>1
  <1>8. S = 1..m
    BY <1>6, <1>7
  <1>9. Cardinality(S) = m
    BY <1>5, <1>8, FS_Interval
  <1>10. m <= n
    BY <1>5, <1>6
  <1>. QED
    BY <1>5, <1>8, <1>9, <1>10

\* History::position finds the first record that is not older.
LEMMA PositionIs ==
    ASSUME StoreInv, NEW before \in Nat \cup {None}
    PROVE  /\ position(before) \in 0..Len(records) /\ Len(records) \in Nat /\ DOMAIN records = 1..Len(records)
           /\ before = None => position(before) = Len(records)
           /\ before # None => \A i \in DOMAIN records : i <= position(before) <=> records[i].id < before
  <1>0. records \in Seq(H!Record) /\ Climbs(records)
    BY DEF StoreInv
  <1>1. Len(records) \in Nat /\ DOMAIN records = 1..Len(records)
    BY <1>0, LenProperties
  <1>2. CASE before = None
    BY <1>1, <1>2 DEF position
  <1>3. CASE before # None
    <2>1. before \in Nat /\ \A i \in DOMAIN records : records[i].id \in Nat
      BY <1>0, <1>3, RecordFields
    <2> DEFINE S == {i \in DOMAIN records : records[i].id < before}
    <2>2. S \in SUBSET (1..Len(records))
      BY <1>1
    <2>3. ASSUME NEW i \in S, NEW j \in 1..Len(records), j <= i
          PROVE  j \in S
      <3>1. i \in DOMAIN records /\ j \in DOMAIN records /\ i \in Nat /\ j \in Nat
        BY <1>1
      <3>2. j = i \/ records[j].id < records[i].id
        BY <1>0, <2>3, <3>1 DEF Climbs
      <3>. QED
        BY <2>1, <3>1, <3>2
    <2>4. position(before) = Cardinality(S)
      BY <1>3 DEF position
    <2>5. \A i \in DOMAIN records : i \in S <=> records[i].id < before
      OBVIOUS
    <2> HIDE DEF S
    <2>6. Cardinality(S) \in 0..Len(records) /\ \A i \in 1..Len(records) : i \in S <=> i <= Cardinality(S)
      BY <1>1, <2>2, <2>3, PrefixIs
    <2>. QED
      BY <1>1, <1>3, <2>4, <2>5, <2>6
  <1>. QED
    BY <1>2, <1>3

\* The entries of a page.
LEMMA ReplayedIs ==
    ASSUME StoreInv, NEW from \in Nat, NEW to \in Nat, from <= to, to <= Len(records)
    PROVE  /\ Replayed(from, to) \in Seq(Replay) /\ Len(Replayed(from, to)) = to - from
           /\ \A k \in 1..to - from : /\ Replayed(from, to)[k].id = records[from + k].id
                                      /\ Replayed(from, to)[k].msg = records[from + k].msg
                                      /\ from + k \in DOMAIN records
           /\ Climbs(Replayed(from, to)) /\ Rep(Replayed(from, to)) = 1..to - from
  <1>0. records \in Seq(H!Record) /\ Climbs(records)
    BY DEF StoreInv
  <1>1. Len(records) \in Nat /\ DOMAIN records = 1..Len(records)
    BY <1>0, LenProperties
  <1>2. PICK e : e = Replayed(from, to)
    OBVIOUS
  <1>3. e = [i \in 1..to - from |-> [kind |-> "replay", id |-> records[from + i].id, msg |-> records[from + i].msg]]
    BY <1>2 DEF Replayed
  <1>4. \A k \in 1..to - from : from + k \in DOMAIN records
    BY <1>1
  <1>5. \A k \in DOMAIN records : records[k].id \in Nat /\ records[k].msg \in Nat
    BY <1>0, RecordFields
  <1>6. DOMAIN e = 1..to - from /\ \A k \in 1..to - from : /\ e[k].kind = "replay"
                                /\ e[k].id = records[from + k].id /\ e[k].msg = records[from + k].msg
                                /\ e[k] \in Replay
    <2>1. DOMAIN e = 1..to - from
      BY <1>3
    <2>2. ASSUME NEW k \in 1..to - from
          PROVE  /\ e[k].kind = "replay" /\ e[k].id = records[from + k].id /\ e[k].msg = records[from + k].msg
                 /\ e[k] \in Replay
      <3>1. e[k] = [kind |-> "replay", id |-> records[from + k].id, msg |-> records[from + k].msg]
        BY <1>3
      <3>2. records[from + k].id \in Nat /\ records[from + k].msg \in Nat
        BY <1>4, <1>5
      <3>. QED
        BY <3>1, <3>2 DEF Replay
    <2>. QED
      BY <2>1, <2>2
  <1>7. e \in [1..to - from -> Replay]
    BY <1>3, <1>6
  <1>8. to - from \in Nat
    OBVIOUS
  <1>9. e \in Seq(Replay)
    BY <1>7, <1>8, SeqDef
  <1>10. Len(e) = to - from
    BY <1>6, <1>8, <1>9, LenProperties
  <1>11. Climbs(e)
    <2>1. \A i, j \in 1..to - from : i < j => from + i < from + j
      OBVIOUS
    <2>. QED
      BY <1>0, <1>4, <1>6, <2>1 DEF Climbs
  <1>12. Rep(e) = 1..to - from
    BY <1>6 DEF Rep
  <1>. QED
    BY <1>2, <1>4, <1>6, <1>9, <1>10, <1>11, <1>12

\* page: what is sent is a page of what is kept.
LEMMA PageSent ==
    ASSUME StoreInv, NEW before \in Nat \cup {None}, NEW from \in Nat, NEW to \in Nat,
           to = position(before), from <= to, from = to <=> to = 0, before = None => to # 0,
           NEW q, q.entries = Replayed(from, to),
           q.start = IF from < Len(records) THEN records[from + 1].id ELSE next,
           q.more = (from > 0), q.older = (before # None)
    PROVE  /\ PageIs(q, records, next, IF before # None THEN before ELSE next)
           /\ before # None => \A k \in DOMAIN q.entries : q.entries[k].id < before
  <1>0. /\ records \in Seq(H!Record) /\ Climbs(records) /\ next \in Nat
        /\ \A i \in DOMAIN records : records[i].id < next
    BY DEF StoreInv
  <1>r. \A k \in DOMAIN records : records[k].id \in Nat /\ records[k].msg \in Nat
    BY <1>0, RecordFields
  <1>2. /\ to \in 0..Len(records) /\ Len(records) \in Nat /\ DOMAIN records = 1..Len(records)
        /\ before = None => to = Len(records)
        /\ before # None => \A i \in DOMAIN records : i <= to <=> records[i].id < before
    BY PositionIs
  <1>3. from \in Nat /\ to \in Nat /\ from <= to /\ to <= Len(records) /\ (from = to <=> to = 0)
        /\ (before = None => to # 0)
    BY <1>2
  <1>4. PICK e : e = Replayed(from, to)
    OBVIOUS
  <1>5. /\ e \in Seq(Replay) /\ Len(e) = to - from
        /\ \A k \in 1..to - from : /\ e[k].id = records[from + k].id
                                   /\ e[k].msg = records[from + k].msg
                                   /\ from + k \in DOMAIN records
        /\ Climbs(e) /\ Rep(e) = 1..to - from /\ DOMAIN e = 1..to - from
    <2>1. /\ e \in Seq(Replay) /\ Len(e) = to - from
          /\ \A k \in 1..to - from : /\ e[k].id = records[from + k].id
                                     /\ e[k].msg = records[from + k].msg
                                     /\ from + k \in DOMAIN records
          /\ Climbs(e) /\ Rep(e) = 1..to - from
      BY <1>3, <1>4, ReplayedIs
    <2>. QED
      BY <2>1, LenProperties
  <1>6. PICK st : st = IF from < Len(records) THEN records[from + 1].id ELSE next
    OBVIOUS
  <1>7. /\ q.entries = e /\ q.start = st /\ q.more = (from > 0) /\ q.older = (before # None)
    BY <1>4, <1>6
  <1>8. st \in Nat /\ st <= next /\ (from < Len(records) => from + 1 \in DOMAIN records /\ st = records[from + 1].id)
    <2>1. from < Len(records) => from + 1 \in DOMAIN records
      BY ONLY <1>2, <1>3
    <2>. QED
      BY ONLY <1>0, <1>r, <1>6, <2>1
  <1>9. e # <<>> => st = e[1].id
    <2> SUFFICES ASSUME e # <<>> PROVE st = e[1].id
      OBVIOUS
    <2>1. to - from >= 1
      BY <1>3, <1>5, EmptySeq
    <2>2. 1 \in 1..to - from /\ from < Len(records)
      BY <1>2, <1>3, <2>1
    <2>. QED
      BY <1>5, <1>8, <2>2
  <1>10. e = <<>> => before # None /\ ~(from > 0)
    <2> SUFFICES ASSUME e = <<>> PROVE before # None /\ ~(from > 0)
      OBVIOUS
    <2>1. to - from = 0
      BY <1>5
    <2>. QED
      BY <1>3, <2>1
  <1>11. PICK hi : hi = IF before # None THEN before ELSE next
    OBVIOUS
  <1>12. Covers(records, e, st, hi)
    <2>1. ASSUME NEW i \in DOMAIN records, st <= records[i].id /\ records[i].id < hi
          PROVE  \E k \in Rep(e) : e[k].id = records[i].id /\ e[k].msg = records[i].msg
      <3>1. i <= to /\ i \in 1..Len(records)
        <4>1. i \in 1..Len(records)
          BY <1>2
        <4>2. CASE before = None
          BY <1>2, <4>1, <4>2
        <4>3. CASE before # None
          <5>1. records[i].id < before
            BY <1>11, <2>1, <4>3
          <5>. QED
            BY <1>2, <4>1, <4>3, <5>1
        <4>. QED
          BY <4>1, <4>2, <4>3
      <3>2. from < Len(records)
        <4>1. 1 <= i /\ i \in Nat
          BY <1>2, <3>1
        <4>2. to >= 1
          BY <3>1, <4>1
        <4>3. from < to
          BY <1>3, <4>2
        <4>. QED
          BY <1>2, <1>3, <4>3
      <3>3. from + 1 <= i
        <4>1. SUFFICES ASSUME i < from + 1 PROVE FALSE
          BY <1>3, <3>1
        <4>2. records[i].id < st
          BY <1>0, <1>8, <3>2, <4>1 DEF Climbs
        <4>. QED
          BY <1>r, <1>8, <2>1, <4>2
      <3>4. i - from \in 1..to - from /\ from + (i - from) = i
        BY <1>3, <3>1, <3>3
      <3>. QED
        BY <1>5, <3>4
    <2>. QED
      BY <2>1 DEF Covers
  <1>13. PageIs(q, records, next, hi)
    <2>1. q.more \in BOOLEAN /\ q.older \in BOOLEAN
      BY <1>7
    <2>2. q.entries \in Seq(Replay) /\ q.start \in Nat /\ q.start <= next /\ Climbs(q.entries)
      BY <1>5, <1>7, <1>8
    <2>3. q.entries # <<>> => q.start = q.entries[1].id
      BY <1>7, <1>9
    <2>4. q.entries = <<>> => q.older /\ ~q.more
      BY <1>7, <1>10
    <2>5. Covers(records, q.entries, q.start, hi)
      BY <1>7, <1>12
    <2>. QED
      BY <2>1, <2>2, <2>3, <2>4, <2>5 DEF PageIs
  <1>14. ASSUME before # None, NEW k \in DOMAIN e PROVE e[k].id < before
    <2>1. from + k \in DOMAIN records /\ e[k].id = records[from + k].id /\ from + k <= to
      BY <1>3, <1>5
    <2>. QED
      BY ONLY <1>2, <1>14, <2>1
  <1>. QED
    BY ONLY <1>7, <1>11, <1>13, <1>14

\* send_history: the page that was asked for is put on its way, or nothing is.
LEMMA SendKeeps ==
    ASSUME LobbyInv, SendHistory
    PROVE  LobbyInv'
  <1>0. StoreInv /\ LinkInv /\ TurnInv /\ NetInv /\ PaneInv
    BY DEF LobbyInv
  <1>1. /\ UNCHANGED <<records, next, op, said, pane, anchor, cursor, pending, lobby, top, live>>
        /\ asked # <<>> /\ asked' = <<>>
    BY DEF SendHistory, store, client
  <1>2. PICK before : before = asked[1]
    OBVIOUS
  <1>3. PICK to : to = position(before)
    OBVIOUS
  <1>4. /\ horizon' = IF before = None THEN next ELSE horizon
        /\ \E from \in 0..to :
              /\ from = to <=> to = 0
              /\ net' = IF before = None /\ to = 0 THEN net
                        ELSE net \cup {[kind    |-> "history",
                                        entries |-> Replayed(from, to),
                                        start   |-> IF from < Len(records) THEN records[from + 1].id
                                                    ELSE next,
                                        more    |-> from > 0,
                                        older   |-> before # None]}
    BY <1>2, <1>3 DEF SendHistory
  <1>5. next \in Nat /\ top \in Nat /\ top <= next /\ horizon \in Nat /\ horizon <= next
    BY <1>0 DEF LinkInv, StoreInv
  <1>6. \/ asked = <<None>> /\ before = None
        \/ asked = <<top>> /\ before = top /\ before # None /\ asked # <<None>>
    <2>1. asked = <<None>> \/ asked = <<top>>
      BY <1>0, <1>1 DEF LinkInv
    <2>. QED
      BY <1>2, <1>5, <2>1, AskedIs, LobbyAssumption
  <1>7. before \in Nat \cup {None} /\ live
    <2>1. live
      BY <1>0, <1>1 DEF TurnInv
    <2>. QED
      BY <1>5, <1>6, <2>1
  <1>8. StoreInv'
    BY <1>0, <1>1 DEF StoreInv
  <1>9. LinkInv'
    BY <1>0, <1>1, <1>4, <1>5 DEF LinkInv
  <1>10. PaneInv'
    <2>1. anchor # None => horizon' = horizon
      BY <1>0, <1>4, <1>6 DEF TurnInv, Blank
    <2>. QED
      BY <1>0, <1>1, <2>1 DEF PaneInv
  <1>11. Blank' <=> Blank
    BY <1>1 DEF Blank
  <1>12. before = None => NoPage(FALSE) /\ Blank
    BY <1>0, <1>6 DEF TurnInv
  <1>13. before # None => NoPage(TRUE) /\ pending
    BY <1>0, <1>6 DEF TurnInv
  <1>14. \A p \in net : p.kind = "history" =>
            (IF p.older THEN top ELSE horizon') = (IF p.older THEN top ELSE horizon)
    <2> SUFFICES ASSUME NEW p \in net, p.kind = "history", ~p.older PROVE horizon' = horizon
      OBVIOUS
    <2>1. p.older \in BOOLEAN
      BY <1>0 DEF NetInv, PageIs
    <2>2. before # None
      BY <1>12, <2>1 DEF NoPage
    <2>. QED
      BY <1>4, <2>2
  <1>15. \A p \in net : /\ p.kind \in {"message", "deleted", "history"}
                        /\ p.kind = "message" => p.id \in Nat /\ p.msg \in Nat
                        /\ p.kind = "deleted" => p.id \in Nat /\ p.id < next /\ Forgotten(records, p.id)
                        /\ p.kind = "history" =>
                             /\ PageIs(p, records, next, IF p.older THEN top ELSE horizon')
                             /\ p.older => \A k \in DOMAIN p.entries : p.entries[k].id < top
    BY <1>0, <1>14 DEF NetInv
  <1>16. CASE net' = net
    <2>1. NetInv'
      BY <1>1, <1>15, <1>16 DEF NetInv
    <2>2. \A o : NoPage(o)' <=> NoPage(o)
      BY <1>16 DEF NoPage
    <2>3. asked' # <<None>> /\ asked' # <<top'>>
      BY <1>1, <1>5, AskedIs
    <2>4. TurnInv'
      BY <1>0, <1>1, <1>7, <1>11, <1>16, <2>2, <2>3 DEF TurnInv
    <2>. QED
      BY <1>8, <1>9, <1>10, <2>1, <2>4 DEF LobbyInv
  <1>17. ASSUME NEW from \in 0..to, from = to <=> to = 0, ~(before = None /\ to = 0),
                net' = net \cup {[kind    |-> "history", entries |-> Replayed(from, to),
                                  start   |-> IF from < Len(records) THEN records[from + 1].id ELSE next,
                                  more    |-> from > 0, older |-> before # None]}
         PROVE  LobbyInv'
    <2>a. PICK q : q = [kind    |-> "history", entries |-> Replayed(from, to),
                        start   |-> IF from < Len(records) THEN records[from + 1].id ELSE next,
                        more    |-> from > 0, older |-> before # None]
      OBVIOUS
    <2>1. /\ net' = net \cup {q} /\ q.kind = "history" /\ q.entries = Replayed(from, to)
          /\ q.start = IF from < Len(records) THEN records[from + 1].id ELSE next
          /\ q.more = (from > 0) /\ q.older = (before # None)
      <3>1. net' = net \cup {q}
        BY <1>17, <2>a, Zenon
      <3>. QED
        BY ONLY <2>a, <3>1
    <2>2. to \in 0..Len(records) /\ Len(records) \in Nat
      BY <1>0, <1>3, <1>7, PositionIs
    <2>3. to \in Nat /\ from \in Nat /\ from <= to
      BY <2>2
    <2>4. /\ PageIs(q, records, next, IF before # None THEN before ELSE next)
          /\ before # None => \A k \in DOMAIN q.entries : q.entries[k].id < before
      BY ONLY <1>0, <1>3, <1>7, <1>17, <2>1, <2>3, PageSent
    <2>5. /\ PageIs(q, records, next, IF q.older THEN top ELSE horizon')
          /\ q.older => \A k \in DOMAIN q.entries : q.entries[k].id < top
      <3>1. CASE before = None
        BY <1>4, <2>1, <2>4, <3>1
      <3>2. CASE before # None
        BY <1>6, <2>1, <2>4, <3>2
      <3>. QED
        BY <3>1, <3>2
    <2>6. NetInv'
      <3>1. \A p \in net' : p \in net \/ p = q
        BY <2>1
      <3>. QED
        BY <1>1, <1>15, <2>1, <2>5, <3>1 DEF NetInv
    <2>7. q.older \in BOOLEAN /\ NoPage(q.older)
      BY <1>12, <1>13, <2>1
    <2>8. \A p1, p2 \in net' : p1.kind = "history" /\ p2.kind = "history" /\ p1.older = p2.older => p1 = p2
      BY <1>0, <2>1, <2>7 DEF TurnInv, NoPage
    <2>9. \A o : o # q.older => (NoPage(o)' <=> NoPage(o))
      BY <2>1 DEF NoPage
    <2>10. asked' # <<None>> /\ asked' # <<top'>>
      BY <1>1, <1>5, AskedIs
    <2>11. ~NoPage(FALSE)' => Blank
      <3>1. CASE before = None
        BY <1>12, <3>1
      <3>2. CASE before # None
        BY <1>0, <2>1, <2>9, <3>2 DEF TurnInv
      <3>. QED
        BY <3>1, <3>2
    <2>12. ~pending => NoPage(TRUE)'
      <3>1. CASE before = None
        BY <1>0, <2>1, <2>9, <3>1 DEF TurnInv
      <3>2. CASE before # None
        BY <1>13, <3>2
      <3>. QED
        BY <3>1, <3>2
    <2>13. TurnInv'
      BY <1>1, <1>7, <1>11, <2>8, <2>10, <2>11, <2>12 DEF TurnInv
    <2>. QED
      BY <1>8, <1>9, <1>10, <2>6, <2>13 DEF LobbyInv
  <1>. QED
    BY <1>4, <1>16, <1>17

\* A client logs in.
LEMMA LoginKeeps ==
    ASSUME LobbyInv, Login
    PROVE  LobbyInv'
  <1>0. StoreInv /\ LinkInv /\ TurnInv /\ NetInv /\ PaneInv
    BY DEF LobbyInv
  <1>1. /\ UNCHANGED <<records, next, op, said, pane, anchor, cursor, pending, lobby, top, net, horizon>>
        /\ ~live /\ live' = TRUE /\ asked' = <<None>>
    BY DEF Login, store, client
  <1>2. top \in Nat /\ <<None>> # <<top>> /\ <<None>> # <<>>
    <2>1. top \in Nat
      BY <1>0 DEF LinkInv
    <2>. QED
      BY <2>1, AskedIs
  <1>3. net = {} /\ Blank
    BY <1>0, <1>1 DEF TurnInv
  <1>4. StoreInv' /\ LinkInv' /\ NetInv' /\ PaneInv'
    BY <1>0, <1>1 DEF StoreInv, LinkInv, NetInv, PaneInv
  <1>5. Blank'
    BY <1>1, <1>3 DEF Blank
  <1>6. \A o : NoPage(o)'
    BY <1>1, <1>3 DEF NoPage
  <1>7. TurnInv'
    BY <1>1, <1>2, <1>3, <1>5, <1>6 DEF TurnInv
  <1>. QED
    BY <1>4, <1>7 DEF LobbyInv

\* An older page is asked for.
LEMMA AskKeeps ==
    ASSUME LobbyInv, Ask
    PROVE  LobbyInv'
  <1>0. StoreInv /\ LinkInv /\ TurnInv /\ NetInv /\ PaneInv
    BY DEF LobbyInv
  <1>1. /\ UNCHANGED <<records, next, op, said, pane, anchor, cursor, lobby, top, live, net, horizon>>
        /\ ~pending /\ cursor # None /\ pending' = TRUE /\ asked' = <<cursor>>
    BY DEF Ask, store
  <1>2. cursor = top /\ top \in Nat
    BY <1>0, <1>1 DEF LinkInv
  <1>3. <<None>> # <<top>> /\ <<top>> # <<>>
    BY <1>2, AskedIs
  <1>4. live /\ NoPage(FALSE) /\ NoPage(TRUE)
    BY <1>0, <1>1 DEF TurnInv, Blank
  <1>5. StoreInv' /\ LinkInv' /\ NetInv' /\ PaneInv'
    BY <1>0, <1>1, <1>2 DEF StoreInv, LinkInv, NetInv, PaneInv
  <1>6. NoPage(FALSE)' /\ NoPage(TRUE)'
    BY <1>1, <1>4 DEF NoPage
  <1>7. TurnInv'
    BY <1>0, <1>1, <1>2, <1>3, <1>4, <1>6 DEF TurnInv
  <1>. QED
    BY <1>5, <1>7 DEF LobbyInv

\* The session is over, and with it what was on its way.
LEMMA OverKeeps ==
    ASSUME StoreInv', Disconnected
    PROVE  LobbyInv'
  <1>1. /\ live' = FALSE /\ asked' = <<>> /\ net' = {} /\ pane' = <<>> /\ anchor' = None
        /\ cursor' = None /\ pending' = FALSE /\ lobby' = TRUE /\ horizon' = 0 /\ top' = 0
    BY DEF Disconnected
  <1>2. next' \in Nat
    BY DEF StoreInv
  <1>3. pane' \in Seq(Entry) /\ Len(pane') = 0 /\ Rep(pane') = {}
    BY <1>1, EmptySeq DEF Rep
  <1>4. <<>> # <<None>> /\ <<>> # <<0>>
    BY AskedIs
  <1>5. LinkInv'
    <2>1. 0 <= next'
      BY <1>2
    <2>2. asked' \in {<<>>, <<None>>, <<top'>>} /\ cursor' \in {None, top'}
      BY <1>1
    <2>. QED
      BY <1>1, <2>1, <2>2 DEF LinkInv
  <1>6. NetInv'
    BY <1>1 DEF NetInv
  <1>7. PaneInv'
    BY <1>1, <1>3, SizesAssumption DEF PaneInv, Ordered
  <1>8. TurnInv'
    BY <1>1, <1>3, <1>4 DEF TurnInv, NoPage, Blank
  <1>. QED
    BY <1>5, <1>6, <1>7, <1>8 DEF LobbyInv

\* Pages are entries of a pane.
LEMMA ReplaysAre ==
    ASSUME NEW e \in Seq(Replay)
    PROVE  /\ e \in Seq(Entry) /\ Len(e) \in Nat /\ DOMAIN e = 1..Len(e) /\ Rep(e) = DOMAIN e
           /\ \A k \in DOMAIN e : e[k] \in Replay /\ e[k].id \in Nat /\ e[k].kind = "replay"
  <1>1. Len(e) \in Nat /\ DOMAIN e = 1..Len(e)
    BY LenProperties
  <1>2. \A k \in DOMAIN e : e[k] \in Replay
    BY <1>1, ElementOfSeq
  <1>3. \A x \in Replay : x \in Entry /\ x.id \in Nat /\ x.kind = "replay"
    BY DEF Replay, Entry
  <1>4. \A k \in 1..Len(e) : e[k] \in Entry
    BY <1>1, <1>2, <1>3
  <1>5. e \in [1..Len(e) -> Entry]
    BY <1>1, <1>4
  <1>6. e \in Seq(Entry)
    BY <1>1, <1>5, SeqDef
  <1>. QED
    BY <1>1, <1>2, <1>3, <1>6 DEF Rep

\* Nothing of the history is on its way but the page that is taken.
LEMMA PageTaken ==
    ASSUME LobbyInv, NEW packet \in net, packet.kind = "history", net' = net \ {packet}
    PROVE  /\ live /\ asked = <<>> /\ \A p \in net' : p.kind # "history"
           /\ PageIs(packet, records, next, IF packet.older THEN top ELSE horizon)
           /\ packet.older => pending /\ \A k \in DOMAIN packet.entries : packet.entries[k].id < top
           /\ ~packet.older => Blank
  <1>0. LinkInv /\ TurnInv /\ NetInv
    BY DEF LobbyInv
  <1>1. live
    BY <1>0 DEF TurnInv
  <1>2. /\ PageIs(packet, records, next, IF packet.older THEN top ELSE horizon)
        /\ packet.older => \A k \in DOMAIN packet.entries : packet.entries[k].id < top
    BY <1>0 DEF NetInv
  <1>3. \A p \in net : p.kind = "history" => p.older \in BOOLEAN
    BY <1>0 DEF NetInv, PageIs
  <1>4. CASE packet.older
    <2>1. ~NoPage(TRUE)
      BY <1>3, <1>4 DEF NoPage
    <2>2. pending /\ asked # <<top>>
      BY <1>0, <2>1 DEF TurnInv
    <2>3. NoPage(FALSE) /\ asked # <<None>>
      BY <1>0, <2>2 DEF TurnInv, Blank
    <2>4. asked = <<>>
      BY <1>0, <2>2, <2>3 DEF LinkInv
    <2>5. \A p \in net : p.kind = "history" => p = packet
      BY <1>0, <1>3, <1>4, <2>3 DEF TurnInv, NoPage
    <2>. QED
      BY <1>1, <1>2, <1>4, <2>2, <2>4, <2>5
  <1>5. CASE ~packet.older
    <2>1. ~NoPage(FALSE)
      BY <1>3, <1>5 DEF NoPage
    <2>2. Blank /\ asked # <<None>>
      BY <1>0, <2>1 DEF TurnInv
    <2>3. NoPage(TRUE) /\ asked # <<top>>
      BY <1>0, <2>2 DEF TurnInv, Blank
    <2>4. asked = <<>>
      BY <1>0, <2>2, <2>3 DEF LinkInv
    <2>5. \A p \in net : p.kind = "history" => p = packet
      BY <1>0, <1>3, <1>5, <2>3 DEF TurnInv, NoPage
    <2>. QED
      BY <1>1, <1>2, <1>5, <2>2, <2>4, <2>5
  <1>. QED
    BY <1>4, <1>5

\* The page is put into the pane: what has to be shown of the new pane.
LEMMA PagePlaced ==
    ASSUME LobbyInv, NEW packet \in net, Receive(packet), packet.kind = "history",
           pending' = FALSE, lobby' = lobby, top' \in Nat, top' <= next, cursor' \in {None, top'},
           PaneInv'
    PROVE  LobbyInv'
  <1>0. StoreInv /\ LinkInv /\ NetInv
    BY DEF LobbyInv
  <1>1. UNCHANGED <<records, next, op, said, live, asked, horizon>> /\ net' = net \ {packet}
    BY DEF Receive, store
  <1>2. live /\ asked = <<>> /\ \A p \in net' : p.kind # "history"
    BY <1>1, PageTaken
  <1>3. StoreInv'
    BY <1>0, <1>1 DEF StoreInv
  <1>4. LinkInv'
    BY <1>0, <1>1, <1>2 DEF LinkInv
  <1>5. NetInv'
    BY <1>0, <1>1, <1>2 DEF NetInv
  <1>6. asked' # <<None>> /\ asked' # <<top'>>
    BY <1>1, <1>2, AskedIs
  <1>7. NoPage(TRUE)' /\ NoPage(FALSE)'
    BY <1>2 DEF NoPage
  <1>8. TurnInv'
    BY <1>1, <1>2, <1>6, <1>7 DEF TurnInv
  <1>. QED
    BY <1>3, <1>4, <1>5, <1>8 DEF LobbyInv

\* The newest page goes under its heading.
LEMMA StartKeeps ==
    ASSUME LobbyInv, NEW packet \in net, StartHistory(packet)
    PROVE  LobbyInv'
  <1>0. StoreInv /\ LinkInv /\ TurnInv /\ NetInv /\ PaneInv
    BY DEF LobbyInv
  <1>1. /\ Receive(packet) /\ packet.kind = "history" /\ ~packet.older /\ top' = packet.start
        /\ UNCHANGED <<pending, lobby, records, horizon>>
    BY DEF StartHistory, Receive, store
  <1>2. /\ PageIs(packet, records, next, horizon) /\ Blank
    <2>1. net' = net \ {packet}
      BY <1>1 DEF Receive
    <2>. QED
      BY <1>1, <2>1, PageTaken
  <1>3. PICK e : e = packet.entries
    OBVIOUS
  <1>4. PICK lo : lo = packet.start
    OBVIOUS
  <1>5. /\ e \in Seq(Replay) /\ lo \in Nat /\ lo <= next /\ Climbs(e) /\ e # <<>> /\ lo = e[1].id
        /\ Covers(records, e, lo, horizon)
    BY <1>1, <1>2, <1>3, <1>4 DEF PageIs
  <1>6. /\ e \in Seq(Entry) /\ Len(e) \in Nat /\ DOMAIN e = 1..Len(e) /\ Rep(e) = DOMAIN e
        /\ \A k \in DOMAIN e : e[k].id \in Nat /\ e[k].kind = "replay"
    BY <1>5, ReplaysAre
  <1>7. PICK under : under = Append(pane, [kind |-> "line"])
    OBVIOUS
  <1>8. PICK h : h = H!Newest(under, PaneLimit)
    OBVIOUS
  <1>9. PICK c : c = IF packet.more THEN packet.start ELSE None
    OBVIOUS
  <1>10. Push(e, h, Len(h), c)
    BY <1>3, <1>7, <1>8, <1>9, Zenon DEF StartHistory
  <1>11. /\ pane \in Seq(Entry) /\ Rep(pane) = {} /\ ~pending
    BY <1>0, <1>2 DEF PaneInv, Blank
  <1>12. under \in Seq(Entry) /\ Len(under) = Len(pane) + 1 /\ Len(pane) \in Nat /\ Rep(under) = {}
    <2>1. PICK x : x = [kind |-> "line"]
      OBVIOUS
    <2>2. x \in Entry /\ x.kind # "replay"
      BY <2>1 DEF Entry
    <2>3. under = Append(pane, x)
      BY <1>7, <2>1
    <2>4. /\ under \in Seq(Entry) /\ Len(under) = Len(pane) + 1 /\ Len(pane) \in Nat
          /\ \A i \in 1..Len(pane) : under[i] = pane[i]
          /\ under[Len(pane) + 1] = x
      BY <1>11, <2>2, <2>3, AppendProperties, LenProperties
    <2>5. DOMAIN pane = 1..Len(pane) /\ DOMAIN under = 1..Len(pane) + 1
      BY <1>11, <2>4, LenProperties
    <2>. QED
      BY <1>11, <2>2, <2>4, <2>5 DEF Rep
  <1>13. PaneLimit \in Nat /\ PaneLimit >= 1
    BY SizesAssumption
  <1>14. /\ h \in Seq(Entry) /\ Len(h) \in Nat /\ Len(h) <= PaneLimit /\ Len(h) >= 1
         /\ DOMAIN h = 1..Len(h) /\ \A i \in DOMAIN h : h[i].kind # "replay"
    <2>1. /\ h \in Seq(Entry) /\ Len(h) = IF Len(under) <= PaneLimit THEN Len(under) ELSE PaneLimit
          /\ \A i \in 1..Len(h) : h[i] = under[i + (Len(under) - Len(h))]
      BY <1>8, <1>12, <1>13, NewestIs
    <2>2. Len(h) \in Nat /\ DOMAIN h = 1..Len(h) /\ DOMAIN under = 1..Len(under)
      BY <1>12, <2>1, LenProperties
    <2>3. Len(under) \in Nat /\ Len(under) >= 1 /\ Len(h) <= Len(under) /\ Len(h) <= PaneLimit /\ Len(h) >= 1
      BY <1>12, <1>13, <2>1, <2>2
    <2>4. \A i \in DOMAIN under : under[i].kind # "replay"
      BY <1>12 DEF Rep
    <2>5. \A i \in DOMAIN h : h[i].kind # "replay"
      <3> SUFFICES ASSUME NEW i \in DOMAIN h PROVE h[i].kind # "replay"
        OBVIOUS
      <3>1. i \in 1..Len(h)
        BY <2>2
      <3>2. PICK k : k = i + (Len(under) - Len(h))
        OBVIOUS
      <3>3. k \in 1..Len(under)
        BY ONLY <2>2, <2>3, <3>1, <3>2
      <3>4. h[i] = under[k]
        BY <2>1, <3>1, <3>2
      <3>. QED
        BY <2>2, <2>4, <3>3, <3>4
    <2>. QED
      BY <2>1, <2>2, <2>3, <2>5
  <1>15. PICK a : a = Len(h)
    OBVIOUS
  <1>16. PICK d \in Nat : Capped(d, h, e, a, c)
    BY <1>6, <1>10, <1>14, <1>15, PushIs
  <1>17. /\ d <= a + Len(e)
         /\ pane' \in Seq(Entry) /\ Len(pane') <= PaneLimit /\ Len(pane') = a + Len(e) - d
         /\ \A i \in 1..Len(pane') : pane'[i] = IF i + d <= a THEN h[i + d] ELSE e[i + d - a]
         /\ anchor' = IF a = None \/ d > a THEN None ELSE a - d
         /\ cursor' = IF d > 0 /\ anchor' = None THEN None ELSE c
    BY <1>15, <1>16 DEF Capped
  <1>18. a \in Nat /\ a >= 1 /\ a # None
    BY <1>14, <1>15, LobbyAssumption
  <1>19. Len(pane') \in Nat /\ DOMAIN pane' = 1..Len(pane')
    BY <1>17, LenProperties
  <1>20. \A i \in Rep(pane') : i \in Nat /\ i + d > a /\ i + d - a \in DOMAIN e /\ pane'[i] = e[i + d - a]
    <2> SUFFICES ASSUME NEW i \in Rep(pane')
                 PROVE  i \in Nat /\ i + d > a /\ i + d - a \in DOMAIN e /\ pane'[i] = e[i + d - a]
      OBVIOUS
    <2>1. i \in 1..Len(pane') /\ pane'[i].kind = "replay"
      BY <1>19 DEF Rep
    <2>2. i + d > a
      <3> SUFFICES ASSUME i + d <= a PROVE FALSE
        BY <1>18, <2>1
      <3>1. pane'[i] = h[i + d] /\ i + d \in DOMAIN h
        BY <1>14, <1>15, <1>17, <1>18, <2>1
      <3>. QED
        BY <1>14, <2>1, <3>1
    <2>3. i + d - a \in 1..Len(e)
      BY <1>6, <1>17, <1>18, <1>19, <2>1, <2>2
    <2>4. pane'[i] = e[i + d - a]
      BY <1>17, <1>18, <2>1, <2>2
    <2>. QED
      BY <1>6, <2>1, <2>2, <2>3, <2>4
  <1>21. anchor' # None => anchor' = a - d /\ d <= a /\ a - d \in Nat
    BY <1>17, <1>18
  <1>22. Ordered(pane', anchor')
    <2>1. \A i, j \in Rep(pane') : i < j => i + d - a < j + d - a
      BY <1>18, <1>20
    <2>2. \A i, j \in Rep(pane') : i < j => pane'[i].id < pane'[j].id
      BY <1>5, <1>20, <2>1 DEF Climbs
    <2>3. anchor' # None => \A i \in Rep(pane') : anchor' < i
      BY <1>18, <1>20, <1>21
    <2>. QED
      BY <2>2, <2>3 DEF Ordered
  <1>23. NotBelow(pane', lo)
    <2>1. \A k \in DOMAIN e : lo <= e[k].id
      <3>1. 1 \in DOMAIN e /\ \A k \in DOMAIN e : k = 1 \/ 1 < k
        BY <1>5, <1>6, EmptySeq
      <3>. QED
        BY <1>5, <1>6, <3>1 DEF Climbs
    <2>. QED
      BY <1>20, <2>1 DEF NotBelow
  <1>24. ASSUME anchor' # None PROVE Covers(records, pane', lo, horizon)
    <2>1. ASSUME NEW k \in DOMAIN e
          PROVE  \E i \in Rep(pane') : pane'[i] = e[k]
      <3>1. k + a - d \in 1..Len(pane') /\ (k + a - d) + d > a /\ (k + a - d) + d - a = k
        BY <1>6, <1>17, <1>18, <1>21, <1>24
      <3>2. pane'[k + a - d] = e[k]
        BY <1>17, <1>18, <3>1
      <3>. QED
        BY <1>6, <1>19, <3>1, <3>2 DEF Rep
    <2>2. ASSUME NEW i \in DOMAIN records, lo <= records[i].id /\ records[i].id < horizon
          PROVE  \E k \in Rep(pane') : pane'[k].id = records[i].id /\ pane'[k].msg = records[i].msg
      <3>1. PICK k \in Rep(e) : e[k].id = records[i].id /\ e[k].msg = records[i].msg
        BY <1>5, <2>2 DEF Covers
      <3>2. PICK j \in Rep(pane') : pane'[j] = e[k]
        BY <1>6, <2>1
      <3>. QED
        BY <3>1, <3>2
    <2>. QED
      BY <2>2 DEF Covers
  <1>25. cursor' \in {None, lo} /\ (anchor' = None => cursor' = None)
    BY <1>4, <1>9, <1>17, <1>18
  <1>26. anchor' \in 0..Len(pane') \cup {None}
    <2>1. anchor' # None => a - d <= Len(pane')
      BY <1>6, <1>17, <1>18, <1>21
    <2>. QED
      BY <1>19, <1>21, <2>1
  <1>27. PaneInv'
    BY <1>1, <1>4, <1>17, <1>22, <1>23, <1>24, <1>25, <1>26 DEF PaneInv
  <1>28. pending' = FALSE /\ top' \in Nat /\ top' <= next /\ cursor' \in {None, top'}
    <2>1. pending \in BOOLEAN
      BY <1>0 DEF LinkInv
    <2>. QED
      BY <1>1, <1>4, <1>5, <1>11, <1>25, <2>1
  <1>. QED
    BY <1>1, <1>27, <1>28, PagePlaced
\* A page is put in below the first a entries of a pane.
Inserted(p, a, old) == SubSeq(p, 1, a) \o old \o SubSeq(p, a + 1, Len(p))

Lower(q, p, a, old, o) ==
    /\ q \in Seq(Entry) /\ Len(q) = Len(p) + o /\ DOMAIN q = 1..Len(p) + o
    /\ \A i \in DOMAIN q : q[i] = IF i <= a THEN p[i] ELSE IF i <= a + o THEN old[i - a]
                                  ELSE p[i - o]

\* Where the entries are once a page is put in.
LEMMA InsertIs ==
    ASSUME NEW p \in Seq(Entry), NEW a \in 0..Len(p), NEW old \in Seq(Entry),
           NEW q, q = Inserted(p, a, old)
    PROVE  Lower(q, p, a, old, Len(old))
  <1>1. Len(p) \in Nat /\ Len(old) \in Nat /\ a \in Nat /\ a <= Len(p)
    BY LenProperties
  <1>2. PICK x : x = SubSeq(p, 1, a)
    OBVIOUS
  <1>3. PICK y : y = SubSeq(p, a + 1, Len(p))
    OBVIOUS
  <1>4. x \in Seq(Entry) /\ Len(x) = a /\ \A i \in 1..a : x[i] = p[i]
    <2>1. x \in Seq(Entry) /\ Len(x) = (IF 1 <= a THEN a - 1 + 1 ELSE 0)
      BY <1>1, <1>2, SubSeqProperties
    <2>2. Len(x) = a
      BY <1>1, <2>1
    <2>3. \A i \in 1..a : x[i] = p[1 + i - 1]
      BY <1>1, <1>2, <2>2, SubSeqProperties
    <2>4. \A i \in 1..a : 1 + i - 1 = i
      BY <1>1
    <2>. QED
      BY <2>1, <2>2, <2>3, <2>4
  <1>5. y \in Seq(Entry) /\ Len(y) = Len(p) - a /\ \A i \in 1..Len(p) - a : y[i] = p[a + i]
    <2>1. y \in Seq(Entry) /\ Len(y) = (IF a + 1 <= Len(p) THEN Len(p) - (a + 1) + 1 ELSE 0)
      BY <1>1, <1>3, SubSeqProperties
    <2>2. Len(y) = Len(p) - a
      BY <1>1, <2>1
    <2>3. \A i \in 1..Len(p) - a : y[i] = p[(a + 1) + i - 1]
      BY <1>1, <1>3, <2>2, SubSeqProperties
    <2>4. \A i \in 1..Len(p) - a : (a + 1) + i - 1 = a + i
      BY <1>1
    <2>. QED
      BY <2>1, <2>2, <2>3, <2>4
  <1>6. PICK w : w = x \o old
    OBVIOUS
  <1>7. /\ w \in Seq(Entry) /\ Len(w) = a + Len(old)
        /\ \A i \in 1..a + Len(old) : w[i] = IF i <= a THEN x[i] ELSE old[i - a]
    BY <1>1, <1>4, <1>6, ConcatProperties
  <1>8. q = w \o y
    BY <1>2, <1>3, <1>6, Zenon DEF Inserted
  <1>9. /\ q \in Seq(Entry) /\ Len(q) = Len(w) + Len(y)
        /\ \A i \in 1..Len(w) + Len(y) : q[i] = IF i <= Len(w) THEN w[i] ELSE y[i - Len(w)]
    BY ONLY <1>5, <1>7, <1>8, ConcatProperties
  <1>10. Len(w) + Len(y) = Len(p) + Len(old)
    BY <1>1, <1>5, <1>7
  <1>11. DOMAIN q = 1..Len(p) + Len(old)
    BY <1>9, <1>10, LenProperties
  <1>12. ASSUME NEW i \in DOMAIN q
         PROVE  q[i] = IF i <= a THEN p[i] ELSE IF i <= a + Len(old) THEN old[i - a]
                       ELSE p[i - Len(old)]
    <2>1. i \in Nat /\ 1 <= i /\ i <= Len(p) + Len(old)
      BY ONLY <1>1, <1>11, <1>12
    <2>2. q[i] = IF i <= Len(w) THEN w[i] ELSE y[i - Len(w)]
      BY <1>9, <1>10, <1>11
    <2>3. CASE i <= a + Len(old)
      <3>1. i \in 1..a + Len(old)
        BY <1>1, <2>1, <2>3
      <3>2. q[i] = IF i <= a THEN x[i] ELSE old[i - a]
        BY <1>7, <2>2, <2>3, <3>1
      <3>3. i <= a => x[i] = p[i]
        BY <1>1, <1>4, <2>1
      <3>. QED
        BY <2>3, <3>2, <3>3
    <2>4. CASE ~(i <= a + Len(old))
      <3>1. PICK j : j = i - (a + Len(old))
        OBVIOUS
      <3>2. j \in 1..Len(p) - a /\ a + j = i - Len(old) /\ ~(i <= a)
        BY <1>1, <2>1, <2>4, <3>1
      <3>3. q[i] = y[j]
        BY <1>7, <2>2, <2>4, <3>1
      <3>4. y[j] = p[a + j]
        BY <1>5, <3>2
      <3>. QED
        BY <2>4, <3>2, <3>3, <3>4
    <2>. QED
      BY <2>3, <2>4
  <1>. QED
    BY <1>9, <1>10, <1>11, <1>12 DEF Lower

\* An older page goes above what is replayed.
LEMMA PrependKeeps ==
    ASSUME LobbyInv, NEW packet \in net, PrependHistory(packet)
    PROVE  LobbyInv'
  <1>0. StoreInv /\ LinkInv /\ TurnInv /\ NetInv /\ PaneInv
    BY DEF LobbyInv
  <1>1. /\ Receive(packet) /\ packet.kind = "history" /\ packet.older /\ pending' = FALSE
        /\ UNCHANGED <<anchor, lobby, records, horizon>>
    BY DEF PrependHistory, Receive, store
  <1>2. /\ PageIs(packet, records, next, top) /\ pending
        /\ \A k \in DOMAIN packet.entries : packet.entries[k].id < top
    <2>1. net' = net \ {packet}
      BY <1>1 DEF Receive
    <2>. QED
      BY <1>1, <2>1, PageTaken
  <1>3. /\ top \in Nat /\ top <= next /\ next \in Nat /\ cursor \in {None, top} /\ NotBelow(pane, top)
        /\ horizon \in Nat
    BY <1>0, <1>2 DEF LinkInv, PaneInv, StoreInv
  <1>4. CASE ~(lobby /\ anchor # None)
    <2>1. UNCHANGED <<cursor, pane, top>>
      BY <1>4 DEF PrependHistory
    <2>2. PaneInv'
      BY <1>0, <1>1, <1>3, <2>1 DEF PaneInv
    <2>3. top' \in Nat /\ top' <= next /\ cursor' \in {None, top'}
      BY <1>3, <2>1
    <2>. QED
      BY <1>1, <2>2, <2>3, PagePlaced
  <1>5. ASSUME lobby, anchor # None
        PROVE  LobbyInv'
    <2>1. PICK e : e = packet.entries
      OBVIOUS
    <2>2. PICK lo : lo = packet.start
      OBVIOUS
    <2>3. /\ e \in Seq(Replay) /\ lo \in Nat /\ lo <= next /\ Climbs(e)
          /\ (e # <<>> => lo = e[1].id) /\ (e = <<>> => ~packet.more)
          /\ Covers(records, e, lo, top) /\ \A k \in DOMAIN e : e[k].id < top
      BY <1>2, <2>1, <2>2 DEF PageIs
    <2>4. /\ e \in Seq(Entry) /\ Len(e) \in Nat /\ DOMAIN e = 1..Len(e) /\ Rep(e) = DOMAIN e
          /\ \A k \in DOMAIN e : e[k].id \in Nat /\ e[k].kind = "replay"
      BY <2>3, ReplaysAre
    <2>5. PICK a : a = anchor
      OBVIOUS
    <2>6. /\ pane \in Seq(Entry) /\ Len(pane) \in Nat /\ DOMAIN pane = 1..Len(pane)
          /\ Len(pane) <= PaneLimit /\ PaneLimit \in Nat /\ a \in 0..Len(pane) /\ a # None
          /\ Ordered(pane, a) /\ Covers(records, pane, top, horizon)
      BY <1>0, <1>5, <2>5, SizesAssumption, LenProperties DEF PaneInv
    <2>7. PICK room : room = PaneLimit - Len(pane)
      OBVIOUS
    <2>8. room \in Nat
      BY <2>6, <2>7
    <2>9. PICK old : old = H!Newest(e, room)
      OBVIOUS
    <2>10. /\ cursor' = IF packet.more /\ old = e THEN lo ELSE None
           /\ pane' = SubSeq(pane, 1, a) \o old \o SubSeq(pane, a + 1, Len(pane))
           /\ top' = IF old = e THEN lo ELSE IF old = <<>> THEN top ELSE old[1].id
      BY <1>5, <2>1, <2>2, <2>5, <2>7, <2>9, Zenon DEF PrependHistory
    <2>11. PICK o : o = Len(old)
      OBVIOUS
    <2>12. PICK s : s = Len(e) - o
      OBVIOUS
    <2>13. /\ old \in Seq(Entry) /\ o = (IF Len(e) <= room THEN Len(e) ELSE room)
           /\ \A i \in 1..o : old[i] = e[i + s]
           /\ Len(e) <= room => old = e
      BY <2>4, <2>8, <2>9, <2>11, <2>12, NewestIs
    <2>14. o \in Nat /\ s \in Nat /\ Len(e) = s + o /\ o <= room /\ DOMAIN old = 1..o
      <3>1. o \in Nat /\ s \in Nat /\ Len(e) = s + o /\ o <= room
        <4>1. PICK l : l = Len(e)
          OBVIOUS
        <4>2. l \in Nat /\ room \in Nat /\ s = l - o /\ o = IF l <= room THEN l ELSE room
          BY ONLY <2>4, <2>8, <2>12, <2>13, <4>1
        <4>3. o \in Nat /\ s \in Nat /\ l = s + o /\ o <= room
          BY ONLY <4>2
        <4>. QED
          BY ONLY <4>1, <4>3
      <3>2. DOMAIN old = 1..o
        BY ONLY <2>11, <2>13, LenProperties
      <3>. QED
        BY <3>1, <3>2
    <2>15. a \in Nat /\ a <= Len(pane)
      BY <2>6
    <2>16. PICK q : q = pane'
      OBVIOUS
    <2>17. /\ q \in Seq(Entry) /\ Len(q) = Len(pane) + o /\ DOMAIN q = 1..Len(pane) + o
           /\ \A i \in DOMAIN q : q[i] = IF i <= a THEN pane[i] ELSE IF i <= a + o THEN old[i - a]
                                         ELSE pane[i - o]
      <3>1. q = Inserted(pane, a, old)
        BY <2>10, <2>16, Zenon DEF Inserted
      <3>. QED
        <4>1. pane \in Seq(Entry) /\ a \in 0..Len(pane) /\ old \in Seq(Entry)
          BY ONLY <2>6, <2>13
        <4>2. Lower(q, pane, a, old, Len(old))
          BY ONLY <3>1, <4>1, InsertIs
        <4>. QED
          BY ONLY <2>11, <4>2 DEF Lower
    <2>18. \A i \in Rep(pane) : pane[i].id \in Nat /\ i \in Nat /\ a < i
      BY <2>6, EntryFields DEF Ordered, Rep
    <2>19. ASSUME NEW i \in Rep(q)
           PROVE  /\ i \in Nat /\ a < i
                  /\ \/ i <= a + o /\ (i - a) + s \in DOMAIN e /\ q[i] = e[(i - a) + s]
                     \/ a + o < i /\ i - o \in Rep(pane) /\ q[i] = pane[i - o]
      <3>1. i \in Nat /\ 1 <= i /\ i <= Len(pane) + o /\ i \in DOMAIN q /\ q[i].kind = "replay"
        BY <2>6, <2>14, <2>17 DEF Rep
      <3>2. q[i] = IF i <= a THEN pane[i] ELSE IF i <= a + o THEN old[i - a] ELSE pane[i - o]
        BY <2>17, <3>1
      <3>3. CASE i <= a
        <4>1. i \in 1..Len(pane)
          BY <2>6, <2>15, <3>1, <3>3
        <4>2. i \in Rep(pane)
          BY <2>6, <3>1, <3>2, <3>3, <4>1 DEF Rep
        <4>. QED
          BY <2>15, <2>18, <3>3, <4>2
      <3>4. CASE a < i /\ i <= a + o
        <4>1. i - a \in 1..o /\ (i - a) + s \in 1..Len(e)
          BY <2>14, <2>15, <3>1, <3>4
        <4>2. q[i] = old[i - a]
          BY <2>15, <3>1, <3>2, <3>4
        <4>. QED
          BY <2>4, <2>13, <3>1, <3>4, <4>1, <4>2
      <3>5. CASE a + o < i
        <4>1. i - o \in 1..Len(pane) /\ a < i /\ ~(i <= a) /\ ~(i <= a + o)
          BY <2>6, <2>14, <2>15, <3>1, <3>5
        <4>2. q[i] = pane[i - o]
          BY <3>2, <4>1
        <4>3. i - o \in Rep(pane)
          BY <2>6, <3>1, <4>1, <4>2 DEF Rep
        <4>. QED
          BY <3>1, <3>5, <4>1, <4>2, <4>3
      <3>. QED
        BY <2>14, <2>15, <3>1, <3>3, <3>4, <3>5
    <2>20. \A i, j \in Rep(q) : i < j => q[i].id < q[j].id
      <3> SUFFICES ASSUME NEW i \in Rep(q), NEW j \in Rep(q), i < j
                   PROVE  q[i].id < q[j].id
        OBVIOUS
      <3>1. /\ i \in Nat
            /\ \/ i <= a + o /\ (i - a) + s \in DOMAIN e /\ q[i] = e[(i - a) + s]
               \/ a + o < i /\ i - o \in Rep(pane) /\ q[i] = pane[i - o]
        BY <2>19
      <3>2. /\ j \in Nat
            /\ \/ j <= a + o /\ (j - a) + s \in DOMAIN e /\ q[j] = e[(j - a) + s]
               \/ a + o < j /\ j - o \in Rep(pane) /\ q[j] = pane[j - o]
        BY <2>19
      <3>3. CASE j <= a + o
        <4>1. i <= a + o /\ (i - a) + s < (j - a) + s /\ ~(a + o < i) /\ ~(a + o < j)
          BY <2>14, <2>15, <3>1, <3>2, <3>3
        <4>. QED
          BY <2>3, <3>1, <3>2, <4>1 DEF Climbs
      <3>4. CASE a + o < j
        <4>1. ~(j <= a + o)
          BY <2>14, <2>15, <3>2, <3>4
        <4>2. CASE i <= a + o
          <5>1. ~(a + o < i)
            BY <2>14, <2>15, <3>1, <4>2
          <5>2. q[i].id \in Nat /\ q[i].id < top
            BY <2>3, <2>4, <3>1, <5>1
          <5>3. q[j].id \in Nat /\ top <= q[j].id
            BY <1>3, <2>18, <3>2, <4>1 DEF NotBelow
          <5>. QED
            BY <1>3, <5>2, <5>3
        <4>3. CASE a + o < i
          <5>1. ~(i <= a + o) /\ i - o < j - o
            BY <2>14, <2>15, <3>1, <3>2, <4>3
          <5>. QED
            BY <2>6, <3>1, <3>2, <4>1, <5>1 DEF Ordered
        <4>. QED
          BY <2>14, <2>15, <3>1, <4>2, <4>3
      <3>. QED
        BY <2>14, <2>15, <3>2, <3>3, <3>4
    <2>21. Ordered(q, a)
      BY <2>19, <2>20 DEF Ordered
    <2>22. \A i \in 1..o : a + i \in Rep(q) /\ q[a + i] = e[i + s]
      <3> SUFFICES ASSUME NEW i \in 1..o PROVE a + i \in Rep(q) /\ q[a + i] = e[i + s]
        OBVIOUS
      <3>1. PICK k : k = a + i
        OBVIOUS
      <3>2. /\ k \in 1..Len(pane) + o /\ ~(k <= a) /\ k <= a + o /\ k - a = i /\ i + s \in 1..Len(e)
            /\ i \in Nat
        BY <2>6, <2>14, <2>15, <3>1
      <3>3. q[k] = old[k - a]
        BY <2>17, <3>2
      <3>4. q[k] = e[i + s]
        BY <2>13, <3>2, <3>3
      <3>. QED
        BY <2>4, <2>17, <3>1, <3>2, <3>4 DEF Rep
    <2>23. \A i \in Rep(pane) : i + o \in Rep(q) /\ q[i + o] = pane[i]
      <3> SUFFICES ASSUME NEW i \in Rep(pane) PROVE i + o \in Rep(q) /\ q[i + o] = pane[i]
        OBVIOUS
      <3>1. PICK k : k = i + o
        OBVIOUS
      <3>2. i \in 1..Len(pane) /\ i \in Nat /\ a < i /\ pane[i].kind = "replay"
        BY <2>6, <2>18 DEF Rep
      <3>3. k \in 1..Len(pane) + o /\ ~(k <= a) /\ ~(k <= a + o) /\ k - o = i
        BY <2>6, <2>14, <2>15, <3>1, <3>2
      <3>4. q[k] = pane[k - o]
        BY <2>17, <3>3
      <3>. QED
        BY <2>17, <3>1, <3>2, <3>3, <3>4 DEF Rep
    <2>24. s = 0 => old = e
      <3>1. s = 0 => Len(e) <= room
        BY ONLY <2>4, <2>8, <2>14
      <3>. QED
        BY ONLY <2>13, <3>1
    <2>25. old # e => s \in DOMAIN e /\ s >= 1
      BY <2>4, <2>14, <2>24
    <2>26. old # e /\ old # <<>> => 1 \in 1..o /\ s + 1 \in DOMAIN e /\ top' = e[s + 1].id
      <3>1. old # <<>> => o >= 1
        BY <2>11, <2>13, <2>14, EmptySeq
      <3>2. old # <<>> => 1 \in 1..o /\ s + 1 \in DOMAIN e /\ 1 + s = s + 1
        BY <2>4, <2>14, <3>1
      <3>3. old # <<>> => old[1] = e[s + 1]
        BY <2>13, <3>2
      <3>. QED
        BY <2>10, <3>2, <3>3
    <2>27. top' \in Nat /\ top' <= next
      <3>1. CASE old = e
        BY <2>3, <2>10, <3>1
      <3>2. CASE old # e /\ old = <<>>
        BY <1>3, <2>10, <3>2
      <3>3. CASE old # e /\ old # <<>>
        <4>1. e[s + 1].id \in Nat /\ e[s + 1].id < top
          BY <2>3, <2>4, <2>26, <3>3
        <4>. QED
          BY <1>3, <2>26, <3>3, <4>1
      <3>. QED
        BY <3>1, <3>2, <3>3
    <2>28. cursor' \in {None, top'}
      BY <2>10
    <2>29. cursor' # None => NotBelow(q, top')
      <3> SUFFICES ASSUME cursor' # None, NEW i \in Rep(q) PROVE top' <= q[i].id
        BY DEF NotBelow
      <3>1. packet.more /\ old = e /\ top' = lo
        BY <2>10
      <3>2. e # <<>> /\ lo = e[1].id
        BY <2>3, <3>1
      <3>3. 1 \in DOMAIN e /\ \A k \in DOMAIN e : k = 1 \/ 1 < k
        BY <2>4, <3>2, EmptySeq
      <3>4. \A k \in DOMAIN e : lo <= e[k].id
        BY <2>3, <2>4, <3>2, <3>3 DEF Climbs
      <3>5. lo < top
        BY <2>3, <3>2, <3>3
      <3>6. \A k \in Rep(pane) : lo <= pane[k].id
        BY <1>3, <2>3, <2>18, <3>5 DEF NotBelow
      <3>. QED
        BY <2>19, <3>1, <3>4, <3>6
    <2>30. Covers(records, q, top', horizon)
      <3> SUFFICES ASSUME NEW i \in DOMAIN records, top' <= records[i].id, records[i].id < horizon
                   PROVE  \E k \in Rep(q) : q[k].id = records[i].id /\ q[k].msg = records[i].msg
        BY DEF Covers
      <3>1. records[i].id \in Nat
        <4>1. records \in Seq(H!Record)
          BY <1>0 DEF StoreInv
        <4>. QED
          BY <4>1, RecordFields
      <3>2. CASE top <= records[i].id
        <4>1. PICK k \in Rep(pane) : pane[k].id = records[i].id /\ pane[k].msg = records[i].msg
          BY <2>6, <3>2 DEF Covers
        <4>. QED
          BY <2>23, <4>1
      <3>3. CASE records[i].id < top
        <4>1. lo <= records[i].id
          <5>1. CASE old = e
            BY <2>10, <5>1
          <5>2. CASE old # e /\ old = <<>>
            BY <1>3, <2>10, <3>1, <3>3, <5>2
          <5>3. CASE old # e /\ old # <<>>
            <6>1. e # <<>> /\ 1 \in DOMAIN e /\ 1 < s + 1
              BY <2>4, <2>14, <2>25, <2>26, <5>3, EmptySeq
            <6>2. lo = e[1].id /\ e[1].id < e[s + 1].id
              BY <2>3, <2>26, <5>3, <6>1 DEF Climbs
            <6>3. e[s + 1].id \in Nat
              BY <2>4, <2>26, <5>3
            <6>. QED
              BY <2>3, <2>26, <3>1, <5>3, <6>2, <6>3
          <5>. QED
            BY <5>1, <5>2, <5>3
        <4>2. PICK k \in DOMAIN e : e[k].id = records[i].id /\ e[k].msg = records[i].msg
          BY <2>3, <2>4, <3>3, <4>1 DEF Covers
        <4>3. s < k
          <5>1. CASE old = e
            <6>1. s = 0
              BY <2>11, <2>12, <2>14, <5>1
            <6>. QED
              BY <2>4, <6>1
          <5>2. CASE old # e /\ old = <<>>
            BY <1>3, <2>10, <3>1, <3>3, <5>2
          <5>3. CASE old # e /\ old # <<>>
            <6> SUFFICES ASSUME k < s + 1 PROVE FALSE
              BY <2>4, <2>14
            <6>1. e[k].id < e[s + 1].id
              BY <2>3, <2>26, <5>3 DEF Climbs
            <6>2. e[s + 1].id \in Nat
              BY <2>4, <2>26, <5>3
            <6>. QED
              BY <2>26, <3>1, <4>2, <5>3, <6>1, <6>2
          <5>. QED
            BY <5>1, <5>2, <5>3
        <4>4. k - s \in 1..o /\ (k - s) + s = k
          BY <2>4, <2>14, <4>3
        <4>5. a + (k - s) \in Rep(q) /\ q[a + (k - s)] = e[k]
          BY <2>22, <4>4
        <4>. QED
          BY <4>2, <4>5
      <3>. QED
        BY <1>3, <3>1, <3>2, <3>3
    <2>31. Len(q) <= PaneLimit /\ a \in 0..Len(q)
      BY <2>6, <2>7, <2>14, <2>15, <2>17
    <2>32. PaneInv'
      BY <1>1, <2>5, <2>6, <2>16, <2>17, <2>21, <2>29, <2>30, <2>31 DEF PaneInv
    <2>. QED
      BY <1>1, <2>27, <2>28, <2>32, PagePlaced
  <1>. QED
    BY <1>4, <1>5

\* Before anything is said and anybody is there.
LEMMA LobbyStarts == Init => LobbyInv
  <1> SUFFICES ASSUME Init PROVE LobbyInv
    OBVIOUS
  <1>1. records = <<>> /\ next = 0 /\ op = [s \in Sessions |-> None] /\ said = 0
    BY DEF Init, H!Init
  <1>2. /\ live = FALSE /\ asked = <<>> /\ net = {} /\ pane = <<>> /\ anchor = None
        /\ cursor = None /\ pending = FALSE /\ lobby = TRUE /\ horizon = 0 /\ top = 0
    BY DEF Init
  <1>3. records \in Seq(H!Record) /\ DOMAIN records = {}
    BY <1>1, EmptySeq
  <1>4. StoreInv
    <2>1. op \in [Sessions -> H!Op \cup {None}] /\ \A s \in Sessions : op[s] = None
      BY <1>1
    <2>. QED
      BY <1>1, <1>3, <2>1 DEF StoreInv, Climbs
  <1>5. pane \in Seq(Entry) /\ Len(pane) = 0 /\ Rep(pane) = {}
    BY <1>2, EmptySeq DEF Rep
  <1>6. <<>> # <<None>> /\ <<>> # <<0>>
    BY AskedIs
  <1>7. LinkInv
    <2>1. asked \in {<<>>, <<None>>, <<top>>} /\ cursor \in {None, top} /\ 0 \in Nat /\ 0 <= 0
      BY <1>2
    <2>. QED
      BY ONLY <1>1, <1>2, <2>1 DEF LinkInv
  <1>8. NetInv
    BY <1>2 DEF NetInv
  <1>9. PaneInv
    BY <1>2, <1>5, SizesAssumption DEF PaneInv, Ordered
  <1>10. TurnInv
    BY <1>2, <1>5, <1>6 DEF TurnInv, NoPage, Blank
  <1>. QED
    BY <1>4, <1>7, <1>8, <1>9, <1>10 DEF LobbyInv

\* Every step of the server, the client and the network keeps the invariant.
LEMMA LobbySteps == LobbyInv /\ [Next]_vars => LobbyInv'
  <1> SUFFICES ASSUME LobbyInv, [Next]_vars PROVE LobbyInv'
    OBVIOUS
  <1>1. CASE \E s \in Sessions : Store(s) \/ Tell(s)
    BY <1>1, ServerKeeps
  <1>2. CASE Login
    BY <1>2, LoginKeeps
  <1>3. CASE SendHistory
    BY <1>3, SendKeeps
  <1>4. CASE Restart
    <2>1. StoreInv'
      BY <1>4, RestartStores DEF Restart, LobbyInv
    <2>. QED
      BY <1>4, <2>1, OverKeeps DEF Restart
  <1>5. CASE Lose
    <2>1. StoreInv'
      BY <1>5 DEF Lose, store, StoreInv, LobbyInv
    <2>. QED
      BY <1>5, <2>1, OverKeeps DEF Lose
  <1>6. CASE Ask
    BY <1>6, AskKeeps
  <1>7. CASE PushLine \/ SwitchChannel \/ ClearMessages
    BY <1>7, ClientKeeps
  <1>8. CASE Deliver
    <2>1. PICK packet \in net : \/ ReceiveMessage(packet) \/ DeleteMessage(packet)
                                \/ StartHistory(packet) \/ PrependHistory(packet)
      BY <1>8 DEF Deliver
    <2>. QED
      BY <2>1, ClientKeeps, StartKeeps, PrependKeeps
  <1>9. CASE UNCHANGED vars
    BY <1>9 DEF vars, LobbyInv, StoreInv, LinkInv, TurnInv, NetInv, PaneInv, NoPage, Blank
  <1>. QED
    BY <1>1, <1>2, <1>3, <1>4, <1>5, <1>6, <1>7, <1>8, <1>9 DEF Next, ServerStep, ClientStep

\* Whatever is said, deleted, dropped by the cap, looked at or lost while pages
\* are on their way, the replayed messages stand in the pane in the order they
\* were said, below the anchor under which prepend_history puts the next page.
THEOREM ReplayOrdered == Spec => []ReplayInOrder
  <1>1. LobbyInv => ReplayInOrder
    BY DEF LobbyInv, PaneInv, Ordered, Rep, ReplayInOrder, Replays
  <1>. QED
    BY <1>1, LobbyStarts, LobbySteps, PTL DEF Spec

\* Nothing that the server keeps between the oldest message replayed and the
\* login is missing from the pane: a page goes on exactly where the one before
\* it ended, although records are trimmed and deleted between the two.
THEOREM NothingMissing == Spec => []NoGap
  <1>1. LobbyInv => NoGap
    <2> SUFFICES ASSUME LobbyInv, anchor # None, NEW i \in DOMAIN records,
                        records[i].id \in top..horizon - 1
                 PROVE  \E j \in Replays : pane[j].msg = records[i].msg
      BY DEF NoGap
    <2>1. Covers(records, pane, top, horizon) /\ horizon \in Nat /\ top \in Nat
      BY DEF LobbyInv, PaneInv, LinkInv
    <2>2. records[i].id \in Nat
      BY RecordFields DEF LobbyInv, StoreInv
    <2>3. top <= records[i].id /\ records[i].id < horizon
      BY <2>1, <2>2
    <2>. QED
      BY <2>1, <2>3 DEF Covers, Rep, Replays
  <1>. QED
    BY <1>1, LobbyStarts, LobbySteps, PTL DEF Spec

\* The pane, the pages and the broadcasts only read the stored messages: every step of
\* the server and its client is a step of module History, or changes nothing there.
\* What is proved of History for all its behaviours holds under them.
THEOREM LobbyKeepsHistory == Spec => H!Spec
  <1>1. Init => H!Init
    BY DEF Init
  <1>2. [Next]_vars => [H!Next]_(H!vars)
    <2>. SUFFICES ASSUME [Next]_vars
                  PROVE  H!Next \/ UNCHANGED store
      BY DEF H!vars, store
    <2>1. CASE Restart
      BY <2>1 DEF Restart, H!Next
    <2>2. ASSUME NEW s \in Sessions, Store(s) \/ Tell(s)
          PROVE  H!Next
      <3>1. H!HandlerStep(s)
        BY <2>2 DEF Store, Tell, H!HandlerStep
      <3>. QED
        BY <3>1 DEF H!Next
    <2>3. CASE Login \/ SendHistory
      BY <2>3 DEF Login, SendHistory
    <2>4. CASE Deliver
      BY <2>4 DEF Deliver, ReceiveMessage, StartHistory, PrependHistory, DeleteMessage, Receive
    <2>5. CASE PushLine \/ Ask \/ SwitchChannel \/ ClearMessages \/ Lose
      BY <2>5 DEF PushLine, Ask, SwitchChannel, ClearMessages, Lose
    <2>6. CASE UNCHANGED vars
      BY <2>6 DEF vars, store
    <2>. QED
      BY <2>1, <2>2, <2>3, <2>4, <2>5, <2>6 DEF Next, ServerStep, ClientStep
  <1>. QED
    BY <1>1, <1>2, PTL DEF Spec, H!Spec

-----------------------------------------------------------------------------
(* LobbyPane: the ids that the pane shows.                                 *)

\* The id of x is given out, and stands for the message of x or for none.
Named(r, n, x) == x.id \in Nat /\ x.id < n /\ \A i \in DOMAIN r : r[i].id = x.id => r[i].msg = x.msg

AllNamed(r, n, e) == \A k \in DOMAIN e : e[k].kind # "line" => Named(r, n, e[k])

\* What the pane shows is named, and what is on its way to it.
ShownInv ==
    /\ AllNamed(records, next, pane)
    /\ \A p \in net : /\ p.kind = "message" => Named(records, next, p)
                      /\ p.kind = "history" => AllNamed(records, next, p.entries)
    /\ \A s \in Sessions : op[s] # None /\ op[s].do = "tell" => Named(records, next, op[s])

\* A name stays one while records are thinned or get ids from n on.
LEMMA NamedLater ==
    ASSUME NEW r, NEW t \in Seq(H!Record), NEW n \in Nat, NEW m \in Nat, n <= m, Later(t, r, n)
    PROVE  /\ \A x : Named(r, n, x) => Named(t, m, x)
           /\ \A e : AllNamed(r, n, e) => AllNamed(t, m, e)
  <1>1. \A i \in DOMAIN t : t[i].id \in Nat
    BY RecordFields
  <1>2. ASSUME NEW x, Named(r, n, x) PROVE Named(t, m, x)
    <2>1. x.id \in Nat /\ x.id < n /\ x.id < m
      BY <1>2 DEF Named
    <2>2. ASSUME NEW i \in DOMAIN t, t[i].id = x.id PROVE t[i].msg = x.msg
      <3>1. PICK k \in DOMAIN r : r[k] = t[i]
        BY <1>1, <2>1, <2>2 DEF Later
      <3>. QED
        BY <1>2, <2>2, <3>1 DEF Named
    <2>. QED
      BY <2>1, <2>2 DEF Named
  <1>. QED
    BY <1>2 DEF AllNamed

\* The id of a record stands for the message of the record.
LEMMA RecordNamed ==
    ASSUME StoreInv, NEW i \in DOMAIN records, NEW x, x.id = records[i].id, x.msg = records[i].msg
    PROVE  Named(records, next, x)
  <1>1. /\ records \in Seq(H!Record) /\ next \in Nat /\ Climbs(records)
        /\ \A k \in DOMAIN records : records[k].id < next
    BY DEF StoreInv
  <1>2. \A k \in DOMAIN records : records[k].id \in Nat /\ k \in Nat
    BY <1>1, RecordFields
  <1>3. ASSUME NEW k \in DOMAIN records, records[k].id = x.id PROVE k = i
    <2>1. k < i \/ i < k \/ k = i
      BY <1>2
    <2>. QED
      BY <1>1, <1>2, <1>3, <2>1 DEF Climbs
  <1>. QED
    BY <1>1, <1>2, <1>3 DEF Named

\* push: the id that is told is that of the message that was said.
LEMMA SayNames ==
    ASSUME StoreInv, NEW s \in Sessions, NEW limit \in Limits, H!Say(s, FALSE, limit)
    PROVE  Named(records', next', op'[s])
  <1>0. /\ records \in Seq(H!Record) /\ next \in Nat /\ said \in Nat
        /\ op \in [Sessions -> H!Op \cup {None}]
        /\ \A i \in DOMAIN records : records[i].id < next
    BY DEF StoreInv
  <1>l. limit \in Nat
    BY LobbyAssumption
  <1>1. PICK r : /\ r = [id |-> next, msg |-> said, author |-> s, media |-> FALSE,
                         reply  |-> IF H!Replying(s) THEN op[s].id ELSE None,
                         target |-> IF H!Replying(s) THEN op[s].msg ELSE None,
                         hearts |-> {}, edited |-> FALSE, pinned |-> FALSE]
                 /\ records' = IF limit = 0 THEN records ELSE H!Newest(Append(records, r), limit)
    BY DEF H!Say
  <1>2. next' = next + 1 /\ op' = [op EXCEPT ![s] = [do |-> "tell", id |-> next, msg |-> said]]
    BY DEF H!Say, H!Begin
  <1>3. op'[s].id = next /\ op'[s].msg = said
    BY <1>0, <1>2
  <1>4. H!Replying(s) => op[s] \in H!Op /\ op[s].id \in Nat /\ op[s].msg \in Nat
    BY <1>0 DEF H!Replying, H!Op
  <1>5. r \in H!Record /\ r.id = next /\ r.msg = said
    BY <1>0, <1>1, <1>4 DEF H!Record
  <1>6. Len(records) \in Nat /\ DOMAIN records = 1..Len(records)
    BY <1>0, LenProperties
  <1>7. \A i \in DOMAIN records : records[i].id \in Nat
    BY <1>0, RecordFields
  <1>8. PICK t : t = Append(records, r)
    OBVIOUS
  <1>9. /\ t \in Seq(H!Record) /\ Len(t) = Len(records) + 1 /\ DOMAIN t = 1..Len(records) + 1
        /\ \A i \in 1..Len(records) : t[i] = records[i]
        /\ t[Len(records) + 1] = r
    BY <1>0, <1>5, <1>6, <1>8, AppendProperties, LenProperties
  <1>10. \A i \in DOMAIN t : t[i].id = next => t[i].msg = said
    <2>1. \A i \in DOMAIN t : (i \in DOMAIN records /\ t[i] = records[i]) \/ t[i] = r
      BY <1>6, <1>9
    <2>2. \A i \in DOMAIN records : records[i].id # next
      BY <1>0, <1>7
    <2>. QED
      BY <1>5, <2>1, <2>2
  <1>11. \A i \in DOMAIN records' : records'[i].id = next => records'[i].msg = said
    <2>1. CASE limit = 0
      <3>1. records' = records
        BY <1>1, <2>1
      <3>2. \A i \in DOMAIN records : records[i].id # next
        BY <1>0, <1>7
      <3>. QED
        BY <3>1, <3>2
    <2>2. CASE limit # 0
      <3>1. records' = H!Newest(t, limit)
        BY <1>1, <1>8, <2>2
      <3>2. /\ records' \in Seq(H!Record) /\ Len(records') = IF Len(t) <= limit THEN Len(t) ELSE limit
            /\ \A i \in 1..Len(records') : records'[i] = t[i + (Len(t) - Len(records'))]
        <4>1. /\ H!Newest(t, limit) \in Seq(H!Record)
              /\ Len(H!Newest(t, limit)) = IF Len(t) <= limit THEN Len(t) ELSE limit
              /\ \A i \in 1..Len(H!Newest(t, limit)) :
                    H!Newest(t, limit)[i] = t[i + (Len(t) - Len(H!Newest(t, limit)))]
          BY <1>l, <1>9, NewestIs
        <4>. QED
          BY <3>1, <4>1, Zenon
      <3>3. DOMAIN records' = 1..Len(records') /\ Len(records') \in Nat /\ Len(t) - Len(records') \in Nat
        BY <1>l, <1>6, <1>9, <3>2, LenProperties
      <3> DEFINE d == Len(t) - Len(records')
      <3>4. \A i \in DOMAIN records' : i + d \in DOMAIN t /\ records'[i] = t[i + d]
        BY <1>6, <1>9, <3>2, <3>3
      <3>. HIDE DEF d
      <3>. QED
        BY <1>10, <3>4
    <2>. QED
      BY <2>1, <2>2
  <1>. QED
    BY <1>0, <1>2, <1>3, <1>11 DEF Named

\* What a handler is about to tell, it was about to tell before, or it says it now.
LEMMA TellsAre ==
    ASSUME StoreInv, NEW s \in Sessions, Store(s) \/ Tell(s),
           NEW x \in Sessions, op'[x] # None, op'[x].do = "tell"
    PROVE  op'[x] = op[x] \/ (x = s /\ \E limit \in Limits : H!Say(s, FALSE, limit))
  <1>0. op \in [Sessions -> H!Op \cup {None}]
    BY DEF StoreInv
  <1>1. CASE \E o : op' = [op EXCEPT ![s] = o] /\ (o = None \/ o.do # "tell")
    <2>1. PICK o : op' = [op EXCEPT ![s] = o] /\ (o = None \/ o.do # "tell")
      BY <1>1
    <2>2. op'[x] = IF x = s THEN o ELSE op[x]
      BY <1>0, <2>1
    <2>. QED
      BY <2>1, <2>2
  <1>2. CASE H!CheckDelete(s)
    <2>1. PICK i \in DOMAIN records : op' = [op EXCEPT ![s] = [do |-> "delete", id |-> records[i].id, msg |-> records[i].msg]]
      BY <1>2 DEF H!CheckDelete, H!Begin
    <2>2. PICK o : o = [do |-> "delete", id |-> records[i].id, msg |-> records[i].msg]
      OBVIOUS
    <2>3. op' = [op EXCEPT ![s] = o] /\ o.do # "tell"
      BY ONLY <2>1, <2>2
    <2>. QED
      BY <1>1, <2>3
  <1>3. CASE H!Delete(s)
    <2>1. CASE op' = [op EXCEPT ![s] = None]
      BY <1>1, <2>1
    <2>2. CASE op' = [op EXCEPT ![s] = [do |-> "untell", id |-> op[s].id, msg |-> op[s].msg]]
      <3>2. PICK o : o = [do |-> "untell", id |-> op[s].id, msg |-> op[s].msg]
        OBVIOUS
      <3>3. op' = [op EXCEPT ![s] = o] /\ o.do # "tell"
        BY ONLY <2>2, <3>2
      <3>. QED
        BY <1>1, <3>3
    <2>. QED
      BY <1>3, <2>1, <2>2 DEF H!Delete, H!Done, H!Begin
  <1>4. CASE H!SayUnkept(s) \/ H!Tell(s)
    BY <1>1, <1>4 DEF H!SayUnkept, H!Tell, H!Done
  <1>5. ASSUME NEW limit \in Limits, H!Say(s, FALSE, limit)
        PROVE  op'[x] = op[x] \/ x = s
    <2>1. op' = [op EXCEPT ![s] = [do |-> "tell", id |-> next, msg |-> said]]
      BY <1>5 DEF H!Say, H!Begin
    <2>. QED
      BY <1>0, <2>1
  <1>. QED
    BY <1>2, <1>3, <1>4, <1>5 DEF Store, Tell

\* The server changes what it keeps, and may tell it.
LEMMA ServerShows ==
    ASSUME LobbyInv, ShownInv, NEW s \in Sessions, Store(s) \/ Tell(s)
    PROVE  ShownInv'
  <1>0. StoreInv
    BY DEF LobbyInv
  <1>1. StoreInv' /\ next <= next' /\ Later(records', records, next)
    BY <1>0, ServerStores
  <1>2. next \in Nat /\ next' \in Nat /\ records' \in Seq(H!Record)
    BY <1>0, <1>1 DEF StoreInv
  <1>3. /\ \A x : Named(records, next, x) => Named(records', next', x)
        /\ \A e : AllNamed(records, next, e) => AllNamed(records', next', e)
    BY <1>1, <1>2, NamedLater
  <1>4. pane' = pane
    BY DEF Store, Tell, client
  <1>5. ASSUME NEW x \in Sessions, op'[x] # None, op'[x].do = "tell"
        PROVE  Named(records', next', op'[x])
    <2>1. CASE op'[x] = op[x]
      BY <1>3, <1>5, <2>1 DEF ShownInv
    <2>2. CASE x = s /\ \E limit \in Limits : H!Say(s, FALSE, limit)
      BY <1>0, <2>2, SayNames
    <2>. QED
      BY <1>0, <1>5, <2>1, <2>2, TellsAre
  <1>6. \/ net' = net
        \/ \E q : net' = net \cup {q} /\ q.kind # "history" /\ (q.kind = "message" => Named(records, next, q))
    <2>1. CASE Store(s) \/ ~live
      BY <2>1 DEF Store, Tell, link
    <2>2. CASE Tell(s) /\ live /\ op[s].do = "tell"
      <3>1. PICK q : q = [kind |-> "message", id |-> op[s].id, msg |-> op[s].msg]
        OBVIOUS
      <3>2. net' = net \cup {q}
        BY <2>2, <3>1 DEF Tell
      <3>3. q.kind = "message" /\ q.id = op[s].id /\ q.msg = op[s].msg
        BY ONLY <3>1
      <3>4. Named(records, next, op[s])
        BY <2>2 DEF Tell, H!Tell, ShownInv
      <3>5. Named(records, next, q)
        BY ONLY <3>3, <3>4 DEF Named
      <3>. QED
        BY <3>2, <3>3, <3>5
    <2>3. CASE Tell(s) /\ live /\ op[s].do # "tell"
      <3>1. PICK q : q = [kind |-> "deleted", id |-> op[s].id]
        OBVIOUS
      <3>2. net' = net \cup {q}
        BY <2>3, <3>1 DEF Tell
      <3>3. q.kind = "deleted"
        BY ONLY <3>1
      <3>. QED
        BY <3>2, <3>3
    <2>. QED
      BY <2>1, <2>2, <2>3
  <1>7. ASSUME NEW p \in net'
        PROVE  /\ p.kind = "message" => Named(records', next', p)
               /\ p.kind = "history" => AllNamed(records', next', p.entries)
    <2>1. /\ p.kind = "message" => Named(records, next, p)
          /\ p.kind = "history" => AllNamed(records, next, p.entries)
      BY <1>6, <1>7 DEF ShownInv
    <2>. QED
      BY <1>3, <2>1
  <1>. QED
    BY <1>3, <1>4, <1>5, <1>7 DEF ShownInv

\* The client's own steps only have to keep its pane named.
LEMMA PaneShows ==
    ASSUME ShownInv, UNCHANGED <<records, next, op>>, net' \subseteq net, AllNamed(records, next, pane')
    PROVE  ShownInv'
  BY DEF ShownInv

\* Every entry of q is one of p or of e.
From(q, p, e) == \A i \in DOMAIN q : (\E j \in DOMAIN p : p[j] = q[i]) \/ \E j \in DOMAIN e : e[j] = q[i]

\* Entries that come from named ones are named.
LEMMA FromNamed ==
    ASSUME NEW r, NEW n, NEW p, NEW e, NEW q, From(q, p, e), AllNamed(r, n, p), AllNamed(r, n, e)
    PROVE  AllNamed(r, n, q)
  BY DEF From, AllNamed

\* What a pane holds after entries were added was in it or is one of them.
LEMMA PushFrom ==
    ASSUME NEW base \in Seq(Entry), NEW e \in Seq(Entry), Len(base) <= PaneLimit,
           NEW a \in 0..Len(base) \cup {None}, NEW c, Push(e, base, a, c)
    PROVE  From(pane', base, e)
  <1>1. PICK d \in Nat : Capped(d, base, e, a, c)
    BY PushIs
  <1>2. /\ pane' \in Seq(Entry) /\ Len(pane') = Len(base) + Len(e) - d
        /\ \A i \in 1..Len(pane') :
              pane'[i] = IF i + d <= Len(base) THEN base[i + d] ELSE e[i + d - Len(base)]
    BY <1>1 DEF Capped
  <1>3. /\ Len(base) \in Nat /\ DOMAIN base = 1..Len(base) /\ Len(e) \in Nat /\ DOMAIN e = 1..Len(e)
        /\ DOMAIN pane' = 1..Len(pane') /\ Len(pane') \in Nat
    BY <1>2, LenProperties
  <1>4. ASSUME NEW i \in DOMAIN pane'
        PROVE  (\E j \in DOMAIN base : base[j] = pane'[i]) \/ \E j \in DOMAIN e : e[j] = pane'[i]
    <2>1. CASE i + d <= Len(base)
      <3>1. i + d \in DOMAIN base
        BY <1>3, <2>1
      <3>. QED
        BY <1>2, <1>3, <2>1, <3>1
    <2>2. CASE ~(i + d <= Len(base))
      <3>1. i + d - Len(base) \in DOMAIN e
        BY <1>2, <1>3, <2>2
      <3>. QED
        BY <1>2, <1>3, <2>2, <3>1
    <2>. QED
      BY <2>1, <2>2
  <1>. QED
    BY <1>4 DEF From

\* The newest of a sequence are of the sequence.
LEMMA NewestFrom ==
    ASSUME NEW S, NEW s \in Seq(S), NEW n \in Nat
    PROVE  From(H!Newest(s, n), s, s)
  <1>1. PICK t : t = H!Newest(s, n)
    OBVIOUS
  <1>2. /\ t \in Seq(S) /\ Len(t) = IF Len(s) <= n THEN Len(s) ELSE n
        /\ \A i \in 1..Len(t) : t[i] = s[i + (Len(s) - Len(t))]
    BY <1>1, NewestIs
  <1>3. Len(s) \in Nat /\ DOMAIN s = 1..Len(s) /\ Len(t) \in Nat /\ DOMAIN t = 1..Len(t)
    BY <1>2, LenProperties
  <1>4. \A i \in DOMAIN t : i + (Len(s) - Len(t)) \in DOMAIN s
    BY <1>2, <1>3
  <1>5. From(t, s, s)
    BY <1>2, <1>3, <1>4 DEF From
  <1>. QED
    BY <1>1, <1>5

\* A message that is delivered is named by its packet.
LEMMA ReceiveShows ==
    ASSUME LobbyInv, ShownInv, NEW packet \in net, ReceiveMessage(packet)
    PROVE  ShownInv'
  <1>0. pane \in Seq(Entry) /\ Len(pane) <= PaneLimit /\ anchor \in 0..Len(pane) \cup {None}
    BY DEF LobbyInv, PaneInv
  <1>1. PICK x : x = [kind |-> "live", id |-> packet.id, msg |-> packet.msg]
    OBVIOUS
  <1>2. PICK e : e = <<x>>
    OBVIOUS
  <1>3. /\ net' \subseteq net /\ packet.kind = "message" /\ Push(e, pane, anchor, cursor)
        /\ UNCHANGED <<records, next, op>>
    BY <1>1, <1>2 DEF ReceiveMessage, Receive, store
  <1>4. packet.id \in Nat /\ packet.msg \in Nat
    BY <1>3 DEF LobbyInv, NetInv
  <1>5. x \in Entry /\ x.id = packet.id /\ x.msg = packet.msg
    BY <1>1, <1>4 DEF Entry
  <1>6. e \in Seq(Entry) /\ DOMAIN e = {1} /\ e[1] = x
    BY <1>2, <1>5
  <1>7. Named(records, next, packet)
    BY <1>3 DEF ShownInv
  <1>8. Named(records, next, x)
    BY ONLY <1>5, <1>7 DEF Named
  <1>9. AllNamed(records, next, e)
    BY <1>6, <1>8 DEF AllNamed
  <1>10. From(pane', pane, e)
    BY <1>0, <1>3, <1>6, PushFrom
  <1>11. AllNamed(records, next, pane')
    BY <1>9, <1>10, FromNamed DEF ShownInv
  <1>. QED
    BY <1>3, <1>11, PaneShows

\* A line of another kind names nothing.
LEMMA LineShows ==
    ASSUME LobbyInv, ShownInv, PushLine
    PROVE  ShownInv'
  <1>0. pane \in Seq(Entry) /\ Len(pane) <= PaneLimit /\ anchor \in 0..Len(pane) \cup {None}
    BY DEF LobbyInv, PaneInv
  <1>1. PICK x : x = [kind |-> "line"]
    OBVIOUS
  <1>2. PICK e : e = <<x>>
    OBVIOUS
  <1>3. net' \subseteq net /\ Push(e, pane, anchor, cursor) /\ UNCHANGED <<records, next, op>>
    BY <1>1, <1>2 DEF PushLine, link, store
  <1>4. x \in Entry /\ x.kind = "line"
    BY <1>1 DEF Entry
  <1>5. e \in Seq(Entry) /\ DOMAIN e = {1} /\ e[1] = x
    BY <1>2, <1>4
  <1>6. AllNamed(records, next, e)
    BY <1>4, <1>5 DEF AllNamed
  <1>7. From(pane', pane, e)
    BY <1>0, <1>3, <1>5, PushFrom
  <1>8. AllNamed(records, next, pane')
    BY <1>6, <1>7, FromNamed DEF ShownInv
  <1>. QED
    BY <1>3, <1>8, PaneShows

\* What is left after a deletion was in the pane.
LEMMA DeleteShows ==
    ASSUME LobbyInv, ShownInv, NEW packet \in net, DeleteMessage(packet)
    PROVE  ShownInv'
  <1>0. pane \in Seq(Entry)
    BY DEF LobbyInv, PaneInv
  <1>1. net' \subseteq net /\ UNCHANGED <<records, next, op>>
    BY DEF DeleteMessage, Receive, store
  <1>2. pane' = pane \/ \E i \in DOMAIN pane : pane' = H!Without(pane, i)
    BY DEF DeleteMessage, Holding
  <1>3. ASSUME NEW i \in DOMAIN pane, pane' = H!Without(pane, i)
        PROVE  From(pane', pane, pane)
    <2>1. PICK t : t = H!Without(pane, i)
      OBVIOUS
    <2>2. /\ DOMAIN t = 1..Len(pane) - 1
          /\ \A k \in 1..Len(pane) - 1 : t[k] = IF k < i THEN pane[k] ELSE pane[k + 1]
      BY <1>0, <2>1, WithoutIs
    <2>3. Len(pane) \in Nat /\ DOMAIN pane = 1..Len(pane)
      BY <1>0, LenProperties
    <2>4. \A k \in DOMAIN t : k \in DOMAIN pane /\ k + 1 \in DOMAIN pane
      BY <2>2, <2>3
    <2>5. From(t, pane, pane)
      BY <2>2, <2>4 DEF From
    <2>. QED
      BY <1>3, <2>1, <2>5
  <1>4. AllNamed(records, next, pane')
    BY <1>2, <1>3, FromNamed DEF ShownInv
  <1>. QED
    BY <1>1, <1>4, PaneShows

\* The newest page brings what the packet names.
LEMMA StartShows ==
    ASSUME LobbyInv, ShownInv, NEW packet \in net, StartHistory(packet)
    PROVE  ShownInv'
  <1>0. pane \in Seq(Entry)
    BY DEF LobbyInv, PaneInv
  <1>1. net' \subseteq net /\ packet.kind = "history" /\ UNCHANGED <<records, next, op>>
    BY DEF StartHistory, Receive, store
  <1>2. PICK e : e = packet.entries
    OBVIOUS
  <1>3. e \in Seq(Replay) /\ AllNamed(records, next, e)
    BY <1>1, <1>2 DEF LobbyInv, NetInv, PageIs, ShownInv
  <1>4. e \in Seq(Entry)
    BY <1>3, ReplaysAre
  <1>5. PICK x : x = [kind |-> "line"]
    OBVIOUS
  <1>6. x \in Entry /\ x.kind = "line"
    BY <1>5 DEF Entry
  <1>7. PICK under : under = Append(pane, x)
    OBVIOUS
  <1>8. /\ under \in Seq(Entry) /\ Len(under) = Len(pane) + 1 /\ Len(pane) \in Nat
        /\ \A i \in 1..Len(pane) : under[i] = pane[i]
        /\ under[Len(pane) + 1] = x
    BY <1>0, <1>6, <1>7, AppendProperties, LenProperties
  <1>9. DOMAIN pane = 1..Len(pane) /\ DOMAIN under = 1..Len(pane) + 1
    BY <1>0, <1>8, LenProperties
  <1>10. AllNamed(records, next, under)
    <2>1. \A i \in DOMAIN under : (i \in DOMAIN pane /\ under[i] = pane[i]) \/ under[i] = x
      BY <1>8, <1>9
    <2>. QED
      BY <1>6, <2>1 DEF AllNamed, ShownInv
  <1>11. PICK h : h = H!Newest(under, PaneLimit)
    OBVIOUS
  <1>12. PaneLimit \in Nat
    BY SizesAssumption
  <1>13. From(h, under, under) /\ h \in Seq(Entry) /\ Len(h) <= PaneLimit /\ Len(h) \in Nat
    <2>1. From(h, under, under)
      BY <1>8, <1>11, <1>12, NewestFrom
    <2>2. h \in Seq(Entry) /\ Len(h) = IF Len(under) <= PaneLimit THEN Len(under) ELSE PaneLimit
      BY <1>8, <1>11, <1>12, NewestIs
    <2>3. Len(under) \in Nat
      BY <1>8
    <2>. QED
      BY <1>12, <2>1, <2>2, <2>3
  <1>14. AllNamed(records, next, h)
    BY <1>10, <1>13, FromNamed
  <1>15. PICK c : c = IF packet.more THEN packet.start ELSE None
    OBVIOUS
  <1>16. Push(e, h, Len(h), c)
    BY <1>2, <1>5, <1>7, <1>11, <1>15, Zenon DEF StartHistory
  <1>17. Len(h) \in 0..Len(h) \cup {None}
    BY <1>13
  <1>18. From(pane', h, e)
    BY <1>4, <1>13, <1>16, <1>17, PushFrom
  <1>19. AllNamed(records, next, pane')
    BY <1>3, <1>14, <1>18, FromNamed
  <1>. QED
    BY <1>1, <1>19, PaneShows

\* An older page brings what the packet names.
LEMMA PrependShows ==
    ASSUME LobbyInv, ShownInv, NEW packet \in net, PrependHistory(packet)
    PROVE  ShownInv'
  <1>1. net' \subseteq net /\ packet.kind = "history" /\ UNCHANGED <<records, next, op>>
    BY DEF PrependHistory, Receive, store
  <1>2. AllNamed(records, next, pane)
    BY DEF ShownInv
  <1>3. CASE ~(lobby /\ anchor # None)
    BY <1>1, <1>2, <1>3, PaneShows DEF PrependHistory
  <1>4. ASSUME lobby, anchor # None PROVE AllNamed(records, next, pane')
    <2>1. PICK e : e = packet.entries
      OBVIOUS
    <2>2. e \in Seq(Replay) /\ AllNamed(records, next, e)
      BY <1>1, <2>1 DEF LobbyInv, NetInv, PageIs, ShownInv
    <2>3. e \in Seq(Entry)
      BY <2>2, ReplaysAre
    <2>4. PICK a : a = anchor
      OBVIOUS
    <2>5. /\ pane \in Seq(Entry) /\ Len(pane) \in Nat /\ DOMAIN pane = 1..Len(pane)
          /\ Len(pane) <= PaneLimit /\ PaneLimit \in Nat /\ a \in 0..Len(pane)
      BY <1>4, <2>4, SizesAssumption, LenProperties DEF LobbyInv, PaneInv
    <2>6. PICK room : room = PaneLimit - Len(pane)
      OBVIOUS
    <2>7. room \in Nat
      BY <2>5, <2>6
    <2>8. PICK old : old = H!Newest(e, room)
      OBVIOUS
    <2>9. old \in Seq(Entry) /\ From(old, e, e)
      BY <2>3, <2>7, <2>8, NewestIs, NewestFrom
    <2>10. AllNamed(records, next, old)
      BY <2>2, <2>9, FromNamed
    <2>11. PICK q : q = pane'
      OBVIOUS
    <2>12. q = Inserted(pane, a, old)
      BY <1>4, <2>1, <2>4, <2>6, <2>8, <2>11, Zenon DEF PrependHistory, Inserted
    <2>13. Lower(q, pane, a, old, Len(old))
      BY ONLY <2>5, <2>9, <2>12, InsertIs
    <2>14. PICK o : o = Len(old)
      OBVIOUS
    <2>15. o \in Nat /\ DOMAIN old = 1..o
      BY ONLY <2>9, <2>14, LenProperties
    <2>16. From(q, pane, old)
      <3>1. /\ DOMAIN q = 1..Len(pane) + o
            /\ \A i \in DOMAIN q : q[i] = IF i <= a THEN pane[i] ELSE IF i <= a + o THEN old[i - a]
                                          ELSE pane[i - o]
        BY ONLY <2>13, <2>14 DEF Lower
      <3>2. ASSUME NEW i \in DOMAIN q
            PROVE  (\E j \in DOMAIN pane : pane[j] = q[i]) \/ \E j \in DOMAIN old : old[j] = q[i]
        <4>1. CASE i <= a
          <5>1. i \in DOMAIN pane
            BY ONLY <2>5, <2>15, <3>1, <3>2, <4>1
          <5>. QED
            BY ONLY <3>1, <3>2, <4>1, <5>1
        <4>2. CASE ~(i <= a) /\ i <= a + o
          <5>1. i - a \in DOMAIN old
            BY ONLY <2>5, <2>15, <3>1, <3>2, <4>2
          <5>. QED
            BY ONLY <3>1, <3>2, <4>2, <5>1
        <4>3. CASE ~(i <= a) /\ ~(i <= a + o)
          <5>1. i - o \in DOMAIN pane
            BY ONLY <2>5, <2>15, <3>1, <3>2, <4>3
          <5>. QED
            BY ONLY <3>1, <3>2, <4>3, <5>1
        <4>. QED
          BY <4>1, <4>2, <4>3
      <3>. QED
        BY <3>2 DEF From
    <2>17. AllNamed(records, next, q)
      BY ONLY <1>2, <2>10, <2>16, FromNamed
    <2>. QED
      BY <2>11, <2>17
  <1>. QED
    BY <1>1, <1>3, <1>4, PaneShows

\* A page is cut from records, which name themselves.
LEMMA SendShows ==
    ASSUME LobbyInv, ShownInv, SendHistory
    PROVE  ShownInv'
  <1>0. StoreInv /\ LinkInv
    BY DEF LobbyInv
  <1>1. UNCHANGED <<records, next, op, pane>> /\ asked # <<>>
    BY DEF SendHistory, store, client
  <1>2. PICK before : before = asked[1]
    OBVIOUS
  <1>3. PICK to : to = position(before)
    OBVIOUS
  <1>4. top \in Nat
    BY <1>0 DEF LinkInv
  <1>5. before \in Nat \cup {None}
    <2>1. asked = <<None>> \/ asked = <<top>>
      BY <1>0, <1>1 DEF LinkInv
    <2>. QED
      BY <1>2, <1>4, <2>1, AskedIs
  <1>6. to \in 0..Len(records) /\ Len(records) \in Nat
    BY <1>0, <1>3, <1>5, PositionIs
  <1>7. \/ net' = net
        \/ \E from \in 0..to : \E q : /\ net' = net \cup {q} /\ q.kind = "history"
                                      /\ q.entries = Replayed(from, to)
    <2>1. CASE before = None /\ to = 0
      BY <1>2, <1>3, <2>1 DEF SendHistory
    <2>2. CASE ~(before = None /\ to = 0)
      <3>1. PICK from \in 0..to :
               net' = net \cup {[kind    |-> "history", entries |-> Replayed(from, to),
                                 start   |-> IF from < Len(records) THEN records[from + 1].id ELSE next,
                                 more    |-> from > 0, older |-> before # None]}
        BY <1>2, <1>3, <2>2, Zenon DEF SendHistory
      <3>2. PICK q : q = [kind    |-> "history", entries |-> Replayed(from, to),
                          start   |-> IF from < Len(records) THEN records[from + 1].id ELSE next,
                          more    |-> from > 0, older |-> before # None]
        OBVIOUS
      <3>3. net' = net \cup {q}
        BY <3>1, <3>2, Zenon
      <3>4. q.kind = "history" /\ q.entries = Replayed(from, to)
        BY ONLY <3>2
      <3>. QED
        BY <3>3, <3>4
    <2>. QED
      BY <2>1, <2>2
  <1>8. ASSUME NEW from \in 0..to PROVE AllNamed(records, next, Replayed(from, to))
    <2>1. PICK e : e = Replayed(from, to)
      OBVIOUS
    <2>2. /\ e \in Seq(Replay) /\ Len(e) = to - from
          /\ \A k \in 1..to - from : /\ e[k].id = records[from + k].id
                                     /\ e[k].msg = records[from + k].msg
                                     /\ from + k \in DOMAIN records
      <3>1. from \in Nat /\ to \in Nat /\ from <= to /\ to <= Len(records)
        BY <1>6, <1>8
      <3>. QED
        BY <1>0, <2>1, <3>1, ReplayedIs
    <2>3. DOMAIN e = 1..to - from
      BY <2>2, LenProperties
    <2>4. \A k \in DOMAIN e : Named(records, next, e[k])
      BY <1>0, <2>2, <2>3, RecordNamed
    <2>. QED
      BY <2>1, <2>4 DEF AllNamed
  <1>9. ASSUME NEW p \in net'
        PROVE  /\ p.kind = "message" => Named(records, next, p)
               /\ p.kind = "history" => AllNamed(records, next, p.entries)
    <2>1. CASE p \in net
      BY <2>1 DEF ShownInv
    <2>2. CASE p \notin net
      <3>1. PICK from \in 0..to : p.kind = "history" /\ p.entries = Replayed(from, to)
        BY <1>7, <1>9, <2>2
      <3>. QED
        BY <1>8, <3>1
    <2>. QED
      BY <2>1, <2>2
  <1>. QED
    BY <1>1, <1>9 DEF ShownInv

\* A connection that is over leaves nothing to be shown.
LEMMA OverShows ==
    ASSUME Disconnected, op' = [s \in Sessions |-> None] \/ (ShownInv /\ UNCHANGED <<records, next, op>>)
    PROVE  ShownInv'
  <1>1. net' = {} /\ pane' = <<>>
    BY DEF Disconnected
  <1>2. AllNamed(records', next', pane')
    BY <1>1 DEF AllNamed
  <1>3. \A s \in Sessions : op'[s] # None /\ op'[s].do = "tell" => Named(records', next', op'[s])
    BY DEF ShownInv
  <1>. QED
    BY <1>1, <1>2, <1>3 DEF ShownInv

\* Whatever is said, deleted, replayed or restarted, an id in the pane stands for
\* the message that it is shown with, or for none: what a deletion, a reply or a
\* heart asks for is about the message that was looked at.
THEOREM ShownNamed == Spec => []ShownIsNamed
  <1>1. Init => ShownInv
    <2> SUFFICES ASSUME Init PROVE ShownInv
      OBVIOUS
    <2>1. op = [s \in Sessions |-> None] /\ net = {} /\ pane = <<>>
      BY DEF Init, H!Init
    <2>2. AllNamed(records, next, pane) /\ \A s \in Sessions : op[s] = None
      BY <2>1 DEF AllNamed
    <2>. QED
      BY <2>1, <2>2 DEF ShownInv
  <1>2. LobbyInv /\ ShownInv /\ [Next]_vars => ShownInv'
    <2> SUFFICES ASSUME LobbyInv, ShownInv, [Next]_vars PROVE ShownInv'
      OBVIOUS
    <2>1. CASE \E s \in Sessions : Store(s) \/ Tell(s)
      BY <2>1, ServerShows
    <2>2. CASE Login \/ Ask \/ SwitchChannel
      BY <2>2 DEF Login, Ask, SwitchChannel, store, client, link, ShownInv
    <2>3. CASE SendHistory
      BY <2>3, SendShows
    <2>4. CASE Restart
      BY <2>4, OverShows DEF Restart, H!Restart
    <2>5. CASE Lose
      BY <2>5, OverShows DEF Lose, store
    <2>6. CASE PushLine
      BY <2>6, LineShows
    <2>7. CASE ClearMessages
      <3>1. UNCHANGED <<records, next, op>> /\ net' \subseteq net /\ pane' = <<>>
        BY <2>7 DEF ClearMessages, store, link
      <3>2. AllNamed(records, next, pane')
        BY <3>1 DEF AllNamed
      <3>. QED
        BY <3>1, <3>2, PaneShows
    <2>8. CASE Deliver
      <3>1. PICK packet \in net : \/ ReceiveMessage(packet) \/ DeleteMessage(packet)
                                  \/ StartHistory(packet) \/ PrependHistory(packet)
        BY <2>8 DEF Deliver
      <3>. QED
        BY <3>1, ReceiveShows, DeleteShows, StartShows, PrependShows
    <2>9. CASE UNCHANGED vars
      BY <2>9 DEF vars, ShownInv
    <2>. QED
      BY <2>1, <2>2, <2>3, <2>4, <2>5, <2>6, <2>7, <2>8, <2>9 DEF Next, ServerStep, ClientStep
  <1>3. ShownInv => ShownIsNamed
    BY DEF ShownInv, AllNamed, Named, ShownIsNamed
  <1>. QED
    BY <1>1, <1>2, <1>3, LobbyStarts, LobbySteps, PTL DEF Spec
=============================================================================
