--------------------------- MODULE ClientSession ---------------------------
(***************************************************************************)
(* The client from its connect box to the end of a session: the box, the   *)
(* dials it starts, the task that listens to the server, the prompt for an *)
(* unknown server key, the automatic return after a drop, and the account  *)
(* forms (chat/src/bin/client/tui/{login,tofu,account,mod}.rs, event.rs,   *)
(* chat/src/network/client/{mod,handshake}.rs).                            *)
(*                                                                         *)
(* The loop of the interface takes one thing at a time: the result of a    *)
(* dial, an event of the listening task, a key, or a tick.  The listening  *)
(* task runs beside it.  A name or a password is the word "text": which    *)
(* one it is makes no difference to the control.                           *)
(***************************************************************************)
EXTENDS Naturals, Sequences

CONSTANTS
    Addresses,     \* what can be typed as an address
    Tries,         \* RECONNECT_ATTEMPTS
    MaxAttempt,    \* bound: dials by hand without a session in between
    EventBound     \* EVENT_CHANNEL_BOUND

ASSUME SessionAssumption ==
    Tries \in Nat /\ MaxAttempt \in Nat /\ EventBound \in Nat \ {0, 1}

VARIABLES
    login,     \* the connect box: <<>> or <<box>>
    rc,        \* Reconnect
    dials,     \* the dials in flight
    conn,      \* the connection and the task that listens on it
    write,     \* write_stream is set
    events,    \* the events of the listening task that are not applied
    tofu,      \* the key prompt: <<>> or <<prompt>>
    form,      \* the account form: <<>> or <<form>>
    address,   \* the address dialled last
    user,      \* leaving, logging_out and should_quit
    step,      \* LOGIN_STATE
    home,      \* history: the address that accepted the credentials
    gone,      \* history: the user or the server ended it for good
    tries      \* history: dials without a key since the last session

boxVars     == <<login, rc, address>>
screenVars  == <<tofu, form, user>>
historyVars == <<home, gone, tries>>
sessionVars == <<login, rc, dials, conn, write, events, tofu, form, address, user, step,
                 home, gone, tries>>

\* A field or an address that is not filled in.
Unset  == ""

Stages == {"address", "username", "login", "register"}
Nobody == [known |-> FALSE, due |-> FALSE, left |-> 0, answers |-> 0, retrying |-> FALSE,
           submit |-> FALSE]
Off    == [phase |-> "off", addr |-> Unset, owes |-> "ask", changed |-> FALSE]
Event(kind, arg) == [kind |-> kind, arg |-> arg]

SessionTypeOK ==
    /\ \A box \in {login[i] : i \in DOMAIN login} :
          /\ box.stage \in Stages /\ box.field \in Addresses \cup {Unset, "text"}
          /\ {box.busy, box.connected} \subseteq BOOLEAN
          /\ box.attempt \in 0..(MaxAttempt + Tries)
    /\ rc \in [known : BOOLEAN, due : BOOLEAN, left : 0..Tries, answers : 0..2,
               retrying : BOOLEAN, submit : BOOLEAN]
    /\ dials \subseteq [attempt : 1..(MaxAttempt + Tries), addr : Addresses]
    /\ conn.phase \in {"off", "keys", "prompt", "redial", "steps", "in", "rekey", "done"}
    /\ write \in BOOLEAN /\ step \in Stages \cup {"none"}
    /\ Len(events) <= EventBound + 1
    /\ tries \in 0..Tries

-----------------------------------------------------------------------------
(* Reconnect.                                                              *)

\* Mutant: a return that ran out of tries still answers the next log-in.
ArmGoesOn(r) ==
    IF ~r.known \/ r.left = 0 THEN r
    ELSE [r EXCEPT !.left = @ - 1, !.retrying = TRUE, !.answers = 2, !.due = TRUE]

Arm(r) ==
    IF ~r.known \/ r.left = 0 THEN [r EXCEPT !.retrying = FALSE]
    ELSE [r EXCEPT !.left = @ - 1, !.retrying = TRUE, !.answers = 2, !.due = TRUE]

\* Mutant: a return that ran out of tries still counts as scheduled.
ArmedAlways(r) == r.known

Armed(r) == r.known /\ r.left > 0

Remembered(r) == [r EXCEPT !.known = TRUE, !.left = Tries, !.retrying = FALSE, !.due = FALSE]

Answers(r, stage) ==
    r.retrying /\ r.answers > 0 /\ r.known /\ stage \in {"username", "login"}

-----------------------------------------------------------------------------
(* The box.                                                                *)

Box(addr, attempt) ==
    [stage |-> "address", field |-> addr, busy |-> FALSE, connected |-> FALSE,
     attempt |-> attempt]

AskStep(box, stage) == [box EXCEPT !.stage = stage, !.busy = FALSE, !.field = Unset]

Accepts(attempt) == login # <<>> /\ login[1].busy /\ attempt = login[1].attempt

\* login::connect: the box of l dials what its field holds.
Connect(l) ==
    IF l = <<>> \/ l[1].field = Unset
    THEN login' = l /\ UNCHANGED <<dials, address>>
    ELSE LET attempt == l[1].attempt + 1 IN
         /\ login' = <<[l[1] EXCEPT !.busy = TRUE, !.attempt = attempt]>>
         /\ address' = l[1].field
         /\ dials' = dials \cup {[attempt |-> attempt, addr |-> l[1].field]}

\* take_input, then submit: the packet follows LOGIN_STATE.  A packet that is
\* no answer to a step is a stray to the server.
Submit(r) ==
    /\ login' = <<[login[1] EXCEPT !.field = Unset, !.busy = TRUE]>>
    /\ rc' = r
    /\ conn' = IF conn.phase = "steps" /\ step # "none" THEN [conn EXCEPT !.owes = "ask"] ELSE conn

SessionInit ==
    /\ \E auto \in BOOLEAN, addr \in Addresses :
          IF auto
          THEN /\ login = <<[Box(addr, 1) EXCEPT !.busy = TRUE]>> /\ address = addr
               /\ dials = {[attempt |-> 1, addr |-> addr]}
          ELSE login = <<Box(Unset, 0)>> /\ address = Unset /\ dials = {}
    /\ rc = Nobody /\ conn = Off /\ write = FALSE /\ events = <<>>
    /\ tofu = <<>> /\ form = <<>>
    /\ user = [leaving |-> FALSE, logging_out |-> FALSE, quit |-> FALSE]
    /\ step = "none" /\ home = Unset /\ gone = FALSE /\ tries = 0

Running == ~user.quit

-----------------------------------------------------------------------------
(* The result of a dial: connected().                                      *)

DialFails(d) ==
    /\ Running /\ d \in dials
    /\ dials' = dials \ {d}
    /\ IF Accepts(d.attempt)
       THEN /\ login' = <<[login[1] EXCEPT !.busy = Armed(rc)]>>
            /\ rc' = Arm(rc)
       ELSE UNCHANGED <<login, rc>>
    /\ UNCHANGED <<conn, write, events, screenVars, address, step, historyVars>>

DialOpens(d) ==
    /\ Running /\ d \in dials
    /\ dials' = dials \ {d}
    /\ IF Accepts(d.attempt)
       THEN /\ conn' = [Off EXCEPT !.phase = "keys", !.addr = d.addr]
            /\ write' = TRUE
            /\ login' = <<[login[1] EXCEPT !.connected = TRUE]>>
       ELSE UNCHANGED <<conn, write, login>>
    /\ UNCHANGED <<rc, events, screenVars, address, step, historyVars>>

-----------------------------------------------------------------------------
(* The task that listens: the key exchange, the steps of the log-in, the   *)
(* session.  An event waits for room in the channel to the loop.           *)

Listens(phases) == Running /\ conn.phase \in phases /\ Len(events) < EventBound
Reads == UNCHANGED <<login, rc, dials, write, tofu, form, address, user, historyVars>>

\* The exchange works with a pinned key.
KeysReady ==
    /\ Listens({"keys", "rekey"})
    /\ conn' = [conn EXCEPT !.phase = IF @ = "keys" THEN "steps" ELSE "in"]
    /\ UNCHANGED <<events, step>> /\ Reads

\* The key is unknown, or another one than the pinned one: the task waits for
\* the prompt's answer.  changed holds whether it was another one.
KeysUnknown(mismatch) ==
    /\ Listens({"keys", "rekey"})
    /\ conn' = [conn EXCEPT !.phase = "prompt", !.owes = conn.phase, !.changed = mismatch]
    /\ events' = Append(events, Event("TofuPrompt", mismatch))
    /\ UNCHANGED step /\ Reads

KeysFail ==
    /\ Listens({"keys", "rekey"})
    /\ conn' = [conn EXCEPT !.phase = "done"]
    /\ events' = Append(events, Event("HandshakeFailed", FALSE))
    /\ UNCHANGED step /\ Reads

\* The new key is pinned, so the connection is opened again with it.
Redials ==
    /\ Listens({"redial"})
    /\ \/ conn' = [conn EXCEPT !.phase = "keys", !.owes = "ask"] /\ UNCHANGED events
       \/ /\ conn' = [conn EXCEPT !.phase = "done"]
          /\ events' = Append(events, Event("ReconnectFailed", FALSE))
    /\ UNCHANGED step /\ Reads

\* A step of the log-in is asked: LOGIN_STATE first, the event after it.
\* again is the first and every further time a name or a password is asked.
Asks(stage, again) ==
    /\ Listens({"steps"}) /\ conn.owes = "ask"
    /\ again => step = stage /\ stage # "login"
    /\ stage = "username" => step \in {"none", "username"}
    /\ stage # "username" => step # "none"
    /\ step' = stage
    /\ LET no == Event(IF stage = "username" THEN "UsernameRejected" ELSE "PasswordRejected", FALSE)
       IN  events' = Append(IF again THEN Append(events, no) ELSE events, Event("Ask", stage))
    /\ conn' = [conn EXCEPT !.owes = "answer"]
    /\ Reads

Accept ==
    /\ Listens({"steps"}) /\ conn.owes = "ask" /\ step \in {"login", "register"}
    /\ conn' = [conn EXCEPT !.phase = "in"]
    /\ events' = Append(events, Event("Authenticated", FALSE))
    /\ step' = "none"
    /\ Reads

Rekey ==
    /\ Listens({"in"}) /\ events = <<>>
    /\ conn' = [conn EXCEPT !.phase = "rekey"]
    /\ UNCHANGED <<events, step>> /\ Reads

\* The server answers an account form.
Answer(ok) ==
    /\ Listens({"in"}) /\ form # <<>> /\ form[1].busy /\ events = <<>>
    /\ events' = Append(events, Event(form[1].kind, ok))
    /\ UNCHANGED <<conn, step>> /\ Reads

\* The server says goodbye (said), or the socket breaks.
Ends(said) ==
    /\ Listens({"keys", "steps", "in", "rekey"})
    /\ said => conn.phase \in {"steps", "in"}
    /\ conn' = [conn EXCEPT !.phase = "done"]
    /\ events' = Append(events, Event("Quit", said))
    /\ UNCHANGED step /\ Reads

-----------------------------------------------------------------------------
(* Events applied by the loop.                                             *)

\* disconnected(): the box comes back, and the session's state goes.  A box
\* that is up keeps counting its dials; one that is opened again starts over.
Drops(r) ==
    LET armed == IF user.logging_out THEN Nobody ELSE r IN
    /\ login' = <<[Box(address, IF login = <<>> THEN 0 ELSE login[1].attempt)
                   EXCEPT !.busy = Armed(armed)]>>
    /\ rc' = Arm(armed)
    /\ write' = FALSE /\ conn' = Off /\ step' = "none"
    /\ tofu' = <<>> /\ form' = <<>>
    /\ user' = [user EXCEPT !.logging_out = FALSE]

Applies(kind) == Running /\ events # <<>> /\ Head(events).kind = kind /\ events' = Tail(events)

\* Username, Register, Login: the box asks the step; a return has the answer.
ApplyAsk ==
    /\ Applies("Ask")
    /\ LET stage   == Head(events).arg
           replays == Answers(rc, stage)
       IN  /\ login' = IF login = <<>> THEN login
                       ELSE <<[AskStep(login[1], stage) EXCEPT
                               !.field = IF replays THEN "text" ELSE Unset]>>
           /\ rc' = IF replays THEN [rc EXCEPT !.answers = @ - 1, !.submit = TRUE] ELSE rc
    /\ UNCHANGED <<dials, conn, write, screenVars, address, step, historyVars>>

ApplyRejected ==
    \/ /\ Applies("UsernameRejected")
       /\ rc' = Nobody /\ gone' = TRUE
       /\ UNCHANGED <<login, dials, conn, write, screenVars, address, step, home, tries>>
    \/ /\ Applies("PasswordRejected")
       /\ UNCHANGED <<login, rc, dials, conn, write, screenVars, address, step, historyVars>>

ApplyAuthenticated ==
    /\ Applies("Authenticated")
    /\ login' = <<>> /\ rc' = Remembered(rc)
    /\ home' = conn.addr /\ gone' = FALSE /\ tries' = 0
    /\ UNCHANGED <<dials, conn, write, screenVars, address, step>>

ApplyTofuPrompt ==
    /\ Applies("TofuPrompt")
    /\ tofu' = <<[mismatch |-> Head(events).arg, accept |-> FALSE, confirm |-> FALSE,
                  word |-> FALSE]>>
    /\ UNCHANGED <<login, rc, dials, conn, write, form, address, user, step, historyVars>>

ApplyAccount ==
    /\ \/ Applies("passwd") \/ Applies("delete")
    /\ form' = IF Head(events).arg \/ form = <<>> THEN <<>>
               ELSE <<[kind |-> form[1].kind, filled |-> FALSE, armed |-> FALSE, busy |-> FALSE]>>
    /\ UNCHANGED <<login, rc, dials, conn, write, tofu, address, user, step, historyVars>>

ApplyHandshakeFailed ==
    /\ \/ Applies("HandshakeFailed") \/ Applies("ReconnectFailed")
    /\ login = <<>> => dials = {}
    /\ Drops(rc)
    /\ gone' = (gone \/ user.logging_out)
    /\ UNCHANGED <<dials, address, home, tries>>

ApplyTofuError ==
    /\ Applies("TofuError")
    /\ user' = [user EXCEPT !.quit = TRUE]
    /\ UNCHANGED <<login, rc, dials, conn, write, tofu, form, address, step, historyVars>>

\* Mutant: a server that says goodbye is dialled again like one that dropped.
ForgetsOnDrop(said) == FALSE

\* A server that says goodbye ended the session on purpose.
Forgets(said) == said

\* Assumption on time: a session outlives the dials begun before it, which
\* end within CONNECT_TIMEOUT (three seconds).
ApplyQuit ==
    /\ Applies("Quit")
    /\ IF user.leaving
       THEN /\ user' = [user EXCEPT !.quit = TRUE]
            /\ UNCHANGED <<login, rc, conn, write, tofu, form, step, gone>>
       ELSE /\ login = <<>> => dials = {}
            /\ Drops(IF ~user.logging_out /\ Forgets(Head(events).arg) THEN Nobody ELSE rc)
            /\ gone' = (gone \/ user.logging_out \/ Head(events).arg)
    /\ UNCHANGED <<dials, address, home, tries>>

-----------------------------------------------------------------------------
(* Keys.  The key prompt has them first, then the box, then the form.      *)

Quits == user' = [user EXCEPT !.quit = TRUE]

BoxHasKeys == Running /\ tofu = <<>> /\ login # <<>>

KeyEsc ==
    /\ BoxHasKeys
    /\ IF login[1].connected \/ login[1].stage # "address" \/ ~login[1].busy
       THEN Quits /\ UNCHANGED <<login, rc, gone>>
       ELSE /\ login' = <<[login[1] EXCEPT !.busy = FALSE]>>
            /\ rc' = Nobody /\ gone' = TRUE
            /\ UNCHANGED user
    /\ UNCHANGED <<dials, conn, write, events, tofu, form, address, step, home, tries>>

\* Typing, deleting and pasting.
KeyEdit(text) ==
    /\ BoxHasKeys /\ ~login[1].busy
    /\ text \in {Unset} \cup IF login[1].stage = "address" THEN Addresses ELSE {"text"}
    /\ login' = <<[login[1] EXCEPT !.field = text]>>
    /\ UNCHANGED <<rc, dials, conn, write, events, screenVars, address, step, historyVars>>

KeyDial ==
    /\ BoxHasKeys /\ ~login[1].busy /\ login[1].stage = "address"
    /\ login[1].field # Unset /\ login[1].attempt < MaxAttempt
    /\ Connect(login)
    /\ UNCHANGED <<rc, conn, write, events, screenVars, step, historyVars>>

KeySubmit ==
    /\ BoxHasKeys /\ ~login[1].busy /\ login[1].stage # "address" /\ login[1].field # Unset
    /\ IF write THEN Submit(rc) ELSE UNCHANGED <<login, rc, conn>>
    /\ UNCHANGED <<dials, write, events, screenVars, address, step, historyVars>>

\* The prompt's answer ends the wait of the task: a pinned key of a first
\* exchange opens the connection again, one of a rekey goes on.
TofuAnswer(accept) ==
    /\ tofu' = <<>>
    /\ IF conn.phase # "prompt" THEN UNCHANGED <<conn, events>>
       ELSE IF ~accept
       THEN /\ conn' = [conn EXCEPT !.phase = "done"]
            /\ events' = Append(events, Event("TofuError", FALSE))
       ELSE /\ conn' = [conn EXCEPT !.phase = IF conn.owes = "rekey" THEN "in" ELSE "redial"]
            /\ UNCHANGED events

TofuTurns(prompt) == tofu' = <<prompt>> /\ UNCHANGED <<conn, events>>

KeyTofu ==
    /\ Running /\ tofu # <<>>
    /\ LET p == tofu[1] IN
       \/ TofuAnswer(FALSE)                                               \* Esc
       \/ ~p.confirm /\ TofuTurns([p EXCEPT !.accept = ~@])               \* an arrow
       \/ ~p.confirm /\ p.accept /\ p.mismatch
            /\ TofuTurns([p EXCEPT !.confirm = TRUE, !.word = FALSE])     \* Enter
       \/ ~p.confirm /\ ~(p.accept /\ p.mismatch) /\ TofuAnswer(p.accept) \* Enter
       \/ p.confirm /\ TofuTurns([p EXCEPT !.word = ~@])                  \* letters
       \/ p.confirm /\ TofuTurns([p EXCEPT !.confirm = FALSE, !.accept = FALSE, !.word = FALSE])
       \/ p.confirm /\ p.word /\ TofuAnswer(TRUE)                         \* Enter
    /\ UNCHANGED <<boxVars, dials, write, form, user, step, historyVars>>

InSession == Running /\ tofu = <<>> /\ login = <<>>

\* /account, /exit and /logout; exit and logout send Disconnect.
KeyCommand ==
    /\ InSession /\ form = <<>> /\ write
    /\ \/ \E kind \in {"passwd", "delete"} :
             /\ form' = <<[kind |-> kind, filled |-> FALSE, armed |-> FALSE, busy |-> FALSE]>>
             /\ UNCHANGED user
       \/ \E what \in {"leaving", "logging_out"} :
             user' = [user EXCEPT ![what] = TRUE] /\ UNCHANGED form
    /\ UNCHANGED <<boxVars, dials, conn, write, events, tofu, step, historyVars>>

\* The account form: filled is that no field is empty and the two new
\* passwords agree.  A deletion is sent by the second Enter.
KeyForm ==
    /\ InSession /\ form # <<>> /\ ~form[1].busy
    /\ LET f == form[1] IN
       \/ form' = <<>>
       \/ form' = <<[f EXCEPT !.filled = ~@, !.armed = FALSE]>>
       \/ /\ f.filled
          /\ form' = IF f.kind = "delete" /\ ~f.armed THEN <<[f EXCEPT !.armed = TRUE]>>
                     ELSE IF write THEN <<[f EXCEPT !.busy = TRUE]>> ELSE <<>>
    /\ UNCHANGED <<boxVars, dials, conn, write, events, tofu, user, step, historyVars>>

-----------------------------------------------------------------------------
(* The tick.                                                               *)

\* The wait of a scheduled dial is up.  Assumption on time: RECONNECT_DELAY is
\* not shorter than CONNECT_TIMEOUT, so the dials begun before are over.
TickDue ==
    /\ Running /\ rc.due /\ dials = {}
    /\ rc' = [rc EXCEPT !.due = FALSE]
    /\ Connect(login)
    /\ tries' = tries + 1
    /\ UNCHANGED <<conn, write, events, screenVars, step, home, gone>>

\* The replayed answer is sent.
TickSubmit ==
    /\ Running /\ rc.submit /\ write
    /\ IF login = <<>> THEN rc' = [rc EXCEPT !.submit = FALSE] /\ UNCHANGED <<login, conn>>
       ELSE Submit([rc EXCEPT !.submit = FALSE])
    /\ UNCHANGED <<dials, write, events, screenVars, address, step, historyVars>>

-----------------------------------------------------------------------------
Loop ==
    \/ ApplyAsk \/ ApplyRejected \/ ApplyAuthenticated \/ ApplyTofuPrompt \/ ApplyAccount
    \/ ApplyHandshakeFailed \/ ApplyTofuError \/ ApplyQuit
    \/ TickDue \/ TickSubmit

Keys ==
    \/ KeyEsc \/ KeyDial \/ KeySubmit \/ KeyTofu \/ KeyCommand \/ KeyForm
    \/ \E text \in Addresses \cup {Unset, "text"} : KeyEdit(text)

Network ==
    \/ \E d \in dials : DialFails(d) \/ DialOpens(d)
    \/ KeysReady \/ KeysFail \/ Redials \/ Accept \/ Rekey
    \/ \E flag \in BOOLEAN : KeysUnknown(flag) \/ Answer(flag) \/ Ends(flag)
    \/ \E stage \in {"username", "login", "register"}, again \in BOOLEAN : Asks(stage, again)

SessionNext == Loop \/ Keys \/ Network

\* The loop takes every event and every tick, and a dial ends within
\* CONNECT_TIMEOUT.
SessionFairness ==
    /\ WF_sessionVars(Loop)
    /\ WF_sessionVars(\E d \in dials : DialFails(d) \/ DialOpens(d))

SessionSpec == SessionInit /\ [][SessionNext]_sessionVars /\ SessionFairness

-----------------------------------------------------------------------------
(* Properties.                                                             *)

\* The remembered name and password are replayed only to the address whose
\* server accepted them: as long as the client may answer for the user, its
\* dial and its connection go there (Reconnect::answer, login::handle_key).
CredentialsStayHome ==
    rc.retrying =>
        /\ conn.phase # "off" => conn.addr = home
        /\ \A d \in dials : Accepts(d.attempt) => d.addr = home
        /\ rc.due => login # <<>> /\ login[1].field = home

\* A session that the user or the server ended is never taken up again by
\* itself, and one that dropped is dialled RECONNECT_ATTEMPTS times at most
\* (ClientEvent::Quit, App::disconnected, Reconnect::arm).
ReturnIsWanted ==
    /\ gone => ~rc.due /\ ~rc.retrying
    /\ tries <= Tries

BoxDials == Running /\ login # <<>> /\ login[1].busy /\ ~login[1].connected

\* The box is never busy with a dial for ever: the dial opens, fails, or the
\* automatic return runs out of tries (login::connect, connected, take_due).
DialSettles == BoxDials ~> ~BoxDials

\* What the tick sends is an answer: login.rs says of submit that "AN ANSWER
\* IS IN THE FIELD FOR THE TICK TO SEND".
AnswerInField == rc.submit => login # <<>> /\ login[1].stage # "address"
=============================================================================
