------------------------------ MODULE InputLine ------------------------------
(***************************************************************************)
(* The input line of the client: InputBuffer                               *)
(* (chat/src/bin/client/tui/input.rs) under the keys of                    *)
(* chat/src/bin/client/tui/mod.rs, with the lines that were sent and the   *)
(* search through them.                                                    *)
(*                                                                         *)
(* A character is a member of Chars: a newline and the command prefix are  *)
(* what the code tells from the others; a newline is a blank as well.      *)
(***************************************************************************)
EXTENDS Integers, Sequences, SequencesExt

CONSTANTS
    Chars,      \* what is typed; "nl" is a newline, "/" the command prefix
    MaxLen,     \* bound: the length of the line
    MaxSent     \* bound: the lines kept

ASSUME LineAssumption == {"nl", "/"} \subseteq Chars /\ MaxLen \in Nat /\ MaxSent \in Nat

VARIABLES
    text,       \* InputBuffer::chars
    cursor,     \* the characters before the cursor
    sent,       \* InputBuffer::history
    pos,        \* history_pos: the lines before the one shown
    stash,      \* the line parked: <<>> or <<line>>
    prefix,     \* the prefix the search is locked to: <<>> or <<line>>
    draft       \* history: the line that stood when the search began

lineVars == <<text, cursor, sent, pos, stash, prefix, draft>>
search   == <<sent, pos, stash, prefix, draft>>

LineInit ==
    /\ text = <<>> /\ cursor = 0 /\ sent = <<>> /\ pos = 0
    /\ stash = <<>> /\ prefix = <<>> /\ draft = <<>>

Blank(c)  == c = "nl"
Multiline == \E i \in DOMAIN text : text[i] = "nl"

\* The greatest and the least member of a set of positions, or a default.
Last_(S, d)  == IF S = {} THEN d ELSE CHOOSE i \in S : \A j \in S : j <= i
First_(S, d) == IF S = {} THEN d ELSE CHOOSE i \in S : \A j \in S : i <= j

\* The characters before the line of position p, and those up to its end.
LineStart(p) == Last_({i \in 1..p : text[i] = "nl"}, 0)
LineEnd(p)   == First_({i \in p + 1..Len(text) : text[i] = "nl"}, Len(text) + 1) - 1

\* The characters before the word left of the cursor.
WordStart ==
    LET letter == Last_({i \in 1..cursor : ~Blank(text[i])}, 0)
    IN  Last_({i \in 1..letter : Blank(text[i])}, 0)

\* The characters up to the end of the word right of the cursor.
WordEnd ==
    LET letter == First_({i \in cursor + 1..Len(text) : ~Blank(text[i])}, Len(text))
    IN  First_({i \in letter + 1..Len(text) : Blank(text[i])}, Len(text) + 1) - 1

-----------------------------------------------------------------------------
(* Editing and motion.                                                     *)

Cut(from, to) == SubSeq(text, 1, from) \o SubSeq(text, to + 1, Len(text))
Edit(t, c)    == text' = t /\ cursor' = c /\ UNCHANGED search

Insert(c) ==
    /\ Len(text) < MaxLen
    /\ Edit(SubSeq(text, 1, cursor) \o <<c>> \o SubSeq(text, cursor + 1, Len(text)), cursor + 1)

Backspace == cursor > 0 /\ Edit(Cut(cursor - 1, cursor), cursor - 1)
Delete    == cursor < Len(text) /\ Edit(Cut(cursor, cursor + 1), cursor)
DeleteWord  == Edit(Cut(WordStart, cursor), WordStart)
KillToStart == Edit(Cut(LineStart(cursor), cursor), LineStart(cursor))
KillToEnd   == Edit(Cut(cursor, LineEnd(cursor)), cursor)

Moves(c) == cursor' = c /\ UNCHANGED <<text, search>>
Motion ==
    \/ Moves(IF cursor = 0 THEN 0 ELSE cursor - 1)
    \/ Moves(IF cursor < Len(text) THEN cursor + 1 ELSE cursor)
    \/ Moves(LineStart(cursor)) \/ Moves(LineEnd(cursor))
    \/ Moves(WordStart) \/ Moves(WordEnd)

-----------------------------------------------------------------------------
(* The search.                                                             *)

Starts(line, p) == p = <<>> \/ IsPrefix(p[1], line)
ShowsLine(t) == text' = t /\ cursor' = Len(t)

\* Mutant: every step of the search parks the line that is shown.
ParksAlways == TRUE

\* The line is parked where the search begins, not where it goes on.
Parks == pos = Len(sent)

HistoryUp ==
    /\ sent # <<>> /\ pos > 0
    /\ prefix' = IF ~Parks THEN prefix
                 ELSE IF text = <<>> \/ text[1] = "/" THEN <<>> ELSE <<text>>
    /\ stash' = IF Parks THEN <<text>> ELSE stash
    /\ draft' = IF pos = Len(sent) THEN text ELSE draft
    /\ LET found == Last_({i \in 1..pos : Starts(sent[i], prefix')}, 0)
       IN  IF found = 0 THEN UNCHANGED <<text, cursor, pos>>
           ELSE pos' = found - 1 /\ ShowsLine(sent[found])
    /\ UNCHANGED sent

HistoryDown ==
    /\ pos < Len(sent)
    /\ LET next == First_({i \in pos + 2..Len(sent) : Starts(sent[i], prefix)}, 0)
       IN  IF next # 0
           THEN pos' = next - 1 /\ ShowsLine(sent[next]) /\ UNCHANGED <<stash, prefix>>
           ELSE /\ pos' = Len(sent) /\ prefix' = <<>> /\ stash' = <<>>
                /\ ShowsLine(IF stash = <<>> THEN <<>> ELSE stash[1])
    /\ UNCHANGED <<sent, draft>>

\* Up and Down step through the lines of the text while it has several.
StepUp ==
    LET start == LineStart(cursor)
        above == LineStart(start - 1)
        to    == above + (cursor - start)
    IN  Moves(IF start = 0 THEN 0 ELSE IF to < start - 1 THEN to ELSE start - 1)

StepDown ==
    LET end  == LineEnd(cursor)
        to   == end + 1 + (cursor - LineStart(cursor))
    IN  Moves(IF end = Len(text) THEN end
              ELSE IF to < LineEnd(end + 1) THEN to ELSE LineEnd(end + 1))

Up   == IF Multiline THEN StepUp ELSE HistoryUp
Down == IF Multiline THEN StepDown ELSE HistoryDown

-----------------------------------------------------------------------------
(* Sending.  A line is trimmed; an empty one is not sent.                  *)

Trim(t) ==
    LET letters == {i \in DOMAIN t : ~Blank(t[i])}
    IN  SubSeq(t, First_(letters, 1), Last_(letters, 0))

\* push_history, of what is left after take or clear.
Push(line) ==
    /\ sent' = IF sent # <<>> /\ Last(sent) = line THEN sent ELSE Append(sent, line)
    /\ pos' = Len(sent')

\* Enter: take, and submit.
Send ==
    /\ IF Trim(text) = <<>> THEN sent' = sent /\ pos' = Len(sent)
       ELSE Push(Trim(text)) /\ Len(sent') <= MaxSent
    /\ text' = <<>> /\ cursor' = 0 /\ stash' = <<>> /\ prefix' = <<>> /\ draft' = <<>>

\* A Ctrl+key that runs a command: the line is cleared, the command is pushed.
Shortcut ==
    /\ Push(<<"/">>) /\ Len(sent') <= MaxSent
    /\ text' = <<>> /\ cursor' = 0 /\ stash' = <<>> /\ prefix' = <<>> /\ draft' = <<>>

LineNext ==
    \/ \E c \in Chars : Insert(c)
    \/ Backspace \/ Delete \/ DeleteWord \/ KillToStart \/ KillToEnd \/ Motion
    \/ Up \/ Down \/ Send \/ Shortcut

LineSpec == LineInit /\ [][LineNext]_lineVars

-----------------------------------------------------------------------------
(* Properties.                                                             *)

\* history_up and history_down: the search only shows sent lines that begin with what
\* was typed, and the step that leaves it puts back the line that stood when it began,
\* whatever was done to the lines in between.
LineComesBack ==
    [][/\ HistoryUp /\ pos' # pos => text' = sent[pos' + 1] /\ Starts(text', prefix')
       /\ HistoryDown /\ pos' = Len(sent) => text' = draft]_lineVars
=============================================================================
