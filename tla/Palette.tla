------------------------------- MODULE Palette -------------------------------
(***************************************************************************)
(* The autocomplete over the input line                                    *)
(* (chat/src/bin/client/tui/palette.rs) under the keys of                  *)
(* chat/src/bin/client/tui/mod.rs.                                         *)
(*                                                                         *)
(* The line is what the palette tells apart of it: whether it begins with  *)
(* the command prefix, its words, and whether a blank ends it.  A word is  *)
(* a sequence of letters, for its prefixes.  A value offered for a         *)
(* parameter (a colour, a monitor, a path) may hold several words.         *)
(***************************************************************************)
EXTENDS Integers, Sequences, SequencesExt, FiniteSets

CONSTANTS
    Table,      \* COMMAND_LIST: [path, words, role, args, subs], subs rows of the same
                \* form; path is what a user types to get there, words what is matched
    Vocabulary, \* the values of each kind of parameter, in the order they are listed
    Names,      \* the mentions that exist, "@" and name, in the order they are listed
    Letters,    \* the words that are typed
    MaxWords    \* bound: the words of the line

ASSUME PaletteAssumption == MaxWords \in Nat /\ "Free" \notin DOMAIN Vocabulary

\* The line is split at its blanks: no word is empty.
Word == Seq(STRING) \ {<<>>}

\* A row of COMMAND_LIST, and one of the actions of a doorway.
TableRowWith(subs) ==
    [path : Seq(Word) \ {<<>>}, words : SUBSET Word, role : Nat,
     args : Seq(DOMAIN Vocabulary \cup {"Free"}), subs : subs]
TableRow == TableRowWith(Seq(TableRowWith({<<>>})))

ASSUME TableAssumption == Table \in Seq(TableRow)
ASSUME WordsAssumption ==
    /\ \A kind \in DOMAIN Vocabulary : Vocabulary[kind] \in Seq(Seq(Word) \ {<<>>})
    /\ Names \in Seq(Word) /\ Letters \subseteq Word

VARIABLES
    line,       \* the input line
    shown,      \* Palette::mode
    rank,       \* App::role
    away        \* the mentions that are not of a user here

paletteVars == <<line, shown, rank, away>>

Empty  == [slash |-> FALSE, words |-> <<>>, blank |-> FALSE]
Hidden == [mode |-> "hidden", rows |-> <<>>, at |-> 0, start |-> 0]

PaletteInit == line = Empty /\ shown = Hidden /\ rank = 0 /\ away = {}

\* partial: the half-typed word the caret is on.
Partial(l) == IF l.blank \/ l.words = <<>> THEN <<>> ELSE Last(l.words)

\* The number of words before the half-typed one: Values::start.
Kept(l) == IF Partial(l) = <<>> THEN Len(l.words) ELSE Len(l.words) - 1

AvailableRow(row) ==
    /\ rank >= row.role
    /\ row.subs = <<>> \/ \E i \in DOMAIN row.subs : rank >= row.subs[i].role

Matching(row, w) == \E t \in row.words : IsPrefix(w, t)

\* The rows at some positions, in their order.
Position(hits, k) == CHOOSE i \in hits : Cardinality({j \in hits : j <= i}) = k
Only(rows, hits)  == [k \in 1..Cardinality(hits) |-> rows[Position(hits, k)]]

Earliest(hits) == CHOOSE i \in hits : \A j \in hits : i <= j

-----------------------------------------------------------------------------
(* Palette::update.                                                        *)

\* offer, menu: a row typed out wins the selection, else it stays where it was.
Select(mode, rows, start, exact) ==
    [mode |-> mode, rows |-> rows, start |-> start,
     at |-> IF exact # {} THEN Earliest(exact)
            ELSE IF shown.mode # mode THEN 1
            ELSE IF shown.at <= Len(rows) THEN shown.at ELSE Len(rows)]

Offer(matches, l) ==
    Select("values", matches, Kept(l), {i \in DOMAIN matches : matches[i] = <<Partial(l)>>})

Menu(rows, word, start) ==
    IF rows = <<>> THEN Hidden
    ELSE Select("menu", rows, start, {i \in DOMAIN rows : word \in rows[i].words})

\* active_arg: the parameter the caret is on, 0 for none.
ActiveArg(args, given, blank) ==
    LET index == IF blank \/ given = 0 THEN given + 1 ELSE given
    IN  IF index <= Len(args) THEN index
        ELSE IF args # <<>> /\ Last(args) = "Free" THEN Len(args) ELSE 0

\* hint: the values of the parameter, else its signature.
Hint(args, given, l) ==
    LET i       == ActiveArg(args, given, l.blank)
        values  == IF i = 0 \/ args[i] = "Free" THEN <<>> ELSE Vocabulary[args[i]]
        matches == Only(values, {k \in DOMAIN values : IsPrefix(Partial(l), values[k][1])})
    IN  IF matches # <<>> THEN Offer(matches, l)
        ELSE [Hidden EXCEPT !.mode = "signature"]

\* action: the action of a doorway, or the parameter after it.
Action(row, l) ==
    LET word == IF Len(l.words) > 1 THEN l.words[2] ELSE <<>>
        fits == {i \in DOMAIN row.subs : rank >= row.subs[i].role /\ Matching(row.subs[i], word)}
        hits == {i \in DOMAIN row.subs : word \in row.subs[i].words}
    IN  IF Len(l.words) = 1 \/ (Len(l.words) = 2 /\ ~l.blank)
        THEN Menu(Only(row.subs, fits), word, 1)
        ELSE IF hits = {} THEN Hidden
        ELSE LET sub == row.subs[Earliest(hits)]
             IN  IF rank < sub.role \/ sub.args = <<>> THEN Hidden ELSE Hint(sub.args, Len(l.words) - 2, l)

\* mention: the names for an @name at the end of the line.
Mentions(l) ==
    LET fits == {i \in DOMAIN Names : Names[i] \notin away /\ IsPrefix(Partial(l), Names[i])}
        half == ~(l.slash /\ Len(l.words) <= 1 /\ ~l.blank) /\ Partial(l) # <<>>
    IN  IF half /\ Partial(l)[1] = "@" THEN Only(Names, fits) ELSE <<>>

Single(names) == [i \in DOMAIN names |-> <<names[i]>>]

Update(l) ==
    LET word == IF l.words = <<>> THEN <<>> ELSE l.words[1]
        fits == {i \in DOMAIN Table : AvailableRow(Table[i]) /\ Matching(Table[i], word)}
        hits == {i \in DOMAIN Table : AvailableRow(Table[i]) /\ word \in Table[i].words}
    IN  IF Mentions(l) # <<>> THEN Offer(Single(Mentions(l)), l)
        ELSE IF ~l.slash THEN Hidden
        ELSE IF Len(l.words) <= 1 /\ ~l.blank THEN Menu(Only(Table, fits), word, 0)
        ELSE IF hits = {} THEN Hidden
        ELSE LET row == Table[Earliest(hits)]
             IN  IF row.subs # <<>> THEN Action(row, l)
                 ELSE IF row.args = <<>> THEN Hidden
                 ELSE Hint(row.args, Len(l.words) - 1, l)

Active == shown.mode \in {"menu", "values"}

-----------------------------------------------------------------------------
(* The keys.                                                               *)

Becomes(l) == line' = l /\ shown' = Update(l) /\ UNCHANGED <<rank, away>>

\* A key or a paste that edits the line.
Edits ==
    \/ \E w \in Letters : Kept(line) < MaxWords
         /\ Becomes([line EXCEPT !.words = Append(SubSeq(@, 1, Kept(line)), w), !.blank = FALSE])
    \/ Becomes([line EXCEPT !.words = SubSeq(@, 1, Kept(line)), !.blank = Kept(line) > 0])
    \/ line.words # <<>> /\ Becomes([line EXCEPT !.blank = ~@])
    \/ Becomes([line EXCEPT !.slash = ~@])

\* Alt+Enter: a newline; the palette is dismissed.
Newline ==
    /\ line' = [line EXCEPT !.blank = line.words # <<>>] /\ shown' = Hidden
    /\ UNCHANGED <<rank, away>>

MoveTo(to)  == shown' = [shown EXCEPT !.at = to] /\ UNCHANGED <<line, rank, away>>
NextRow     == Active /\ MoveTo(IF shown.at = Len(shown.rows) THEN 1 ELSE shown.at + 1)
PreviousRow == Active /\ MoveTo(IF shown.at = 1 THEN Len(shown.rows) ELSE shown.at - 1)

\* Mutant: the keys of the history recall a line under the palette too.
RecallsAlways == TRUE

\* Up and Down go through the sent lines only while no list is open.
Recalls == ~Active

\* A sent line takes the place of the line, and the palette is not asked again.
Recall ==
    /\ Recalls
    /\ \E slash \in BOOLEAN, w \in Letters :
         line' = [slash |-> slash, words |-> <<w>>, blank |-> FALSE]
    /\ UNCHANGED <<shown, rank, away>>

Chosen == shown.rows[shown.at]

\* Values::typed, Entry::typed: the line spells the row out already.
TypedOut ==
    IF shown.mode = "values"
    THEN SubSeq(line.words, shown.start + 1, Len(line.words)) = Chosen
    ELSE line.slash /\ Len(line.words) = shown.start + 1 /\ Last(line.words) \in Chosen.words

\* complete_selection: a value takes the place of the half-typed one; a command, or an
\* action, becomes the line, with room for its parameters.
Completed ==
    IF shown.mode = "values"
    THEN [line EXCEPT !.words = SubSeq(@, 1, shown.start) \o Chosen, !.blank = FALSE]
    ELSE [slash |-> TRUE, blank |-> Chosen.args # <<>>, words |-> Chosen.path]

Complete == Len(Completed.words) <= MaxWords /\ Becomes(Completed)

Tab == Active /\ Complete

EnterKey ==
    IF Active /\ ~TypedOut THEN Complete
    ELSE line' = Empty /\ shown' = Hidden /\ UNCHANGED <<rank, away>>

\* Esc, and the end of the connection.
Dismiss == shown' = Hidden /\ UNCHANGED <<line, rank, away>>

\* The role is changed, users come and go: the palette is not asked again.
Changes ==
    /\ rank' \in 0..1 /\ away' \in SUBSET {Names[i] : i \in 2..Len(Names)}
    /\ UNCHANGED <<line, shown>>

PaletteNext ==
    Edits \/ Newline \/ NextRow \/ PreviousRow \/ Recall \/ Tab \/ EnterKey \/ Dismiss \/ Changes

PaletteSpec == PaletteInit /\ [][PaletteNext]_paletteVars

-----------------------------------------------------------------------------
(* Properties.                                                             *)

\* Palette::next, Palette::previous, complete_selection: while a list is open its
\* selection is a row of it, the text that a completion would replace is the half-typed
\* end of the line and not more, and every row begins with it.  The list is not computed
\* when the line is recalled, the role changes or users leave, and is stale for the last
\* two: what it offers may not be allowed any more, but it still fits the line.
OfferFits ==
    Active =>
        /\ shown.at \in DOMAIN shown.rows
        /\ shown.start = Kept(line)
        /\ \A i \in DOMAIN shown.rows :
             IF shown.mode = "values" THEN IsPrefix(Partial(line), shown.rows[i][1])
             ELSE Matching(shown.rows[i], Partial(line))
=============================================================================
