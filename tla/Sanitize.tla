------------------------------ MODULE Sanitize ------------------------------
(***************************************************************************)
(* What is left of a command line before it is given to the sandbox shell  *)
(* (src/vgseer/sanitize.c), and how that shell reads it.  A line is a      *)
(* sequence of characters, with one character for each class the code      *)
(* tells apart: ";" stands for ; & |, ">" for > <, "?" for ? * + @, " "    *)
(* for space and tab, and the ordinary ones for themselves.                *)
(***************************************************************************)
EXTENDS Integers, Sequences, SequencesExt

Return == "CR"

Backtick == "tick"

Single == "'"

Double == "\""

Paren == "("

NoQuote == "none"

Closer(qt) == IF qt = Paren THEN ")" ELSE qt

-----------------------------------------------------------------------------
(* struct sane_cmd, with the end of the loop.                              *)

Clean == [last_char_backslash |-> FALSE, last_char_exclamation |-> FALSE,
          last_char_dollar |-> FALSE, skip_word |-> FALSE,
          ql |-> <<>>, command |-> <<>>, ended |-> FALSE]

Top(s) == IF s.ql = <<>> THEN NoQuote ELSE Head(s.ql)

add_char(s, c) == [s EXCEPT !.command = Append(@, c)]

backspace(s) == [s EXCEPT !.command = IF @ = <<>> THEN @ ELSE Front(@)]

last_char(s, c) == s.command # <<>> /\ Last(s.command) = c

ql_push(s, qt) == add_char([s EXCEPT !.ql = <<qt>> \o @], qt)

ql_pop(s) == add_char([s EXCEPT !.ql = Tail(@)], Closer(Head(s.ql)))

Break(s) == [s EXCEPT !.ended = TRUE]

\* It looks at the terminating NUL each time: the whole command goes.
delete_current_word(s) == [s EXCEPT !.command = <<>>]

\* What the character does when it is neither quoted nor escaped.
Special(s, c) ==
    LET quoted == Top(s) = Double
        plain == add_char(s, c)
    IN IF c = "\\" THEN IF quoted THEN plain ELSE [plain EXCEPT !.last_char_backslash = TRUE]
       ELSE IF c = Double THEN IF quoted THEN ql_pop(s) ELSE ql_push(s, c)
       ELSE IF c = "$" THEN [plain EXCEPT !.last_char_dollar = TRUE]
       ELSE IF c = "!" THEN [plain EXCEPT !.last_char_exclamation = TRUE]
       ELSE IF c = Backtick THEN Break(s)
       ELSE IF c = "(" /\ s.last_char_exclamation
       THEN LET t == [s EXCEPT !.last_char_exclamation = FALSE]
            IN IF quoted THEN Break(backspace(t)) ELSE ql_push(t, Paren)
       ELSE IF quoted THEN plain
       ELSE IF c = Single THEN ql_push(s, c)
       ELSE IF c = "(" THEN IF last_char(s, "?") THEN ql_push(s, Paren) ELSE Break(s)
       ELSE IF c = ")" THEN IF Top(s) = Paren THEN ql_pop(s) ELSE s
       ELSE IF c = ";" THEN Break(s)
       ELSE IF c = ">" THEN Break(delete_current_word(s))
       ELSE plain

\* The switch.
Char(s, c) ==
    IF c = Return THEN s
    ELSE IF Top(s) = Single THEN IF c = Single THEN ql_pop(s) ELSE add_char(s, c)
    ELSE IF c = " "
    THEN add_char([s EXCEPT !.last_char_exclamation = FALSE, !.last_char_backslash = FALSE], c)
    ELSE IF Top(s) = Paren /\ c = "!" THEN s
    ELSE IF Top(s) = Paren /\ c \in {";", ">"} THEN add_char(s, c)
    ELSE IF s.last_char_backslash THEN add_char([s EXCEPT !.last_char_backslash = FALSE], c)
    ELSE Special(s, c)

\* One turn of the loop: no history expansion, no $ construct.
Turn(s, c) ==
    IF s.ended THEN s
    ELSE IF s.last_char_exclamation /\ c \notin {"(", " "}
    THEN [backspace(s) EXCEPT !.skip_word = TRUE, !.last_char_exclamation = FALSE]
    ELSE IF s.last_char_dollar /\ c # " "
    THEN Break([backspace(s) EXCEPT !.last_char_dollar = FALSE])
    ELSE IF s.skip_word /\ c # " " THEN s
    ELSE Char([s EXCEPT !.last_char_dollar = FALSE, !.skip_word = FALSE], c)

\* Mutant: a backslash is left at the end.
LeavesBackslash(s) ==
    LET t == IF s.last_char_exclamation /\ s.ql # <<>> THEN backspace(s) ELSE s
    IN t.command \o [i \in DOMAIN s.ql |-> Closer(s.ql[i])]

\* A backslash at the end goes, and what is open is closed.
Finished(s) ==
    LET t == IF s.last_char_backslash \/ (s.last_char_exclamation /\ s.ql # <<>>)
             THEN backspace(s) ELSE s
    IN t.command \o [i \in DOMAIN s.ql |-> Closer(s.ql[i])]

\* The loop over the line.
Loop(line) ==
    LET after[i \in 0..Len(line)] ==
            IF i = 0 THEN Clean ELSE LET s == after[i - 1] IN Turn(s, line[i])
    IN after[Len(line)]

sanitize(line) == Finished(Loop(line))

\* What sanitize does not see through: a backslash counts for it neither
\* inside double quotes nor, before some characters, inside parentheses,
\* and it does for the shell; and a pattern that is escaped is one to it.
Eludes(line) ==
    \E i \in DOMAIN line :
        LET s == Loop(SubSeq(line, 1, i - 1))
        IN \/ line[i] = "\\" /\ Top(s) \in {Double, Paren}
           \/ line[i] = "?" /\ s.last_char_backslash

-----------------------------------------------------------------------------
(* How a shell reads a line: the quotes it is in, whether the next         *)
(* character is escaped, the words so far, and whether it has met only     *)
(* words: no operator, redirection, expansion or substitution.             *)

Unread == [in |-> <<>>, esc |-> FALSE, opener |-> FALSE, dollar |-> FALSE,
           words |-> <<>>, apart |-> TRUE, only_words |-> TRUE]

Literal(r, c) ==
    [r EXCEPT !.words = IF r.apart THEN Append(@, <<c>>)
                        ELSE [r.words EXCEPT ![Len(r.words)] = Append(@, c)],
              !.apart = FALSE, !.esc = FALSE, !.opener = FALSE, !.dollar = FALSE]

\* A quote begins a word, if only an empty one.
Opened(r, qt) ==
    [r EXCEPT !.in = <<qt>> \o @, !.opener = FALSE,
              !.words = IF r.apart THEN Append(@, <<>>) ELSE @, !.apart = FALSE]

Closed(r) == [r EXCEPT !.in = Tail(@), !.opener = FALSE, !.dollar = FALSE]

Operator(r) == [r EXCEPT !.only_words = FALSE]

Reads(r, c) ==
    LET qt == IF r.in = <<>> THEN NoQuote ELSE Head(r.in)
    IN IF qt = Single THEN IF c = Single THEN Closed(r) ELSE Literal(r, c)
       ELSE IF r.esc THEN Literal(r, c)
       ELSE IF r.dollar /\ c \notin {" ", Closer(qt)} THEN Operator(r)
       ELSE IF c = "\\" THEN [r EXCEPT !.esc = TRUE]
       ELSE IF c = "$" THEN [Literal(r, c) EXCEPT !.dollar = TRUE]
       ELSE IF c = Backtick THEN Operator(r)
       ELSE IF c = Double THEN IF qt = Double THEN Closed(r) ELSE Opened(r, Double)
       ELSE IF qt = Double THEN Literal(r, c)
       ELSE IF c = Single THEN Opened(r, Single)
       ELSE IF c \in {"?", "!"} THEN [Literal(r, c) EXCEPT !.opener = TRUE]
       ELSE IF c = "(" THEN IF r.opener THEN Opened(r, Paren) ELSE Operator(r)
       ELSE IF qt = Paren THEN IF c = ")" THEN Closed(r) ELSE Literal(r, c)
       ELSE IF c \in {")", ";", ">"} THEN Operator(r)
       ELSE IF c = " " THEN [r EXCEPT !.apart = TRUE, !.opener = FALSE, !.dollar = FALSE]
       ELSE Literal(r, c)

Reading(line) ==
    LET after[i \in 0..Len(line)] ==
            IF i = 0 THEN Unread ELSE LET r == after[i - 1] IN Reads(r, line[i])
    IN after[Len(line)]

OneCommand(line) ==
    LET r == Reading(line) IN r.in = <<>> /\ ~ r.esc /\ r.only_words

\* The words of a line, their quotes removed.
WordsOf(line) == Reading(line).words
=============================================================================
