--------------------------------- MODULE Line ---------------------------------
(***************************************************************************)
(* What vgseer should make of a shell's output: a command line seen as the *)
(* terminal shows it, rows of characters after the prompt and a cursor in  *)
(* them, changed by one whole token of the output at a time.  ShellScan,   *)
(* which finds the tokens in bytes read in pieces, implements it.          *)
(*                                                                         *)
(* A shell prints what its own line editor would, knowing the line: Sane   *)
(* says what that is.                                                      *)
(***************************************************************************)
EXTENDS Integers, Sequences, SequencesExt

CONSTANTS
    Zsh,         \* the shell is zsh
    Chars,       \* what is typed, a space among them
    Width,       \* columns of the terminal
    PromptWidth, \* those of the first row the prompt takes
    MaxRows,     \* bound: rows of a command line
    MaxTodo      \* bound: tokens printed and not yet made sense of

VARIABLES
    todo,    \* tokens printed and not yet made sense of
    screen,  \* what the ones before come to
    entered  \* the last key typed may end the line

lineVars == <<todo, screen, entered>>

Space == " "

Token(kind, n) == [kind |-> kind, n |-> n, c |-> ""]

Typed(c) == [kind |-> "char", n |-> 0, c |-> c]

\* The number in an escape sequence; none stands for 1 (0 when erasing).
Count(t) == IF t.n = 0 THEN 1 ELSE t.n

Tokens ==
    {Typed(c) : c \in Chars}
    \cup {Token(k, 0) : k \in {"backspace", "bell", "return", "newline", "wrap",
                               "ps1", "pwd", "colour"}}
    \cup {Token(k, n) : k \in {"forward", "backward"}, n \in {0, 2}}
    \cup {Token("up", 1), Token("insert", 1)}
    \cup {Token("delete", n) : n \in {0, 2}}
    \cup {Token("erase", n) : n \in {0, 1, 2}}
    \cup (IF Zsh THEN {Token("rstart", 0), Token("rend", 2), Token("completed", 2)}
                 ELSE {})

Empty == <<<<>>>>

Modes == {"prompt", "executing", "rprompt"}

Columns(r) == IF r = 1 THEN Width - PromptWidth ELSE Width

\* The terminal's column the cursor is in.
ColumnOf(r, c) == IF r = 1 THEN PromptWidth + c ELSE c

\* Empty rows at the end are forgotten once the cursor is before them.
Settled(s) ==
    LET last == Len(s.rows)
        Enough(k) ==
            /\ \A j \in (k + 1)..last : s.rows[j] = <<>>
            /\ k = last \/ k > s.r \/ s.c < Len(s.rows[s.r])
        k == CHOOSE i \in s.r..last :
                Enough(i) /\ \A j \in s.r..last : Enough(j) => i <= j
    IN [s EXCEPT !.rows = SubSeq(@, 1, k)]

Leaves(s, mode, keep) == [s EXCEPT !.mode = mode, !.keep = keep]

\* Something the line does not allow for: vgseer has lost it.
Lost(s) == [s EXCEPT !.mode = "executing", !.rows = Empty, !.r = 1, !.c = 0]

Rebuild(s) == [s EXCEPT !.mode = "executing", !.keep = TRUE, !.r = 1, !.c = 0]

Started(s) ==
    IF s.keep THEN Leaves(s, "prompt", FALSE)
    ELSE [mode |-> "prompt", keep |-> FALSE, rows |-> Empty, r |-> 1, c |-> 0]

-----------------------------------------------------------------------------
(* What each token does to the line, at the prompt.                        *)

Row(s) == s.rows[s.r]

LastRow(s) == s.r = Len(s.rows)

Put(s, text) ==
    [s EXCEPT !.rows[s.r] = SubSeq(@, 1, s.c) \o text \o SubSeq(@, s.c + Len(text) + 1, Len(@)),
              !.c = @ + Len(text)]

Back(s, n) == IF s.c >= n THEN [s EXCEPT !.c = @ - n] ELSE Lost(s)

Forward(s, n) ==
    IF s.c + n <= Len(Row(s)) THEN [s EXCEPT !.c = @ + n]
    ELSE IF ~Zsh THEN Leaves(s, "executing", s.keep)
    ELSE IF n = 1 THEN Put(s, <<Space>>)
    ELSE Leaves(s, "rprompt", TRUE)

\* The terminal keeps the column; the first row is reached only when the row
\* left ends in another, from which vgseer can tell the column.
Up(s) ==
    IF s.r = 2 /\ (LastRow(s) \/ s.c < PromptWidth) THEN Rebuild(s)
    ELSE [s EXCEPT !.r = @ - 1, !.c = ColumnOf(s.r, s.c) - ColumnOf(s.r - 1, 0)]

EraseIn(s, n) ==
    CASE n = 0 -> [s EXCEPT !.rows[s.r] = SubSeq(@, 1, s.c)]
      [] n = 1 -> Lost(s)
      [] n = 2 -> [s EXCEPT !.rows[s.r] = <<>>]

Delete(s, n) ==
    IF s.c + n > Len(Row(s)) THEN Lost(s)
    ELSE [s EXCEPT !.rows[s.r] = SubSeq(@, 1, s.c) \o SubSeq(@, s.c + n + 1, Len(@))]

Insert(s) ==
    [s EXCEPT !.rows[s.r] = SubSeq(@, 1, s.c) \o <<Space>> \o SubSeq(@, s.c + 1, Len(@))]

Return(s, e) ==
    CASE e -> Leaves(s, "executing", s.keep)
      [] ~e /\ s.r = 1 -> Rebuild(s)
      [] ~e /\ s.r > 1 -> [s EXCEPT !.c = 0]

NextRow(s) ==
    [s EXCEPT !.rows = IF s.r = Len(@) THEN Append(@, <<>>) ELSE @,
              !.r = @ + 1, !.c = 0]

Newline(s, e) ==
    IF e /\ s.r = Len(s.rows) THEN Leaves(s, "executing", s.keep) ELSE NextRow(s)

\* The space of a wrap that the end of the line interrupts is taken for typed.
Wrap(s, e) ==
    IF e THEN Leaves(Put(s, <<Space>>), "executing", s.keep) ELSE NextRow(s)

AtPrompt(s, t, e) ==
    CASE t.kind = "char" -> Put(s, <<t.c>>)
      [] t.kind = "backspace" -> Back(s, 1)
      [] t.kind = "backward" -> Back(s, Count(t))
      [] t.kind = "forward" -> Forward(s, Count(t))
      [] t.kind = "up" -> Up(s)
      [] t.kind = "erase" -> EraseIn(s, t.n)
      [] t.kind = "delete" -> Delete(s, Count(t))
      [] t.kind = "insert" -> Insert(s)
      [] t.kind = "return" -> Return(s, e)
      [] t.kind = "newline" -> Newline(s, e)
      [] t.kind = "wrap" -> Wrap(s, e)
      [] t.kind = "ps1" -> Started(s)
      [] t.kind = "rstart" -> Leaves(s, "rprompt", TRUE)
      [] OTHER -> s

WhileExecuting(s, t) ==
    CASE t.kind \in {"ps1", "rend"} -> Started(s)
      [] t.kind = "completed" -> [s EXCEPT !.keep = TRUE]
      [] OTHER -> s

InRprompt(s, t) == IF t.kind = "rend" THEN Started(s) ELSE s

Apply(s, t, e) ==
    Settled(CASE s.mode = "prompt" -> AtPrompt(s, t, e)
              [] s.mode = "executing" -> WhileExecuting(s, t)
              [] s.mode = "rprompt" -> InRprompt(s, t))

\* The line as the shell knows it.
Now ==
    LET after[k \in 0..Len(todo)] ==
            IF k = 0 THEN screen ELSE Apply(after[k - 1], todo[k], entered)
    IN after[Len(todo)]

-----------------------------------------------------------------------------
(* What a shell prints.                                                    *)

Full(s) == s.c = Columns(s.r)

Previous == IF todo = <<>> THEN Token("none", 0) ELSE todo[Len(todo)]

\* Lengths only change in the last row, whose end the terminal does not wrap.
SaneEdit(s, t) ==
    CASE t.kind = "char" -> ~Full(s) /\ (LastRow(s) \/ s.c < Len(Row(s)))
      [] t.kind \in {"backspace", "backward"} -> s.r = 1 \/ s.c >= Count(t)
      [] t.kind = "forward" ->
            \/ s.c + Count(t) <= Len(Row(s))
            \/ Zsh /\ LastRow(s) /\ ~Full(s) /\ (s.c = Len(Row(s)) \/ Count(t) > Len(Row(s)) - s.c + 1)
      [] t.kind = "up" -> s.r > 1 /\ ~Full(s)
      [] t.kind = "erase" -> LastRow(s) /\ (t.n = 2 => s.r = 1 /\ s.c = 0)
      [] t.kind = "delete" -> LastRow(s)
      [] t.kind = "insert" -> LastRow(s) /\ Len(Row(s)) < Columns(s.r)
      [] t.kind = "return" -> Previous # Typed(Space) /\ Previous.kind # "wrap"
      [] t.kind = "newline" -> Previous.kind # "wrap" /\ s.r < MaxRows /\ (LastRow(s) => Full(s))
      [] t.kind = "wrap" -> Full(s) /\ s.r < MaxRows
      [] OTHER -> t.kind \in {"bell", "ps1", "rstart"}

\* After a key that may end the line it is echoed, or the line is left.
SaneEnd(s, t) ==
    \/ t.kind \in {"char", "bell"} /\ SaneEdit(s, t)
    \/ t.kind = "newline" /\ LastRow(s)

Sane(s, t) ==
    CASE s.mode = "prompt" /\ entered -> SaneEnd(s, t)
      [] s.mode = "prompt" /\ ~entered -> SaneEdit(s, t)
      [] s.mode = "executing" /\ Previous.kind = "wrap" -> t.kind = "newline"
      [] s.mode = "executing" /\ Previous.kind # "wrap" -> 
            \/ t.kind \in {"char", "newline", "colour", "pwd", "ps1"}
            \/ t.kind = "completed" /\ \A k \in DOMAIN s.rows : Len(s.rows[k]) <= Columns(k)
      [] s.mode = "rprompt" -> t.kind \in {"char", "rstart", "rend"}

\* A wrap, a return and the mark at both ends of a right prompt wait for what
\* comes after them; nothing else does.
Quiet == todo = <<>> \/ (Len(todo) = 1 /\ todo[1].kind \in {"wrap", "return", "rstart"})

Room == Len(todo) < MaxTodo \/ Quiet

Prints(t) ==
    /\ Room
    /\ Sane(Now, t)
    /\ todo' = Append(todo, t)
    /\ UNCHANGED <<screen, entered>>

\* A person types when the shell has answered the last key.
Answered ==
    /\ todo = <<>> \/ (Len(todo) = 1 /\ todo[1].kind = "wrap" /\ LastRow(screen))
    /\ Now.mode # "executing" \/ ~Now.keep

Key(e) ==
    /\ Answered
    /\ entered' = e
    /\ UNCHANGED <<todo, screen>>

-----------------------------------------------------------------------------

Init ==
    /\ todo = <<>>
    /\ screen = [mode |-> "executing", keep |-> FALSE, rows |-> Empty, r |-> 1, c |-> 0]
    /\ entered = FALSE

\* The next token is made sense of.
Take ==
    /\ todo # <<>>
    /\ screen' = Apply(screen, Head(todo), entered)
    /\ todo' = Tail(todo)
    /\ UNCHANGED entered

Next ==
    \/ \E t \in Tokens : Prints(t)
    \/ \E e \in BOOLEAN : Key(e)
    \/ Take

Spec == Init /\ [][Next]_lineVars
=============================================================================
