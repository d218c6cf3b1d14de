------------------------------- MODULE CmdLine -------------------------------
(***************************************************************************)
(* The command line vgseer reconstructs (src/vgseer/cmdline.c): the bytes  *)
(* of the text, in which a carriage return stands for the end of a row of  *)
(* the terminal, and the cursor as an offset in them.  In a UTF-8 locale   *)
(* a character may have two bytes and arrives one byte at a time.          *)
(*                                                                         *)
(* An operation is its result; whether it succeeds is a predicate of its   *)
(* own, Can..., and a cursor of Fails means that it does not.              *)
(***************************************************************************)
EXTENDS Integers, Sequences, SequencesExt, FiniteSetsExt

CONSTANT Utf8Chars  \* characters of two bytes, c \o "1" and c \o "2"

CR == "CR"

Blank == " "

Fails == -1

\* The bytes of a character.
Encode(c) == IF c \in Utf8Chars THEN <<<<c, 1>>, <<c, 2>>>> ELSE <<<<c, 0>>>>

Byte(c) == <<c, 0>>

IsLead(b) == b[2] = 1

cmd_init == [data |-> <<>>, pos |-> 0, partial |-> <<>>, rebuilding |-> FALSE]

\* The byte under offset p, or the terminating null.
At(data, p) == IF p < Len(data) THEN data[p + 1] ELSE Byte("NUL")

Erase(data, from, to) == SubSeq(data, 1, from) \o SubSeq(data, to + 1, Len(data))

Splice(data, p, bytes) == SubSeq(data, 1, p) \o bytes \o SubSeq(data, p + 1, Len(data))

\* Where the rows of data end, among the offsets given.
CRs(data, offsets) == {i \in offsets : At(data, i) = Byte(CR)}

CRsBefore(data, p) == CRs(data, 0..(p - 1))

CRsFrom(data, p) == CRs(data, p..(Len(data) - 1))

\* g_utf8_next_char, or one byte.
NextChar(data, p) == IF IsLead(At(data, p)) THEN p + 2 ELSE p + 1

\* g_utf8_find_prev_char, or one byte.
PrevChar(data, p) == IF p > 1 /\ IsLead(At(data, p - 2)) THEN p - 2 ELSE p - 1

cmd_clear(cmd) == [cmd EXCEPT !.data = <<>>, !.pos = 0]

-----------------------------------------------------------------------------

\* Mutant: the cursor may pass the end by one.
ForwardPast(cmd, n) ==
    LET at[k \in 0..n] ==
            IF k = 0 THEN cmd.pos
            ELSE IF at[k - 1] \in {Fails, Len(cmd.data) + 1} THEN Fails
            ELSE NextChar(cmd.data, at[k - 1])
    IN at[n]

\* The cursor n characters further, if the text is that long.
cmd_forward(cmd, n) ==
    LET at[k \in 0..n] ==
            IF k = 0 THEN cmd.pos
            ELSE IF at[k - 1] \in {Fails, Len(cmd.data)} THEN Fails
            ELSE NextChar(cmd.data, at[k - 1])
    IN at[n]

cmd_backward(cmd, n) ==
    LET at[k \in 0..n] ==
            IF k = 0 THEN cmd.pos
            ELSE IF at[k - 1] \in {Fails, 0} THEN Fails
            ELSE PrevChar(cmd.data, at[k - 1])
    IN at[n]

\* Mutant: characters are taken for bytes.
OverwriteBytes(cmd, b) ==
    LET bytes == Append(cmd.partial, b)
    IN IF IsLead(bytes[Len(bytes)])
       THEN [cmd EXCEPT !.partial = bytes]
       ELSE [cmd EXCEPT !.data = SubSeq(@, 1, cmd.pos) \o bytes
                                   \o SubSeq(@, cmd.pos + Len(bytes) + 1, Len(@)),
                        !.pos = @ + Len(bytes),
                        !.partial = <<>>]

\* A byte completes a character, which replaces the one at the cursor whatever
\* their lengths, or is kept until the next one does.
cmd_overwrite_char(cmd, b) ==
    LET bytes == Append(cmd.partial, b)
        erased == IF cmd.pos = Len(cmd.data) THEN cmd.data
                  ELSE Erase(cmd.data, cmd.pos, NextChar(cmd.data, cmd.pos))
    IN IF IsLead(bytes[Len(bytes)])
       THEN [cmd EXCEPT !.partial = bytes]
       ELSE [cmd EXCEPT !.data = Splice(erased, cmd.pos, bytes),
                        !.pos = @ + Len(bytes),
                        !.partial = <<>>]

cmd_del_chars(cmd, n) ==
    [cmd EXCEPT !.data = Erase(@, cmd.pos, cmd_forward(cmd, n))]

\* Deleting succeeds exactly when the cursor could move over what is deleted.
CanDelete(cmd, n) == cmd_forward(cmd, n) # Fails

\* From the cursor to the end of its row; with the cursor at the very start, the
\* row goes with its end.
WipeRight(cmd) ==
    LET ends == CRsFrom(cmd.data, cmd.pos)
        to == IF ends = {} THEN Len(cmd.data) ELSE Min(ends)
    IN [cmd EXCEPT !.data =
            Erase(@, cmd.pos, IF cmd.pos = 0 /\ ends # {} THEN to + 1 ELSE to)]

\* The row, with the end of the row before.
WipeAll(cmd) ==
    LET before == CRsBefore(cmd.data, cmd.pos)
        after == CRsFrom(cmd.data, cmd.pos)
        from == IF before = {} THEN 0 ELSE Max(before)
        to == IF after = {} THEN Len(cmd.data) ELSE Min(after)
    IN [cmd EXCEPT !.data = Erase(@, from, to), !.pos = from]

\* D_RIGHT, D_ALL; D_LEFT is refused.
cmd_wipe_in_line(cmd, dir) ==
    IF dir = 0 THEN WipeRight(cmd) ELSE WipeAll(cmd)

CanWipe(dir) == dir \in {0, 2}

cmd_insert_chars(cmd, n) ==
    [cmd EXCEPT !.data = Splice(@, cmd.pos, [i \in 1..n |-> Byte(Blank)])]

\* Ends of rows that have collected at the end, as far as the cursor is before
\* them.
cmd_del_trailing_CRs(cmd) ==
    LET TrailingFrom(p) ==
            /\ p > cmd.pos
            /\ \A i \in p..(Len(cmd.data) - 1) : At(cmd.data, i) = Byte(CR)
        keep == Min({p \in 0..Len(cmd.data) : TrailingFrom(p)} \cup {Len(cmd.data)})
    IN [cmd EXCEPT !.data = SubSeq(@, 1, keep)]

\* What escape_filename asks of the text around the cursor.
cmd_whitespace_to_left(cmd) ==
    cmd.pos = 0 \/ At(cmd.data, PrevChar(cmd.data, cmd.pos)) \in {Byte(Blank), Byte(CR)}

cmd_whitespace_to_right(cmd) ==
    At(cmd.data, cmd.pos) \in {Byte(Blank), Byte(CR)}
=============================================================================
