------------------------------- MODULE ShellScan -------------------------------
(***************************************************************************)
(* vgseer scanning what the user's shell prints (src/vgseer/vgseer.c,      *)
(* connection.c, sequences.c): the bytes come in reads that end anywhere,  *)
(* a segment of them is compared with the sequences looked for, each match *)
(* moves the command line, and what is not for vgseer goes on to the       *)
(* terminal.                                                               *)
(*                                                                         *)
(* The shell prints tokens, todo, of which off bytes are passed; how long  *)
(* a read is is decided as it is scanned, which nothing in the scan can    *)
(* tell from a buffer filled before.  Bytes are written   *)
(* to the terminal when the scan has passed them, instead of at the end of *)
(* the read: nobody sees the difference.                                   *)
(***************************************************************************)
EXTENDS Scanner

CONSTANTS
    Chars,        \* what is typed, a space among them
    Width,        \* columns of the terminal
    PromptWidth,  \* those of the first row the prompt takes
    MaxRows,      \* bound: rows of a command line
    MaxTodo,      \* bound: tokens printed and not yet scanned
    TypeAhead     \* the user may type before the shell has answered

ASSUME ShellScanAssumption ==
    /\ {Zsh, TypeAhead} \subseteq BOOLEAN
    /\ Utf8Chars \subseteq Chars /\ Blank \in Chars \ Utf8Chars
    /\ Chars \cap (Controls \cup Digits) = {}
    /\ {Width, PromptWidth, MaxRows, MaxTodo} \subseteq Nat
    /\ PromptWidth < Width

VARIABLES
    todo,      \* tokens the shell has printed, the first partly passed
    off,       \* how many of its bytes are
    reading,   \* process_shell is at work
    avail,     \* bytes of the buffer from pos on
    seglen,    \* of those, the segment compared so far
    hold,      \* bytes of the segment held over to the next read
    hoWritten, \* ho_written, of a holdover there is
    skip,      \* bytes at pos that connection_write will skip
    early,     \* bytes at pos already written (history)
    partly,    \* b->status is IN_PROGRESS
    sq,        \* the sequences
    pl,        \* b->pl, which b->ss follows
    cmd,       \* the command line
    expect,    \* cmd.expect_newline
    sent       \* the text vgd has, once the queue is emptied

shellVars == <<todo, off>>
bufVars == <<reading, avail, seglen, hold, hoWritten, skip, early>>
scanVars == <<partly, sq, pl>>
cmdVars == <<cmd, sent>>
vars == <<shellVars, bufVars, scanVars, cmdVars, expect>>

\* The bytes of a token; the number of an escape sequence may be left out.
CsiBytes(n, letter) ==
    <<ESC, "[">> \o (IF n = 0 THEN <<>> ELSE IF n = 1 THEN <<"1">> ELSE <<"2">>) \o <<letter>>

ControlBytes(t) ==
    CASE t.kind = "ps1" -> Colour("black") \o Colour("white")
      [] t.kind = "rstart" -> Marker
      [] t.kind = "rend" -> Marker \o CsiBytes(t.n, "D")
      [] t.kind = "pwd" -> <<ESC, "P", "d", ESC, "backslash">>
      [] t.kind = "completed" -> <<ESC, "[", "0", "m", CR>> \o CsiBytes(t.n, "C")
      [] t.kind = "colour" -> Colour("black") \o <<"q">>
      [] t.kind = "wrap" -> <<Blank, CR>>
      [] t.kind = "return" -> <<CR>>
      [] t.kind = "newline" -> <<CR, LF>>
      [] t.kind = "backspace" -> <<BS>>
      [] t.kind = "bell" -> <<BEL>>
      [] OTHER -> CsiBytes(t.n, Last(Pattern[t.kind]))

Bytes(t) ==
    IF t.kind = "char" THEN Encode(t.c)
    ELSE LET b == ControlBytes(t) IN [i \in DOMAIN b |-> Byte(b[i])]

PrintedBytes(tokens) ==
    LET upTo[k \in 0..Len(tokens)] ==
            IF k = 0 THEN <<>> ELSE upTo[k - 1] \o Bytes(tokens[k])
    IN upTo[Len(tokens)]

\* What the shell has printed from the scan's position on.
Stream == LET b == PrintedBytes(todo) IN SubSeq(b, off + 1, Len(b))

-----------------------------------------------------------------------------
(* The line as the terminal shows it: what Line calls the screen.          *)

Chop(data) == IF data = <<>> THEN <<>> ELSE SubSeq(data, 1, Len(data) - 1)

\* Op(x), for which TLC computes x once.
Once(x, Op(_)) == CHOOSE v \in {Op(y) : y \in {x}} : TRUE

CharactersOf(bytes) ==
    LET upTo[k \in 0..Len(bytes)] ==
            IF k = 0 THEN <<>>
            ELSE IF IsLead(bytes[k]) THEN upTo[k - 1]
            ELSE Append(upTo[k - 1], bytes[k][1])
    IN upTo[Len(bytes)]

Characters(data) == Once(data, CharactersOf)

RowsOf(text) ==
    LET Put(rows, x) == IF x = CR THEN Append(rows, <<>>)
                        ELSE [rows EXCEPT ![Len(rows)] = Append(@, x)]
        upTo[k \in 0..Len(text)] ==
            IF k = 0 THEN <<<<>>>>
            ELSE Once(upTo[k - 1], LAMBDA rows : Put(rows, text[k]))
    IN upTo[Len(text)]

Rows(data) == Once(Characters(data), RowsOf)

\* The first half of a wrap that did not complete is on the line, until its
\* second half ends that.
HalfWrap == pl = "prompt" /\ off = 1 /\ todo[1].kind = "wrap"

Text == IF HalfWrap THEN [cmd EXCEPT !.data = Chop(@), !.pos = @ - 1] ELSE cmd

Shown(text) ==
    LET before == Rows(SubSeq(text.data, 1, text.pos))
    IN [mode |-> pl, keep |-> cmd.rebuilding,
        rows |-> Rows(cmd_del_trailing_CRs(text).data),
        r |-> Len(before), c |-> Len(Last(before))]

Screen == Once(Text, Shown)

Terminal == INSTANCE Line WITH screen <- Screen, entered <- expect

-----------------------------------------------------------------------------

Init ==
    /\ todo = <<>> /\ off = 0
    /\ reading = FALSE /\ avail = 0 /\ seglen = 0
    /\ hold = 0 /\ hoWritten = FALSE /\ skip = 0 /\ early = 0
    /\ partly = FALSE /\ sq = init_seqs /\ pl = "executing"
    /\ cmd = cmd_init /\ expect = FALSE /\ sent = <<>>

\* The shell prints what its line editor would.
ShellPrints ==
    /\ Terminal!Room
    /\ \E now \in {Terminal!Now}, t \in Terminal!Tokens :
          /\ Terminal!Sane(now, t) \/ (TypeAhead /\ t.kind = "pwd")
          /\ todo' = Append(todo, t)
    /\ UNCHANGED <<off, bufVars, scanVars, cmdVars, expect>>

\* process_terminal, between two reads of the shell's output: whether what was
\* typed last may end the line.
ProcessTerminal ==
    /\ ~reading
    /\ TypeAhead \/ (hold = Len(Stream) /\ Terminal!Answered)
    /\ expect' \in BOOLEAN
    /\ UNCHANGED <<shellVars, bufVars, scanVars, cmdVars>>

-----------------------------------------------------------------------------
(* process_shell: reading, and the end of a read.                          *)

\* Mutant: bytes already written are written again.
prepend_again == skip' = 0

prepend_holdover == skip' = IF hoWritten THEN hold ELSE 0

\* A read of at least one byte, after what was held over.
ProcessShell ==
    /\ ~reading
    /\ Len(Stream) > hold
    /\ reading' = TRUE
    /\ avail' = hold + 1
    /\ seglen' = hold
    /\ hold' = 0
    /\ prepend_holdover
    /\ hoWritten' = FALSE
    /\ UNCHANGED <<shellVars, early, scanVars, cmdVars, expect>>

\* The bytes of this read when the next one is looked at, if need be with one
\* more that it returned.
Filled == Max({avail, seglen + 1})

\* pass_segment, eat_segment: n bytes leave the segment, to be written or not.
Leave(n, read) ==
    LET total == off + n
        Length(k) == Len(PrintedBytes(SubSeq(todo, 1, k)))
        done == Max({k \in 0..Len(todo) : Length(k) <= total})
    IN /\ todo' = SubSeq(todo, done + 1, Len(todo))
       /\ off' = total - Length(done)
       /\ avail' = read - n
       /\ seglen' = 0

Less(a, b) == IF a > b THEN a - b ELSE 0

passed(n, read) ==
    /\ Leave(n, read)
    /\ skip' = Less(skip, n)
    /\ early' = Less(early, n)
    /\ UNCHANGED <<hold, hoWritten>>

pass_segment(n) == passed(n, Filled) /\ UNCHANGED reading

\* skip still counts from the start of the buffer, which has become shorter.
eat_segment ==
    /\ Leave(seglen + 1, Filled)
    /\ early' = 0
    /\ UNCHANGED <<reading, hold, hoWritten, skip>>

\* Mutant: a partial match is always written at once.
WritesAtOnce == FALSE

\* What is held over is written later, but at the prompt goes straight to the
\* user.
write_later == pl # "prompt"

create_holdover ==
    /\ hold' = seglen
    /\ hoWritten' = ~write_later
    /\ early' = IF write_later THEN early ELSE seglen
    /\ avail' = 0
    /\ UNCHANGED <<shellVars, seglen, skip, scanVars, cmdVars>>

LoneSpace == pl = "prompt" /\ seglen = 1 /\ Stream[1] = Byte(Blank)

\* A_SEND_CMD: action_loop sends the line when the read is over.
QueueSendCmd == sent' = Characters(cmd'.data)

\* A space alone is taken to have been typed, not to start a wrap: the shell is
\* assumed to write the two bytes of a wrap at once.
SpaceTyped ==
    /\ todo[1].kind # "wrap"
    /\ sq' = disable_all_seqs(sq, "prompt")
    /\ partly' = FALSE
    /\ cmd' = cmd_overwrite_char(cmd, Stream[1])
    /\ QueueSendCmd
    /\ passed(1, avail)
    /\ UNCHANGED pl

\* The end of the buffer, and of process_shell.
ReadEnds ==
    /\ reading /\ seglen = avail
    /\ \/ partly /\ LoneSpace /\ SpaceTyped
       \/ partly /\ ~LoneSpace /\ create_holdover
       \/ ~partly /\ UNCHANGED <<shellVars, avail, seglen, hold, hoWritten,
                                             skip, early, scanVars, cmdVars>>
    /\ reading' = FALSE
    /\ UNCHANGED expect

-----------------------------------------------------------------------------
(* scan_sequences: one byte.                                               *)

c == Stream[seglen + 1][1]

Enabled == IF partly THEN sq ELSE enable_all_seqs(sq, pl)

Line == cmd_del_trailing_CRs(cmd)

InProgress ==
    /\ sq' = check_seqs(Enabled, pl, c)
    /\ seglen' = seglen + 1
    /\ avail' = Filled
    /\ cmd' = Line
    /\ UNCHANGED <<shellVars, reading, hold, hoWritten, skip, early, pl,
                   sent, expect>>

\* The segment's first byte is none of a sequence; what follows it is looked at
\* again.
NoMatch ==
    /\ sq' = check_seqs(Enabled, pl, c)
    /\ pass_segment(1)
    /\ IF pl = "prompt"
       THEN cmd' = cmd_overwrite_char(Line, Stream[1]) /\ QueueSendCmd
       ELSE cmd' = Line /\ UNCHANGED sent
    /\ UNCHANGED <<pl, expect>>

\* analyze_effect, by effect; line is what the matching function left.
Becomes(level) ==
    /\ pl' = level
    /\ sq' = clear_seqs(check_seqs(Enabled, pl, c), level)
    /\ UNCHANGED expect

NoEffect(line) == cmd' = line /\ Becomes(pl) /\ UNCHANGED sent

\* Mutant: an edit vgd is not told of.
EditedOnly(line) == NoEffect(line)

\* A_SEND_CMD is queued as well.
Edited(line) == cmd' = line /\ Becomes(pl) /\ QueueSendCmd

Error == cmd' = cmd_clear(Line) /\ Becomes("executing") /\ UNCHANGED sent

CmdExecuted(line) == cmd' = line /\ Becomes("executing") /\ UNCHANGED sent

CmdStarted ==
    /\ cmd' = IF Line.rebuilding THEN [Line EXCEPT !.rebuilding = FALSE] ELSE cmd_clear(Line)
    /\ Becomes("prompt")
    /\ QueueSendCmd

CmdRebuild ==
    /\ cmd' = [Line EXCEPT !.rebuilding = TRUE, !.pos = 0]
    /\ Becomes("executing")
    /\ UNCHANGED sent

RpromptStarted ==
    /\ cmd' = [Line EXCEPT !.rebuilding = TRUE]
    /\ Becomes("rprompt")
    /\ UNCHANGED sent

-----------------------------------------------------------------------------
(* The functions of the sequences.                                         *)

\* The number in the segment; n of a movement, for which none is 1.
parse_digits ==
    LET d == Stream[3][1] IN IF d = "1" THEN 1 ELSE IF d = "2" THEN 2 ELSE 0

n == IF parse_digits = 0 THEN 1 ELSE parse_digits

seq_ps1_separator ==
    pass_segment(seglen + 1) /\ CmdStarted

seq_rprompt_separator_start ==
    pass_segment(seglen + 1) /\ RpromptStarted

seq_zsh_completion_done ==
    /\ pass_segment(seglen + 1)
    /\ NoEffect([Line EXCEPT !.rebuilding = TRUE])

seq_new_pwd == eat_segment /\ NoEffect(Line)

\* The byte after the return is not part of what is passed.
seq_term_cmd_wrapped ==
    /\ pass_segment(seglen)
    /\ IF expect THEN CmdExecuted(Line)
       ELSE Edited(cmd_overwrite_char(Line, Byte(CR)))

seq_term_backspace ==
    /\ pass_segment(seglen + 1)
    /\ LET to == cmd_backward(Line, 1)
       IN IF to = Fails THEN Error ELSE NoEffect([Line EXCEPT !.pos = to])

seq_term_cursor_backward ==
    /\ pass_segment(seglen + 1)
    /\ LET to == cmd_backward(Line, n)
       IN IF to = Fails THEN Error ELSE NoEffect([Line EXCEPT !.pos = to])

\* Past the end: in zsh one character further is a space that removes the right
\* prompt, more is that prompt being written.
seq_term_cursor_forward ==
    /\ pass_segment(seglen + 1)
    /\ LET to == cmd_forward(Line, n)
       IN CASE to # Fails -> NoEffect([Line EXCEPT !.pos = to])
            [] to = Fails /\ ~Zsh -> CmdExecuted(Line)
            [] to = Fails /\ Zsh /\ cmd_forward(Line, n - 1) # Fails ->
                  Edited(cmd_overwrite_char(Line, Byte(Blank)))
            [] OTHER -> RpromptStarted

seq_term_delete_chars ==
    /\ pass_segment(seglen + 1)
    /\ IF CanDelete(Line, n) THEN Edited(cmd_del_chars(Line, n))
       ELSE Error

seq_term_insert_blanks ==
    /\ pass_segment(seglen + 1)
    /\ Edited(cmd_insert_chars(Line, n))

seq_term_erase_in_line ==
    /\ pass_segment(seglen + 1)
    /\ IF CanWipe(parse_digits) THEN Edited(cmd_wipe_in_line(Line, parse_digits))
       ELSE Error

seq_term_bell == pass_segment(seglen + 1) /\ NoEffect(Line)

\* The end of the row k above the cursor's, if there is one.
RowEnd(k) ==
    LET ends == CRsBefore(Line.data, Line.pos)
        above == {e \in ends : Cardinality({x \in ends : x >= e}) = k}
    IN IF above = {} THEN Fails ELSE CHOOSE e \in above : TRUE

\* As far from the start of the row above, or else from its end, as now.
UpTarget ==
    LET next == CRsFrom(Line.data, Line.pos)
    IN CASE RowEnd(n + 1) # Fails -> RowEnd(n + 1) + Line.pos - RowEnd(1)
         [] RowEnd(n + 1) = Fails /\ next # {} /\ RowEnd(n) # Fails ->
               RowEnd(n) - (Min(next) - Line.pos)
         [] OTHER -> Fails

seq_term_cursor_up ==
    /\ pass_segment(seglen + 1)
    /\ IF UpTarget < 0 THEN CmdRebuild ELSE NoEffect([Line EXCEPT !.pos = UpTarget])

seq_term_carriage_return ==
    /\ pass_segment(IF expect THEN seglen + 1 ELSE seglen)
    /\ LET before == CRsBefore(Line.data, Line.pos)
       IN CASE expect -> CmdExecuted(Line)
            [] ~expect /\ before = {} -> CmdRebuild
            [] ~expect /\ before # {} -> NoEffect([Line EXCEPT !.pos = Max(before) + 1])

\* Down a row, or out of the command line, or on to a new row of it.
seq_term_newline ==
    /\ pass_segment(seglen + 1)
    /\ LET after == CRsFrom(Line.data, Line.pos)
           atEnd == [Line EXCEPT !.pos = Len(Line.data)]
       IN CASE after # {} -> NoEffect([Line EXCEPT !.pos = Min(after) + 1])
            [] after = {} /\ expect -> CmdExecuted(Line)
            [] after = {} /\ ~expect ->
                  Edited(cmd_overwrite_char(atEnd, Byte(CR)))

-----------------------------------------------------------------------------

\* check_seqs: the function of the sequence found is run.
Run(found) ==
    \/ found = "progress" /\ InProgress
    \/ found = "none" /\ NoMatch
    \/ found \in {"ps1", "rend"} /\ seq_ps1_separator
    \/ found = "rstart" /\ seq_rprompt_separator_start
    \/ found = "completed" /\ seq_zsh_completion_done
    \/ found = "pwd" /\ seq_new_pwd
    \/ found = "wrap" /\ seq_term_cmd_wrapped
    \/ found = "backspace" /\ seq_term_backspace
    \/ found = "forward" /\ seq_term_cursor_forward
    \/ found = "backward" /\ seq_term_cursor_backward
    \/ found = "up" /\ seq_term_cursor_up
    \/ found = "erase" /\ seq_term_erase_in_line
    \/ found = "delete" /\ seq_term_delete_chars
    \/ found = "insert" /\ seq_term_insert_blanks
    \/ found = "bell" /\ seq_term_bell
    \/ found = "return" /\ seq_term_carriage_return
    \/ found = "newline" /\ seq_term_newline

CheckSeqs ==
    /\ reading /\ seglen < Len(Stream)
    /\ \E found \in {Found(Enabled, pl, c)} :
          /\ partly' = (found = "progress")
          /\ Run(found)

Next ==
    \/ ShellPrints \/ ProcessTerminal
    \/ ProcessShell \/ CheckSeqs \/ ReadEnds

Spec == Init /\ [][Next]_vars

-----------------------------------------------------------------------------
(* Properties.                                                             *)

\* Positions stay in the buffer, the text and the sequences.
TypeOK ==
    /\ todo \in Seq(Terminal!Tokens) /\ Len(todo) <= MaxTodo + 1
    /\ off \in 0..Max({0} \cup {Len(Bytes(t)) - 1 : t \in ToSet(todo)})
    /\ {reading, hoWritten, expect} \subseteq BOOLEAN
    /\ seglen \in Nat /\ avail \in 0..Len(Stream) /\ hold \in 0..Len(Stream)
    /\ reading => seglen <= avail
    /\ skip \in Nat /\ early \in Nat
    /\ partly \in BOOLEAN
    /\ \A s \in Sequences_ :
          sq[s].enabled \in BOOLEAN /\ sq[s].pos \in 0..(Len(Pattern[s]) - 1)
    /\ pl \in {"prompt", "executing", "rprompt"}
    /\ sent \in Seq(Chars \cup {CR})
    /\ cmd.pos \in 0..Len(cmd.data)
    /\ {cmd.data, cmd.partial} \subseteq Seq(UNION {ToSet(Encode(x)) : x \in Chars \cup {CR}})

\* However the reads cut what a shell prints, vgseer finds the tokens it printed,
\* no others, in their order, and its text and cursor are what the terminal
\* shows: scan_sequences with the holdover, check_seqs and all of cmdline.c do
\* what Line does with whole tokens on rows.
ImplementsLine == Terminal!Spec

\* The bytes connection_write skips are those already written: none reaches the
\* terminal twice, none is lost (ho_written and skip).
WrittenOnce == reading => skip = early

\* No part of the directory's marker reaches the terminal: what could become one
\* is held back until it is known (create_holdover, eat_segment).
PwdNeverShown == todo # <<>> /\ todo[1].kind = "pwd" => off = 0 /\ early = 0

\* vgd has the line that is on the screen: every operation that changes its
\* text, and every new prompt, has queued that it be sent (A_SEND_CMD in
\* cmdline.c and in analyze_effect).
VgdHasTheLine ==
    pl = "prompt" =>
        LET text == Characters(cmd.data)
            kept == Max({0} \cup {k \in DOMAIN text : text[k] # CR})
        IN Len(sent) >= kept /\ SubSeq(sent, 1, kept) = SubSeq(text, 1, kept)
           /\ \A k \in (kept + 1)..Len(sent) : sent[k] = CR
=============================================================================
