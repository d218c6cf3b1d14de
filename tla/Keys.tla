--------------------------------- MODULE Keys ---------------------------------
(***************************************************************************)
(* What vgseer does with the keys on their way to the user's shell: those  *)
(* typed at the terminal and those vgd passes on from the display, names   *)
(* of files among them (src/vgseer/vgseer.c: process_terminal,             *)
(* process_vgd; sequences.c: seq_viewglob_all; the mask of cmdline.c).     *)
(*                                                                         *)
(* A read is scanned a byte at a time: eaten, or passed on to the shell,   *)
(* which edits its line as an emacs-mode editor does.  What it prints of    *)
(* that is heard of some time later, whole (ShellScan).                    *)
(***************************************************************************)
EXTENDS Integers, Sequences, SequencesExt

CONSTANTS
    Reads,    \* what one read of the terminal may return
    Names,    \* names of files that can be chosen in the display
    MaskSize, \* the most characters of a mask (50 in the code)
    MaxLine   \* bound: characters of the shell's line when a read starts

Space == " "
Printables == {"x", "[", "A", "f", "*", "backslash", Space}
Rubouts == {"BS", "DEL"}

\* Bytes scan_for_newline looks for.
Breakers == {"Enter", "CtrlC", "CtrlD", "Tab"}

KeyCodes ==
    Printables \cup Rubouts \cup Breakers
      \cup {"ESC", "NUL", "CtrlA", "CtrlG", "CtrlP", "CtrlQ"}

ASSUME KeysAssumption ==
    /\ Reads \cup Names \subseteq Seq(KeyCodes)
    /\ MaskSize \in Nat \ {0} /\ MaxLine \in Nat

VARIABLES
    source,        \* what is being read, or has been in this turn of the loop
    buf,           \* bytes of the read not yet scanned
    passed,        \* those scanned and passed on
    pl,            \* term_conn's level
    in_mask, in_navigation, mask, mask_final,
    expect,        \* cmd.expect_newline
    enabled,       \* vgseer_enabled
    flags, orders, \* the action queue
    vgdMask, vgdDeveloping, \* the masks vgd has
    line, pos,     \* the shell's line and its cursor
    running,       \* the shell runs a command
    cmd, shellPl   \* what vgseer has heard of it: u->cmd, shell_conn's level

bufVars == <<source, buf, passed>>
modeVars == <<pl, in_mask, in_navigation, mask, mask_final>>
queueVars == <<flags, orders>>
vgdVars == <<vgdMask, vgdDeveloping>>
shellVars == <<line, pos, running>>
heardVars == <<cmd, shellPl>>
vars == <<bufVars, modeVars, expect, enabled, queueVars, vgdVars, shellVars, heardVars>>

\* The arrow keys are three bytes.
Arrow == <<"ESC", "[", "A">>

\* Keys that move the display, whose order is A_SEND_UP or A_SEND_PGDOWN.
Moves == [CtrlP |-> "up", CtrlD |-> "pgdown"]

\* Characters escape_filename escapes.
Special == {"*", Space, "backslash"}

Init ==
    /\ source = "select" /\ buf = <<>> /\ passed = <<>>
    /\ pl = "terminal" /\ in_mask = FALSE /\ in_navigation = FALSE
    /\ mask = <<>> /\ mask_final = <<>>
    /\ expect = FALSE /\ enabled = TRUE
    /\ flags = {} /\ orders = <<>>
    /\ vgdMask = <<>> /\ vgdDeveloping = <<>>
    /\ line = <<>> /\ pos = 0 /\ running = FALSE
    /\ cmd = [text |-> <<>>, pos |-> 0] /\ shellPl = "prompt"

-----------------------------------------------------------------------------
(* action_queue.                                                           *)

SendCmd == flags' = (flags \ {"mask"}) \cup {"cmd"} /\ UNCHANGED orders

NewMask == flags' = flags \cup {"mask"} /\ UNCHANGED orders

Order(o) == orders' = Append(orders, o) /\ UNCHANGED flags

Disable == flags' = flags \cup {"disable"} /\ UNCHANGED orders

NoAction == UNCHANGED queueVars

-----------------------------------------------------------------------------
(* One byte of the read.                                                   *)

Eat(n) == buf' = SubSeq(buf, n + 1, Len(buf)) /\ UNCHANGED <<source, passed>>

Pass ==
    /\ passed' = Append(passed, Head(buf))
    /\ buf' = Tail(buf)
    /\ UNCHANGED source

\* The mode afterwards: neither of the flags is set in another.
Mode(level, inMask, inNavigation) ==
    pl' = level /\ in_mask' = inMask /\ in_navigation' = inNavigation

Terminal == Mode("terminal", FALSE, FALSE)

Scans == source \in {"terminal", "vgd"} /\ buf # <<>> /\ enabled

Other == UNCHANGED <<expect, enabled, vgdVars, shellVars, heardVars>>

\* Mutants: a mask of any length; a character deleted and vgd not told.
AddAlways(m) == mask' = Append(m, Head(buf)) /\ NewMask

DeleteSilently ==
    /\ mask' = IF mask = <<>> THEN mask ELSE SubSeq(mask, 1, Len(mask) - 1)
    /\ NoAction

cmd_mask_add(m) ==
    IF Len(m) < MaskSize THEN mask' = Append(m, Head(buf)) /\ NewMask
    ELSE UNCHANGED mask /\ NoAction

cmd_mask_del ==
    IF mask # <<>> THEN mask' = SubSeq(mask, 1, Len(mask) - 1) /\ NewMask
    ELSE UNCHANGED mask /\ NoAction

cmd_mask_clear == mask' = <<>> /\ NewMask

seq_ctrl_g ==
    /\ Scans /\ pl = "terminal" /\ Head(buf) = "CtrlG"
    /\ Eat(1)
    /\ pl' = "viewglob"
    /\ UNCHANGED <<in_mask, in_navigation, mask, mask_final>> /\ NoAction /\ Other

PassOn ==
    /\ Scans /\ pl = "terminal" /\ Head(buf) # "CtrlG"
    /\ Pass
    /\ UNCHANGED modeVars /\ NoAction /\ Other

\* seq_viewglob_all, a mask being typed.
MaskKey ==
    /\ Scans /\ pl = "viewglob" /\ in_mask
    /\ Eat(1)
    /\ UNCHANGED in_navigation
    /\ LET k == Head(buf)
       IN \/ k \in Printables /\ cmd_mask_add(mask) /\ UNCHANGED <<pl, in_mask, mask_final>>
          \/ k \in Rubouts /\ cmd_mask_del /\ UNCHANGED <<pl, in_mask, mask_final>>
          \/ /\ k = "Enter"
             /\ mask_final' = mask
             /\ SendCmd
             /\ pl' = "terminal" /\ in_mask' = FALSE /\ UNCHANGED mask
          \/ /\ k \notin Printables \cup Rubouts \cup {"Enter"}
             /\ cmd_mask_clear
             /\ pl' = "terminal" /\ in_mask' = FALSE /\ UNCHANGED mask_final
    /\ Other

\* The first character of a mask; an empty one after a rubout.
MaskStarts ==
    /\ Scans /\ pl = "viewglob" /\ ~in_mask /\ ~in_navigation
    /\ Head(buf) \in Printables \cup Rubouts
    /\ Eat(1)
    /\ in_mask' = TRUE
    /\ mask' = IF Head(buf) \in Rubouts THEN <<>> ELSE <<Head(buf)>>
    /\ NewMask
    /\ UNCHANGED <<pl, in_navigation, mask_final>> /\ Other

\* arrow_key compares the rest of the read with the key: it is seen only at the
\* end of one.
arrow_key == buf = Arrow

\* Keys that move the display start a navigation, or go on with it.
NavigationKey ==
    /\ Scans /\ pl = "viewglob" /\ ~in_mask
    /\ \/ Head(buf) \in DOMAIN Moves /\ Eat(1) /\ Order(Moves[Head(buf)])
       \/ arrow_key /\ Eat(3) /\ Order("up")
    /\ in_navigation' = TRUE
    /\ UNCHANGED <<pl, in_mask, mask, mask_final>> /\ Other

Moving == Head(buf) \in DOMAIN Moves \/ arrow_key

\* Mutants: the flag is left set; the level is not left.
FlagStays ==
    IF Head(buf) = "CtrlG" THEN Eat(1) /\ Mode("viewglob", FALSE, FALSE)
    ELSE Pass /\ Mode("terminal", FALSE, TRUE)

LevelStays ==
    IF Head(buf) = "CtrlG" THEN Eat(1) /\ Mode("viewglob", FALSE, FALSE)
    ELSE Pass /\ Mode("viewglob", FALSE, FALSE)

\* Any other key ends it, and is the shell's unless it is Ctrl-G, after which
\* another may follow.
ChainEnds ==
    IF Head(buf) = "CtrlG" THEN Eat(1) /\ Mode("viewglob", FALSE, FALSE)
    ELSE Pass /\ Terminal

NavigationEnds ==
    /\ Scans /\ pl = "viewglob" /\ in_navigation /\ ~Moving
    /\ ChainEnds
    /\ UNCHANGED <<mask, mask_final>> /\ NoAction /\ Other

\* One key after Ctrl-G that neither starts a mask nor a navigation.
Command ==
    /\ Scans /\ pl = "viewglob" /\ ~in_mask /\ ~in_navigation
    /\ ~Moving /\ Head(buf) \notin Printables \cup Rubouts
    /\ Terminal
    /\ LET k == Head(buf)
       IN \/ k = "Tab" /\ Eat(1) /\ Order("refocus") /\ UNCHANGED <<mask, mask_final>>
          \/ k = "NUL" /\ Eat(1) /\ Order("toggle") /\ UNCHANGED <<mask, mask_final>>
          \/ k = "CtrlQ" /\ Eat(1) /\ Disable /\ UNCHANGED <<mask, mask_final>>
          \/ k = "CtrlG" /\ Pass /\ NoAction /\ UNCHANGED <<mask, mask_final>>
          \/ k = "Enter" /\ Eat(1) /\ SendCmd /\ mask' = <<>> /\ mask_final' = <<>>
          \/ /\ k \notin {"Tab", "NUL", "CtrlQ", "CtrlG", "Enter"}
             /\ Eat(1) /\ NoAction /\ UNCHANGED <<mask, mask_final>>
    /\ Other

-----------------------------------------------------------------------------
(* The reads.                                                              *)

process_terminal ==
    /\ source \in {"select", "shell read"} /\ Len(line) <= MaxLine
    /\ \E text \in Reads : buf' = text
    /\ source' = "terminal" /\ passed' = <<>>
    /\ UNCHANGED <<modeVars, queueVars>> /\ Other

\* Disabled, vgseer passes on what it reads.
Unscanned ==
    /\ source = "terminal" /\ ~enabled /\ buf # <<>>
    /\ Pass
    /\ UNCHANGED <<modeVars, queueVars>> /\ Other

cmd_whitespace_to_left == cmd.pos = 0 \/ cmd.text[cmd.pos] = Space
cmd_whitespace_to_right == cmd.pos < Len(cmd.text) /\ cmd.text[cmd.pos + 1] = Space

Escaped(name) ==
    FlattenSeq([i \in DOMAIN name |->
                   IF name[i] \in Special THEN <<"backslash", name[i]>> ELSE <<name[i]>>])

\* Mutant: the right of the cursor is not looked at.
LeftOnly(name) ==
    IF shellPl # "prompt" THEN name
    ELSE (IF cmd_whitespace_to_left THEN <<>> ELSE <<Space>>) \o Escaped(name)

escape_filename(name) ==
    IF shellPl # "prompt" THEN name
    ELSE (IF cmd_whitespace_to_left THEN <<>> ELSE <<Space>>)
         \o Escaped(name)
         \o (IF cmd_whitespace_to_right THEN <<>> ELSE <<Space>>)

\* A key or a name from the display is scanned as what was typed is, in the
\* same turn of the loop or in one of its own.
process_vgd ==
    /\ source \in {"select", "shell read", "terminal read"} /\ enabled /\ Len(line) <= MaxLine
    /\ \/ \E text \in Reads : Len(text) = 1 /\ buf' = text
       \/ \E name \in Names : buf' = escape_filename(name)
    /\ source' = "vgd" /\ passed' = <<>>
    /\ UNCHANGED <<modeVars, queueVars>> /\ Other

scan_for_newline == \E k \in ToSet(passed) : k \in Breakers

\* The characters among keys.
TextOf(keys) ==
    LET upTo[k \in 0..Len(keys)] ==
            IF k = 0 THEN <<>>
            ELSE IF keys[k] \in Printables THEN Append(upTo[k - 1], keys[k])
            ELSE upTo[k - 1]
    IN upTo[Len(keys)]

\* A command the shell runs reads what is typed.  Enter and Ctrl-C leave the
\* line, which otherwise is edited at the cursor.
ShellEdits ==
    LET text == TextOf(passed)
    IN CASE running -> UNCHANGED shellVars
         [] ~running /\ {"Enter", "CtrlC"} \cap ToSet(passed) # {} ->
              running' = TRUE /\ line' = <<>> /\ pos' = 0
         [] ~running /\ {"Enter", "CtrlC"} \cap ToSet(passed) = {} ->
              /\ line' = SubSeq(line, 1, pos) \o text \o SubSeq(line, pos + 1, Len(line))
              /\ pos' = IF "CtrlA" \in ToSet(passed) THEN 0 ELSE pos + Len(text)
              /\ UNCHANGED running

connection_write ==
    /\ source \in {"terminal", "vgd"} /\ buf = <<>>
    /\ source' = IF source = "terminal" THEN "terminal read" ELSE "vgd read"
    /\ expect' = IF enabled THEN scan_for_newline ELSE expect
    /\ ShellEdits
    /\ UNCHANGED <<buf, passed, modeVars, enabled, queueVars, vgdVars, heardVars>>

ShellPrompts ==
    /\ source = "select" /\ running
    /\ running' = FALSE
    /\ UNCHANGED <<bufVars, modeVars, expect, enabled, queueVars, vgdVars, line, pos, heardVars>>

\* What the shell has printed since, made sense of: it changes the command line,
\* or starts or ends one (analyze_effect).
process_shell ==
    /\ source = "select"
    /\ <<cmd.text, cmd.pos, shellPl = "executing">> # <<line, pos, running>>
    /\ shellPl' = IF running THEN "executing" ELSE "prompt"
    /\ cmd' = [text |-> line, pos |-> pos]
    /\ IF ~running /\ (line # cmd.text \/ shellPl = "executing") THEN SendCmd ELSE NoAction
    /\ source' = "shell read"
    /\ UNCHANGED <<buf, passed, modeVars, expect, enabled, vgdVars, shellVars>>

\* The queue is emptied: with the command line vgd is sent the mask in force,
\* which makes it forget the one being typed.
action_loop ==
    /\ source \in {"shell read", "terminal read", "vgd read"}
    /\ source' = "select"
    /\ enabled' = (enabled /\ "disable" \notin flags)
    /\ vgdMask' = IF enabled' /\ "cmd" \in flags THEN mask_final ELSE vgdMask
    /\ vgdDeveloping' =
          CASE enabled' /\ "mask" \in flags -> mask
            [] enabled' /\ "mask" \notin flags /\ "cmd" \in flags -> <<>>
            [] OTHER -> vgdDeveloping
    /\ flags' = {} /\ orders' = <<>>
    /\ passed' = <<>>
    /\ UNCHANGED <<buf, modeVars, expect, shellVars, heardVars>>

-----------------------------------------------------------------------------

Scan == seq_ctrl_g \/ PassOn \/ MaskKey \/ MaskStarts \/ NavigationKey \/ NavigationEnds \/ Command

Next ==
    \/ process_terminal \/ process_vgd \/ ShellPrompts \/ process_shell
    \/ Scan \/ Unscanned \/ connection_write
    \/ action_loop

Spec == Init /\ [][Next]_vars

-----------------------------------------------------------------------------
(* Properties.                                                             *)

TypeOK ==
    /\ source \in {"select", "terminal", "vgd", "shell read", "terminal read", "vgd read"}
    /\ pl \in {"terminal", "viewglob"}
    /\ {in_mask, in_navigation, expect, enabled, running} \subseteq BOOLEAN
    /\ {mask, mask_final, vgdMask, vgdDeveloping} \subseteq Seq(Printables)
    /\ Len(mask) <= MaskSize
    /\ flags \subseteq {"cmd", "mask", "disable"}
    /\ orders \in Seq({"up", "pgdown", "refocus", "toggle"})
    /\ pos \in 0..Len(line) /\ cmd.pos \in 0..Len(cmd.text)
    /\ shellPl \in {"prompt", "executing"}

\* The function's static flags and the connection's level are changed apart, in a
\* dozen branches of seq_viewglob_all: a mask or a navigation is only ever under
\* way at the viewglob level, and never both.
ModesAgree ==
    /\ in_mask \/ in_navigation => pl = "viewglob"
    /\ ~(in_mask /\ in_navigation)

\* Between two turns of the loop vgd has the mask last committed, whatever
\* happened in the same turn (action_queue, call_vgexpand), and the mask being
\* typed, whole or not at all, and none that was cancelled.
VgdHasTheMask ==
    source = "select" /\ enabled =>
        /\ vgdMask = mask_final
        /\ vgdDeveloping # <<>> => in_mask /\ vgdDeveloping = mask

\* vgseer takes nothing from the shell but Ctrl-G and what is typed between it
\* and the key that ends its mode, and leaves it nothing of that: a key passed on
\* while in the mode has ended it.
ModeTakesItsKeys ==
    [][Len(buf') < Len(buf) =>
          IF passed' = passed THEN pl = "viewglob" \/ Head(buf) = "CtrlG"
          ELSE ~enabled \/ pl' = "terminal"]_vars

\* A name chosen in the display becomes a word of its own at the cursor of the
\* command line, provided vgseer has heard of the line as it is.
NameIsAWord ==
    [][(source = "vgd" /\ "f" \in ToSet(passed) /\ line' # line /\ cmd = [text |-> line, pos |-> pos]
          /\ shellPl = "prompt" /\ ~running /\ Head(passed) \in Printables)
        => LET from == pos + 1
               to == pos' IN
           /\ from = 1 \/ line[from - 1] = Space \/ line'[from] = Space
           /\ line'[to] = Space \/ (to < Len(line') /\ line'[to + 1] = Space)]_vars

-----------------------------------------------------------------------------
(* What the proofs need besides: the inductive invariant.                  *)

\* A read is scanned to its end before the next, and the queue is emptied
\* before anything else is waited for.
TurnInv ==
    /\ buf \in Seq(KeyCodes) /\ passed \in Seq(KeyCodes)
    /\ line \in Seq(Printables) /\ cmd.text \in Seq(Printables)
    /\ source \notin {"terminal", "vgd"} => buf = <<>>
    /\ source = "select" => flags = {}
    /\ source \in {"vgd", "vgd read"} => enabled

\* In the middle of a turn: what vgd does not have is queued, and a mask that is
\* queued is the one being typed, or none.
MaskQueued ==
    /\ enabled /\ "cmd" \notin flags => vgdMask = mask_final
    /\ enabled /\ "cmd" \notin flags /\ "mask" \notin flags =>
          (vgdDeveloping # <<>> => in_mask /\ vgdDeveloping = mask)
    /\ "mask" \in flags /\ mask # <<>> => in_mask

\* A name on its way to the shell: all of it passes, once it has ended the mode
\* it came in, or a mask takes all of it.  A single key spells no name.
NameInv ==
    source = "vgd" =>
        \/ /\ \E name \in Names : passed \o buf = escape_filename(name)
           /\ pl = "viewglob" => passed = <<>>
        \/ in_mask /\ passed = <<>> /\ buf \in Seq(Printables)
        \/ "f" \notin ToSet(passed) \cup ToSet(buf)

\* The inductive invariant: VgdHasTheMask holds between two turns, MaskQueued
\* in the middle of one.
IInv == TypeOK /\ ModesAgree /\ TurnInv /\ MaskQueued

=============================================================================
