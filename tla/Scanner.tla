------------------------------- MODULE Scanner -------------------------------
(***************************************************************************)
(* The escape sequences vgseer looks for in what passes through it, and    *)
(* how one byte advances them (src/vgseer/sequences.c).  The markers the   *)
(* shells are set up to print are shorter here than in the code, with the  *)
(* prefixes they share with each other and with a terminal's sequences.    *)
(***************************************************************************)
EXTENDS CmdLine

CONSTANT Zsh  \* the shell is zsh, not bash

ESC == "ESC"
LF == "LF"
BEL == "BEL"
BS == "BS"

Controls == {"ESC", "CR", "LF", "BEL", "BS", "NUL"}

Digits == {"0", "1", "2"}

\* The special characters of a pattern.
DIGIT_C == "digits"
PRINTABLE_C == "printables"
NOT_LF_CR_C == "not LF or CR"
NOT_LF_C == "not LF"

\* "0;30", "0;34", "0;31" and "1;37" after the first digit of a colour.
Colour(c) == <<ESC, "[", "0", c>>

Marker == Colour("blue") \o Colour("red")

CSI(letter) == <<ESC, "[", DIGIT_C, letter>>

Pattern ==
    [ps1       |-> Colour("black") \o Colour("white"),
     rstart    |-> Marker,
     rend      |-> Marker \o CSI("D"),
     pwd       |-> <<ESC, "P", PRINTABLE_C, ESC, "backslash">>,
     completed |-> <<ESC, "[", "0", "m", CR>> \o CSI("C"),
     wrap      |-> <<Blank, CR, NOT_LF_CR_C>>,
     return    |-> <<CR, NOT_LF_C>>,
     newline   |-> <<CR, LF>>,
     backspace |-> <<BS>>,
     bell      |-> <<BEL>>,
     forward   |-> CSI("C"),
     backward  |-> CSI("D"),
     up        |-> CSI("A"),
     erase     |-> CSI("K"),
     delete    |-> CSI("P"),
     insert    |-> CSI("@")]

Sequences_ == DOMAIN Pattern

\* The groups of each process level, in the order they are checked.
TermSeqs == <<"wrap", "forward", "backspace", "erase", "delete", "insert",
              "backward", "bell", "up", "return", "newline">>

init_bash_seqs ==
    [prompt |-> <<"ps1", "pwd">> \o TermSeqs,
     executing |-> <<"ps1", "pwd">>,
     rprompt |-> <<>>]

init_zsh_seqs ==
    [prompt |-> <<"ps1", "rstart">> \o TermSeqs \o <<"pwd">>,
     executing |-> <<"ps1", "rend", "pwd", "completed">>,
     rprompt |-> <<"rend">>]

seq_groups == IF Zsh THEN init_zsh_seqs ELSE init_bash_seqs

Groups == [pl \in DOMAIN seq_groups |-> ToSet(seq_groups[pl])]

\* How far each sequence is, and whether it is still looked for.
init_seqs == [s \in Sequences_ |-> [pos |-> 0, enabled |-> FALSE]]

\* Mutant: a sequence found to differ is looked for on in the same segment.
enable_always(sq, pl) == sq

enable_all_seqs(sq, pl) ==
    [s \in Sequences_ |-> IF s \in Groups[pl] THEN [sq[s] EXCEPT !.enabled = TRUE] ELSE sq[s]]

disable_all_seqs(sq, pl) ==
    [s \in Sequences_ |-> IF s \in Groups[pl] THEN [pos |-> 0, enabled |-> FALSE] ELSE sq[s]]

\* Which ones are enabled says nothing until they all are, before the next byte.
clear_seqs(sq, pl) ==
    [s \in Sequences_ |-> [pos |-> IF s \in Groups[pl] THEN 0 ELSE sq[s].pos,
                           enabled |-> FALSE]]

-----------------------------------------------------------------------------
(* check_seq: one byte against one sequence.                               *)

\* Whether c may stand where a pattern has p.
Fits(c, p) ==
    CASE p = NOT_LF_CR_C -> c \notin {LF, CR}
      [] p = NOT_LF_C -> c # LF
      [] OTHER -> c = p

\* A run of digits, or of what is not a control character, goes on.
Runs(c, p) == (p = DIGIT_C /\ c \in Digits) \/ (p = PRINTABLE_C /\ c \notin Controls)

\* How many characters of the pattern s the byte c completes from offset p on.
Advances(s, p, c) ==
    LET here == Pattern[s][p + 1]
    IN CASE Runs(c, here) -> 0
         [] ~Runs(c, here) /\ here \in {DIGIT_C, PRINTABLE_C} ->
               IF Pattern[s][p + 2] = c THEN 2 ELSE Fails
         [] OTHER -> IF Fits(c, here) THEN 1 ELSE Fails

\* The byte is not one s allows, or s is no longer looked for.
Mismatches(sq, s, c) == ~sq[s].enabled \/ Advances(s, sq[s].pos, c) = Fails

Completes(sq, s, c) ==
    ~Mismatches(sq, s, c) /\ sq[s].pos + Advances(s, sq[s].pos, c) = Len(Pattern[s])

check_seq(sq, s, c) ==
    CASE ~sq[s].enabled -> sq[s]
      [] sq[s].enabled /\ Mismatches(sq, s, c) -> [pos |-> 0, enabled |-> FALSE]
      [] Completes(sq, s, c) -> [sq[s] EXCEPT !.pos = 0]
      [] OTHER -> [sq[s] EXCEPT !.pos = @ + Advances(s, @, c)]

-----------------------------------------------------------------------------
(* check_seqs: a group in its order, up to the first match.                *)

\* The places in the group of the sequences c completes.
Matches(sq, pl, c) ==
    {i \in DOMAIN seq_groups[pl] : Completes(sq, seq_groups[pl][i], c)}

\* The sequence found, or b->status without one.
Found(sq, pl, c) ==
    LET matches == Matches(sq, pl, c)
    IN CASE matches # {} -> seq_groups[pl][Min(matches)]
         [] matches = {} /\ \E s \in Groups[pl] : ~Mismatches(sq, s, c) -> "progress"
         [] OTHER -> "none"

\* The sequences after the one that matched are not given the byte.
check_seqs(sq, pl, c) ==
    LET matches == Matches(sq, pl, c)
        given == {i \in DOMAIN seq_groups[pl] : \A m \in matches : i <= m}
        names == {seq_groups[pl][i] : i \in given}
    IN [s \in Sequences_ |-> IF s \in names THEN check_seq(sq, s, c) ELSE sq[s]]
=============================================================================
