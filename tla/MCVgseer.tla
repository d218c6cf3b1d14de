------------------------------ MODULE MCVgseer ------------------------------
(* Instances of Vgseer for TLC: what the user does with the terminal, and    *)
(* what happens around vgseer.                                               *)
EXTENDS Vgseer

NoKeys == {}
DisableOnly == {"disable"}
Masking == {"mask", "commit", "disable"}
Ordering == {"toggle"}

Nothing == {}
SandboxTrouble == {"vgd stalls", "shell stalls", "sandbox exits", "cd fails"}
Endings ==
    {"vgd sends", "vgd exits", "shell exits", "terminal closes", "terminal stalls",
     "I/O fails"}
=============================================================================
