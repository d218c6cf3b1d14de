----------------------------- MODULE MCShellScan -----------------------------
(* Instances of ShellScan for TLC: a terminal of a few columns.             *)
EXTENDS ShellScan

Letters == {"a", Blank}
Letter == {"e", Blank}
Accents == {"e"}
NoAccents == {}
=============================================================================
