------------------------------- MODULE MCKeys -------------------------------
(* Instances of Keys for TLC.                                               *)
EXTENDS Keys

OneKey ==
    {<<k>> : k \in {"x", Space, "DEL", "CtrlG", "CtrlP", "CtrlD", "Enter", "Tab",
                    "NUL", "CtrlQ", "CtrlA", "CtrlC", "ESC"}}

\* One key, an arrow, or two keys typed ahead.
TypedReads ==
    OneKey \cup {Arrow, Arrow \o <<"x">>, <<"CtrlG">> \o Arrow, <<"x", "CtrlG">>,
                 <<"CtrlG", "x">>, <<"x", "Enter">>, <<"CtrlG", "Enter">>}

ChosenNames == {<<"f">>, <<"f", "*">>}
=============================================================================
