------------------------------- MODULE MCVgd -------------------------------
(* Instances of Vgd for TLC: two clients and the messages that move the     *)
(* display between them; one client and every message.                     *)
EXTENDS Vgd

CONSTANTS sh1, sh2, term, txt

M(param, value) == [param |-> param, value |-> value]

TwoClients == {sh1, sh2}
OneClient == {sh1}
TwoWindows == {NoWindow, term}
TwoTexts == {Empty, txt}

\* What changes the current client or the display, and one parameter whose
\* values differ between clients and depend on another's.
SwitchMessages ==
    {M("developing-mask", txt), M("mask", Empty), M("pwd", Empty),
     M("unexpected", Empty), M("malformed", Empty),
     M("order", "refocus"), M("order", "toggle"), M("order", "other")}

RefocusOnly == {M("order", "refocus")}

\* Every kind of message one shell alone can send that is stored.
AllMessages ==
    {M("status", "prompt"), M("status", "invalid"), M("cmd", txt),
     M("developing-mask", txt), M("mask", txt), M("malformed", Empty)}

Symmetry == Permutations({sh1, sh2})
=============================================================================
