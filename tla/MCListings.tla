----------------------------- MODULE MCListings -----------------------------
(* Instances of Listings for TLC: a home directory of a few files.          *)
EXTENDS Listings

Names == <<".", "..", "a", "ab", "b", "c", "h", "r", "s">>
Starts == {<<".", "..">>, <<"a", "ab">>}

Globs == {<<"*", n>> : n \in {"a", "ab", "b", "c", "h", "r", "s"}}
         \cup {<<"a*", "a">>, <<"a*", "ab">>, <<"[bc]", "b">>, <<"[bc]", "c">>}

Star == <<[pattern |-> "*", dirs_only |-> FALSE]>>
OnlyDirs == <<[pattern |-> "*", dirs_only |-> TRUE]>>
SomeFiles == <<[pattern |-> "a*", dirs_only |-> FALSE]>>
OtherFiles == <<[pattern |-> "[bc]", dirs_only |-> FALSE]>>

AnInode(kind) == [kind |-> kind, open |-> FALSE, entries |-> << >>, target |-> 0]
Dir(entries) == [kind |-> "d", open |-> TRUE, entries |-> entries, target |-> 0]
Link(n) == [kind |-> "y", open |-> FALSE, entries |-> << >>, target |-> n]

Entries(self, parent, names) ==
    [n \in {".", ".."} \cup DOMAIN names |->
        CASE n = "." -> self [] n = ".." -> parent [] OTHER -> names[n]]

InRoot == [h |-> 2]
InHome == [a |-> 5, ab |-> 6, b |-> 3, r |-> 4, s |-> 7]
InHome2 == [ab |-> 5, b |-> 3, c |-> 5, r |-> 4]
InHome3 == [a |-> 3, ab |-> 6, b |-> 5]
InB == [a |-> 5, c |-> 5]

Tree(home, b) ==
    [n \in 1..7 |->
        CASE n = 1 -> Dir(Entries(1, 1, InRoot))
          [] n = 2 -> Dir(Entries(2, 1, home))
          [] n = 3 -> b
          [] n = 4 -> AnInode("d")
          [] n = 5 -> AnInode("r")
          [] n = 6 -> AnInode("e")
          [] n = 7 -> Link(3)]

Before == Tree(InHome, Dir(Entries(3, 2, InB)))
After == Tree(InHome2, AnInode("d"))

H == <<"/", "h">>
InH(cmd) == [pwd |-> H, cmd |-> <<"ls", " ">> \o cmd]

SomeLines == <<
    [pwd |-> H, cmd |-> <<>>],
    InH(<<"b", "/", " ", "'", "b", "'", " ", "r", "/", "/", ";", "a">>),
    InH(<<"/", "h", " ", "s", "/", "a", " ", "\"", "a", "\"", " ", "!", "b", " ", "r", "/">>),
    [pwd |-> <<"/", "h", "/", "b">>, cmd |-> <<"ls", " ", "/", "h", "/", "a", " ", "$", "a">>]>>

AllCharacters == {"'", "\"", "\\", "$", " ", "(", ")", ";", "!", ">", "?", "a", "tick", "CR"}

Later == Tree(InHome3, Dir(Entries(3, 2, InB)))

TheSystems == <<Before, After, Later>>
AllMasks == <<Star, SomeFiles, OtherFiles, OnlyDirs>>
=============================================================================
