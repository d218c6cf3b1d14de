-------------------------------- MODULE Lists --------------------------------
(***************************************************************************)
(* The lists the listing and the displays are made of.                     *)
(***************************************************************************)
EXTENDS Integers, Sequences, SequencesExt, FiniteSets

\* SubSeq makes TLC compute it once.
Each(s, Op(_)) == SubSeq([i \in DOMAIN s |-> Op(s[i])], 1, Len(s))

\* The elements in these places, in their order.
Picked(s, kept) ==
    Each([k \in 1..Cardinality(kept) |-> k], LAMBDA k :
         s[CHOOSE i \in kept : Cardinality(kept \cap 1..i) = k])

\* Where the element of that name, or of that rank, is, or zero.
Named(list, name) == SelectInSeq(list, LAMBDA x : x.name = name)

Ranked(list, rank) == SelectInSeq(list, LAMBDA x : x.rank = rank)
=============================================================================
