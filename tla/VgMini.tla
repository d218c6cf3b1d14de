------------------------------- MODULE VgMini -------------------------------
(***************************************************************************)
(* The mini display (src/vgdisplay/vgmini.c, dircont.c): one header per    *)
(* directory, of which one is active and shows its files.  A display is    *)
(* [dcs, active, vbox]: the DirConts in the order they were first seen,    *)
(* the name of the active one or NoDir, and the names of the DirConts in   *)
(* the order they are packed in the window.                                *)
(*                                                                         *)
(* A listing is a sequence of [selected, total, hidden, is_pwd, name,      *)
(* files] (VgExpand).  The size of the window, scrolling, colours and the  *)
(* masks in the header of the active directory are left out.               *)
(***************************************************************************)
EXTENDS FileBox

NoDir == <<>>

vgmini_new == [dcs |-> <<>>, active |-> NoDir, vbox |-> <<>>]

Active(vg) == vg.dcs[Named(vg.dcs, vg.active)]

-----------------------------------------------------------------------------
(* A DirCont.                                                              *)

dircont_new(name) ==
    [name |-> name, rank |-> -1, old_rank |-> -1, marked |-> FALSE, score |-> 0,
     selected |-> 0, total |-> 0, hidden |-> 0, is_restricted |-> TRUE,
     is_pwd |-> FALSE, is_active |-> FALSE, file_box |-> file_box_new]

\* A directory without files could not be read.
dircont_set_counts(dc, dir) ==
    [dc EXCEPT !.selected = dir.selected, !.total = dir.total, !.hidden = dir.hidden,
               !.is_restricted = (dir.total = 0)]

dircont_mark(dc, rank) ==
    [dc EXCEPT !.marked = TRUE, !.old_rank = dc.rank, !.rank = rank]

\* update_dc shows the files of the active directory and hides those of
\* the others.
update_dc(vg, name, setting) ==
    [vg EXCEPT !.dcs[Named(vg.dcs, name)].is_active = setting]

-----------------------------------------------------------------------------
(* A listing.                                                              *)

unmark_all_dirconts(vg) ==
    [vg EXCEPT !.dcs = Each(@, LAMBDA dc : [dc EXCEPT !.marked = FALSE, !.score = 0])]

\* The directory's DirCont, known or new, with its files.
add_dircont(vg, dir, rank) ==
    LET i == Named(vg.dcs, dir.name)
        old == IF i = 0 THEN dircont_new(dir.name) ELSE vg.dcs[i]
        box == IF i = 0 THEN old.file_box ELSE file_box_begin_read(old.file_box)
        fill == Filled(box, dir.files)
        dc == [dircont_mark(dircont_set_counts(old, dir), rank) EXCEPT
                  !.is_pwd = dir.is_pwd,
                  !.file_box = fill.fbox,
                  !.score = @ + fill.points + (IF i = 0 THEN 100 ELSE 0)]
    IN IF i = 0 THEN [vg EXCEPT !.dcs = Append(@, dc)] ELSE [vg EXCEPT !.dcs[i] = dc]

cull_dcs(vg) ==
    LET kept == Picked(vg.dcs, {i \in DOMAIN vg.dcs : vg.dcs[i].marked})
        names == {kept[i].name : i \in DOMAIN kept}
    IN [dcs |-> kept,
        active |-> IF vg.active \in names THEN vg.active ELSE NoDir,
        vbox |-> Picked(vg.vbox, {i \in DOMAIN vg.vbox : vg.vbox[i] \in names})]

\* The score of a DirCont once its rank has been reached.
FinalScore(dc) == IF dc.is_restricted THEN -1 ELSE dc.score

\* The DirCont with the highest score; a later rank wins a tie, and the
\* first DirCont of the list is where the search starts, with the score it
\* has until its own rank is reached.
Highest(vg) ==
    LET Score(i, k) == IF vg.dcs[i].rank < k THEN FinalScore(vg.dcs[i]) ELSE vg.dcs[i].score
        best[k \in 0..Len(vg.dcs)] ==
            IF k = 0 THEN 1
            ELSE LET i == Ranked(vg.dcs, k - 1)
                     before == best[k - 1]
                 IN IF Score(i, k) >= Score(before, k) THEN i ELSE before
    IN vg.dcs[best[Len(vg.dcs)]]

\* Mutant: a tie makes another directory active.
TieMoves(vg) ==
    LET highest == Highest(vg)
    IN IF vg.active = NoDir \/ FinalScore(highest) >= FinalScore(Active(vg))
       THEN highest.name ELSE vg.active

\* The previous active directory stays when there is a tie.
Chosen(vg) ==
    LET highest == Highest(vg)
    IN IF vg.active = NoDir \/ FinalScore(highest) > FinalScore(Active(vg))
       THEN highest.name ELSE vg.active

\* score and old_rank are read only while a listing is taken in.
rearrange_and_show(vg) ==
    LET active == Chosen(vg)
    IN [vg EXCEPT !.active = active,
                  !.vbox = Arranged(@, vg.dcs),
                  !.dcs = Each(@, LAMBDA dc :
                      [dc EXCEPT !.file_box = file_box_flush(@),
                                 !.score = 0, !.old_rank = -1,
                                 !.is_active = (dc.name = active)])]

process_glob_data(vg, listing) ==
    LET read[k \in 0..Len(listing)] ==
            IF k = 0 THEN unmark_all_dirconts(vg)
            ELSE add_dircont(read[k - 1], listing[k], k - 1)
    IN rearrange_and_show(cull_dcs(read[Len(listing)]))

-----------------------------------------------------------------------------
(* The user.                                                               *)

\* One DirCont is activated and the other deactivated.
Activated(vg, name) ==
    [update_dc(update_dc(vg, name, TRUE), vg.active, FALSE) EXCEPT !.active = name]

\* The header of the DirCont of that name is clicked.
button_release_event(vg, name) == IF vg.active = name THEN vg ELSE Activated(vg, name)

\* The ranks after or before the active one's.
Onward(vg, next) ==
    {r \in {vg.dcs[i].rank : i \in DOMAIN vg.dcs} :
        IF next THEN r > Active(vg).rank ELSE r < Active(vg).rank}

Nearest(ranks, next) == IF next THEN Min(ranks) ELSE Max(ranks)

\* Mutant: a restricted directory is not skipped.
SkipsNone(vg, next) ==
    IF vg.active = NoDir \/ Onward(vg, next) = {} THEN vg
    ELSE Activated(vg, vg.dcs[Ranked(vg.dcs, Nearest(Onward(vg, next), next))].name)

\* The orders "down" and "up": the nearest rank that is not restricted.
activate_dc(vg, next) ==
    LET open == {r \in Onward(vg, next) : ~ vg.dcs[Ranked(vg.dcs, r)].is_restricted}
    IN IF vg.active = NoDir \/ open = {} THEN vg
       ELSE Activated(vg, vg.dcs[Ranked(vg.dcs, Nearest(open, next))].name)
=============================================================================
