------------------------------- MODULE Exhibit -------------------------------
(***************************************************************************)
(* The classic display (src/vgdisplay/vgclassic.c, exhibit.c, dlisting.c): *)
(* every directory is shown with its files, one below the other.  An       *)
(* exhibit is [dls, listings_box]: the DListings in the order they were    *)
(* first seen, and their names in the order they are packed.               *)
(***************************************************************************)
EXTENDS FileBox

exhibit_new == [dls |-> <<>>, listings_box |-> <<>>]

dlisting_new(name) ==
    [name |-> name, rank |-> -1, old_rank |-> -1, marked |-> FALSE,
     selected |-> 0, total |-> 0, hidden |-> 0, file_box |-> file_box_new]

dlisting_set_file_counts(dl, dir) ==
    [dl EXCEPT !.selected = dir.selected, !.total = dir.total, !.hidden = dir.hidden]

dlisting_mark(dl, rank) ==
    [dl EXCEPT !.marked = TRUE, !.old_rank = dl.rank, !.rank = rank]

exhibit_unmark_all(e) ==
    [e EXCEPT !.dls = Each(@, LAMBDA dl : [dl EXCEPT !.marked = FALSE])]

\* Mutant: the files of a known directory are not unmarked.
StaleFiles(e, dir, rank) ==
    LET i == Named(e.dls, dir.name)
        old == IF i = 0 THEN dlisting_new(dir.name) ELSE e.dls[i]
        dl == [dlisting_mark(dlisting_set_file_counts(old, dir), rank) EXCEPT
                  !.file_box = Filled(old.file_box, dir.files).fbox]
    IN IF i = 0 THEN [e EXCEPT !.dls = Append(@, dl)] ELSE [e EXCEPT !.dls[i] = dl]

exhibit_add(e, dir, rank) ==
    LET i == Named(e.dls, dir.name)
        old == IF i = 0 THEN dlisting_new(dir.name) ELSE e.dls[i]
        box == IF i = 0 THEN old.file_box ELSE file_box_begin_read(old.file_box)
        dl == [dlisting_mark(dlisting_set_file_counts(old, dir), rank) EXCEPT
                  !.file_box = Filled(box, dir.files).fbox]
    IN IF i = 0 THEN [e EXCEPT !.dls = Append(@, dl)] ELSE [e EXCEPT !.dls[i] = dl]

exhibit_cull(e) ==
    LET kept == Picked(e.dls, {i \in DOMAIN e.dls : e.dls[i].marked})
        names == {kept[i].name : i \in DOMAIN kept}
        box == {i \in DOMAIN e.listings_box : e.listings_box[i] \in names}
    IN [dls |-> kept, listings_box |-> Picked(e.listings_box, box)]

\* old_rank is not read after that.
exhibit_rearrange_and_show(e) ==
    [dls |-> Each(e.dls, LAMBDA dl : [dl EXCEPT !.file_box = file_box_flush(@),
                                                !.old_rank = -1]),
     listings_box |-> Arranged(e.listings_box, e.dls)]

exhibit_process(e, listing) ==
    LET read[k \in 0..Len(listing)] ==
            IF k = 0 THEN exhibit_unmark_all(e)
            ELSE exhibit_add(read[k - 1], listing[k], k - 1)
    IN exhibit_rearrange_and_show(exhibit_cull(read[Len(listing)]))
=============================================================================
