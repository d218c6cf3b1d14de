------------------------------- MODULE FileBox -------------------------------
(***************************************************************************)
(* The box of files of one directory in a display                          *)
(* (src/vgdisplay/file_box.c), and the box of widgets the directories      *)
(* themselves are packed in (GTK's, as the displays use it).  A file keeps *)
(* its widget from one listing to the next.                                *)
(***************************************************************************)
EXTENDS Integers, Sequences, SequencesExt, FiniteSetsExt, Lists

\* g_slist_insert and gtk_box_reorder_child: at a position counted from
\* zero, or at the end when the list is shorter.
InsertedAt(list, x, position) ==
    InsertAt(list, Min({position, Len(list)}) + 1, x)

Reordered(box, x, position) ==
    InsertedAt(Picked(box, {i \in DOMAIN box : box[i] # x}), x, position)

\* A directory's widget (a DirCont or a DListing) that has not been shown.
is_new(widget) == widget.old_rank < 0

\* Mutant: only new widgets are put in their places.
KnownStay(box, widgets) ==
    LET after[k \in 0..Len(widgets)] ==
            IF k = 0 THEN box
            ELSE LET widget == widgets[Ranked(widgets, k - 1)]
                 IN IF is_new(widget) THEN Reordered(after[k - 1], widget.name, k - 1)
                    ELSE after[k - 1]
    IN after[Len(widgets)]

\* The widgets are put in their places from the first rank to the last;
\* one whose rank has not changed is left where it is.
Arranged(box, widgets) ==
    LET after[k \in 0..Len(widgets)] ==
            IF k = 0 THEN box
            ELSE LET widget == widgets[Ranked(widgets, k - 1)]
                 IN IF is_new(widget) \/ widget.rank # widget.old_rank
                    THEN Reordered(after[k - 1], widget.name, k - 1)
                    ELSE after[k - 1]
    IN after[Len(widgets)]

-----------------------------------------------------------------------------

\* The files, and the names of those the listing at hand has.
file_box_new == [fis |-> <<>>, marked |-> {}]

file_box_begin_read(fbox) == [fbox EXCEPT !.marked = {}]

\* The i-th file is listed again.  Only a change of type moves it.
fitem_update_type_selection_and_order(fbox, i, file, rank) ==
    LET retyped == fbox.fis[i].type # file.type
        points == (IF retyped THEN 2 ELSE 0) + (IF fbox.fis[i].sel # file.sel THEN 1 ELSE 0)
    IN [fbox |-> IF retyped
                 THEN [fbox EXCEPT !.fis = InsertedAt(RemoveAt(@, i), file, rank)]
                 ELSE [fbox EXCEPT !.fis[i] = file],
        points |-> points]

\* file is [name, type, sel].  The points say how much has changed.
file_box_add(fbox, file, rank) ==
    LET i == Named(fbox.fis, file.name)
        done == IF i # 0 THEN fitem_update_type_selection_and_order(fbox, i, file, rank)
                ELSE [fbox |-> [fbox EXCEPT !.fis = InsertedAt(@, file, rank)], points |-> 2]
    IN [done EXCEPT !.fbox.marked = @ \cup {file.name}]

\* The files of a listing, in their order.
Filled(fbox, files) ==
    LET after[k \in 0..Len(files)] ==
            IF k = 0 THEN [fbox |-> fbox, points |-> 0]
            ELSE LET before == after[k - 1]
                     add == file_box_add(before.fbox, files[k], k - 1)
                 IN [add EXCEPT !.points = @ + before.points]
    IN after[Len(files)]

\* The files the last listing had not go, only now.
file_box_flush(fbox) ==
    [fbox EXCEPT !.fis = Picked(@, {i \in DOMAIN fbox.fis : fbox.fis[i].name \in fbox.marked})]
=============================================================================
