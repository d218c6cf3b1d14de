------------------------------ MODULE Listings ------------------------------
(***************************************************************************)
(* From a command line to the displays: the line is sanitized, a shell     *)
(* makes words of it (which the lines of an instance need no expansion     *)
(* for), vgexpand lists what the words, the mask and the file system give, *)
(* and both displays take the listing in, on top of what they show         *)
(* already.  The user clicks headers and moves between the directories.    *)
(*                                                                         *)
(* The order of the directories and of the files is chosen once, by any of *)
(* vgexpand's options (of what vgd makes of its own, "-d-a" and the like,  *)
(* vgexpand knows only the default).                                       *)
(***************************************************************************)
EXTENDS VgExpand, Sanitize, VgMini, Exhibit

CONSTANTS
    Orderings,    \* options of vgexpand: -d, -a, -p
    Sortings,     \* -w, -l
    FileSystems,  \* the states the file system goes through, in a sequence
    Lines,        \* [pwd, cmd], in a sequence
    Characters,   \* what any command line is made of
    MaxTyped,     \* and how long it may be
    Masks         \* sequences of [pattern, dirs_only], in a sequence

ASSUME ListingsAssumption ==
    /\ MaxTyped \in Nat
    /\ FileSystems \in Seq(ToSet(FileSystems))
    /\ \A i \in DOMAIN FileSystems : IsFileSystem(FileSystems[i])
    /\ \A i \in DOMAIN Lines :
          /\ Lines[i].pwd \in Seq(ToSet(Lines[i].pwd))
          /\ Lines[i].pwd # <<>> /\ Lines[i].pwd[1] = Slash
          /\ Lines[i].cmd \in Seq(ToSet(Lines[i].cmd))

VARIABLES
    ordering, sorting,
    input,     \* what the last listing was made from, or NoInput
    listing,   \* the last listing
    vg,        \* the mini display
    e          \* the classic display

vars == <<ordering, sorting, input, listing, vg, e>>

NoInput == <<0, 0, 0>>

\* The file system, the line and the mask by their numbers.
Inputs == (DOMAIN FileSystems) \X (DOMAIN Lines) \X (DOMAIN Masks)

Fs(in) == FileSystems[in[1]]

Pwd(in) == Lines[in[2]].pwd

\* What the sandbox makes of the line it is given.
Args(in) == WordsOf(sanitize(Lines[in[2]].cmd))

\* What vgexpand finds.
Dirs(in) == Found(Fs(in), sorting, Pwd(in), Args(in), Masks[in[3]])

Init ==
    /\ ordering \in Orderings
    /\ sorting \in Sortings
    /\ input = NoInput
    /\ listing = <<>>
    /\ vg = vgmini_new
    /\ e = exhibit_new

\* vgexpand gives up when the working directory has gone.
Listed(in) == stat(Fs(in), Pwd(in)) # Nowhere

\* P_VGEXPAND_DATA.
Expand(in) ==
    /\ Listed(in)
    /\ input' = in
    /\ listing' = report(ordering, Dirs(in))
    /\ vg' = process_glob_data(vg, listing')
    /\ e' = exhibit_process(e, listing')
    /\ UNCHANGED <<ordering, sorting>>

Click(i) ==
    /\ vg' = button_release_event(vg, vg.dcs[i].name)
    /\ UNCHANGED <<ordering, sorting, input, listing, e>>

\* P_ORDER with "up" or "down".
do_nav(next) ==
    /\ vg' = activate_dc(vg, next)
    /\ UNCHANGED <<ordering, sorting, input, listing, e>>

Next ==
    \/ \E in \in Inputs : Expand(in)
    \/ \E i \in DOMAIN vg.dcs : Click(i)
    \/ \E next \in BOOLEAN : do_nav(next)

Spec == Init /\ [][Next]_vars

-----------------------------------------------------------------------------
(* What the sandbox is given.                                              *)

Typed == UNION {[1..n -> Characters] : n \in 0..MaxTyped}

\* Whatever has been typed, the sandbox shell is given words only, of one
\* command that is complete: no quote is left open and no backslash at the
\* end, so that the shell does not wait for more of it, and nothing is
\* executed.  What is such a command already is given as it is ("Close
\* unclosed quotes", sanitize.c:308, "Can't have a trailing backslash").
\* No state changes what may be typed: the first ones stand for all.
GivenOneCommand ==
    input = NoInput => \A line \in Typed : ~ Eludes(line) =>
        LET given == sanitize(line)
        IN /\ OneCommand(given)
           /\ OneCommand(line) /\ ToSet(line) \cap {"!", "$", Return} = {} => given = line

-----------------------------------------------------------------------------
(* What vgexpand finds.                                                    *)

Count(files, Test(_)) == Cardinality({i \in DOMAIN files : Test(files[i])})

CountsAdd(dir) ==
    /\ dir.selected_count = Count(dir.files, LAMBDA f : f.selected = Yes)
    /\ dir.hidden_count = Count(dir.files, LAMBDA f : ~ f.shown)
    /\ dir.file_count = Len(dir.files)
    /\ \A i \in DOMAIN dir.files : dir.files[i].selected = Yes => dir.files[i].shown

\* The words that are about this directory's files.
Lookups(in, dir) ==
    LET path(i) == normalize_path(Args(in)[i], TRUE)
    IN {vg_basename(path(i)) : i \in {j \in 2..Len(Args(in)) :
            stat(Fs(in), vg_dirname(Pwd(in), path(j))) = dir.inode}}

MarkedByWords(in, dir) ==
    \A i \in DOMAIN dir.files :
        dir.files[i].selected =
            IF dir.files[i].name \in Lookups(in, dir) THEN Yes
            ELSE IF \E l \in Lookups(in, dir) : Begins(l, dir.files[i].name) THEN Maybe
            ELSE No

\* Of the expansion of a line each directory is listed once, whatever the
\* names and the links it is reached by, the working directory among them;
\* its counts agree with its files, and a file is selected exactly when
\* some word names it, whatever the order and the repetition of the words
\* (compile_data, correlate, mark_traverse, mask_traverse).
ListingSound ==
    input # NoInput =>
        LET dirs == Dirs(input)
        IN /\ \A i, j \in DOMAIN dirs : dirs[i].inode = dirs[j].inode => i = j
           /\ {i \in DOMAIN dirs : dirs[i].is_pwd} = {1}
           /\ dirs[1].inode = stat(Fs(input), Pwd(input))
           /\ \A i \in DOMAIN dirs : CountsAdd(dirs[i]) /\ MarkedByWords(input, dirs[i])

-----------------------------------------------------------------------------
(* What the displays show.                                                 *)

SameDir(dir, dc) ==
    /\ dc.selected = dir.selected /\ dc.total = dir.total /\ dc.hidden = dir.hidden
    /\ Len(dc.file_box.fis) = Len(dir.files)
    /\ ToSet(dc.file_box.fis) = ToSet(dir.files)

\* After any sequence of listings, each display shows the directories of
\* the last one, each once and at its rank, with its counts and exactly
\* its files in their types and selections: nothing of an earlier listing
\* stays, though the widgets do (add_dircont, exhibit_add, cull,
\* file_box_begin_read, file_box_add, file_box_flush).
ShowsTheListing ==
    input # NoInput =>
        LET names == {listing[k].name : k \in DOMAIN listing}
        IN /\ Len(vg.dcs) = Len(listing) /\ Len(e.dls) = Len(listing)
           /\ ToSet(vg.vbox) = names /\ Len(vg.vbox) = Len(listing)
           /\ ToSet(e.listings_box) = names /\ Len(e.listings_box) = Len(listing)
           /\ \A k \in DOMAIN listing :
                 LET i == Named(vg.dcs, listing[k].name)
                     j == Named(e.dls, listing[k].name)
                 IN /\ i # 0 /\ j # 0
                    /\ SameDir(listing[k], vg.dcs[i]) /\ SameDir(listing[k], e.dls[j])
                    /\ vg.dcs[i].rank = k - 1 /\ e.dls[j].rank = k - 1
                    /\ vg.dcs[i].is_pwd = listing[k].is_pwd
                    /\ vg.dcs[i].is_restricted = (listing[k].total = 0)

-----------------------------------------------------------------------------
(* The order in which they show it.                                        *)

NamesOf(s) == [i \in DOMAIN s |-> s[i].name]

FileOrder(dcs, name) ==
    NamesOf(dcs[Named(dcs, name)].file_box.fis)

DirsInOrder ==
    input # NoInput => vg.vbox = NamesOf(listing)

\* The files of a directory in order, of which the next listing drops and
\* retypes none.
Grows(dir, fis) ==
    \A i \in DOMAIN fis :
        \E j \in DOMAIN dir.files : dir.files[j].name = fis[i].name /\ dir.files[j].type = fis[i].type

OrderKeptBy(dirs, dcs, next) ==
    \A k \in DOMAIN dirs :
        LET i == Named(dcs, dirs[k].name)
            sorted == NamesOf(dirs[k].files)
            names == NamesOf(dcs[i].file_box.fis)
        IN \/ i = 0
           \/ ~ Grows(dirs[k], dcs[i].file_box.fis)
           \/ names # Picked(sorted, {j \in DOMAIN sorted : sorted[j] \in ToSet(names)})
           \/ FileOrder(next, dirs[k].name) = sorted

\* In both displays a directory's files stay in order as long as the next
\* listing only adds files and changes selections, and the directories do
\* as long as no listing has more than three (rearrange_and_show,
\* exhibit_rearrange_and_show, file_box_add).
OrderKept ==
    [][input' # input =>
         /\ OrderKeptBy(listing', vg.dcs, vg'.dcs)
         /\ OrderKeptBy(listing', e.dls, e'.dls)
         /\ DirsInOrder /\ Len(listing') <= 3 =>
               vg'.vbox = NamesOf(listing') /\ e'.listings_box = vg'.vbox]_vars

-----------------------------------------------------------------------------
(* The active directory.                                                   *)

OnRestricted(v) == v.active # NoDir /\ Active(v).is_restricted

AllRestricted(v) == \A i \in DOMAIN v.dcs : v.dcs[i].is_restricted

Clicked == \E i \in DOMAIN vg.dcs : Click(i)

\* One directory is active and shows its files, and it is not one that
\* cannot be read, unless none can or the user has clicked on it:
\* "Restricted directories can't be active" (vgmini.c:512), whether it is
\* the listing that makes it so or the user who moves.
RestrictedOnlyByClick ==
    [][/\ \A i \in DOMAIN vg'.dcs : vg'.dcs[i].is_active = (vg'.dcs[i].name = vg'.active)
       /\ OnRestricted(vg') =>
             AllRestricted(vg') \/ vg' = vg \/ Clicked
       /\ \A next \in BOOLEAN :
             LET moved == activate_dc(vg, next) IN OnRestricted(moved) => moved = vg]_vars

\* To take the same listing in again changes nothing: the same directory
\* stays active, unless the user has made a restricted one active, and
\* every file and directory keeps its place ("Always use the previous
\* active dc if there's a tie", vgmini.c:522).
RepeatChangesNothing ==
    input # NoInput =>
        /\ OnRestricted(vg) \/ process_glob_data(vg, listing) = vg
        /\ exhibit_process(e, listing) = e
=============================================================================
