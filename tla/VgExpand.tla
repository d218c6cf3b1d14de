------------------------------ MODULE VgExpand ------------------------------
(***************************************************************************)
(* The listing vgexpand makes (src/vgexpand/vgexpand.c): the words of an   *)
(* expanded command line are looked for in the directories they name, the  *)
(* files are marked and masked, and the directories are put in order.      *)
(*                                                                         *)
(* A path is a sequence of tokens: names, and "/".  A file system is a     *)
(* function from inodes to [kind, open, entries, target]: the type of the  *)
(* file, whether opendir succeeds, the names in a directory (with "." and  *)
(* "..") and the inode a symbolic link leads to.  vgexpand sees one        *)
(* snapshot of it.                                                         *)
(***************************************************************************)
EXTENDS Integers, Sequences, SequencesExt, FiniteSets, FiniteSetsExt, Lists

CONSTANTS
    NameOrder,  \* the names there are, in strcmp's order
    Beginnings, \* <<m, n>> when m begins n and is shorter
    Matches,    \* <<p, n>> when fnmatch says that pattern p matches n
    Root,       \* the inode of "/"
    Nowhere,    \* no inode
    Home        \* $HOME

\* strcmp tells the names apart.
ASSUME NamesAssumption ==
    NameOrder \in Seq(ToSet(NameOrder)) /\ IsInjective(NameOrder)

\* $HOME is a path.
ASSUME HomeAssumption ==
    Home \in Seq(ToSet(Home))

Slash == "/"

Yes == "*"

No == "-"

Maybe == "~"

Directory == "d"

strcmp(m, n) ==
    (CHOOSE i \in DOMAIN NameOrder : NameOrder[i] = m) -
    (CHOOSE i \in DOMAIN NameOrder : NameOrder[i] = n)

-----------------------------------------------------------------------------
(* Paths.                                                                  *)

LastSlash(path) == SelectLastInSeq(path, LAMBDA t : t = Slash)

normalize_path(path, remove_trailing) ==
    LET kept == {i \in DOMAIN path : path[i] # Slash \/ i = 1 \/ path[i - 1] # Slash}
        norm == Picked(path, kept)
    IN IF remove_trailing /\ Len(norm) > 1 /\ Last(norm) = Slash
       THEN Front(norm) ELSE norm

has_trailing_slash(path) == path # <<>> /\ Last(path) = Slash

\* The directory of a normalized path, made absolute.
vg_dirname(pwd, path) ==
    LET slash == LastSlash(path)
        relative == path = <<>> \/ path[1] # Slash
    IN IF relative /\ slash = 0 THEN pwd
       ELSE IF relative
       THEN (IF pwd = <<Slash>> THEN pwd ELSE Append(pwd, Slash)) \o SubSeq(path, 1, slash - 1)
       ELSE IF slash = 1 THEN <<Slash>>
       ELSE SubSeq(path, 1, slash - 1)

\* "" begins every name, and "/" none.
vg_basename(path) == IF path = <<>> THEN "" ELSE Last(path)

Begins(m, n) == m = "" \/ m = n \/ <<m, n>> \in Beginnings

-----------------------------------------------------------------------------
(* The file system.                                                        *)

\* Every name in a directory and every link leads to an inode, or nowhere.
IsFileSystem(fs) ==
    /\ Root \in DOMAIN fs /\ Nowhere \notin DOMAIN fs
    /\ \A n \in DOMAIN fs :
          /\ fs[n].target \in DOMAIN fs \cup {Nowhere}
          /\ DOMAIN fs[n].entries \subseteq ToSet(NameOrder)
          /\ \A name \in DOMAIN fs[n].entries : fs[n].entries[name] \in DOMAIN fs

Follow(fs, n) == IF n # Nowhere /\ fs[n].kind = "y" THEN fs[n].target ELSE n

Child(fs, n, name) ==
    IF n # Nowhere /\ fs[n].kind = Directory /\ name \in DOMAIN fs[n].entries
    THEN fs[n].entries[name]
    ELSE Nowhere

\* The inode stat finds.
stat(fs, path) ==
    LET at[i \in 0..Len(path)] ==
            IF i = 0 THEN Root
            ELSE IF path[i] = Slash THEN at[i - 1]
            ELSE Child(fs, Follow(fs, at[i - 1]), path[i])
    IN Follow(fs, at[Len(path)])

cmp_ls(f, g) == strcmp(f.name, g.name)

cmp_win(f, g) ==
    IF (f.type = Directory) = (g.type = Directory) THEN strcmp(f.name, g.name)
    ELSE IF f.type = Directory THEN -1 ELSE 1

\* The option that chooses the order of the files.
filename_cmp(option, f, g) ==
    CASE option = "-w" -> cmp_win(f, g)
      [] option = "-l" -> cmp_win(f, g)
      [] OTHER -> cmp_ls(f, g)

make_new_file(fs, inode, name) ==
    [name |-> name, type |-> fs[fs[inode].entries[name]].kind, selected |-> No, shown |-> FALSE]

make_new_dir(fs, sort, name, inode) ==
    LET opened == fs[inode].kind = Directory /\ fs[inode].open
        files == IF opened
                 THEN {make_new_file(fs, inode, n) : n \in DOMAIN fs[inode].entries}
                 ELSE {}
        Before(f) == {g \in files : filename_cmp(sort, g, f) < 0}
        count == Cardinality(files)
    IN [name |-> name, inode |-> inode, is_pwd |-> FALSE,
        files |-> Each([k \in 1..count |-> k], LAMBDA k :
                       CHOOSE f \in files : Cardinality(Before(f)) = k - 1),
        selected_count |-> 0, file_count |-> count, hidden_count |-> count]

-----------------------------------------------------------------------------
(* The words of the command line.                                          *)

Marked(file, lookup) ==
    IF file.selected = Yes \/ ~ Begins(lookup, file.name) THEN file
    ELSE IF file.name = lookup THEN [file EXCEPT !.selected = Yes, !.shown = TRUE]
    ELSE [file EXCEPT !.selected = Maybe]

\* Mutant: a file that is named twice is counted twice.
MarkAgain(dir, lookup) ==
    LET hits == {i \in DOMAIN dir.files : dir.files[i].name = lookup}
    IN [dir EXCEPT
            !.files = Each(@, LAMBDA f : Marked(f, lookup)),
            !.selected_count = @ + Cardinality(hits),
            !.hidden_count = @ - Cardinality(hits)]

\* Marks the files of dir that lookup names, or begins to name.
mark_traverse(dir, lookup) ==
    LET hits == {i \in DOMAIN dir.files :
                    dir.files[i].selected # Yes /\ dir.files[i].name = lookup}
    IN [dir EXCEPT
            !.files = Each(@, LAMBDA f : Marked(f, lookup)),
            !.selected_count = @ + Cardinality(hits),
            !.hidden_count = @ - Cardinality(hits)]

\* Where the directory of this inode is, or zero.
have_dir(dirs, name, inode) == SelectInSeq(dirs, LAMBDA d : d.inode = inode)

\* The directories with this one, which is new when no other has its inode.
correlate(fs, sort, dirs, name, inode) ==
    IF have_dir(dirs, name, inode) = 0
    THEN Append(dirs, make_new_dir(fs, sort, name, inode))
    ELSE dirs

\* ... and the file looked for in it.
correlate_file(fs, sort, dirs, name, inode, file) ==
    LET all == correlate(fs, sort, dirs, name, inode)
    IN [all EXCEPT ![have_dir(all, name, inode)] = mark_traverse(@, file)]

\* A word, and once more as a directory when it ends in a slash.
Word(fs, sort, pwd, dirs, arg) ==
    LET path == normalize_path(arg, TRUE)
        name == vg_dirname(pwd, path)
        inode == stat(fs, name)
        once == IF inode = Nowhere THEN dirs
                ELSE correlate_file(fs, sort, dirs, name, inode, vg_basename(path))
        dir == vg_dirname(pwd, normalize_path(arg, FALSE))
        self == stat(fs, dir)
    IN IF has_trailing_slash(arg) /\ self # Nowhere
       THEN correlate(fs, sort, once, dir, self)
       ELSE once

initiate(fs, sort, pwd) ==
    <<[make_new_dir(fs, sort, pwd, stat(fs, pwd)) EXCEPT !.is_pwd = TRUE]>>

\* The first word is the command's name.
compile_data(fs, sort, pwd, args) ==
    LET after[i \in 0..Len(args)] ==
            IF i <= 1 THEN initiate(fs, sort, pwd)
            ELSE Word(fs, sort, pwd, after[i - 1], args[i])
    IN after[Len(args)]

-----------------------------------------------------------------------------
(* The mask, the home directory and the report.                            *)

\* A mask is a sequence of [pattern, dirs_only].
Masked(masks, file) ==
    \E i \in DOMAIN masks :
        /\ masks[i].dirs_only => file.type = Directory
        /\ <<masks[i].pattern, file.name>> \in Matches

mask_traverse(dir, masks) ==
    LET seen == {i \in DOMAIN dir.files :
                    dir.files[i].selected # Yes /\ Masked(masks, dir.files[i])}
    IN [dir EXCEPT !.files = Each(@, LAMBDA f :
                                 [f EXCEPT !.shown = @ \/ Masked(masks, f)]),
                   !.hidden_count = @ - Cardinality(seen)]

home_to_tilde(name) ==
    IF name = Home THEN <<"~">>
    ELSE IF IsStrictPrefix(Append(Home, Slash), name)
    THEN <<"~">> \o SubSeq(name, Len(Home) + 1, Len(name))
    ELSE name

print_dir(dir) ==
    [selected |-> dir.selected_count, total |-> dir.file_count, hidden |-> dir.hidden_count,
     is_pwd |-> dir.is_pwd, name |-> home_to_tilde(dir.name),
     files |-> Each(Picked(dir.files, {i \in DOMAIN dir.files : dir.files[i].shown}),
                    LAMBDA f : [name |-> f.name, type |-> f.type, sel |-> f.selected])]

InOrder(ordering, dirs) ==
    CASE ordering = "-a" -> Reverse(dirs)
      [] ordering = "-p" -> <<Head(dirs)>> \o Reverse(Tail(dirs))
      [] OTHER -> dirs

\* What vgexpand has found: its directories, marked and masked.
Found(fs, sort, pwd, args, masks) ==
    Each(compile_data(fs, sort, pwd, args), LAMBDA dir : mask_traverse(dir, masks))

report(ordering, dirs) ==
    Each(InOrder(ordering, dirs), LAMBDA dir : print_dir(dir))
=============================================================================
