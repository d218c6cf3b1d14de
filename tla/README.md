# Viewglob in TLA+

Viewglob shows, beside a terminal, the files the command line being typed would
expand to. Several programs take part:

    user's terminal <-> vgseer <-> user's shell          (one of each per terminal)
                          |  ^
              command line|  |listing
                          v  |
                   sandbox shell -> vgexpand
                          |
                          | parameters over a socket
                          v
                         vgd  <-> vgdisplay             (one per user)

`vgseer` sits between a terminal and its shell, reconstructs the command line
from the escape sequences it sees pass, and has `vgexpand` list what it expands
to, in a second shell that is never seen. `vgd` keeps what each `vgseer` last
reported and tells one display process about the terminal in use.

The specification follows the source: an action is a whole handler (or the part
of one between two places where it may wait), definitions keep the names of the
functions and fields they stand for, and `PROJECT.json` ("map") gives the lines
of each.

## Inventory

For every part: its state, its operations, what is hard about it, and what makes
it correct. "Module" is what models it, or will.

| Part | State | Operations | Hard | Correct when | Module |
|---|---|---|---|---|---|
| vgd: poll loop (`vgd/vgd.c`) | list of clients, current client, `current_is_active`, a copy of each shell's parameters | `poll_loop`, `new_client`, `process_client`, `process_display`, `check_active_window`, `context_switch`, `drop_client`, `die` | clients and display exit between any two steps; handlers drop clients that the same round goes on to look at; everything uses `s->current` unchecked | `current` is a connected client, the display has one client's data and the right one's, nothing ready is forgotten, every end is orderly | `Vgd` |
| child processes (`common/child.c`) | pid and descriptors of the display | `child_fork`, `child_terminate` | the child may have gone before it is written to | the struct says "not running" exactly when there is nothing to write to | `Vgd` |
| vgd: start-up (`parse_args`, `daemonize`, `unix_listen`, `tcp_listen`) | listening sockets | once, in sequence | two daemons or launchers at once | one daemon listens on a port, and its socket file leads to it | `Launch` |
| parameter protocol (`common/param-io.c`, `hardened-io.c`) | none | `put_param`, `get_param`, `read_all`, `write_all` | partial reads, EOF in a message, the 100K limit | a message is delivered whole or the connection is given up | effect in `Vgd`, `Vgseer`, `Launch` |
| vgseer: main loop (`vgseer/vgseer.c`) | shell and terminal connection, socket to vgd, `vgexpand_called`, status last sent | `io_activity` and its handlers, `action_loop`, `call_vgexpand`, `send_status`, `disable_vgseer`, `clean_fail` | one thread waits for the sandbox, vgd and the user in turn; any of them may stop | the user is always served, vgd is told whole and newest results, every end is noticed | `Vgseer` |
| vgseer: action queue (`vgseer/actions.c`) | six flags and a list | `action_queue`, which also dequeues | actions queued by one read contradict each other | whatever a round queued, vgd then holds the line as the scan does | `Vgseer` |
| vgseer: sandbox shell and `vgexpand`'s run | two pipes | read a command, print listing between markers | the pipes cut and delay everything | no output is mixed with another | `Vgseer` |
| connecting to vgd (`connect_to_vgd`, `vgping`, `new_client`) | none kept | a fixed exchange of parameters | both ends wait without a limit | both ends agree on the order | `Launch`; ends in `Vgd` |
| scanner (`vgseer/sequences.c`, `connection.c`) | partial match and held-over bytes per connection, process level | `check_seqs`, `check_seq`, `analyze_effect`, `prepend_holdover`, `create_holdover`, `eat_segment`, `pass_segment` | a sequence cut by the end of a read; which sequences are looked for depends on the ones found | what is found does not depend on where reads end; what is not for vgseer passes unchanged | `Scanner`, `ShellScan`, `Keys`; effect in `Vgseer` |
| command line (`vgseer/cmdline.c`) | text, cursor | `cmd_overwrite_char`, `cmd_del_chars`, `cmd_wipe_in_line`, `cmd_insert_chars`, ... | counts chosen by the shell, both ends of the line | the text is what the terminal's line shows, the cursor stays in it | `CmdLine`, `Line`; mask and names in `Keys` |
| sanitizing (`vgseer/sanitize.c`) | none | `sanitize` with `add_char`, `delete_current_word`, `backspace` and a stack of quotes | unbalanced quotes, operators | what is given to the sandbox is one command's words | `Sanitize` |
| pseudo terminals (`ptytty.c`, `tc_setraw.c`, `pty-child.c`) | descriptors | opening, raw mode | system calls | - | none |
| vgexpand (`vgexpand/vgexpand.c`) | directories and their files | reading, matching, marking, reporting | same directory named in several ways, masks | each file of each directory once, with its mark; counts agree | `VgExpand`; its markers in `Vgseer` |
| mini display (`vgdisplay/vgmini.c`, `dircont.c`, `file_box.c`) | directories, the active one, their files, their places | `process_glob_data`, `activate_dc`, clicks | updates reuse widgets of the last listing | what is shown is what was last sent, in order; what cannot be read is not active by itself | `VgMini`, `FileBox` |
| classic display (`vgclassic.c`, `exhibit.c`, `dlisting.c`, `file_box.c`) | listings, their files, their places | `process_glob_data`, `exhibit_*` | the same | the same | `Exhibit`, `FileBox` |
| widgets (`wrap_box.c`, `lscolors.c`, `jump-resize.c`) | GTK geometry | drawing, wrapping | GTK | - | none |
| launcher, shell initialization (`shell/`) | environment variables, the socket file | ping, start vgd, retry ports | two launchers at once | one vgd, which all shells find | `Launch` |
| X11 helpers (`common/x11-stuff.c`) | none | active window, raising | the user moves windows meanwhile | - | values chosen by the environment in `Vgd` |
| options, logging (`fgetopt.c`, `conf-to-args.c`, `logging.c`, `syslogging.c`) | none | text | none | - | none |

How they interact: vgseer and vgd exchange parameters over a socket, vgd and
the display over a pair of pipes, vgseer and the sandbox over another pair; the
user's shell is behind a pseudo terminal; the other end of each may close at any
time; nothing is shared in memory, and every program here is one
thread. What is hard is therefore order and loss between processes, and
handlers that act on what they learnt before something else changed it.
`PROJECT.json` lists the hazards at their lines, with the properties meant to
catch each.

## Plan

Done, in this order: `Vgd`, `Vgseer`; `CmdLine`, `Scanner`, `Line` and their
composition `ShellScan`; `Keys`; `Lists`, `VgExpand`, `FileBox`, `VgMini`,
`Exhibit`, `Sanitize` and their composition `Listings`; `Launch`. Then the
proofs, each beside what it is about.

    CmdLine <- Scanner <- ShellScan -- implements --> Line
    Lists <- VgExpand, Sanitize             <- Listings
    Lists <- FileBox <- VgMini, Exhibit     <- Listings
    Vgd, Vgseer, Keys, Launch stand alone

    VgdProofs, VgseerProofs, KeysProofs, ShellScanProofs, LaunchProofs
                                       of the module they name
    DisplayProofs <- ListingsProofs    of VgMini and Exhibit; of Sanitize, VgExpand
                                       and Listings
    DataLemmas                         lemmas about data for all but Vgseer's

Left to do, most useful first:

1. `ImplementsLine` of `ShellScan` by proof, for a terminal of two rows: which
   token the segment is a part of has to be an invariant (see "Only
   model-checked").
2. `Follow`: an abstract specification of the whole, "the display shows the
   active shell's last report", with `Vgd` shown to implement it from a
   connected display on.

No module has a RECURSIVE operator, so theorems may be stated about any of them.

## Vgd: the daemon

State. `clients`, `current`, `currentIsActive` are the fields of `struct state`;
`shell[c]` is `struct vgseer_client` of client `c`. `display` is what vgd
believes and what is true at once: "off", "up", or "dead" when the process has
gone and vgd does not know. `view` is a history of what the running display was
told, field by field, with `None` for never. `pc` and `ready` are the place in
`poll_loop` and `rset`. The environment has the connections not yet accepted,
which clients are alive, how many messages are unread in each connection, the
display's unread messages, and the active window.

Actions. `Poll` is `setup_polling` with `select`; then, as in `poll_loop`, first
the sockets (`Accept`, and the ends of `new_client`: `NewVgseerClient`,
`TurnAway`, `HandshakeKills`), then the display (`DisplayMalformed`,
`DisplayIgnored`, `DisplayInput`, `DisplayEOF`), else the first ready client of
the list (`ProcessClient`, one disjunct per parameter), and `CheckActiveWindow`,
which ends the round. `DieDropsClient` and `DieExits` are `die`. Around them
`World`: clients connect, send and die, the display sends and dies, the user
changes windows.

Abstractions. A message arrives whole: `get_param` reads to its end, and vgd
waits there. A message's content is chosen when it is read. "title-set" and the
display's window id change nothing that is modelled. A write to a process that
is gone kills vgd (SIGPIPE has its default action), except on a socket, where
it may also be lost, or fail and drop the client. Freed memory is reset in the
model; the use of a freed struct after an invalid status is listed as a hazard
that the model cannot show.

| Run | Instance | Shows |
|---|---|---|
| `vgd_switch` | two clients, two windows, two sockets, persistent, the messages that move the display and one stored text | types; `current` is a client; a display has one; only readable descriptors are read; the display never has a stale or foreign field; ends are orderly; every switch tells the display everything |
| `vgd_one_shell` | one client, statuses good and bad, commands, masks, refocusing and malformed data, not persistent, fair | vgd ends with its last client, wherever in a round it goes |
| `vgd_live` | two clients, refocusing only, not persistent, fair | the active window is followed; a lost display is noticed; nothing ready is forgotten |
| `vgd_fresh_display` | two clients | violated: a new display is not told what the current client holds |

Bounds. Two clients are enough for a current one and another, for drops in both
orders, and for two in one window; two windows are the unknown one (0) and a
terminal; two texts tell "changed" from "not"; one unread message per
connection (`MaxPending`) is enough since vgd reads one a round and what comes
next is chosen when it is read. The proofs have no such bounds.

Fairness. `WF(LoopStep)`: `select` has a time limit of half a second, so the
loop needs no input to go round. The rest is assumed, since these waits of vgd
have no limit: that a client goes on with its handshake (`WF(HandshakeStep)`,
`new_client`) and sends whole messages (`get_param`), that the display reads its
pipe (`put_param`), and that it exits when told to (`waitpid` in
`child_terminate`). `Launch` has the handshakes that stop. Clients, the display
and the user have no fairness. `NothingForgotten` and `EndsWithLastClient` are stated for
when input stops: one client is served a round, searched from the newest, so a
client that always has something to say can hold up the others.

## Vgseer: the client

State. `pc` and `ready` are the place in `main_loop`; `flags` and `al` are
`actions.c`'s booleans and list; `pl`, `ss` are `shell_conn`'s process level and
status; `runs` counts the commands given to the sandbox and so names each
command line; `called` is `vgexpand_called`; `frame` has the markers that delimit
`expanded`; `told` is what vgd was last sent. The sandbox is an actor: `inPipe`
and `out` are its two pipes, `running` and `started` the run it is at, `quoting`
says that it is inside a quotation a broken command opened. `stalled` has the
ends that read no more (vgd in a wait of its own, a terminal stopped with Ctrl-S,
a program in the shell that does not read), `unsent` is a history: the line has
changed since it was sent.

Actions. `Select`; the handlers in the order of `io_activity` (`ProcessShell`,
`ProcessTerminal`, `ProcessVgd`, `ProcessSandbox`, `ChildWait`); between a read
and the next handler one `Scan` step for each sequence matched, with its effect
on the status and the queue; `ReadOn` is each further `read` of
`process_sandbox`, where vgseer waits for the sandbox; `ActExit`, `ActDisable`,
`ActLost`, `ActPassOn`, `ActCmd` are `action_loop`, in the order in
which `action_queue` hands them out; `call_vgexpand` is the write that may wait while the pipe is
full; `SendStatus` ends the round. No write has a time limit: to vgd
(`put_param_wrapped`), to the terminal and to the shell (`ScanEnds`,
`connection_write`) each waits while its end is stalled, as the write to the
sandbox waits while the pipe is full. `TakeCommand`, `PrintMarker`, `CdFails` are the
sandbox, `World` is vgd, the user, the user's shell and the sandbox's end.

Abstractions. The text of the command line is the number of its run, a run's
output is its start and its end marker, and pipes are measured in commands and
markers. Which sequence is matched is free, within what the process level
allows: this is more than a real shell prints. A write to a vgd that has gone
fails (which is fatal) or is lost. A listing may always be longer than a
parameter may be (fatal too). `Happens` and `Keys` choose what may go wrong and
what the user may ask for in an instance; the proofs are for every choice.

| Run | Instance | Shows |
|---|---|---|
| `vgseer_expand` | four command lines, one command and two markers to a pipe, masks, disabling; `cd` may fail, the sandbox exit, vgd and the shell stall; fair | types; expansions are whole and in order; whenever vgseer waits, vgd holds the line as the scan does (`LineKnown`); disabled is silent; the user is served, or vgseer waits in one of the places named |
| `vgseer_end` | zsh, one command line, one queued order; vgd may send, vgd, the shell and the terminal go, the terminal stall, system calls fail; fair | the status is always known to vgd; the end of the shell ends vgseer; the end of vgd disables it |
| `vgseer_frozen` | six command lines, disabling | violated: vgseer and its sandbox wait for each other |

Bounds. Four runs put one command in the pipe, one at work, one output unread
and one command waiting for room; pipes that hold a command and two markers
fill up within them. One command line and one
order are enough for the ends, where the queue's length does not matter.

Fairness. `select` returns when a descriptor is readable; a read or write that
need not wait returns (`LoopStep`, which is disabled while there is nothing to
read, no room, or the end written to is stalled); a buffer is finite
(`ScanEnds`); and the sandbox runs. Nothing has to fail: fairness asks for no
failure of a system call, no listing that is too long and no failing `cd`.

The three liveness properties say where vgseer may wait for good, and that it
waits nowhere else (`Waits`): `BothFull`, which `vgseer_frozen` shows;
`NothingComes`, in which vgseer took the rest of an old output for the beginning
of a new one whose `cd` failed; and `EndStalled`, a write to an end that reads no
more. A behaviour is excused only if it is in one of these from some time on.
Each is reached in `vgseer_expand`: without any one of the three, `UserServed`
is violated there. Deadlock is not checked in that run for the same reason.

`LineKnown` is about a round's order. One read can lose the line, start another,
edit it and bring a directory; the flags take one another back (`Invalidates`)
and are dequeued in an order of their own, while the status changes with the
scan and again when a lost line is dequeued. When vgseer waits again vgd must
hold "prompt" exactly if the scan is at one, and then the line as last changed.
A line found out of step is not held back: ME_ERROR sets the status and leaves
a queued command in the queue (sequences.c:507-513), so that the line goes out
once with "lost" after it.

## ShellScan: what the user's shell prints

`CmdLine` is `cmdline.c`: each function on a text of bytes and a cursor is an
operator of the same name; a failure is a cursor of `Fails` or a false `Can...`.
`Scanner` is the table of sequences and `check_seq`/`check_seqs`. `ShellScan`
composes them with `scan_sequences` and `connection.c`: `ProcessShell` begins a
read, `CheckSeqs` compares one more byte and runs the function of the sequence
that matched, `ReadEnds` holds the segment over, `ProcessTerminal` is what a key
means for the next newline. How long a read is is decided while it is scanned,
so every way of cutting the output is covered. One way of ending a read is special
(`SpaceTyped`): a lone space at the prompt is taken as typed at once, although it
may be the first byte of a wrap; the model leaves out only reads that cut a wrap
there, as the code's comment does (vgseer.c:902-905).

`Line` is the abstract specification: a shell's output is tokens, not bytes, and
a command line is rows of characters with a cursor, changed by one token at a
time. `Sane` says what a line editor prints. The property `ImplementsLine`
(`Terminal!Spec`, with `screen <- Screen`, `entered <- expect`) says that every
step of the scan, for every cut, is a token taken in whole or nothing: the
mapping `Screen` reads vgseer's bytes as rows of characters, and takes the first
half of a wrap back while the second is still to come.

| Run | Instance | Shows |
|---|---|---|
| `shell_scan` | zsh, one letter of two bytes and the space, two rows of a terminal two columns wide, right prompts, one token in flight | positions stay in range; vgseer's line is the terminal's (refinement); vgd has been sent it; no byte is written twice or lost; nothing of a directory marker reaches the terminal |
| `scan_cut` | commands typed ahead, one row | violated: bytes after a directory marker are not written |

Bounds. Two columns with a prompt of one put every position at the edge of a row
or next to it, two rows have a wrap, a return and a cursor up between them.
Two rows are also where the properties end: `seq_term_cursor_up` counts bytes
("FIXME for UTF-8", sequences.c:757) where every other function counts characters,
so that in three rows the cursor may land inside a character of two bytes, and
`TypeOK` and `ImplementsLine` fail (TLC reaches it with `MaxRows` 3). In two rows
the only way up is to the prompt's row, where vgseer gives the line up.
The run also passes with two tokens in flight, and with three rows when all
characters are of one byte (some five minutes each).
Counts are none and two; one token in flight suffices, since the next is only
needed while a wrap, a return or a right prompt's mark waits for it (`Quiet`).

Left out, each a real limit of the program the instance avoids by what `Sane`
prints: bytes that are not UTF-8, which `g_utf8_validate` never finds complete
(cmdline.c:142-173; the model goes by a character's first byte); the two bytes of a wrap cut apart by a read (a lone space counts as
typed, `SpaceTyped`); completion that wraps while Enter is awaited; a cursor
moved up to the row of the prompt (the line is given up and rebuilt); erasing
all from a later row; typing ahead (`TypeAhead`, in `scan_cut` only); a holdover
that fills the buffer. zsh's forward of one column too many is in.

## Keys: what the user types

The other direction of the same scanner, and the small machine behind Ctrl-G:
`seq_viewglob_all` with its static flags `in_mask` and `in_navigation` and the
process level `pl`, the mask of `cmdline.c`, the flags `actions.c` keeps for it,
and `process_vgd`, which escapes a file's name chosen in the display and puts it
into the command line as if typed. The shell's line editor and what vgd holds
are actors.

| Run | Instance | Shows |
|---|---|---|
| `keys` | reads of one or two keys of every class, arrows, two names, masks of two characters, lines of one | the flags and the level agree; vgd has the mask committed and the one being typed, and none cancelled; what a mode takes never reaches the shell and the key that ends it does; a name becomes a word of its own |

Bounds. Reads of two keys have every key next to every kind of end; lines of one
character have a name before, after and instead of it. `NameIsAWord` assumes
that vgseer has heard of the line as it is, which is what the code assumes too.
An arrow counts only at the end of a read (`arrow_key` compares all that is left
of it), so one typed ahead ends a navigation; an arrow cancels a mask; a name
that arrives between Ctrl-G and its key becomes a mask. These hold in the model
as in the code.

## Listings: from a command line to the displays

`Sanitize` is `sanitize.c` character by character, over the classes it tells
apart, and beside it a reference reader of a shell's words (`Reading`, external).
`VgExpand` is `vgexpand.c` over paths of tokens and a file system of inodes:
normalizing, `dirname` and `basename`, `stat` through links, marks, counts,
masks, order. `FileBox`, `VgMini` and `Exhibit` are the displays' data: which
files and directories are kept from the last listing, updated, dropped and
where they are packed (`InsertedAt`, `Reordered` are GLib's and GTK's part of
it). `Lists` has the helpers on lists they all use. `Listings` composes them:
`Expand` is a listing on its whole way, `Click` and `do_nav` are the user. There
is no listing when the working directory is gone (`Listed`): vgexpand gives up
when `getcwd` fails.

What is assumed of the constants: file names have an order (`NamesAssumption`);
`$HOME` is a path (`HomeAssumption`); every entry and link of a file system leads
to an inode or nowhere (`IsFileSystem`), and a working directory, which is what
`getcwd` returns, begins with a slash (`ListingsAssumption`; vgexpand.c:123).

| Run | Instance | Shows |
|---|---|---|
| `listing` | 14 classes of characters, lines of up to four; three states of a home directory with a link, an unreadable and an empty directory; four lines, four masks, three orders | what is sanitized is one complete command of words; each directory is listed once and its counts and marks are right; both displays show exactly the last listing, whatever they showed before; order is kept while files are only added and up to three directories; a directory that cannot be read is active only when clicked on; the same listing again changes nothing |

Bounds. Four characters have a quote inside a quote, an escape at the end of
each, a pattern's parenthesis with one character and an end. Three file systems
and four masks make files and directories appear, go, change type and change
selection; the state is what the displays keep, so any two listings in a row,
and longer sequences, are covered.

Limits seen while modelling, all as in the code. A backslash inside double
quotes, or in parentheses, is not an escape to `sanitize` and is one to the
shell (`Eludes` of `Sanitize` leaves these lines out: the sandbox may be left in an open
quote). `delete_current_word` looks at the terminating NUL and so deletes the
whole command at a redirection. A file named with a trailing slash is listed as
a directory that cannot be read. `-l` sorts as `-w` does (vgexpand.c:170).
vgd appends its options to "-d" without a space (vgd.c:306, 320), so that
vgexpand recognises none of them; `Listings` has all of vgexpand's own options.
An empty listing is ignored by the displays (vgmini.c:228). Files are out of
order after a mask that took some away (file_box.c:455), and four directories
may be: `OrderKept` says when they are not. Clicking the header of an unreadable
directory makes it active, in spite of the comment at vgmini.c:512.

Left out: normalizing `$HOME` (vgexpand.c:269; it is taken to be normal);
expansion by the sandbox shell (the lines of an instance need none),
splitting of masks and `fnmatch` (a table), failures of `lstat`, changes of the
file system within one run of vgexpand; widths, scrolling, colours, the mask in
the header, the command line's label.

## Launch: how a shell comes to a vgd

Each launcher (`viewglob.in`) is a program of few places `at`: it scans the
socket files with vgping, removes those that do not answer, counts, looks for a
free port, starts vgd, becomes vgseer. vgping and vgseer are scripts of what
they put and get (`vgping`, `connect_to_vgd`), vgd's `new_client` a `stage` for
each parameter. Sockets have a backlog; a file may be bound before anybody
listens (`BindFile`, `Daemonize`). vgd ends by `die`, or by SIGPIPE when it
writes to a peer that has gone; then its display still holds its sockets until
it sees EOF ("orphaned"). `foreign` are the ports other programs have, and
`home` says whether a socket file can be made: vgd fails to start with its socket
status when it cannot have its port or its file (`StartVgd`).

| Run | Instance | Shows |
|---|---|---|
| `launch` | two launchers in any mode and a vgd started by hand, two ports, another program on one, stale files, one launcher that may be killed, one that may be stopped, versions that differ; fair | both ends of every connection agree, at every step; a file of a vgd that is up is removed only by a launcher that never reached it; every launcher comes to a session or gives up, or is in one of three places named for good |

Bounds. Two launchers race for everything one can hold (a port, a file, vgd's
attention); with the vgd started by hand there may be two to choose from. A
third launcher was tried without stale files and without liveness: nothing
changed.

Fairness. Programs that are not stopped run: weak fairness for each launcher's
steps and each vgd's. `LaunchEnds` names, launcher by launcher, where one may be
for good: it is itself stopped; it is at `Spins`, trying again a port that
another program has, or for which no socket file can be made; or it is behind a
peer that is stopped while vgd shakes hands with it (`WaitsBehind`, the TODO at
vgd.c:777), for vgd waits without a limit. A launcher is excused only if it is
there from some time on, and without any one of the three the property is
violated. `Spins` is not what the comment says: "Socket error -- try another
port" (viewglob.in:267) is followed by a `continue` with the same port, since
only an answered vgping raises it.

Left out: a launcher killed while its vgd starts, and a failing fork in
`new_vgseer_client`, after which vgd dies.

Seen while modelling, as in the code: between `bind` and `listen` a second
launcher's vgping is refused and it removes the new vgd's file
(`SweepsOnlyUnreached` says exactly when this can happen); that vgd serves those
connected to it, and is not found by others. A vgd may end with a first client
before its own launcher's vgseer connects, which then gives up.

## What is proved

By TLAPS, for every value of the constants: every number of clients, windows,
texts, runs, orders, launchers and ports, every size of pipe and length of read,
every file system, line and mask. The assumptions are those the modules declare
(`VgdAssumption`, `VgseerAssumption`, `KeysAssumption`, `LaunchAssumption`,
`ShellScanAssumption`, `ListingsAssumption`, `NamesAssumption`, `HomeAssumption`);
one theorem, `NameAlwaysAWord`, has two more of its own. The inductive
invariants were checked with TLC on the instances above before they were
proved.

`VgdProofs`. The inductive invariant `IInv` is types, `CurrentIsClient`,
`DisplayHasClient`, `OrderlyExit`, and two parts no run needs: `OnePlace` (a
connection is in one backlog, in `new_client`, or in the list; otherwise one
that is in the list could be put in again and `drop_client` would leave a
dangling `current`) and `LoopInv` (the handshake has a connection, `die` a
status, a ready socket a connection waiting). From it follow `TypeCorrect`,
`CurrentIsNeverDangling`, `DisplayAlwaysHasClient`, `ExitIsOrderly`.
`CopyIsNeverStale` and `EverySwitchTellsAll` are proved together on top of it,
with one lemma for each helper that writes to the display (`context_switch`,
`update_display`, `child_fork`, `drop_client`). `OnlyReadableServed` needs
`ReadyInv`: what `select` reported stays readable until it is served, and a
client dropped in the round is not in the list again before the next one,
because the listening sockets are served first.

`VgseerProofs`. `IInv` adds to the properties:
`RunLeft` (there is a number for each command line queued, which the type needs),
`LineInv` (the status goes with the process level, a line known to be lost is not
also queued, a changed line is queued, being written or over, and at `select`
nothing is left to do),
`SentSoFar` (what was sent is what is remembered, while there is somebody to send
to), `OutputPaired` (a start marker is followed by its end, in the pipe or as the
sandbox's next), `HalfRead` (while the end is searched for, exactly the start
was read), and `InOrder` (commands waiting, the one running, output unread, and
the expansion sent, from newest to oldest). `Found` is the main lemma: whatever
number of markers a read returns, the search sends nothing or the whole output
of one run whose end was read. From these: `TypeCorrect`, `ExpansionsAreWhole`,
`ExpansionsComeInOrder`, `LineAlwaysKnown`, `DisabledIsSilent`, `StatusIsKnown`.

`KeysProofs`. `VgdHasTheMask` holds between two turns of the loop only; `IInv`
has `MaskQueued` for the middle of one (what vgd does not have is queued, and a
mask that is queued is the one being typed, or none) and `TurnInv` (a read is
scanned to its end, and the queue emptied, before anything else is waited for).
From it: `TypeCorrect`, `ModesAlwaysAgree`, `VgdAlwaysHasTheMask`, and, step by
step, `ModeAlwaysTakesItsKeys`, for reads of any length.

`NameAlwaysAWord` relates `passed`, which is all that one read of vgd gives the
shell, to the name it began as, through every step of the scan. `NameInv` says
of it: what has passed and what is still to come are together the escaped name;
or a mask has it all; or it is a key from vgd and no name. The first is left
only with nothing passed, when the name ends a navigation or begins a
mask. That the text between the spaces stands between two words or ends of the
line is a fact about `escape_filename`'s four cases and any line and cursor. Its
hypotheses are that names are of printable characters (a control character in
one is a key to the scanner: ESC would end a mask and the rest of the name
pass without its space, which the code does not prevent), and that no read is
the letter the model marks names with.

`ShellScanProofs`. `VgdAlwaysHasTheLine` supposes nothing of what the shell
prints or of where reads end: bytes may be a broken character, and the cursor
may have gone past the end of the text. Its invariant is that the line is a
text and a cursor (`ALine`) and that at the prompt `sent` and the characters of
the text are the same up to carriage returns at the end of either (`SameText`),
which is what `cmd_del_trailing_CRs` takes away without sending the line again.
The proof goes through every sequence and the function of `cmdline.c` it calls
(`MovementsKeep`, `EditsKeep`, `PromptsKeep`): it fails, or leaves the text as it
was, or the line is sent.

`AlwaysWrittenOnce`: no byte of what the shell prints is written to the terminal
twice and none is left out. Bytes are written out of turn when a read ends in
the middle of a possible sequence at the prompt; `early` counts them, `skip` is
what `connection_write` will leave out for them, and `WrittenOnce` says the two
agree. The inductive invariant `OnceInv` says where the scan is (`Position`), that
the two agree (`Written`), that the segment is the beginning of each sequence still
looked for (`Compared`), and that bytes written early lie within the segment, or
that no sequence can end among them (`Early`): after a mismatch the scan goes
back over bytes that have been written. The exception is a directory's marker,
which is eaten and not written. The theorem supposes `MarkerWhole`, that no
marker is found at a prompt when a part of it has been written; this holds in
every state of `shell_scan`, and `scan_cut` is what becomes of `WrittenOnce` when
it does not hold.

`PwdNeverPassed`: no part of a directory's marker reaches the terminal. Its
invariant `Marks` follows a marker through the scan: the place reached
lies inside the stream's first token (`InFirst`); every sequence still looked
for has been compared with the whole segment, in which no marker begins after
its first byte (`Tracked`); at a marker the scan stands at its start, the
segment is its first bytes, and from the second on `pwd` is the only sequence
left (`Eaten`). No token other than a marker holds the beginning of one
(`Innocent`). It
supposes `MarkerAtRest`: the shell prints a marker only while it has no prompt,
and none is on its way while a command line may end. That is what the
initialization files make a shell do, and it holds in every state of
`shell_scan`; `MarkerWhole` follows from it.

`LaunchProofs`. `Agreed` says of each end what its next word may be. Its
inductive invariant has to say what all the words on their way are: `TalkInv`
relates, for every connection, the step of the one program and the stage of the
other to the two sequences between them (`Has`: the queue is what was said and
not yet heard). `PlaceInv` keeps a connection in one place of one vgd, `PortInv`
a port with one vgd and a socket file with its present or an earlier one,
`RunsInv` a launcher with one program. `AlwaysAgreed` follows for any number of
launchers, and `SweepsOnlyTheUnreached` from what `TalkInv` says of a launcher
about to remove a file: the vgd it spoke to, if any, is gone.

`DisplayProofs`. `MiniProcess` and `ExhibitProcess`: from whatever a display
showed before, taking a listing in makes it show exactly that listing
(`MiniShows`, `ExhibitShows`: each directory once and at its rank, with its
counts and exactly its files; nothing marked for removal; one active directory).
The proof follows the passes of `process_glob_data`: unmark, read in each
directory and its files, cull, rearrange, flush, choose what is active. The only
hypothesis is `GoodListing` (a directory is listed once, and each file of it).

`ListingsProofs`. `OneCommandGiven` is about `Sanitize`, for every line of any
characters. `Agree` is the invariant of the loop: the quotes on `sanitize`'s list
are those the shell reads itself to be in, and the three flags say which last
character is still to be decided; it is proved of every turn, then of what is
closed at the end.

`EveryListingSound` is the same kind of proof about vgexpand's
passes (`compile_data`, `correlate`, `mask_traverse`): `Sound` says what is true
of the directories after any number of words (no inode twice, the working
directory first, counts that add up, files marked exactly by the words about
them), whatever links and names lead to them. That the name of a
directory leads to its inode (`Proper`) makes two directories with one name one,
even after `home_to_tilde`, which is where absolute paths are assumed. So every
listing is a `GoodListing`, `Displays` is an invariant, and from it come
`AlwaysShowsTheListing`, `AlwaysRepeatable`, `RestrictedIsClicked`;
`AlwaysOneCommand` is `OneCommandGiven`.

`OrderAlwaysKept` is about where things are put. Files: a list is read in from
first to last, and each is put at its rank; `Along` says, after any number of
them, that the list begins with exactly the files read so far and goes on with
those still to come, in their order, which is all that is needed when none has
gone or changed its type (`Grows`). Directories are moved to the front or put
behind the one before them; `InTurn` says where they are after each, and
`UpToThree` that with at most three there is none left to be in a wrong place.
Both displays pack their boxes alike from the beginning (`Alike`), so what is
true of one is true of the other.

`DataLemmas`. The library's induction theorems take an operator, which no prover
here instantiates; these state induction about sets instead (`Least`: a set of
naturals has a smallest, from the library's well-foundedness of < on them; then
`Induction`, `BoundedInduction`, and `Recursion`: a function defined from its
value before exists and has its type; `StageByStage` when the type changes on
the way). That is enough for all that is defined by recursion on a line, a path
or a list here. The others are about lists: taking, inserting, removing,
picking, sorting ranks.

Only model-checked:

- Every liveness property (`EndsWithLastClient`, `FollowsActiveWindow`,
  `DisplayLossNoticed`, `NothingForgotten`, `UserServed`, `ExitNoticed`,
  `VgdLossNoticed`, `LaunchEnds`): fairness and ENABLED are out of the prover's
  reach.
- `TypeOK` and `ImplementsLine` of `ShellScan`, which are not true of every value
  of the constants (cursor up in three rows, see there). `ImplementsLine` rests
  on which token the segment, and what is held over of it, is a part of, for
  each sequence of the table.

The violated properties are statements of the documentation that the code does
not keep.

## Where the code and its documentation differ

Each of these is a run that reaches the situation; `PROJECT.json` ("findings")
quotes both sides.

- A display started for a client that is not current, or restarted after
  malformed data, stays blank until something changes (`vgd_fresh_display`).
- A disabled vgseer goes on handing command lines to a sandbox whose output it
  no longer reads, and in the end waits for it for good (`vgseer_frozen`).
- A directory marker cut by a read at a prompt makes vgseer write a part of the
  marker and leave out what follows it (`scan_cut`).

Others are in the models, but no run is spent on them. A launcher whose vgd
cannot have its port does not try another (viewglob.in:267, `Spins`). Closing the display may
end vgd, since SIGPIPE is not ignored there (vgd.c:512). `die(GENERAL_FAILURE)`
can exit with status 0, through `drop_client` of the last client (vgd.c:742). Of
two results that come after one another only the first is used, so that vgd may
keep an older command line's listing (vgseer.c:774). A mask's first key may not
be shown when a command line is queued in the same read (actions.c:61-63). And
the limits named in the sections above.

## Not modelled

Option and configuration parsing, forking the shells (once, before the loops),
pseudo terminals and raw mode (system calls without state of their own), GTK
drawing and geometry (`wrap_box.c`, `lscolors.c`, `jump-resize.c`), raising and
moving windows, logging. `P_FILE` and `P_KEY` between display and vgd are only
passed on; `Keys` has their arrival. The composition of `Vgd` with several
`Vgseer`s is left to `Follow`: each has the other as an
environment that may do more.

## Running

    tlc -config MCVgdSwitch.cfg MCVgd
    tlc -config MCVgseerExpand.cfg MCVgseer
    tlc -config MCShellScan.cfg MCShellScan
    tlc -config MCKeys.cfg MCKeys
    tlc -config MCListings.cfg MCListings
    tlc -config MCLaunch.cfg MCLaunch
    tlapm VgdProofs.tla           and likewise VgseerProofs, KeysProofs,
                                  ShellScanProofs, LaunchProofs, DataLemmas,
                                  DisplayProofs, ListingsProofs

The `MC` modules define the instances; each `.cfg` is one run of `PROJECT.json`.
Every run ends within two minutes or so with two workers, and every proof module
within some minutes, the longest some nine. Deadlock is not
checked where the system may stop: a vgseer that waits for good for the sandbox
or an end that reads no more, a shell that prints no more, a user who
types no more, a line of full length, launchers that are all over.
