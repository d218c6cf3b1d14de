------------------------------- MODULE Vgseer -------------------------------
(***************************************************************************)
(* The client (src/vgseer/vgseer.c, actions.c): one thread between the     *)
(* user's terminal and shell.  What it scans there becomes queued actions; *)
(* the main one hands the command line to vgexpand in a second, sandbox    *)
(* shell, whose output is sent to vgd when it comes.                       *)
(*                                                                         *)
(* A command line is abstracted to the number of the vgexpand run it was   *)
(* given to, a run's output to its start and its end marker, the sandbox's *)
(* pipes to how many commands and markers they hold.  Between a read that  *)
(* may block and the next, or a write and what follows it, the sandbox,    *)
(* vgd, the shell and the user move.                                       *)
(***************************************************************************)
EXTENDS Naturals, Sequences, SequencesExt, FiniteSetsExt

CONSTANTS
    Zsh,          \* the shell is zsh, which has right prompts
    Keys,         \* what the user may ask of vgseer in this instance
    Happens,      \* what may happen around vgseer in this instance
    CmdPipe,      \* bound: commands the pipe to the sandbox holds
    OutPipe,      \* bound: markers the pipe from the sandbox holds
    MaxRuns,      \* bound: command lines handed to vgexpand
    MaxOrders     \* bound: orders queued at once

Orders == {"toggle", "refocus", "up", "down", "pgup", "pgdown"}

\* cd failing in the sandbox means that vgexpand is not run.
Events == {"vgd sends", "vgd exits", "vgd stalls", "shell exits", "shell stalls",
           "terminal closes", "terminal stalls", "sandbox exits", "cd fails",
           "I/O fails"}

ASSUME VgseerAssumption ==
    /\ Zsh \in BOOLEAN
    /\ Happens \subseteq Events
    /\ Keys \subseteq Orders \cup {"mask", "commit", "disable"}
    /\ {CmdPipe, OutPipe, MaxRuns} \subseteq Nat \ {0}
    /\ MaxOrders \in Nat

VARIABLES
    pc,        \* where the main loop is
    ready,     \* rset: descriptors select reported and not yet handled
    exit,      \* how vgseer ended
    flags,     \* action_queue's booleans that are set
    al,        \* its list of orders
    enabled,   \* vgseer_enabled
    pl,        \* shell_conn->pl
    ss,        \* shell_conn->ss
    ssPrev,    \* send_status's ss_prev
    pwdKnown,  \* u->cmd.pwd # NULL
    unsent,    \* history: the command line has changed since it was sent
    runs,      \* commands written to the sandbox so far
    called,    \* vgd->vgexpand_called
    frame,     \* the markers between which vgd->expanded has the output
    told,      \* what vgd was last sent of each parameter
    \* the environment
    inPipe,    \* commands the sandbox has not read
    running,   \* the run it is at, or 0
    started,   \* that run has printed its start marker
    quoting,   \* the sandbox is inside a quotation
    out,       \* its output, not yet read
    sandbox,   \* the sandbox shell is alive
    vgd,       \* vgd is alive
    inbox,     \* messages from vgd not yet read
    shell,     \* the user's shell: "up", "dead" with its terminal still open
               \* in another program, or "closed"
    terminal,  \* the user's terminal is open
    stalled    \* those of "vgd", "shell", "term" that take no more: what is on
               \* the way to them is all that fits, and they read no more

queueVars == <<flags, al>>
scanVars == <<pl, ss, pwdKnown, unsent>>
sentVars == <<runs, called, frame, told, ssPrev>>
loopVars == <<pc, ready, exit>>
sandboxVars == <<inPipe, running, started, quoting, out, sandbox>>
worldVars == <<vgd, inbox, shell, terminal, stalled>>
vars == <<queueVars, scanVars, sentVars, loopVars, enabled, sandboxVars, worldVars>>

Runs == 1..MaxRuns

\* A command cut off after the quote that should enclose the directory.
Cut == 0

Markers == [run : Runs, part : {"start", "end"}]

Output(k) == [run : {k}, part : {"start", "end"}]

Init ==
    /\ pc = "select" /\ ready = {} /\ exit = "running"
    /\ flags = {} /\ al = <<>>
    /\ enabled = TRUE
    /\ pl = "executing" /\ ss = "executing" /\ ssPrev = "none"
    /\ pwdKnown = FALSE /\ unsent = FALSE
    /\ runs = 0 /\ called = FALSE /\ frame = {}
    /\ told = [cmd |-> 0, expanded |-> {}, status |-> "none"]
    /\ inPipe = <<>> /\ running = 0 /\ started = FALSE /\ quoting = FALSE
    /\ out = <<>> /\ sandbox = TRUE
    /\ vgd = TRUE /\ inbox = 0 /\ shell = "up" /\ terminal = TRUE
    /\ stalled = {}

-----------------------------------------------------------------------------
(* The action queue.                                                       *)

\* Mutant: a line to be sent does not take back that it was lost.
StaysLost ==
    [cmd |-> {"mask"}, pwd |-> {"cmd"}, lost |-> {"cmd"}, mask |-> {},
     disable |-> {}, exit |-> {}]

\* The queued actions a new one invalidates.
Invalidates ==
    [cmd |-> {"lost", "mask"}, pwd |-> {"cmd"}, lost |-> {"cmd"}, mask |-> {},
     disable |-> {}, exit |-> {}]

Queued(a) == (flags \ Invalidates[a]) \cup {a}

\* Which action is dequeued: the first of these, then the list.
Priority == <<"exit", "disable", "lost", "pwd", "cmd", "mask">>

Dequeues(a) ==
    /\ pc = "act"
    /\ a \in flags
    /\ \A i, j \in DOMAIN Priority :
          (Priority[i] \in flags /\ Priority[j] = a) => j <= i

-----------------------------------------------------------------------------
(* Sending to vgd.                                                         *)

clean_fail == pc' = "exited" /\ exit' = "failure"

\* Mutant: the descriptor is written to whether it is open or not.
PutAnyway(on, t, next) ==
    IF vgd THEN told' = t /\ pc' = next /\ exit' = exit
           ELSE told' = told /\ (clean_fail \/ (pc' = next /\ exit' = exit))

\* While vgseer is on, what was sent becomes t, once vgd reads.  If vgd has gone
\* the write fails, which is fatal, or is lost in the network.
put_param_wrapped(on, t, next) ==
    /\ ~(on /\ vgd /\ "vgd" \in stalled)
    /\ IF on /\ vgd
       THEN told' = t /\ pc' = next /\ exit' = exit
       ELSE /\ told' = told
            /\ \/ pc' = next /\ exit' = exit
               \/ on /\ clean_fail

disable_vgseer == enabled' = FALSE

-----------------------------------------------------------------------------
(* io_activity: waiting for input, then the handlers of what is ready, in  *)
(* order.                                                                  *)

\* What select is bound to report.
Pending ==
    {fd \in {"shell", "term", "vgd", "sandbox"} :
        CASE fd = "shell" -> shell = "closed"
          [] fd = "term" -> ~terminal
          [] fd = "vgd" -> enabled /\ (inbox > 0 \/ ~vgd)
          [] OTHER -> enabled /\ (out # <<>> \/ ~sandbox)}

\* Besides, the shell may have written and the user typed.
Select ==
    /\ pc = "select"
    /\ pc' = "handle"
    /\ \E talk \in SUBSET {"shell", "term"} : ready' = Pending \cup talk
    /\ ready' # {}
    /\ UNCHANGED <<queueVars, scanVars, sentVars, exit, enabled, sandboxVars,
                   worldVars>>

Turn(fd) ==
    /\ pc = "handle"
    /\ fd \in ready
    /\ fd # "shell" => "shell" \notin ready
    /\ fd \in {"vgd", "sandbox"} => "term" \notin ready
    /\ fd = "sandbox" => "vgd" \notin ready

Handles(fd) == Turn(fd) /\ ready' = ready \ {fd}

\* select fails, or reading from the shell, the terminal or the sandbox, or
\* writing to the terminal or the shell what was read.
IOFails ==
    /\ "I/O fails" \in Happens
    /\ \/ pc \in {"select", "scan_shell", "scan_term", "find_start", "find_end"}
       \/ \E fd \in {"shell", "term", "sandbox"} : Turn(fd)
    /\ clean_fail
    /\ UNCHANGED <<queueVars, scanVars, sentVars, ready, enabled, sandboxVars,
                   worldVars>>

\* End of file, or EIO, ends vgseer.
ProcessShell ==
    /\ Handles("shell")
    /\ IF shell = "closed"
       THEN flags' = Queued("exit") /\ pc' = pc
       ELSE flags' = flags /\ pc' = "scan_shell"
    /\ UNCHANGED <<al, scanVars, sentVars, exit, enabled, sandboxVars, worldVars>>

ProcessTerminal ==
    /\ Handles("term")
    /\ IF ~terminal
       THEN flags' = Queued("exit") /\ pc' = pc
       ELSE flags' = flags /\ pc' = "scan_term"
    /\ UNCHANGED <<al, scanVars, sentVars, exit, enabled, sandboxVars, worldVars>>

\* Mutant: EOF is taken for a parameter to ignore.
IgnoresEOF ==
    /\ Handles("vgd")
    /\ inbox' = IF inbox > 0 THEN inbox - 1 ELSE inbox
    /\ \/ inbox > 0 /\ pc' = "scan_term" /\ enabled' = enabled
       \/ pc' = pc /\ enabled' = enabled
       \/ inbox > 0 /\ pc' = pc /\ disable_vgseer
    /\ UNCHANGED <<queueVars, scanVars, sentVars, exit, sandboxVars, vgd, shell,
                   terminal, stalled>>

\* A key or a file name is scanned like what the user types; "dead", anything
\* that cannot be parsed, and EOF disable vgseer; another parameter is ignored.
ProcessVgd ==
    /\ Handles("vgd")
    /\ inbox' = IF inbox > 0 THEN inbox - 1 ELSE inbox
    /\ \/ inbox > 0 /\ pc' = "scan_term" /\ enabled' = enabled
       \/ inbox > 0 /\ pc' = pc /\ enabled' = enabled
       \/ pc' = pc /\ disable_vgseer
    /\ UNCHANGED <<queueVars, scanVars, sentVars, exit, sandboxVars, vgd, shell,
                   terminal, stalled>>

\* The shell's exit is noticed only after something else was ready.
ChildWait ==
    /\ pc = "handle" /\ ready = {}
    /\ flags' = IF shell = "up" THEN flags ELSE Queued("exit")
    /\ pc' = "act"
    /\ UNCHANGED <<al, scanVars, sentVars, ready, exit, enabled, sandboxVars,
                   worldVars>>

-----------------------------------------------------------------------------
(* scan_sequences: one step for each sequence matched, until the buffer    *)
(* ends and is written.  What is typed is scanned only while vgseer is     *)
(* enabled.                                                                *)

ScanStep(connection) ==
    /\ pc = connection
    /\ connection = "scan_term" => enabled
    /\ pc' = pc
    /\ UNCHANGED <<sentVars, ready, exit, enabled, sandboxVars, worldVars>>

\* The bound on command lines is a bound on how often one is queued.
QueueCmd ==
    /\ runs < MaxRuns
    /\ flags' = Queued("cmd")
    /\ UNCHANGED al

\* A character or an editing sequence changes the command line.
CmdEdited ==
    /\ ScanStep("scan_shell")
    /\ pl = "prompt"
    /\ QueueCmd
    /\ unsent' = TRUE
    /\ UNCHANGED <<pl, ss, pwdKnown>>

\* The end of a prompt.  The shells' initialization files have the directory
\* printed before it.
CmdStarted ==
    /\ ScanStep("scan_shell")
    /\ pwdKnown
    /\ pl' = "prompt" /\ ss' = "prompt"
    /\ QueueCmd
    /\ unsent' = TRUE
    /\ UNCHANGED pwdKnown

\* A newline out of the command line, or a prompt about to be drawn again.
CmdExecuted ==
    /\ ScanStep("scan_shell")
    /\ pl = "prompt"
    /\ pl' = "executing" /\ ss' = "executing"
    /\ UNCHANGED <<queueVars, pwdKnown, unsent>>

\* A sequence that does not fit the command line; deleting what is not there
\* queues an action besides.
OutOfSync ==
    /\ ScanStep("scan_shell")
    /\ pl = "prompt"
    /\ pl' = "executing" /\ ss' = "lost"
    /\ flags' \in {flags, Queued("lost")}
    /\ UNCHANGED <<al, pwdKnown, unsent>>

\* The directory of the next prompt, which the line is sent after; the line
\* up to now is not.
PwdChanged ==
    /\ ScanStep("scan_shell")
    /\ pl # "rprompt"
    /\ pwdKnown' = TRUE
    /\ flags' = Queued("pwd")
    /\ unsent' = FALSE
    /\ UNCHANGED <<al, pl, ss>>

RPromptStarted ==
    /\ ScanStep("scan_shell")
    /\ Zsh
    /\ pl = "prompt"
    /\ pl' = "rprompt"
    /\ UNCHANGED <<queueVars, ss, pwdKnown, unsent>>

\* Navigation, toggling and refocusing.
OrderTyped(o) ==
    /\ ScanStep("scan_term")
    /\ o \in Keys \cap Orders
    /\ Len(al) < MaxOrders
    /\ al' = Append(al, o)
    /\ UNCHANGED <<flags, scanVars>>

\* A character of a mask, or the mask cleared; disabling.
FlagTyped(a) ==
    /\ ScanStep("scan_term")
    /\ a \in Keys
    /\ flags' = Queued(a)
    /\ UNCHANGED <<al, scanVars>>

\* The mask is submitted: the command line is expanded again, whatever the
\* shell is doing.
MaskCommitted ==
    /\ ScanStep("scan_term")
    /\ "commit" \in Keys
    /\ QueueCmd
    /\ UNCHANGED scanVars

\* Where vgseer may have to wait until an end takes what it writes.
Writes(end) ==
    CASE end = "vgd" ->
            /\ enabled /\ vgd
            /\ \/ pc \in {"find_end", "write"}
               \/ Dequeues("pwd") \/ Dequeues("mask")
               \/ pc = "act" /\ flags = {} /\ (al # <<>> \/ ss # ssPrev)
      [] end = "term" -> pc = "scan_shell" /\ terminal
      [] end = "shell" -> pc = "scan_term" /\ shell # "closed"

\* connection_write: what was read goes to the other end, once it takes it.
ScanEnds ==
    /\ pc \in {"scan_shell", "scan_term"}
    /\ \A end \in stalled : ~Writes(end)
    /\ pc' = "handle"
    /\ UNCHANGED <<queueVars, scanVars, sentVars, ready, exit, enabled,
                   sandboxVars, worldVars>>

Scan ==
    \/ CmdEdited \/ CmdStarted \/ CmdExecuted \/ OutOfSync \/ PwdChanged
    \/ RPromptStarted
    \/ \E o \in Orders : OrderTyped(o)
    \/ \E a \in {"mask", "disable"} : FlagTyped(a)
    \/ MaskCommitted

-----------------------------------------------------------------------------
(* process_sandbox: the output from the first start marker to the first    *)
(* end marker after it, reading on until both have come.  A read returns a *)
(* part of what is in the pipe.                                            *)

Positions(buf, part) == {i \in DOMAIN buf : buf[i].part = part}

\* The whole output of vgexpand is sent; too long a value is refused.
SendExpansion(output) ==
    /\ frame' = output
    /\ \/ /\ put_param_wrapped(enabled, [told EXCEPT !.expanded = output], "handle")
          /\ called' = FALSE
       \/ enabled /\ clean_fail /\ UNCHANGED <<told, called>>

\* buf goes on the output collected so far; the rest of it is thrown away
\* once its end has come.
FindEnd(collected, buf) ==
    LET ends == Positions(buf, "end")
    IN  IF ends = {}
        THEN /\ frame' = collected \cup ToSet(buf)
             /\ pc' = "find_end"
             /\ UNCHANGED <<exit, told, called>>
        ELSE SendExpansion(collected \cup ToSet(SubSeq(buf, 1, Min(ends))))

\* Mutant: the text up to the end marker is taken, whatever it starts with.
AnyStart(buf) == FindEnd({}, buf)

\* What comes before the start marker is the end of an older run's output.
FindStart(buf) ==
    LET starts == Positions(buf, "start")
    IN  IF starts = {}
        THEN /\ frame' = {}
             /\ pc' = "find_start"
             /\ UNCHANGED <<exit, told, called>>
        ELSE FindEnd({}, SubSeq(buf, Min(starts), Len(buf)))

\* Mutant: EOF in the middle of the output is not noticed.
ReadsOnAtEOF ==
    /\ ~sandbox /\ out = <<>>
    /\ UNCHANGED <<flags, pc, exit, out, told, called>>

SandboxEOF ==
    /\ ~sandbox /\ out = <<>>
    /\ flags' = Queued("exit")
    /\ pc' = "handle"
    /\ UNCHANGED <<exit, out, told, called>>

\* Output nobody asked for is thrown away.
ProcessSandbox ==
    /\ Handles("sandbox")
    /\ \/ SandboxEOF /\ frame' = frame
       \/ \E n \in 1..Len(out) :
             /\ out' = SubSeq(out, n + 1, Len(out))
             /\ flags' = flags
             /\ IF called
                THEN FindStart(SubSeq(out, 1, n))
                ELSE UNCHANGED <<pc, exit, frame, told, called>>
    /\ UNCHANGED <<al, scanVars, runs, ssPrev, enabled, inPipe, running,
                   started, quoting, sandbox, worldVars>>

\* The next read of a search: vgseer waits here for the sandbox.
ReadOn ==
    /\ pc \in {"find_start", "find_end"}
    /\ \/ SandboxEOF /\ frame' = frame
       \/ \E n \in 1..Len(out) :
             /\ out' = SubSeq(out, n + 1, Len(out))
             /\ flags' = flags
             /\ IF pc = "find_start"
                THEN FindStart(SubSeq(out, 1, n))
                ELSE FindEnd(frame, SubSeq(out, 1, n))
    /\ UNCHANGED <<al, scanVars, ready, runs, ssPrev, enabled, inPipe, running,
                   started, quoting, sandbox, worldVars>>

-----------------------------------------------------------------------------
(* action_loop: one step for each action dequeued.                         *)

\* Mutant: the main loop goes on.
StaysInLoop ==
    /\ Dequeues("exit")
    /\ flags' = flags \ {"exit"} /\ pc' = "select"
    /\ UNCHANGED <<al, scanVars, sentVars, ready, exit, enabled, sandboxVars,
                   worldVars>>

ActExit ==
    /\ Dequeues("exit")
    /\ pc' = "exited" /\ exit' = "success"
    /\ UNCHANGED <<queueVars, scanVars, sentVars, ready, enabled, sandboxVars,
                   worldVars>>

ActDisable ==
    /\ Dequeues("disable")
    /\ flags' = flags \ {"disable"}
    /\ disable_vgseer
    /\ UNCHANGED <<al, scanVars, sentVars, loopVars, sandboxVars, worldVars>>

ActLost ==
    /\ Dequeues("lost")
    /\ flags' = flags \ {"lost"}
    /\ ss' = "lost"
    /\ UNCHANGED <<al, pl, pwdKnown, unsent, sentVars, loopVars, enabled, sandboxVars,
                   worldVars>>

\* The directory, the developing mask and the orders are passed on to vgd.
ActPassOn ==
    /\ pc = "act"
    /\ \/ \E a \in {"pwd", "mask"} :
             Dequeues(a) /\ flags' = flags \ {a} /\ al' = al
       \/ flags = {} /\ al # <<>> /\ al' = Tail(al) /\ flags' = flags
    /\ put_param_wrapped(enabled, told, "act")
    /\ UNCHANGED <<scanVars, runs, called, frame, ssPrev, ready, enabled,
                   sandboxVars, worldVars>>

\* call_vgexpand begins to write to the sandbox, and waits while its pipe is
\* full.
ActCmd ==
    /\ Dequeues("cmd")
    /\ flags' = flags \ {"cmd"}
    /\ pc' = "write"
    /\ UNCHANGED <<al, scanVars, sentVars, ready, exit, enabled, sandboxVars,
                   worldVars>>

\* Mutant: the write does not wait for room.
WritesAnyway ==
    /\ pc = "write"
    /\ runs' = runs + 1
    /\ called' = TRUE /\ unsent' = FALSE
    /\ inPipe' = Append(inPipe, IF pwdKnown THEN runs' ELSE Cut)
    /\ put_param_wrapped(enabled, [told EXCEPT !.cmd = runs'], "act")
    /\ enabled' = enabled
    /\ UNCHANGED <<queueVars, pl, ss, pwdKnown, frame, ssPrev, ready, running, started,
                   quoting, out, sandbox, worldVars>>

\* Mutant: vgd is not sent the command line while a result is awaited.
SendsCmdOnce ==
    /\ pc = "write"
    /\ runs' = runs + 1
    /\ called' = TRUE /\ unsent' = FALSE
    /\ sandbox /\ Len(inPipe) < CmdPipe
    /\ inPipe' = Append(inPipe, IF pwdKnown THEN runs' ELSE Cut)
    /\ put_param_wrapped(enabled, IF called THEN told ELSE [told EXCEPT !.cmd = runs'], "act")
    /\ enabled' = enabled
    /\ UNCHANGED <<queueVars, pl, ss, pwdKnown, frame, ssPrev, ready, running, started,
                   quoting, out, sandbox, worldVars>>

\* The command is written, or, if the sandbox has gone, vgseer is disabled;
\* then vgd is sent the command line and the mask.  Before the first prompt
\* the directory is NULL, which ends the command too soon.
call_vgexpand ==
    /\ pc = "write"
    /\ runs' = runs + 1
    /\ called' = TRUE /\ unsent' = FALSE
    /\ \/ /\ sandbox /\ Len(inPipe) < CmdPipe
          /\ inPipe' = Append(inPipe, IF pwdKnown THEN runs' ELSE Cut)
          /\ enabled' = enabled
       \/ /\ ~sandbox
          /\ disable_vgseer
          /\ inPipe' = inPipe
    /\ put_param_wrapped(enabled', [told EXCEPT !.cmd = runs'], "act")
    /\ UNCHANGED <<queueVars, pl, ss, pwdKnown, frame, ssPrev, ready, running, started,
                   quoting, out, sandbox, worldVars>>

\* Mutant: the status is remembered, and not sent, while actions are queued.
StatusForgotten ==
    /\ pc = "act"
    /\ flags = {} /\ al = <<>>
    /\ ssPrev' = ss
    /\ IF ss # ssPrev /\ ssPrev # "executing"
       THEN put_param_wrapped(enabled, [told EXCEPT !.status = ss], "select")
       ELSE pc' = "select" /\ UNCHANGED <<told, exit>>
    /\ UNCHANGED <<queueVars, scanVars, runs, called, frame, ready, enabled,
                   sandboxVars, worldVars>>

\* The queue is empty; a status that is new is sent.
SendStatus ==
    /\ pc = "act"
    /\ flags = {} /\ al = <<>>
    /\ ssPrev' = ss
    /\ IF ss # ssPrev
       THEN put_param_wrapped(enabled, [told EXCEPT !.status = ss], "select")
       ELSE pc' = "select" /\ UNCHANGED <<told, exit>>
    /\ UNCHANGED <<queueVars, scanVars, runs, called, frame, ready, enabled,
                   sandboxVars, worldVars>>

-----------------------------------------------------------------------------
(* The sandbox shell and vgexpand.                                         *)

SandboxStep ==
    /\ sandbox
    /\ UNCHANGED <<queueVars, scanVars, sentVars, loopVars, enabled, sandbox,
                   worldVars>>

\* A cut command opens a quotation, which swallows the commands after it up
\* to one with a quote in it.
TakeCommand ==
    /\ SandboxStep
    /\ running = 0 /\ inPipe # <<>>
    /\ inPipe' = Tail(inPipe)
    /\ IF quoting \/ Head(inPipe) = Cut
       THEN running' = 0 /\ quoting' \in {TRUE, Head(inPipe) = Cut}
       ELSE running' = Head(inPipe) /\ quoting' = FALSE
    /\ UNCHANGED <<started, out>>

\* vgexpand prints its markers, waiting while the pipe is full.
PrintMarker ==
    /\ SandboxStep
    /\ running # 0
    /\ Len(out) < OutPipe
    /\ out' = Append(out, [run |-> running,
                           part |-> IF started THEN "end" ELSE "start"])
    /\ started' = ~started
    /\ running' = IF started THEN 0 ELSE running
    /\ UNCHANGED <<inPipe, quoting>>

CdFails ==
    /\ SandboxStep
    /\ "cd fails" \in Happens
    /\ running # 0 /\ ~started
    /\ running' = 0
    /\ UNCHANGED <<inPipe, started, quoting, out>>

(* vgd, the user and the user's shell.                                     *)

Happening(event) ==
    /\ event \in Happens
    /\ pc # "exited"
    /\ UNCHANGED <<queueVars, scanVars, sentVars, loopVars, enabled>>

VgdSends ==
    /\ Happening("vgd sends")
    /\ vgd /\ inbox = 0
    /\ inbox' = 1
    /\ UNCHANGED <<vgd, shell, terminal, stalled, sandboxVars>>

\* What it sent before can still be read.
VgdExits ==
    /\ Happening("vgd exits")
    /\ vgd
    /\ vgd' = FALSE
    /\ UNCHANGED <<inbox, shell, terminal, stalled, sandboxVars>>

\* Another program may keep the shell's terminal open for some time.
ShellExits ==
    /\ Happening("shell exits")
    /\ shell' \in {"dead", "closed"} \ {shell}
    /\ shell # "closed"
    /\ UNCHANGED <<vgd, inbox, terminal, stalled, sandboxVars>>

TerminalCloses ==
    /\ Happening("terminal closes")
    /\ terminal
    /\ terminal' = FALSE
    /\ UNCHANGED <<vgd, inbox, shell, stalled, sandboxVars>>

SandboxExits ==
    /\ Happening("sandbox exits")
    /\ sandbox
    /\ sandbox' = FALSE
    /\ running' = 0 /\ inPipe' = <<>>
    /\ UNCHANGED <<worldVars, started, quoting, out>>

\* vgd waits in new_client or for its display, the user has stopped the terminal
\* (Ctrl-S), or what the shell runs reads nothing; it shows when it is written
\* to.  One that stalls for a while is only slow.
Stalls(event, end) ==
    /\ Happening(event)
    /\ Writes(end)
    /\ end \notin stalled
    /\ stalled' = stalled \cup {end}
    /\ UNCHANGED <<vgd, inbox, shell, terminal, sandboxVars>>

Stall ==
    \/ Stalls("vgd stalls", "vgd") \/ Stalls("shell stalls", "shell")
    \/ Stalls("terminal stalls", "term")

World == Stall \/ VgdSends \/ VgdExits \/ ShellExits \/ TerminalCloses \/ SandboxExits

-----------------------------------------------------------------------------

LoopStep ==
    \/ ProcessShell \/ ProcessTerminal \/ ProcessVgd \/ ChildWait
    \/ ProcessSandbox \/ ReadOn
    \/ ActExit \/ ActDisable \/ ActLost \/ ActPassOn \/ ActCmd
    \/ call_vgexpand \/ SendStatus

Sandbox == TakeCommand \/ PrintMarker \/ CdFails

Exited == pc = "exited" /\ UNCHANGED vars

Next ==
    \/ Select \/ IOFails \/ LoopStep \/ Scan \/ ScanEnds
    \/ Sandbox \/ World \/ Exited

\* select returns when a descriptor is readable; a read or write that need not
\* wait returns, and so does one whose other end is slow but not stalled; a
\* buffer is finite; the sandbox runs.  Nothing has to fail.
Fairness ==
    /\ WF_vars(Select /\ Pending # {})
    /\ WF_vars(LoopStep /\ exit' # "failure")
    /\ WF_vars(ScanEnds)
    /\ WF_vars(TakeCommand \/ PrintMarker)

Spec == Init /\ [][Next]_vars

FairSpec == Spec /\ Fairness

-----------------------------------------------------------------------------
(* Properties.                                                             *)

LoopTypes ==
    /\ pc \in {"select", "handle", "scan_shell", "scan_term", "find_start",
               "find_end", "act", "write", "exited"}
    /\ ready \subseteq {"shell", "term", "vgd", "sandbox"}
    /\ exit \in {"running", "success", "failure"}

QueueTypes ==
    /\ flags \subseteq {"cmd", "pwd", "lost", "mask", "disable", "exit"}
    /\ al \in Seq(Orders) /\ Len(al) <= MaxOrders

ScanTypes ==
    /\ pl \in {"executing", "prompt", "rprompt"}
    /\ ss \in {"executing", "prompt", "lost"}
    /\ pwdKnown \in BOOLEAN /\ unsent \in BOOLEAN

SentTypes ==
    /\ runs \in 0..MaxRuns
    /\ called \in BOOLEAN
    /\ frame \subseteq Markers
    /\ told \in [cmd : 0..MaxRuns, expanded : SUBSET Markers,
                 status : {"none", "executing", "prompt", "lost"}]
    /\ ssPrev \in {"none", "executing", "prompt", "lost"}

SandboxTypes ==
    /\ inPipe \in Seq(0..MaxRuns) /\ Len(inPipe) <= CmdPipe
    /\ running \in 0..MaxRuns
    /\ started \in BOOLEAN /\ quoting \in BOOLEAN
    /\ out \in Seq(Markers) /\ Len(out) <= OutPipe
    /\ sandbox \in BOOLEAN

WorldTypes ==
    /\ vgd \in BOOLEAN /\ inbox \in 0..1
    /\ shell \in {"up", "dead", "closed"} /\ terminal \in BOOLEAN
    /\ stalled \subseteq {"vgd", "shell", "term"}

\* The types of the variables: the loop's place, the queue, what was scanned and
\* sent, and the pipes, which never hold more than fits.
TypeOK ==
    /\ LoopTypes /\ QueueTypes /\ ScanTypes /\ SentTypes
    /\ enabled \in BOOLEAN
    /\ SandboxTypes /\ WorldTypes

\* However the pipe cuts vgexpand's output up, and whatever was left in it
\* from before, an expansion sent to vgd is the whole output of one run.
WholeExpansions == told.expanded = {} \/ \E k \in Runs : told.expanded = Output(k)

\* Expansions reach vgd in the order of their command lines, and never before
\* the command line itself.
ExpansionsInOrder ==
    [][told'.expanded # told.expanded =>
         \A new \in told'.expanded :
            /\ new.run <= told.cmd
            /\ \A old \in told.expanded : old.run < new.run]_vars

\* Once disabled, by the user, by vgd or by the loss of the sandbox in the
\* middle of an action, vgseer stays so and never writes to the descriptor it
\* has closed.
SilentWhenDisabled == [][~enabled => ~enabled' /\ told' = told]_vars

\* Whenever vgseer goes back to waiting for input, vgd has been sent the
\* shell's status, in whatever order a round changed it and queued actions.
StatusKnown ==
    [][(pc' = "select" /\ pc # "select" /\ enabled' /\ vgd)
         => told'.status = ss']_vars

\* Whatever a round queued and in whichever order it was set, taken back and
\* dequeued (actions.c, analyze_effect): whenever vgseer waits, vgd holds the
\* shell to be at its prompt exactly when the scan does, so a line that was
\* lost is not taken for a good one nor the prompt after it for a lost line;
\* and at the prompt the last change of the line has been given to vgexpand and
\* sent, unless a directory that came after it took it back.
LineKnown ==
    (pc = "select" /\ enabled /\ vgd) =>
        /\ told.status = "prompt" <=> pl # "executing"
        /\ pl # "executing" => ~unsent /\ told.cmd = runs

\* The two ways in which vgseer and its sandbox wait for each other: both
\* pipes are full, or the rest of an older run's output was taken for the
\* start of the next, which never came.
BothFull ==
    /\ pc = "write" /\ sandbox
    /\ Len(inPipe) = CmdPipe
    /\ running # 0 /\ Len(out) = OutPipe

NothingComes ==
    /\ pc \in {"find_start", "find_end"} /\ sandbox
    /\ out = <<>> /\ inPipe = <<>> /\ running = 0

\* A write to an end that takes no more; no write has a time limit.
EndStalled == \E end \in stalled : Writes(end)

Waits == BothFull \/ NothingComes \/ EndStalled

\* vgseer always comes back to its user, or waits for good for the sandbox it
\* cannot write to, for an expansion that does not come, or for an end that takes
\* no more: no order of reads, markers, losses and actions adds another way
\* (io_activity, process_sandbox, call_vgexpand, put_param_wrapped).
UserServed == []<>(pc \in {"select", "exited"}) \/ <>[]Waits

\* Likewise the end of the user's shell ends vgseer, whatever is queued.
ExitNoticed == (shell = "closed" ~> pc = "exited") \/ <>[]Waits

\* And the end of vgd disables it.
VgdLossNoticed == (~vgd ~> (~enabled \/ pc = "exited")) \/ <>[]Waits

\* viewglob.1, NOTES: "The functionality of both shells is UNCHANGED by
\* running Viewglob."  vgseer never waits for a sandbox that waits for it.
NeverDeadlocked == ~BothFull

-----------------------------------------------------------------------------
(* What the proofs need besides: the inductive invariant.                  *)

Marker(k, p) == [run |-> k, part |-> p]

\* There is a number left for the command line that is queued or being sent.
RunLeft ==
    /\ "cmd" \in flags => runs < MaxRuns
    /\ pc = "write" => runs < MaxRuns /\ "cmd" \notin flags

\* While there is somebody to send to, what was sent is what is remembered as
\* sent.
SentSoFar ==
    (enabled /\ vgd /\ pc # "exited") => told.status = ssPrev /\ told.cmd = runs

\* The status is the prompt's exactly at a prompt, unless the last was lost; a
\* line that has changed is queued, being written, or over.
LineInv ==
    /\ pl = "executing" <=> ss # "prompt"
    /\ "lost" \in flags => pl = "executing" /\ "cmd" \notin flags
    /\ unsent => pl = "executing" \/ "cmd" \in flags \/ pc = "write"
    /\ pc = "select" =>
          /\ flags = {}
          /\ ssPrev = ss \/ (ssPrev = "none" /\ ss = "executing")

\* A start marker is followed by its end marker, which the sandbox prints next
\* if it has not come.
OutputPaired ==
    /\ \A i \in 1..(Len(out) - 1) :
          out[i].part = "start" => out[i + 1] = Marker(out[i].run, "end")
    /\ (sandbox /\ out # <<>> /\ out[Len(out)].part = "start")
          => started /\ running = out[Len(out)].run

\* An output of which only the start was read.
HalfRead ==
    pc = "find_end" =>
        \E k \in 1..runs :
           /\ frame = {Marker(k, "start")}
           /\ \A old \in told.expanded : old.run < k
           /\ out # <<>> => out[1] = Marker(k, "end")
           /\ (out = <<>> /\ sandbox) => started /\ running = k

\* From the newest to the oldest: the commands waiting, the one running, the
\* output not yet read, the expansion sent.
InOrder ==
    /\ \A j \in DOMAIN inPipe : inPipe[j] # Cut =>
          /\ inPipe[j] <= runs
          /\ \A i \in 1..(j - 1) : inPipe[i] < inPipe[j]
          /\ running < inPipe[j]
          /\ \A i \in DOMAIN out : out[i].run < inPipe[j]
          /\ \A old \in told.expanded : old.run < inPipe[j]
    /\ running # 0 =>
          /\ running <= runs
          /\ \A i \in DOMAIN out :
                out[i].run < running \/ out[i] = Marker(running, "start")
          /\ \A old \in told.expanded : old.run < running
    /\ \A j \in DOMAIN out :
          /\ out[j].run <= runs
          /\ \A i \in 1..(j - 1) :
                out[i].run < out[j].run \/ out[i] = Marker(out[j].run, "start")
          /\ \A old \in told.expanded : old.run < out[j].run
    /\ \A old \in told.expanded : old.run <= runs

\* The inductive invariant: without OutputPaired and HalfRead two outputs could
\* be sent as one, without InOrder an old one after a new one.
IInv ==
    /\ TypeOK /\ RunLeft /\ SentSoFar /\ LineInv
    /\ OutputPaired /\ HalfRead /\ InOrder /\ WholeExpansions

=============================================================================
