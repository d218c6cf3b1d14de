-------------------------------- MODULE Vgd --------------------------------
(***************************************************************************)
(* The communication daemon (src/vgd/vgd.c): one thread that polls the     *)
(* listening sockets, the display process and the vgseer clients, keeps a  *)
(* copy of what every shell last reported, and tells the display about the *)
(* current one.                                                            *)
(*                                                                         *)
(* A handler is one action.  Around it the other processes move: clients   *)
(* connect, write and die, the display writes and dies, the user changes   *)
(* the active window.  vgd does not ignore SIGPIPE, so a handler that      *)
(* writes to a process that is gone ends vgd.                              *)
(***************************************************************************)
EXTENDS Naturals, Sequences, SequencesExt

CONSTANTS
    Sockets,      \* the listening sockets, "port" and "unix"
    Clients,      \* vgseer processes; also the struct vgseer_client of each
    Windows,      \* X windows, NoWindow among them
    NoWindow,     \* the X id 0: no window was found
    Texts,        \* values of the text parameters, Empty among them
    Empty,        \* the empty string
    None,         \* a NULL pointer; a field the display was never told
    Messages,     \* what clients may send in this instance
    Persistent,   \* the --persistent option
    MaxPending    \* bound: messages unread in one connection

Statuses == {"lost", "prompt", "executing"}

\* Parameters a client can send.  "invalid" stands for a string that is no
\* shell status, "other" for the orders vgd only passes on, "malformed" for
\* bytes get_param cannot parse.
ClientMessages ==
    [param : {"status"}, value : Statuses \cup {"invalid"}]
      \cup [param : {"cmd", "mask", "developing-mask", "vgexpand-data"},
            value : Texts]
      \cup [param : {"order"}, value : {"refocus", "toggle", "other"}]
      \cup [param : {"pwd", "unexpected", "malformed"}, value : {Empty}]

ASSUME VgdAssumption ==
    /\ Sockets \subseteq {"port", "unix"}
    /\ NoWindow \in Windows
    /\ Empty \in Texts
    /\ None \notin Clients \cup Windows \cup Texts \cup Statuses
    /\ Messages \subseteq ClientMessages
    /\ Persistent \in BOOLEAN
    /\ MaxPending \in Nat \ {0}
    /\ {"port", "unix", "display"} \cap Clients = {}

VARIABLES
    clients,          \* s->clients, newest first
    current,          \* s->current
    currentIsActive,  \* s->current_is_active
    shell,            \* what each struct vgseer_client holds
    display,          \* "off", "up", or "dead": running for vgd, but gone
    view,             \* the last value of each parameter this display was sent
    pc,               \* where the poll loop is
    ready,            \* rset: descriptors select reported and not yet served
    shaking,          \* the connection in new_client, or None
    result,           \* the status die() was called with
    exit,             \* how vgd ended
    \* the environment
    backlog,          \* connections not yet accepted, per listening socket
    alive,            \* the process at the other end of a client connection
    pending,          \* messages unread in a client connection
    chatter,          \* messages from the display not yet read
    activeWindow      \* _NET_ACTIVE_WINDOW

daemonVars == <<clients, current, currentIsActive, shell, shaking>>
displayVars == <<display, view, chatter>>
loopVars == <<pc, ready, result, exit>>
worldVars == <<backlog, alive, pending, activeWindow>>
vars == <<daemonVars, displayVars, loopVars, worldVars>>

\* A client that has just been accepted, before its window is known.
NewShell == [win |-> NoWindow, status |-> "lost", cli |-> Empty,
             developing_mask |-> Empty, mask |-> Empty, expanded |-> Empty]

\* A display that has just been forked has been told nothing.
NoView == [win |-> None, status |-> None, cli |-> None,
           developing_mask |-> None, mask |-> None, expanded |-> None]

Shells == [win : Windows, status : Statuses, cli : Texts,
           developing_mask : Texts, mask : Texts, expanded : Texts]

Views == [win : Windows \cup {None}, status : Statuses \cup {None},
          cli : Texts \cup {None}, developing_mask : Texts \cup {None},
          mask : Texts \cup {None}, expanded : Texts \cup {None}]

Init ==
    /\ clients = <<>>
    /\ current = None
    /\ currentIsActive = FALSE
    /\ shell = [c \in Clients |-> NewShell]
    /\ display = "off"
    /\ view = NoView
    /\ pc = "poll"
    /\ ready = {}
    /\ shaking = None
    /\ result = "none"
    /\ exit = "running"
    /\ backlog = [s \in Sockets |-> <<>>]
    /\ alive = [c \in Clients |-> FALSE]
    /\ pending = [c \in Clients |-> 0]
    /\ chatter = 0
    /\ activeWindow \in Windows

-----------------------------------------------------------------------------
(* Helpers the handlers share.                                             *)

Connected == ToSet(clients)

Without(s, c) == RemoveAt(s, CHOOSE i \in DOMAIN s : s[i] = c)

\* EOF is readable too.
Readable(c) == pending[c] > 0 \/ ~alive[c]

DisplayRunning == display # "off"

DisplayReadable == display = "dead" \/ chatter > 0

Killed == pc' = "exited" /\ exit' = "sigpipe"

\* put_param on the pipe of a display in condition d, whose view is then v.
Tell(d, v, next) ==
    \/ d = "off" /\ view' = view /\ pc' = next /\ exit' = exit
    \/ d = "up" /\ view' = v /\ pc' = next /\ exit' = exit
    \/ d = "dead" /\ view' = view /\ Killed

update_display(c, v) ==
    IF current = c THEN Tell(display, v, "serve")
                   ELSE Tell("off", v, "serve")

\* The display is sent everything c holds.
context_switch(c, next) == Tell(display, shell[c], next)

die(status) ==
    /\ pc' = "die"
    /\ result' = status
    /\ UNCHANGED exit

\* Mutant: the process is killed, its pid and descriptors are kept.
HalfTerminate == display' = (IF DisplayRunning THEN "dead" ELSE "off") /\ view' = view

child_terminate == display' = "off" /\ view' = NoView

\* child_fork, and v sent to the new process if tells.  The process may have
\* exited before that; forking may fail.
child_fork(tells, v) ==
    /\ chatter' = 0
    /\ \/ /\ display' \in {"up", "dead"}
          /\ result' = result
          /\ IF tells /\ display' = "dead"
             THEN view' = NoView /\ Killed
             ELSE /\ view' = IF tells THEN v ELSE NoView
                  /\ pc' = "serve"
                  /\ exit' = exit
       \/ display' \in {"off", "up", "dead"} /\ view' = NoView /\ die("failure")

\* Mutant: s->current is left pointing at the freed struct.
CurrentDangles(c, rest) == IF rest = <<>> THEN None ELSE current

\* The current client once c has left the others in the list.
CurrentAfter(c, rest) ==
    IF current # c THEN current
                   ELSE IF rest = <<>> THEN None ELSE Head(rest)

\* Mutants: the option is not looked at.
AlwaysEnds(next) == pc' = "exited" /\ exit' = "success"
NeverEnds(next) == pc' = next /\ exit' = exit

\* The last client has left.
LastClientLeft(next) ==
    IF Persistent THEN pc' = next /\ exit' = exit
                  ELSE pc' = "exited" /\ exit' = "success"

\* The struct is freed and the connection closed.
drop_client(c, next) ==
    LET rest == Without(clients, c)
    IN  /\ clients' = rest
        /\ current' = CurrentAfter(c, rest)
        /\ shell' = [shell EXCEPT ![c] = NewShell]
        /\ alive' = [alive EXCEPT ![c] = FALSE]
        /\ pending' = [pending EXCEPT ![c] = 0]
        /\ IF rest = <<>>
           THEN child_terminate /\ LastClientLeft(next)
           ELSE /\ display' = display
                /\ IF current = c THEN context_switch(current', next)
                                  ELSE Tell("off", view, next)

-----------------------------------------------------------------------------
(* The poll loop.  select returns the descriptors that are readable, or    *)
(* none after half a second.                                               *)

\* Mutant: a client's descriptor is not watched for EOF.
PolledForData ==
    {s \in Sockets : backlog[s] # <<>>}
      \cup {c \in Connected : pending[c] > 0}
      \cup (IF DisplayRunning /\ DisplayReadable THEN {"display"} ELSE {})

\* Mutant: the display's descriptor is not watched.
PolledClients ==
    {s \in Sockets : backlog[s] # <<>>} \cup {c \in Connected : Readable(c)}

\* The descriptors setup_polling collects, as select leaves them.
Polled ==
    {s \in Sockets : backlog[s] # <<>>}
      \cup {c \in Connected : Readable(c)}
      \cup (IF DisplayRunning /\ DisplayReadable THEN {"display"} ELSE {})

Poll ==
    /\ pc = "poll"
    /\ pc' = "serve"
    /\ ready' = Polled
    /\ UNCHANGED <<daemonVars, displayVars, result, exit, worldVars>>

\* select itself fails.
PollFails ==
    /\ pc = "poll"
    /\ die("failure")
    /\ UNCHANGED <<daemonVars, displayVars, ready, worldVars>>

\* The order in which one round serves what is ready.
ServesSocket(s) ==
    /\ pc = "serve"
    /\ s \in ready
    /\ s = "unix" => "port" \notin ready

ServesDisplay ==
    /\ pc = "serve"
    /\ ready \cap Sockets = {}
    /\ "display" \in ready
    /\ DisplayRunning

\* Only the first ready client in the list is served in a round.
ServesClient(c) ==
    /\ pc = "serve"
    /\ ready \cap Sockets = {}
    /\ ~ServesDisplay
    /\ \E i \in DOMAIN clients :
          /\ clients[i] = c
          /\ c \in ready
          /\ \A j \in 1..(i - 1) : clients[j] \notin ready

-----------------------------------------------------------------------------
(* new_client: accepting a connection and the handshake, in which vgd      *)
(* blocks until the other end answers or goes away.                        *)

Accept(s) ==
    /\ ServesSocket(s)
    /\ ready' = ready \ {s}
    /\ backlog' = [backlog EXCEPT ![s] = Tail(@)]
    /\ shaking' = Head(backlog[s])
    /\ pc' = "handshake"
    /\ UNCHANGED <<clients, current, currentIsActive, shell, displayVars,
                   result, exit, alive, pending, activeWindow>>

AcceptFails(s) ==
    /\ ServesSocket(s)
    /\ ready' = ready \ {s}
    /\ UNCHANGED <<daemonVars, displayVars, pc, result, exit, worldVars>>

\* The client is in; it gets a display if there is none, which is told the
\* new client's window only, and only if the new client is current.
NewVgseerClient(w) ==
    LET v == shaking
        first == clients = <<>>
    IN  /\ pc = "handshake"
        /\ alive[v]
        /\ shell' = [shell EXCEPT ![v].win = w]
        /\ current' = IF first THEN v ELSE current
        /\ clients' = <<v>> \o clients
        /\ shaking' = None
        /\ IF DisplayRunning
           THEN pc' = "serve" /\ UNCHANGED <<displayVars, result, exit>>
           ELSE child_fork(current' = v, [NoView EXCEPT !.win = w])
        /\ UNCHANGED <<currentIsActive, ready, worldVars>>

\* Every other end of the handshake: a ping that was answered, an unknown
\* purpose, data out of sync, or EOF.
TurnAway ==
    /\ pc = "handshake"
    /\ pc' = "serve"
    /\ shaking' = None
    /\ alive' = [alive EXCEPT ![shaking] = FALSE]
    /\ UNCHANGED <<clients, current, currentIsActive, shell, displayVars,
                   ready, result, exit, backlog, pending, activeWindow>>

\* vgd answers a process that has gone.
HandshakeKills ==
    /\ pc = "handshake"
    /\ ~alive[shaking]
    /\ Killed
    /\ UNCHANGED <<daemonVars, displayVars, ready, result, worldVars>>

-----------------------------------------------------------------------------
(* process_display: one message from the display.                          *)

\* Mutant: EOF is taken for a message.
ReadsEOF ==
    /\ ServesDisplay
    /\ ready' = ready \ {"display"}

\* Mutant: the display is read again in the same round.
ReadsOn ==
    /\ ServesDisplay
    /\ chatter > 0
    /\ ready' = ready

ReadDisplay ==
    /\ ServesDisplay
    /\ chatter > 0
    /\ ready' = ready \ {"display"}

\* The display's answer cannot be parsed: it is restarted, and told nothing.
DisplayMalformed ==
    /\ ReadDisplay
    /\ child_fork(FALSE, NoView)
    /\ UNCHANGED <<daemonVars, worldVars>>

\* Its window id, which nothing reads, or an unexpected parameter.
DisplayIgnored ==
    /\ ReadDisplay
    /\ chatter' = chatter - 1
    /\ UNCHANGED <<daemonVars, display, view, pc, result, exit, worldVars>>

\* A key or a file name goes to the current client.  Written to a client
\* that has died it is lost, or fails, or ends vgd.
DisplayInput ==
    /\ ReadDisplay
    /\ chatter' = chatter - 1
    /\ \/ UNCHANGED <<daemonVars, display, view, pc, exit, alive, pending>>
       \/ /\ ~alive[current]
          /\ drop_client(current, "serve")
          /\ UNCHANGED <<currentIsActive, shaking>>
       \/ /\ ~alive[current]
          /\ Killed
          /\ UNCHANGED <<daemonVars, display, view, alive, pending>>
    /\ UNCHANGED <<result, backlog, activeWindow>>

DisplayEOF ==
    /\ ServesDisplay
    /\ display = "dead" /\ chatter = 0
    /\ ready' = ready \ {"display"}
    /\ child_terminate
    /\ UNCHANGED <<daemonVars, chatter, pc, result, exit, worldVars>>

-----------------------------------------------------------------------------
(* process_client: one message from the first ready client.                *)

\* The message is read; the round ends, whatever else was ready.
Receive(c, m) ==
    /\ ServesClient(c)
    /\ pending[c] > 0
    /\ m \in Messages
    /\ ready' = {}

\* The message changes nothing that is modelled.
Discard(c) ==
    /\ pending' = [pending EXCEPT ![c] = @ - 1]
    /\ UNCHANGED <<daemonVars, displayVars, pc, result, exit, backlog, alive,
                   activeWindow>>

\* What c holds becomes new, and the display is sent v if c is current.
Store(c, new, v) ==
    /\ shell' = [shell EXCEPT ![c] = new]
    /\ pending' = [pending EXCEPT ![c] = @ - 1]
    /\ update_display(c, v)
    /\ UNCHANGED <<clients, current, currentIsActive, shaking, display,
                   chatter, result, backlog, alive, activeWindow>>

\* A status is passed on only when it is a new one.
ClientStatus(c, m) ==
    /\ Receive(c, m)
    /\ m.param = "status" /\ m.value # "invalid"
    /\ IF m.value # shell[c].status
       THEN Store(c, [shell[c] EXCEPT !.status = m.value],
                  [view EXCEPT !.status = m.value])
       ELSE Discard(c)

\* The parameters that are stored as they come.
TextField == [p \in {"cmd", "developing-mask", "vgexpand-data"} |->
                CASE p = "cmd" -> "cli"
                  [] p = "developing-mask" -> "developing_mask"
                  [] OTHER -> "expanded"]

ClientText(c, m) ==
    /\ Receive(c, m)
    /\ m.param \in DOMAIN TextField
    /\ Store(c, [shell[c] EXCEPT ![TextField[m.param]] = m.value],
             [view EXCEPT ![TextField[m.param]] = m.value])

\* Mutant: the display is not told that the developing mask has ended.
MaskOnly(c, m) ==
    /\ Receive(c, m)
    /\ m.param = "mask"
    /\ Store(c, [shell[c] EXCEPT !.developing_mask = Empty, !.mask = m.value],
             [view EXCEPT !.mask = m.value])

\* Setting the mask ends the developing one.
ClientMask(c, m) ==
    /\ Receive(c, m)
    /\ m.param = "mask"
    /\ Store(c, [shell[c] EXCEPT !.developing_mask = Empty, !.mask = m.value],
             [view EXCEPT !.developing_mask = Empty, !.mask = m.value])

\* The working directory is stored and read nowhere.
ClientPwd(c, m) ==
    /\ Receive(c, m)
    /\ m.param = "pwd"
    /\ Discard(c)

\* Mutant: no context switch.
RefocusQuietly(c, m) ==
    /\ Receive(c, m)
    /\ m.param = "order" /\ m.value = "refocus"
    /\ current' = c
    /\ pending' = [pending EXCEPT ![c] = @ - 1]
    /\ Tell(display, view, "serve")
    /\ UNCHANGED <<clients, currentIsActive, shell, shaking, display, chatter,
                   result, backlog, alive, activeWindow>>

\* The user asks for the display in this terminal: c becomes current, or,
\* being current already, only the order goes to the display.
OrderRefocus(c, m) ==
    /\ Receive(c, m)
    /\ m.param = "order" /\ m.value = "refocus"
    /\ current' = c
    /\ pending' = [pending EXCEPT ![c] = @ - 1]
    /\ IF current = c THEN Tell(display, view, "serve")
                      ELSE context_switch(c, "serve")
    /\ UNCHANGED <<clients, currentIsActive, shell, shaking, display, chatter,
                   result, backlog, alive, activeWindow>>

\* Close the display, or open one that shows the current client.
OrderToggle(c, m) ==
    /\ Receive(c, m)
    /\ m.param = "order" /\ m.value = "toggle"
    /\ pending' = [pending EXCEPT ![c] = @ - 1]
    /\ IF DisplayRunning
       THEN child_terminate /\ UNCHANGED <<chatter, pc, result, exit>>
       ELSE child_fork(TRUE, shell[current])
    /\ UNCHANGED <<daemonVars, backlog, alive, activeWindow>>

\* Navigation orders go to the display as they are.
OrderOther(c, m) ==
    /\ Receive(c, m)
    /\ m.param = "order" /\ m.value = "other"
    /\ Store(c, shell[c], view)

\* An invalid status, a parameter vgd does not expect, bytes it cannot
\* parse, or EOF.
DropClient(c) ==
    /\ \/ \E m \in Messages :
             /\ Receive(c, m)
             /\ \/ m.param \in {"unexpected", "malformed"}
                \/ m.param = "status" /\ m.value = "invalid"
       \/ /\ ServesClient(c)
          /\ pending[c] = 0 /\ ~alive[c]
          /\ ready' = {}
    /\ drop_client(c, "serve")
    /\ UNCHANGED <<currentIsActive, shaking, chatter, result, backlog,
                   activeWindow>>

ProcessClient(c) ==
    \/ \E m \in Messages :
          \/ ClientStatus(c, m) \/ ClientText(c, m) \/ ClientMask(c, m)
          \/ ClientPwd(c, m) \/ OrderRefocus(c, m) \/ OrderToggle(c, m)
          \/ OrderOther(c, m)
    \/ DropClient(c)

-----------------------------------------------------------------------------
(* check_active_window: the end of every round.                            *)

EndsRound ==
    /\ pc = "serve"
    /\ ready \cap Sockets = {}
    /\ ~ServesDisplay
    /\ \A c \in Connected : ~ServesClient(c)

\* Connected clients whose terminal is in window w, as positions in the list.
InWindow(w) == {i \in DOMAIN clients : shell[clients[i]].win = w}

\* The current terminal has the focus; if it just gained it, the display is
\* raised again.
CurrentHasFocus ==
    /\ activeWindow = shell[current].win
    /\ currentIsActive' = TRUE
    /\ current' = current
    /\ IF currentIsActive
       THEN Tell("off", view, "poll")
       ELSE Tell(display, [view EXCEPT !.win = shell[current].win], "poll")

\* The focus went elsewhere, to no client's window.
FocusElsewhere ==
    /\ activeWindow # shell[current].win
    /\ InWindow(activeWindow) = {}
    /\ currentIsActive' = FALSE
    /\ current' = current
    /\ Tell("off", view, "poll")

\* Mutant: the list is searched only when the current window has the focus.
SwitchIfActive ==
    /\ activeWindow # shell[current].win
    /\ currentIsActive' = currentIsActive
    /\ IF currentIsActive
       THEN \E i \in InWindow(activeWindow) :
               /\ \A j \in InWindow(activeWindow) : i <= j
               /\ current' = clients[i]
               /\ context_switch(clients[i], "poll")
       ELSE InWindow(activeWindow) # {} /\ current' = current /\ Tell("off", view, "poll")

\* The first client in the newly active window takes over.
SwitchToActive ==
    /\ activeWindow # shell[current].win
    /\ currentIsActive' = TRUE
    /\ \E i \in InWindow(activeWindow) :
          /\ \A j \in InWindow(activeWindow) : i <= j
          /\ current' = clients[i]
          /\ context_switch(clients[i], "poll")

NobodyToCheck ==
    /\ pc' = "poll"
    /\ UNCHANGED <<current, currentIsActive, view, exit>>

CheckActiveWindow ==
    /\ EndsRound
    /\ IF clients = <<>>
       THEN NobodyToCheck
       ELSE CurrentHasFocus \/ FocusElsewhere \/ SwitchToActive
    /\ ready' = {}
    /\ UNCHANGED <<clients, shell, shaking, display, chatter, result,
                   worldVars>>

-----------------------------------------------------------------------------
(* die: each client is told it is dead and dropped, then vgd exits.        *)

DieDropsClient ==
    /\ pc = "die"
    /\ clients # <<>>
    /\ \/ drop_client(Head(clients), "die")
       \/ /\ ~alive[Head(clients)]
          /\ Killed
          /\ UNCHANGED <<clients, current, shell, display, view, alive, pending>>
    /\ UNCHANGED <<currentIsActive, shaking, chatter, ready, result, backlog,
                   activeWindow>>

DieExits ==
    /\ pc = "die"
    /\ clients = <<>>
    /\ child_terminate
    /\ pc' = "exited"
    /\ exit' = result
    /\ UNCHANGED <<daemonVars, chatter, ready, result, worldVars>>

-----------------------------------------------------------------------------
(* The other processes.                                                    *)

Waiting == UNION {ToSet(backlog[s]) : s \in Sockets}

Attached == Connected \cup Waiting \cup {shaking}

\* A vgseer or a vgping connects.
Connect(c, s) ==
    /\ c \notin Attached
    /\ backlog' = [backlog EXCEPT ![s] = Append(@, c)]
    /\ alive' = [alive EXCEPT ![c] = TRUE]
    /\ UNCHANGED <<daemonVars, displayVars, loopVars, pending, activeWindow>>

ClientSends(c) ==
    /\ c \in Connected
    /\ alive[c]
    /\ pending[c] < MaxPending
    /\ pending' = [pending EXCEPT ![c] = @ + 1]
    /\ UNCHANGED <<daemonVars, displayVars, loopVars, backlog, alive,
                   activeWindow>>

\* What it sent before can still be read.
ClientDies(c) ==
    /\ alive[c]
    /\ alive' = [alive EXCEPT ![c] = FALSE]
    /\ UNCHANGED <<daemonVars, displayVars, loopVars, backlog, pending,
                   activeWindow>>

DisplaySends ==
    /\ display = "up"
    /\ chatter < MaxPending
    /\ chatter' = chatter + 1
    /\ UNCHANGED <<daemonVars, display, view, loopVars, worldVars>>

\* The user closes it, or it crashes.
DisplayDies ==
    /\ display = "up"
    /\ display' = "dead"
    /\ UNCHANGED <<daemonVars, view, chatter, loopVars, worldVars>>

Focus(w) ==
    /\ activeWindow' = w
    /\ UNCHANGED <<daemonVars, displayVars, loopVars, backlog, alive, pending>>

-----------------------------------------------------------------------------

LoopStep ==
    \/ Poll \/ PollFails
    \/ \E s \in Sockets : Accept(s) \/ AcceptFails(s)
    \/ DisplayMalformed \/ DisplayIgnored \/ DisplayInput \/ DisplayEOF
    \/ \E c \in Clients : ProcessClient(c)
    \/ CheckActiveWindow
    \/ DieDropsClient \/ DieExits

HandshakeStep ==
    (\E w \in Windows : NewVgseerClient(w)) \/ TurnAway \/ HandshakeKills

World ==
    /\ pc # "exited"
    /\ \/ \E c \in Clients :
             (\E s \in Sockets : Connect(c, s)) \/ ClientSends(c) \/ ClientDies(c)
       \/ DisplaySends \/ DisplayDies
       \/ \E w \in Windows : Focus(w)

Exited == pc = "exited" /\ UNCHANGED vars

Next == LoopStep \/ HandshakeStep \/ World \/ Exited

\* select times out.  The rest are assumptions, for vgd waits without a limit:
\* that a client goes on with its handshake and sends whole messages, that the
\* display reads its pipe, and that it exits when it is told to.
Fairness == WF_vars(LoopStep) /\ WF_vars(HandshakeStep)

Spec == Init /\ [][Next]_vars

FairSpec == Spec /\ Fairness

-----------------------------------------------------------------------------
(* Properties.                                                             *)

\* The types of the variables: the struct's fields and the loop's place.
TypeOK ==
    /\ clients \in Seq(Clients)
    /\ current \in Clients \cup {None}
    /\ currentIsActive \in BOOLEAN
    /\ shell \in [Clients -> Shells]
    /\ display \in {"off", "up", "dead"}
    /\ view \in Views
    /\ pc \in {"poll", "serve", "handshake", "die", "exited"}
    /\ ready \subseteq Sockets \cup Clients \cup {"display"}
    /\ shaking \in Clients \cup {None}
    /\ result \in {"none", "failure"}
    /\ exit \in {"running", "success", "failure", "sigpipe"}
    /\ backlog \in [Sockets -> Seq(Clients)]
    /\ alive \in [Clients -> BOOLEAN]
    /\ pending \in [Clients -> 0..MaxPending]
    /\ chatter \in 0..MaxPending
    /\ activeWindow \in Windows

\* drop_client, context_switch, process_display and check_active_window all
\* use s->current unchecked: whatever was dropped, accepted or ordered, it is
\* a client in the list, once, and NULL only when the list is empty.
CurrentIsClient ==
    /\ IsInjective(clients)
    /\ clients = <<>> => current = None
    /\ clients # <<>> => current \in Connected

\* A display runs only while there is a client, so process_display always has
\* a current client to pass a key or a file name to.
DisplayHasClient == DisplayRunning => clients # <<>>

\* vgd reads only from descriptors that have something to say: a client
\* dropped earlier in the round, or a display restarted or terminated in it,
\* is never read from, so no handler blocks the loop.
ServesOnlyReadable ==
    /\ \A c \in Clients : ServesClient(c) => c \in Connected /\ Readable(c)
    /\ ServesDisplay => DisplayReadable
    /\ \A s \in Sockets : ServesSocket(s) => backlog[s] # <<>>

\* What the display was told is what vgd knows of the current client: no field
\* is left from another client or from an earlier value, through switches,
\* drops, masks being set and display restarts.
ViewNeverStale ==
    display = "up" =>
        \A field \in DOMAIN view : view[field] \in {None, shell[current][field]}

\* Whoever makes another client current (the active window, a refocus, the
\* loss of the old one) tells a running display everything about it.
SwitchTellsAll ==
    [][(current' # current /\ display = "up" /\ display' = "up")
         => view' = shell'[current']]_vars

\* An orderly end: die() leaves no client undropped and no display behind, and
\* a persistent vgd never ends because its clients left.
OrderlyExit ==
    exit \in {"success", "failure"} =>
        /\ clients = <<>>
        /\ ~DisplayRunning
        /\ Persistent => exit = "failure"

\* When the user moves to a window with a client in it, the current client
\* becomes one in that window, unless the user moves on or its clients go.
FollowsActiveWindow ==
    \A w \in Windows :
        (activeWindow = w /\ InWindow(w) # {})
          ~> \/ pc = "exited"
             \/ activeWindow # w
             \/ InWindow(w) = {}
             \/ shell[current].win = w

\* vgd notices that the display has gone, whatever it had still sent.
DisplayLossNoticed == display = "dead" ~> (display # "dead" \/ pc = "exited")

\* From some time on clients neither connect nor send.
NoMoreInput ==
    <>[][\A c \in Clients : pending'[c] <= pending[c] /\ (alive'[c] => alive[c])]_vars

\* One client is served a round, the first in the list: once the clients stop
\* sending and connecting, every message and every EOF is still processed.
NothingForgotten ==
    NoMoreInput => \A c \in Clients : (c \in Connected /\ Readable(c))
                      ~> (c \notin Connected \/ ~Readable(c) \/ pc = "exited")

\* Without --persistent vgd does not outlive its last client.
EndsWithLastClient ==
    (~Persistent /\ NoMoreInput /\ <>[](\A c \in Clients : ~alive[c]))
      => (clients # <<>> ~> pc = "exited")

\* viewglob.1: "Whichever terminal is currently active [...] will have its
\* environment shown."  Between rounds a display that is up has been told what
\* the current client holds, or that is what a new display starts with.
ShowsCurrent ==
    (pc = "poll" /\ display = "up") =>
        \A field \in DOMAIN view \ {"win"} :
            view[field] = None => shell[current][field] = NewShell[field]

-----------------------------------------------------------------------------
(* What the proofs need besides: the inductive invariant.                  *)

\* A connection is in one place: a backlog, new_client's hands, or the list.
OnePlace ==
    /\ \A s \in Sockets : /\ IsInjective(backlog[s])
                         /\ ToSet(backlog[s]) \cap Connected = {}
                         /\ shaking \notin ToSet(backlog[s])
    /\ \A s, t \in Sockets :
          s # t => ToSet(backlog[s]) \cap ToSet(backlog[t]) = {}
    /\ shaking \notin Connected

\* What the position in the loop says.
LoopInv ==
    /\ pc = "handshake" => shaking \in Clients
    /\ exit # "running" => pc = "exited"
    /\ pc = "die" => result = "failure"
    /\ \A s \in ready \cap Sockets : backlog[s] # <<>>

\* The inductive invariant: without OnePlace a client could be accepted that
\* is in the list already, without LoopInv nobody at all.
IInv ==
    /\ TypeOK /\ CurrentIsClient /\ DisplayHasClient
    /\ OnePlace /\ LoopInv /\ OrderlyExit

\* For ServesOnlyReadable: what select reported stays so until it is served.
\* A client dropped in the round may connect again, but the listening sockets
\* have been served by then, so it is not in the list before the next poll.
ReadyInv ==
    pc \in {"serve", "handshake"} =>
        /\ "display" \in ready => DisplayRunning /\ DisplayReadable
        /\ \A c \in Clients \cap ready :
              \/ c \in Connected /\ Readable(c)
              \/ c \notin Connected /\ ready \cap Sockets = {} /\ pc = "serve"

=============================================================================
