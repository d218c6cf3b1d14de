------------------------------- MODULE Launch -------------------------------
(***************************************************************************)
(* How a shell comes to a vgd.  Several launchers (src/shell/viewglob.in)  *)
(* at once look for a vgd with vgping, start one if there is none, and     *)
(* become vgseers; every vgd listens on a port and on a socket file, and   *)
(* shakes hands with one connection at a time (new_client, vgd.c).  A      *)
(* launcher and the vgping, vgd and vgseer it runs go by one name.         *)
(*                                                                         *)
(* A parameter arrives whole or not at all (param-io.c); "eof" is the end  *)
(* of what one side has sent.  What vgd does with its clients otherwise is *)
(* in module Vgd.                                                          *)
(***************************************************************************)
EXTENDS Integers, Sequences, SequencesExt, FiniteSets

CONSTANTS
    Shells,      \* launchers
    Standing,    \* those of them that only stand for a vgd started by hand
    LastPort,    \* bound: the ports are 1..LastPort, the first the default
    Others,      \* ports another program may listen on, which hangs up
    Differs,     \* launchers whose vgseer has another version than the vgds
    MayDie,      \* launchers that may be killed
    MayHang      \* launchers that may be stopped for good

NoOne == "no one"

ASSUME LaunchAssumption ==
    /\ LastPort \in Nat \ {0}
    /\ Others \subseteq 1..(LastPort - 1)
    /\ UNION {Standing, Differs, MayDie, MayHang} \subseteq Shells
    /\ {NoOne, "stale"} \cap Shells = {}

VARIABLES
    foreign,   \* the ports another program does listen on
    home,      \* "usable", or no socket file can be made in ~/.viewglob
    mode,      \* "local" (no options), "port" (-p) or "host" (-h)
    at,        \* where the launcher is
    port,      \* $port, $PORT
    todo,      \* the socket files left in its for loop
    found,     \* $vgd_ports
    prog,      \* the program it runs, or "none"
    step,      \* the next of what that program says and hears
    link,      \* its connection: [to, up, down]
    hung,      \* the launchers that have stopped
    files,     \* whose socket file there is for each port
    daemon,    \* how far each vgd is
    dport,     \* its port
    backlog,   \* the connections it has not accepted
    serving,   \* the one it shakes hands with
    stage,     \* and how far it is with it
    members    \* its clients

given == <<foreign, home>>
launcherVars == <<given, mode, at, port, todo, found>>
peerVars == <<prog, step, hung>>
vgdVars == <<dport, backlog, serving, stage, members>>
vars == <<launcherVars, peerVars, link, files, daemon, vgdVars>>

Ports == 1..LastPort

NoLink == [to |-> NoOne, up |-> <<>>, down |-> <<>>]

Init ==
    /\ foreign \in SUBSET Others
    /\ mode \in {f \in [Shells -> {"local", "port", "host"}] :
                   \A d \in Standing : f[d] = "port"}
    /\ at = [s \in Shells |-> IF s \in Standing THEN "over" ELSE "starts"]
    /\ port = [s \in Shells |-> 1]
    /\ todo = [s \in Shells |-> <<>>]
    /\ found = [s \in Shells |-> {}]
    /\ prog = [s \in Shells |-> "none"]
    /\ step = [s \in Shells |-> 1]
    /\ link = [s \in Shells |-> NoLink]
    /\ hung = {}
    /\ daemon \in {f \in [Shells -> {"none", "up"}] :
                     /\ \A d \in Shells \ Standing : f[d] = "none"
                     /\ \A d, e \in Shells : f[d] = "up" /\ f[e] = "up" => d = e}
    /\ home \in {"usable"} \cup
          (IF \E d \in Shells : daemon[d] = "up" THEN {} ELSE {"unusable"})
    /\ dport = [d \in Shells |-> IF d \in Standing THEN LastPort ELSE 1]
    /\ \E left \in IF home = "usable" THEN {NoOne, "stale"} ELSE {NoOne} :
          files = [p \in Ports |->
              IF \E d \in Shells : daemon[d] = "up" /\ dport[d] = p
              THEN CHOOSE d \in Shells : daemon[d] = "up" /\ dport[d] = p
              ELSE left]
    /\ backlog = [d \in Shells |-> <<>>]
    /\ serving = [d \in Shells |-> NoOne]
    /\ stage = [d \in Shells |-> "purpose"]
    /\ members = [d \in Shells |-> {}]

-----------------------------------------------------------------------------
(* Sockets.                                                                *)

\* A vgd that has the port, be it that only its display is left and has
\* inherited the sockets.
HasPort(d) == daemon[d] \in {"bound", "named", "up", "exits", "orphaned"}

Holders(p) == {d \in Shells : HasPort(d) /\ dport[d] = p}

Taken(p) == p \in foreign \/ Holders(p) # {}

\* Who answers connect on the port, and on the socket file.
tcp_connect(p) == IF Holders(p) = {} THEN NoOne ELSE CHOOSE d \in Holders(p) : TRUE

unix_connect(p) ==
    IF files[p] \in Shells /\ daemon[files[p]] \in {"up", "orphaned"} THEN files[p] ELSE NoOne

Says(s, m) == link' = [link EXCEPT ![s].up = Append(@, m)]

\* vgd's side of the connections in S is closed.
HangUp(S) == [s \in Shells |->
    IF s \in S THEN [link[s] EXCEPT !.down = Append(@, "eof")] ELSE link[s]]

\* The peer's side is closed.
PeerGone(s) == "eof" \in ToSet(link[s].up) \/ at[s] = "over"

-----------------------------------------------------------------------------
(* What vgping and vgseer say and hear.                                    *)

vgping == << <<"put", "vgping">>, <<"get", "yo">> >>

connect_to_vgd ==
    << <<"put", "vgseer">>, <<"put", "version">>, <<"put", "term-title">>,
       <<"get", "status">>, <<"get", "reason">>, <<"get", "set-title">>,
       <<"put", "title-set">>, <<"get", "vgexpand-opts">> >>

Script(s) == IF prog[s] = "vgping" THEN vgping ELSE connect_to_vgd

Puts(s) == prog[s] # "none" /\ Script(s)[step[s]][1] = "put"

Gets(s) == prog[s] # "none" /\ Script(s)[step[s]][1] = "get"

Expects(s) ==
    LET m == Script(s)[step[s]][2] IN IF m = "status" THEN {"OK", "WARNING"} ELSE {m}

\* Mutant: the reason of a warning is not read.
ReasonLeft(s, m) == step[s] + (IF m \in {"OK", "WARNING"} THEN 2 ELSE 1)

\* A warning is followed by its reason.
After(s, m) == step[s] + (IF m = "OK" THEN 2 ELSE 1)

Runs(s) == at[s] # "over" /\ s \notin hung

PutParam(s) ==
    /\ Runs(s) /\ Puts(s)
    /\ Says(s, Script(s)[step[s]][2])
    /\ step' = [step EXCEPT ![s] = @ + 1]
    /\ UNCHANGED <<launcherVars, prog, hung, files, daemon, vgdVars>>

\* get_param_verify, while there is more to come.
GetParam(s) ==
    LET m == Head(link[s].down)
    IN /\ Runs(s) /\ Gets(s) /\ link[s].down # <<>>
       /\ m \in Expects(s) /\ After(s, m) <= Len(Script(s))
       /\ link' = [link EXCEPT ![s].down = Tail(@)]
       /\ step' = [step EXCEPT ![s] = After(s, m)]
       /\ UNCHANGED <<launcherVars, prog, hung, files, daemon, vgdVars>>

\* The last one: the program has succeeded.
Succeeds(s) ==
    /\ Runs(s) /\ Gets(s) /\ step[s] = Len(Script(s)) /\ link[s].down # <<>>
    /\ Head(link[s].down) \in Expects(s)

\* EOF, or what was not expected.
Fails(s) ==
    /\ Runs(s) /\ Gets(s) /\ link[s].down # <<>>
    /\ Head(link[s].down) \notin Expects(s)

-----------------------------------------------------------------------------
(* The launcher.                                                           *)

\* The shell runs a program that connects to d.
RunProgram(s, program, d) ==
    /\ prog' = [prog EXCEPT ![s] = program]
    /\ step' = [step EXCEPT ![s] = 1]
    /\ link' = [link EXCEPT ![s] = [NoLink EXCEPT !.to = d]]
    /\ backlog' = [backlog EXCEPT ![d] = Append(@, s)]
    /\ UNCHANGED <<hung, files, daemon, dport, serving, stage, members>>

\* A program that could not connect.
NoProgram(s) ==
    /\ link' = [link EXCEPT ![s] = NoLink]
    /\ UNCHANGED <<peerVars, files, daemon, vgdVars>>

Goes(s, where) == at' = [at EXCEPT ![s] = where]

Begin(s) ==
    /\ Runs(s) /\ at[s] = "starts"
    /\ todo' = [todo EXCEPT ![s] = SelectSeq([p \in Ports |-> p], LAMBDA p : files[p] # NoOne)]
    /\ Goes(s, IF mode[s] = "local" THEN "scan" ELSE "ping")
    /\ UNCHANGED <<given, mode, port, found, peerVars, link, files, daemon, vgdVars>>

\* Where vgping connects to.
Target(s) ==
    CASE at[s] = "scan" -> unix_connect(Head(todo[s]))
      [] at[s] = "probe" -> tcp_connect(port[s])
      [] at[s] = "ping" -> IF mode[s] = "host" THEN tcp_connect(port[s])
                                               ELSE unix_connect(port[s])
      [] OTHER -> NoOne

\* Mutant: the next port is not tried.
SamePort(s) ==
    \/ at[s] = "probe" /\ UNCHANGED launcherVars
    \/ /\ at[s] = "scan"
       /\ found' = [found EXCEPT ![s] = @ \cup {Head(todo[s])}]
       /\ todo' = [todo EXCEPT ![s] = Tail(@)]
       /\ UNCHANGED <<given, mode, at, port>>
    \/ at[s] = "ping" /\ Goes(s, "vgseer") /\ UNCHANGED <<given, mode, port, todo, found>>

Answered(s) ==
    \/ /\ at[s] = "scan"
       /\ found' = [found EXCEPT ![s] = @ \cup {Head(todo[s])}]
       /\ todo' = [todo EXCEPT ![s] = Tail(@)]
       /\ UNCHANGED <<given, mode, at, port>>
    \/ /\ at[s] = "probe" /\ port[s] < LastPort
       /\ port' = [port EXCEPT ![s] = @ + 1]
       /\ UNCHANGED <<given, mode, at, todo, found>>
    \/ at[s] = "ping" /\ Goes(s, "vgseer") /\ UNCHANGED <<given, mode, port, todo, found>>

NotAnswered(s) ==
    /\ \/ at[s] = "scan" /\ Goes(s, "remove")
       \/ at[s] = "probe" /\ Goes(s, "vgd")
       \/ at[s] = "ping" /\ Goes(s, IF mode[s] = "host" THEN "over" ELSE "vgd")
    /\ UNCHANGED <<given, mode, port, todo, found>>

Ping(s) ==
    /\ Runs(s) /\ prog[s] = "none"
    /\ at[s] \in {"scan", "probe", "ping"}
    /\ at[s] = "scan" => todo[s] # <<>>
    /\ IF Target(s) = NoOne THEN NotAnswered(s) /\ NoProgram(s)
       ELSE RunProgram(s, "vgping", Target(s)) /\ UNCHANGED launcherVars

\* The program ends and its connection is closed.
Exits(s) ==
    /\ prog' = [prog EXCEPT ![s] = "none"]
    /\ step' = [step EXCEPT ![s] = 1]
    /\ Says(s, "eof")
    /\ UNCHANGED <<hung, files, daemon, vgdVars>>

PingEnds(s) ==
    /\ prog[s] = "vgping"
    /\ \/ Succeeds(s) /\ Answered(s)
       \/ Fails(s) /\ NotAnswered(s)
    /\ Exits(s)

\* rm -f.
RemoveFile(s) ==
    /\ Runs(s) /\ at[s] = "remove"
    /\ files' = [files EXCEPT ![Head(todo[s])] = NoOne]
    /\ todo' = [todo EXCEPT ![s] = Tail(@)]
    /\ Goes(s, "scan")
    /\ UNCHANGED <<given, mode, port, found, peerVars, link, daemon, vgdVars>>

\* None, one or several vgds have answered.
Decide(s) ==
    /\ Runs(s) /\ at[s] = "scan" /\ todo[s] = <<>> /\ prog[s] = "none"
    /\ \/ found[s] = {} /\ Goes(s, "probe") /\ UNCHANGED port
       \/ /\ Cardinality(found[s]) = 1
          /\ Goes(s, "vgseer")
          /\ port' = [port EXCEPT ![s] = CHOOSE p \in found[s] : TRUE]
       \/ Cardinality(found[s]) > 1 /\ Goes(s, "over") /\ UNCHANGED port
    /\ UNCHANGED <<given, mode, todo, found, peerVars, link, files, daemon, vgdVars>>

\* vgseer connects, and is done with the launcher.
Vgseer(s) ==
    LET d == IF mode[s] = "host" THEN tcp_connect(port[s]) ELSE unix_connect(port[s])
    IN /\ Runs(s) /\ at[s] = "vgseer"
       /\ IF d = NoOne THEN Goes(s, "over") /\ NoProgram(s)
          ELSE Goes(s, "connects") /\ RunProgram(s, "vgseer", d)
       /\ UNCHANGED <<given, mode, port, todo, found>>

Joins(s) ==
    /\ prog[s] = "vgseer" /\ Succeeds(s)
    /\ Goes(s, "session")
    /\ prog' = [prog EXCEPT ![s] = "none"]
    /\ link' = [link EXCEPT ![s].down = Tail(@)]
    /\ UNCHANGED <<given, mode, port, todo, found, step, hung, files, daemon, vgdVars>>

GivesUp(s) ==
    /\ prog[s] = "vgseer" /\ Fails(s)
    /\ Goes(s, "over")
    /\ Exits(s)
    /\ UNCHANGED <<given, mode, port, todo, found>>

\* The user leaves, or kills what runs.
Leaves(s) ==
    /\ Runs(s)
    /\ at[s] = "session" \/ (s \in MayDie /\ at[s] # "vgd starts")
    /\ Goes(s, "over")
    /\ Exits(s)
    /\ UNCHANGED <<given, mode, port, todo, found>>

Hangs(s) ==
    /\ s \in MayHang /\ Runs(s)
    /\ hung' = hung \cup {s}
    /\ UNCHANGED <<launcherVars, prog, step, link, files, daemon, vgdVars>>

-----------------------------------------------------------------------------
(* vgd: its start.                                                         *)

Becomes(d, what) == daemon' = [daemon EXCEPT ![d] = what]

\* tcp_listen and its failures, and unix_listen's, which the port is given
\* back after.  A socket failure lets the launcher try again, with the same
\* port; any other failure ends it.
StartVgd(s) ==
    /\ Runs(s) /\ at[s] = "vgd"
    /\ \/ /\ ~ Taken(port[s]) /\ home = "usable"
          /\ Becomes(s, "bound")
          /\ dport' = [dport EXCEPT ![s] = port[s]]
          /\ Goes(s, "vgd starts")
       \/ /\ Taken(port[s]) \/ home = "unusable"
          /\ Goes(s, IF mode[s] = "local" THEN "probe" ELSE "over")
          /\ UNCHANGED <<daemon, dport>>
       \/ Goes(s, "over") /\ UNCHANGED <<daemon, dport>>
    /\ UNCHANGED <<given, mode, port, todo, found, peerVars, link, files,
                   backlog, serving, stage, members>>

\* unix_listen: the file is there before anybody can connect to it.
BindFile(d) ==
    /\ daemon[d] = "bound"
    /\ files' = [files EXCEPT ![dport[d]] = d]
    /\ Becomes(d, "named")
    /\ UNCHANGED <<launcherVars, peerVars, link, vgdVars>>

\* It listens and daemonizes: its launcher goes on.
Daemonize(d) ==
    /\ daemon[d] = "named"
    /\ Becomes(d, "up")
    /\ Goes(d, "vgseer")
    /\ UNCHANGED <<given, mode, port, todo, found, peerVars, link, files, vgdVars>>

-----------------------------------------------------------------------------
(* vgd: new_client.                                                        *)

Accept(d) ==
    /\ daemon[d] = "up" /\ serving[d] = NoOne /\ backlog[d] # <<>>
    /\ serving' = [serving EXCEPT ![d] = Head(backlog[d])]
    /\ backlog' = [backlog EXCEPT ![d] = Tail(@)]
    /\ stage' = [stage EXCEPT ![d] = "purpose"]
    /\ UNCHANGED <<launcherVars, peerVars, link, files, daemon, dport, members>>

\* What each stage waits for, and the stage it leads to.
Awaits == [purpose |-> {"vgping", "vgseer"}, version |-> {"version"},
           title |-> {"term-title"}, titled |-> {"title-set"}]

Onto(at_stage, m) ==
    CASE at_stage = "purpose" -> IF m = "vgping" THEN "yo" ELSE "version"
      [] at_stage = "version" -> "answer"
      [] at_stage = "title" -> "order"
      [] at_stage = "titled" -> "options"

Listens(d) == daemon[d] = "up" /\ serving[d] # NoOne /\ stage[d] \in DOMAIN Awaits

Hears(d) ==
    LET s == serving[d]
        m == Head(link[s].up)
    IN /\ Listens(d) /\ link[s].up # <<>>
       /\ m \in Awaits[stage[d]]
       /\ stage' = [stage EXCEPT ![d] = Onto(@, m)]
       /\ link' = [link EXCEPT ![s].up = Tail(@)]
       /\ UNCHANGED <<launcherVars, peerVars, files, daemon, dport, backlog, serving, members>>

Speaks(d) == daemon[d] = "up" /\ serving[d] # NoOne /\ stage[d] \notin DOMAIN Awaits

\* out_of_sync: EOF, or what was not expected; reject: a write that fails.
Rejects(d) ==
    LET s == serving[d]
    IN /\ \/ Listens(d) /\ link[s].up # <<>> /\ Head(link[s].up) \notin Awaits[stage[d]]
          \/ Speaks(d) /\ PeerGone(s)
       /\ link' = HangUp({s})
       /\ serving' = [serving EXCEPT ![d] = NoOne]
       /\ UNCHANGED <<launcherVars, peerVars, files, daemon, dport, backlog, stage, members>>

Tells(s, words) == link' = [link EXCEPT ![s].down = @ \o words]

\* Mutant: a ping is not answered.
NotAnsweredBack(d) == Tells(serving[d], <<"eof">>)

new_ping_client(d) == Tells(serving[d], <<"yo", "eof">>)

new_vgseer_client(d) ==
    LET s == serving[d]
    IN CASE stage[d] = "answer" ->
              Tells(s, IF s \in Differs THEN <<"WARNING", "reason">> ELSE <<"OK">>)
         [] stage[d] = "order" -> Tells(s, <<"set-title">>)
         [] stage[d] = "options" -> Tells(s, <<"vgexpand-opts">>)

Answers(d) ==
    LET s == serving[d]
        ends == stage[d] \in {"yo", "options"}
    IN /\ Speaks(d)
       /\ IF stage[d] = "yo" THEN new_ping_client(d) ELSE new_vgseer_client(d)
       /\ serving' = [serving EXCEPT ![d] = IF ends THEN NoOne ELSE @]
       /\ stage' = [stage EXCEPT ![d] =
              CASE @ = "answer" -> "title" [] @ = "order" -> "titled" [] OTHER -> "purpose"]
       /\ members' = IF stage[d] = "options" THEN [members EXCEPT ![d] = @ \cup {s}] ELSE members
       /\ UNCHANGED <<launcherVars, peerVars, files, daemon, dport, backlog>>

-----------------------------------------------------------------------------
(* vgd: its end.                                                           *)

\* Those who are connected to d, accepted or not.
Connections(d) ==
    {s \in Shells : s = serving[d] \/ s \in members[d] \/ s \in ToSet(backlog[d])}

\* d is gone, and its sockets are closed.
Closes(d) ==
    /\ Becomes(d, "gone")
    /\ link' = HangUp(Connections(d))
    /\ backlog' = [backlog EXCEPT ![d] = <<>>]
    /\ serving' = [serving EXCEPT ![d] = NoOne]
    /\ members' = [members EXCEPT ![d] = {}]
    /\ UNCHANGED <<dport, stage>>

\* It writes to a peer that has gone: the write may be lost as well, or fail.
Killed(d) ==
    /\ Speaks(d) /\ PeerGone(serving[d])
    /\ \/ members[d] = {} /\ Closes(d)
       \* The display still has all its sockets.
       \/ /\ members[d] # {}
          /\ Becomes(d, "orphaned")
          /\ UNCHANGED <<link, vgdVars>>
    /\ UNCHANGED <<launcherVars, peerVars, files>>

\* The display reads EOF.
DisplayExits(d) ==
    /\ daemon[d] = "orphaned"
    /\ Closes(d)
    /\ UNCHANGED <<launcherVars, peerVars, files>>

\* A client has left; without the last, die removes the file.
DropsClient(d) ==
    /\ daemon[d] = "up" /\ serving[d] = NoOne
    /\ \E s \in members[d] :
          /\ PeerGone(s)
          /\ members' = [members EXCEPT ![d] = @ \ {s}]
          /\ IF members[d] = {s}
             THEN Becomes(d, "exits") /\ files' = [files EXCEPT ![dport[d]] = NoOne]
             ELSE UNCHANGED <<daemon, files>>
    /\ UNCHANGED <<launcherVars, peerVars, link, dport, backlog, serving, stage>>

VgdExits(d) ==
    /\ daemon[d] = "exits"
    /\ Closes(d)
    /\ UNCHANGED <<launcherVars, peerVars, files>>

-----------------------------------------------------------------------------

LauncherStep(s) ==
    \/ Begin(s) \/ Ping(s) \/ PingEnds(s) \/ RemoveFile(s) \/ Decide(s)
    \/ Vgseer(s) \/ Joins(s) \/ GivesUp(s) \/ StartVgd(s)
    \/ PutParam(s) \/ GetParam(s)

VgdStep(d) ==
    \/ BindFile(d) \/ Daemonize(d)
    \/ Accept(d) \/ Hears(d) \/ Rejects(d) \/ Answers(d)
    \/ Killed(d) \/ DisplayExits(d) \/ DropsClient(d) \/ VgdExits(d)

Next ==
    \/ \E s \in Shells : LauncherStep(s) \/ Leaves(s) \/ Hangs(s)
    \/ \E d \in Shells : VgdStep(d)

Spec == Init /\ [][Next]_vars

\* Programs that are not stopped run.
FairSpec == Spec /\ \A s \in Shells : WF_vars(LauncherStep(s)) /\ WF_vars(VgdStep(s))

-----------------------------------------------------------------------------

\* Both ends of a connection agree: what one reads is always what it
\* expects, or the end; a client of vgd's has nothing left to do but read
\* its options; and a vgseer that has them is a client of a vgd that lives
\* (connect_to_vgd, new_client).
Agreed ==
    /\ \A s \in Shells : Gets(s) /\ link[s].down # <<>> =>
          Head(link[s].down) \in Expects(s) \cup {"eof"}
    /\ \A d \in Shells : Listens(d) /\ link[serving[d]].up # <<>> =>
          Head(link[serving[d]].up) \in Awaits[stage[d]] \cup {"eof"}
    /\ \A d \in Shells : \A s \in members[d] :
          link[s].up \in {<<>>, <<"eof">>} /\ (prog[s] = "vgseer" => step[s] = 8)
    /\ \A s \in Shells : at[s] = "session" =>
          LET d == link[s].to IN s \in members[d] \/ daemon[d] = "gone"

\* A vgd that is up loses its socket file only by ending itself or to a
\* launcher whose vgping had never reached it: one that was refused before
\* the vgd listened, or was talking to an earlier vgd of that port
\* (viewglob.in:235-240, unix_listen).
SweepsOnlyUnreached ==
    [][\A p \in Ports, d \in Shells :
          files[p] = d /\ daemon[d] = "up" /\ files'[p] # d =>
             \/ daemon'[d] # "up"
             \/ \E s \in Shells : at[s] = "remove" /\ link[s].to # d]_vars

\* "Socket error -- try another port" (viewglob.in:267): but $port is what it
\* was, and vgping, which does not reach a vgd there, does not raise it.  Vgd
\* cannot have the port, which another program has, or no socket file.
Spins(s) ==
    /\ mode[s] = "local" /\ at[s] \in {"probe", "vgd", "vgd starts"}
    /\ port[s] \in foreign \/ home = "unusable"

\* It waits for a vgd that shakes hands with a program that is stopped ("TODO
\* add time limits to get_param", vgd.c:777).
WaitsBehind(s) == \E d \in Shells : s \in Connections(d) /\ serving[d] \in hung \ {s}

\* Every launcher comes to a session or gives up, whatever the others do and
\* whoever of them is killed or stopped, but for these: it is itself stopped
\* for good; it tries for good a port that no vgd can have; it waits for good
\* behind one that is stopped while vgd shakes hands with it.
LaunchEnds ==
    \A s \in Shells :
        \/ <>(at[s] \in {"session", "over"})
        \/ <>[](s \in hung)
        \/ <>[]Spins(s)
        \/ <>[]WaitsBehind(s)

-----------------------------------------------------------------------------
(* What the proofs need besides: the inductive invariant.                  *)

Words ==
    {"vgping", "vgseer", "version", "term-title", "title-set", "yo", "OK", "WARNING", "reason",
     "set-title", "vgexpand-opts", "eof"}

Stages == {"purpose", "yo", "version", "answer", "title", "order", "titled", "options"}

Places ==
    {"starts", "scan", "remove", "probe", "ping", "vgd", "vgd starts", "vgseer", "connects",
     "session", "over"}

States == {"none", "bound", "named", "up", "exits", "orphaned", "gone"}

\* The types, of the variables the properties depend on.
TypeOK ==
    /\ at \in [Shells -> Places]
    /\ prog \in [Shells -> {"none", "vgping", "vgseer"}]
    /\ step \in [Shells -> 1..8]
    /\ link \in [Shells -> [to : Shells \cup {NoOne}, up : Seq(Words), down : Seq(Words)]]
    /\ files \in [Ports -> Shells \cup {NoOne, "stale"}]
    /\ daemon \in [Shells -> States]
    /\ DOMAIN dport = Shells
    /\ backlog \in [Shells -> Seq(Shells)]
    /\ serving \in [Shells -> Shells \cup {NoOne}]
    /\ stage \in [Shells -> Stages]
    /\ members \in [Shells -> SUBSET Shells]

\* A launcher runs one program at a time and starts one vgd at most.
RunsInv ==
    \A s \in Shells :
        /\ prog[s] = "vgping" => at[s] \in {"scan", "probe", "ping"} /\ step[s] <= 2
        /\ prog[s] = "vgseer" <=> at[s] = "connects"
        /\ prog[s] = "vgseer" /\ step[s] = 5 => s \in Differs
        /\ at[s] \in {"starts", "scan", "remove", "probe", "ping", "vgd"} => daemon[s] = "none"
        /\ at[s] = "vgd starts" <=> daemon[s] \in {"bound", "named"}

\* A connection is in one place of one vgd, and nobody is connected who runs
\* nothing, unless vgd has not noticed that it left.
PlaceInv ==
    /\ \A d \in Shells : \A s \in Connections(d) : link[s].to = d
    /\ \A d \in Shells :
          /\ IsInjective(backlog[d])
          /\ serving[d] \notin members[d] /\ serving[d] \notin ToSet(backlog[d])
          /\ members[d] \cap ToSet(backlog[d]) = {}
    /\ \A s, d \in Shells : s \in Connections(d) /\ prog[s] = "none" => at[s] \in {"session", "over"}

\* One vgd has a port, and a socket file is its or was an earlier one's.
PortInv ==
    /\ \A d, e \in Shells : HasPort(d) /\ HasPort(e) /\ dport[d] = dport[e] => d = e
    /\ \A p \in Ports : files[p] \in Shells =>
          dport[files[p]] = p /\ daemon[files[p]] \notin {"none", "bound"}

\* All that a program says, and all that vgd says to it.
Sayings(program) ==
    IF program = "vgping" THEN <<"vgping">> ELSE <<"vgseer", "version", "term-title", "title-set">>

Replies(s, program) ==
    CASE program = "vgping" -> <<"yo">>
      [] program # "vgping" /\ s \in Differs ->
            <<"WARNING", "reason", "set-title", "vgexpand-opts">>
      [] OTHER -> <<"OK", "set-title", "vgexpand-opts">>

\* Words of a status.
StatusWords(s) == IF s \in Differs THEN 2 ELSE 1

\* How much of it the program has said and heard at a step, and vgd at a stage.
Said(program, i) ==
    CASE program = "vgping" \/ i <= 3 -> i - 1
      [] program # "vgping" /\ i \in 4..7 -> 3
      [] OTHER -> 4

Got(s, program, i) ==
    CASE program = "vgping" \/ i <= 4 -> 0
      [] program # "vgping" /\ i = 5 -> 1
      [] program # "vgping" /\ i = 6 -> StatusWords(s)
      [] OTHER -> StatusWords(s) + 1

Heard(x) ==
    CASE x = "purpose" -> 0
      [] x \in {"yo", "version"} -> 1
      [] x \in {"answer", "title"} -> 2
      [] x \in {"order", "titled"} -> 3
      [] OTHER -> 4

Told(s, x) ==
    CASE x \in {"title", "order"} -> StatusWords(s)
      [] x \in {"titled", "options"} -> StatusWords(s) + 1
      [] x = "member" -> StatusWords(s) + 2
      [] OTHER -> 0

\* queue has the words after the first i, up to the j-th, and the end if ended.
Has(queue, words, i, j, ended) ==
    /\ i <= j
    /\ Len(queue) = (j - i) + (IF ended THEN 1 ELSE 0)
    /\ \A k \in 1..(j - i) : queue[k] = words[i + k]
    /\ ended => queue[Len(queue)] = "eof"

Gone(d) == d \in Shells /\ daemon[d] = "gone"

\* How far d is with s.
StageOf(s, d) ==
    IF s \in members[d] THEN "member" ELSE IF s = serving[d] THEN stage[d] ELSE "purpose"

StagesOf(program) ==
    IF program = "vgping" THEN {"purpose", "yo"} ELSE (Stages \cup {"member"}) \ {"yo"}

\* A conversation that vgd is at stage x of.
InStep(s, x) ==
    /\ prog[s] # "none" =>
          /\ x \in StagesOf(prog[s])
          /\ Has(link[s].up, Sayings(prog[s]), Heard(x), Said(prog[s], step[s]), FALSE)
          /\ Has(link[s].down, Replies(s, prog[s]), Got(s, prog[s], step[s]), Told(s, x), FALSE)
    /\ at[s] = "session" => x = "member" /\ link[s].up = <<>>
    /\ at[s] = "over" =>
          \E program \in {"vgping", "vgseer"}, k \in 0..4 :
              /\ x \in StagesOf(program) /\ k <= Len(Sayings(program))
              /\ Has(link[s].up, Sayings(program), Heard(x), k, TRUE)

\* One that vgd has ended: a ping only answered, or at its own end.
Ended(s) ==
    \E k \in 0..4 :
        /\ k <= Len(Replies(s, prog[s]))
        /\ Has(link[s].down, Replies(s, prog[s]), Got(s, prog[s], step[s]), k, TRUE)
        /\ prog[s] = "vgping" /\ k = 0 => Gone(link[s].to)
        /\ prog[s] = "vgseer" /\ k = Len(Replies(s, prog[s])) => Gone(link[s].to)

Connected(s) == \E d \in Shells : s \in Connections(d)

TalkInv ==
    /\ \A d \in Shells : \A s \in Connections(d) : InStep(s, StageOf(s, d))
    /\ \A s \in Shells : ~Connected(s) =>
          /\ prog[s] # "none" => Ended(s)
          /\ at[s] = "session" => Gone(link[s].to)
    /\ \A s \in Shells : at[s] = "remove" => link[s].to = NoOne \/ Gone(link[s].to)

\* The inductive invariant: Agreed says of each end what its next word is,
\* TalkInv how all it has said and heard fits what the other has.
IInv == TypeOK /\ RunsInv /\ PlaceInv /\ PortInv /\ TalkInv

=============================================================================
