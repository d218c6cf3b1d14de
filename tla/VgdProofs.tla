----------------------------- MODULE VgdProofs -----------------------------
(***************************************************************************)
(* Proofs about Vgd.                                                       *)
(***************************************************************************)
EXTENDS Vgd, DataLemmas, SequenceTheorems

-----------------------------------------------------------------------------
(* The list of clients has no duplicates.                                  *)

\* Taking a client out leaves the others.
LEMMA WithoutProperties ==
    ASSUME NEW S, NEW s \in Seq(S), IsInjective(s), NEW c \in ToSet(s)
    PROVE  /\ Without(s, c) \in Seq(S)
           /\ IsInjective(Without(s, c))
           /\ ToSet(Without(s, c)) = ToSet(s) \ {c}
<1> DEFINE k == CHOOSE i \in DOMAIN s : s[i] = c
           t == SubSeq(s, 1, k - 1)
           u == SubSeq(s, k + 1, Len(s))
<1>1. k \in DOMAIN s /\ s[k] = c
  BY DEF ToSet
<1>2. DOMAIN s = 1..Len(s) /\ Len(s) \in Nat /\ \A i \in 1..Len(s) : s[i] \in S
  OBVIOUS
<1>3. Without(s, c) = t \o u
  BY DEF Without, RemoveAt
<1> HIDE DEF k
<1>4. t \in Seq(S) /\ Len(t) = k - 1 /\ \A i \in 1..(k - 1) : t[i] = s[i]
  BY <1>1, <1>2, SubSeqProperties
<1>5. u \in Seq(S) /\ Len(u) = Len(s) - k /\ \A i \in 1..(Len(s) - k) : u[i] = s[k + i]
  BY <1>1, <1>2, SubSeqProperties
<1> HIDE DEF t, u
<1> DEFINE r == t \o u
<1>5a. /\ r \in Seq(S)
      /\ Len(r) = Len(t) + Len(u)
      /\ \A i \in 1..(Len(t) + Len(u)) : r[i] = IF i <= Len(t) THEN t[i] ELSE u[i - Len(t)]
  BY <1>4, <1>5, ConcatProperties
<1> HIDE DEF r
<1>6. r \in Seq(S) /\ Len(r) = Len(s) - 1 /\ DOMAIN r = 1..(Len(s) - 1)
  BY <1>1, <1>2, <1>4, <1>5, <1>5a
<1>7. ASSUME NEW i \in 1..(Len(s) - 1)
      PROVE  r[i] = IF i < k THEN s[i] ELSE s[i + 1]
  <2>1. r[i] = IF i <= k - 1 THEN t[i] ELSE u[i - (k - 1)]
    BY <1>1, <1>2, <1>4, <1>5, <1>5a
  <2>2. CASE i < k
    BY <2>1, <2>2, <1>1, <1>2, <1>4
  <2>3. CASE i >= k
    <3>1. i - (k - 1) \in 1..(Len(s) - k) /\ k + (i - (k - 1)) = i + 1
      BY <2>3, <1>1, <1>2
    <3> QED
      BY <2>1, <2>3, <3>1, <1>1, <1>2, <1>5
  <2> QED
    BY <2>2, <2>3, <1>1, <1>2
<1>8. IsInjective(r)
  <2> SUFFICES ASSUME NEW a \in 1..(Len(s) - 1), NEW b \in 1..(Len(s) - 1), r[a] = r[b]
               PROVE  a = b
    BY <1>6 DEF IsInjective
  <2> DEFINE at(i) == IF i < k THEN i ELSE i + 1
  <2>1. at(a) \in DOMAIN s /\ at(b) \in DOMAIN s
    BY <1>1, <1>2
  <2>2. r[a] = s[at(a)] /\ r[b] = s[at(b)]
    BY <1>7
  <2>3. at(a) = at(b)
    <3> HIDE DEF at
    <3> QED
      BY <2>1, <2>2 DEF IsInjective
  <2> QED
    BY <2>3, <1>1, <1>2
<1>9. ToSet(r) = ToSet(s) \ {c}
  <2>1. ASSUME NEW i \in 1..(Len(s) - 1)
        PROVE  r[i] \in ToSet(s) \ {c}
    <3>1. i \in DOMAIN s /\ i + 1 \in DOMAIN s
      BY <1>2
    <3>2. i < k => s[i] # c
      BY <3>1, <1>1, <1>2 DEF IsInjective
    <3>3. ~(i < k) => s[i + 1] # c
      BY <3>1, <1>1, <1>2 DEF IsInjective
    <3> QED
      BY <3>1, <3>2, <3>3, <1>7 DEF ToSet
  <2>2. ASSUME NEW i \in 1..Len(s), s[i] # c
        PROVE  s[i] \in ToSet(r)
    <3>1. i < k \/ i > k
      BY <2>2, <1>1, <1>2
    <3>2. CASE i < k
      BY <3>2, <1>1, <1>2, <1>6, <1>7, i \in 1..(Len(s) - 1) DEF ToSet
    <3>3. CASE i > k
      <4>1. i - 1 \in 1..(Len(s) - 1) /\ ~(i - 1 < k) /\ (i - 1) + 1 = i
        BY <3>3, <1>1, <1>2
      <4>2. r[i - 1] = s[i]
        BY <4>1, <1>7
      <4> QED
        BY <4>1, <4>2, <1>6 DEF ToSet
    <3> QED BY <3>1, <3>2, <3>3
  <2> QED
    BY <2>1, <2>2, <1>2, <1>6 DEF ToSet
<1> QED
  BY <1>3, <1>6, <1>8, <1>9 DEF r

-----------------------------------------------------------------------------
(* What the helpers of the handlers do.                                    *)

\* The values a handler stores and sends have their types.
LEMMA RecordTypes ==
    /\ NewShell \in Shells
    /\ NoView \in Views
    /\ Shells \subseteq Views
    /\ \A w \in Windows : [NoView EXCEPT !.win = w] \in Views
    /\ \A x \in Shells : \A t, u \in Texts :
          /\ [x EXCEPT !.cli = t] \in Shells
          /\ [x EXCEPT !.expanded = t] \in Shells
          /\ [x EXCEPT !.developing_mask = t] \in Shells
          /\ [x EXCEPT !.developing_mask = t, !.mask = u] \in Shells
    /\ \A x \in Views : \A t, u \in Texts :
          /\ [x EXCEPT !.cli = t] \in Views
          /\ [x EXCEPT !.expanded = t] \in Views
          /\ [x EXCEPT !.developing_mask = t] \in Views
          /\ [x EXCEPT !.developing_mask = t, !.mask = u] \in Views
    /\ \A x \in Shells, st \in Statuses : [x EXCEPT !.status = st] \in Shells
    /\ \A x \in Views, st \in Statuses : [x EXCEPT !.status = st] \in Views
    /\ \A x \in Shells, w \in Windows : [x EXCEPT !.win = w] \in Shells
    /\ \A x \in Views, w \in Windows : [x EXCEPT !.win = w] \in Views
<1>1. NewShell \in Shells
  BY VgdAssumption DEF NewShell, Shells, Statuses
<1>2. NoView \in Views
  BY DEF NoView, Views
<1>3. Shells \subseteq Views
  BY DEF Shells, Views
<1>4. \A w \in Windows : [NoView EXCEPT !.win = w] \in Views
  BY DEF NoView, Views
<1>5. ASSUME NEW x \in Shells, NEW t \in Texts, NEW u \in Texts
      PROVE  /\ [x EXCEPT !.cli = t] \in Shells
             /\ [x EXCEPT !.expanded = t] \in Shells
             /\ [x EXCEPT !.developing_mask = t] \in Shells
             /\ [x EXCEPT !.developing_mask = t, !.mask = u] \in Shells
  BY DEF Shells
<1>6. ASSUME NEW x \in Views, NEW t \in Texts, NEW u \in Texts
      PROVE  /\ [x EXCEPT !.cli = t] \in Views
             /\ [x EXCEPT !.expanded = t] \in Views
             /\ [x EXCEPT !.developing_mask = t] \in Views
             /\ [x EXCEPT !.developing_mask = t, !.mask = u] \in Views
  BY DEF Views
<1>7. ASSUME NEW st \in Statuses
      PROVE  /\ \A x \in Shells : [x EXCEPT !.status = st] \in Shells
             /\ \A x \in Views : [x EXCEPT !.status = st] \in Views
  BY DEF Shells, Views
<1>8. ASSUME NEW w \in Windows
      PROVE  /\ \A x \in Shells : [x EXCEPT !.win = w] \in Shells
             /\ \A x \in Views : [x EXCEPT !.win = w] \in Views
  BY DEF Shells, Views
<1> QED
  BY <1>1, <1>2, <1>3, <1>4, <1>5, <1>6, <1>7, <1>8

\* How a handler that exits only by SIGPIPE leaves exit.
RunsOrIsKilled == exit' = "running" \/ (exit' = "sigpipe" /\ pc' = "exited")

\* Writing to the display.
LEMMA TellProperties ==
    ASSUME NEW d, NEW v \in Views, NEW next, view \in Views, exit = "running",
           Tell(d, v, next)
    PROVE  view' \in Views /\ pc' \in {next, "exited"} /\ RunsOrIsKilled
  BY DEF Tell, Killed, RunsOrIsKilled

\* Starting a display.
LEMMA ForkProperties ==
    ASSUME NEW tells \in BOOLEAN, NEW v \in Views, TypeOK, exit = "running",
           child_fork(tells, v)
    PROVE  /\ display' \in {"off", "up", "dead"}
           /\ view' \in Views
           /\ chatter' \in 0..MaxPending
           /\ result' \in {"none", "failure"}
           /\ pc' \in {"serve", "die", "exited"}
           /\ pc' = "die" => result' = "failure"
           /\ RunsOrIsKilled
<1>1. chatter' \in 0..MaxPending
  BY VgdAssumption DEF child_fork
<1> QED
  BY <1>1, RecordTypes
  DEF child_fork, die, Killed, RunsOrIsKilled, TypeOK

\* Dropping a client: it leaves the list, the display goes with the last one,
\* and another one, if there is one, is current.
LEMMA DropProperties ==
    ASSUME IInv, exit = "running", NEW c \in Connected, NEW next,
           drop_client(c, next)
    PROVE  /\ clients' \in Seq(Clients)
           /\ CurrentIsClient'
           /\ Connected' = Connected \ {c}
           /\ shell' \in [Clients -> Shells]
           /\ alive' \in [Clients -> BOOLEAN]
           /\ pending' \in [Clients -> 0..MaxPending]
           /\ current' \in Clients \cup {None}
           /\ display' \in {"off", "up", "dead"}
           /\ DisplayHasClient'
           /\ view' \in Views
           /\ pc' \in {next, "exited"}
           /\ RunsOrIsKilled \/ (exit' = "success" /\ pc' = "exited")
           /\ OrderlyExit'
<1> DEFINE rest == Without(clients, c)
<1>1. /\ rest \in Seq(Clients)
      /\ IsInjective(rest)
      /\ ToSet(rest) = Connected \ {c}
  BY WithoutProperties DEF IInv, TypeOK, CurrentIsClient, Connected
<1>2. clients' = rest /\ current' = CurrentAfter(c, rest)
  BY DEF drop_client
<1>3. /\ ToSet(rest) \subseteq Clients
      /\ rest = <<>> <=> ToSet(rest) = {}
      /\ rest # <<>> => Head(rest) \in ToSet(rest)
  BY <1>1, EmptyList
<1>4. clients # <<>> /\ current \in Connected /\ Connected \subseteq Clients
  BY EmptyList DEF IInv, TypeOK, CurrentIsClient, Connected
<1> HIDE DEF rest
<1>5. Connected' = Connected \ {c}
  BY <1>1, <1>2 DEF Connected
<1>6. /\ rest = <<>> => current' = None
      /\ rest # <<>> => current' \in Connected'
  BY <1>1, <1>2, <1>3, <1>4, <1>5 DEF CurrentAfter
<1>7. CurrentIsClient' /\ current' \in Clients \cup {None}
  BY <1>1, <1>2, <1>4, <1>5, <1>6 DEF CurrentIsClient
<1>8. /\ shell' \in [Clients -> Shells]
      /\ alive' \in [Clients -> BOOLEAN]
      /\ pending' \in [Clients -> 0..MaxPending]
  <2>1. 0 \in 0..MaxPending
    BY VgdAssumption
  <2> QED
    BY <2>1, RecordTypes DEF drop_client, IInv, TypeOK
<1>9. CASE rest = <<>>
  <2>1. child_terminate /\ LastClientLeft(next)
    BY <1>9 DEF drop_client, rest
  <2>2. display' = "off" /\ view' \in Views
    BY <2>1, RecordTypes DEF child_terminate
  <2>3. /\ pc' \in {next, "exited"}
        /\ RunsOrIsKilled \/ (exit' = "success" /\ pc' = "exited" /\ ~Persistent)
    BY <2>1 DEF LastClientLeft, RunsOrIsKilled
  <2> QED
    BY <2>2, <2>3, <1>1, <1>2, <1>5, <1>7, <1>8, <1>9
    DEF DisplayHasClient, DisplayRunning, OrderlyExit, RunsOrIsKilled
<1>10. CASE rest # <<>>
  <2>1. /\ display' = display
        /\ \/ Tell(display, shell[current'], next)
           \/ Tell("off", view, next)
    BY <1>10 DEF drop_client, context_switch, rest
  <2>2. view \in Views /\ shell[current'] \in Views
    BY <1>10, <1>4, <1>5, <1>6, RecordTypes DEF IInv, TypeOK
  <2>3. view' \in Views /\ pc' \in {next, "exited"} /\ RunsOrIsKilled
    BY <2>1, <2>2, TellProperties
  <2> QED
    BY <2>1, <2>3, <1>1, <1>2, <1>5, <1>7, <1>8, <1>10
    DEF DisplayHasClient, OrderlyExit, RunsOrIsKilled, IInv, TypeOK
<1> QED
  BY <1>9, <1>10

-----------------------------------------------------------------------------
(* Every action keeps the invariant.                                       *)

\* The conjuncts of the invariant that speak of lists and places only, when
\* an action changes none of them.
LEMMA ListsUnchanged ==
    ASSUME IInv, UNCHANGED <<clients, current, backlog, shaking>>
    PROVE  /\ CurrentIsClient'
           /\ OnePlace'
           /\ Connected' = Connected
           /\ clients' \in Seq(Clients)
           /\ current' \in Clients \cup {None}
           /\ backlog' \in [Sockets -> Seq(Clients)]
           /\ shaking' \in Clients \cup {None}
  BY DEF IInv, TypeOK, CurrentIsClient, OnePlace, Connected

\* The poll loop itself.
LEMMA PollStep ==
    ASSUME IInv, Poll \/ PollFails
    PROVE  IInv'
<1>1. CurrentIsClient' /\ OnePlace'
  BY ListsUnchanged DEF Poll, PollFails, daemonVars, worldVars
<1>2. Connected \subseteq Clients
  BY EmptyList DEF IInv, TypeOK, Connected
<1>3. TypeOK'
  BY <1>2 DEF Poll, PollFails, Polled, die, IInv, TypeOK, daemonVars,
              displayVars, worldVars
<1>4. DisplayHasClient' /\ OrderlyExit'
  BY DEF Poll, PollFails, die, IInv, DisplayHasClient, DisplayRunning,
         OrderlyExit, daemonVars, displayVars
<1>5. LoopInv'
  BY <1>2, VgdAssumption
  DEF Poll, PollFails, Polled, die, IInv, LoopInv, daemonVars, worldVars
<1> QED
  BY <1>1, <1>3, <1>4, <1>5 DEF IInv

\* Accepting a connection moves it from a backlog to new_client's hands.
LEMMA AcceptStep ==
    ASSUME IInv, NEW s \in Sockets, Accept(s) \/ AcceptFails(s)
    PROVE  IInv'
<1>1. CASE Accept(s)
  <2>1. pc = "serve" /\ s \in ready /\ backlog[s] # <<>> /\ exit = "running"
    BY <1>1 DEF Accept, ServesSocket, IInv, LoopInv
  <2>2. backlog[s] \in Seq(Clients) /\ IsInjective(backlog[s])
    BY DEF IInv, TypeOK, OnePlace
  <2> DEFINE h == Head(backlog[s])
             t == Tail(backlog[s])
  <2>3. /\ h \in Clients
        /\ h \in ToSet(backlog[s])
        /\ t \in Seq(Clients)
        /\ IsInjective(t)
        /\ ToSet(t) = ToSet(backlog[s]) \ {h}
    BY <2>1, <2>2, TailProperties
  <2> HIDE DEF h, t
  <2>4. shaking' = h /\ backlog' = [backlog EXCEPT ![s] = t] /\ clients' = clients
    BY <1>1 DEF Accept, h, t
  <2>5. TypeOK'
    BY <1>1, <2>3, <2>4 DEF Accept, IInv, TypeOK, displayVars
  <2>6. OnePlace'
    BY <2>3, <2>4 DEF IInv, TypeOK, OnePlace, Connected
  <2>7. CurrentIsClient' /\ DisplayHasClient' /\ OrderlyExit'
    BY <1>1, <2>1 DEF Accept, IInv, CurrentIsClient, DisplayHasClient,
                 DisplayRunning, OrderlyExit, Connected, displayVars
  <2>8. LoopInv'
    BY <1>1, <2>1, <2>3, <2>4 DEF Accept, IInv, TypeOK, LoopInv
  <2> QED
    BY <2>5, <2>6, <2>7, <2>8 DEF IInv
<1>2. CASE AcceptFails(s)
  <2>1. CurrentIsClient' /\ OnePlace'
    BY <1>2, ListsUnchanged DEF AcceptFails, daemonVars, worldVars
  <2>2. TypeOK' /\ DisplayHasClient' /\ OrderlyExit' /\ LoopInv'
    BY <1>2 DEF AcceptFails, IInv, TypeOK, DisplayHasClient, DisplayRunning,
                OrderlyExit, LoopInv, daemonVars, displayVars, worldVars
  <2> QED
    BY <2>1, <2>2 DEF IInv
<1> QED
  BY <1>1, <1>2

\* new_client: the client is added to the list, or let go.
LEMMA NewVgseerClientStep ==
    ASSUME IInv, NEW w \in Windows, NewVgseerClient(w)
    PROVE  IInv'
<1> DEFINE v == shaking
           fresh == [NoView EXCEPT !.win = w]
<1>1. /\ pc = "handshake" /\ exit = "running" /\ v \in Clients
      /\ v \notin Connected
      /\ \A s \in Sockets : v \notin ToSet(backlog[s])
  BY DEF NewVgseerClient, IInv, LoopInv, OnePlace
<1>2. /\ clients' = <<v>> \o clients
      /\ shaking' = None
      /\ current' = IF clients = <<>> THEN v ELSE current
      /\ shell' = [shell EXCEPT ![v].win = w]
      /\ UNCHANGED <<currentIsActive, ready, backlog, alive, pending, activeWindow>>
  BY DEF NewVgseerClient, worldVars
<1>3. /\ clients' \in Seq(Clients)
      /\ clients' # <<>>
      /\ IsInjective(clients')
      /\ Connected' = Connected \cup {v}
  BY <1>1, <1>2, PrependProperties DEF IInv, TypeOK, CurrentIsClient, Connected
<1>4. CurrentIsClient' /\ current' \in Clients
  BY <1>1, <1>2, <1>3, EmptyList DEF IInv, TypeOK, CurrentIsClient, Connected
<1>5. shell' \in [Clients -> Shells]
  BY <1>1, <1>2, RecordTypes DEF IInv, TypeOK
<1>6. None \notin Clients
  BY VgdAssumption
<1>7. OnePlace'
  <2>1. Connected \subseteq Clients /\ \A s \in Sockets : ToSet(backlog[s]) \subseteq Clients
    BY EmptyList DEF IInv, TypeOK, Connected
  <2> QED
    BY <2>1, <1>1, <1>2, <1>3, <1>6 DEF IInv, OnePlace
<1>8. \/ pc' = "serve" /\ UNCHANGED <<displayVars, result, exit>>
      \/ child_fork(current' = v, fresh)
  BY DEF NewVgseerClient
<1>9. /\ display' \in {"off", "up", "dead"}
      /\ view' \in Views
      /\ chatter' \in 0..MaxPending
      /\ result' \in {"none", "failure"}
      /\ pc' \in {"serve", "die", "exited"}
      /\ pc' = "die" => result' = "failure"
      /\ RunsOrIsKilled
  <2>1. CASE pc' = "serve" /\ UNCHANGED <<displayVars, result, exit>>
    BY <2>1, <1>1 DEF IInv, TypeOK, displayVars, RunsOrIsKilled
  <2>2. CASE child_fork(current' = v, fresh)
    BY <2>2, <1>1, ForkProperties, RecordTypes, (current' = v) \in BOOLEAN DEF IInv
  <2> QED
    BY <2>1, <2>2, <1>8
<1>10. TypeOK'
  BY <1>2, <1>3, <1>4, <1>5, <1>9 DEF IInv, TypeOK, RunsOrIsKilled
<1>11. LoopInv'
  BY <1>1, <1>2, <1>9 DEF IInv, LoopInv, RunsOrIsKilled
<1>12. DisplayHasClient' /\ OrderlyExit'
  BY <1>3, <1>9 DEF DisplayHasClient, OrderlyExit, RunsOrIsKilled
<1> QED
  BY <1>4, <1>7, <1>10, <1>11, <1>12 DEF IInv

LEMMA HandshakeEnds ==
    ASSUME IInv, TurnAway \/ HandshakeKills
    PROVE  IInv'
<1>1. pc = "handshake" /\ exit = "running" /\ shaking \in Clients
  BY DEF TurnAway, HandshakeKills, IInv, LoopInv
<1>2. /\ UNCHANGED <<clients, current, currentIsActive, shell, displayVars,
                     ready, result, backlog, pending, activeWindow>>
      /\ shaking' \in {None, shaking}
      /\ alive' \in [Clients -> BOOLEAN]
      /\ pc' = "serve" \/ pc' = "exited"
      /\ RunsOrIsKilled
  BY <1>1 DEF TurnAway, HandshakeKills, Killed, IInv, TypeOK, daemonVars,
              worldVars, RunsOrIsKilled
<1>3. TypeOK'
  BY <1>1, <1>2 DEF IInv, TypeOK, displayVars, RunsOrIsKilled
<1>4. None \notin Clients /\ Connected \subseteq Clients
      /\ \A s \in Sockets : ToSet(backlog[s]) \subseteq Clients
  BY VgdAssumption, EmptyList DEF IInv, TypeOK, Connected
<1>5. CurrentIsClient' /\ OnePlace'
  BY <1>2, <1>4 DEF IInv, CurrentIsClient, OnePlace, Connected
<1>6. DisplayHasClient' /\ OrderlyExit' /\ LoopInv'
  BY <1>1, <1>2 DEF IInv, DisplayHasClient, DisplayRunning, OrderlyExit,
                    LoopInv, displayVars, RunsOrIsKilled
<1> QED
  BY <1>3, <1>5, <1>6 DEF IInv

\* process_display while the clients stay as they are.
LEMMA DisplayStep ==
    ASSUME IInv, DisplayMalformed \/ DisplayIgnored \/ DisplayEOF
    PROVE  IInv'
<1>1. /\ pc = "serve" /\ exit = "running" /\ DisplayRunning /\ clients # <<>>
      /\ ready' = ready \ {"display"}
      /\ UNCHANGED <<daemonVars, worldVars>>
  BY DEF DisplayMalformed, DisplayIgnored, DisplayEOF, ReadDisplay,
         ServesDisplay, IInv, LoopInv, DisplayHasClient
<1>2. CurrentIsClient' /\ OnePlace'
  BY <1>1, ListsUnchanged DEF daemonVars, worldVars
<1>3. /\ display' \in {"off", "up", "dead"}
      /\ view' \in Views
      /\ chatter' \in 0..MaxPending
      /\ result' \in {"none", "failure"}
      /\ pc' \in {"serve", "die", "exited"}
      /\ pc' = "die" => result' = "failure"
      /\ RunsOrIsKilled
  <2>1. CASE DisplayMalformed
    BY <2>1, <1>1, ForkProperties, RecordTypes DEF DisplayMalformed, IInv
  <2>2. CASE DisplayIgnored
    BY <2>2, <1>1, VgdAssumption
    DEF DisplayIgnored, ReadDisplay, IInv, TypeOK, RunsOrIsKilled
  <2>3. CASE DisplayEOF
    BY <2>3, <1>1, RecordTypes
    DEF DisplayEOF, child_terminate, IInv, TypeOK, RunsOrIsKilled
  <2> QED
    BY <2>1, <2>2, <2>3
<1>4. TypeOK'
  BY <1>1, <1>3 DEF IInv, TypeOK, daemonVars, worldVars, RunsOrIsKilled
<1>5. DisplayHasClient' /\ OrderlyExit' /\ LoopInv'
  BY <1>1, <1>3, VgdAssumption
  DEF IInv, DisplayHasClient, OrderlyExit, LoopInv, daemonVars, worldVars,
      RunsOrIsKilled
<1> QED
  BY <1>2, <1>4, <1>5 DEF IInv

\* Dropping a client, wherever the loop is.
LEMMA DropStep ==
    ASSUME IInv, exit = "running", NEW c \in Connected,
           NEW next \in {"serve", "die"}, next = "die" => result = "failure",
           drop_client(c, next), chatter' \in 0..MaxPending,
           ready' \subseteq ready,
           UNCHANGED <<currentIsActive, shaking, result, backlog, activeWindow>>
    PROVE  IInv'
<1>1. /\ clients' \in Seq(Clients)
      /\ CurrentIsClient'
      /\ Connected' = Connected \ {c}
      /\ shell' \in [Clients -> Shells]
      /\ alive' \in [Clients -> BOOLEAN]
      /\ pending' \in [Clients -> 0..MaxPending]
      /\ current' \in Clients \cup {None}
      /\ display' \in {"off", "up", "dead"}
      /\ DisplayHasClient'
      /\ view' \in Views
      /\ pc' \in {next, "exited"}
      /\ RunsOrIsKilled \/ (exit' = "success" /\ pc' = "exited")
      /\ OrderlyExit'
  BY DropProperties
<1>2. TypeOK'
  BY <1>1 DEF IInv, TypeOK, RunsOrIsKilled
<1>3. OnePlace'
  BY <1>1 DEF IInv, OnePlace
<1>4. LoopInv'
  BY <1>1 DEF IInv, LoopInv, RunsOrIsKilled
<1> QED
  BY <1>1, <1>2, <1>3, <1>4 DEF IInv

\* process_display passing a key or a file name on.
LEMMA DisplayInputStep ==
    ASSUME IInv, DisplayInput
    PROVE  IInv'
<1>1. /\ pc = "serve" /\ exit = "running" /\ DisplayRunning
      /\ ready' = ready \ {"display"}
      /\ chatter > 0 /\ chatter' = chatter - 1
      /\ UNCHANGED <<result, backlog, activeWindow>>
  BY DEF DisplayInput, ReadDisplay, ServesDisplay, IInv, LoopInv
<1>2. chatter' \in 0..MaxPending
  BY <1>1, VgdAssumption DEF IInv, TypeOK
<1>3. current \in Connected
  BY <1>1 DEF IInv, CurrentIsClient, DisplayHasClient
<1>4. CASE /\ drop_client(current, "serve")
           /\ UNCHANGED <<currentIsActive, shaking>>
  BY <1>1, <1>2, <1>3, <1>4, DropStep
<1>5. CASE /\ UNCHANGED <<daemonVars, display, view, alive, pending>>
           /\ \/ UNCHANGED <<pc, exit>>
              \/ Killed
  <2>1. CurrentIsClient' /\ OnePlace'
    BY <1>1, <1>5, ListsUnchanged DEF daemonVars
  <2>2. TypeOK'
    BY <1>1, <1>2, <1>5 DEF IInv, TypeOK, Killed, daemonVars
  <2>3. DisplayHasClient' /\ OrderlyExit' /\ LoopInv'
    BY <1>1, <1>5 DEF IInv, DisplayHasClient, DisplayRunning, OrderlyExit,
                      LoopInv, Killed, daemonVars
  <2> QED
    BY <2>1, <2>2, <2>3 DEF IInv
<1> QED
  BY <1>4, <1>5 DEF DisplayInput

\* process_client: what every message a handler stores does.
LEMMA StoreStep ==
    ASSUME IInv, NEW c \in Clients, NEW m, Receive(c, m),
           NEW new \in Shells, NEW v \in Views, Store(c, new, v)
    PROVE  IInv'
<1>1. /\ pc = "serve" /\ exit = "running" /\ ready' = {} /\ pending[c] > 0
      /\ shell' = [shell EXCEPT ![c] = new]
      /\ pending' = [pending EXCEPT ![c] = @ - 1]
      /\ UNCHANGED <<clients, current, currentIsActive, shaking, display,
                     chatter, result, backlog, alive, activeWindow>>
  BY DEF Store, Receive, ServesClient, IInv, LoopInv
<1>2. view' \in Views /\ pc' \in {"serve", "exited"} /\ RunsOrIsKilled
  BY <1>1, TellProperties DEF Store, update_display, IInv, TypeOK
<1>3. CurrentIsClient' /\ OnePlace'
  BY <1>1, ListsUnchanged
<1>4. pending' \in [Clients -> 0..MaxPending]
  BY <1>1, VgdAssumption DEF IInv, TypeOK
<1>5. TypeOK'
  BY <1>1, <1>2, <1>4 DEF IInv, TypeOK, RunsOrIsKilled
<1>6. DisplayHasClient' /\ OrderlyExit' /\ LoopInv'
  BY <1>1, <1>2 DEF IInv, DisplayHasClient, DisplayRunning, OrderlyExit,
                    LoopInv, RunsOrIsKilled
<1> QED
  BY <1>3, <1>5, <1>6 DEF IInv

\* ... and what one it ignores does.
LEMMA DiscardStep ==
    ASSUME IInv, NEW c \in Clients, NEW m, Receive(c, m), Discard(c)
    PROVE  IInv'
<1>1. /\ ready' = {} /\ pending[c] > 0
      /\ pending' = [pending EXCEPT ![c] = @ - 1]
      /\ UNCHANGED <<daemonVars, displayVars, pc, result, exit, backlog, alive,
                     activeWindow>>
  BY DEF Discard, Receive
<1>2. CurrentIsClient' /\ OnePlace'
  BY <1>1, ListsUnchanged DEF daemonVars
<1>3. pending' \in [Clients -> 0..MaxPending]
  BY <1>1, VgdAssumption DEF IInv, TypeOK
<1>4. TypeOK'
  BY <1>1, <1>3 DEF IInv, TypeOK, daemonVars, displayVars
<1>5. DisplayHasClient' /\ OrderlyExit' /\ LoopInv'
  BY <1>1 DEF IInv, DisplayHasClient, DisplayRunning, OrderlyExit, LoopInv,
              daemonVars, displayVars
<1> QED
  BY <1>2, <1>4, <1>5 DEF IInv

\* The messages whose value is stored: each is Store or Discard.
LEMMA ClientReportStep ==
    ASSUME IInv, NEW c \in Clients, NEW m \in Messages,
           \/ ClientStatus(c, m) \/ ClientText(c, m) \/ ClientMask(c, m)
           \/ ClientPwd(c, m) \/ OrderOther(c, m)
    PROVE  IInv'
<1>1. m \in ClientMessages /\ Receive(c, m) /\ shell[c] \in Shells /\ view \in Views
      /\ Empty \in Texts
  BY VgdAssumption DEF ClientStatus, ClientText, ClientMask, ClientPwd,
                       OrderOther, IInv, TypeOK
<1>2. CASE ClientStatus(c, m)
  <2>1. m.value \in Statuses
    BY <1>1, <1>2 DEF ClientStatus, ClientMessages
  <2>2. /\ [shell[c] EXCEPT !.status = m.value] \in Shells
        /\ [view EXCEPT !.status = m.value] \in Views
    BY <1>1, <2>1, RecordTypes
  <2> QED
    BY <1>1, <1>2, <2>2, StoreStep, DiscardStep DEF ClientStatus
<1>3. CASE ClientText(c, m)
  <2> DEFINE f == TextField[m.param]
             new == [shell[c] EXCEPT ![f] = m.value]
             v == [view EXCEPT ![f] = m.value]
  <2>1. m.value \in Texts /\ f \in {"cli", "developing_mask", "expanded"}
    BY <1>1, <1>3 DEF ClientText, ClientMessages, TextField
  <2>2. new \in Shells /\ v \in Views
    <3> HIDE DEF f
    <3>1. CASE f = "cli"
      BY <3>1, <2>1, <1>1 DEF Shells, Views
    <3>2. CASE f = "developing_mask"
      BY <3>2, <2>1, <1>1 DEF Shells, Views
    <3>3. CASE f = "expanded"
      BY <3>3, <2>1, <1>1 DEF Shells, Views
    <3> QED BY <3>1, <3>2, <3>3, <2>1
  <2>3. Store(c, new, v)
    BY <1>3 DEF ClientText
  <2> HIDE DEF new, v
  <2> QED
    BY <1>1, <2>2, <2>3, StoreStep
<1>4. CASE ClientMask(c, m)
  <2>1. m.value \in Texts
    BY <1>1, <1>4 DEF ClientMask, ClientMessages
  <2>2. /\ [shell[c] EXCEPT !.developing_mask = Empty, !.mask = m.value] \in Shells
        /\ [view EXCEPT !.developing_mask = Empty, !.mask = m.value] \in Views
    BY <1>1, <2>1, RecordTypes
  <2> QED
    BY <1>1, <1>4, <2>2, StoreStep DEF ClientMask
<1>5. CASE ClientPwd(c, m)
  BY <1>1, <1>5, DiscardStep DEF ClientPwd
<1>6. CASE OrderOther(c, m)
  BY <1>1, <1>6, StoreStep DEF OrderOther
<1> QED
  BY <1>2, <1>3, <1>4, <1>5, <1>6

\* The user's orders that concern vgd itself.
LEMMA OrderStep ==
    ASSUME IInv, NEW c \in Clients, NEW m \in Messages,
           OrderRefocus(c, m) \/ OrderToggle(c, m)
    PROVE  IInv'
<1>1. /\ pc = "serve" /\ exit = "running" /\ ready' = {} /\ pending[c] > 0
      /\ pending' = [pending EXCEPT ![c] = @ - 1]
      /\ UNCHANGED <<clients, currentIsActive, shell, shaking, backlog, alive,
                     activeWindow>>
  BY DEF OrderRefocus, OrderToggle, Receive, ServesClient, IInv, LoopInv,
         daemonVars
<1>2. c \in Connected /\ clients # <<>> /\ current \in Clients
  <2>1. c \in Connected
    BY DEF OrderRefocus, OrderToggle, Receive, ServesClient, Connected, ToSet
  <2> QED
    BY <2>1, EmptyList DEF IInv, TypeOK, CurrentIsClient, Connected
<1>3. pending' \in [Clients -> 0..MaxPending]
  BY <1>1, VgdAssumption DEF IInv, TypeOK
<1>4. shell[c] \in Views /\ shell[current] \in Views /\ view \in Views
  BY <1>2, RecordTypes DEF IInv, TypeOK
<1>5. /\ current' \in {c, current}
      /\ display' \in {"off", "up", "dead"}
      /\ view' \in Views
      /\ chatter' \in 0..MaxPending
      /\ result' \in {"none", "failure"}
      /\ pc' \in {"serve", "die", "exited"}
      /\ pc' = "die" => result' = "failure"
      /\ RunsOrIsKilled
  <2>1. CASE OrderRefocus(c, m)
    <3>1. Tell(display, IF current = c THEN view ELSE shell[c], "serve")
      BY <2>1 DEF OrderRefocus, context_switch
    <3>2. view' \in Views /\ pc' \in {"serve", "exited"} /\ RunsOrIsKilled
      BY <3>1, <1>1, <1>4, TellProperties
    <3> QED
      BY <2>1, <3>2 DEF OrderRefocus, IInv, TypeOK
  <2>2. CASE OrderToggle(c, m)
    <3>1. CASE DisplayRunning
      BY <2>2, <3>1, <1>1, RecordTypes
      DEF OrderToggle, child_terminate, IInv, TypeOK, RunsOrIsKilled, daemonVars
    <3>2. CASE ~DisplayRunning
      <4>1. child_fork(TRUE, shell[current]) /\ current' = current
        BY <2>2, <3>2 DEF OrderToggle, daemonVars
      <4> QED
        BY <4>1, <1>1, <1>4, ForkProperties DEF IInv
    <3> QED BY <3>1, <3>2
  <2> QED BY <2>1, <2>2
<1>6. TypeOK'
  BY <1>1, <1>2, <1>3, <1>5 DEF IInv, TypeOK, RunsOrIsKilled
<1>7. CurrentIsClient' /\ OnePlace'
  BY <1>1, <1>2, <1>5 DEF IInv, CurrentIsClient, OnePlace, Connected
<1>8. DisplayHasClient' /\ OrderlyExit' /\ LoopInv'
  BY <1>1, <1>2, <1>5 DEF IInv, DisplayHasClient, OrderlyExit, LoopInv,
                          RunsOrIsKilled
<1> QED
  BY <1>6, <1>7, <1>8 DEF IInv

\* process_client.
LEMMA ProcessClientStep ==
    ASSUME IInv, NEW c \in Clients, ProcessClient(c)
    PROVE  IInv'
<1>1. CASE DropClient(c)
  <2>1. /\ pc = "serve" /\ exit = "running" /\ c \in Connected /\ ready' = {}
    BY <1>1 DEF DropClient, Receive, ServesClient, IInv, LoopInv, Connected, ToSet
  <2>2. /\ drop_client(c, "serve")
        /\ UNCHANGED <<currentIsActive, shaking, chatter, result, backlog,
                       activeWindow>>
    BY <1>1 DEF DropClient
  <2> QED
    BY <2>1, <2>2, DropStep DEF IInv, TypeOK
<1>2. CASE ~DropClient(c)
  <2>1. PICK m \in Messages :
           \/ ClientStatus(c, m) \/ ClientText(c, m) \/ ClientMask(c, m)
           \/ ClientPwd(c, m) \/ OrderRefocus(c, m) \/ OrderToggle(c, m)
           \/ OrderOther(c, m)
    BY <1>2 DEF ProcessClient
  <2>2. CASE OrderRefocus(c, m) \/ OrderToggle(c, m)
    BY <2>2, OrderStep
  <2>3. CASE ~(OrderRefocus(c, m) \/ OrderToggle(c, m))
    BY <2>1, <2>3, ClientReportStep
  <2> QED BY <2>2, <2>3
<1> QED
  BY <1>1, <1>2

\* check_active_window.
LEMMA CheckActiveWindowStep ==
    ASSUME IInv, CheckActiveWindow
    PROVE  IInv'
<1>1. /\ pc = "serve" /\ exit = "running" /\ ready' = {}
      /\ UNCHANGED <<clients, shell, shaking, display, chatter, result, worldVars>>
  BY DEF CheckActiveWindow, EndsRound, IInv, LoopInv
<1>2. /\ currentIsActive' \in BOOLEAN
      /\ current' = current \/ (current' \in Connected /\ clients # <<>>)
      /\ view' \in Views
      /\ pc' \in {"poll", "exited"}
      /\ RunsOrIsKilled
  <2>1. CASE clients = <<>>
    BY <2>1, <1>1 DEF CheckActiveWindow, NobodyToCheck, IInv, TypeOK, RunsOrIsKilled
  <2>2. CASE clients # <<>>
    <3>1. current \in Clients /\ shell[current] \in Shells /\ view \in Views
      BY <2>2, EmptyList DEF IInv, TypeOK, CurrentIsClient, Connected
    <3>2. CASE CurrentHasFocus
      <4>1. [view EXCEPT !.win = shell[current].win] \in Views
        BY <3>1 DEF Shells, Views
      <4> QED
        BY <3>1, <3>2, <4>1, <1>1, TellProperties DEF CurrentHasFocus
    <3>3. CASE FocusElsewhere
      BY <3>1, <3>3, <1>1, TellProperties DEF FocusElsewhere
    <3>4. CASE SwitchToActive
      <4>1. PICK i \in InWindow(activeWindow) :
               current' = clients[i] /\ Tell(display, shell[clients[i]], "poll")
        BY <3>4 DEF SwitchToActive, context_switch
      <4>2. clients[i] \in Connected /\ clients[i] \in Clients
        BY <4>1 DEF InWindow, Connected, ToSet, IInv, TypeOK
      <4>3. shell[clients[i]] \in Views
        BY <4>2, RecordTypes DEF IInv, TypeOK
      <4>4. view' \in Views /\ pc' \in {"poll", "exited"} /\ RunsOrIsKilled
        BY <4>1, <4>3, <3>1, <1>1, TellProperties
      <4> QED
        BY <4>1, <4>2, <4>4, <2>2, <3>4 DEF SwitchToActive
    <3> QED
      BY <2>2, <3>2, <3>3, <3>4 DEF CheckActiveWindow
  <2> QED BY <2>1, <2>2
<1>3. Connected \subseteq Clients
  BY EmptyList DEF IInv, TypeOK, Connected
<1>4. TypeOK'
  BY <1>1, <1>2, <1>3 DEF IInv, TypeOK, worldVars, RunsOrIsKilled
<1>5. CurrentIsClient' /\ OnePlace'
  BY <1>1, <1>2 DEF IInv, CurrentIsClient, OnePlace, Connected, worldVars
<1>6. DisplayHasClient' /\ OrderlyExit' /\ LoopInv'
  BY <1>1, <1>2 DEF IInv, DisplayHasClient, DisplayRunning, OrderlyExit,
                    LoopInv, RunsOrIsKilled
<1> QED
  BY <1>4, <1>5, <1>6 DEF IInv

\* die.
LEMMA DieStep ==
    ASSUME IInv, DieDropsClient \/ DieExits
    PROVE  IInv'
<1>1. pc = "die" /\ result = "failure" /\ exit = "running"
  BY DEF DieDropsClient, DieExits, IInv, LoopInv
<1>2. CASE DieDropsClient
  <2>1. /\ clients # <<>>
        /\ Head(clients) \in Connected
        /\ UNCHANGED <<currentIsActive, shaking, chatter, ready, result, backlog,
                       activeWindow>>
    BY <1>2, EmptyList DEF DieDropsClient, IInv, TypeOK, Connected
  <2>2. CASE drop_client(Head(clients), "die")
    BY <1>1, <2>1, <2>2, DropStep DEF IInv, TypeOK
  <2>3. CASE /\ Killed
             /\ UNCHANGED <<clients, current, shell, display, view, alive, pending>>
    <3>1. CurrentIsClient' /\ OnePlace'
      BY <2>1, <2>3, ListsUnchanged
    <3>2. TypeOK' /\ DisplayHasClient' /\ OrderlyExit' /\ LoopInv'
      BY <2>1, <2>3 DEF IInv, TypeOK, DisplayHasClient, DisplayRunning,
                        OrderlyExit, LoopInv, Killed
    <3> QED BY <3>1, <3>2 DEF IInv
  <2> QED
    BY <1>2, <2>2, <2>3 DEF DieDropsClient
<1>3. CASE DieExits
  <2>1. /\ clients = <<>> /\ display' = "off" /\ view' \in Views
        /\ pc' = "exited" /\ exit' = "failure"
        /\ UNCHANGED <<daemonVars, chatter, ready, result, worldVars>>
    BY <1>1, <1>3, RecordTypes DEF DieExits, child_terminate
  <2>2. CurrentIsClient' /\ OnePlace'
    BY <2>1, ListsUnchanged DEF daemonVars, worldVars
  <2>3. TypeOK' /\ DisplayHasClient' /\ OrderlyExit' /\ LoopInv'
    BY <2>1 DEF IInv, TypeOK, DisplayHasClient, DisplayRunning, OrderlyExit,
                LoopInv, daemonVars, worldVars
  <2> QED BY <2>2, <2>3 DEF IInv
<1> QED
  BY <1>2, <1>3

\* The other processes.  Whoever connects is at no other place.
LEMMA WorldStep ==
    ASSUME IInv, World
    PROVE  IInv'
<1>1. pc # "exited" /\ exit = "running"
  BY DEF World, IInv, LoopInv
<1>2. ASSUME NEW c \in Clients, NEW s \in Sockets, Connect(c, s)
      PROVE  IInv'
  <2>1. /\ c \notin Connected /\ c # shaking
        /\ \A t \in Sockets : c \notin ToSet(backlog[t])
    BY <1>2 DEF Connect, Attached, Waiting
  <2> DEFINE b == Append(backlog[s], c)
  <2>2. /\ b \in Seq(Clients)
        /\ IsInjective(b)
        /\ ToSet(b) = ToSet(backlog[s]) \cup {c}
        /\ b # <<>>
    <3>1. backlog[s] \in Seq(Clients) /\ IsInjective(backlog[s]) /\ c \in Clients \ ToSet(backlog[s])
      BY <2>1 DEF IInv, TypeOK, OnePlace
    <3> QED BY <3>1, AppendKeepsDistinct
  <2> HIDE DEF b
  <2>3. /\ backlog' = [backlog EXCEPT ![s] = b]
        /\ alive' \in [Clients -> BOOLEAN]
        /\ UNCHANGED <<daemonVars, displayVars, loopVars, pending, activeWindow>>
    BY <1>2 DEF Connect, IInv, TypeOK, b
  <2>4. TypeOK' /\ LoopInv'
    BY <2>2, <2>3 DEF IInv, TypeOK, LoopInv, daemonVars, displayVars, loopVars
  <2>5. OnePlace'
    BY <2>1, <2>2, <2>3 DEF IInv, TypeOK, OnePlace, Connected, daemonVars
  <2>6. CurrentIsClient' /\ DisplayHasClient' /\ OrderlyExit'
    BY <2>3 DEF IInv, CurrentIsClient, Connected, DisplayHasClient,
                DisplayRunning, OrderlyExit, daemonVars, displayVars, loopVars
  <2> QED BY <2>4, <2>5, <2>6 DEF IInv
<1>3. CASE /\ UNCHANGED <<daemonVars, view, loopVars, backlog>>
           /\ display' = display \/ (display = "up" /\ display' = "dead")
           /\ alive' \in [Clients -> BOOLEAN]
           /\ pending' \in [Clients -> 0..MaxPending]
           /\ chatter' \in 0..MaxPending
           /\ activeWindow' \in Windows
  <2>1. CurrentIsClient' /\ OnePlace'
    BY <1>3, ListsUnchanged DEF daemonVars
  <2>2. TypeOK' /\ DisplayHasClient' /\ OrderlyExit' /\ LoopInv'
    BY <1>1, <1>3 DEF IInv, TypeOK, DisplayHasClient, DisplayRunning,
                      OrderlyExit, LoopInv, daemonVars, loopVars
  <2> QED BY <2>1, <2>2 DEF IInv
<1>4. ASSUME NEW c \in Clients, ClientSends(c) \/ ClientDies(c)
      PROVE  IInv'
  <2>1. pending' \in [Clients -> 0..MaxPending] /\ alive' \in [Clients -> BOOLEAN]
    <3>1. CASE ClientSends(c)
      <4>1. pending[c] + 1 \in 0..MaxPending
        BY <3>1, VgdAssumption DEF ClientSends, IInv, TypeOK
      <4> QED
        BY <3>1, <4>1 DEF ClientSends, IInv, TypeOK
    <3>2. CASE ClientDies(c)
      BY <3>2 DEF ClientDies, IInv, TypeOK
    <3> QED BY <1>4, <3>1, <3>2
  <2> QED
    BY <1>3, <1>4, <2>1 DEF ClientSends, ClientDies, IInv, TypeOK, displayVars
<1>5. CASE DisplaySends \/ DisplayDies
  <2>1. chatter' \in 0..MaxPending
    BY <1>5, VgdAssumption DEF DisplaySends, DisplayDies, IInv, TypeOK
  <2> QED
    BY <1>3, <1>5, <2>1 DEF DisplaySends, DisplayDies, IInv, TypeOK, worldVars
<1>6. ASSUME NEW w \in Windows, Focus(w)
      PROVE  IInv'
  BY <1>3, <1>6 DEF Focus, IInv, TypeOK, displayVars
<1> QED
  BY <1>2, <1>4, <1>5, <1>6 DEF World

-----------------------------------------------------------------------------
(* The theorems.                                                           *)

LEMMA Initially == Init => IInv
<1> SUFFICES ASSUME Init PROVE IInv
  OBVIOUS
<1>1. /\ ToSet(clients) = {}
      /\ \A s \in Sockets : ToSet(backlog[s]) = {} /\ IsInjective(backlog[s])
      /\ IsInjective(clients)
  BY DEF Init, ToSet, IsInjective
<1>2. TypeOK
  <2>1. NewShell \in Shells /\ NoView \in Views
    BY RecordTypes
  <2>2. 0 \in 0..MaxPending
    BY VgdAssumption
  <2>3. <<>> \in Seq(Clients)
    BY EmptySeq
  <2>4. shell \in [Clients -> Shells] /\ pending \in [Clients -> 0..MaxPending]
    BY <2>1, <2>2 DEF Init
  <2>5. clients \in Seq(Clients) /\ backlog \in [Sockets -> Seq(Clients)]
    BY <2>3 DEF Init
  <2> QED
    BY <2>1, <2>2, <2>4, <2>5 DEF Init, TypeOK
<1>3. CurrentIsClient /\ OnePlace
  BY <1>1 DEF Init, CurrentIsClient, OnePlace, Connected
<1> QED
  BY <1>2, <1>3 DEF IInv, Init, DisplayHasClient, DisplayRunning, OrderlyExit, LoopInv

LEMMA Inductive == IInv /\ [Next]_vars => IInv'
<1> SUFFICES ASSUME IInv, [Next]_vars PROVE IInv'
  OBVIOUS
<1>1. CASE LoopStep
  <2>1. CASE Poll \/ PollFails
    BY <2>1, PollStep
  <2>2. CASE \E s \in Sockets : Accept(s) \/ AcceptFails(s)
    BY <2>2, AcceptStep
  <2>3. CASE DisplayMalformed \/ DisplayIgnored \/ DisplayEOF
    BY <2>3, DisplayStep
  <2>4. CASE DisplayInput
    BY <2>4, DisplayInputStep
  <2>5. CASE \E c \in Clients : ProcessClient(c)
    BY <2>5, ProcessClientStep
  <2>6. CASE CheckActiveWindow
    BY <2>6, CheckActiveWindowStep
  <2>7. CASE DieDropsClient \/ DieExits
    BY <2>7, DieStep
  <2> QED
    BY <1>1, <2>1, <2>2, <2>3, <2>4, <2>5, <2>6, <2>7 DEF LoopStep
<1>2. CASE HandshakeStep
  BY <1>2, NewVgseerClientStep, HandshakeEnds DEF HandshakeStep
<1>3. CASE World
  BY <1>3, WorldStep
<1>4. CASE UNCHANGED vars
  BY <1>4, ListsUnchanged
  DEF IInv, TypeOK, DisplayHasClient, DisplayRunning, OrderlyExit, LoopInv,
      vars, daemonVars, displayVars, loopVars, worldVars
<1> QED
  BY <1>1, <1>2, <1>3, <1>4 DEF Next, Exited

\* The inductive invariant holds throughout: at every step of vgd, whatever
\* the clients, the display and the user do, for any number of clients.
THEOREM Invariance == Spec => []IInv
  BY Initially, Inductive, PTL DEF Spec

\* The variables keep their types.
THEOREM TypeCorrect == Spec => []TypeOK
<1>1. IInv => TypeOK
  BY DEF IInv
<1> QED
  BY <1>1, Invariance, PTL

\* s->current is never dangling, and NULL only when there is no client.
THEOREM CurrentIsNeverDangling == Spec => []CurrentIsClient
<1>1. IInv => CurrentIsClient
  BY DEF IInv
<1> QED
  BY <1>1, Invariance, PTL

\* A running display always has a client whose environment it shows, and that
\* its keys and file names can be passed on to.
THEOREM DisplayAlwaysHasClient == Spec => []DisplayHasClient
<1>1. IInv => DisplayHasClient
  BY DEF IInv
<1> QED
  BY <1>1, Invariance, PTL

\* However vgd exits by itself, no client and no display is left behind, and a
\* persistent vgd does so only after a failure.
THEOREM ExitIsOrderly == Spec => []OrderlyExit
<1>1. IInv => OrderlyExit
  BY DEF IInv
<1> QED
  BY <1>1, Invariance, PTL

-----------------------------------------------------------------------------
(* The display's copy.                                                     *)

Matches(v, sh) == \A field \in DOMAIN v : v[field] \in {None, sh[field]}

\* A display that was told nothing agrees with every client, and one that was
\* told everything with that client.
LEMMA FreshCopies ==
    /\ \A sh : Matches(NoView, sh)
    /\ \A sh : Matches(sh, sh)
    /\ \A w, sh : sh.win = w => Matches([NoView EXCEPT !.win = w], sh)
<1>1. \A sh : Matches(NoView, sh)
  BY DEF Matches, NoView
<1>2. \A sh : Matches(sh, sh)
  BY DEF Matches
<1>3. ASSUME NEW w, NEW sh, sh.win = w
      PROVE  Matches([NoView EXCEPT !.win = w], sh)
  BY <1>3 DEF Matches, NoView
<1> QED
  BY <1>1, <1>2, <1>3

\* The same field set on both sides.
LEMMA SameUpdate ==
    ASSUME NEW v \in Views, NEW sh \in Shells, Matches(v, sh), NEW t, NEW u
    PROVE  /\ Matches([v EXCEPT !.status = t], [sh EXCEPT !.status = t])
           /\ Matches([v EXCEPT !.cli = t], [sh EXCEPT !.cli = t])
           /\ Matches([v EXCEPT !.developing_mask = t],
                      [sh EXCEPT !.developing_mask = t])
           /\ Matches([v EXCEPT !.expanded = t], [sh EXCEPT !.expanded = t])
           /\ Matches([v EXCEPT !.developing_mask = t, !.mask = u],
                      [sh EXCEPT !.developing_mask = t, !.mask = u])
           /\ Matches([v EXCEPT !.win = sh.win], sh)
  BY DEF Matches, Views, Shells

\* A handler that stores and passes on the same keeps the copy right.
LEMMA StoreKeepsCopy ==
    ASSUME IInv, ViewNeverStale, NEW c \in Clients, NEW new \in Shells,
           NEW v \in Views, Store(c, new, v),
           Matches(view, shell[c]) => Matches(v, new)
    PROVE  ViewNeverStale'
<1>1. /\ shell' = [shell EXCEPT ![c] = new]
      /\ display' = display /\ current' = current
      /\ update_display(c, v)
  BY DEF Store
<1>2. SUFFICES ASSUME display = "up" PROVE Matches(view', shell'[current])
  BY <1>1 DEF ViewNeverStale, Matches
<1>3. Matches(view, shell[current])
  BY <1>2 DEF ViewNeverStale, Matches
<1>4. CASE current = c
  BY <1>1, <1>2, <1>3, <1>4 DEF update_display, Tell, IInv, TypeOK
<1>5. CASE current # c
  BY <1>1, <1>3, <1>5 DEF update_display, Tell, IInv, TypeOK
<1> QED
  BY <1>4, <1>5

\* A new display, told nothing or what the current client holds.
LEMMA ForkKeepsCopy ==
    ASSUME NEW tells \in BOOLEAN, NEW v, child_fork(tells, v),
           tells => Matches(v, shell'[current'])
    PROVE  ViewNeverStale'
<1>1. display' = "up" => view' \in {v, NoView} /\ (view' = v => tells \/ v = NoView)
  BY DEF child_fork, child_terminate
<1> QED
  BY <1>1, FreshCopies DEF ViewNeverStale, Matches

\* A display left by the client it showed is told all about the next.
LEMMA DropKeepsCopy ==
    ASSUME IInv, ViewNeverStale, NEW c \in Connected, NEW next, drop_client(c, next)
    PROVE  /\ ViewNeverStale'
           /\ (current' # current /\ display' = "up") => view' = shell'[current']
<1> SUFFICES ASSUME display' = "up"
             PROVE  /\ Matches(view', shell'[current'])
                    /\ current' # current => view' = shell'[current']
  BY DEF ViewNeverStale, Matches
<1> DEFINE rest == Without(clients, c)
<1>1. /\ rest \in Seq(Clients)
      /\ ToSet(rest) = Connected \ {c}
      /\ rest # <<>> => Head(rest) \in ToSet(rest)
  BY WithoutProperties, EmptyList DEF IInv, TypeOK, CurrentIsClient, Connected
<1> HIDE DEF rest
<1>2. /\ current' = CurrentAfter(c, rest)
      /\ shell' = [shell EXCEPT ![c] = NewShell]
  BY DEF drop_client, rest
<1>3. rest # <<>>
  BY DEF drop_client, child_terminate, rest
<1>4. /\ display = "up"
      /\ IF current = c THEN Tell(display, shell[current'], next)
                        ELSE Tell("off", view, next)
  BY <1>3 DEF drop_client, context_switch, rest
<1>5. Connected \subseteq Clients /\ current \in Connected
  BY EmptyList DEF IInv, TypeOK, CurrentIsClient, Connected
<1>6. current' \in Connected \ {c} /\ shell'[current'] = shell[current']
  BY <1>1, <1>2, <1>3, <1>5 DEF CurrentAfter, IInv, TypeOK
<1>7. CASE current = c
  BY <1>4, <1>6, <1>7, FreshCopies DEF Tell
<1>8. CASE current # c
  <2>1. current' = current /\ view' = view
    BY <1>2, <1>4, <1>8 DEF CurrentAfter, Tell
  <2> QED
    BY <2>1, <1>4, <1>6 DEF ViewNeverStale, Matches
<1> QED
  BY <1>7, <1>8

\* What SwitchTellsAll says of one step.
TellsAll ==
    (current' # current /\ display = "up" /\ display' = "up")
      => view' = shell'[current']

\* Steps that leave the copy and its source alone, or leave no display.
LEMMA CopyUntouched ==
    ASSUME ViewNeverStale, current' = current,
           \/ display' = display /\ UNCHANGED <<view, shell>>
           \/ display' \in {"off", "dead"}
    PROVE  ViewNeverStale' /\ TellsAll
  BY DEF ViewNeverStale, TellsAll

\* process_client and the copy.
LEMMA ClientKeepsCopy ==
    ASSUME IInv, ViewNeverStale, NEW c \in Clients, ProcessClient(c)
    PROVE  ViewNeverStale' /\ TellsAll
<1>1. view \in Views /\ shell[c] \in Shells /\ Empty \in Texts
  BY VgdAssumption DEF IInv, TypeOK
<1>2. CASE DropClient(c)
  <2>1. c \in Connected
    BY <1>2 DEF DropClient, Receive, ServesClient, Connected, ToSet
  <2> QED
    BY <1>2, <2>1, DropKeepsCopy DEF DropClient, TellsAll
<1>3. ASSUME NEW m \in Messages, ClientStatus(c, m)
      PROVE  ViewNeverStale' /\ TellsAll
  <2>1. m.value \in Statuses
    BY <1>3, VgdAssumption DEF ClientStatus, ClientMessages
  <2> DEFINE new == [shell[c] EXCEPT !.status = m.value]
             v == [view EXCEPT !.status = m.value]
  <2>2. CASE Store(c, new, v)
    <3>1. new \in Shells /\ v \in Views
      BY <1>1, <2>1, RecordTypes
    <3>2. Matches(view, shell[c]) => Matches(v, new)
      BY <1>1, SameUpdate
    <3> HIDE DEF new, v
    <3>3. ViewNeverStale'
      BY <2>2, <3>1, <3>2, StoreKeepsCopy
    <3> QED
      BY <2>2, <3>3 DEF Store, TellsAll
  <2>3. CASE Discard(c)
    BY <2>3, CopyUntouched DEF Discard, daemonVars, displayVars
  <2> QED
    BY <1>3, <2>2, <2>3 DEF ClientStatus
<1>4. ASSUME NEW m \in Messages, ClientText(c, m)
      PROVE  ViewNeverStale' /\ TellsAll
  <2> DEFINE f == TextField[m.param]
             new == [shell[c] EXCEPT ![f] = m.value]
             v == [view EXCEPT ![f] = m.value]
  <2>1. m.value \in Texts /\ f \in {"cli", "developing_mask", "expanded"}
    BY <1>4, VgdAssumption DEF ClientText, ClientMessages, TextField
  <2>2. new \in Shells /\ v \in Views /\ (Matches(view, shell[c]) => Matches(v, new))
    <3> HIDE DEF f
    <3>1. CASE f = "cli"
      BY <3>1, <2>1, <1>1 DEF Shells, Views, Matches
    <3>2. CASE f = "developing_mask"
      BY <3>2, <2>1, <1>1 DEF Shells, Views, Matches
    <3>3. CASE f = "expanded"
      BY <3>3, <2>1, <1>1 DEF Shells, Views, Matches
    <3> QED BY <3>1, <3>2, <3>3, <2>1
  <2>3. Store(c, new, v)
    BY <1>4 DEF ClientText
  <2> HIDE DEF new, v
  <2> QED
    BY <2>2, <2>3, StoreKeepsCopy DEF Store, TellsAll
<1>5. ASSUME NEW m \in Messages, ClientMask(c, m)
      PROVE  ViewNeverStale' /\ TellsAll
  <2> DEFINE new == [shell[c] EXCEPT !.developing_mask = Empty, !.mask = m.value]
             v == [view EXCEPT !.developing_mask = Empty, !.mask = m.value]
  <2>1. m.value \in Texts
    BY <1>5, VgdAssumption DEF ClientMask, ClientMessages
  <2>2. new \in Shells /\ v \in Views
    BY <1>1, <2>1, RecordTypes
  <2>3. Matches(view, shell[c]) => Matches(v, new)
    BY <1>1, SameUpdate
  <2>4. Store(c, new, v)
    BY <1>5 DEF ClientMask
  <2> HIDE DEF new, v
  <2> QED
    BY <2>2, <2>3, <2>4, StoreKeepsCopy DEF Store, TellsAll
<1>6. ASSUME NEW m \in Messages, ClientPwd(c, m)
      PROVE  ViewNeverStale' /\ TellsAll
  BY <1>6, CopyUntouched DEF ClientPwd, Discard, daemonVars, displayVars
<1>7. ASSUME NEW m \in Messages, OrderOther(c, m)
      PROVE  ViewNeverStale' /\ TellsAll
  <2>1. Store(c, shell[c], view)
    BY <1>7 DEF OrderOther
  <2> QED
    BY <1>1, <2>1, StoreKeepsCopy DEF Store, TellsAll
<1>8. ASSUME NEW m \in Messages, OrderRefocus(c, m)
      PROVE  ViewNeverStale' /\ TellsAll
  <2>1. /\ current' = c /\ UNCHANGED <<shell, display>>
        /\ Tell(display, IF current = c THEN view ELSE shell[c], "serve")
    BY <1>8 DEF OrderRefocus, context_switch
  <2>2. CASE current = c
    BY <2>1, <2>2, CopyUntouched DEF Tell
  <2>3. CASE current # c
    BY <2>1, <2>3, FreshCopies DEF Tell, ViewNeverStale, TellsAll, Matches
  <2> QED BY <2>2, <2>3
<1>9. ASSUME NEW m \in Messages, OrderToggle(c, m)
      PROVE  ViewNeverStale' /\ TellsAll
  <2>1. current' = current /\ shell' = shell
    BY <1>9 DEF OrderToggle, daemonVars
  <2>2. CASE DisplayRunning
    BY <1>9, <2>1, <2>2, CopyUntouched DEF OrderToggle, child_terminate
  <2>3. CASE ~DisplayRunning
    <3>1. child_fork(TRUE, shell[current])
      BY <1>9, <2>3 DEF OrderToggle
    <3>2. ViewNeverStale'
      BY <2>1, <3>1, ForkKeepsCopy, FreshCopies
    <3> QED
      BY <2>1, <3>2 DEF TellsAll
  <2> QED BY <2>2, <2>3
<1> QED
  BY <1>2, <1>3, <1>4, <1>5, <1>6, <1>7, <1>8, <1>9 DEF ProcessClient

\* check_active_window and the copy.
LEMMA CheckKeepsCopy ==
    ASSUME IInv, ViewNeverStale, CheckActiveWindow
    PROVE  ViewNeverStale' /\ TellsAll
<1>1. UNCHANGED <<shell, display>>
  BY DEF CheckActiveWindow
<1>2. CASE clients = <<>>
  BY <1>1, <1>2, CopyUntouched DEF CheckActiveWindow, NobodyToCheck
<1>3. CASE clients # <<>> /\ CurrentHasFocus
  <2>1. current \in Clients /\ shell[current] \in Shells /\ view \in Views
    BY <1>3, EmptyList DEF IInv, TypeOK, CurrentIsClient, Connected
  <2>2. current' = current
    BY <1>3 DEF CurrentHasFocus
  <2>3. ASSUME display = "up" PROVE Matches(view', shell[current])
    <3>1. Matches(view, shell[current])
      BY <2>3 DEF ViewNeverStale, Matches
    <3>2. Matches([view EXCEPT !.win = shell[current].win], shell[current])
      BY <2>1, <3>1, SameUpdate
    <3> QED
      BY <1>3, <2>3, <3>1, <3>2 DEF CurrentHasFocus, Tell
  <2> QED
    BY <1>1, <2>2, <2>3 DEF ViewNeverStale, TellsAll, Matches
<1>4. CASE clients # <<>> /\ FocusElsewhere
  BY <1>1, <1>4, CopyUntouched DEF FocusElsewhere, Tell
<1>5. CASE clients # <<>> /\ SwitchToActive
  <2>1. PICK i \in InWindow(activeWindow) :
           current' = clients[i] /\ Tell(display, shell[clients[i]], "poll")
    BY <1>5 DEF SwitchToActive, context_switch
  <2>2. display = "up" => view' = shell[current']
    BY <2>1 DEF Tell
  <2> QED
    BY <1>1, <2>2 DEF ViewNeverStale, TellsAll
<1> QED
  BY <1>2, <1>3, <1>4, <1>5 DEF CheckActiveWindow

\* new_client and the copy: a display that runs is told nothing, a new one the
\* window of the new client if that is the current one.
LEMMA NewClientKeepsCopy ==
    ASSUME IInv, ViewNeverStale, NEW w \in Windows, NewVgseerClient(w)
    PROVE  ViewNeverStale' /\ TellsAll
<1> DEFINE v == shaking
<1>1. /\ v \in Clients /\ v \notin Connected
      /\ shell' = [shell EXCEPT ![v].win = w]
      /\ current' = IF clients = <<>> THEN v ELSE current
      /\ clients # <<>> => current \in Connected /\ current \in Clients
  BY EmptyList DEF NewVgseerClient, IInv, TypeOK, CurrentIsClient, LoopInv,
                   OnePlace, Connected
<1>2. CASE DisplayRunning
  <2>1. clients # <<>> /\ current' = current /\ UNCHANGED <<display, view>>
    BY <1>1, <1>2 DEF NewVgseerClient, displayVars, IInv, DisplayHasClient
  <2>2. shell'[current] = shell[current]
    BY <1>1, <2>1 DEF IInv, TypeOK
  <2> QED
    BY <2>1, <2>2 DEF ViewNeverStale, TellsAll
<1>3. CASE ~DisplayRunning
  <2>1. child_fork(current' = v, [NoView EXCEPT !.win = w])
    BY <1>3 DEF NewVgseerClient
  <2>2. shell'[v].win = w
    BY <1>1 DEF IInv, TypeOK, Shells
  <2>3. current' = v => Matches([NoView EXCEPT !.win = w], shell'[current'])
    BY <2>2, FreshCopies
  <2> HIDE DEF v
  <2>4. ViewNeverStale'
    BY <2>1, <2>3, ForkKeepsCopy, (current' = v) \in BOOLEAN
  <2> QED
    BY <1>3, <2>4 DEF TellsAll, DisplayRunning
<1> QED
  BY <1>2, <1>3

LEMMA CopyStep ==
    IInv /\ ViewNeverStale /\ [Next]_vars => ViewNeverStale' /\ TellsAll
<1> SUFFICES ASSUME IInv, ViewNeverStale, [Next]_vars
             PROVE  ViewNeverStale' /\ TellsAll
  OBVIOUS
<1>1. CASE \/ Poll \/ PollFails \/ \E s \in Sockets : Accept(s) \/ AcceptFails(s)
           \/ DisplayIgnored \/ DisplayEOF \/ DieExits
           \/ TurnAway \/ HandshakeKills
           \/ World \/ UNCHANGED vars
  <2>1. /\ current' = current
        /\ \/ display' = display /\ UNCHANGED <<view, shell>>
           \/ display' \in {"off", "dead"}
    BY <1>1
    DEF Poll, PollFails, die, Accept, AcceptFails, DisplayIgnored, DisplayEOF,
        child_terminate, DieExits, TurnAway, HandshakeKills, World, Connect,
        ClientSends, ClientDies, DisplaySends, DisplayDies, Focus, vars,
        daemonVars, displayVars
  <2> QED
    BY <2>1, CopyUntouched
<1>2. CASE DisplayMalformed
  <2>1. child_fork(FALSE, NoView) /\ current' = current
    BY <1>2 DEF DisplayMalformed, daemonVars
  <2> QED
    BY <2>1, ForkKeepsCopy DEF TellsAll
<1>3. CASE DisplayInput
  <2>1. current \in Connected
    BY <1>3 DEF DisplayInput, ReadDisplay, ServesDisplay, IInv,
                DisplayHasClient, CurrentIsClient
  <2>2. CASE drop_client(current, "serve")
    BY <2>1, <2>2, DropKeepsCopy DEF TellsAll
  <2>3. CASE UNCHANGED <<daemonVars, display, view>>
    BY <2>3, CopyUntouched DEF daemonVars
  <2> QED
    BY <1>3, <2>2, <2>3 DEF DisplayInput
<1>4. CASE DieDropsClient
  <2>1. Head(clients) \in Connected
    BY <1>4, EmptyList DEF DieDropsClient, IInv, TypeOK, Connected
  <2> QED
    BY <1>4, <2>1, DropKeepsCopy, CopyUntouched DEF DieDropsClient, TellsAll
<1> QED
  BY <1>1, <1>2, <1>3, <1>4, ClientKeepsCopy, CheckKeepsCopy, NewClientKeepsCopy
  DEF Next, LoopStep, HandshakeStep, Exited

\* What a running display was told is never stale: every field it holds is the
\* current client's, through any number of clients, switches and restarts.
THEOREM CopyIsNeverStale == Spec => []ViewNeverStale
<1>1. Init => ViewNeverStale
  BY DEF Init, ViewNeverStale
<1> QED
  BY <1>1, CopyStep, Invariance, PTL DEF Spec

\* Whenever another client becomes current, a running display is told all of
\* what that client holds in the same step.
THEOREM EverySwitchTellsAll == Spec => SwitchTellsAll
<1>1. IInv /\ ViewNeverStale /\ [Next]_vars => [TellsAll]_vars
  BY CopyStep
<1>2. SwitchTellsAll <=> [][TellsAll]_vars
  BY PTL DEF SwitchTellsAll, TellsAll
<1> QED
  BY <1>1, <1>2, Invariance, CopyIsNeverStale, PTL DEF Spec

-----------------------------------------------------------------------------
(* What is ready stays so until it is served: ReadyInv.                    *)

\* Descriptors of clients, of the listening sockets and of the display differ.
LEMMA Descriptors ==
    /\ Sockets \cap Clients = {}
    /\ "display" \notin Sockets /\ "display" \notin Clients
  BY VgdAssumption

LEMMA PollReady ==
    ASSUME IInv, Poll
    PROVE  ReadyInv'
<1>1. ready' = Polled /\ UNCHANGED <<clients, display, chatter, pending, alive>>
  BY DEF Poll, daemonVars, displayVars, worldVars
<1>2. "display" \in ready' => DisplayRunning /\ DisplayReadable
  BY <1>1, EmptyList, Descriptors DEF Polled, IInv, TypeOK, Connected
<1>3. \A c \in Clients \cap ready' : c \in Connected /\ Readable(c)
  BY <1>1, Descriptors DEF Polled
<1> QED
  BY <1>1, <1>2, <1>3 DEF ReadyInv, DisplayRunning, DisplayReadable, Connected, Readable

\* Listening sockets are served first: a client is accepted only while every
\* other one that is ready is still in the list.
LEMMA AcceptReady ==
    ASSUME IInv, ReadyInv, NEW s \in Sockets, Accept(s) \/ AcceptFails(s)
    PROVE  ReadyInv'
<1>1. /\ pc = "serve" /\ s \in ready /\ ready' = ready \ {s}
      /\ UNCHANGED <<clients, display, chatter, pending, alive>>
  BY DEF Accept, AcceptFails, ServesSocket, daemonVars, displayVars, worldVars
<1>2. \A c \in Clients \cap ready : c \in Connected /\ Readable(c)
  BY <1>1 DEF ReadyInv
<1> QED
  BY <1>1, <1>2 DEF ReadyInv, DisplayRunning, DisplayReadable, Connected, Readable

LEMMA HandshakeReady ==
    ASSUME IInv, ReadyInv, HandshakeStep
    PROVE  ReadyInv'
<1>1. pc = "handshake" /\ shaking \in Clients /\ shaking \notin Connected
  BY DEF HandshakeStep, NewVgseerClient, TurnAway, HandshakeKills, IInv, LoopInv, OnePlace
<1>2. \A c \in Clients \cap ready : c \in Connected /\ Readable(c) /\ c # shaking
  BY <1>1 DEF ReadyInv
<1>3. CASE \E w \in Windows : NewVgseerClient(w)
  <2>1. PICK w \in Windows : NewVgseerClient(w)
    BY <1>3
  <2>2. /\ UNCHANGED <<ready, pending, alive>>
        /\ clients' = <<shaking>> \o clients
        /\ DisplayRunning => UNCHANGED <<display, chatter>>
    BY <2>1 DEF NewVgseerClient, worldVars, displayVars
  <2>3. Connected' = Connected \cup {shaking}
    BY <1>1, <2>2, PrependProperties DEF IInv, TypeOK, CurrentIsClient, Connected
  <2>4. \A c \in Clients \cap ready' : c \in Connected' /\ Readable(c)'
    BY <1>2, <2>2, <2>3 DEF Readable
  <2>5. "display" \in ready' => DisplayRunning' /\ DisplayReadable'
    BY <1>1, <2>2 DEF ReadyInv, DisplayRunning, DisplayReadable
  <2> QED BY <2>4, <2>5 DEF ReadyInv
<1>4. CASE TurnAway
  <2>1. /\ UNCHANGED <<clients, display, chatter, ready, pending>>
        /\ alive' = [alive EXCEPT ![shaking] = FALSE]
    BY <1>4 DEF TurnAway, displayVars
  <2>2. \A c \in Clients : c # shaking => alive'[c] = alive[c]
    BY <2>1 DEF IInv, TypeOK
  <2>3. \A c \in Clients \cap ready' : c \in Connected' /\ Readable(c)'
    BY <1>2, <2>1, <2>2 DEF Readable, Connected
  <2> QED
    BY <1>1, <2>1, <2>3 DEF ReadyInv, DisplayRunning, DisplayReadable
<1>5. CASE HandshakeKills
  BY <1>5 DEF HandshakeKills, Killed, ReadyInv
<1> QED
  BY <1>3, <1>4, <1>5 DEF HandshakeStep

\* The display is served once in a round, after the listening sockets; the
\* client it may cost is not accepted again in the round.
LEMMA DisplayReady ==
    ASSUME IInv, ReadyInv, DisplayMalformed \/ DisplayIgnored \/ DisplayInput \/ DisplayEOF
    PROVE  ReadyInv'
<1>1. /\ pc = "serve" /\ ready \cap Sockets = {} /\ ready' = ready \ {"display"}
      /\ DisplayRunning
  BY DEF DisplayMalformed, DisplayIgnored, DisplayInput, DisplayEOF, ReadDisplay, ServesDisplay
<1>2. \A c \in Clients \cap ready' :
         c \in Connected => Readable(c)
  BY <1>1 DEF ReadyInv
<1>3. current \in Connected /\ Connected \subseteq Clients
  BY <1>1, EmptyList DEF IInv, TypeOK, CurrentIsClient, DisplayHasClient, Connected
<1>4. CASE drop_client(current, "serve")
  <2>1. /\ clients' = Without(clients, current)
        /\ alive' = [alive EXCEPT ![current] = FALSE]
        /\ pending' = [pending EXCEPT ![current] = 0]
    BY <1>4 DEF drop_client
  <2>2. pc' \in {"serve", "exited"}
    BY <1>3, <1>4, DropProperties, <1>1 DEF IInv, LoopInv
  <2>3. Connected' = Connected \ {current}
    BY <1>3, <2>1, WithoutProperties DEF IInv, TypeOK, CurrentIsClient, Connected
  <2>4. \A c \in Clients : c # current => alive'[c] = alive[c] /\ pending'[c] = pending[c]
    BY <2>1 DEF IInv, TypeOK
  <2>5. \A c \in Clients \cap ready' : c \in Connected' => Readable(c)'
    BY <1>2, <2>3, <2>4 DEF Readable
  <2>6. "display" \notin ready' /\ ready' \cap Sockets = {}
    BY <1>1
  <2> QED BY <2>2, <2>5, <2>6 DEF ReadyInv
<1>5. CASE UNCHANGED <<clients, alive, pending>>
  <2>1. pc' # "handshake"
    BY <1>1, <1>3, DropProperties
    DEF DisplayMalformed, DisplayIgnored, DisplayInput, DisplayEOF, child_fork, die, Killed,
        IInv, LoopInv
  <2>2. \A c \in Clients \cap ready' : c \in Connected' => Readable(c)'
    BY <1>2, <1>5 DEF Readable, Connected
  <2> QED BY <1>1, <2>1, <2>2 DEF ReadyInv
<1> QED
  BY <1>4, <1>5
  DEF DisplayMalformed, DisplayIgnored, DisplayInput, DisplayEOF, daemonVars, worldVars

\* Serving a client ends the round.
LEMMA ClientReady ==
    ASSUME IInv, NEW c \in Clients, ProcessClient(c)
    PROVE  ReadyInv'
<1>1. ready' = {}
  BY DEF ProcessClient, DropClient, ClientStatus, ClientText, ClientMask, ClientPwd,
         OrderRefocus, OrderToggle, OrderOther, Receive
<1> QED BY <1>1 DEF ReadyInv

\* Nobody but vgd takes from a connection, or brings a client back that is in
\* the list.
LEMMA WorldReady ==
    ASSUME IInv, ReadyInv, World
    PROVE  ReadyInv'
<1>1. UNCHANGED <<clients, pc, ready>>
  BY DEF World, Connect, ClientSends, ClientDies, DisplaySends, DisplayDies, Focus,
         daemonVars, loopVars
<1>2. DisplayRunning /\ DisplayReadable => DisplayRunning' /\ DisplayReadable'
  <2>1. CASE UNCHANGED <<display, chatter>>
    BY <2>1 DEF DisplayRunning, DisplayReadable
  <2>2. CASE DisplaySends
    <3>1. chatter \in Nat
      BY VgdAssumption DEF IInv, TypeOK
    <3> QED BY <2>2, <3>1 DEF DisplaySends, DisplayRunning, DisplayReadable
  <2>3. CASE DisplayDies
    BY <2>3 DEF DisplayDies, DisplayRunning, DisplayReadable
  <2> QED
    BY <2>1, <2>2, <2>3 DEF World, Connect, ClientSends, ClientDies, Focus, displayVars
<1>3. ASSUME NEW c \in Clients, c \in Connected, Readable(c)
      PROVE  Readable(c)'
  <2>1. pending[c] \in Nat /\ alive \in [Clients -> BOOLEAN] /\ pending \in [Clients -> 0..MaxPending]
    BY VgdAssumption DEF IInv, TypeOK
  <2>2. CASE \E d \in Clients, s \in Sockets : Connect(d, s)
    BY <1>3, <2>1, <2>2 DEF Connect, Attached, Readable
  <2>3. CASE \E d \in Clients : ClientSends(d)
    BY <1>3, <2>1, <2>3 DEF ClientSends, Readable
  <2>4. CASE \E d \in Clients : ClientDies(d)
    BY <1>3, <2>1, <2>4 DEF ClientDies, Readable
  <2>5. CASE UNCHANGED <<alive, pending>>
    BY <1>3, <2>5 DEF Readable
  <2> QED
    BY <2>2, <2>3, <2>4, <2>5 DEF World, DisplaySends, DisplayDies, Focus, worldVars
<1> QED
  BY <1>1, <1>2, <1>3 DEF ReadyInv, Connected

LEMMA ReadyStep == IInv /\ ReadyInv /\ [Next]_vars => ReadyInv'
<1> SUFFICES ASSUME IInv, ReadyInv, [Next]_vars PROVE ReadyInv'
  OBVIOUS
<1>1. CASE PollFails \/ DieDropsClient \/ DieExits
  <2>1. pc' \in {"die", "exited"}
    <3>1. CASE DieDropsClient
      <4>1. Head(clients) \in Connected /\ exit = "running"
        BY <3>1, EmptyList DEF DieDropsClient, IInv, TypeOK, LoopInv, Connected
      <4> QED
        BY <3>1, <4>1, DropProperties DEF DieDropsClient, Killed
    <3> QED
      BY <1>1, <3>1 DEF PollFails, die, DieExits
  <2> QED BY <2>1 DEF ReadyInv
<1>2. CASE CheckActiveWindow
  BY <1>2 DEF CheckActiveWindow, ReadyInv
<1>3. CASE UNCHANGED vars
  BY <1>3 DEF vars, daemonVars, displayVars, loopVars, worldVars, ReadyInv, DisplayRunning,
              DisplayReadable, Connected, Readable
<1> QED
  BY <1>1, <1>2, <1>3, PollReady, AcceptReady, HandshakeReady, DisplayReady, ClientReady, WorldReady
  DEF Next, LoopStep, Exited

\* vgd never reads a descriptor that has nothing to say, which would block its
\* only thread: whatever was accepted, dropped or restarted in the round.
THEOREM OnlyReadableServed == Spec => []ServesOnlyReadable
<1>1. Init => ReadyInv
  BY DEF Init, ReadyInv
<1>2. IInv /\ ReadyInv => ServesOnlyReadable
  <2> SUFFICES ASSUME IInv, ReadyInv PROVE ServesOnlyReadable
    OBVIOUS
  <2>1. ASSUME NEW c \in Clients, ServesClient(c)
        PROVE  c \in Connected /\ Readable(c)
    <3>1. pc = "serve" /\ c \in ready /\ c \in Connected
      BY <2>1 DEF ServesClient, Connected, ToSet
    <3> QED BY <3>1 DEF ReadyInv
  <2>2. ServesDisplay => DisplayReadable
    BY DEF ServesDisplay, ReadyInv
  <2>3. \A s \in Sockets : ServesSocket(s) => backlog[s] # <<>>
    BY DEF ServesSocket, IInv, LoopInv
  <2> QED BY <2>1, <2>2, <2>3 DEF ServesOnlyReadable
<1> QED
  BY <1>1, <1>2, ReadyStep, Invariance, PTL DEF Spec

=============================================================================
