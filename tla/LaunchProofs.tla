---------------------------- MODULE LaunchProofs ----------------------------
(***************************************************************************)
(* Proofs about Launch.                                                    *)
(***************************************************************************)
EXTENDS Launch, DataLemmas, SequenceTheorems

-----------------------------------------------------------------------------
(* What is left to read of what was said.                                  *)

\* One more word is said, or the end.
LEMMA HasAppend ==
    ASSUME NEW queue \in Seq(Words), NEW words, NEW i \in Nat, NEW j \in Nat,
           Has(queue, words, i, j, FALSE), words[j + 1] \in Words
    PROVE  Has(Append(queue, words[j + 1]), words, i, j + 1, FALSE)
<1> DEFINE m == words[j + 1]
           q == Append(queue, m)
<1>1. /\ Len(q) = Len(queue) + 1
      /\ \A k \in 1..Len(queue) : q[k] = queue[k]
      /\ q[Len(queue) + 1] = m
  BY AppendProperties
<1>2. i <= j /\ Len(queue) = j - i /\ \A k \in 1..(j - i) : queue[k] = words[i + k]
  BY DEF Has
<1> HIDE DEF q
<1>3. \A k \in 1..((j + 1) - i) : q[k] = words[i + k]
  <2> SUFFICES ASSUME NEW k \in 1..((j + 1) - i) PROVE q[k] = words[i + k]
    OBVIOUS
  <2>1. CASE k \in 1..(j - i)
    BY <1>1, <1>2, <2>1
  <2>2. CASE k = (j - i) + 1
    <3>1. i + k = j + 1
      BY <2>2
    <3> QED BY <1>1, <1>2, <2>2, <3>1
  <2> QED BY <1>2, <2>1, <2>2
<1> QED BY <1>1, <1>2, <1>3 DEF Has, q

LEMMA HasEnd ==
    ASSUME NEW queue \in Seq(Words), NEW words, NEW i \in Nat, NEW j \in Nat,
           Has(queue, words, i, j, FALSE)
    PROVE  Has(Append(queue, "eof"), words, i, j, TRUE)
<1> DEFINE q == Append(queue, "eof")
<1>1. /\ Len(q) = Len(queue) + 1
      /\ \A k \in 1..Len(queue) : q[k] = queue[k]
      /\ q[Len(queue) + 1] = "eof"
  BY AppendProperties DEF Words
<1>2. i <= j /\ Len(queue) = j - i /\ \A k \in 1..(j - i) : queue[k] = words[i + k]
  BY DEF Has
<1> HIDE DEF q
<1> QED BY <1>1, <1>2 DEF Has, q

\* What is read next.
LEMMA HasHead ==
    ASSUME NEW queue \in Seq(Words), NEW words, NEW i \in Nat, NEW j \in Nat, NEW ended \in BOOLEAN,
           Has(queue, words, i, j, ended), queue # <<>>
    PROVE  \/ i < j /\ Head(queue) = words[i + 1]
           \/ i = j /\ ended /\ Head(queue) = "eof"
<1>1. Len(queue) \in Nat \ {0} /\ Head(queue) = queue[1]
  BY EmptySeq
<1>2. CASE i < j
  <2>1. 1 \in 1..(j - i)
    BY <1>2
  <2> QED BY <1>1, <1>2, <2>1 DEF Has
<1>3. CASE ~ (i < j)
  <2>1. i = j
    BY <1>3 DEF Has
  <2>2. ended /\ Len(queue) = 1
    BY <1>1, <2>1 DEF Has
  <2> QED BY <1>1, <2>1, <2>2 DEF Has
<1> QED BY <1>2, <1>3

LEMMA FirstHead ==
    ASSUME NEW queue \in Seq(Words), NEW words, NEW k \in 0..4,
           Has(queue, words, 0, k, TRUE), queue # <<>>, k > 0
    PROVE  Head(queue) = words[1]
<1>1. 1 \in 1..(k - 0) /\ 0 + 1 = 1
  OBVIOUS
<1>2. queue[1] = words[0 + 1]
  BY <1>1 DEF Has
<1> QED BY <1>1, <1>2, EmptySeq

\* And read.
LEMMA HasTail ==
    ASSUME NEW queue \in Seq(Words), NEW words, NEW i \in Nat, NEW j \in Nat, NEW ended \in BOOLEAN,
           Has(queue, words, i, j, ended), i < j
    PROVE  /\ queue # <<>> /\ Tail(queue) \in Seq(Words)
           /\ Has(Tail(queue), words, i + 1, j, ended)
<1> DEFINE q == Tail(queue)
<1>1. queue # <<>> /\ Len(queue) \in Nat \ {0}
  BY DEF Has
<1>2. q \in Seq(Words) /\ Len(q) = Len(queue) - 1 /\ \A k \in 1..Len(q) : q[k] = queue[k + 1]
  BY <1>1, HeadTailProperties
<1> HIDE DEF q
<1>3. Len(q) = (j - (i + 1)) + (IF ended THEN 1 ELSE 0)
  BY <1>1, <1>2 DEF Has
<1>4. \A k \in 1..(j - (i + 1)) : q[k] = words[(i + 1) + k]
  <2> SUFFICES ASSUME NEW k \in 1..(j - (i + 1)) PROVE q[k] = words[(i + 1) + k]
    OBVIOUS
  <2>1. k \in 1..Len(q) /\ k + 1 \in 1..(j - i) /\ i + (k + 1) = (i + 1) + k
    BY <1>3
  <2> QED BY <1>2, <2>1 DEF Has
<1>5. ended => q[Len(q)] = "eof"
  <2> SUFFICES ASSUME ended PROVE q[Len(q)] = "eof"
    OBVIOUS
  <2>1. Len(q) \in 1..Len(q) /\ Len(q) + 1 = Len(queue)
    BY <1>1, <1>2, <1>3
  <2> QED BY <1>2, <2>1 DEF Has
<1> QED BY <1>1, <1>2, <1>3, <1>4, <1>5 DEF Has, q

\* Nothing.
LEMMA HasNothing ==
    ASSUME NEW queue \in Seq(Words), NEW words, NEW i \in Nat
    PROVE  /\ Has(queue, words, i, i, FALSE) <=> queue = <<>>
           /\ Has(queue, words, i, i, TRUE) <=> queue = <<"eof">>
  BY DEF Has

\* The end is told from any word.
LEMMA HasNoEnd ==
    ASSUME NEW queue \in Seq(Words), NEW words, NEW i \in Nat, NEW j \in Nat,
           Has(queue, words, i, j, FALSE), \A k \in 1..j : words[k] # "eof"
    PROVE  "eof" \notin ToSet(queue)
<1> SUFFICES ASSUME NEW k \in 1..Len(queue), queue[k] = "eof" PROVE FALSE
  BY DEF ToSet
<1>1. k \in 1..(j - i) /\ i + k \in 1..j
  BY DEF Has
<1> QED BY <1>1 DEF Has

-----------------------------------------------------------------------------
(* The scripts.                                                            *)

LEMMA SayingsTypes ==
    /\ Len(Sayings("vgping")) = 1 /\ Len(Sayings("vgseer")) = 4
    /\ \A p \in {"vgping", "vgseer"} : \A k \in 1..Len(Sayings(p)) :
          Sayings(p)[k] \in Words \ {"eof"}
    /\ Sayings("vgping")[1] = "vgping"
    /\ Sayings("vgseer")[1] = "vgseer" /\ Sayings("vgseer")[2] = "version"
    /\ Sayings("vgseer")[3] = "term-title" /\ Sayings("vgseer")[4] = "title-set"
  BY DEF Sayings, Words

LEMMA RepliesTypes ==
    ASSUME NEW s
    PROVE  /\ Len(Replies(s, "vgping")) = 1 /\ Len(Replies(s, "vgseer")) = StatusWords(s) + 2
           /\ \A p \in {"vgping", "vgseer"} : \A k \in 1..Len(Replies(s, p)) :
                 Replies(s, p)[k] \in Words \ {"eof"}
           /\ Replies(s, "vgping")[1] = "yo"
           /\ Replies(s, "vgseer")[1] = IF s \in Differs THEN "WARNING" ELSE "OK"
           /\ s \in Differs => Replies(s, "vgseer")[2] = "reason"
           /\ Replies(s, "vgseer")[StatusWords(s) + 1] = "set-title"
           /\ Replies(s, "vgseer")[StatusWords(s) + 2] = "vgexpand-opts"
<1>1. CASE s \in Differs
  BY <1>1 DEF Replies, Words, StatusWords
<1>2. CASE s \notin Differs
  BY <1>2 DEF Replies, Words, StatusWords
<1> QED BY <1>1, <1>2

\* What a program puts is the next of its sayings.
LEMMA ScriptPuts ==
    ASSUME TypeOK, RunsInv, NEW s \in Shells, Puts(s)
    PROVE  LET p == prog[s]
               i == step[s]
           IN /\ p \in {"vgping", "vgseer"} /\ i \in 1..7 /\ i # 5
              /\ p = "vgping" => i = 1
              /\ Said(p, i) \in Nat /\ Said(p, i) + 1 <= Len(Sayings(p))
              /\ Script(s)[i][2] = Sayings(p)[Said(p, i) + 1]
              /\ Said(p, i + 1) = Said(p, i) + 1
              /\ Got(s, p, i + 1) = Got(s, p, i)
<1>1. prog[s] \in {"vgping", "vgseer"} /\ step[s] \in 1..8 /\ (prog[s] = "vgping" => step[s] \in 1..2)
  <2>1. prog[s] \in {"vgping", "vgseer"} /\ step[s] \in 1..8
    <3>1. prog[s] # "none"
      BY DEF Puts
    <3>2. prog[s] \in {"none", "vgping", "vgseer"} /\ step[s] \in 1..8
      BY DEF TypeOK
    <3> QED BY <3>1, <3>2
  <2>2. prog[s] = "vgping" => step[s] <= 2
    BY DEF RunsInv
  <2> QED BY <2>1, <2>2
<1>2. CASE prog[s] = "vgping"
  <2>1. step[s] = 1
    BY <1>1, <1>2 DEF Puts, Script, vgping
  <2> QED BY <1>2, <2>1, SayingsTypes DEF Script, vgping, Said, Got
<1>3. CASE prog[s] = "vgseer"
  <2>1. step[s] \in {1, 2, 3, 7}
    BY <1>1, <1>3 DEF Puts, Script, connect_to_vgd
  <2>2. CASE step[s] = 1
    BY <1>3, <2>2, SayingsTypes DEF Script, connect_to_vgd, Said, Got
  <2>3. CASE step[s] = 2
    BY <1>3, <2>3, SayingsTypes DEF Script, connect_to_vgd, Said, Got
  <2>4. CASE step[s] = 3
    BY <1>3, <2>4, SayingsTypes DEF Script, connect_to_vgd, Said, Got
  <2>5. CASE step[s] = 7
    BY <1>3, <2>5, SayingsTypes DEF Script, connect_to_vgd, Said, Got, StatusWords
  <2> QED BY <2>1, <2>2, <2>3, <2>4, <2>5
<1> QED BY <1>1, <1>2, <1>3

\* What it gets is the next of vgd's replies.
LEMMA ScriptGets ==
    ASSUME TypeOK, RunsInv, NEW s \in Shells, Gets(s)
    PROVE  LET p == prog[s]
               i == step[s]
               m == Replies(s, p)[Got(s, p, i) + 1]
           IN /\ p \in {"vgping", "vgseer"} /\ (p = "vgping" => i = 2)
              /\ Got(s, p, i) \in Nat
              /\ m \in Expects(s) /\ After(s, m) \in Nat
              /\ "eof" \notin Expects(s)
              /\ p = "vgseer" => i \in {4, 5, 6, 8} /\ Len(Script(s)) = 8
              /\ p = "vgping" => Len(Script(s)) = 2
              /\ p = "vgseer" /\ i # 8 =>
                    /\ After(s, m) \in 5..7
                    /\ After(s, m) = 5 => s \in Differs
                    /\ Got(s, p, After(s, m)) = Got(s, p, i) + 1
                    /\ Said(p, After(s, m)) = Said(p, i)
              /\ p = "vgseer" /\ i = 8 => Got(s, p, i) = StatusWords(s) + 1
              /\ p = "vgping" => After(s, m) > 2 /\ Got(s, p, i) = 0
              /\ i = 8 => After(s, m) > 8
<1>1. prog[s] \in {"vgping", "vgseer"} /\ step[s] \in 1..8 /\ (prog[s] = "vgping" => step[s] \in 1..2)
  <2>1. prog[s] \in {"vgping", "vgseer"} /\ step[s] \in 1..8
    <3>1. prog[s] # "none"
      BY DEF Gets
    <3>2. prog[s] \in {"none", "vgping", "vgseer"} /\ step[s] \in 1..8
      BY DEF TypeOK
    <3> QED BY <3>1, <3>2
  <2>2. prog[s] = "vgping" => step[s] <= 2
    BY DEF RunsInv
  <2> QED BY <2>1, <2>2
<1>2. CASE prog[s] = "vgping"
  <2>1. step[s] = 2
    BY <1>1, <1>2 DEF Gets, Script, vgping
  <2> QED BY <1>2, <2>1, RepliesTypes DEF Script, vgping, Expects, After, Got
<1>3. CASE prog[s] = "vgseer"
  <2>1. step[s] \in {4, 5, 6, 8}
    BY <1>1, <1>3 DEF Gets, Script, connect_to_vgd
  <2>2. CASE step[s] = 4
    <3>1. Expects(s) = {"OK", "WARNING"} /\ Len(Script(s)) = 8
      BY <1>3, <2>2 DEF Script, connect_to_vgd, Expects
    <3> QED BY <1>3, <2>2, <3>1, RepliesTypes DEF After, Got, Said, StatusWords
  <2>3. CASE step[s] = 5
    <3>1. Expects(s) = {"reason"} /\ Len(Script(s)) = 8
      BY <1>3, <2>3 DEF Script, connect_to_vgd, Expects
    <3>2. s \in Differs
      BY <1>3, <2>3 DEF RunsInv
    <3> QED BY <1>3, <2>3, <3>1, <3>2, RepliesTypes DEF After, Got, Said, StatusWords
  <2>4. CASE step[s] = 6
    <3>1. Expects(s) = {"set-title"} /\ Len(Script(s)) = 8
      BY <1>3, <2>4 DEF Script, connect_to_vgd, Expects
    <3> QED BY <1>3, <2>4, <3>1, RepliesTypes DEF After, Got, Said, StatusWords
  <2>5. CASE step[s] = 8
    <3>1. Expects(s) = {"vgexpand-opts"} /\ Len(Script(s)) = 8
      BY <1>3, <2>5 DEF Script, connect_to_vgd, Expects
    <3> QED BY <1>3, <2>5, <3>1, RepliesTypes DEF After, Got, Said, StatusWords
  <2> QED BY <2>1, <2>2, <2>3, <2>4, <2>5
<1> QED BY <1>1, <1>2, <1>3

-----------------------------------------------------------------------------
(* What an action leaves alone.                                            *)

LEMMA ConnectionsIs ==
    ASSUME NEW s \in Shells, NEW d \in Shells
    PROVE  s \in Connections(d) <=> s = serving[d] \/ s \in members[d] \/ s \in ToSet(backlog[d])
  BY DEF Connections

LEMMA SameTalk ==
    ASSUME NEW s, NEW x, at'[s] = at[s], prog'[s] = prog[s], step'[s] = step[s], link'[s] = link[s],
           InStep(s, x)
    PROVE  InStep(s, x)'
  BY DEF InStep

LEMMA SameEnd ==
    ASSUME NEW s, prog'[s] = prog[s], step'[s] = step[s], link'[s] = link[s],
           Gone(link[s].to) => Gone(link[s].to)',
           Ended(s)
    PROVE  Ended(s)'
  BY DEF Ended

\* Nothing is said, and nobody comes or goes who is connected.
LEMMA QuietStep ==
    ASSUME IInv, UNCHANGED <<prog, step, link, backlog, serving, stage, members>>,
           \A s \in Shells :
              \/ at'[s] = at[s]
              \/ prog[s] = "none" /\ at[s] \notin {"session", "over"}
                   /\ at'[s] \notin {"session", "remove"},
           \A d \in Shells : daemon[d] = "gone" => daemon'[d] = "gone"
    PROVE  PlaceInv' /\ TalkInv'
<1>1. \A d \in Shells : Connections(d)' = Connections(d)
  BY DEF Connections
<1>2. \A s \in Shells : Connected(s)' <=> Connected(s)
  BY <1>1 DEF Connected
<1>3. \A s, d \in Shells : StageOf(s, d)' = StageOf(s, d)
  BY DEF StageOf
<1>4. ASSUME NEW d \in Shells, NEW s \in Connections(d)
      PROVE  s \in Shells /\ at'[s] = at[s]
  BY <1>4 DEF Connections, IInv, PlaceInv
<1>5. PlaceInv'
  BY <1>1, <1>4 DEF IInv, PlaceInv
<1>6. ASSUME NEW d \in Shells, NEW s \in Connections(d)'
      PROVE  InStep(s, StageOf(s, d))'
  <2>1. s \in Connections(d) /\ s \in Shells
    BY <1>1, <1>4
  <2> DEFINE x == StageOf(s, d)
  <2>2. InStep(s, x)
    BY <2>1 DEF IInv, TalkInv
  <2>3. at'[s] = at[s] /\ prog'[s] = prog[s] /\ step'[s] = step[s] /\ link'[s] = link[s]
    BY <1>4, <2>1
  <2>4. StageOf(s, d)' = x
    BY <1>3, <2>1
  <2> HIDE DEF x
  <2> QED BY <2>2, <2>3, <2>4 DEF InStep
<1>7. ASSUME NEW s \in Shells, ~Connected(s)'
      PROVE  /\ prog'[s] # "none" => Ended(s)'
             /\ at'[s] = "session" => Gone(link[s].to)'
  <2>1. ~Connected(s)
    BY <1>2, <1>7
  <2>2. Gone(link[s].to) => Gone(link[s].to)'
    BY DEF Gone
  <2>3. prog'[s] # "none" => Ended(s)'
    BY <2>1, <2>2, SameEnd DEF IInv, TalkInv
  <2>4. at'[s] = "session" => at[s] = "session"
    OBVIOUS
  <2>5. at[s] = "session" => Gone(link[s].to)
    BY <2>1 DEF IInv, TalkInv
  <2> QED BY <2>2, <2>3, <2>4, <2>5
<1>8. ASSUME NEW s \in Shells, at'[s] = "remove"
      PROVE  link'[s].to = NoOne \/ Gone(link[s].to)'
  <2>1. at[s] = "remove"
    BY <1>8
  <2> QED BY <2>1 DEF IInv, TalkInv, Gone
<1> QED BY <1>5, <1>6, <1>7, <1>8 DEF TalkInv

-----------------------------------------------------------------------------
(* The launcher, when it runs no program, and the start of a vgd.          *)

LEMMA LooksAround ==
    ASSUME IInv, NEW s \in Shells, Begin(s) \/ Decide(s) \/ RemoveFile(s) \/ Hangs(s)
    PROVE  IInv'
<1>1. /\ UNCHANGED <<prog, step, link, daemon, dport, backlog, serving, stage, members>>
      /\ \A p \in Ports : files'[p] = files[p] \/ files'[p] = NoOne
      /\ files' \in [Ports -> Shells \cup {NoOne, "stale"}]
  BY DEF Begin, Decide, RemoveFile, Hangs, launcherVars, peerVars, vgdVars, IInv, TypeOK
<1>2. \/ at' = at
      \/ /\ at[s] \in {"starts", "scan", "remove"} /\ prog[s] = "none"
         /\ at' = [at EXCEPT ![s] = at'[s]]
         /\ at'[s] \in {"scan", "ping", "probe", "vgseer", "over"}
  <2>1. CASE Begin(s)
    <3>1. at[s] = "starts" /\ at' = [at EXCEPT ![s] = IF mode[s] = "local" THEN "scan" ELSE "ping"]
      BY <2>1 DEF Begin, Goes
    <3>2. prog[s] = "none"
      BY <3>1 DEF IInv, RunsInv, TypeOK
    <3> QED BY <3>1, <3>2 DEF IInv, TypeOK
  <2>2. CASE Decide(s)
    BY <2>2 DEF Decide, Goes, IInv, TypeOK
  <2>3. CASE RemoveFile(s)
    <3>1. at[s] = "remove" /\ at' = [at EXCEPT ![s] = "scan"]
      BY <2>3 DEF RemoveFile, Goes
    <3>2. prog[s] = "none"
      BY <3>1 DEF IInv, RunsInv, TypeOK
    <3> QED BY <3>1, <3>2 DEF IInv, TypeOK
  <2>4. CASE Hangs(s)
    BY <2>4 DEF Hangs, launcherVars
  <2> QED BY <2>1, <2>2, <2>3, <2>4
<1>3. TypeOK'
  <2>1. at' \in [Shells -> Places]
    BY <1>2 DEF IInv, TypeOK, Places
  <2> QED BY <1>1, <2>1 DEF IInv, TypeOK
<1>4. RunsInv'
  <2>1. \A t \in Shells : t # s => at'[t] = at[t]
    BY <1>2 DEF IInv, TypeOK
  <2>2. daemon[s] = "none" \/ at' = at
    BY <1>2 DEF IInv, RunsInv
  <2> QED BY <1>1, <1>2, <2>1, <2>2, ZenonT(60) DEF IInv, RunsInv
<1>5. PortInv'
  <2>1. NoOne \notin Shells
    BY LaunchAssumption
  <2>2. \A p \in Ports : files'[p] \in Shells => files'[p] = files[p]
    BY <1>1, <2>1
  <2> QED BY <1>1, <2>2 DEF IInv, PortInv, HasPort
<1>6. PlaceInv' /\ TalkInv'
  <2>1. \A t \in Shells : \/ at'[t] = at[t]
                          \/ prog[t] = "none" /\ at[t] \notin {"session", "over"}
                               /\ at'[t] \notin {"session", "remove"}
    BY <1>2 DEF IInv, TypeOK
  <2> QED BY <1>1, <2>1, QuietStep
<1> QED BY <1>3, <1>4, <1>5, <1>6 DEF IInv

\* A port is had by one vgd: it was free.
LEMMA StartVgdStep ==
    ASSUME IInv, NEW s \in Shells, StartVgd(s)
    PROVE  IInv'
<1>1. /\ UNCHANGED <<prog, step, link, files, backlog, serving, stage, members>>
      /\ at[s] = "vgd" /\ prog[s] = "none" /\ daemon[s] = "none"
  BY DEF StartVgd, peerVars, IInv, RunsInv, TypeOK
<1>2. \/ /\ ~Taken(port[s])
         /\ daemon' = [daemon EXCEPT ![s] = "bound"]
         /\ dport' = [dport EXCEPT ![s] = port[s]]
         /\ at' = [at EXCEPT ![s] = "vgd starts"]
      \/ /\ UNCHANGED <<daemon, dport>>
         /\ at' = [at EXCEPT ![s] = at'[s]] /\ at'[s] \in {"probe", "over"}
  BY DEF StartVgd, Becomes, Goes, IInv, TypeOK
<1>3. TypeOK'
  <2>1. at \in [Shells -> Places] /\ daemon \in [Shells -> States]
    BY DEF IInv, TypeOK
  <2>2. at' \in [Shells -> Places]
    BY <1>2, <2>1 DEF Places
  <2>3. daemon' \in [Shells -> States]
    BY <1>2, <2>1 DEF States
  <2>4. DOMAIN dport' = Shells
    BY <1>2 DEF IInv, TypeOK
  <2> QED BY <1>1, <2>2, <2>3, <2>4 DEF IInv, TypeOK
<1>4. RunsInv'
  <2>1. \A t \in Shells : t # s => at'[t] = at[t] /\ daemon'[t] = daemon[t]
    BY <1>2 DEF IInv, TypeOK
  <2>2. \/ at'[s] = "vgd starts" /\ daemon'[s] = "bound"
        \/ at'[s] \in {"probe", "over"} /\ daemon'[s] = "none"
    BY <1>1, <1>2 DEF IInv, TypeOK
  <2> QED BY <1>1, <2>1, <2>2, ZenonT(60) DEF IInv, RunsInv
<1>5. PortInv'
  <2>1. CASE UNCHANGED <<daemon, dport>>
    BY <1>1, <2>1 DEF IInv, PortInv, HasPort
  <2>2. CASE /\ ~Taken(port[s])
             /\ daemon' = [daemon EXCEPT ![s] = "bound"]
             /\ dport' = [dport EXCEPT ![s] = port[s]]
    <3>1. \A d \in Shells : HasPort(d) => dport[d] # port[s]
      BY <2>2 DEF Taken, Holders
    <3>2. \A d \in Shells : d # s => dport'[d] = dport[d] /\ daemon'[d] = daemon[d]
      BY <2>2 DEF IInv, TypeOK
    <3>3. dport'[s] = port[s]
      BY <2>2 DEF IInv, TypeOK
    <3>4. \A p \in Ports : files[p] # s
      BY <1>1 DEF IInv, PortInv
    <3> QED BY <1>1, <3>1, <3>2, <3>3, <3>4 DEF IInv, PortInv, HasPort
  <2> QED BY <1>2, <2>1, <2>2
<1>6. PlaceInv' /\ TalkInv'
  <2>1. \A t \in Shells : \/ at'[t] = at[t]
                          \/ prog[t] = "none" /\ at[t] \notin {"session", "over"}
                               /\ at'[t] \notin {"session", "remove"}
    BY <1>1, <1>2 DEF IInv, TypeOK
  <2>2. \A d \in Shells : daemon[d] = "gone" => daemon'[d] = "gone"
    BY <1>1, <1>2 DEF IInv, TypeOK
  <2> QED BY <1>1, <2>1, <2>2, QuietStep
<1> QED BY <1>3, <1>4, <1>5, <1>6 DEF IInv

LEMMA VgdStarts ==
    ASSUME IInv, NEW d \in Shells, BindFile(d) \/ Daemonize(d)
    PROVE  IInv'
<1>1. /\ UNCHANGED <<prog, step, link, dport, backlog, serving, stage, members>>
      /\ at[d] = "vgd starts" /\ prog[d] = "none"
  BY DEF BindFile, Daemonize, peerVars, vgdVars, IInv, RunsInv, TypeOK
<1>2. \/ /\ daemon[d] = "bound" /\ daemon' = [daemon EXCEPT ![d] = "named"]
         /\ files' = [files EXCEPT ![dport[d]] = d] /\ at' = at
      \/ /\ daemon[d] = "named" /\ daemon' = [daemon EXCEPT ![d] = "up"]
         /\ files' = files /\ at' = [at EXCEPT ![d] = "vgseer"]
  BY DEF BindFile, Daemonize, Becomes, Goes, launcherVars
<1>3. TypeOK'
  <2>1. at \in [Shells -> Places] /\ daemon \in [Shells -> States]
    BY DEF IInv, TypeOK
  <2>2. at' \in [Shells -> Places]
    BY <1>2, <2>1 DEF Places
  <2>3. daemon' \in [Shells -> States]
    BY <1>2, <2>1 DEF States
  <2>4. files' \in [Ports -> Shells \cup {NoOne, "stale"}]
    <3> DEFINE F == Shells \cup {NoOne, "stale"}
    <3>1. d \in F /\ files \in [Ports -> F]
      BY DEF IInv, TypeOK
    <3> HIDE DEF F
    <3>2. files' \in [Ports -> F]
      BY <1>2, <3>1
    <3> QED BY <3>2 DEF F
  <2> QED BY <1>1, <2>2, <2>3, <2>4 DEF IInv, TypeOK
<1>4. RunsInv'
  <2>1. \A e \in Shells : e # d => at'[e] = at[e] /\ daemon'[e] = daemon[e]
    BY <1>2 DEF IInv, TypeOK
  <2>2. \/ at'[d] = "vgd starts" /\ daemon'[d] = "named"
        \/ at'[d] = "vgseer" /\ daemon'[d] = "up"
    BY <1>1, <1>2 DEF IInv, TypeOK
  <2> QED BY <1>1, <2>1, <2>2 DEF IInv, RunsInv
<1>5. PortInv'
  <2>1. \A e \in Shells : daemon'[e] = daemon[e] \/ (e = d /\ HasPort(d) /\ daemon'[d] \in {"named", "up"})
    BY <1>2 DEF IInv, TypeOK, HasPort
  <2>2. \A p \in Ports : files'[p] = files[p] \/ (files'[p] = d /\ p = dport[d])
    BY <1>2 DEF IInv, TypeOK
  <2>3. daemon'[d] \in {"named", "up"}
    BY <1>2 DEF IInv, TypeOK
  <2> QED BY <1>1, <2>1, <2>2, <2>3, ZenonT(60) DEF IInv, PortInv, HasPort
<1>6. PlaceInv' /\ TalkInv'
  <2>1. \A t \in Shells : \/ at'[t] = at[t]
                          \/ prog[t] = "none" /\ at[t] \notin {"session", "over"}
                               /\ at'[t] \notin {"session", "remove"}
    BY <1>1, <1>2 DEF IInv, TypeOK
  <2>2. \A e \in Shells : daemon[e] = "gone" => daemon'[e] = "gone"
    BY <1>1, <1>2 DEF IInv, TypeOK
  <2> QED BY <1>1, <2>1, <2>2, QuietStep
<1> QED BY <1>3, <1>4, <1>5, <1>6 DEF IInv

-----------------------------------------------------------------------------
(* A program is run, or cannot connect.                                    *)

\* Who runs nothing and is neither in a session nor over is connected to nobody.
LEMMA NotConnected ==
    ASSUME IInv, NEW s \in Shells, prog[s] = "none", at[s] \notin {"session", "over"}
    PROVE  ~Connected(s)
  BY DEF IInv, PlaceInv, Connected

\* Only s, who is connected to nobody, changes.
LEMMA AloneStep ==
    ASSUME IInv, NEW s \in Shells, ~Connected(s),
           UNCHANGED <<daemon, backlog, serving, stage, members>>,
           \A t \in Shells : t # s =>
              at'[t] = at[t] /\ prog'[t] = prog[t] /\ step'[t] = step[t] /\ link'[t] = link[t],
           prog'[s] # "none" => Ended(s)',
           at'[s] = "session" => Gone(link[s].to) /\ link'[s].to = link[s].to,
           at'[s] = "remove" => link'[s].to = NoOne \/ Gone(link'[s].to)
    PROVE  PlaceInv' /\ TalkInv'
<1>1. \A d \in Shells : Connections(d)' = Connections(d)
  BY DEF Connections
<1>2. \A t \in Shells : Connected(t)' <=> Connected(t)
  BY <1>1 DEF Connected
<1>3. ASSUME NEW d \in Shells, NEW t \in Connections(d)
      PROVE  t \in Shells /\ t # s
  BY DEF Connections, Connected
<1>4. PlaceInv'
  BY <1>1, <1>3 DEF IInv, PlaceInv
<1>5. ASSUME NEW d \in Shells, NEW t \in Connections(d)'
      PROVE  InStep(t, StageOf(t, d))'
  <2>1. t \in Connections(d) /\ t \in Shells /\ t # s
    BY <1>1, <1>3
  <2> DEFINE x == StageOf(t, d)
  <2>2. InStep(t, x)
    BY <2>1 DEF IInv, TalkInv
  <2>3. StageOf(t, d)' = x
    BY DEF StageOf
  <2> HIDE DEF x
  <2> QED BY <2>1, <2>2, <2>3 DEF InStep
<1>6. ASSUME NEW t \in Shells, ~Connected(t)'
      PROVE  /\ prog'[t] # "none" => Ended(t)'
             /\ at'[t] = "session" => Gone(link[t].to)' /\ link'[t].to = link[t].to
  <2>1. CASE t = s
    BY <2>1 DEF Gone
  <2>2. CASE t # s
    <3>1. ~Connected(t)
      BY <1>2, <1>6
    <3>2. prog[t] # "none" => Ended(t)
      BY <3>1 DEF IInv, TalkInv
    <3>3. at[t] = "session" => Gone(link[t].to)
      BY <3>1 DEF IInv, TalkInv
    <3>4. Gone(link[t].to) => Gone(link[t].to)'
      BY <2>2 DEF Gone
    <3>5. prog'[t] # "none" => Ended(t)'
      BY <2>2, <3>2, <3>4, SameEnd
    <3> QED BY <2>2, <3>3, <3>4, <3>5
  <2> QED BY <2>1, <2>2
<1>7. ASSUME NEW t \in Shells, at'[t] = "remove"
      PROVE  link'[t].to = NoOne \/ Gone(link[t].to)'
  BY <1>7 DEF IInv, TalkInv, Gone
<1> QED BY <1>4, <1>5, <1>6, <1>7 DEF TalkInv

\* Only those in S say, hear, come or go.
LEMMA TalkStep ==
    ASSUME IInv, NEW S \in SUBSET Shells,
           \A t \in Shells \ S :
              /\ at'[t] = at[t] /\ prog'[t] = prog[t] /\ step'[t] = step[t] /\ link'[t] = link[t]
              /\ \A d \in Shells : /\ t \in Connections(d)' <=> t \in Connections(d)
                                   /\ t \in Connections(d) => StageOf(t, d)' = StageOf(t, d),
           \A d \in Shells : daemon[d] = "gone" => daemon'[d] = "gone",
           \A d \in Shells :
              /\ IsInjective(backlog'[d])
              /\ serving'[d] \notin members'[d] /\ serving'[d] \notin ToSet(backlog'[d])
              /\ members'[d] \cap ToSet(backlog'[d]) = {},
           \A s \in S : \A d \in Shells : s \in Connections(d)' =>
              /\ link'[s].to = d
              /\ prog'[s] = "none" => at'[s] \in {"session", "over"}
              /\ InStep(s, StageOf(s, d))',
           \A s \in S : ~Connected(s)' =>
              /\ prog'[s] # "none" => Ended(s)'
              /\ at'[s] = "session" => Gone(link[s].to)',
           \A s \in S : at'[s] = "remove" => link'[s].to = NoOne \/ Gone(link[s].to)'
    PROVE  PlaceInv' /\ TalkInv'
<1>1. ASSUME NEW d \in Shells, NEW t \in Connections(d)', t \notin S
      PROVE  /\ t \in Connections(d) /\ t \in Shells
             /\ at'[t] = at[t] /\ prog'[t] = prog[t] /\ step'[t] = step[t] /\ link'[t] = link[t]
             /\ StageOf(t, d)' = StageOf(t, d)
  <2>1. t \in Shells
    BY DEF Connections
  <2> QED BY <1>1, <2>1
<1>2. \A d \in Shells : Connections(d)' \subseteq Shells
  BY DEF Connections
<1>3. PlaceInv'
  <2>1. ASSUME NEW d \in Shells, NEW t \in Connections(d)'
        PROVE  link'[t].to = d
    <3>1. CASE t \notin S
      BY <1>1, <3>1 DEF IInv, PlaceInv
    <3> QED BY <3>1
  <2>2. ASSUME NEW t \in Shells, NEW d \in Shells, t \in Connections(d)', prog'[t] = "none"
        PROVE  at'[t] \in {"session", "over"}
    <3>1. CASE t \notin S
      BY <1>1, <2>2, <3>1 DEF IInv, PlaceInv
    <3> QED BY <2>2, <3>1
  <2> QED BY <2>1, <2>2 DEF PlaceInv
<1>4. ASSUME NEW d \in Shells, NEW t \in Connections(d)'
      PROVE  InStep(t, StageOf(t, d))'
  <2>1. CASE t \notin S
    <3> DEFINE x == StageOf(t, d)
    <3>1. t \in Connections(d) /\ t \in Shells
      BY <1>1, <2>1
    <3>2. InStep(t, x)
      BY <3>1 DEF IInv, TalkInv
    <3>3. StageOf(t, d)' = x
      BY <1>1, <2>1
    <3>4. at'[t] = at[t] /\ prog'[t] = prog[t] /\ step'[t] = step[t] /\ link'[t] = link[t]
      BY <1>1, <2>1
    <3> HIDE DEF x
    <3> QED BY <3>2, <3>3, <3>4 DEF InStep
  <2> QED BY <2>1
<1>5. ASSUME NEW t \in Shells, ~Connected(t)', t \notin S
      PROVE  /\ prog'[t] # "none" => Ended(t)'
             /\ at'[t] = "session" => Gone(link[t].to)'
  <2>1. ~Connected(t)
    BY <1>5 DEF Connected
  <2>2. prog[t] # "none" => Ended(t)
    BY <2>1 DEF IInv, TalkInv
  <2>3. at[t] = "session" => Gone(link[t].to)
    BY <2>1 DEF IInv, TalkInv
  <2>4. at'[t] = at[t] /\ prog'[t] = prog[t] /\ step'[t] = step[t] /\ link'[t] = link[t]
    BY <1>5
  <2>5. Gone(link[t].to) => Gone(link[t].to)'
    BY <2>4 DEF Gone
  <2>6. prog'[t] # "none" => Ended(t)'
    BY <2>2, <2>4, <2>5, SameEnd
  <2> QED BY <2>3, <2>4, <2>5, <2>6
<1>6. ASSUME NEW t \in Shells, at'[t] = "remove"
      PROVE  link'[t].to = NoOne \/ Gone(link[t].to)'
  <2>1. CASE t \notin S
    <3>1. at[t] = "remove" /\ link'[t] = link[t]
      BY <1>6, <2>1
    <3> QED BY <3>1 DEF IInv, TalkInv, Gone
  <2> QED BY <1>6, <2>1
<1> QED BY <1>3, <1>4, <1>5, <1>6 DEF TalkInv

LEMMA OneRuns ==
    ASSUME IInv, NEW s \in Shells,
           \A t \in Shells \ {s} :
              at'[t] = at[t] /\ prog'[t] = prog[t] /\ step'[t] = step[t] /\ daemon'[t] = daemon[t],
           prog'[s] = "vgping" => at'[s] \in {"scan", "probe", "ping"} /\ step'[s] <= 2,
           prog'[s] = "vgseer" <=> at'[s] = "connects",
           prog'[s] = "vgseer" /\ step'[s] = 5 => s \in Differs,
           at'[s] \in {"starts", "scan", "remove", "probe", "ping", "vgd"} => daemon'[s] = "none",
           at'[s] = "vgd starts" <=> daemon'[s] \in {"bound", "named"}
    PROVE  RunsInv'
<1> SUFFICES ASSUME NEW t \in Shells
             PROVE  /\ prog'[t] = "vgping" => at'[t] \in {"scan", "probe", "ping"} /\ step'[t] <= 2
                    /\ prog'[t] = "vgseer" <=> at'[t] = "connects"
                    /\ prog'[t] = "vgseer" /\ step'[t] = 5 => t \in Differs
                    /\ at'[t] \in {"starts", "scan", "remove", "probe", "ping", "vgd"} =>
                          daemon'[t] = "none"
                    /\ at'[t] = "vgd starts" <=> daemon'[t] \in {"bound", "named"}
  BY DEF RunsInv
<1>1. CASE t = s
  BY <1>1
<1>2. CASE t # s
  <2>1. at'[t] = at[t] /\ prog'[t] = prog[t] /\ step'[t] = step[t] /\ daemon'[t] = daemon[t]
    BY <1>2
  <2> QED BY <2>1 DEF IInv, RunsInv
<1> QED BY <1>1, <1>2

LEMMA OneTalks ==
    ASSUME IInv, NEW s \in Shells,
           \A t \in Shells \ {s} :
              at'[t] = at[t] /\ prog'[t] = prog[t] /\ step'[t] = step[t] /\ link'[t] = link[t],
           \A t \in Shells \ {s} : \A d \in Shells :
              /\ t \in Connections(d)' <=> t \in Connections(d)
              /\ t \in Connections(d) => StageOf(t, d)' = StageOf(t, d),
           \A d \in Shells : daemon[d] = "gone" => daemon'[d] = "gone",
           \A d \in Shells :
              /\ IsInjective(backlog'[d])
              /\ serving'[d] \notin members'[d] /\ serving'[d] \notin ToSet(backlog'[d])
              /\ members'[d] \cap ToSet(backlog'[d]) = {},
           \A d \in Shells : s \in Connections(d)' =>
              /\ link'[s].to = d
              /\ prog'[s] = "none" => at'[s] \in {"session", "over"}
              /\ InStep(s, StageOf(s, d))',
           ~Connected(s)' =>
              /\ prog'[s] # "none" => Ended(s)'
              /\ at'[s] = "session" => Gone(link[s].to)',
           at'[s] = "remove" => link'[s].to = NoOne \/ Gone(link[s].to)'
    PROVE  PlaceInv' /\ TalkInv'
<1> DEFINE S == {s}
<1>1. S \in SUBSET Shells
  OBVIOUS
<1>2. \A t \in Shells \ S :
         /\ at'[t] = at[t] /\ prog'[t] = prog[t] /\ step'[t] = step[t] /\ link'[t] = link[t]
         /\ \A d \in Shells : /\ t \in Connections(d)' <=> t \in Connections(d)
                              /\ t \in Connections(d) => StageOf(t, d)' = StageOf(t, d)
  OBVIOUS
<1>3. \A t \in S : t = s
  OBVIOUS
<1>4. ASSUME NEW t \in S
      PROVE  /\ \A d \in Shells : t \in Connections(d)' =>
                   /\ link'[t].to = d
                   /\ prog'[t] = "none" => at'[t] \in {"session", "over"}
                   /\ InStep(t, StageOf(t, d))'
             /\ ~Connected(t)' =>
                   /\ prog'[t] # "none" => Ended(t)'
                   /\ at'[t] = "session" => Gone(link[t].to)'
             /\ at'[t] = "remove" => link'[t].to = NoOne \/ Gone(link[t].to)'
  <2>1. t = s
    BY <1>3
  <2> QED BY <2>1
<1> HIDE DEF S
<1> QED BY <1>1, <1>2, <1>4, TalkStep

\* vgd has a connection more to accept.
LEMMA RunStep ==
    ASSUME IInv, NEW s \in Shells, NEW d \in Shells, NEW program \in {"vgping", "vgseer"},
           prog[s] = "none", ~Connected(s), RunProgram(s, program, d),
           at' \in [Shells -> Places],
           \A t \in Shells : t # s => at'[t] = at[t],
           at'[s] \notin {"session", "over", "remove"}
    PROVE  /\ TypeOK' /\ PlaceInv' /\ TalkInv'
           /\ daemon' = daemon /\ prog'[s] = program /\ step'[s] = 1
           /\ \A t \in Shells : t # s => prog'[t] = prog[t] /\ step'[t] = step[t]
<1>1. /\ prog' = [prog EXCEPT ![s] = program]
      /\ step' = [step EXCEPT ![s] = 1]
      /\ link' = [link EXCEPT ![s] = [NoLink EXCEPT !.to = d]]
      /\ backlog' = [backlog EXCEPT ![d] = Append(@, s)]
      /\ UNCHANGED <<files, daemon, dport, serving, stage, members>>
  BY DEF RunProgram
<1> DEFINE new == [NoLink EXCEPT !.to = d]
<1>2. /\ new.to = d /\ new.up = <<>> /\ new.down = <<>>
      /\ new \in [to : Shells \cup {NoOne}, up : Seq(Words), down : Seq(Words)]
  <2>1. new = [to |-> d, up |-> <<>>, down |-> <<>>]
    BY DEF NoLink
  <2>2. <<>> \in Seq(Words) /\ d \in Shells \cup {NoOne}
    OBVIOUS
  <2> HIDE DEF new
  <2> QED BY <2>1, <2>2
<1>3. /\ prog'[s] = program /\ step'[s] = 1 /\ link'[s] = new
      /\ \A t \in Shells : t # s => prog'[t] = prog[t] /\ step'[t] = step[t] /\ link'[t] = link[t]
  BY <1>1 DEF IInv, TypeOK
<1>4. link'[s].to = d /\ link'[s].up = <<>> /\ link'[s].down = <<>>
  BY <1>2, <1>3
<1>5. \A e \in Shells : s \notin ToSet(backlog[e]) /\ s # serving[e] /\ s \notin members[e]
  BY ConnectionsIs DEF Connected
<1> DEFINE b == Append(backlog[d], s)
<1>6. /\ b \in Seq(Shells) /\ IsInjective(b) /\ ToSet(b) = ToSet(backlog[d]) \cup {s}
  BY <1>5, AppendKeepsDistinct DEF IInv, TypeOK, PlaceInv
<1> HIDE DEF b, new
<1>7. backlog'[d] = b /\ \A e \in Shells : e # d => backlog'[e] = backlog[e]
  BY <1>1 DEF IInv, TypeOK, b
<1>8. \A e \in Shells : Connections(e)' = IF e = d THEN Connections(e) \cup {s} ELSE Connections(e)
  BY <1>1, <1>6, <1>7 DEF Connections
<1>9. TypeOK'
  <2>1. prog' \in [Shells -> {"none", "vgping", "vgseer"}] /\ step' \in [Shells -> 1..8]
    BY <1>1 DEF IInv, TypeOK
  <2>2. link' \in [Shells -> [to : Shells \cup {NoOne}, up : Seq(Words), down : Seq(Words)]]
    BY <1>1, <1>2 DEF IInv, TypeOK, new
  <2>3. backlog' \in [Shells -> Seq(Shells)]
    BY <1>1, <1>6 DEF IInv, TypeOK, b
  <2> QED BY <1>1, <2>1, <2>2, <2>3 DEF IInv, TypeOK
<1>10. \A t \in Shells \ {s} : \A e \in Shells :
          /\ t \in Connections(e)' <=> t \in Connections(e)
          /\ t \in Connections(e) => StageOf(t, e)' = StageOf(t, e)
  BY <1>1, <1>8 DEF StageOf
<1>11. ASSUME NEW e \in Shells
       PROVE  /\ IsInjective(backlog'[e])
              /\ serving'[e] \notin members'[e] /\ serving'[e] \notin ToSet(backlog'[e])
              /\ members'[e] \cap ToSet(backlog'[e]) = {}
  <2>1. /\ IsInjective(backlog[e]) /\ serving[e] \notin members[e]
        /\ serving[e] \notin ToSet(backlog[e]) /\ members[e] \cap ToSet(backlog[e]) = {}
    BY DEF IInv, PlaceInv
  <2>2. CASE e = d
    <3>1. backlog'[e] = b /\ ToSet(b) = ToSet(backlog[e]) \cup {s} /\ serving' = serving /\ members' = members
      BY <1>1, <1>6, <1>7, <2>2
    <3> QED BY <1>5, <1>6, <2>1, <3>1
  <2>3. CASE e # d
    BY <1>1, <1>7, <2>1, <2>3
  <2> QED BY <2>2, <2>3
<1>12. ASSUME NEW e \in Shells, s \in Connections(e)'
       PROVE  link'[s].to = e /\ InStep(s, StageOf(s, e))'
  <2>1. e = d
    BY <1>5, <1>8, <1>12 DEF Connections
  <2>2. StageOf(s, d)' = "purpose"
    BY <1>1, <1>5 DEF StageOf
  <2>3. Has(<<>>, Sayings(program), 0, 0, FALSE) /\ Has(<<>>, Replies(s, program), 0, 0, FALSE)
    BY DEF Has
  <2>4. /\ Heard("purpose") = 0 /\ Told(s, "purpose") = 0 /\ Said(program, 1) = 0
        /\ Got(s, program, 1) = 0 /\ "purpose" \in StagesOf(program)
    BY DEF Heard, Told, Said, Got, StagesOf, Stages
  <2>5. InStep(s, "purpose")'
    BY <1>3, <1>4, <2>3, <2>4, ZenonT(60) DEF InStep
  <2> QED BY <1>4, <2>1, <2>2, <2>5, ZenonT(60) DEF InStep
<1>13. Connected(s)'
  BY <1>8 DEF Connected
<1>14. PlaceInv' /\ TalkInv'
  <2>1. /\ \A d_1 \in Shells : daemon[d_1] = "gone" => daemon'[d_1] = "gone"
        /\ prog'[s] # "none"
        /\ \A t \in Shells \ {s} :
              at'[t] = at[t] /\ prog'[t] = prog[t] /\ step'[t] = step[t] /\ link'[t] = link[t]
    BY <1>1, <1>3
  <2> QED BY <1>10, <1>11, <1>12, <1>13, <2>1, OneTalks
<1> QED BY <1>1, <1>3, <1>9, <1>14

\* Where a program connects there is a vgd.
LEMMA Targets ==
    ASSUME IInv, NEW p
    PROVE  /\ tcp_connect(p) # NoOne => tcp_connect(p) \in Shells
           /\ unix_connect(p) # NoOne => unix_connect(p) \in Shells
<1>1. tcp_connect(p) # NoOne => tcp_connect(p) \in Shells
  BY DEF tcp_connect, Holders
<1>2. unix_connect(p) # NoOne => unix_connect(p) \in Shells
  BY DEF unix_connect
<1> QED BY <1>1, <1>2

LEMMA PingStep ==
    ASSUME IInv, NEW s \in Shells, Ping(s)
    PROVE  IInv'
<1>1. prog[s] = "none" /\ at[s] \in {"scan", "probe", "ping"}
  BY DEF Ping
<1>2. ~Connected(s)
  BY <1>1, NotConnected
<1>3. CASE Target(s) = NoOne
  <2>1. /\ NotAnswered(s) /\ link' = [link EXCEPT ![s] = NoLink]
        /\ UNCHANGED <<prog, step, files, daemon, dport, backlog, serving, stage, members>>
    BY <1>3 DEF Ping, NoProgram, peerVars, vgdVars
  <2>2. at' = [at EXCEPT ![s] = at'[s]] /\ at'[s] \in {"remove", "vgd", "over"}
    <3>1. \E x \in {"remove", "vgd", "over"} : at' = [at EXCEPT ![s] = x]
      BY <2>1 DEF NotAnswered, Goes
    <3> QED BY <3>1 DEF IInv, TypeOK
  <2>3. /\ link'[s] = NoLink /\ NoLink.to = NoOne
        /\ \A t \in Shells : t # s => at'[t] = at[t] /\ link'[t] = link[t]
    BY <2>1, <2>2 DEF IInv, TypeOK, NoLink
  <2>4. TypeOK'
    <3>1. at \in [Shells -> Places] /\ {"remove", "vgd", "over"} \subseteq Places
      BY DEF IInv, TypeOK, Places
    <3>2. at' \in [Shells -> Places]
      BY <2>2, <3>1
    <3>3. link' \in [Shells -> [to : Shells \cup {NoOne}, up : Seq(Words), down : Seq(Words)]]
      BY <2>1 DEF IInv, TypeOK, NoLink
    <3> QED BY <2>1, <3>2, <3>3 DEF IInv, TypeOK
  <2>5. RunsInv'
    BY <1>1, <2>1, <2>2, <2>3 DEF IInv, RunsInv
  <2>6. PortInv'
    BY <2>1 DEF IInv, PortInv, HasPort
  <2>7. PlaceInv' /\ TalkInv'
    BY <1>1, <1>2, <2>1, <2>2, <2>3, AloneStep
  <2> QED BY <2>4, <2>5, <2>6, <2>7 DEF IInv
<1>4. CASE Target(s) # NoOne
  <2> DEFINE d == Target(s)
  <2>1. RunProgram(s, "vgping", d) /\ at' = at
    BY <1>4 DEF Ping, launcherVars
  <2>2. d \in Shells
    BY <1>4, Targets DEF Target
  <2> HIDE DEF d
  <2>3. TypeOK' /\ PlaceInv' /\ TalkInv'
    <3>1. at' \in [Shells -> Places]
      BY <2>1 DEF IInv, TypeOK
    <3> QED BY <1>1, <1>2, <2>1, <2>2, <3>1, RunStep
  <2>4. RunsInv'
    <3>1. /\ daemon' = daemon /\ prog'[s] = "vgping" /\ step'[s] = 1
          /\ \A t \in Shells : t # s => prog'[t] = prog[t] /\ step'[t] = step[t]
      BY <1>1, <1>2, <2>1, <2>2, RunStep DEF IInv, TypeOK
    <3>2. daemon[s] \notin {"bound", "named"}
      BY <1>1 DEF IInv, RunsInv
    <3>3. /\ prog'[s] = "vgping" /\ step'[s] = 1 /\ at'[s] \in {"scan", "probe", "ping", "connects"}
          /\ at'[s] = "connects" <=> prog'[s] = "vgseer"
          /\ at'[s] # "connects" => at'[s] = at[s]
      BY <1>1, <2>1, <3>1
    <3>4. \A t \in Shells : t # s => at'[t] = at[t]
      BY <2>1 DEF IInv, TypeOK
    <3>5. at[s] # "vgseer" => daemon[s] = "none"
      BY <1>1 DEF IInv, RunsInv
    <3>6. \A t \in Shells \ {s} :
             at'[t] = at[t] /\ prog'[t] = prog[t] /\ step'[t] = step[t] /\ daemon'[t] = daemon[t]
      BY <3>1, <3>4
    <3>7. /\ prog'[s] = "vgping" => at'[s] \in {"scan", "probe", "ping"} /\ step'[s] <= 2
          /\ prog'[s] = "vgseer" <=> at'[s] = "connects"
          /\ prog'[s] = "vgseer" /\ step'[s] = 5 => s \in Differs
      BY <3>3
    <3>8. /\ at'[s] \in {"starts", "scan", "remove", "probe", "ping", "vgd"} => daemon'[s] = "none"
          /\ at'[s] = "vgd starts" <=> daemon'[s] \in {"bound", "named"}
      BY <3>1, <3>2, <3>3, <3>5
    <3> QED BY <3>6, <3>7, <3>8, OneRuns
  <2>5. PortInv'
    BY <2>1 DEF RunProgram, IInv, PortInv, HasPort
  <2> QED BY <2>3, <2>4, <2>5 DEF IInv
<1> QED BY <1>3, <1>4

LEMMA VgseerRunStep ==
    ASSUME IInv, NEW s \in Shells, Vgseer(s)
    PROVE  IInv'
<1> DEFINE d == IF mode[s] = "host" THEN tcp_connect(port[s]) ELSE unix_connect(port[s])
<1>1. at[s] = "vgseer" /\ prog[s] = "none"
  BY DEF Vgseer, IInv, RunsInv, TypeOK
<1>2. ~Connected(s)
  BY <1>1, NotConnected
<1>3. d # NoOne => d \in Shells
  BY Targets
<1>4. \/ d = NoOne /\ Goes(s, "over") /\ NoProgram(s)
      \/ d # NoOne /\ Goes(s, "connects") /\ RunProgram(s, "vgseer", d)
  BY DEF Vgseer
<1> HIDE DEF d
<1>5. CASE d = NoOne
  <2>1. /\ at' = [at EXCEPT ![s] = "over"] /\ link' = [link EXCEPT ![s] = NoLink]
        /\ UNCHANGED <<prog, step, files, daemon, dport, backlog, serving, stage, members>>
    BY <1>4, <1>5 DEF Goes, NoProgram, peerVars, vgdVars
  <2>2. /\ link'[s] = NoLink /\ NoLink.to = NoOne /\ at'[s] = "over"
        /\ \A t \in Shells : t # s => at'[t] = at[t] /\ link'[t] = link[t]
    BY <2>1 DEF IInv, TypeOK, NoLink
  <2>3. TypeOK'
    <3>1. at' \in [Shells -> Places]
      BY <2>1 DEF IInv, TypeOK, Places
    <3>2. link' \in [Shells -> [to : Shells \cup {NoOne}, up : Seq(Words), down : Seq(Words)]]
      BY <2>1 DEF IInv, TypeOK, NoLink
    <3> QED BY <2>1, <3>1, <3>2 DEF IInv, TypeOK
  <2>4. RunsInv'
    <3>1. ASSUME NEW t \in Shells
          PROVE  /\ prog'[t] = "vgping" => at'[t] \in {"scan", "probe", "ping"} /\ step'[t] <= 2
                 /\ prog'[t] = "vgseer" <=> at'[t] = "connects"
                 /\ prog'[t] = "vgseer" /\ step'[t] = 5 => t \in Differs
                 /\ at'[t] \in {"starts", "scan", "remove", "probe", "ping", "vgd"} =>
                       daemon'[t] = "none"
                 /\ at'[t] = "vgd starts" <=> daemon'[t] \in {"bound", "named"}
      <4>1. /\ prog[t] = "vgping" => at[t] \in {"scan", "probe", "ping"} /\ step[t] <= 2
            /\ prog[t] = "vgseer" <=> at[t] = "connects"
            /\ prog[t] = "vgseer" /\ step[t] = 5 => t \in Differs
            /\ at[t] \in {"starts", "scan", "remove", "probe", "ping", "vgd"} =>
                  daemon[t] = "none"
            /\ at[t] = "vgd starts" <=> daemon[t] \in {"bound", "named"}
        BY DEF IInv, RunsInv
      <4>2. prog'[t] = prog[t] /\ step'[t] = step[t] /\ daemon'[t] = daemon[t]
        BY <2>1
      <4> QED BY <1>1, <2>2, <4>1, <4>2
    <3> QED BY <3>1 DEF RunsInv
  <2>5. PortInv'
    BY <2>1 DEF IInv, PortInv, HasPort
  <2>6. PlaceInv' /\ TalkInv'
    BY <1>1, <1>2, <2>1, <2>2, AloneStep
  <2> QED BY <2>3, <2>4, <2>5, <2>6 DEF IInv
<1>6. CASE d # NoOne
  <2>1. RunProgram(s, "vgseer", d) /\ at' = [at EXCEPT ![s] = "connects"]
    BY <1>4, <1>6 DEF Goes
  <2>2. at' \in [Shells -> Places] /\ at'[s] = "connects" /\ \A t \in Shells : t # s => at'[t] = at[t]
    BY <2>1 DEF IInv, TypeOK, Places
  <2>3. TypeOK' /\ PlaceInv' /\ TalkInv'
    BY <1>1, <1>2, <1>3, <1>6, <2>1, <2>2, RunStep
  <2>4. RunsInv'
    <3>1. /\ daemon' = daemon /\ prog'[s] = "vgseer" /\ step'[s] = 1
          /\ \A t \in Shells : t # s => prog'[t] = prog[t] /\ step'[t] = step[t]
      BY <1>1, <1>2, <1>3, <1>6, <2>1, <2>2, RunStep
    <3>2. daemon[s] \notin {"bound", "named"}
      BY <1>1 DEF IInv, RunsInv
    <3>3. /\ prog'[s] = "vgseer" /\ step'[s] = 1 /\ at'[s] \in {"scan", "probe", "ping", "connects"}
          /\ at'[s] = "connects" <=> prog'[s] = "vgseer"
          /\ at'[s] # "connects" => at'[s] = at[s]
      BY <1>1, <2>2, <3>1
    <3>4. \A t \in Shells : t # s => at'[t] = at[t]
      BY <2>1 DEF IInv, TypeOK
    <3>5. at[s] # "vgseer" => daemon[s] = "none"
      BY <1>1 DEF IInv, RunsInv
    <3>6. \A t \in Shells \ {s} :
             at'[t] = at[t] /\ prog'[t] = prog[t] /\ step'[t] = step[t] /\ daemon'[t] = daemon[t]
      BY <3>1, <3>4
    <3>7. /\ prog'[s] = "vgping" => at'[s] \in {"scan", "probe", "ping"} /\ step'[s] <= 2
          /\ prog'[s] = "vgseer" <=> at'[s] = "connects"
          /\ prog'[s] = "vgseer" /\ step'[s] = 5 => s \in Differs
      BY <3>3
    <3>8. /\ at'[s] \in {"starts", "scan", "remove", "probe", "ping", "vgd"} => daemon'[s] = "none"
          /\ at'[s] = "vgd starts" <=> daemon'[s] \in {"bound", "named"}
      BY <3>1, <3>2, <3>3, <3>5
    <3> QED BY <3>6, <3>7, <3>8, OneRuns
  <2>5. PortInv'
    BY <2>1 DEF RunProgram, IInv, PortInv, HasPort
  <2> QED BY <2>3, <2>4, <2>5 DEF IInv
<1> QED BY <1>5, <1>6

-----------------------------------------------------------------------------
(* A program speaks and listens.                                           *)

LEMMA CountsTypes ==
    /\ \A x \in Stages \cup {"member"} : Heard(x) \in 0..4
    /\ \A s, x : Told(s, x) \in 0..4
    /\ \A s : StatusWords(s) \in 1..2
  BY DEF Heard, Told, StatusWords, Stages

LEMMA ToldLast ==
    ASSUME NEW s, NEW x, StatusWords(s) + 1 < Told(s, x)
    PROVE  x = "member"
  BY DEF Told, StatusWords

\* How far vgd is with one who is connected.
LEMMA AtStage ==
    ASSUME IInv, NEW d \in Shells, NEW s \in Connections(d)
    PROVE  /\ s \in Shells
           /\ \E x \in Stages \cup {"member"} : x = StageOf(s, d) /\ InStep(s, x) /\ link[s].to = d
<1>1. s \in Shells
  BY DEF Connections
<1>2. InStep(s, StageOf(s, d)) /\ link[s].to = d
  BY DEF IInv, TalkInv, PlaceInv
<1>3. stage[d] \in Stages /\ "purpose" \in Stages
  BY DEF IInv, TypeOK, Stages
<1>4. StageOf(s, d) \in Stages \cup {"member"}
  BY <1>3 DEF StageOf
<1> QED BY <1>1, <1>2, <1>4

\* Where one is who runs a program.
LEMMA Running ==
    ASSUME IInv, NEW s \in Shells, prog[s] # "none"
    PROVE  /\ prog[s] \in {"vgping", "vgseer"}
           /\ at[s] \in {"scan", "probe", "ping", "connects"}
           /\ prog[s] = "vgping" => at[s] \in {"scan", "probe", "ping"}
           /\ prog[s] = "vgseer" <=> at[s] = "connects"
           /\ daemon[s] \notin {"bound", "named"}
<1>1. prog[s] \in {"vgping", "vgseer"}
  BY DEF IInv, TypeOK
<1> QED BY <1>1 DEF IInv, RunsInv

LEMMA EmptyWords == <<>> \in Seq(Words)
  OBVIOUS

\* One queue of a connection changes.
LEMMA LinkWith ==
    ASSUME TypeOK, NEW s \in Shells, NEW q \in Seq(Words)
    PROVE  /\ link' = [link EXCEPT ![s].up = q] =>
                 /\ link' \in [Shells -> [to : Shells \cup {NoOne}, up : Seq(Words), down : Seq(Words)]]
                 /\ link'[s].to = link[s].to /\ link'[s].up = q /\ link'[s].down = link[s].down
                 /\ \A t \in Shells \ {s} : link'[t] = link[t]
           /\ link' = [link EXCEPT ![s].down = q] =>
                 /\ link' \in [Shells -> [to : Shells \cup {NoOne}, up : Seq(Words), down : Seq(Words)]]
                 /\ link'[s].to = link[s].to /\ link'[s].up = link[s].up /\ link'[s].down = q
                 /\ \A t \in Shells \ {s} : link'[t] = link[t]
           /\ link[s].up \in Seq(Words) /\ link[s].down \in Seq(Words)
<1> DEFINE L == [to : Shells \cup {NoOne}, up : Seq(Words), down : Seq(Words)]
<1>1. link \in [Shells -> L] /\ link[s] \in L
  BY DEF TypeOK
<1>2. link[s].up \in Seq(Words) /\ link[s].down \in Seq(Words)
  BY <1>1
<1>3. [link[s] EXCEPT !.up = q] \in L /\ [link[s] EXCEPT !.down = q] \in L
  BY <1>1
<1> DEFINE u == [link[s] EXCEPT !.up = q]
           v == [link[s] EXCEPT !.down = q]
<1>4. /\ u.to = link[s].to /\ u.up = q /\ u.down = link[s].down
      /\ v.to = link[s].to /\ v.up = link[s].up /\ v.down = q
  BY <1>1
<1>5. /\ link' = [link EXCEPT ![s].up = q] => link' = [link EXCEPT ![s] = u]
      /\ link' = [link EXCEPT ![s].down = q] => link' = [link EXCEPT ![s] = v]
  OBVIOUS
<1>6. u \in L /\ v \in L
  BY <1>3
<1> HIDE DEF u, v
<1>7. /\ link' = [link EXCEPT ![s] = u] =>
            link' \in [Shells -> L] /\ link'[s] = u /\ \A t \in Shells \ {s} : link'[t] = link[t]
      /\ link' = [link EXCEPT ![s] = v] =>
            link' \in [Shells -> L] /\ link'[s] = v /\ \A t \in Shells \ {s} : link'[t] = link[t]
  <2> HIDE DEF L
  <2> QED BY <1>1, <1>6
<1> QED BY <1>2, <1>4, <1>5, <1>7

LEMMA LinkSays ==
    ASSUME TypeOK, NEW s \in Shells, NEW m \in Words
    PROVE  /\ Says(s, m) =>
                 /\ link' \in [Shells -> [to : Shells \cup {NoOne}, up : Seq(Words), down : Seq(Words)]]
                 /\ link'[s].to = link[s].to /\ link'[s].up = Append(link[s].up, m)
                 /\ link'[s].down = link[s].down
                 /\ \A t \in Shells \ {s} : link'[t] = link[t]
           /\ link[s].up \in Seq(Words) /\ link[s].down \in Seq(Words)
<1> DEFINE q == Append(link[s].up, m)
<1>1. link[s].up \in Seq(Words) /\ link[s].down \in Seq(Words)
  BY EmptyWords, LinkWith
<1>2. q \in Seq(Words)
  BY <1>1, AppendProperties
<1>3. Says(s, m) => link' = [link EXCEPT ![s].up = q]
  BY DEF Says
<1>4. q = Append(link[s].up, m)
  OBVIOUS
<1> HIDE DEF q
<1> QED BY <1>1, <1>2, <1>3, <1>4, LinkWith, ZenonT(60)

\* A conversation goes on.
LEMMA StillInStep ==
    ASSUME NEW s, NEW x, NEW p \in {"vgping", "vgseer"}, NEW i,
           prog'[s] = p, step'[s] = i, at'[s] \notin {"session", "over"}, x \in StagesOf(p),
           Has(link'[s].up, Sayings(p), Heard(x), Said(p, i), FALSE),
           Has(link'[s].down, Replies(s, p), Got(s, p, i), Told(s, x), FALSE)
    PROVE  InStep(s, x)'
  BY DEF InStep

LEMMA PutStep ==
    ASSUME IInv, NEW s \in Shells, PutParam(s)
    PROVE  IInv'
<1>1. /\ Puts(s) /\ Says(s, Script(s)[step[s]][2]) /\ step' = [step EXCEPT ![s] = @ + 1]
      /\ UNCHANGED <<at, prog, files, daemon, dport, backlog, serving, stage, members>>
  BY DEF PutParam, launcherVars, vgdVars
<1> DEFINE p == prog[s]
           i == step[s]
           j == Said(p, i)
           m == Script(s)[i][2]
<1>2. /\ p \in {"vgping", "vgseer"} /\ i \in 1..7 /\ i # 5
      /\ p = "vgping" => i = 1
      /\ j \in Nat /\ j + 1 <= Len(Sayings(p))
      /\ m = Sayings(p)[j + 1]
      /\ Said(p, i + 1) = j + 1
      /\ Got(s, p, i + 1) = Got(s, p, i)
  BY <1>1, ScriptPuts DEF IInv
<1>3. m \in Words
  <2>1. j + 1 \in 1..Len(Sayings(p))
    BY <1>2, SayingsTypes
  <2> QED BY <1>2, <2>1, SayingsTypes
<1>4. /\ link' \in [Shells -> [to : Shells \cup {NoOne}, up : Seq(Words), down : Seq(Words)]]
      /\ link'[s].to = link[s].to /\ link'[s].up = Append(link[s].up, m)
      /\ link'[s].down = link[s].down
      /\ \A t \in Shells \ {s} : link'[t] = link[t]
      /\ link[s].up \in Seq(Words) /\ link[s].down \in Seq(Words)
  BY <1>1, <1>3, LinkSays DEF IInv
<1>5. /\ step'[s] = i + 1 /\ step' \in [Shells -> 1..8] /\ prog'[s] = p
      /\ \A t \in Shells \ {s} : step'[t] = step[t]
  BY <1>1, <1>2, SMTT(60) DEF IInv, TypeOK
<1>6. at[s] \in {"scan", "probe", "ping", "connects"} /\ at'[s] = at[s]
  BY <1>1, <1>2, Running
<1> HIDE DEF j, m
<1>7. TypeOK'
  BY <1>1, <1>4, <1>5 DEF IInv, TypeOK
<1>8. RunsInv'
  <2>1. /\ prog'[s] = prog[s] /\ daemon'[s] = daemon[s] /\ (p = "vgping" => step'[s] <= 2)
        /\ step'[s] = 5 => i = 4
    BY <1>1, <1>2, <1>5
  <2>2. i # 4 \/ p = "vgping"
    BY <1>1, <1>2 DEF Puts, Script, connect_to_vgd
  <2> QED BY <1>1, <1>5, <2>1, <2>2 DEF IInv, RunsInv
<1>9. PortInv'
  BY <1>1 DEF IInv, PortInv, HasPort
<1>10. \A d \in Shells : Connections(d)' = Connections(d)
  BY <1>1 DEF Connections
<1>11. \A t, d \in Shells : StageOf(t, d)' = StageOf(t, d)
  BY <1>1 DEF StageOf
<1>12. ASSUME NEW d \in Shells, s \in Connections(d)'
       PROVE  link'[s].to = d /\ InStep(s, StageOf(s, d))'
  <2>1. s \in Connections(d)
    BY <1>10, <1>12
  <2>2. PICK x \in Stages \cup {"member"} : x = StageOf(s, d) /\ InStep(s, x) /\ link[s].to = d
    BY <2>1, AtStage
  <2>3. StageOf(s, d)' = x
    BY <1>11, <2>2
  <2>4. Heard(x) \in Nat
    BY CountsTypes
  <2>5. /\ x \in StagesOf(p)
        /\ Has(link[s].up, Sayings(p), Heard(x), j, FALSE)
        /\ Has(link[s].down, Replies(s, p), Got(s, p, i), Told(s, x), FALSE)
    BY <1>2, <2>2 DEF InStep, j
  <2>6. Has(link'[s].up, Sayings(p), Heard(x), j + 1, FALSE)
    <3> DEFINE W == Sayings(p)
               h == Heard(x)
    <3>1. h \in Nat /\ j \in Nat /\ m = W[j + 1] /\ W[j + 1] \in Words
      BY <1>2, <1>3, <2>4
    <3>2. Has(link[s].up, W, h, j, FALSE) /\ link[s].up \in Seq(Words)
      BY <1>4, <2>5
    <3> HIDE DEF W, h
    <3>3. Has(Append(link[s].up, W[j + 1]), W, h, j + 1, FALSE)
      BY <3>1, <3>2, HasAppend
    <3>4. link'[s].up = Append(link[s].up, W[j + 1])
      BY <1>4, <3>1
    <3> QED BY <3>3, <3>4 DEF W, h
  <2>7. Has(link'[s].down, Replies(s, p), Got(s, p, i + 1), Told(s, x), FALSE)
    BY <1>2, <1>4, <2>5
  <2>8. InStep(s, x)'
    <3>1. Has(link'[s].up, Sayings(p), Heard(x), Said(p, i + 1), FALSE)
      BY <1>2, <2>6
    <3>2. at'[s] \notin {"session", "over"}
      BY <1>6
    <3> QED BY <1>2, <1>5, <2>5, <2>7, <3>1, <3>2, StillInStep
  <2> QED BY <1>4, <2>2, <2>3, <2>8 DEF InStep
<1>13. ~Connected(s)' => Ended(s)'
  <2> SUFFICES ASSUME ~Connected(s)' PROVE Ended(s)'
    OBVIOUS
  <2>1. Ended(s)
    BY <1>2, <1>10 DEF IInv, TalkInv, Connected
  <2>2. Gone(link[s].to)' <=> Gone(link[s].to)
    BY <1>1, <1>4 DEF Gone
  <2> QED BY <1>2, <1>4, <1>5, <2>1, <2>2 DEF Ended
<1>14. PlaceInv' /\ TalkInv'
  <2>1. \A t \in Shells \ {s} :
           at'[t] = at[t] /\ prog'[t] = prog[t] /\ step'[t] = step[t] /\ link'[t] = link[t]
    BY <1>1, <1>4, <1>5
  <2>2. \A t \in Shells \ {s} : \A d \in Shells :
           /\ t \in Connections(d)' <=> t \in Connections(d)
           /\ t \in Connections(d) => StageOf(t, d)' = StageOf(t, d)
    BY <1>10, <1>11
  <2>3. \A d \in Shells :
           /\ IsInjective(backlog'[d])
           /\ serving'[d] \notin members'[d] /\ serving'[d] \notin ToSet(backlog'[d])
           /\ members'[d] \cap ToSet(backlog'[d]) = {}
    BY <1>1 DEF IInv, PlaceInv
  <2>4. prog'[s] # "none" /\ at'[s] \notin {"session", "remove"}
    BY <1>2, <1>5, <1>6
  <2>5. \A d \in Shells : daemon[d] = "gone" => daemon'[d] = "gone"
    BY <1>1
  <2> QED BY <1>12, <1>13, <2>1, <2>2, <2>3, <2>4, <2>5, OneTalks
<1> QED BY <1>7, <1>8, <1>9, <1>14 DEF IInv

LEMMA GetStep ==
    ASSUME IInv, NEW s \in Shells, GetParam(s)
    PROVE  IInv'
<1> DEFINE p == prog[s]
           i == step[s]
           n == Got(s, p, i)
           r == Replies(s, p)[n + 1]
           m == Head(link[s].down)
<1>1. /\ Gets(s) /\ link[s].down # <<>> /\ m \in Expects(s) /\ After(s, m) <= Len(Script(s))
      /\ link' = [link EXCEPT ![s].down = Tail(@)]
      /\ step' = [step EXCEPT ![s] = After(s, m)]
      /\ UNCHANGED <<at, prog, files, daemon, dport, backlog, serving, stage, members>>
  BY DEF GetParam, launcherVars, vgdVars
<1>2. /\ p \in {"vgping", "vgseer"} /\ (p = "vgping" => i = 2)
      /\ n \in Nat
      /\ r \in Expects(s) /\ After(s, r) \in Nat
      /\ "eof" \notin Expects(s)
      /\ p = "vgseer" => i \in {4, 5, 6, 8} /\ Len(Script(s)) = 8
      /\ p = "vgping" => Len(Script(s)) = 2
      /\ p = "vgseer" /\ i # 8 =>
            /\ After(s, r) \in 5..7
            /\ After(s, r) = 5 => s \in Differs
            /\ Got(s, p, After(s, r)) = n + 1
            /\ Said(p, After(s, r)) = Said(p, i)
      /\ p = "vgping" => After(s, r) > 2 /\ n = 0
      /\ i = 8 => After(s, r) > 8
  BY <1>1, ScriptGets DEF IInv
<1>3. link[s].down \in Seq(Words) /\ link[s].up \in Seq(Words)
  BY DEF IInv, TypeOK
<1>4. /\ link'[s].to = link[s].to /\ link'[s].up = link[s].up
      /\ link'[s].down = Tail(link[s].down)
      /\ \A t \in Shells \ {s} : link'[t] = link[t]
  BY <1>1 DEF IInv, TypeOK
<1>5. at[s] \in {"scan", "probe", "ping", "connects"} /\ at'[s] = at[s] /\ prog'[s] = p
  BY <1>1, <1>2, Running
<1> HIDE DEF n, r, m
<1>6. ASSUME NEW k \in Nat, NEW ended \in BOOLEAN, Has(link[s].down, Replies(s, p), n, k, ended)
      PROVE  m = r /\ Has(link'[s].down, Replies(s, p), n + 1, k, ended)
  <2>1. n < k /\ m = r
    BY <1>1, <1>2, <1>3, <1>6, HasHead, SMTT(60) DEF m, r
  <2> QED BY <1>2, <1>3, <1>4, <1>6, <2>1, HasTail
<1>7. m = r
  <2>1. CASE Connected(s)
    <3>1. PICK d \in Shells : s \in Connections(d)
      BY <2>1 DEF Connected
    <3>2. InStep(s, StageOf(s, d))
      BY <3>1 DEF IInv, TalkInv
    <3>3. Has(link[s].down, Replies(s, p), n, Told(s, StageOf(s, d)), FALSE)
      BY <1>2, <3>2 DEF InStep, n
    <3>4. Told(s, StageOf(s, d)) \in Nat
      BY CountsTypes
    <3> DEFINE k == Told(s, StageOf(s, d))
    <3>5. k \in Nat /\ Has(link[s].down, Replies(s, p), n, k, FALSE)
      BY <3>3, <3>4
    <3> HIDE DEF k
    <3>6. FALSE \in BOOLEAN
      OBVIOUS
    <3> QED BY <1>6, <3>5, <3>6
  <2>2. CASE ~Connected(s)
    <3>1. Ended(s)
      BY <1>2, <2>2 DEF IInv, TalkInv
    <3>2. PICK k \in 0..4 : Has(link[s].down, Replies(s, p), n, k, TRUE)
      BY <3>1 DEF Ended, n
    <3>3. k \in Nat /\ TRUE \in BOOLEAN
      OBVIOUS
    <3> QED BY <1>6, <3>2, <3>3
  <2> QED BY <2>1, <2>2
<1>8. /\ p = "vgseer" /\ i \in {4, 5, 6} /\ After(s, m) \in 5..7
      /\ After(s, m) = 5 => s \in Differs
      /\ Got(s, p, After(s, m)) = n + 1 /\ Said(p, After(s, m)) = Said(p, i)
  <2>0. After(s, r) <= Len(Script(s)) /\ After(s, m) = After(s, r)
    <3>1. After(s, m) <= Len(Script(s))
      BY <1>1
    <3> QED BY <1>7, <3>1
  <2>1. p # "vgping"
    <3> SUFFICES ASSUME p = "vgping" PROVE FALSE
      OBVIOUS
    <3>1. After(s, r) \in Nat /\ After(s, r) > 2 /\ Len(Script(s)) = 2
      BY <1>2
    <3> QED BY <2>0, <3>1
  <2>2. i # 8
    <3>1. i = 8 => After(s, r) > 8
      BY <1>2
    <3>2. After(s, r) \in Nat /\ Len(Script(s)) = 8
      BY <1>2, <2>1
    <3> QED BY <2>0, <3>1, <3>2
  <2> QED BY <1>2, <1>7, <2>1, <2>2
<1>9. /\ step'[s] = After(s, m) /\ step' \in [Shells -> 1..8]
      /\ \A t \in Shells \ {s} : step'[t] = step[t]
  BY <1>1, <1>8 DEF IInv, TypeOK
<1>10. TypeOK'
  <2>1. Tail(link[s].down) \in Seq(Words)
    BY <1>1, <1>3, HeadTailProperties
  <2> DEFINE q == Tail(link[s].down)
  <2>2. link' = [link EXCEPT ![s].down = q]
    BY <1>1
  <2> HIDE DEF q
  <2>3. link' \in [Shells -> [to : Shells \cup {NoOne}, up : Seq(Words), down : Seq(Words)]]
    BY <2>1, <2>2, LinkWith DEF IInv, q
  <2> QED BY <1>1, <1>9, <2>3 DEF IInv, TypeOK
<1>11. RunsInv'
  BY <1>1, <1>8, <1>9 DEF IInv, RunsInv
<1>12. PortInv'
  BY <1>1 DEF IInv, PortInv, HasPort
<1>13. \A d \in Shells : Connections(d)' = Connections(d)
  BY <1>1 DEF Connections
<1>14. \A t, d \in Shells : StageOf(t, d)' = StageOf(t, d)
  BY <1>1 DEF StageOf
<1>15. ASSUME NEW d \in Shells, s \in Connections(d)'
       PROVE  link'[s].to = d /\ InStep(s, StageOf(s, d))'
  <2>1. s \in Connections(d)
    BY <1>13, <1>15
  <2>2. PICK x \in Stages \cup {"member"} : x = StageOf(s, d) /\ InStep(s, x) /\ link[s].to = d
    BY <2>1, AtStage
  <2>3. StageOf(s, d)' = x
    BY <1>14, <2>2
  <2>4. Told(s, x) \in Nat
    BY CountsTypes
  <2>5. /\ x \in StagesOf(p)
        /\ Has(link[s].up, Sayings(p), Heard(x), Said(p, i), FALSE)
        /\ Has(link[s].down, Replies(s, p), n, Told(s, x), FALSE)
    BY <1>2, <2>2 DEF InStep, n
  <2>6. Has(link'[s].down, Replies(s, p), n + 1, Told(s, x), FALSE)
    BY <1>6, <2>4, <2>5
  <2>7. InStep(s, x)'
    <3> DEFINE i1 == After(s, m)
    <3>1. prog'[s] = p /\ step'[s] = i1 /\ at'[s] \notin {"session", "over"}
      BY <1>5, <1>9
    <3>2. Said(p, i) = Said(p, i1) /\ n + 1 = Got(s, p, i1)
      BY <1>8
    <3> HIDE DEF i1
    <3>3. Has(link'[s].up, Sayings(p), Heard(x), Said(p, i1), FALSE)
      BY <1>4, <2>5, <3>2
    <3>4. Has(link'[s].down, Replies(s, p), Got(s, p, i1), Told(s, x), FALSE)
      BY <2>6, <3>2
    <3> QED BY <1>2, <2>5, <3>1, <3>3, <3>4, StillInStep
  <2> QED BY <1>4, <2>2, <2>3, <2>7 DEF InStep
<1>16. ~Connected(s)' => Ended(s)'
  <2> SUFFICES ASSUME ~Connected(s)' PROVE Ended(s)'
    OBVIOUS
  <2>1. Ended(s)
    BY <1>2, <1>13 DEF IInv, TalkInv, Connected
  <2>2. Gone(link[s].to)' <=> Gone(link[s].to)
    BY <1>1, <1>4 DEF Gone
  <2>3. PICK k \in 0..4 :
          /\ k <= Len(Replies(s, p)) /\ Has(link[s].down, Replies(s, p), n, k, TRUE)
          /\ p = "vgseer" /\ k = Len(Replies(s, p)) => Gone(link[s].to)
    BY <2>1 DEF Ended, n
  <2>4. Has(link'[s].down, Replies(s, p), n + 1, k, TRUE)
    <3>1. k \in Nat /\ TRUE \in BOOLEAN
      OBVIOUS
    <3> QED BY <1>6, <2>3, <3>1
  <2> QED BY <1>5, <1>8, <1>9, <2>2, <2>3, <2>4 DEF Ended
<1>17. PlaceInv' /\ TalkInv'
  <2>1. \A t \in Shells \ {s} :
           at'[t] = at[t] /\ prog'[t] = prog[t] /\ step'[t] = step[t] /\ link'[t] = link[t]
    BY <1>1, <1>4, <1>9
  <2>2. \A t \in Shells \ {s} : \A d \in Shells :
           /\ t \in Connections(d)' <=> t \in Connections(d)
           /\ t \in Connections(d) => StageOf(t, d)' = StageOf(t, d)
    BY <1>13, <1>14
  <2>3. \A d \in Shells :
           /\ IsInjective(backlog'[d])
           /\ serving'[d] \notin members'[d] /\ serving'[d] \notin ToSet(backlog'[d])
           /\ members'[d] \cap ToSet(backlog'[d]) = {}
    BY <1>1 DEF IInv, PlaceInv
  <2>4. prog'[s] # "none" /\ at'[s] \notin {"session", "remove"}
    BY <1>2, <1>5
  <2>5. \A d \in Shells : daemon[d] = "gone" => daemon'[d] = "gone"
    BY <1>1
  <2> QED BY <1>15, <1>16, <2>1, <2>2, <2>3, <2>4, <2>5, OneTalks
<1> QED BY <1>10, <1>11, <1>12, <1>17 DEF IInv

-----------------------------------------------------------------------------
(* A program ends.                                                         *)

\* What is the same when only a program says or hears something.
LEMMA SamePlaces ==
    ASSUME IInv, UNCHANGED <<backlog, serving, stage, members>>
    PROVE  /\ \A d \in Shells : Connections(d)' = Connections(d)
           /\ \A t, d \in Shells :
                 /\ t \in Connections(d)' <=> t \in Connections(d)
                 /\ StageOf(t, d)' = StageOf(t, d)
           /\ \A t \in Shells : Connected(t)' <=> Connected(t)
           /\ \A d \in Shells :
                 /\ IsInjective(backlog'[d])
                 /\ serving'[d] \notin members'[d] /\ serving'[d] \notin ToSet(backlog'[d])
                 /\ members'[d] \cap ToSet(backlog'[d]) = {}
<1>1. \A d \in Shells : Connections(d)' = Connections(d)
  BY DEF Connections
<1>2. \A t, d \in Shells : StageOf(t, d)' = StageOf(t, d)
  BY DEF StageOf
<1>3. \A t \in Shells : Connected(t)' <=> Connected(t)
  BY <1>1 DEF Connected
<1>4. \A d \in Shells :
         /\ IsInjective(backlog'[d])
         /\ serving'[d] \notin members'[d] /\ serving'[d] \notin ToSet(backlog'[d])
         /\ members'[d] \cap ToSet(backlog'[d]) = {}
  BY DEF IInv, PlaceInv
<1> QED BY <1>1, <1>2, <1>3, <1>4

\* A program says no more than there is.
LEMMA SaidBound ==
    ASSUME IInv, NEW s \in Shells, prog[s] # "none"
    PROVE  /\ Said(prog[s], step[s]) \in 0..4
           /\ Said(prog[s], step[s]) <= Len(Sayings(prog[s]))
<1>1. prog[s] \in {"vgping", "vgseer"} /\ step[s] \in 1..8
  BY Running DEF IInv, TypeOK
<1>2. CASE prog[s] = "vgping"
  <2>1. step[s] <= 2
    BY <1>2 DEF IInv, RunsInv
  <2> QED BY <1>1, <1>2, <2>1, SayingsTypes DEF Said
<1>3. CASE prog[s] = "vgseer"
  BY <1>1, <1>3, SayingsTypes DEF Said
<1> QED BY <1>1, <1>2, <1>3

LEMMA OnlyTheEnd ==
    /\ \A words : Has(Append(<<>>, "eof"), words, 4, 4, TRUE)
    /\ 4 \in 0..4 /\ 4 <= Len(Sayings("vgseer")) /\ 1 \in 1..8
  BY SayingsTypes DEF Has

\* vgd is left with what the program said, and the end.
LEMMA ExitTalk ==
    ASSUME IInv, NEW s \in Shells, at[s] # "over",
           NEW d \in Shells, s \in Connections(d),
           NEW x, x = StageOf(s, d), InStep(s, x)
    PROVE  \E program \in {"vgping", "vgseer"}, k \in 0..4 :
              /\ x \in StagesOf(program) /\ k <= Len(Sayings(program))
              /\ Has(Append(link[s].up, "eof"), Sayings(program), Heard(x), k, TRUE)
<1>1. link[s].up \in Seq(Words)
  BY LinkWith, EmptyWords DEF IInv
<1>2. x \in Stages \cup {"member"} /\ Heard(x) \in Nat
  BY AtStage, CountsTypes
<1>3. CASE prog[s] # "none"
  <2> DEFINE p == prog[s]
             W == Sayings(prog[s])
             k == Said(prog[s], step[s])
             h == Heard(x)
  <2>1. /\ p \in {"vgping", "vgseer"} /\ x \in StagesOf(p)
        /\ k \in 0..4 /\ k \in Nat /\ k <= Len(W)
        /\ Has(link[s].up, W, h, k, FALSE)
    <3>1. x \in StagesOf(p) /\ Has(link[s].up, W, h, k, FALSE)
      BY <1>3 DEF InStep
    <3>2. p \in {"vgping", "vgseer"} /\ k \in 0..4 /\ k <= Len(W)
      BY <1>3, SaidBound, Running
    <3> HIDE DEF p, W, k, h
    <3>3. k \in Nat
      BY <3>2
    <3>4. p \in {"vgping", "vgseer"} /\ k \in 0..4 /\ k <= Len(W)
      BY <3>2
    <3>5. x \in StagesOf(p)
      BY <3>1
    <3>6. Has(link[s].up, W, h, k, FALSE)
      BY <3>1
    <3> QED BY <3>3, <3>4, <3>5, <3>6
  <2> HIDE DEF k, h
  <2>2. W = Sayings(p) /\ h = Heard(x) /\ h \in Nat
    BY <1>2 DEF h
  <2> HIDE DEF W
  <2>3. Has(Append(link[s].up, "eof"), W, h, k, TRUE)
    BY <1>1, <2>1, <2>2, HasEnd
  <2> HIDE DEF p
  <2> QED BY <2>1, <2>2, <2>3
<1>4. CASE prog[s] = "none"
  <2>1. at[s] = "session"
    BY <1>4 DEF IInv, PlaceInv
  <2>2. x = "member" /\ link[s].up = <<>>
    BY <2>1 DEF InStep
  <2> DEFINE queue == Append(link[s].up, "eof")
  <2>3. queue = Append(<<>>, "eof")
    BY <2>2
  <2> HIDE DEF queue
  <2>4. Has(queue, Sayings("vgseer"), 4, 4, TRUE)
    BY <2>3, OnlyTheEnd
  <2>5. Heard("member") = 4 /\ "member" \in StagesOf("vgseer")
    BY DEF Heard, StagesOf
  <2>6. Has(queue, Sayings("vgseer"), Heard(x), 4, TRUE) /\ x \in StagesOf("vgseer")
    BY <2>2, <2>4, <2>5
  <2> QED BY <2>6, OnlyTheEnd DEF queue
<1> QED BY <1>3, <1>4

LEMMA ExitStep ==
    ASSUME IInv, NEW s \in Shells, Exits(s), at[s] \notin {"over", "vgd starts"},
           at' \in [Shells -> Places], \A t \in Shells \ {s} : at'[t] = at[t],
           \/ at'[s] = "over"
           \/ at'[s] \in {"scan", "remove", "probe", "vgd", "vgseer"} /\ ~Connected(s) /\ daemon[s] = "none",
           at'[s] = "remove" => Gone(link[s].to)
    PROVE  IInv'
<1>1. /\ prog' = [prog EXCEPT ![s] = "none"] /\ step' = [step EXCEPT ![s] = 1]
      /\ Says(s, "eof")
      /\ UNCHANGED <<files, daemon, dport, backlog, serving, stage, members>>
  BY DEF Exits, vgdVars
<1>2. "eof" \in Words
  BY DEF Words
<1>3. /\ link' \in [Shells -> [to : Shells \cup {NoOne}, up : Seq(Words), down : Seq(Words)]]
      /\ link'[s].to = link[s].to /\ link'[s].up = Append(link[s].up, "eof")
      /\ \A t \in Shells \ {s} : link'[t] = link[t]
  BY <1>1, <1>2, LinkSays DEF IInv
<1>4. /\ prog' \in [Shells -> {"none", "vgping", "vgseer"}] /\ step' \in [Shells -> 1..8]
      /\ prog'[s] = "none" /\ step'[s] = 1
      /\ \A t \in Shells \ {s} : prog'[t] = prog[t] /\ step'[t] = step[t]
  <2>1. prog \in [Shells -> {"none", "vgping", "vgseer"}] /\ step \in [Shells -> 1..8]
    BY DEF IInv, TypeOK
  <2>2. prog' \in [Shells -> {"none", "vgping", "vgseer"}]
    BY <1>1, <2>1
  <2>3. step' \in [Shells -> 1..8]
    <3>1. step' = [step EXCEPT ![s] = 1]
      BY <1>1
    <3>2. 1 \in 1..8
      BY OnlyTheEnd
    <3> QED BY <2>1, <3>1, <3>2
  <2> QED BY <1>1, <2>1, <2>2, <2>3
<1>5. TypeOK'
  BY <1>1, <1>3, <1>4 DEF IInv, TypeOK
<1>6. RunsInv'
  <2>1. \A t \in Shells \ {s} :
           at'[t] = at[t] /\ prog'[t] = prog[t] /\ step'[t] = step[t] /\ daemon'[t] = daemon[t]
    BY <1>1, <1>4
  <2>2. daemon[s] \notin {"bound", "named"} /\ daemon'[s] = daemon[s]
    BY <1>1 DEF IInv, RunsInv
  <2>3. /\ at'[s] \notin {"connects", "vgd starts"}
        /\ at'[s] \in {"starts", "scan", "remove", "probe", "ping", "vgd"} => daemon'[s] = "none"
        /\ at'[s] = "vgd starts" <=> daemon'[s] \in {"bound", "named"}
    BY <2>2
  <2>4. prog'[s] \notin {"vgping", "vgseer"}
    BY <1>4
  <2> QED BY <2>1, <2>3, <2>4, OneRuns
<1>7. PortInv'
  BY <1>1 DEF IInv, PortInv, HasPort
<1>8. ASSUME NEW d \in Shells, s \in Connections(d)'
      PROVE  at'[s] = "over" /\ link'[s].to = d /\ InStep(s, StageOf(s, d))'
  <2>1. s \in Connections(d) /\ at'[s] = "over"
    BY <1>1, <1>8, SamePlaces DEF Connected
  <2>2. PICK x \in Stages \cup {"member"} : x = StageOf(s, d) /\ InStep(s, x) /\ link[s].to = d
    BY <2>1, AtStage
  <2>3. StageOf(s, d)' = x
    BY <1>1, <2>2, SamePlaces
  <2>4. \E program \in {"vgping", "vgseer"}, k \in 0..4 :
           /\ x \in StagesOf(program) /\ k <= Len(Sayings(program))
           /\ Has(link'[s].up, Sayings(program), Heard(x), k, TRUE)
    <3>1. \E program \in {"vgping", "vgseer"}, k \in 0..4 :
             /\ x \in StagesOf(program) /\ k <= Len(Sayings(program))
             /\ Has(Append(link[s].up, "eof"), Sayings(program), Heard(x), k, TRUE)
      BY <2>1, <2>2, ExitTalk
    <3> QED BY <1>3, <3>1
  <2>5. InStep(s, x)'
    BY <1>4, <2>1, <2>4 DEF InStep
  <2> QED BY <1>3, <2>1, <2>2, <2>3, <2>5 DEF InStep
<1>9. PlaceInv' /\ TalkInv'
  <2>1. \A t \in Shells \ {s} :
           at'[t] = at[t] /\ prog'[t] = prog[t] /\ step'[t] = step[t] /\ link'[t] = link[t]
    BY <1>3, <1>4
  <2>2. \A t \in Shells \ {s} : \A d \in Shells :
           /\ t \in Connections(d)' <=> t \in Connections(d)
           /\ t \in Connections(d) => StageOf(t, d)' = StageOf(t, d)
    BY <1>1, SamePlaces
  <2>3. \A d \in Shells :
           /\ IsInjective(backlog'[d])
           /\ serving'[d] \notin members'[d] /\ serving'[d] \notin ToSet(backlog'[d])
           /\ members'[d] \cap ToSet(backlog'[d]) = {}
    BY <1>1, SamePlaces
  <2>4. prog'[s] = "none" /\ at'[s] # "session"
    BY <1>4
  <2>5. \A d \in Shells : daemon[d] = "gone" => daemon'[d] = "gone"
    BY <1>1
  <2>6. at'[s] = "remove" => Gone(link[s].to)'
    BY <1>1, <1>3 DEF Gone
  <2> QED BY <1>8, <2>1, <2>2, <2>3, <2>4, <2>5, <2>6, OneTalks
<1> QED BY <1>5, <1>6, <1>7, <1>9 DEF IInv

\* vgd has said nothing to a vgping that it has not hung up on.
LEMMA PingAnswered ==
    ASSUME IInv, NEW s \in Shells, prog[s] = "vgping", Gets(s), link[s].down # <<>>
    PROVE  /\ ~Connected(s)
           /\ Head(link[s].down) \notin Expects(s) => Gone(link[s].to)
<1> DEFINE r == Replies(s, "vgping")[1]
           q == link[s].down
<1>1. r \in Expects(s) /\ step[s] = 2 /\ Got(s, "vgping", step[s]) = 0
  BY ScriptGets DEF IInv
<1>2. q \in Seq(Words) /\ q # <<>>
  BY LinkWith, EmptyWords DEF IInv
<1>3. ~Connected(s)
  <2> SUFFICES ASSUME NEW d \in Shells, s \in Connections(d) PROVE FALSE
    BY DEF Connected
  <2>1. PICK x \in Stages \cup {"member"} : InStep(s, x)
    BY AtStage
  <2>2. x \in {"purpose", "yo"} /\ Has(q, Replies(s, "vgping"), 0, Told(s, x), FALSE)
    BY <1>1, <2>1 DEF InStep, StagesOf
  <2>3. Told(s, x) = 0
    BY <2>2 DEF Told
  <2> HIDE DEF q
  <2>4. Has(q, Replies(s, "vgping"), 0, 0, FALSE)
    BY <2>2, <2>3
  <2> QED BY <1>2, <2>4, HasNothing
<1>4. ASSUME Head(q) \notin Expects(s) PROVE Gone(link[s].to)
  <2>1. Ended(s)
    BY <1>3 DEF IInv, TalkInv
  <2>2. PICK k \in 0..4 :
          /\ Has(q, Replies(s, "vgping"), 0, k, TRUE)
          /\ k = 0 => Gone(link[s].to)
    BY <1>1, <2>1 DEF Ended
  <2>3. k = 0
    <3> DEFINE W == Replies(s, "vgping")
    <3>1. Has(q, W, 0, k, TRUE) /\ r = W[1]
      BY <2>2
    <3> HIDE DEF W, q, r
    <3>2. k > 0 => Head(q) = r
      BY <1>2, <3>1, FirstHead
    <3> QED BY <1>1, <1>4, <3>2
  <2> QED BY <2>2, <2>3
<1> QED BY <1>3, <1>4

LEMMA PingEndsStep ==
    ASSUME IInv, NEW s \in Shells, PingEnds(s)
    PROVE  IInv'
<1>1. prog[s] = "vgping" /\ Gets(s) /\ link[s].down # <<>> /\ Exits(s)
  BY DEF PingEnds, Succeeds, Fails
<1>2. at[s] \in {"scan", "probe", "ping"}
  BY <1>1, Running
<1>3. ~Connected(s) /\ (Head(link[s].down) \notin Expects(s) => Gone(link[s].to))
  BY <1>1, PingAnswered
<1>4. daemon[s] = "none"
  BY <1>2 DEF IInv, RunsInv
<1>5. \E where \in {"scan", "probe", "vgseer", "remove", "vgd", "over"} :
         /\ at' = [at EXCEPT ![s] = where]
         /\ where = "remove" => Fails(s)
  <2>1. CASE Answered(s)
    <3>1. at' = at \/ at' = [at EXCEPT ![s] = "vgseer"]
      BY <2>1 DEF Answered, Goes
    <3>2. at[s] = "ping" => at' = [at EXCEPT ![s] = "vgseer"]
      BY <2>1 DEF Answered, Goes
    <3>3. at = [at EXCEPT ![s] = at[s]]
      BY DEF IInv, TypeOK
    <3> QED BY <1>2, <3>1, <3>2, <3>3
  <2>2. CASE NotAnswered(s) /\ Fails(s)
    BY <2>2 DEF NotAnswered, Goes
  <2> QED BY <2>1, <2>2 DEF PingEnds
<1>6. PICK where \in {"scan", "probe", "vgseer", "remove", "vgd", "over"} :
         /\ at' = [at EXCEPT ![s] = where]
         /\ where = "remove" => Fails(s)
  BY <1>5
<1>7. /\ at' \in [Shells -> Places] /\ at'[s] = where
      /\ \A t \in Shells \ {s} : at'[t] = at[t]
  <2>1. at \in [Shells -> Places] /\ where \in Places
    BY DEF IInv, TypeOK, Places
  <2> QED BY <1>6, <2>1
<1>8. at'[s] = "remove" => Gone(link[s].to)
  BY <1>3, <1>6, <1>7 DEF Fails
<1> QED BY <1>1, <1>2, <1>3, <1>4, <1>7, <1>8, ExitStep

LEMMA EndsOver ==
    ASSUME IInv, NEW s \in Shells, GivesUp(s) \/ Leaves(s)
    PROVE  IInv'
<1>1. at' = [at EXCEPT ![s] = "over"] /\ Exits(s)
  BY DEF GivesUp, Leaves, Goes
<1>2. at[s] \notin {"over", "vgd starts"}
  <2>1. CASE GivesUp(s)
    BY <2>1, Running DEF GivesUp
  <2>2. CASE Leaves(s)
    BY <2>2 DEF Leaves, Runs
  <2> QED BY <2>1, <2>2
<1>3. /\ at' \in [Shells -> Places] /\ at'[s] = "over"
      /\ \A t \in Shells \ {s} : at'[t] = at[t]
  <2>1. at \in [Shells -> Places] /\ "over" \in Places
    BY DEF IInv, TypeOK, Places
  <2> QED BY <1>1, <2>1
<1> QED BY <1>1, <1>2, <1>3, ExitStep

\* A vgseer that reads its options is a client, or vgd has ended.
LEMMA OptionsRead ==
    ASSUME IInv, NEW s \in Shells, prog[s] = "vgseer", Succeeds(s)
    PROVE  /\ \A d \in Shells : s \in Connections(d) => StageOf(s, d) = "member" /\ link[s].up = <<>>
           /\ ~Connected(s) => Gone(link[s].to)
<1> DEFINE W == Replies(s, "vgseer")
           n == StatusWords(s) + 1
           q == link[s].down
<1>1. /\ step[s] = 8 /\ Gets(s) /\ W[n + 1] \in Expects(s) /\ "eof" \notin Expects(s)
      /\ q # <<>> /\ Head(q) \in Expects(s)
  <2>1. Gets(s) /\ step[s] = Len(Script(s)) /\ q # <<>> /\ Head(q) \in Expects(s)
    BY DEF Succeeds
  <2>2. Len(Script(s)) = 8
    BY <2>1, ScriptGets DEF IInv
  <2>3. Got(s, "vgseer", 8) = n
    BY <2>1, <2>2, ScriptGets DEF IInv
  <2> QED BY <2>1, <2>2, <2>3, ScriptGets DEF IInv
<1>2. q \in Seq(Words) /\ n \in 2..3 /\ n \in Nat /\ Len(W) = n + 1
  <2>1. q \in Seq(Words)
    BY LinkWith, EmptyWords DEF IInv
  <2>2. StatusWords(s) \in 1..2 /\ Len(W) = StatusWords(s) + 2
    BY CountsTypes, RepliesTypes
  <2> HIDE DEF W, q
  <2> QED BY <2>1, <2>2
<1>3. Said("vgseer", 8) = 4 /\ Got(s, "vgseer", 8) = n
  BY DEF Said, Got
<1>4. ASSUME NEW k \in Nat, NEW ended \in BOOLEAN, Has(q, W, n, k, ended)
      PROVE  n < k
  <2> HIDE DEF q, W, n
  <2> QED BY <1>1, <1>2, <1>4, HasHead
<1>5. ASSUME NEW d \in Shells, s \in Connections(d)
      PROVE  StageOf(s, d) = "member" /\ link[s].up = <<>>
  <2>1. PICK x \in Stages \cup {"member"} : x = StageOf(s, d) /\ InStep(s, x)
    BY <1>5, AtStage
  <2>2. /\ x \in StagesOf("vgseer")
        /\ Has(link[s].up, Sayings("vgseer"), Heard(x), Said("vgseer", 8), FALSE)
        /\ Has(q, W, Got(s, "vgseer", 8), Told(s, x), FALSE)
    BY <1>1, <2>1 DEF InStep
  <2>3. n < Told(s, x)
    <3>1. PICK k \in Nat : k = Told(s, x)
      BY CountsTypes
    <3>2. Has(q, W, n, k, FALSE) /\ FALSE \in BOOLEAN
      BY <1>3, <2>2, <3>1
    <3> HIDE DEF q, W, n
    <3> QED BY <1>4, <3>1, <3>2
  <2>4. x = "member"
    BY <2>3, ToldLast
  <2>5. Heard(x) = 4
    BY <2>4 DEF Heard
  <2>6. Has(link[s].up, Sayings("vgseer"), 4, 4, FALSE)
    BY <1>3, <2>2, <2>5
  <2>7. link[s].up = <<>>
    <3>1. link[s].up \in Seq(Words) /\ 4 \in Nat
      BY LinkWith, EmptyWords DEF IInv
    <3> QED BY <2>6, <3>1, HasNothing
  <2> QED BY <2>1, <2>4, <2>7
<1>6. ASSUME ~Connected(s) PROVE Gone(link[s].to)
  <2>1. Ended(s)
    BY <1>6 DEF IInv, TalkInv
  <2>2. PICK k \in 0..4 :
          /\ k <= Len(W) /\ Has(q, W, Got(s, "vgseer", 8), k, TRUE)
          /\ k = Len(W) => Gone(link[s].to)
    BY <1>1, <2>1 DEF Ended
  <2>3. n < k
    <3>1. Has(q, W, n, k, TRUE)
      BY <1>3, <2>2
    <3> HIDE DEF q, W, n
    <3>2. k \in Nat /\ TRUE \in BOOLEAN
      OBVIOUS
    <3> QED BY <1>4, <3>1, <3>2
  <2>4. k = Len(W)
    <3> HIDE DEF W, n
    <3> QED BY <1>2, <2>2, <2>3
  <2> QED BY <2>2, <2>4
<1> QED BY <1>5, <1>6

LEMMA JoinsStep ==
    ASSUME IInv, NEW s \in Shells, Joins(s)
    PROVE  IInv'
<1>1. /\ prog[s] = "vgseer" /\ Succeeds(s)
      /\ at' = [at EXCEPT ![s] = "session"] /\ prog' = [prog EXCEPT ![s] = "none"]
      /\ link' = [link EXCEPT ![s].down = Tail(@)]
      /\ UNCHANGED <<step, files, daemon, dport, backlog, serving, stage, members>>
  BY DEF Joins, Goes, vgdVars
<1>2. /\ \A d \in Shells : s \in Connections(d) => StageOf(s, d) = "member" /\ link[s].up = <<>>
      /\ ~Connected(s) => Gone(link[s].to)
  BY <1>1, OptionsRead
<1> DEFINE q == Tail(link[s].down)
<1>3. q \in Seq(Words) /\ link' = [link EXCEPT ![s].down = q]
  <2>1. link[s].down \in Seq(Words) /\ link[s].down # <<>>
    BY <1>1, LinkWith, EmptyWords DEF IInv, Succeeds
  <2> QED BY <1>1, <2>1, HeadTailProperties
<1> HIDE DEF q
<1>4. /\ link' \in [Shells -> [to : Shells \cup {NoOne}, up : Seq(Words), down : Seq(Words)]]
      /\ link'[s].to = link[s].to /\ link'[s].up = link[s].up
      /\ \A t \in Shells \ {s} : link'[t] = link[t]
  BY <1>3, LinkWith DEF IInv
<1>5. /\ at' \in [Shells -> Places] /\ at'[s] = "session"
      /\ prog' \in [Shells -> {"none", "vgping", "vgseer"}] /\ prog'[s] = "none"
      /\ \A t \in Shells \ {s} : at'[t] = at[t] /\ prog'[t] = prog[t]
  <2>1. /\ at \in [Shells -> Places] /\ "session" \in Places
        /\ prog \in [Shells -> {"none", "vgping", "vgseer"}]
    BY DEF IInv, TypeOK, Places
  <2> QED BY <1>1, <2>1
<1>6. TypeOK'
  BY <1>1, <1>4, <1>5 DEF IInv, TypeOK
<1>7. RunsInv'
  <2>1. \A t \in Shells \ {s} :
           at'[t] = at[t] /\ prog'[t] = prog[t] /\ step'[t] = step[t] /\ daemon'[t] = daemon[t]
    BY <1>1, <1>5
  <2>2. daemon'[s] \notin {"bound", "named"}
    BY <1>1, Running
  <2>3. /\ prog'[s] \notin {"vgping", "vgseer"}
        /\ at'[s] \notin {"starts", "scan", "remove", "probe", "ping", "vgd", "vgd starts", "connects"}
    BY <1>5
  <2> QED BY <2>1, <2>2, <2>3, OneRuns
<1>8. PortInv'
  BY <1>1 DEF IInv, PortInv, HasPort
<1>9. ASSUME NEW d \in Shells, s \in Connections(d)'
      PROVE  link'[s].to = d /\ InStep(s, StageOf(s, d))'
  <2>1. s \in Connections(d)
    BY <1>1, <1>9, SamePlaces
  <2>2. StageOf(s, d) = "member" /\ link[s].up = <<>> /\ link[s].to = d
    BY <1>2, <2>1, AtStage
  <2>3. StageOf(s, d)' = "member"
    BY <1>1, <2>2, SamePlaces
  <2>4. InStep(s, "member")'
    BY <1>4, <1>5, <2>2 DEF InStep
  <2> QED BY <1>4, <2>2, <2>3, <2>4 DEF InStep
<1>10. PlaceInv' /\ TalkInv'
  <2>1. \A t \in Shells \ {s} :
           at'[t] = at[t] /\ prog'[t] = prog[t] /\ step'[t] = step[t] /\ link'[t] = link[t]
    BY <1>1, <1>4, <1>5
  <2>2. /\ \A t \in Shells \ {s} : \A d \in Shells :
              /\ t \in Connections(d)' <=> t \in Connections(d)
              /\ t \in Connections(d) => StageOf(t, d)' = StageOf(t, d)
        /\ Connected(s)' <=> Connected(s)
    BY <1>1, SamePlaces
  <2>3. \A d \in Shells :
           /\ IsInjective(backlog'[d])
           /\ serving'[d] \notin members'[d] /\ serving'[d] \notin ToSet(backlog'[d])
           /\ members'[d] \cap ToSet(backlog'[d]) = {}
    BY <1>1, SamePlaces
  <2>4. prog'[s] = "none" /\ at'[s] = "session"
    BY <1>5
  <2>5. \A d \in Shells : daemon[d] = "gone" => daemon'[d] = "gone"
    BY <1>1
  <2>6. ~Connected(s) => Gone(link[s].to)'
    BY <1>1, <1>2, <1>4 DEF Gone
  <2> QED BY <1>9, <2>1, <2>2, <2>3, <2>4, <2>5, <2>6, OneTalks
<1> QED BY <1>6, <1>7, <1>8, <1>10 DEF IInv

-----------------------------------------------------------------------------
(* vgd shakes hands.                                                       *)

LEMMA NobodyIsNoShell == NoOne \notin Shells /\ "stale" \notin Shells
  BY LaunchAssumption

\* What vgd waits for is what comes next, and takes it on.
LEMMA OntoNext ==
    ASSUME NEW program \in {"vgping", "vgseer"}, NEW x \in StagesOf(program), x \in DOMAIN Awaits
    PROVE  LET w == Sayings(program)[Heard(x) + 1]
               y == Onto(x, w)
           IN /\ w \in Awaits[x]
              /\ y \in StagesOf(program) /\ y \in Stages
              /\ Heard(x) \in 0..4 /\ Heard(y) = Heard(x) + 1
              /\ \A s : Told(s, y) = Told(s, x)
              /\ "eof" \notin Awaits[x]
<1>1. CASE program = "vgping"
  <2>1. x = "purpose"
    BY <1>1 DEF StagesOf, Awaits
  <2> QED BY <1>1, <2>1, SayingsTypes DEF Heard, Onto, StagesOf, Stages, Told, Awaits
<1>2. CASE program = "vgseer"
  <2>1. x \in {"purpose", "version", "title", "titled"}
    BY DEF Awaits
  <2>2. CASE x = "purpose"
    BY <1>2, <2>2, SayingsTypes DEF Heard, Onto, StagesOf, Stages, Told, Awaits
  <2>3. CASE x = "version"
    BY <1>2, <2>3, SayingsTypes DEF Heard, Onto, StagesOf, Stages, Told, Awaits
  <2>4. CASE x = "title"
    BY <1>2, <2>4, SayingsTypes DEF Heard, Onto, StagesOf, Stages, Told, Awaits
  <2>5. CASE x = "titled"
    BY <1>2, <2>5, SayingsTypes DEF Heard, Onto, StagesOf, Stages, Told, Awaits
  <2> QED BY <2>1, <2>2, <2>3, <2>4, <2>5
<1> QED BY <1>1, <1>2

\* The one it shakes hands with: one who still runs a program, or who has left.
LEMMA ServedIs ==
    ASSUME IInv, NEW d \in Shells, serving[d] # NoOne
    PROVE  LET s == serving[d]
               x == stage[d]
           IN /\ s \in Shells /\ s \in Connections(d) /\ link[s].to = d
              /\ x \in Stages /\ StageOf(s, d) = x /\ InStep(s, x)
              /\ at[s] # "session" /\ at[s] # "remove"
              /\ prog[s] = "none" => at[s] = "over"
              /\ \A e \in Shells : s \in Connections(e) => e = d
              /\ s \notin members[d] /\ s \notin ToSet(backlog[d])
<1> DEFINE s == serving[d]
           x == stage[d]
<1>1. s \in Shells /\ x \in Stages /\ s \notin members[d] /\ s \notin ToSet(backlog[d])
  BY DEF IInv, TypeOK, PlaceInv
<1>2. s \in Connections(d)
  BY <1>1, ConnectionsIs
<1>3. StageOf(s, d) = x
  BY <1>1 DEF StageOf
<1>4. InStep(s, x) /\ link[s].to = d
  BY <1>2, <1>3, AtStage
<1>5. at[s] # "session"
  BY <1>1, <1>4 DEF InStep, Stages
<1>6. prog[s] = "none" => at[s] = "over"
  BY <1>1, <1>2, <1>5 DEF IInv, PlaceInv
<1>7. at[s] # "remove"
  BY <1>1, <1>6, Running
<1>8. \A e \in Shells : s \in Connections(e) => e = d
  BY <1>1, <1>4 DEF IInv, PlaceInv
<1> QED BY <1>1, <1>2, <1>3, <1>4, <1>5, <1>6, <1>7, <1>8

\* Nobody says or hears anything, but vgd goes on to another, or notices that
\* one has left.
LEMMA SilentStep ==
    ASSUME IInv, UNCHANGED <<at, prog, step, link>>,
           \A d \in Shells : Connections(d)' \subseteq Connections(d),
           \A t, d \in Shells :
              /\ t \in Connections(d)' => StageOf(t, d)' = StageOf(t, d)
              /\ t \in Connections(d) /\ t \notin Connections(d)' => prog[t] = "none" /\ at[t] = "over",
           \A d \in Shells : daemon[d] = "gone" => daemon'[d] = "gone",
           \A d \in Shells :
              /\ IsInjective(backlog'[d])
              /\ serving'[d] \notin members'[d] /\ serving'[d] \notin ToSet(backlog'[d])
              /\ members'[d] \cap ToSet(backlog'[d]) = {}
    PROVE  PlaceInv' /\ TalkInv'
<1>1. PlaceInv'
  BY DEF IInv, PlaceInv
<1>2. ASSUME NEW d \in Shells, NEW s \in Connections(d)'
      PROVE  InStep(s, StageOf(s, d))'
  <2>1. s \in Connections(d) /\ s \in Shells
    BY DEF Connections
  <2>2. PICK x \in Stages \cup {"member"} : x = StageOf(s, d) /\ InStep(s, x)
    BY <2>1, AtStage
  <2>3. StageOf(s, d)' = x
    BY <2>1, <2>2
  <2>4. InStep(s, x)'
    BY <2>2 DEF InStep
  <2> QED BY <2>3, <2>4 DEF InStep
<1>3. ASSUME NEW s \in Shells, ~Connected(s)'
      PROVE  /\ prog'[s] # "none" => Ended(s)'
             /\ at'[s] = "session" => Gone(link[s].to)'
  <2>1. Gone(link[s].to) => Gone(link[s].to)'
    BY DEF Gone
  <2>2. CASE Connected(s)
    <3>1. prog[s] = "none" /\ at[s] = "over"
      BY <1>3, <2>2 DEF Connected
    <3> QED BY <3>1
  <2>3. CASE ~Connected(s)
    <3>1. /\ prog[s] # "none" => Ended(s)
          /\ at[s] = "session" => Gone(link[s].to)
      BY <2>3 DEF IInv, TalkInv
    <3> QED BY <2>1, <3>1, SameEnd
  <2> QED BY <2>2, <2>3
<1>4. ASSUME NEW s \in Shells, at'[s] = "remove"
      PROVE  link'[s].to = NoOne \/ Gone(link[s].to)'
  BY <1>4 DEF IInv, TalkInv, Gone
<1> QED BY <1>1, <1>2, <1>3, <1>4 DEF TalkInv

LEMMA AcceptStep ==
    ASSUME IInv, NEW d \in Shells, Accept(d)
    PROVE  IInv'
<1> DEFINE s == Head(backlog[d])
           b == Tail(backlog[d])
<1>1. /\ serving[d] = NoOne /\ backlog[d] # <<>>
      /\ serving' = [serving EXCEPT ![d] = s]
      /\ backlog' = [backlog EXCEPT ![d] = b]
      /\ stage' = [stage EXCEPT ![d] = "purpose"]
      /\ UNCHANGED <<at, prog, step, link, files, daemon, dport, members>>
  BY DEF Accept, launcherVars, peerVars
<1>2. /\ s \in Shells /\ s \in ToSet(backlog[d]) /\ b \in Seq(Shells) /\ IsInjective(b)
      /\ ToSet(b) = ToSet(backlog[d]) \ {s}
  <2>1. backlog[d] \in Seq(Shells) /\ IsInjective(backlog[d])
    BY DEF IInv, TypeOK, PlaceInv
  <2> QED BY <1>1, <2>1, TailProperties
<1> HIDE DEF s, b
<1>3. s \notin members[d]
  BY <1>2 DEF IInv, PlaceInv
<1>4. /\ serving'[d] = s /\ backlog'[d] = b /\ stage'[d] = "purpose"
      /\ \A e \in Shells \ {d} :
            serving'[e] = serving[e] /\ backlog'[e] = backlog[e] /\ stage'[e] = stage[e]
  BY <1>1 DEF IInv, TypeOK
<1>5. TypeOK'
  <2>1. /\ serving \in [Shells -> Shells \cup {NoOne}] /\ backlog \in [Shells -> Seq(Shells)]
        /\ stage \in [Shells -> Stages] /\ "purpose" \in Stages
    BY DEF IInv, TypeOK, Stages
  <2>2. serving' \in [Shells -> Shells \cup {NoOne}]
    BY <1>1, <1>2, <2>1
  <2>3. backlog' \in [Shells -> Seq(Shells)]
    BY <1>1, <1>2, <2>1
  <2>4. stage' \in [Shells -> Stages]
    BY <1>1, <2>1
  <2> QED BY <1>1, <2>2, <2>3, <2>4 DEF IInv, TypeOK
<1>6. RunsInv'
  BY <1>1 DEF IInv, RunsInv
<1>7. PortInv'
  BY <1>1 DEF IInv, PortInv, HasPort
<1>8. ASSUME NEW e \in Shells
      PROVE  /\ Connections(e)' = Connections(e)
             /\ \A t \in Shells : t \in Connections(e) => StageOf(t, e)' = StageOf(t, e)
             /\ IsInjective(backlog'[e])
             /\ serving'[e] \notin members'[e] /\ serving'[e] \notin ToSet(backlog'[e])
             /\ members'[e] \cap ToSet(backlog'[e]) = {}
  <2>1. /\ IsInjective(backlog[e])
        /\ serving[e] \notin members[e] /\ serving[e] \notin ToSet(backlog[e])
        /\ members[e] \cap ToSet(backlog[e]) = {}
    BY DEF IInv, PlaceInv
  <2>2. CASE e = d
    <3>1. /\ serving'[e] = s /\ backlog'[e] = b /\ stage'[e] = "purpose" /\ members'[e] = members[e]
          /\ serving[e] = NoOne /\ ToSet(b) = ToSet(backlog[e]) \ {s} /\ s \in ToSet(backlog[e])
      BY <1>1, <1>2, <1>4, <2>2
    <3>2. Connections(e)' = Connections(e)
      BY <1>2, <3>1, NobodyIsNoShell DEF Connections
    <3>3. \A t \in Shells : StageOf(t, e)' = StageOf(t, e)
      BY <3>1, NobodyIsNoShell DEF StageOf
    <3> QED BY <1>2, <1>3, <2>1, <2>2, <3>1, <3>2, <3>3
  <2>3. CASE e # d
    <3>1. /\ serving'[e] = serving[e] /\ backlog'[e] = backlog[e] /\ stage'[e] = stage[e]
          /\ members'[e] = members[e]
      BY <1>1, <1>4, <2>3
    <3>2. Connections(e)' = Connections(e)
      BY <3>1 DEF Connections
    <3>3. \A t \in Shells : StageOf(t, e)' = StageOf(t, e)
      BY <3>1 DEF StageOf
    <3> QED BY <2>1, <3>1, <3>2, <3>3
  <2> QED BY <2>2, <2>3
<1>9. PlaceInv' /\ TalkInv'
  <2>1. UNCHANGED <<at, prog, step, link>> /\ \A e \in Shells : daemon[e] = "gone" => daemon'[e] = "gone"
    BY <1>1
  <2> QED BY <1>8, <2>1, SilentStep
<1> QED BY <1>5, <1>6, <1>7, <1>9 DEF IInv

\* What vgd reads is what comes next, unless it reads the end of one who left.
LEMMA HearsNext ==
    ASSUME IInv, NEW s \in Shells, NEW program \in {"vgping", "vgseer"},
           NEW x \in StagesOf(program), x \in DOMAIN Awaits,
           NEW k \in 0..4, NEW ended \in BOOLEAN, link[s].up # <<>>,
           Has(link[s].up, Sayings(program), Heard(x), k, ended)
    PROVE  LET m == Head(link[s].up)
               y == Onto(x, m)
           IN \/ /\ m \in Awaits[x]
                 /\ y \in StagesOf(program) /\ y \in Stages
                 /\ Has(Tail(link[s].up), Sayings(program), Heard(y), k, ended)
                 /\ \A t : Told(t, y) = Told(t, x)
              \/ ended /\ m = "eof"
<1> DEFINE q == link[s].up
           W == Sayings(program)
           h == Heard(x)
           w == W[h + 1]
           y == Onto(x, w)
<1>1. /\ w \in Awaits[x]
      /\ y \in StagesOf(program) /\ y \in Stages
      /\ h \in Nat /\ Heard(y) = h + 1
      /\ \A t : Told(t, y) = Told(t, x)
  BY OntoNext
<1>2. q \in Seq(Words) /\ q # <<>> /\ Has(q, W, h, k, ended)
  BY LinkWith, EmptyWords DEF IInv
<1> HIDE DEF q, W, h
<1>3. k \in Nat
  OBVIOUS
<1>4. \/ h < k /\ Head(q) = w
      \/ ended /\ Head(q) = "eof"
  BY <1>1, <1>2, <1>3, HasHead
<1>5. h < k => Has(Tail(q), W, h + 1, k, ended)
  BY <1>1, <1>2, <1>3, HasTail
<1>6. CASE h < k /\ Head(q) = w
  <2>1. Has(Tail(q), W, Heard(y), k, ended)
    BY <1>1, <1>5, <1>6
  <2>2. Onto(x, Head(q)) = y
    BY <1>6
  <2> QED BY <1>1, <1>6, <2>1, <2>2 DEF q, W
<1> QED BY <1>4, <1>6 DEF q

LEMMA NoEndAwaited == ASSUME NEW x \in DOMAIN Awaits PROVE "eof" \notin Awaits[x]
  BY DEF Awaits

LEMMA HearsStep ==
    ASSUME IInv, NEW d \in Shells, Hears(d)
    PROVE  IInv'
<1>0. PICK s \in Shells : s = serving[d]
  <2>1. serving[d] # NoOne
    BY DEF Hears, Listens
  <2> QED BY <2>1, ServedIs
<1> DEFINE x == stage[d]
           m == Head(link[s].up)
           y == Onto(x, m)
           q == Tail(link[s].up)
<1>1. /\ serving[d] # NoOne /\ x \in DOMAIN Awaits /\ link[s].up # <<>> /\ m \in Awaits[x]
      /\ stage' = [stage EXCEPT ![d] = y]
      /\ link' = [link EXCEPT ![s].up = q]
      /\ UNCHANGED <<at, prog, step, files, daemon, dport, backlog, serving, members>>
  BY <1>0 DEF Hears, Listens, launcherVars, peerVars
<1>2. /\ s = serving[d] /\ s \in Connections(d) /\ link[s].to = d
      /\ x \in Stages /\ InStep(s, x)
      /\ at[s] # "session" /\ at[s] # "remove"
      /\ prog[s] = "none" => at[s] = "over"
      /\ \A e \in Shells : s \in Connections(e) => e = d
      /\ s \notin members[d]
  BY <1>0, <1>1, ServedIs
<1>3. m # "eof"
  BY <1>1, NoEndAwaited
<1>4. q \in Seq(Words)
  <2>1. link[s].up \in Seq(Words)
    BY <1>2, LinkWith, EmptyWords DEF IInv
  <2> QED BY <1>1, <2>1, HeadTailProperties
<1>5. /\ link' \in [Shells -> [to : Shells \cup {NoOne}, up : Seq(Words), down : Seq(Words)]]
      /\ link'[s].to = link[s].to /\ link'[s].up = q /\ link'[s].down = link[s].down
      /\ \A t \in Shells \ {s} : link'[t] = link[t]
  <2> HIDE DEF q
  <2>1. TypeOK /\ link' = [link EXCEPT ![s].up = q]
    BY <1>1 DEF IInv
  <2> QED BY <1>4, <2>1, LinkWith
<1>6. ASSUME prog[s] # "none"
      PROVE  /\ y \in StagesOf(prog[s]) /\ y \in Stages
             /\ Has(q, Sayings(prog[s]), Heard(y), Said(prog[s], step[s]), FALSE)
             /\ \A t : Told(t, y) = Told(t, x)
  <2>1. PICK k \in 0..4 : k = Said(prog[s], step[s])
    BY <1>2, <1>6, SaidBound
  <2>2. prog[s] \in {"vgping", "vgseer"}
    BY <1>2, <1>6, Running
  <2>3. x \in StagesOf(prog[s]) /\ Has(link[s].up, Sayings(prog[s]), Heard(x), k, FALSE)
    BY <1>2, <1>6, <2>1 DEF InStep
  <2>4. FALSE \in BOOLEAN
    OBVIOUS
  <2> HIDE DEF x
  <2> QED BY <1>1, <1>2, <2>1, <2>2, <2>3, <2>4, HearsNext
<1>7. ASSUME at[s] = "over"
      PROVE  /\ y \in Stages
             /\ \E program \in {"vgping", "vgseer"}, k \in 0..4 :
                   /\ y \in StagesOf(program) /\ k <= Len(Sayings(program))
                   /\ Has(q, Sayings(program), Heard(y), k, TRUE)
  <2>1. PICK program \in {"vgping", "vgseer"}, k \in 0..4 :
           /\ x \in StagesOf(program) /\ k <= Len(Sayings(program))
           /\ Has(link[s].up, Sayings(program), Heard(x), k, TRUE)
    BY <1>2, <1>7 DEF InStep
  <2>2. TRUE \in BOOLEAN
    OBVIOUS
  <2> HIDE DEF x
  <2>3. /\ y \in StagesOf(program) /\ y \in Stages
        /\ Has(q, Sayings(program), Heard(y), k, TRUE)
    BY <1>1, <1>2, <1>3, <2>1, <2>2, HearsNext
  <2> HIDE DEF y, q
  <2> QED BY <2>1, <2>3
<1>8. y \in Stages
  BY <1>2, <1>6, <1>7
<1>9. TypeOK'
  <2>1. stage' \in [Shells -> Stages]
    <3> HIDE DEF y
    <3>1. stage \in [Shells -> Stages]
      BY DEF IInv, TypeOK
    <3> QED BY <1>1, <1>8, <3>1
  <2> QED BY <1>1, <1>5, <2>1 DEF IInv, TypeOK
<1>10. RunsInv'
  BY <1>1 DEF IInv, RunsInv
<1>11. PortInv'
  BY <1>1 DEF IInv, PortInv, HasPort
<1>12. \A e \in Shells : Connections(e)' = Connections(e)
  BY <1>1 DEF Connections
<1>13. stage'[d] = y /\ \A e \in Shells \ {d} : stage'[e] = stage[e]
  BY <1>1 DEF IInv, TypeOK
<1>14. \A t \in Shells \ {s} : \A e \in Shells : StageOf(t, e)' = StageOf(t, e)
  BY <1>1, <1>2, <1>13 DEF StageOf
<1>15. ASSUME NEW e \in Shells, s \in Connections(e)'
       PROVE  link'[s].to = e /\ InStep(s, StageOf(s, e))'
  <2>1. e = d
    BY <1>2, <1>12, <1>15
  <2>2. PICK z \in Stages : z = y
    BY <1>8
  <2>3. StageOf(s, d)' = z
    BY <1>1, <1>2, <1>13, <2>2 DEF StageOf
  <2>4. InStep(s, z)'
    <3>1. /\ at'[s] = at[s] /\ prog'[s] = prog[s] /\ step'[s] = step[s] /\ at[s] # "session"
          /\ link'[s].up = q /\ link'[s].down = link[s].down
      BY <1>1, <1>2, <1>5
    <3>2. ASSUME prog[s] # "none"
          PROVE  /\ z \in StagesOf(prog[s])
                 /\ Has(q, Sayings(prog[s]), Heard(z), Said(prog[s], step[s]), FALSE)
                 /\ Has(link[s].down, Replies(s, prog[s]), Got(s, prog[s], step[s]), Told(s, z), FALSE)
      <4>1. Has(link[s].down, Replies(s, prog[s]), Got(s, prog[s], step[s]), Told(s, x), FALSE)
        BY <1>2, <3>2 DEF InStep
      <4> HIDE DEF q, y
      <4> QED BY <1>6, <2>2, <3>2, <4>1
    <3>3. at[s] = "over" =>
            \E program \in {"vgping", "vgseer"}, k \in 0..4 :
               /\ z \in StagesOf(program) /\ k <= Len(Sayings(program))
               /\ Has(q, Sayings(program), Heard(z), k, TRUE)
      <4> HIDE DEF q, y
      <4> QED BY <1>7, <2>2
    <3> HIDE DEF q
    <3> QED BY <3>1, <3>2, <3>3 DEF InStep
  <2> QED BY <1>2, <1>5, <2>1, <2>3, <2>4 DEF InStep
<1>16. Connected(s)'
  BY <1>1, <1>2, <1>12 DEF Connected
<1>17. PlaceInv' /\ TalkInv'
  <2>1. \A u \in Shells \ {s} :
           at'[u] = at[u] /\ prog'[u] = prog[u] /\ step'[u] = step[u] /\ link'[u] = link[u]
    BY <1>1, <1>5
  <2>2. \A u \in Shells \ {s} : \A e \in Shells :
           /\ u \in Connections(e)' <=> u \in Connections(e)
           /\ u \in Connections(e) => StageOf(u, e)' = StageOf(u, e)
    BY <1>12, <1>14
  <2>3. \A e \in Shells :
           /\ IsInjective(backlog'[e])
           /\ serving'[e] \notin members'[e] /\ serving'[e] \notin ToSet(backlog'[e])
           /\ members'[e] \cap ToSet(backlog'[e]) = {}
    BY <1>1 DEF IInv, PlaceInv
  <2>4. \A e \in Shells : daemon[e] = "gone" => daemon'[e] = "gone"
    BY <1>1
  <2>5. /\ prog'[s] = "none" => at'[s] \in {"session", "over"}
        /\ at'[s] # "remove"
    BY <1>1, <1>2
  <2> QED BY <1>15, <1>16, <2>1, <2>2, <2>3, <2>4, <2>5, OneTalks
<1> QED BY <1>9, <1>10, <1>11, <1>17 DEF IInv

\* vgd hangs up.
LEMMA HangUpIs ==
    ASSUME TypeOK, NEW S \in SUBSET Shells, link' = HangUp(S)
    PROVE  /\ link' \in [Shells -> [to : Shells \cup {NoOne}, up : Seq(Words), down : Seq(Words)]]
           /\ \A t \in Shells : link'[t].to = link[t].to /\ link'[t].up = link[t].up
           /\ \A t \in S : link'[t].down = Append(link[t].down, "eof")
           /\ \A t \in Shells \ S : link'[t] = link[t]
<1> DEFINE L == [to : Shells \cup {NoOne}, up : Seq(Words), down : Seq(Words)]
           n(t) == [link[t] EXCEPT !.down = Append(link[t].down, "eof")]
<1>1. \A t \in Shells : link'[t] = IF t \in S THEN n(t) ELSE link[t]
  BY DEF HangUp
<1>2. ASSUME NEW t \in Shells
      PROVE  /\ link[t] \in L /\ n(t) \in L
             /\ n(t).to = link[t].to /\ n(t).up = link[t].up
             /\ n(t).down = Append(link[t].down, "eof")
  <2>1. link[t] \in L
    BY DEF TypeOK
  <2> DEFINE q == Append(link[t].down, "eof")
  <2>2. q \in Seq(Words)
    <3>1. link[t].down \in Seq(Words) /\ "eof" \in Words
      BY <2>1 DEF Words
    <3> QED BY <3>1, AppendProperties
  <2> HIDE DEF q
  <2>3. LET u == [link[t] EXCEPT !.down = q]
        IN u \in L /\ u.to = link[t].to /\ u.up = link[t].up /\ u.down = q
    BY <2>1, <2>2
  <2> QED BY <2>1, <2>3 DEF q
<1>3. link' = [t \in Shells |-> IF t \in S THEN n(t) ELSE link[t]]
  BY DEF HangUp
<1> HIDE DEF n, L
<1>4. link' \in [Shells -> L]
  BY <1>2, <1>3
<1> QED BY <1>1, <1>2, <1>4 DEF L

\* A program that runs has not closed its side.
LEMMA NotGoneYet ==
    ASSUME IInv, NEW s \in Shells, NEW x \in Stages \cup {"member"}, InStep(s, x),
           prog[s] # "none" \/ at[s] = "session"
    PROVE  ~PeerGone(s)
<1>1. CASE prog[s] # "none"
  <2>1. PICK k \in 0..4 : k = Said(prog[s], step[s]) /\ k <= Len(Sayings(prog[s]))
    BY <1>1, SaidBound
  <2>2. prog[s] \in {"vgping", "vgseer"} /\ at[s] # "over"
    BY <1>1, Running
  <2> DEFINE W == Sayings(prog[s])
             h == Heard(x)
             q == link[s].up
  <2>3. Has(q, W, h, k, FALSE)
    BY <1>1, <2>1 DEF InStep
  <2>4. \A i \in 1..k : W[i] # "eof"
    BY <2>1, <2>2, SayingsTypes
  <2>5. h \in Nat /\ q \in Seq(Words)
    <3>1. h \in Nat
      BY CountsTypes
    <3>2. q \in Seq(Words)
      BY LinkWith, EmptyWords DEF IInv
    <3> QED BY <3>1, <3>2
  <2> HIDE DEF W, h, q
  <2>6. "eof" \notin ToSet(q)
    <3>1. k \in Nat
      OBVIOUS
    <3> QED BY <2>3, <2>4, <2>5, <3>1, HasNoEnd
  <2> QED BY <2>2, <2>6 DEF PeerGone, q
<1>2. CASE at[s] = "session"
  <2>1. link[s].up = <<>>
    BY <1>2 DEF InStep
  <2>2. ToSet(<<>>) = {}
    BY DEF ToSet
  <2> QED BY <1>2, <2>1, <2>2 DEF PeerGone
<1> QED BY <1>1, <1>2

\* vgd is done with the one it shook hands with.
LEMMA Unserved ==
    ASSUME IInv, NEW d \in Shells, NEW s \in Shells, s = serving[d],
           serving' = [serving EXCEPT ![d] = NoOne],
           UNCHANGED <<backlog, members>>, \A e \in Shells \ {d} : stage'[e] = stage[e]
    PROVE  /\ \A t, e \in Shells : t \in Connections(e)' <=> t \in Connections(e) /\ t # s
           /\ \A t \in Shells \ {s} : \A e \in Shells : StageOf(t, e)' = StageOf(t, e)
           /\ \A e \in Shells :
                 /\ IsInjective(backlog'[e])
                 /\ serving'[e] \notin members'[e] /\ serving'[e] \notin ToSet(backlog'[e])
                 /\ members'[e] \cap ToSet(backlog'[e]) = {}
<1> SUFFICES ASSUME NEW e \in Shells
             PROVE  /\ \A t \in Shells : t \in Connections(e)' <=> t \in Connections(e) /\ t # s
                    /\ \A t \in Shells \ {s} : StageOf(t, e)' = StageOf(t, e)
                    /\ IsInjective(backlog'[e])
                    /\ serving'[e] \notin members'[e] /\ serving'[e] \notin ToSet(backlog'[e])
                    /\ members'[e] \cap ToSet(backlog'[e]) = {}
  OBVIOUS
<1>1. /\ backlog'[e] = backlog[e] /\ members'[e] = members[e]
      /\ IsInjective(backlog[e])
      /\ serving[e] \notin members[e] /\ serving[e] \notin ToSet(backlog[e])
      /\ members[e] \cap ToSet(backlog[e]) = {}
  BY DEF IInv, PlaceInv
<1>2. CASE e = d
  <2>1. NoOne \notin members[e] /\ NoOne \notin ToSet(backlog[e])
    <3>1. members[e] \in SUBSET Shells /\ backlog[e] \in Seq(Shells)
      BY DEF IInv, TypeOK
    <3> QED BY <3>1, EmptyList, NobodyIsNoShell
  <2>2. serving'[e] = NoOne /\ serving[e] = s /\ s \notin members[e] /\ s \notin ToSet(backlog[e])
    BY <1>1, <1>2 DEF IInv, TypeOK
  <2>3. \A t \in Shells : t \in Connections(e)' <=> t \in Connections(e) /\ t # s
    BY <1>1, <2>2, NobodyIsNoShell DEF Connections
  <2>4. \A t \in Shells \ {s} : StageOf(t, e)' = StageOf(t, e)
    BY <1>1, <2>2, NobodyIsNoShell DEF StageOf
  <2> QED BY <1>1, <2>1, <2>2, <2>3, <2>4
<1>3. CASE e # d
  <2>1. s \notin Connections(e)
    <3>1. serving[d] # NoOne
      BY NobodyIsNoShell
    <3> QED BY <1>3, <3>1, ServedIs
  <2>2. serving'[e] = serving[e] /\ stage'[e] = stage[e]
    BY <1>3 DEF IInv, TypeOK
  <2>3. Connections(e)' = Connections(e)
    BY <1>1, <2>2 DEF Connections
  <2>4. \A t \in Shells : StageOf(t, e)' = StageOf(t, e)
    BY <1>1, <2>2 DEF StageOf
  <2> QED BY <1>1, <2>1, <2>2, <2>3, <2>4
<1> QED BY <1>2, <1>3

LEMMA RejectsStep ==
    ASSUME IInv, NEW d \in Shells, Rejects(d)
    PROVE  IInv'
<1>0. PICK s \in Shells : s = serving[d] /\ serving[d] # NoOne
  <2>1. serving[d] # NoOne
    BY DEF Rejects, Listens, Speaks
  <2> QED BY <2>1, ServedIs
<1> DEFINE x == stage[d]
<1>1. /\ \/ x \in DOMAIN Awaits /\ link[s].up # <<>> /\ Head(link[s].up) \notin Awaits[x]
         \/ PeerGone(s)
      /\ link' = HangUp({s})
      /\ serving' = [serving EXCEPT ![d] = NoOne]
      /\ UNCHANGED <<at, prog, step, files, daemon, dport, backlog, stage, members>>
  BY <1>0 DEF Rejects, Listens, Speaks, launcherVars, peerVars
<1>2. /\ s = serving[d] /\ s \in Connections(d) /\ link[s].to = d
      /\ x \in Stages /\ InStep(s, x)
      /\ at[s] # "session" /\ at[s] # "remove"
      /\ \A e \in Shells : s \in Connections(e) => e = d
      /\ s \notin members[d] /\ s \notin ToSet(backlog[d])
  BY <1>0, ServedIs
<1>3. prog[s] = "none"
  <2> SUFFICES ASSUME prog[s] # "none" PROVE FALSE
    OBVIOUS
  <2>1. ~PeerGone(s)
    BY <1>2, NotGoneYet
  <2>2. x \in DOMAIN Awaits /\ link[s].up # <<>> /\ Head(link[s].up) \notin Awaits[x]
    BY <1>1, <2>1
  <2>3. PICK k \in 0..4 : k = Said(prog[s], step[s])
    BY SaidBound
  <2>4. prog[s] \in {"vgping", "vgseer"}
    BY Running
  <2>5. x \in StagesOf(prog[s]) /\ Has(link[s].up, Sayings(prog[s]), Heard(x), k, FALSE)
    BY <1>2, <2>3 DEF InStep
  <2>6. FALSE \in BOOLEAN
    OBVIOUS
  <2> HIDE DEF x
  <2>7. Head(link[s].up) \in Awaits[x]
    BY <2>2, <2>3, <2>4, <2>5, <2>6, HearsNext
  <2> QED BY <2>2, <2>7
<1>4. /\ link' \in [Shells -> [to : Shells \cup {NoOne}, up : Seq(Words), down : Seq(Words)]]
      /\ \A t \in Shells \ {s} : link'[t] = link[t]
  <2>1. {s} \in SUBSET Shells
    OBVIOUS
  <2> QED BY <1>1, <2>1, HangUpIs DEF IInv
<1>5. /\ serving' \in [Shells -> Shells \cup {NoOne}]
      /\ serving'[d] = NoOne /\ \A e \in Shells \ {d} : serving'[e] = serving[e]
  <2>1. serving \in [Shells -> Shells \cup {NoOne}]
    BY DEF IInv, TypeOK
  <2> QED BY <1>1, <2>1
<1>6. TypeOK'
  BY <1>1, <1>4, <1>5 DEF IInv, TypeOK
<1>7. RunsInv'
  BY <1>1 DEF IInv, RunsInv
<1>8. PortInv'
  BY <1>1 DEF IInv, PortInv, HasPort
<1>9. /\ \A t, e \in Shells : t \in Connections(e)' <=> t \in Connections(e) /\ t # s
      /\ \A t \in Shells \ {s} : \A e \in Shells : StageOf(t, e)' = StageOf(t, e)
      /\ \A e \in Shells :
            /\ IsInjective(backlog'[e])
            /\ serving'[e] \notin members'[e] /\ serving'[e] \notin ToSet(backlog'[e])
            /\ members'[e] \cap ToSet(backlog'[e]) = {}
  BY <1>0, <1>1, Unserved
<1>10. PlaceInv' /\ TalkInv'
  <2>1. \A u \in Shells \ {s} :
           at'[u] = at[u] /\ prog'[u] = prog[u] /\ step'[u] = step[u] /\ link'[u] = link[u]
    BY <1>1, <1>4
  <2>2. \A e \in Shells : s \notin Connections(e)'
    BY <1>9
  <2>3. prog'[s] = "none" /\ at'[s] # "session" /\ at'[s] # "remove"
    BY <1>1, <1>2, <1>3
  <2>4. \A e \in Shells : daemon[e] = "gone" => daemon'[e] = "gone"
    BY <1>1
  <2>5. \A u \in Shells \ {s} : \A e \in Shells :
           /\ u \in Connections(e)' <=> u \in Connections(e)
           /\ u \in Connections(e) => StageOf(u, e)' = StageOf(u, e)
    BY <1>9
  <2> QED BY <1>9, <2>1, <2>2, <2>3, <2>4, <2>5, OneTalks
<1> QED BY <1>6, <1>7, <1>8, <1>10 DEF IInv

\* What vgd writes at each stage is what comes next.
LEMMA AppendWords ==
    ASSUME NEW q \in Seq(Words), NEW a \in Words, NEW b \in Words
    PROVE  /\ q \o <<a>> = Append(q, a) /\ q \o <<a>> \in Seq(Words)
           /\ q \o <<a, b>> = Append(Append(q, a), b) /\ q \o <<a, b>> \in Seq(Words)
  OBVIOUS

LEMMA TellsNext ==
    ASSUME NEW s, NEW i \in Nat, NEW q \in Seq(Words)
    PROVE  LET R == Replies(s, "vgseer")
               w == IF s \in Differs THEN <<"WARNING", "reason">> ELSE <<"OK">>
           IN /\ q \o w \in Seq(Words)
              /\ q \o <<"set-title">> \in Seq(Words) /\ q \o <<"vgexpand-opts">> \in Seq(Words)
              /\ Has(q, R, i, Told(s, "answer"), FALSE) => Has(q \o w, R, i, Told(s, "title"), FALSE)
              /\ Has(q, R, i, Told(s, "order"), FALSE) =>
                    Has(q \o <<"set-title">>, R, i, Told(s, "titled"), FALSE)
              /\ Has(q, R, i, Told(s, "options"), FALSE) =>
                    Has(q \o <<"vgexpand-opts">>, R, i, Told(s, "member"), FALSE)
<1> DEFINE R == Replies(s, "vgseer")
           n == StatusWords(s)
<1>1. /\ Told(s, "answer") = 0 /\ Told(s, "title") = n /\ Told(s, "order") = n
      /\ Told(s, "titled") = n + 1 /\ Told(s, "options") = n + 1 /\ Told(s, "member") = n + 2
  BY DEF Told
<1>2. /\ R[1] = IF s \in Differs THEN "WARNING" ELSE "OK"
      /\ s \in Differs => R[2] = "reason"
      /\ R[n + 1] = "set-title" /\ R[n + 2] = "vgexpand-opts"
  BY RepliesTypes
<1>3. n \in Nat /\ (s \in Differs => n = 2) /\ (s \notin Differs => n = 1)
  BY DEF StatusWords
<1>4. {"WARNING", "reason", "OK", "set-title", "vgexpand-opts"} \subseteq Words
  BY DEF Words
<1>5. /\ q \o <<"OK">> = Append(q, "OK") /\ q \o <<"OK">> \in Seq(Words)
      /\ q \o <<"set-title">> = Append(q, "set-title") /\ q \o <<"set-title">> \in Seq(Words)
      /\ q \o <<"vgexpand-opts">> = Append(q, "vgexpand-opts") /\ q \o <<"vgexpand-opts">> \in Seq(Words)
      /\ q \o <<"WARNING", "reason">> = Append(Append(q, "WARNING"), "reason")
      /\ q \o <<"WARNING", "reason">> \in Seq(Words)
  BY <1>4, AppendWords
<1> HIDE DEF R, n
<1>6. ASSUME NEW j \in Nat, NEW m \in Words, R[j + 1] = m, Has(q, R, i, j, FALSE)
      PROVE  Has(Append(q, m), R, i, j + 1, FALSE)
  BY <1>6, HasAppend
<1>7. ASSUME Has(q, R, i, n, FALSE)
      PROVE  Has(q \o <<"set-title">>, R, i, n + 1, FALSE)
  BY <1>2, <1>3, <1>4, <1>5, <1>6, <1>7
<1>8. ASSUME Has(q, R, i, n + 1, FALSE)
      PROVE  Has(q \o <<"vgexpand-opts">>, R, i, n + 2, FALSE)
  <2>1. n + 1 \in Nat /\ (n + 1) + 1 = n + 2
    BY <1>3
  <2>2. R[(n + 1) + 1] = "vgexpand-opts" /\ "vgexpand-opts" \in Words
    BY <1>2, <1>4, <2>1
  <2>3. Has(Append(q, "vgexpand-opts"), R, i, (n + 1) + 1, FALSE)
    BY <1>6, <1>8, <2>1, <2>2
  <2> QED BY <1>5, <2>1, <2>3
<1>9. ASSUME Has(q, R, i, 0, FALSE), s \notin Differs
      PROVE  Has(q \o <<"OK">>, R, i, n, FALSE)
  <2>1. 0 \in Nat /\ n = 0 + 1 /\ R[0 + 1] = "OK" /\ "OK" \in Words
    BY <1>2, <1>3, <1>4, <1>9
  <2> QED BY <1>5, <1>6, <1>9, <2>1
<1>10. ASSUME Has(q, R, i, 0, FALSE), s \in Differs
       PROVE  Has(q \o <<"WARNING", "reason">>, R, i, n, FALSE)
  <2>1. /\ 0 \in Nat /\ 1 \in Nat /\ 0 + 1 = 1 /\ 1 + 1 = 2 /\ n = 2
        /\ R[1] = "WARNING" /\ R[2] = "reason" /\ "WARNING" \in Words /\ "reason" \in Words
    BY <1>2, <1>3, <1>4, <1>10
  <2> DEFINE q1 == Append(q, "WARNING")
  <2>2. Has(q1, R, i, 0 + 1, FALSE)
    BY <1>6, <1>10, <2>1
  <2>3. q1 \in Seq(Words)
    BY <2>1, AppendProperties
  <2> HIDE DEF q1
  <2>4. Has(q1, R, i, 1, FALSE) /\ R[1 + 1] \in Words
    BY <2>1, <2>2
  <2>5. Has(Append(q1, R[1 + 1]), R, i, 1 + 1, FALSE)
    BY <2>1, <2>3, <2>4, HasAppend
  <2>6. q \o <<"WARNING", "reason">> = Append(q1, "reason")
    BY <1>5 DEF q1
  <2> QED BY <2>1, <2>5, <2>6
<1> QED BY <1>1, <1>5, <1>7, <1>8, <1>9, <1>10 DEF R, n

\* It answers a vgseer.
LEMMA AnswerTalk ==
    ASSUME IInv, NEW s \in Shells, NEW x, NEW y, NEW w,
           \/ x = "answer" /\ y = "title" /\ w = IF s \in Differs THEN <<"WARNING", "reason">> ELSE <<"OK">>
           \/ x = "order" /\ y = "titled" /\ w = <<"set-title">>
           \/ x = "options" /\ y = "member" /\ w = <<"vgexpand-opts">>,
           InStep(s, x), at[s] # "session",
           at'[s] = at[s], prog'[s] = prog[s], step'[s] = step[s],
           link'[s].up = link[s].up, link'[s].down = link[s].down \o w
    PROVE  /\ link[s].down \o w \in Seq(Words)
           /\ InStep(s, y)'
<1> DEFINE q == link[s].down
           i == Got(s, "vgseer", step[s])
           R == Replies(s, "vgseer")
<1>1. /\ y \in StagesOf("vgseer") /\ x \notin StagesOf("vgping") /\ Heard(y) = Heard(x)
  BY DEF StagesOf, Stages, Heard
<1>2. q \in Seq(Words) /\ i \in Nat
  <2>1. q \in Seq(Words)
    BY LinkWith, EmptyWords DEF IInv
  <2>2. i \in Nat
    BY DEF Got, StatusWords
  <2> QED BY <2>1, <2>2
<1> HIDE DEF q, i, R
<1>3. q \o w \in Seq(Words)
  BY <1>2, TellsNext
<1>4. Has(q, R, i, Told(s, x), FALSE) => Has(q \o w, R, i, Told(s, y), FALSE)
  BY <1>2, TellsNext DEF R
<1>5. ASSUME prog[s] # "none"
      PROVE  /\ y \in StagesOf(prog[s])
             /\ Has(link[s].up, Sayings(prog[s]), Heard(y), Said(prog[s], step[s]), FALSE)
             /\ Has(q \o w, Replies(s, prog[s]), Got(s, prog[s], step[s]), Told(s, y), FALSE)
  <2>1. /\ x \in StagesOf(prog[s])
        /\ Has(link[s].up, Sayings(prog[s]), Heard(x), Said(prog[s], step[s]), FALSE)
        /\ Has(q, Replies(s, prog[s]), Got(s, prog[s], step[s]), Told(s, x), FALSE)
    BY <1>5 DEF InStep, q
  <2>2. prog[s] = "vgseer"
    BY <1>1, <1>5, <2>1, Running
  <2> QED BY <1>1, <1>4, <2>1, <2>2 DEF i, R
<1>6. ASSUME at[s] = "over"
      PROVE  \E program \in {"vgping", "vgseer"}, k \in 0..4 :
                /\ y \in StagesOf(program) /\ k <= Len(Sayings(program))
                /\ Has(link[s].up, Sayings(program), Heard(y), k, TRUE)
  <2>1. PICK program \in {"vgping", "vgseer"}, k \in 0..4 :
           /\ x \in StagesOf(program) /\ k <= Len(Sayings(program))
           /\ Has(link[s].up, Sayings(program), Heard(x), k, TRUE)
    BY <1>6 DEF InStep
  <2>2. program = "vgseer"
    BY <1>1, <2>1
  <2>3. y \in StagesOf(program) /\ Has(link[s].up, Sayings(program), Heard(y), k, TRUE)
    BY <1>1, <2>1, <2>2
  <2> QED BY <2>1, <2>3
<1>7. InStep(s, y)'
  BY <1>5, <1>6 DEF InStep, q
<1> QED BY <1>3, <1>7 DEF q

\* It answers a ping.
LEMMA PongTalk ==
    ASSUME IInv, NEW s \in Shells, InStep(s, "yo"), prog[s] # "none",
           prog'[s] = prog[s], step'[s] = step[s],
           link'[s].down = link[s].down \o <<"yo", "eof">>
    PROVE  Ended(s)'
<1> DEFINE q == link[s].down
           R == Replies(s, "vgping")
<1>1. prog[s] = "vgping"
  <2>1. "yo" \in StagesOf(prog[s])
    BY DEF InStep
  <2> QED BY <2>1, Running DEF StagesOf
<1>2. /\ Got(s, "vgping", step[s]) = 0 /\ Told(s, "yo") = 0
      /\ R[0 + 1] = "yo" /\ Len(R) = 1
  BY RepliesTypes DEF Got, Told
<1>3. Has(q, R, 0, 0, FALSE)
  BY <1>1, <1>2 DEF InStep
<1>4. q \in Seq(Words) /\ {"yo", "eof"} \subseteq Words
  BY LinkWith, EmptyWords DEF IInv, Words
<1> HIDE DEF q, R
<1> DEFINE q1 == Append(q, "yo")
<1>5. q \o <<"yo", "eof">> = Append(q1, "eof")
  BY <1>4, AppendWords
<1>6. q1 \in Seq(Words)
  BY <1>4, AppendProperties
<1>7. Has(q1, R, 0, 0 + 1, FALSE)
  <2>1. R[0 + 1] \in Words
    BY <1>2, <1>4
  <2>2. Has(Append(q, R[0 + 1]), R, 0, 0 + 1, FALSE)
    BY <1>3, <1>4, <2>1, HasAppend
  <2> QED BY <1>2, <2>2
<1> HIDE DEF q1
<1>8. Has(Append(q1, "eof"), R, 0, 1, TRUE)
  <2>1. 0 + 1 = 1 /\ 0 \in Nat /\ 1 \in Nat
    OBVIOUS
  <2>2. Has(q1, R, 0, 1, FALSE)
    BY <1>7, <2>1
  <2> QED BY <1>6, <2>1, <2>2, HasEnd
<1>9. Has(link'[s].down, R, 0, 1, TRUE)
  BY <1>5, <1>8 DEF q
<1>10. PICK k \in 0..4 : k = 1
  OBVIOUS
<1>11. /\ prog'[s] = "vgping" /\ k # 0 /\ k <= Len(Replies(s, "vgping"))
       /\ Has(link'[s].down, Replies(s, "vgping"), Got(s, "vgping", step'[s]), k, TRUE)
  <2>1. k # 0 /\ k <= Len(R)
    <3>1. Len(R) = 1
      BY <1>2
    <3> QED BY <1>10, <3>1
  <2>2. Has(link'[s].down, R, 0, k, TRUE)
    BY <1>9, <1>10
  <2>3. Got(s, "vgping", step'[s]) = 0 /\ prog'[s] = "vgping"
    BY <1>1, <1>2
  <2> QED BY <2>1, <2>2, <2>3 DEF R
<1>12. Replies(s, prog[s])' = Replies(s, prog'[s]) /\ Got(s, prog[s], step[s])' = Got(s, prog'[s], step'[s])
  OBVIOUS
<1> QED BY <1>11, <1>12 DEF Ended

LEMMA AnswersStep ==
    ASSUME IInv, NEW d \in Shells, Answers(d)
    PROVE  IInv'
<1>0. PICK s \in Shells : s = serving[d] /\ serving[d] # NoOne
  <2>1. serving[d] # NoOne
    BY DEF Answers, Speaks
  <2> QED BY <2>1, ServedIs
<1>1. PICK x \in Stages : x = stage[d]
  BY <1>0, ServedIs
<1>2. /\ s \in Connections(d) /\ link[s].to = d /\ InStep(s, x) /\ StageOf(s, d) = x
      /\ at[s] # "session" /\ at[s] # "remove"
      /\ prog[s] = "none" => at[s] = "over"
      /\ \A e \in Shells : s \in Connections(e) => e = d
      /\ s \notin members[d] /\ s \notin ToSet(backlog[d])
  BY <1>0, <1>1, ServedIs
<1>3. x \in {"yo", "answer", "order", "options"}
  BY <1>1 DEF Answers, Speaks, Awaits, Stages
<1>4. UNCHANGED <<at, prog, step, files, daemon, dport, backlog>>
  BY DEF Answers, launcherVars, peerVars
<1>5. PICK w : /\ link' = [link EXCEPT ![s].down = @ \o w]
               /\ x = "yo" => w = <<"yo", "eof">>
               /\ x = "answer" => w = IF s \in Differs THEN <<"WARNING", "reason">> ELSE <<"OK">>
               /\ x = "order" => w = <<"set-title">>
               /\ x = "options" => w = <<"vgexpand-opts">>
  <2>1. IF x = "yo" THEN new_ping_client(d) ELSE new_vgseer_client(d)
    BY <1>1 DEF Answers
  <2>2. CASE x = "yo"
    BY <1>0, <2>1, <2>2 DEF new_ping_client, Tells
  <2>3. CASE x = "answer"
    BY <1>0, <1>1, <2>1, <2>3 DEF new_vgseer_client, Tells
  <2>4. CASE x = "order"
    BY <1>0, <1>1, <2>1, <2>4 DEF new_vgseer_client, Tells
  <2>5. CASE x = "options"
    BY <1>0, <1>1, <2>1, <2>5 DEF new_vgseer_client, Tells
  <2> QED BY <1>3, <2>2, <2>3, <2>4, <2>5
<1> DEFINE q == link[s].down \o w
<1>6. q \in Seq(Words)
  <2>1. link[s].down \in Seq(Words)
    BY LinkWith, EmptyWords DEF IInv
  <2>2. CASE x = "yo"
    BY <1>5, <2>1, <2>2, AppendWords, ZenonT(60) DEF Words
  <2>3. CASE x # "yo"
    <3>1. 0 \in Nat
      OBVIOUS
    <3> QED BY <1>3, <1>5, <2>1, <2>3, <3>1, TellsNext
  <2> QED BY <2>2, <2>3
<1>7. link' = [link EXCEPT ![s].down = q]
  BY <1>5
<1> HIDE DEF q
<1>8. /\ link' \in [Shells -> [to : Shells \cup {NoOne}, up : Seq(Words), down : Seq(Words)]]
      /\ link'[s].to = link[s].to /\ link'[s].up = link[s].up /\ link'[s].down = q
      /\ \A t \in Shells \ {s} : link'[t] = link[t]
  BY <1>6, <1>7, LinkWith DEF IInv
<1>9. /\ serving' = [serving EXCEPT ![d] = IF x \in {"yo", "options"} THEN NoOne ELSE s]
      /\ members' = IF x = "options" THEN [members EXCEPT ![d] = @ \cup {s}] ELSE members
      /\ stage' = [stage EXCEPT ![d] =
            CASE x = "answer" -> "title" [] x = "order" -> "titled" [] OTHER -> "purpose"]
  <2>1. /\ serving' = [serving EXCEPT ![d] = IF stage[d] \in {"yo", "options"} THEN NoOne ELSE @]
        /\ members' = IF stage[d] = "options" THEN [members EXCEPT ![d] = @ \cup {serving[d]}] ELSE members
        /\ stage' = [stage EXCEPT ![d] =
              CASE @ = "answer" -> "title" [] @ = "order" -> "titled" [] OTHER -> "purpose"]
    BY DEF Answers
  <2> QED BY <1>0, <1>1, <2>1
<1>10. \A e \in Shells \ {d} : stage'[e] = stage[e] /\ serving'[e] = serving[e] /\ members'[e] = members[e]
  BY <1>9 DEF IInv, TypeOK
<1>11. TypeOK'
  <2>1. /\ serving \in [Shells -> Shells \cup {NoOne}] /\ members \in [Shells -> SUBSET Shells]
        /\ stage \in [Shells -> Stages] /\ {"title", "titled", "purpose"} \subseteq Stages
    BY DEF IInv, TypeOK, Stages
  <2>2. serving' \in [Shells -> Shells \cup {NoOne}]
    BY <1>9, <2>1
  <2>3. members' \in [Shells -> SUBSET Shells]
    BY <1>9, <2>1
  <2>4. stage' \in [Shells -> Stages]
    BY <1>9, <2>1
  <2> QED BY <1>4, <1>8, <2>2, <2>3, <2>4 DEF IInv, TypeOK
<1>12. RunsInv'
  BY <1>4 DEF IInv, RunsInv
<1>13. PortInv'
  BY <1>4 DEF IInv, PortInv, HasPort
<1>14. /\ \A u \in Shells \ {s} :
             at'[u] = at[u] /\ prog'[u] = prog[u] /\ step'[u] = step[u] /\ link'[u] = link[u]
       /\ \A e \in Shells : daemon[e] = "gone" => daemon'[e] = "gone"
       /\ at'[s] = at[s] /\ prog'[s] = prog[s] /\ step'[s] = step[s]
  BY <1>4, <1>8
<1>15. CASE x = "yo"
  <2>1. serving' = [serving EXCEPT ![d] = NoOne] /\ UNCHANGED <<backlog, members>>
    BY <1>4, <1>9, <1>15
  <2>2. /\ \A t, e \in Shells : t \in Connections(e)' <=> t \in Connections(e) /\ t # s
        /\ \A t \in Shells \ {s} : \A e \in Shells : StageOf(t, e)' = StageOf(t, e)
        /\ \A e \in Shells :
              /\ IsInjective(backlog'[e])
              /\ serving'[e] \notin members'[e] /\ serving'[e] \notin ToSet(backlog'[e])
              /\ members'[e] \cap ToSet(backlog'[e]) = {}
    <3>1. s = serving[d] /\ \A e \in Shells \ {d} : stage'[e] = stage[e]
      BY <1>0, <1>10
    <3> QED BY <2>1, <3>1, Unserved, ZenonT(60)
  <2>3. prog'[s] # "none" => Ended(s)'
    <3>1. link'[s].down = link[s].down \o <<"yo", "eof">>
      BY <1>5, <1>8, <1>15 DEF q
    <3> QED BY <1>2, <1>14, <1>15, <3>1, PongTalk
  <2>4. \A e \in Shells : s \notin Connections(e)'
    BY <2>2
  <2>5. \A u \in Shells \ {s} : \A e \in Shells :
           /\ u \in Connections(e)' <=> u \in Connections(e)
           /\ u \in Connections(e) => StageOf(u, e)' = StageOf(u, e)
    BY <2>2
  <2>6. at'[s] # "session" /\ at'[s] # "remove"
    BY <1>2, <1>14
  <2>7. PlaceInv' /\ TalkInv'
    BY <1>14, <2>2, <2>3, <2>4, <2>5, <2>6, OneTalks
  <2> QED BY <1>11, <1>12, <1>13, <2>7 DEF IInv
<1>16. CASE x # "yo"
  <2>1. \E y : \/ x = "answer" /\ y = "title"
               \/ x = "order" /\ y = "titled"
               \/ x = "options" /\ y = "member"
    BY <1>3, <1>16
  <2>2. PICK y : \/ x = "answer" /\ y = "title"
                 \/ x = "order" /\ y = "titled"
                 \/ x = "options" /\ y = "member"
    BY <2>1
  <2>3. InStep(s, y)'
    <3>1. link'[s].down = link[s].down \o w
      BY <1>8 DEF q
    <3>2. \/ x = "answer" /\ y = "title" /\ w = IF s \in Differs THEN <<"WARNING", "reason">> ELSE <<"OK">>
          \/ x = "order" /\ y = "titled" /\ w = <<"set-title">>
          \/ x = "options" /\ y = "member" /\ w = <<"vgexpand-opts">>
      BY <1>5, <2>2
    <3>3. InStep(s, x) /\ at[s] # "session"
      BY <1>2
    <3>4. /\ at'[s] = at[s] /\ prog'[s] = prog[s] /\ step'[s] = step[s]
          /\ link'[s].up = link[s].up
      BY <1>8, <1>14
    <3> QED BY <3>1, <3>2, <3>3, <3>4, AnswerTalk, ZenonT(60)
  <2>4. serving'[d] \in {s, NoOne} /\ (serving'[d] = s <=> y # "member")
    <3>1. serving'[d] = IF x \in {"yo", "options"} THEN NoOne ELSE s
      BY <1>9 DEF IInv, TypeOK
    <3> QED BY <1>16, <2>2, <3>1, NobodyIsNoShell
  <2>5. members'[d] = IF y = "member" THEN members[d] \cup {s} ELSE members[d]
    BY <1>9, <2>2 DEF IInv, TypeOK
  <2>6. y # "member" => stage'[d] = y
    BY <1>9, <2>2 DEF IInv, TypeOK
  <2>7. backlog' = backlog /\ serving[d] = s
    BY <1>0, <1>4
  <2>8. \A e \in Shells : Connections(e)' = Connections(e)
    <3> SUFFICES ASSUME NEW e \in Shells PROVE Connections(e)' = Connections(e)
      OBVIOUS
    <3>1. CASE e = d
      BY <2>4, <2>5, <2>7, <3>1, NobodyIsNoShell DEF Connections
    <3>2. CASE e # d
      BY <1>10, <2>7, <3>2 DEF Connections
    <3> QED BY <3>1, <3>2
  <2>9. \A t \in Shells \ {s} : \A e \in Shells : StageOf(t, e)' = StageOf(t, e)
    <3> SUFFICES ASSUME NEW t \in Shells \ {s}, NEW e \in Shells PROVE StageOf(t, e)' = StageOf(t, e)
      OBVIOUS
    <3>1. CASE e = d
      BY <2>4, <2>5, <2>7, <3>1, NobodyIsNoShell DEF StageOf
    <3>2. CASE e # d
      BY <1>10, <3>2 DEF StageOf
    <3> QED BY <3>1, <3>2
  <2>10. StageOf(s, d)' = y
    BY <1>2, <2>4, <2>5, <2>6 DEF StageOf
  <2>11. ASSUME NEW e \in Shells
         PROVE  /\ IsInjective(backlog'[e])
                /\ serving'[e] \notin members'[e] /\ serving'[e] \notin ToSet(backlog'[e])
                /\ members'[e] \cap ToSet(backlog'[e]) = {}
    <3>1. /\ IsInjective(backlog[e])
          /\ serving[e] \notin members[e] /\ serving[e] \notin ToSet(backlog[e])
          /\ members[e] \cap ToSet(backlog[e]) = {}
      BY DEF IInv, PlaceInv
    <3>2. CASE e = d
      <4>1. NoOne \notin members'[d] /\ NoOne \notin ToSet(backlog[d])
        <5>1. members'[d] \in SUBSET Shells /\ backlog[d] \in Seq(Shells)
          BY <1>11 DEF IInv, TypeOK
        <5> QED BY <5>1, EmptyList, NobodyIsNoShell
      <4> QED BY <1>2, <2>4, <2>5, <2>7, <3>1, <3>2, <4>1
    <3>3. CASE e # d
      BY <1>10, <2>7, <3>1, <3>3
    <3> QED BY <3>2, <3>3
  <2>12. ASSUME NEW e \in Shells, s \in Connections(e)'
         PROVE  link'[s].to = e /\ InStep(s, StageOf(s, e))'
    <3>1. e = d
      BY <1>2, <2>8, <2>12
    <3> QED BY <1>2, <1>8, <2>3, <2>10, <3>1 DEF InStep
  <2>13. Connected(s)'
    BY <1>2, <2>8 DEF Connected
  <2>14. \A u \in Shells \ {s} : \A e \in Shells :
            /\ u \in Connections(e)' <=> u \in Connections(e)
            /\ u \in Connections(e) => StageOf(u, e)' = StageOf(u, e)
    BY <2>8, <2>9
  <2>15. /\ prog'[s] = "none" => at'[s] \in {"session", "over"}
         /\ at'[s] # "remove"
    BY <1>2, <1>14
  <2>16. PlaceInv' /\ TalkInv'
    BY <1>14, <2>11, <2>12, <2>13, <2>14, <2>15, OneTalks
  <2> QED BY <1>11, <1>12, <1>13, <2>16 DEF IInv
<1> QED BY <1>15, <1>16

-----------------------------------------------------------------------------
(* A vgd ends.                                                             *)

\* Whoever is connected to one that ends is left with what it has said.
LEMMA EndTalk ==
    ASSUME IInv, NEW s \in Shells, NEW x \in Stages \cup {"member"}, InStep(s, x), prog[s] # "none"
    PROVE  \E k \in 0..4 :
              /\ k <= Len(Replies(s, prog[s]))
              /\ Has(Append(link[s].down, "eof"), Replies(s, prog[s]), Got(s, prog[s], step[s]), k, TRUE)
<1> DEFINE q == link[s].down
           R == Replies(s, prog[s])
           i == Got(s, prog[s], step[s])
<1>1. PICK k \in 0..4 : k = Told(s, x)
  BY CountsTypes
<1>2. Has(q, R, i, k, FALSE) /\ x \in StagesOf(prog[s])
  BY <1>1 DEF InStep
<1>3. q \in Seq(Words)
  BY LinkWith, EmptyWords DEF IInv
<1>4. i \in Nat
  BY DEF Got, StatusWords
<1>5. k <= Len(R)
  <2>1. CASE prog[s] = "vgping"
    <3>1. Len(R) = 1 /\ Told(s, x) = 0
      BY <1>2, <2>1, RepliesTypes DEF StagesOf, Told
    <3> HIDE DEF R
    <3> QED BY <1>1, <3>1
  <2>2. CASE prog[s] = "vgseer"
    <3>1. Len(R) = StatusWords(s) + 2
      BY <2>2, RepliesTypes
    <3>2. Told(s, x) <= StatusWords(s) + 2
      BY DEF Told, StatusWords
    <3> HIDE DEF R
    <3> QED BY <1>1, <3>1, <3>2
  <2> QED BY <2>1, <2>2, Running
<1> HIDE DEF q, R, i
<1>6. Has(Append(q, "eof"), R, i, k, TRUE)
  <2>1. k \in Nat
    OBVIOUS
  <2> QED BY <1>2, <1>3, <1>4, <2>1, HasEnd
<1> QED BY <1>5, <1>6 DEF q, R, i

LEMMA ClosesStep ==
    ASSUME IInv, NEW d \in Shells, daemon[d] \in {"up", "orphaned", "exits"}, Closes(d),
           UNCHANGED <<at, prog, step, files>>
    PROVE  IInv'
<1> DEFINE S == Connections(d)
<1>1. /\ daemon' = [daemon EXCEPT ![d] = "gone"]
      /\ link' = HangUp(S)
      /\ backlog' = [backlog EXCEPT ![d] = <<>>]
      /\ serving' = [serving EXCEPT ![d] = NoOne]
      /\ members' = [members EXCEPT ![d] = {}]
      /\ UNCHANGED <<dport, stage>>
  BY DEF Closes, Becomes
<1>2. S \in SUBSET Shells
  BY DEF Connections
<1>3. /\ link' \in [Shells -> [to : Shells \cup {NoOne}, up : Seq(Words), down : Seq(Words)]]
      /\ \A t \in Shells : link'[t].to = link[t].to /\ link'[t].up = link[t].up
      /\ \A t \in S : link'[t].down = Append(link[t].down, "eof")
      /\ \A t \in Shells \ S : link'[t] = link[t]
  <2> HIDE DEF S
  <2> QED BY <1>1, <1>2, HangUpIs DEF IInv
<1>4. /\ daemon'[d] = "gone" /\ backlog'[d] = <<>> /\ serving'[d] = NoOne /\ members'[d] = {}
      /\ \A e \in Shells \ {d} : /\ daemon'[e] = daemon[e] /\ backlog'[e] = backlog[e]
                                 /\ serving'[e] = serving[e] /\ members'[e] = members[e]
  BY <1>1 DEF IInv, TypeOK
<1>5. TypeOK'
  <2>1. /\ daemon \in [Shells -> States] /\ backlog \in [Shells -> Seq(Shells)]
        /\ serving \in [Shells -> Shells \cup {NoOne}] /\ members \in [Shells -> SUBSET Shells]
        /\ "gone" \in States
    BY DEF IInv, TypeOK, States
  <2>2. <<>> \in Seq(Shells)
    OBVIOUS
  <2>3. daemon' \in [Shells -> States]
    BY <1>1, <2>1
  <2>4. backlog' \in [Shells -> Seq(Shells)]
    BY <1>1, <2>1, <2>2
  <2>5. serving' \in [Shells -> Shells \cup {NoOne}]
    BY <1>1, <2>1
  <2>6. members' \in [Shells -> SUBSET Shells]
    BY <1>1, <2>1
  <2> QED BY <1>1, <1>3, <2>3, <2>4, <2>5, <2>6 DEF IInv, TypeOK
<1>6. RunsInv'
  <2>1. at[d] \notin {"starts", "scan", "remove", "probe", "ping", "vgd", "vgd starts"}
    BY DEF IInv, RunsInv
  <2>2. \A t \in Shells \ {d} :
           at'[t] = at[t] /\ prog'[t] = prog[t] /\ step'[t] = step[t] /\ daemon'[t] = daemon[t]
    BY <1>4
  <2>3. /\ prog'[d] = "vgping" => at'[d] \in {"scan", "probe", "ping"} /\ step'[d] <= 2
        /\ prog'[d] = "vgseer" <=> at'[d] = "connects"
        /\ prog'[d] = "vgseer" /\ step'[d] = 5 => d \in Differs
    BY DEF IInv, RunsInv
  <2>4. /\ at'[d] \in {"starts", "scan", "remove", "probe", "ping", "vgd"} => daemon'[d] = "none"
        /\ at'[d] = "vgd starts" <=> daemon'[d] \in {"bound", "named"}
    BY <1>4, <2>1
  <2> QED BY <2>2, <2>3, <2>4, OneRuns
<1>7. PortInv'
  <2>1. \A e \in Shells : HasPort(e)' => HasPort(e) /\ e # d
    BY <1>4 DEF HasPort
  <2>2. \A e \in Shells : daemon[e] \notin {"none", "bound"} => daemon'[e] \notin {"none", "bound"}
    BY <1>4
  <2> QED BY <1>1, <2>1, <2>2 DEF IInv, PortInv
<1>8. Connections(d)' = {} /\ \A e \in Shells \ {d} : Connections(e)' = Connections(e)
  <2>1. \A t \in Shells : t # NoOne /\ t \notin ToSet(<<>>)
    BY NobodyIsNoShell DEF ToSet
  <2> QED BY <1>4, <2>1 DEF Connections
<1>9. \A e \in Shells \ {d} : \A t \in Shells : StageOf(t, e)' = StageOf(t, e)
  BY <1>1, <1>4 DEF StageOf
<1>10. ASSUME NEW t \in S
       PROVE  t \in Shells /\ link[t].to = d /\ \A e \in Shells : t \notin Connections(e)'
  <2>1. t \in Shells /\ link[t].to = d
    BY AtStage
  <2>2. \A e \in Shells : t \in Connections(e) => e = d
    BY <2>1 DEF IInv, PlaceInv
  <2> QED BY <1>8, <2>1, <2>2
<1>11. ASSUME NEW t \in S
       PROVE  /\ prog'[t] # "none" => Ended(t)'
              /\ at'[t] = "session" => Gone(link[t].to)'
              /\ at'[t] # "remove"
  <2>1. t \in Shells /\ link[t].to = d /\ link'[t].to = d
    BY <1>3, <1>10
  <2>2. Gone(link[t].to)'
    BY <1>4, <2>1 DEF Gone
  <2>3. PICK x \in Stages \cup {"member"} : InStep(t, x)
    BY AtStage
  <2>4. ASSUME prog[t] # "none" PROVE Ended(t)'
    <3>1. PICK k \in 0..4 :
             /\ k <= Len(Replies(t, prog[t]))
             /\ Has(Append(link[t].down, "eof"), Replies(t, prog[t]), Got(t, prog[t], step[t]), k, TRUE)
      BY <2>1, <2>3, <2>4, EndTalk
    <3>2. link'[t].down = Append(link[t].down, "eof")
      BY <1>3
    <3> QED BY <2>2, <3>1, <3>2 DEF Ended
  <2>5. at[t] # "remove"
    <3>1. prog[t] = "none" => at[t] \in {"session", "over"}
      BY <2>1 DEF IInv, PlaceInv
    <3> QED BY <2>1, <3>1, Running
  <2> QED BY <2>2, <2>4, <2>5
<1>12. PlaceInv' /\ TalkInv'
  <2>1. \A t \in Shells \ S :
           /\ at'[t] = at[t] /\ prog'[t] = prog[t] /\ step'[t] = step[t] /\ link'[t] = link[t]
           /\ \A e \in Shells : /\ t \in Connections(e)' <=> t \in Connections(e)
                                /\ t \in Connections(e) => StageOf(t, e)' = StageOf(t, e)
    BY <1>3, <1>8, <1>9
  <2>2. \A e \in Shells : daemon[e] = "gone" => daemon'[e] = "gone"
    BY <1>4
  <2>3. ASSUME NEW e \in Shells
        PROVE  /\ IsInjective(backlog'[e])
               /\ serving'[e] \notin members'[e] /\ serving'[e] \notin ToSet(backlog'[e])
               /\ members'[e] \cap ToSet(backlog'[e]) = {}
    <3>1. CASE e = d
      <4>1. IsInjective(<<>>) /\ ToSet(<<>>) = {}
        BY DEF IsInjective, ToSet
      <4> QED BY <1>4, <3>1, <4>1
    <3>2. CASE e # d
      BY <1>4, <3>2 DEF IInv, PlaceInv
    <3> QED BY <3>1, <3>2
  <2>4. \A s \in S : \A e \in Shells : s \in Connections(e)' =>
           /\ link'[s].to = e
           /\ prog'[s] = "none" => at'[s] \in {"session", "over"}
           /\ InStep(s, StageOf(s, e))'
    BY <1>10
  <2>5. \A s \in S : ~Connected(s)' =>
           /\ prog'[s] # "none" => Ended(s)'
           /\ at'[s] = "session" => Gone(link[s].to)'
    BY <1>11
  <2>6. \A s \in S : at'[s] = "remove" => link'[s].to = NoOne \/ Gone(link[s].to)'
    BY <1>11
  <2> HIDE DEF S
  <2> QED BY <1>2, <2>1, <2>2, <2>3, <2>4, <2>5, <2>6, TalkStep
<1> QED BY <1>5, <1>6, <1>7, <1>12 DEF IInv

LEMMA KilledStep ==
    ASSUME IInv, NEW d \in Shells, Killed(d) \/ DisplayExits(d) \/ VgdExits(d)
    PROVE  IInv'
<1>1. UNCHANGED <<at, prog, step, files>>
  BY DEF Killed, DisplayExits, VgdExits, launcherVars, peerVars
<1>2. daemon[d] \in {"up", "orphaned", "exits"}
  BY DEF Killed, DisplayExits, VgdExits, Speaks
<1>3. CASE Closes(d)
  BY <1>1, <1>2, <1>3, ClosesStep
<1>4. CASE daemon[d] = "up" /\ Becomes(d, "orphaned") /\ UNCHANGED <<link, vgdVars>>
  <2>1. /\ daemon' = [daemon EXCEPT ![d] = "orphaned"] /\ daemon[d] = "up"
        /\ UNCHANGED <<at, prog, step, link, files, dport, backlog, serving, stage, members>>
    BY <1>1, <1>4 DEF Becomes, vgdVars
  <2>2. daemon'[d] = "orphaned" /\ \A e \in Shells \ {d} : daemon'[e] = daemon[e]
    BY <2>1 DEF IInv, TypeOK
  <2>3. TypeOK'
    <3>1. daemon' \in [Shells -> States]
      BY <2>1 DEF IInv, TypeOK, States
    <3> QED BY <2>1, <3>1 DEF IInv, TypeOK
  <2>4. RunsInv'
    <3>1. at[d] \notin {"starts", "scan", "remove", "probe", "ping", "vgd", "vgd starts"}
      BY <2>1 DEF IInv, RunsInv
    <3>2. \A t \in Shells \ {d} :
             at'[t] = at[t] /\ prog'[t] = prog[t] /\ step'[t] = step[t] /\ daemon'[t] = daemon[t]
      BY <2>1, <2>2
    <3>3. /\ prog'[d] = "vgping" => at'[d] \in {"scan", "probe", "ping"} /\ step'[d] <= 2
          /\ prog'[d] = "vgseer" <=> at'[d] = "connects"
          /\ prog'[d] = "vgseer" /\ step'[d] = 5 => d \in Differs
      BY <2>1 DEF IInv, RunsInv
    <3>4. /\ at'[d] \in {"starts", "scan", "remove", "probe", "ping", "vgd"} => daemon'[d] = "none"
          /\ at'[d] = "vgd starts" <=> daemon'[d] \in {"bound", "named"}
      BY <2>1, <2>2, <3>1
    <3> QED BY <3>2, <3>3, <3>4, OneRuns
  <2>5. PortInv'
    <3>1. \A e \in Shells : HasPort(e)' <=> HasPort(e)
      BY <2>1, <2>2 DEF HasPort
    <3>2. \A e \in Shells : daemon[e] \notin {"none", "bound"} => daemon'[e] \notin {"none", "bound"}
      BY <2>2
    <3> QED BY <2>1, <3>1, <3>2 DEF IInv, PortInv
  <2>6. PlaceInv' /\ TalkInv'
    <3>1. /\ UNCHANGED <<prog, step, link, backlog, serving, stage, members>>
          /\ \A t \in Shells : at'[t] = at[t]
          /\ \A e \in Shells : daemon[e] = "gone" => daemon'[e] = "gone"
      BY <2>1, <2>2
    <3> QED BY <3>1, QuietStep
  <2> QED BY <2>3, <2>4, <2>5, <2>6 DEF IInv
<1> QED BY <1>3, <1>4 DEF Killed, DisplayExits, VgdExits, Speaks

LEMMA DropsStep ==
    ASSUME IInv, NEW d \in Shells, DropsClient(d)
    PROVE  IInv'
<1>1. /\ daemon[d] = "up"
      /\ UNCHANGED <<at, prog, step, link, dport, backlog, serving, stage>>
  BY DEF DropsClient, launcherVars, peerVars
<1>2. PICK s \in members[d] :
         /\ PeerGone(s)
         /\ members' = [members EXCEPT ![d] = @ \ {s}]
         /\ \/ Becomes(d, "exits") /\ files' = [files EXCEPT ![dport[d]] = NoOne]
            \/ UNCHANGED <<daemon, files>>
  BY DEF DropsClient
<1>3. s \in Shells /\ s \in Connections(d)
  <2>1. s \in Shells
    BY DEF IInv, TypeOK
  <2> QED BY <2>1, ConnectionsIs
<1>4. /\ members'[d] = members[d] \ {s} /\ \A e \in Shells \ {d} : members'[e] = members[e]
      /\ members' \in [Shells -> SUBSET Shells]
  BY <1>2 DEF IInv, TypeOK
<1>5. /\ daemon'[d] \in {"up", "exits"} /\ \A e \in Shells \ {d} : daemon'[e] = daemon[e]
      /\ daemon' \in [Shells -> States]
  <2>1. daemon \in [Shells -> States] /\ "exits" \in States
    BY DEF IInv, TypeOK, States
  <2> QED BY <1>1, <1>2, <2>1 DEF Becomes
<1>6. /\ files' \in [Ports -> Shells \cup {NoOne, "stale"}]
      /\ \A p \in Ports : files'[p] = files[p] \/ files'[p] = NoOne
  <2> DEFINE F == Shells \cup {NoOne, "stale"}
  <2>1. files \in [Ports -> F] /\ NoOne \in F
    BY DEF IInv, TypeOK
  <2> HIDE DEF F
  <2>2. /\ files' \in [Ports -> F]
        /\ \A p \in Ports : files'[p] = files[p] \/ files'[p] = NoOne
    BY <1>2, <2>1
  <2> QED BY <2>2 DEF F
<1>7. TypeOK'
  BY <1>1, <1>4, <1>5, <1>6 DEF IInv, TypeOK
<1>8. RunsInv'
  <2>1. at[d] \notin {"starts", "scan", "remove", "probe", "ping", "vgd", "vgd starts"}
    BY <1>1 DEF IInv, RunsInv
  <2>2. \A t \in Shells \ {d} :
           at'[t] = at[t] /\ prog'[t] = prog[t] /\ step'[t] = step[t] /\ daemon'[t] = daemon[t]
    BY <1>1, <1>5
  <2>3. /\ prog'[d] = "vgping" => at'[d] \in {"scan", "probe", "ping"} /\ step'[d] <= 2
        /\ prog'[d] = "vgseer" <=> at'[d] = "connects"
        /\ prog'[d] = "vgseer" /\ step'[d] = 5 => d \in Differs
    BY <1>1 DEF IInv, RunsInv
  <2>4. /\ at'[d] \in {"starts", "scan", "remove", "probe", "ping", "vgd"} => daemon'[d] = "none"
        /\ at'[d] = "vgd starts" <=> daemon'[d] \in {"bound", "named"}
    BY <1>1, <1>5, <2>1
  <2> QED BY <2>2, <2>3, <2>4, OneRuns
<1>9. PortInv'
  <2>1. \A e \in Shells : HasPort(e)' <=> HasPort(e)
    BY <1>1, <1>5 DEF HasPort
  <2>2. \A e \in Shells : daemon[e] \notin {"none", "bound"} => daemon'[e] \notin {"none", "bound"}
    BY <1>5
  <2>3. \A p \in Ports : files'[p] \in Shells => files'[p] = files[p]
    BY <1>6, NobodyIsNoShell
  <2> QED BY <1>1, <2>1, <2>2, <2>3 DEF IInv, PortInv
<1>10. prog[s] = "none" /\ at[s] = "over"
  <2>1. PICK x \in Stages \cup {"member"} : InStep(s, x)
    BY <1>3, AtStage
  <2>2. prog[s] = "none" /\ at[s] # "session"
    BY <1>2, <1>3, <2>1, NotGoneYet
  <2> QED BY <1>3, <2>2 DEF IInv, PlaceInv
<1>11. ASSUME NEW e \in Shells
       PROVE  /\ Connections(e)' \subseteq Connections(e)
              /\ \A t \in Shells :
                    /\ t \in Connections(e)' => StageOf(t, e)' = StageOf(t, e)
                    /\ t \in Connections(e) /\ t \notin Connections(e)' => t = s
              /\ IsInjective(backlog'[e])
              /\ serving'[e] \notin members'[e] /\ serving'[e] \notin ToSet(backlog'[e])
              /\ members'[e] \cap ToSet(backlog'[e]) = {}
  <2>1. /\ IsInjective(backlog[e])
        /\ serving[e] \notin members[e] /\ serving[e] \notin ToSet(backlog[e])
        /\ members[e] \cap ToSet(backlog[e]) = {}
    BY DEF IInv, PlaceInv
  <2>2. backlog'[e] = backlog[e] /\ serving'[e] = serving[e] /\ stage'[e] = stage[e]
    BY <1>1
  <2>3. CASE e = d
    <3>1. members'[e] = members[e] \ {s} /\ s \in members[e]
      BY <1>4, <2>3
    <3>2. s \notin Connections(e)'
      BY <2>1, <2>2, <3>1 DEF Connections
    <3>3. /\ Connections(e)' \subseteq Connections(e)
          /\ \A t \in Shells : t \in Connections(e) /\ t \notin Connections(e)' => t = s
      BY <2>2, <3>1 DEF Connections
    <3>4. \A t \in Shells : t # s => StageOf(t, e)' = StageOf(t, e)
      BY <2>2, <3>1 DEF StageOf
    <3> QED BY <2>1, <2>2, <3>1, <3>2, <3>3, <3>4
  <2>4. CASE e # d
    <3>1. members'[e] = members[e]
      BY <1>4, <2>4
    <3>2. Connections(e)' = Connections(e)
      BY <2>2, <3>1 DEF Connections
    <3>3. \A t \in Shells : StageOf(t, e)' = StageOf(t, e)
      BY <2>2, <3>1 DEF StageOf
    <3> QED BY <2>1, <2>2, <3>1, <3>2, <3>3
  <2> QED BY <2>3, <2>4
<1>12. PlaceInv' /\ TalkInv'
  <2>1. UNCHANGED <<at, prog, step, link>>
    BY <1>1
  <2>2. \A t, e \in Shells :
           /\ t \in Connections(e)' => StageOf(t, e)' = StageOf(t, e)
           /\ t \in Connections(e) /\ t \notin Connections(e)' => prog[t] = "none" /\ at[t] = "over"
    BY <1>10, <1>11
  <2>3. \A e \in Shells : daemon[e] = "gone" => daemon'[e] = "gone"
    BY <1>1, <1>5
  <2>4. \A e \in Shells : Connections(e)' \subseteq Connections(e)
    BY <1>11
  <2> QED BY <1>11, <2>1, <2>2, <2>3, <2>4, SilentStep
<1> QED BY <1>7, <1>8, <1>9, <1>12 DEF IInv

-----------------------------------------------------------------------------
(* The theorems.                                                           *)

LEMMA Initially == Init => IInv
<1> SUFFICES ASSUME Init PROVE IInv
  OBVIOUS
<1>1. /\ at = [s \in Shells |-> IF s \in Standing THEN "over" ELSE "starts"]
      /\ prog = [s \in Shells |-> "none"] /\ step = [s \in Shells |-> 1]
      /\ link = [s \in Shells |-> NoLink]
      /\ daemon \in [Shells -> {"none", "up"}]
      /\ \A d \in Shells \ Standing : daemon[d] = "none"
      /\ \A d, e \in Shells : daemon[d] = "up" /\ daemon[e] = "up" => d = e
      /\ dport = [d \in Shells |-> IF d \in Standing THEN LastPort ELSE 1]
      /\ backlog = [d \in Shells |-> <<>>] /\ serving = [d \in Shells |-> NoOne]
      /\ stage = [d \in Shells |-> "purpose"] /\ members = [d \in Shells |-> {}]
  BY DEF Init
<1>2. PICK left \in {NoOne, "stale"} :
         files = [p \in Ports |->
             IF \E d \in Shells : daemon[d] = "up" /\ dport[d] = p
             THEN CHOOSE d \in Shells : daemon[d] = "up" /\ dport[d] = p
             ELSE left]
  BY DEF Init
<1>3. ASSUME NEW p \in Ports
      PROVE  \/ files[p] = left
             \/ files[p] \in Shells /\ daemon[files[p]] = "up" /\ dport[files[p]] = p
  <2>1. CASE \E d \in Shells : daemon[d] = "up" /\ dport[d] = p
    BY <1>2, <2>1
  <2>2. CASE ~ \E d \in Shells : daemon[d] = "up" /\ dport[d] = p
    BY <1>2, <2>2
  <2> QED BY <2>1, <2>2
<1>4. TypeOK
  <2>1. at \in [Shells -> Places]
    BY <1>1 DEF Places
  <2>2. step \in [Shells -> 1..8]
    <3>1. step = [s \in Shells |-> 1] /\ 1 \in 1..8
      BY <1>1, OnlyTheEnd
    <3> QED BY <3>1
  <2>3. link \in [Shells -> [to : Shells \cup {NoOne}, up : Seq(Words), down : Seq(Words)]]
    <3>1. NoLink \in [to : Shells \cup {NoOne}, up : Seq(Words), down : Seq(Words)]
      BY EmptyWords DEF NoLink
    <3> QED BY <1>1, <3>1
  <2>4. files \in [Ports -> Shells \cup {NoOne, "stale"}]
    <3>1. \A p \in Ports : files[p] \in Shells \cup {NoOne, "stale"}
      BY <1>3
    <3>2. files = [p \in Ports |-> files[p]]
      BY <1>2
    <3> QED BY <3>1, <3>2
  <2>5. daemon \in [Shells -> States]
    BY <1>1 DEF States
  <2>6. backlog \in [Shells -> Seq(Shells)]
    <3>1. <<>> \in Seq(Shells)
      OBVIOUS
    <3> QED BY <1>1, <3>1
  <2>7. stage \in [Shells -> Stages]
    BY <1>1 DEF Stages
  <2>8. /\ prog \in [Shells -> {"none", "vgping", "vgseer"}] /\ DOMAIN dport = Shells
        /\ serving \in [Shells -> Shells \cup {NoOne}] /\ members \in [Shells -> SUBSET Shells]
    BY <1>1
  <2> QED BY <2>1, <2>2, <2>3, <2>4, <2>5, <2>6, <2>7, <2>8 DEF TypeOK
<1>5. RunsInv
  <2> SUFFICES ASSUME NEW s \in Shells
               PROVE  /\ prog[s] = "vgping" => at[s] \in {"scan", "probe", "ping"} /\ step[s] <= 2
                      /\ prog[s] = "vgseer" <=> at[s] = "connects"
                      /\ prog[s] = "vgseer" /\ step[s] = 5 => s \in Differs
                      /\ at[s] \in {"starts", "scan", "remove", "probe", "ping", "vgd"} =>
                            daemon[s] = "none"
                      /\ at[s] = "vgd starts" <=> daemon[s] \in {"bound", "named"}
    BY DEF RunsInv
  <2>1. prog[s] = "none" /\ at[s] \in {"over", "starts"}
    BY <1>1
  <2>2. daemon[s] \in {"none", "up"} /\ (at[s] = "starts" => daemon[s] = "none")
    BY <1>1
  <2> QED BY <2>1, <2>2
<1>6. \A d \in Shells : Connections(d) = {}
  <2>1. ToSet(<<>>) = {}
    BY DEF ToSet
  <2> QED BY <1>1, <2>1, NobodyIsNoShell DEF Connections
<1>7. PlaceInv
  <2>1. IsInjective(<<>>) /\ ToSet(<<>>) = {}
    BY DEF IsInjective, ToSet
  <2> QED BY <1>1, <1>6, <2>1 DEF PlaceInv
<1>8. PortInv
  <2>1. \A d \in Shells : HasPort(d) => daemon[d] = "up"
    BY <1>1 DEF HasPort
  <2>2. \A p \in Ports : files[p] \in Shells =>
           dport[files[p]] = p /\ daemon[files[p]] \notin {"none", "bound"}
    BY <1>3, NobodyIsNoShell
  <2>3. \A d, e \in Shells : daemon[d] = "up" /\ daemon[e] = "up" => d = e
    BY <1>1
  <2>4. \A d, e \in Shells : HasPort(d) /\ HasPort(e) => d = e
    BY <2>1, <2>3
  <2> QED BY <2>2, <2>4 DEF PortInv
<1>9. TalkInv
  BY <1>1, <1>6 DEF TalkInv
<1> QED BY <1>4, <1>5, <1>7, <1>8, <1>9 DEF IInv

LEMMA Stuttering == ASSUME IInv, UNCHANGED vars PROVE IInv'
<1>1. UNCHANGED <<at, prog, step, link, files, daemon, dport, backlog, serving, stage, members>>
  BY DEF vars, launcherVars, peerVars, vgdVars
<1>2. TypeOK'
  BY <1>1 DEF IInv, TypeOK
<1>3. RunsInv'
  BY <1>1 DEF IInv, RunsInv
<1>4. PortInv'
  BY <1>1 DEF IInv, PortInv, HasPort
<1>5. PlaceInv' /\ TalkInv'
  BY <1>1, QuietStep
<1> QED BY <1>2, <1>3, <1>4, <1>5 DEF IInv

LEMMA Inductive == ASSUME IInv, [Next]_vars PROVE IInv'
<1>1. ASSUME NEW s \in Shells, LauncherStep(s) PROVE IInv'
  BY <1>1, LooksAround, PingStep, PingEndsStep, VgseerRunStep, JoinsStep, EndsOver, StartVgdStep,
     PutStep, GetStep DEF LauncherStep
<1>2. ASSUME NEW s \in Shells, Leaves(s) \/ Hangs(s) PROVE IInv'
  BY <1>2, EndsOver, LooksAround
<1>3. ASSUME NEW d \in Shells, VgdStep(d) PROVE IInv'
  BY <1>3, VgdStarts, AcceptStep, HearsStep, RejectsStep, AnswersStep, KilledStep, DropsStep
     DEF VgdStep
<1>4. CASE UNCHANGED vars
  BY <1>4, Stuttering
<1> QED BY <1>1, <1>2, <1>3, <1>4 DEF Next

\* Whatever the launchers and the vgds do, each end of a connection has said
\* and heard what the other has heard and said.
THEOREM Invariant == Spec => []IInv
  BY Initially, Inductive, PTL DEF Spec

\* What is read next is what is expected.
LEMMA GetsExpected ==
    ASSUME IInv, NEW s \in Shells, Gets(s), link[s].down # <<>>
    PROVE  Head(link[s].down) \in Expects(s) \cup {"eof"}
<1> DEFINE p == prog[s]
           n == Got(s, p, step[s])
           W == Replies(s, p)
           q == link[s].down
<1>1. p \in {"vgping", "vgseer"} /\ n \in Nat /\ W[n + 1] \in Expects(s)
  BY ScriptGets DEF IInv
<1>2. PICK k \in 0..4, ended \in BOOLEAN : Has(q, W, n, k, ended)
  <2>1. CASE Connected(s)
    <3>1. PICK d \in Shells : s \in Connections(d)
      BY <2>1 DEF Connected
    <3>2. PICK x \in Stages \cup {"member"} : InStep(s, x)
      BY <3>1, AtStage
    <3>3. PICK k \in 0..4 : k = Told(s, x)
      BY CountsTypes
    <3>4. Has(q, W, n, k, FALSE)
      BY <1>1, <3>2, <3>3 DEF InStep
    <3>5. FALSE \in BOOLEAN
      OBVIOUS
    <3> HIDE DEF q, W, n
    <3> QED BY <3>4, <3>5
  <2>2. CASE ~Connected(s)
    <3>1. Ended(s)
      BY <1>1, <2>2 DEF IInv, TalkInv
    <3>2. PICK k \in 0..4 : Has(q, W, n, k, TRUE)
      BY <3>1 DEF Ended
    <3>3. TRUE \in BOOLEAN
      OBVIOUS
    <3> HIDE DEF q, W, n
    <3> QED BY <3>2, <3>3
  <2> QED BY <2>1, <2>2
<1>3. q \in Seq(Words) /\ q # <<>>
  BY LinkWith, EmptyWords DEF IInv
<1> HIDE DEF q, W, n
<1>4. Head(q) = W[n + 1] \/ Head(q) = "eof"
  <2>1. k \in Nat
    OBVIOUS
  <2> QED BY <1>1, <1>2, <1>3, <2>1, HasHead
<1> QED BY <1>1, <1>4 DEF q

LEMMA HearsExpected ==
    ASSUME IInv, NEW d \in Shells, Listens(d), link[serving[d]].up # <<>>
    PROVE  Head(link[serving[d]].up) \in Awaits[stage[d]] \cup {"eof"}
<1>0. PICK s \in Shells : s = serving[d] /\ serving[d] # NoOne
  <2>1. serving[d] # NoOne
    BY DEF Listens
  <2> QED BY <2>1, ServedIs
<1>1. PICK x \in Stages : x = stage[d] /\ x \in DOMAIN Awaits
  BY <1>0, ServedIs DEF Listens
<1>2. InStep(s, x) /\ (prog[s] = "none" => at[s] = "over") /\ link[s].up # <<>>
  BY <1>0, <1>1, ServedIs
<1>3. PICK program \in {"vgping", "vgseer"}, k \in 0..4, ended \in BOOLEAN :
         x \in StagesOf(program) /\ Has(link[s].up, Sayings(program), Heard(x), k, ended)
  <2>1. CASE prog[s] # "none"
    <3>1. PICK k \in 0..4 : k = Said(prog[s], step[s])
      BY <2>1, SaidBound
    <3>2. x \in StagesOf(prog[s]) /\ Has(link[s].up, Sayings(prog[s]), Heard(x), k, FALSE)
      BY <1>2, <2>1, <3>1 DEF InStep
    <3>3. FALSE \in BOOLEAN /\ prog[s] \in {"vgping", "vgseer"}
      BY <2>1, Running
    <3> QED BY <3>2, <3>3
  <2>2. CASE prog[s] = "none"
    <3>1. PICK program \in {"vgping", "vgseer"}, k \in 0..4 :
             x \in StagesOf(program) /\ Has(link[s].up, Sayings(program), Heard(x), k, TRUE)
      BY <1>2, <2>2 DEF InStep
    <3>2. TRUE \in BOOLEAN
      OBVIOUS
    <3> QED BY <3>1, <3>2
  <2> QED BY <2>1, <2>2
<1>4. Head(link[s].up) \in Awaits[x] \/ Head(link[s].up) = "eof"
  BY <1>1, <1>2, <1>3, HearsNext
<1> QED BY <1>0, <1>1, <1>4

LEMMA MembersReady ==
    ASSUME IInv, NEW d \in Shells, NEW s \in members[d]
    PROVE  link[s].up \in {<<>>, <<"eof">>} /\ (prog[s] = "vgseer" => step[s] = 8)
<1>1. s \in Shells /\ s \in Connections(d)
  <2>1. s \in Shells
    BY DEF IInv, TypeOK
  <2> QED BY <2>1, ConnectionsIs
<1>2. InStep(s, "member") /\ link[s].up \in Seq(Words)
  <2>1. PICK x : x = StageOf(s, d)
    OBVIOUS
  <2>2. x = "member"
    BY <2>1 DEF StageOf
  <2>3. InStep(s, x)
    BY <1>1, <2>1 DEF IInv, TalkInv
  <2>4. link[s].up \in Seq(Words)
    BY <1>1, LinkWith, EmptyWords DEF IInv
  <2> QED BY <2>2, <2>3, <2>4
<1>3. Heard("member") = 4 /\ "member" \notin StagesOf("vgping")
  BY DEF Heard, StagesOf
<1>4. CASE prog[s] # "none"
  <2>1. prog[s] = "vgseer"
    BY <1>1, <1>2, <1>3, <1>4, Running DEF InStep
  <2>2. Has(link[s].up, Sayings("vgseer"), 4, Said("vgseer", step[s]), FALSE)
    BY <1>2, <1>3, <2>1 DEF InStep
  <2>3. step[s] \in 1..8
    BY <1>1 DEF IInv, TypeOK
  <2>4. Said("vgseer", step[s]) >= 4
    <3>1. Said("vgseer", step[s]) \in 0..4
      BY <1>1, <1>4, <2>1, SaidBound
    <3> QED BY <2>2, <3>1 DEF Has
  <2>5. step[s] = 8 /\ Said("vgseer", step[s]) = 4
    BY <2>3, <2>4 DEF Said
  <2>6. link[s].up = <<>>
    BY <1>2, <2>2, <2>5, HasNothing
  <2> QED BY <2>5, <2>6
<1>5. CASE prog[s] = "none"
  <2>1. at[s] \in {"session", "over"}
    BY <1>1, <1>5 DEF IInv, PlaceInv
  <2>2. CASE at[s] = "session"
    BY <1>2, <1>5, <2>2 DEF InStep
  <2>3. CASE at[s] = "over"
    <3>1. PICK program \in {"vgping", "vgseer"}, k \in 0..4 :
             Has(link[s].up, Sayings(program), 4, k, TRUE)
      BY <1>2, <1>3, <2>3 DEF InStep
    <3>2. k = 4
      BY <3>1 DEF Has
    <3>3. link[s].up = <<"eof">>
      BY <1>2, <3>1, <3>2, HasNothing
    <3> QED BY <1>5, <3>3
  <2> QED BY <2>1, <2>2, <2>3
<1> QED BY <1>4, <1>5

LEMMA SessionHasVgd ==
    ASSUME IInv, NEW s \in Shells, at[s] = "session"
    PROVE  s \in members[link[s].to] \/ daemon[link[s].to] = "gone"
<1>1. CASE Connected(s)
  <2>1. PICK d \in Shells : s \in Connections(d)
    BY <1>1 DEF Connected
  <2>2. StageOf(s, d) = "member" /\ link[s].to = d
    BY <2>1, AtStage DEF InStep
  <2>3. stage[d] # "member"
    BY DEF IInv, TypeOK, Stages
  <2> QED BY <2>2, <2>3 DEF StageOf
<1>2. CASE ~Connected(s)
  BY <1>2 DEF IInv, TalkInv, Gone
<1> QED BY <1>1, <1>2

\* Both ends of every connection agree on what comes next, and who is in a
\* session is a client of its vgd or has outlived it (new_client,
\* connect_to_vgd).
THEOREM AlwaysAgreed == Spec => []Agreed
<1>1. ASSUME IInv PROVE Agreed
  BY <1>1, GetsExpected, HearsExpected, MembersReady, SessionHasVgd DEF Agreed
<1> QED BY <1>1, Invariant, PTL

\* A vgd that is up loses its socket file only by ending itself or to a
\* launcher that had not reached it.
LEMMA SweepStep ==
    ASSUME IInv, Next, NEW p \in Ports, NEW d \in Shells,
           files[p] = d, daemon[d] = "up", files'[p] # d
    PROVE  \/ daemon'[d] # "up"
           \/ \E s \in Shells : at[s] = "remove" /\ link[s].to # d
<1>1. dport[d] = p /\ HasPort(d)
  BY DEF IInv, PortInv, HasPort
<1>2. \/ \E s \in Shells : RemoveFile(s)
      \/ \E e \in Shells : BindFile(e) \/ DropsClient(e)
  <2>1. files' # files
    OBVIOUS
  <2>2. ASSUME NEW s \in Shells, LauncherStep(s), ~RemoveFile(s) PROVE files' = files
    BY <2>2 DEF LauncherStep, Begin, Ping, NoProgram, RunProgram, PingEnds, Exits, Decide, Vgseer,
       Joins, GivesUp, StartVgd, PutParam, GetParam
  <2>3. ASSUME NEW s \in Shells, Leaves(s) \/ Hangs(s) PROVE files' = files
    BY <2>3 DEF Leaves, Exits, Hangs
  <2>4. ASSUME NEW e \in Shells, VgdStep(e), ~BindFile(e), ~DropsClient(e) PROVE files' = files
    BY <2>4 DEF VgdStep, Daemonize, Accept, Hears, Rejects, Answers, Killed, DisplayExits, VgdExits
  <2> QED BY <2>1, <2>2, <2>3, <2>4 DEF Next
<1>3. ASSUME NEW s \in Shells, RemoveFile(s)
      PROVE  at[s] = "remove" /\ link[s].to # d
  <2>1. at[s] = "remove"
    BY <1>3 DEF RemoveFile
  <2>2. link[s].to = NoOne \/ Gone(link[s].to)
    BY <2>1 DEF IInv, TalkInv
  <2> QED BY <2>1, <2>2, NobodyIsNoShell DEF Gone
<1>4. ASSUME NEW e \in Shells, BindFile(e) PROVE FALSE
  <2>1. daemon[e] = "bound" /\ files' = [files EXCEPT ![dport[e]] = e]
    BY <1>4 DEF BindFile
  <2>2. dport[e] = p
    BY <2>1 DEF IInv, TypeOK
  <2>3. HasPort(e)
    BY <2>1 DEF HasPort
  <2>4. e = d
    BY <1>1, <2>2, <2>3 DEF IInv, PortInv
  <2> QED BY <2>1, <2>4
<1>5. ASSUME NEW e \in Shells, DropsClient(e) PROVE daemon'[d] # "up"
  <2>1. /\ daemon[e] = "up" /\ daemon' = [daemon EXCEPT ![e] = "exits"]
        /\ files' = [files EXCEPT ![dport[e]] = NoOne]
    BY <1>5 DEF DropsClient, Becomes
  <2>2. dport[e] = p
    BY <2>1 DEF IInv, TypeOK
  <2>3. HasPort(e)
    BY <2>1 DEF HasPort
  <2>4. e = d
    BY <1>1, <2>2, <2>3 DEF IInv, PortInv
  <2> QED BY <2>1, <2>4 DEF IInv, TypeOK
<1> QED BY <1>2, <1>3, <1>4, <1>5

THEOREM SweepsOnlyTheUnreached == Spec => SweepsOnlyUnreached
<1> DEFINE A == \A p \in Ports, d \in Shells :
                   files[p] = d /\ daemon[d] = "up" /\ files'[p] # d =>
                      \/ daemon'[d] # "up"
                      \/ \E s \in Shells : at[s] = "remove" /\ link[s].to # d
<1>1. ASSUME IInv, [Next]_vars PROVE [A]_vars
  BY <1>1, SweepStep
<1> QED BY <1>1, Invariant, PTL DEF Spec, SweepsOnlyUnreached

=============================================================================
