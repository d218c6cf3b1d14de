---------------------------- MODULE VgseerProofs ----------------------------
(***************************************************************************)
(* Proofs about Vgseer.                                                    *)
(***************************************************************************)
EXTENDS Vgseer, SequenceTheorems, FiniteSetTheorems, WellFoundedInduction, TLAPS

\* A set of naturals that is not empty has a least element: the intervals up to
\* its elements are finite sets, so one of them contains no other.
LEMMA MinProperties ==
    ASSUME NEW T, T \subseteq Nat, T # {}
    PROVE  Min(T) \in T /\ \A i \in T : Min(T) <= i
<1> DEFINE R == StrictSubsetOrdering(Nat)
           I == {0..i : i \in T}
<1>1. I \subseteq FiniteSubsetsOf(Nat) /\ I # {}
  <2>1. \A i \in T : 0..i \in SUBSET Nat /\ IsFiniteSet(0..i)
    BY FS_Interval
  <2> QED
    BY <2>1 DEF FiniteSubsetsOf
<1>2. PICK a \in I : \A b \in I : ~ (<<b, a>> \in R)
  <2> HIDE DEF I
  <2>1. IsWellFoundedOn(R, FiniteSubsetsOf(Nat))
    BY FS_StrictSubsetOrderingWellFounded
  <2> QED
    BY <1>1, <2>1, WFMin
<1>3. PICK m \in T : a = 0..m
  OBVIOUS
<1>4. ASSUME NEW i \in T, i < m
      PROVE  FALSE
  <2>1. 0..i \subseteq 0..m /\ m \in 0..m /\ m \notin 0..i
    BY <1>4
  <2>2. 0..i \in SUBSET Nat /\ 0..m \in SUBSET Nat
    OBVIOUS
  <2>3. <<0..i, 0..m>> \in R
    BY <2>1, <2>2 DEF StrictSubsetOrdering
  <2> QED
    BY <1>2, <1>3, <2>3
<1>5. \A i \in T : m <= i
  BY <1>4
<1> QED
  BY <1>5 DEF Min
-----------------------------------------------------------------------------
(* Reading from a pipe. *)

\* A read takes n items from the front and leaves the rest.
LEMMA ReadProperties ==
    ASSUME NEW S, NEW s \in Seq(S), NEW n \in 0..Len(s)
    PROVE  /\ SubSeq(s, 1, n) \in Seq(S)
           /\ Len(SubSeq(s, 1, n)) = n
           /\ \A i \in 1..n : SubSeq(s, 1, n)[i] = s[i]
           /\ SubSeq(s, n + 1, Len(s)) \in Seq(S)
           /\ Len(SubSeq(s, n + 1, Len(s))) = Len(s) - n
           /\ \A i \in 1..(Len(s) - n) : SubSeq(s, n + 1, Len(s))[i] = s[n + i]
<1>1. Len(s) \in Nat /\ \A i \in 1..Len(s) : s[i] \in S
  OBVIOUS
<1>2. /\ SubSeq(s, 1, n) \in Seq(S)
      /\ Len(SubSeq(s, 1, n)) = n
      /\ \A i \in 1..n : SubSeq(s, 1, n)[i] = s[i]
  BY <1>1, SubSeqProperties
<1>3. /\ SubSeq(s, n + 1, Len(s)) \in Seq(S)
      /\ Len(SubSeq(s, n + 1, Len(s))) = Len(s) - n
      /\ \A i \in 1..(Len(s) - n) : SubSeq(s, n + 1, Len(s))[i] = s[n + i]
  BY <1>1, SubSeqProperties
<1> QED
  BY <1>2, <1>3

\* What is left from a position on.
LEMMA SuffixProperties ==
    ASSUME NEW S, NEW s \in Seq(S), NEW m \in 1..Len(s)
    PROVE  /\ SubSeq(s, m, Len(s)) \in Seq(S)
           /\ Len(SubSeq(s, m, Len(s))) = Len(s) - m + 1
           /\ \A i \in 1..(Len(s) - m + 1) : SubSeq(s, m, Len(s))[i] = s[m + i - 1]
<1>1. Len(s) \in Nat /\ \A i \in m..Len(s) : s[i] \in S
  OBVIOUS
<1> QED
  BY <1>1, SubSeqProperties

-----------------------------------------------------------------------------
(* Types. *)

AllFlags == {"cmd", "pwd", "lost", "mask", "disable", "exit"}

\* Queueing an action queues a command line only when that is the action.
LEMMA QueuedProperties ==
    ASSUME TypeOK, NEW a \in AllFlags
    PROVE  /\ Queued(a) \subseteq AllFlags
           /\ a \in Queued(a)
           /\ "lost" \in Queued(a) => a = "lost" \/ ("lost" \in flags /\ a # "cmd")
           /\ "cmd" \in flags /\ a \notin {"pwd", "lost"} => "cmd" \in Queued(a)
           /\ a \in {"pwd", "lost"} => "cmd" \notin Queued(a)
           /\ "cmd" \in Queued(a) => a = "cmd" \/ "cmd" \in flags
<1>1. flags \subseteq AllFlags
  BY DEF TypeOK, QueueTypes, AllFlags
<1>2. /\ Invalidates["cmd"] = {"lost", "mask"} /\ Invalidates["pwd"] = {"cmd"}
      /\ Invalidates["lost"] = {"cmd"} /\ Invalidates["mask"] = {}
      /\ Invalidates["disable"] = {} /\ Invalidates["exit"] = {}
  BY DEF Invalidates
<1> QED
  BY <1>1, <1>2 DEF Queued, AllFlags

\* What a write to vgd may do.
LEMMA PutProperties ==
    ASSUME NEW on, NEW t, NEW next, put_param_wrapped(on, t, next)
    PROVE  /\ told' \in {told, t}
           /\ \/ pc' = next /\ exit' = exit
              \/ pc' = "exited" /\ exit' = "failure"
           /\ on /\ vgd => told' = t
           /\ ~on => told' = told
BY DEF put_param_wrapped, clean_fail

\* The first marker of a kind.
LEMMA FirstPosition ==
    ASSUME NEW buf \in Seq(Markers), NEW part, Positions(buf, part) # {}
    PROVE  /\ Min(Positions(buf, part)) \in 1..Len(buf)
           /\ buf[Min(Positions(buf, part))].part = part
           /\ \A i \in 1..Len(buf) :
                 buf[i].part = part => Min(Positions(buf, part)) <= i
<1> DEFINE P == Positions(buf, part)
<1>1. P = {i \in 1..Len(buf) : buf[i].part = part} /\ Len(buf) \in Nat
  BY DEF Positions
<1>2. P \subseteq Nat
  BY <1>1
<1> HIDE DEF P
<1>3. Min(P) \in P /\ \A i \in P : Min(P) <= i
  BY <1>2, MinProperties DEF P
<1> QED
  BY <1>1, <1>3 DEF P

\* A search ends with nothing told, or with what it collected.
LEMMA FindTypes ==
    ASSUME TypeOK,
           NEW buf \in Seq(Markers), NEW c \in SUBSET Markers,
           FindStart(buf) \/ FindEnd(c, buf)
    PROVE  /\ pc' \in {"find_start", "find_end", "handle", "exited"}
           /\ exit' \in {exit, "failure"}
           /\ frame' \subseteq Markers
           /\ told' = told \/ told' = [told EXCEPT !.expanded = frame']
           /\ called' \in BOOLEAN
<1>1. ASSUME NEW d \in SUBSET Markers, NEW b \in Seq(Markers), FindEnd(d, b)
      PROVE  /\ pc' \in {"find_start", "find_end", "handle", "exited"}
             /\ exit' \in {exit, "failure"}
             /\ frame' \subseteq Markers
             /\ told' = told \/ told' = [told EXCEPT !.expanded = frame']
             /\ called' \in BOOLEAN
  <2>1. ToSet(b) \subseteq Markers
    BY DEF ToSet
  <2>2. CASE Positions(b, "end") = {}
    BY <1>1, <2>1, <2>2 DEF FindEnd, TypeOK, SentTypes
  <2>3. CASE Positions(b, "end") # {}
    <3> DEFINE m == Min(Positions(b, "end"))
               o == d \cup ToSet(SubSeq(b, 1, m))
    <3>1. m \in 1..Len(b)
      BY <2>3, FirstPosition
    <3>2. SubSeq(b, 1, m) \in Seq(Markers)
      BY <3>1, ReadProperties
    <3>3. o \subseteq Markers
      BY <3>2 DEF ToSet
    <3>4. SendExpansion(o)
      BY <1>1, <2>3 DEF FindEnd
    <3> HIDE DEF o, m
    <3>5. /\ frame' = o
          /\ \/ put_param_wrapped(enabled, [told EXCEPT !.expanded = o], "handle") /\ called' = FALSE
             \/ clean_fail /\ UNCHANGED <<told, called>>
      BY <3>4 DEF SendExpansion
    <3> QED
      BY <3>3, <3>5, PutProperties DEF clean_fail, TypeOK, SentTypes
  <2> QED
    BY <2>2, <2>3
<1>2. CASE FindStart(buf)
  <2>1. CASE Positions(buf, "start") = {}
    BY <1>2, <2>1 DEF FindStart, TypeOK, SentTypes
  <2>2. CASE Positions(buf, "start") # {}
    <3> DEFINE m == Min(Positions(buf, "start"))
    <3>1. m \in 1..Len(buf)
      BY <2>2, FirstPosition
    <3>2. SubSeq(buf, m, Len(buf)) \in Seq(Markers)
      BY <3>1, SubSeqProperties
    <3>3. FindEnd({}, SubSeq(buf, m, Len(buf)))
      BY <1>2, <2>2 DEF FindStart
    <3> QED
      BY <1>1, <3>2, <3>3
  <2> QED
    BY <2>1, <2>2
<1> QED
  BY <1>1, <1>2

\* Initially the types are right.
LEMMA TypeInit == Init => TypeOK
<1> SUFFICES ASSUME Init PROVE TypeOK
  OBVIOUS
<1>1. /\ CmdPipe \in Nat /\ OutPipe \in Nat /\ MaxRuns \in Nat /\ MaxOrders \in Nat
  BY VgseerAssumption
<1>2. QueueTypes
  BY <1>1, EmptySeq DEF Init, QueueTypes
<1>3. SandboxTypes
  <2>1. inPipe = <<>> /\ out = <<>> /\ running = 0
    BY DEF Init
  <2>2. inPipe \in Seq(0..MaxRuns) /\ out \in Seq(Markers)
    BY <2>1, EmptySeq
  <2>3. started \in BOOLEAN /\ quoting \in BOOLEAN /\ sandbox \in BOOLEAN
    BY DEF Init
  <2> QED
    BY <1>1, <2>1, <2>2, <2>3 DEF SandboxTypes
<1>4. SentTypes
  <2>1. runs \in 0..MaxRuns /\ frame \subseteq Markers
    BY <1>1 DEF Init
  <2>2. /\ told = [cmd |-> 0, expanded |-> {}, status |-> "none"]
        /\ called = FALSE /\ ssPrev = "none"
    BY DEF Init
  <2>3. 0 \in 0..MaxRuns /\ {} \in SUBSET Markers
    BY <1>1
  <2>4. told \in [cmd : 0..MaxRuns, expanded : SUBSET Markers,
                 status : {"none", "executing", "prompt", "lost"}]
    BY <2>2, <2>3
  <2> QED
    BY <2>1, <2>2, <2>4 DEF SentTypes
<1>5. inbox \in 0..1
  BY DEF Init
<1> QED
  BY <1>2, <1>3, <1>4, <1>5 DEF Init, TypeOK, LoopTypes, ScanTypes, WorldTypes

\* What a step leaves alone keeps its type.
LEMMA TypesUntouched ==
    /\ QueueTypes /\ UNCHANGED queueVars => QueueTypes'
    /\ ScanTypes /\ UNCHANGED scanVars => ScanTypes'
    /\ SentTypes /\ UNCHANGED sentVars => SentTypes'
    /\ SandboxTypes /\ UNCHANGED sandboxVars => SandboxTypes'
    /\ WorldTypes /\ UNCHANGED worldVars => WorldTypes'
BY DEF QueueTypes, queueVars, ScanTypes, scanVars, SentTypes, sentVars,
       SandboxTypes, sandboxVars, WorldTypes, worldVars

\* A step that queues flags only.
LEMMA FlagsTyped ==
    ASSUME TypeOK, flags' \subseteq AllFlags, al' = al
    PROVE  QueueTypes'
BY DEF TypeOK, QueueTypes, AllFlags

\* The handlers of the shell, the terminal and vgd.
LEMMA HandlerTypes ==
    ASSUME TypeOK,
           \/ Select \/ IOFails \/ ProcessShell \/ ProcessTerminal \/ ProcessVgd
           \/ ChildWait \/ ScanEnds
    PROVE  TypeOK'
<1>1. Queued("exit") \subseteq AllFlags /\ flags \subseteq AllFlags
  BY QueuedProperties DEF AllFlags, TypeOK, QueueTypes
<1>2. UNCHANGED <<scanVars, sentVars, sandboxVars>> /\ enabled' \in BOOLEAN
  BY DEF Select, IOFails, ProcessShell, ProcessTerminal, ProcessVgd, ChildWait,
         ScanEnds, disable_vgseer, TypeOK
<1>3. QueueTypes'
  <2>1. flags' \subseteq AllFlags /\ al' = al
    BY <1>1 DEF Select, IOFails, ProcessShell, ProcessTerminal, ProcessVgd,
                ChildWait, ScanEnds, queueVars
  <2> QED
    BY <2>1, FlagsTyped
<1>4. LoopTypes'
  BY DEF Select, IOFails, ProcessShell, ProcessTerminal, ProcessVgd, ChildWait,
         ScanEnds, Handles, Turn, clean_fail, Pending, TypeOK, LoopTypes
<1>5. WorldTypes'
  <2>1. CASE UNCHANGED worldVars
    BY <2>1, TypesUntouched DEF TypeOK
  <2>2. CASE ProcessVgd
    BY <2>2 DEF ProcessVgd, TypeOK, WorldTypes
  <2> QED
    BY <2>1, <2>2 DEF Select, IOFails, ProcessShell, ProcessTerminal, ChildWait, ScanEnds
<1> QED
  BY <1>2, <1>3, <1>4, <1>5, TypesUntouched DEF TypeOK

\* What matching a sequence changes.
LEMMA ScanStepTypes ==
    ASSUME TypeOK, Scan
    PROVE  TypeOK'
<1>1. /\ \A a \in AllFlags : Queued(a) \subseteq AllFlags
      /\ flags \subseteq AllFlags
  BY QueuedProperties DEF TypeOK, QueueTypes, AllFlags
<1>2. /\ UNCHANGED <<sentVars, ready, exit, enabled, sandboxVars, worldVars>>
      /\ pc' = pc
  BY DEF Scan, CmdEdited, CmdStarted, CmdExecuted, OutOfSync, PwdChanged,
         RPromptStarted, OrderTyped, FlagTyped, MaskCommitted, ScanStep
<1>3. QueueTypes'
  <2>1. ASSUME NEW o \in Orders, OrderTyped(o)
        PROVE  QueueTypes'
    <3>1. /\ al' = Append(al, o) /\ Len(al) < MaxOrders /\ al \in Seq(Orders)
          /\ flags' = flags
      BY <2>1 DEF OrderTyped, TypeOK, QueueTypes
    <3>2. Len(Append(al, o)) = Len(al) + 1 /\ Append(al, o) \in Seq(Orders)
      BY <3>1, AppendProperties
    <3> QED
      BY <3>1, <3>2, VgseerAssumption DEF TypeOK, QueueTypes
  <2>2. CASE ~ \E o \in Orders : OrderTyped(o)
    <3>1. flags' \subseteq AllFlags /\ al' = al
      BY <1>1, <2>2
      DEF Scan, CmdEdited, CmdStarted, CmdExecuted, OutOfSync, PwdChanged,
          RPromptStarted, FlagTyped, MaskCommitted, QueueCmd, AllFlags, queueVars
    <3> QED
      BY <3>1, FlagsTyped
  <2> QED
    BY <2>1, <2>2
<1>4. ScanTypes'
  BY DEF Scan, CmdEdited, CmdStarted, CmdExecuted, OutOfSync, PwdChanged,
         RPromptStarted, OrderTyped, FlagTyped, MaskCommitted, TypeOK, ScanTypes,
         scanVars
<1> QED
  BY <1>2, <1>3, <1>4, TypesUntouched DEF TypeOK, LoopTypes

\* What reading the sandbox's output changes.
LEMMA ReadTypes ==
    ASSUME TypeOK, ProcessSandbox \/ ReadOn
    PROVE  TypeOK'
<1>1. Queued("exit") \subseteq AllFlags /\ flags \subseteq AllFlags
  BY QueuedProperties DEF AllFlags, TypeOK, QueueTypes
<1>2. /\ UNCHANGED <<al, scanVars, runs, ssPrev, enabled, inPipe, running,
                     started, quoting, sandbox, worldVars>>
      /\ ready' \subseteq ready
  BY DEF ProcessSandbox, ReadOn, Handles, Turn
<1>3. out \in Seq(Markers) /\ Len(out) <= OutPipe /\ OutPipe \in Nat
  BY VgseerAssumption DEF TypeOK, SandboxTypes
<1>4. CASE SandboxEOF /\ frame' = frame
  <2>1. /\ flags' \subseteq AllFlags
        /\ pc' = "handle" /\ UNCHANGED <<exit, out, told, called, frame>>
    BY <1>1, <1>4 DEF SandboxEOF
  <2> QED
    BY <1>2, <2>1, TypesUntouched, FlagsTyped
    DEF TypeOK, LoopTypes, SandboxTypes, SentTypes
<1>5. ASSUME NEW n \in 1..Len(out),
             out' = SubSeq(out, n + 1, Len(out)), flags' = flags,
             \/ FindStart(SubSeq(out, 1, n)) \/ FindEnd(frame, SubSeq(out, 1, n))
             \/ UNCHANGED <<pc, exit, frame, told, called>>
      PROVE  TypeOK'
  <2>1. /\ SubSeq(out, 1, n) \in Seq(Markers)
        /\ out' \in Seq(Markers) /\ Len(out') <= OutPipe
    BY <1>3, <1>5, ReadProperties
  <2>2. /\ pc' \in {pc, "find_start", "find_end", "handle", "exited"}
        /\ exit' \in {exit, "failure"}
        /\ frame' \subseteq Markers
        /\ told' = told \/ told' = [told EXCEPT !.expanded = frame']
        /\ called' \in BOOLEAN
    BY <1>5, <2>1, FindTypes DEF TypeOK, SentTypes
  <2>3. SandboxTypes'
    BY <1>2, <2>1 DEF TypeOK, SandboxTypes
  <2>4. SentTypes'
    BY <1>2, <2>2 DEF TypeOK, SentTypes
  <2>5. LoopTypes'
    BY <1>2, <2>2 DEF TypeOK, LoopTypes
  <2> QED
    BY <1>1, <1>2, <1>5, <2>3, <2>4, <2>5, TypesUntouched, FlagsTyped DEF TypeOK
<1> QED
  BY <1>4, <1>5 DEF ProcessSandbox, ReadOn

\* What acting on the queue changes.
LEMMA ActionTypes ==
    ASSUME TypeOK, RunLeft,
           \/ ActExit \/ ActDisable \/ ActLost \/ ActPassOn \/ ActCmd
           \/ call_vgexpand \/ SendStatus
    PROVE  TypeOK'
<1>1. flags' \subseteq flags
  BY DEF ActExit, ActDisable, ActLost, ActPassOn, ActCmd, call_vgexpand,
         SendStatus, queueVars
<1>2. QueueTypes'
  <2>1. al' = al \/ (al # <<>> /\ al' = Tail(al))
    BY DEF ActExit, ActDisable, ActLost, ActPassOn, ActCmd, call_vgexpand,
           SendStatus, queueVars
  <2>2. al \in Seq(Orders) /\ Len(al) <= MaxOrders /\ MaxOrders \in Nat
    BY VgseerAssumption DEF TypeOK, QueueTypes
  <2>3. al' \in Seq(Orders) /\ Len(al') <= MaxOrders
    BY <2>1, <2>2, HeadTailProperties
  <2> QED
    BY <1>1, <2>3 DEF TypeOK, QueueTypes
<1>3. ScanTypes' /\ enabled' \in BOOLEAN /\ WorldTypes'
  <2>1. UNCHANGED worldVars /\ enabled' \in BOOLEAN
    BY DEF ActExit, ActDisable, ActLost, ActPassOn, ActCmd, call_vgexpand,
           SendStatus, disable_vgseer, TypeOK
  <2>2. ScanTypes'
    BY DEF ActExit, ActDisable, ActLost, ActPassOn, ActCmd, call_vgexpand,
           SendStatus, scanVars, TypeOK, ScanTypes
  <2> QED
    BY <2>1, <2>2, TypesUntouched DEF TypeOK
<1>4. CASE ActExit \/ ActDisable \/ ActLost \/ ActCmd
  <2>1. UNCHANGED <<sentVars, sandboxVars>>
    BY <1>4 DEF ActExit, ActDisable, ActLost, ActCmd
  <2>2. LoopTypes'
    BY <1>4 DEF ActExit, ActDisable, ActLost, ActCmd, loopVars, TypeOK, LoopTypes
  <2> QED
    BY <1>2, <1>3, <2>1, <2>2, TypesUntouched DEF TypeOK
<1>5. CASE ActPassOn
  <2>1. /\ UNCHANGED <<runs, called, frame, ssPrev, ready, sandboxVars>>
        /\ put_param_wrapped(enabled, told, "act")
    BY <1>5 DEF ActPassOn
  <2>2. SentTypes' /\ LoopTypes'
    BY <2>1, PutProperties DEF TypeOK, SentTypes, LoopTypes
  <2> QED
    BY <1>2, <1>3, <2>1, <2>2, TypesUntouched DEF TypeOK
<1>6. CASE SendStatus
  <2> DEFINE t == [told EXCEPT !.status = ss]
  <2>1. /\ UNCHANGED <<runs, called, frame, ready, sandboxVars>> /\ ssPrev' = ss
        /\ \/ put_param_wrapped(enabled, t, "select")
           \/ pc' = "select" /\ told' = told /\ exit' = exit
    BY <1>6 DEF SendStatus
  <2>2. t \in [cmd : 0..MaxRuns, expanded : SUBSET Markers,
               status : {"none", "executing", "prompt", "lost"}]
    BY DEF TypeOK, SentTypes, ScanTypes
  <2> HIDE DEF t
  <2>3. /\ told' \in {told, t}
        /\ pc' \in {"select", "exited"} /\ exit' \in {exit, "failure"}
    BY <2>1, PutProperties
  <2>4. SentTypes' /\ LoopTypes'
    BY <2>1, <2>2, <2>3 DEF TypeOK, SentTypes, LoopTypes, ScanTypes
  <2> QED
    BY <1>2, <1>3, <2>1, <2>4, TypesUntouched DEF TypeOK
<1>7. CASE call_vgexpand
  <2> DEFINE t == [told EXCEPT !.cmd = runs']
  <2>1. MaxRuns \in Nat /\ runs \in 0..MaxRuns /\ runs < MaxRuns /\ runs' = runs + 1
    BY <1>7, VgseerAssumption DEF call_vgexpand, RunLeft, TypeOK, SentTypes
  <2>2. runs' \in 0..MaxRuns
    BY <2>1
  <2>3. t \in [cmd : 0..MaxRuns, expanded : SUBSET Markers,
               status : {"none", "executing", "prompt", "lost"}]
    BY <2>2 DEF TypeOK, SentTypes
  <2>4. /\ UNCHANGED <<frame, ssPrev, ready, running, started, quoting, out, sandbox>>
        /\ called' = TRUE
        /\ put_param_wrapped(enabled', t, "act")
    BY <1>7 DEF call_vgexpand
  <2>5. /\ inPipe' \in Seq(0..MaxRuns) /\ Len(inPipe') <= CmdPipe
    <3>1. inPipe \in Seq(0..MaxRuns) /\ Len(inPipe) <= CmdPipe /\ CmdPipe \in Nat
      BY VgseerAssumption DEF TypeOK, SandboxTypes
    <3>2. CASE inPipe' = inPipe
      BY <3>1, <3>2
    <3>3. ASSUME NEW k \in 0..MaxRuns, Len(inPipe) < CmdPipe, inPipe' = Append(inPipe, k)
          PROVE  inPipe' \in Seq(0..MaxRuns) /\ Len(inPipe') <= CmdPipe
      <4>1. Len(Append(inPipe, k)) = Len(inPipe) + 1 /\ Append(inPipe, k) \in Seq(0..MaxRuns)
        BY <3>1, AppendProperties
      <4> QED
        BY <3>1, <3>3, <4>1
    <3>4. Cut \in 0..MaxRuns
      BY <2>1 DEF Cut
    <3> QED
      BY <1>7, <2>2, <3>2, <3>3, <3>4 DEF call_vgexpand
  <2> HIDE DEF t
  <2>6. /\ told' \in {told, t}
        /\ pc' \in {"act", "exited"} /\ exit' \in {exit, "failure"}
    BY <2>4, PutProperties
  <2>7. SentTypes' /\ LoopTypes'
    BY <2>2, <2>3, <2>4, <2>6 DEF TypeOK, SentTypes, LoopTypes
  <2>8. SandboxTypes'
    BY <2>4, <2>5 DEF TypeOK, SandboxTypes
  <2> QED
    BY <1>2, <1>3, <2>7, <2>8 DEF TypeOK
<1> QED
  BY <1>4, <1>5, <1>6, <1>7

\* What the sandbox does.
LEMMA SandboxStepTypes ==
    ASSUME TypeOK, Sandbox
    PROVE  TypeOK'
<1>1. UNCHANGED <<queueVars, scanVars, sentVars, loopVars, enabled, sandbox, worldVars>>
  BY DEF Sandbox, TakeCommand, PrintMarker, CdFails, SandboxStep
<1>2. SandboxTypes'
  <2>1. /\ inPipe \in Seq(0..MaxRuns) /\ Len(inPipe) <= CmdPipe
        /\ out \in Seq(Markers) /\ Len(out) <= OutPipe
        /\ CmdPipe \in Nat /\ OutPipe \in Nat /\ running \in 0..MaxRuns /\ MaxRuns \in Nat
    BY VgseerAssumption DEF TypeOK, SandboxTypes
  <2>2. CASE TakeCommand
    <3>1. inPipe # <<>> /\ inPipe' = Tail(inPipe)
      BY <2>2 DEF TakeCommand
    <3>2. /\ inPipe' \in Seq(0..MaxRuns) /\ Len(inPipe') <= CmdPipe
          /\ Head(inPipe) \in 0..MaxRuns
      BY <2>1, <3>1, HeadTailProperties
    <3>3. quoting' \in BOOLEAN /\ running' \in {0, Head(inPipe)}
      BY <2>2 DEF TakeCommand
    <3> QED
      BY <1>1, <2>1, <2>2, <3>2, <3>3 DEF TakeCommand, TypeOK, SandboxTypes
  <2>3. CASE PrintMarker
    <3> DEFINE m == [run |-> running, part |-> IF started THEN "end" ELSE "start"]
    <3>1. running \in Runs
      BY <2>1, <2>3 DEF PrintMarker, Runs
    <3>2. m \in Markers
      BY <3>1 DEF Markers
    <3>3. out' = Append(out, m) /\ Len(out) < OutPipe
      BY <2>3 DEF PrintMarker
    <3> HIDE DEF m
    <3>4. out' \in Seq(Markers) /\ Len(out') <= OutPipe
      BY <2>1, <3>2, <3>3, AppendProperties
    <3>5. started' \in BOOLEAN /\ running' \in {0, running} /\ UNCHANGED <<inPipe, quoting>>
      BY <2>3 DEF PrintMarker
    <3> QED
      BY <1>1, <2>1, <3>4, <3>5 DEF TypeOK, SandboxTypes
  <2>4. CASE CdFails
    <3>1. running' = 0 /\ UNCHANGED <<inPipe, started, quoting, out, sandbox>>
      BY <1>1, <2>4 DEF CdFails
    <3>2. running' \in 0..MaxRuns
      BY <2>1, <3>1
    <3> QED
      BY <3>1, <3>2 DEF TypeOK, SandboxTypes
  <2> QED
    BY <2>2, <2>3, <2>4 DEF Sandbox
<1> QED
  BY <1>1, <1>2, TypesUntouched DEF TypeOK, LoopTypes, loopVars

\* What happens around vgseer.
LEMMA WorldStepTypes ==
    ASSUME TypeOK, World
    PROVE  TypeOK'
<1>1. UNCHANGED <<queueVars, scanVars, sentVars, loopVars, enabled>>
  BY DEF World, Stall, Stalls, VgdSends, VgdExits, ShellExits, TerminalCloses,
         SandboxExits, Happening
<1>2. WorldTypes'
  <2>1. inbox' \in 0..1
    <3>1. inbox' = inbox \/ inbox' = 1
      BY DEF World, Stall, Stalls, VgdSends, VgdExits, ShellExits, TerminalCloses,
             SandboxExits, worldVars
    <3> QED
      BY <3>1 DEF TypeOK, WorldTypes
  <2>2. /\ vgd' \in BOOLEAN /\ terminal' \in BOOLEAN /\ shell' \in {"up", "dead", "closed"}
        /\ stalled' \subseteq {"vgd", "shell", "term"}
    BY DEF World, Stall, Stalls, VgdSends, VgdExits, ShellExits, TerminalCloses,
           SandboxExits, TypeOK, WorldTypes, worldVars
  <2> QED
    BY <2>1, <2>2 DEF WorldTypes
<1>3. SandboxTypes'
  <2>1. CASE UNCHANGED sandboxVars
    BY <2>1, TypesUntouched DEF TypeOK
  <2>2. CASE SandboxExits
    <3>1. /\ running' = 0 /\ inPipe' = <<>> /\ sandbox' = FALSE
          /\ UNCHANGED <<started, quoting, out>>
      BY <2>2 DEF SandboxExits
    <3>2. inPipe' \in Seq(0..MaxRuns) /\ Len(inPipe') = 0 /\ CmdPipe \in Nat /\ MaxRuns \in Nat
      BY <3>1, EmptySeq, VgseerAssumption
    <3>3. 0 \in 0..MaxRuns /\ 0 <= CmdPipe
      BY <3>2
    <3>4. out' \in Seq(Markers) /\ Len(out') <= OutPipe
      BY <3>1 DEF TypeOK, SandboxTypes
    <3>5. started' \in BOOLEAN /\ quoting' \in BOOLEAN /\ sandbox' \in BOOLEAN
      BY <3>1 DEF TypeOK, SandboxTypes
    <3> QED
      BY <3>1, <3>2, <3>3, <3>4, <3>5 DEF SandboxTypes
  <2> QED
    BY <2>1, <2>2 DEF World, Stall, Stalls, VgdSends, VgdExits, ShellExits, TerminalCloses
<1> QED
  BY <1>1, <1>2, <1>3, TypesUntouched DEF TypeOK, LoopTypes, loopVars

\* Every step keeps the types.
LEMMA TypeStep ==
    ASSUME TypeOK, RunLeft, [Next]_vars
    PROVE  TypeOK'
<1>1. CASE UNCHANGED vars
  BY <1>1, TypesUntouched DEF vars, TypeOK, LoopTypes, loopVars
<1> QED
  BY <1>1, HandlerTypes, ScanStepTypes, ReadTypes, ActionTypes, SandboxStepTypes,
     WorldStepTypes
  DEF Next, LoopStep, Exited

-----------------------------------------------------------------------------
(* The queue, and what vgd was sent. *)

\* A number is left for each command line queued.
LEMMA QueueStep ==
    ASSUME TypeOK, RunLeft, [Next]_vars
    PROVE  RunLeft'
<1>1. ASSUME flags' \subseteq flags, runs' = runs, pc' # "write"
      PROVE  RunLeft'
  BY <1>1 DEF RunLeft
<1>2. ASSUME NEW a \in AllFlags, flags' = Queued(a), runs' = runs, pc' # "write",
             a = "cmd" => runs < MaxRuns
      PROVE  RunLeft'
  <2>1. "cmd" \in flags' => runs < MaxRuns
    BY <1>2, QueuedProperties DEF RunLeft
  <2> QED
    BY <1>2, <2>1 DEF RunLeft
<1>3. CASE UNCHANGED <<flags, pc, runs>>
  BY <1>3 DEF RunLeft
<1>4. CASE Scan
  <2>1. pc \in {"scan_shell", "scan_term"} /\ pc' = pc /\ runs' = runs
    BY <1>4
    DEF Scan, CmdEdited, CmdStarted, CmdExecuted, OutOfSync, PwdChanged,
        RPromptStarted, OrderTyped, FlagTyped, MaskCommitted, ScanStep, sentVars
  <2>2. \/ flags' = flags
        \/ \E a \in AllFlags : flags' = Queued(a) /\ (a = "cmd" => runs < MaxRuns)
    BY <1>4
    DEF Scan, CmdEdited, CmdStarted, CmdExecuted, OutOfSync, PwdChanged,
        RPromptStarted, OrderTyped, FlagTyped, MaskCommitted, QueueCmd, AllFlags,
        queueVars
  <2> QED
    BY <1>1, <1>2, <2>1, <2>2
<1>5. CASE \/ Select \/ IOFails \/ ScanEnds \/ ProcessVgd
  <2>1. UNCHANGED <<flags, runs>> /\ pc' # "write"
    BY <1>5 DEF Select, IOFails, ScanEnds, ProcessVgd, Handles, Turn, clean_fail,
                queueVars, sentVars
  <2> QED
    BY <1>1, <2>1
<1>6. CASE ProcessShell \/ ProcessTerminal \/ ChildWait
  <2>1. runs' = runs /\ pc' # "write" /\ flags' \in {flags, Queued("exit")}
    BY <1>6 DEF ProcessShell, ProcessTerminal, ChildWait, Handles, Turn, sentVars
  <2> QED
    BY <1>1, <1>2, <2>1 DEF AllFlags
<1>7. CASE ProcessSandbox \/ ReadOn
  <2>1. runs' = runs /\ flags' \in {flags, Queued("exit")}
    BY <1>7 DEF ProcessSandbox, ReadOn, SandboxEOF
  <2>2. pc' # "write"
    <3>1. CASE SandboxEOF
      BY <3>1 DEF SandboxEOF
    <3>2. ASSUME NEW n \in 1..Len(out),
                 FindStart(SubSeq(out, 1, n)) \/ FindEnd(frame, SubSeq(out, 1, n))
          PROVE  pc' # "write"
      <4>1. SubSeq(out, 1, n) \in Seq(Markers) /\ frame \in SUBSET Markers
        BY ReadProperties DEF TypeOK, SandboxTypes, SentTypes
      <4> QED
        BY <3>2, <4>1, FindTypes
    <3>3. ProcessSandbox /\ pc' = pc => pc' # "write"
      BY DEF ProcessSandbox, Handles, Turn
    <3> QED
      BY <1>7, <3>1, <3>2, <3>3 DEF ProcessSandbox, ReadOn
  <2> QED
    BY <1>1, <1>2, <2>1, <2>2 DEF AllFlags
<1>8. CASE ActExit \/ ActDisable \/ ActLost \/ ActPassOn \/ SendStatus
  <2>1. /\ flags' \subseteq flags /\ runs' = runs
    BY <1>8 DEF ActExit, ActDisable, ActLost, ActPassOn, SendStatus, sentVars, queueVars
  <2>2. pc' # "write"
    BY <1>8, PutProperties
    DEF ActExit, ActDisable, ActLost, ActPassOn, SendStatus, Dequeues, loopVars
  <2> QED
    BY <1>1, <2>1, <2>2
<1>9. CASE ActCmd
  BY <1>9 DEF ActCmd, Dequeues, RunLeft, sentVars
<1>10. CASE call_vgexpand
  <2>1. pc = "write" /\ "cmd" \notin flags /\ flags' = flags
    BY <1>10 DEF call_vgexpand, RunLeft, queueVars
  <2>2. pc' # "write"
    BY <1>10, PutProperties DEF call_vgexpand
  <2> QED
    BY <2>1, <2>2 DEF RunLeft
<1>11. CASE Sandbox \/ World \/ UNCHANGED vars
  <2>1. UNCHANGED <<flags, pc, runs>>
    BY <1>11
    DEF Sandbox, TakeCommand, PrintMarker, CdFails, SandboxStep, World, Stall, Stalls,
        VgdSends, VgdExits, ShellExits, TerminalCloses, SandboxExits, Happening, vars,
        queueVars, loopVars, sentVars
  <2> QED
    BY <1>3, <2>1
<1> QED
  BY <1>4, <1>5, <1>6, <1>7, <1>8, <1>9, <1>10, <1>11 DEF Next, LoopStep, Exited

\* Whichever action is queued or dequeued, the status goes with the process level,
\* and a changed command line is on its way or over.
LEMMA LineStep ==
    ASSUME TypeOK, LineInv, [Next]_vars
    PROVE  LineInv'
<1>1. ASSUME UNCHANGED scanVars, UNCHANGED ssPrev \/ pc' # "select",
             pc' = "select" => pc = "select" /\ flags' = flags,
             pc = "write" => pc' = "write",
             \/ flags' = flags
             \/ \E a \in AllFlags \ {"pwd", "lost"} : flags' = Queued(a)
             \/ \E a \in AllFlags \ {"cmd"} : flags' = flags \ {a}
      PROVE  LineInv'
  BY <1>1, QueuedProperties DEF LineInv, scanVars, AllFlags
<1>2. CASE Select \/ IOFails \/ ScanEnds \/ ProcessVgd
  <2>1. /\ UNCHANGED scanVars /\ flags' = flags
        /\ pc' # "select" /\ pc # "write"
    BY <1>2 DEF Select, IOFails, ScanEnds, ProcessVgd, Handles, Turn, clean_fail, queueVars
  <2> QED
    BY <1>1, <2>1
<1>3. CASE ProcessShell \/ ProcessTerminal \/ ChildWait
  <2>1. /\ UNCHANGED scanVars /\ flags' \in {flags, Queued("exit")}
        /\ pc' # "select" /\ pc # "write"
    BY <1>3 DEF ProcessShell, ProcessTerminal, ChildWait, Handles, Turn
  <2> QED
    BY <1>1, <2>1 DEF AllFlags
<1>4. CASE ProcessSandbox \/ ReadOn
  <2>1. /\ UNCHANGED scanVars /\ flags' \in {flags, Queued("exit")} /\ pc # "write"
    BY <1>4 DEF ProcessSandbox, ReadOn, SandboxEOF, Handles, Turn
  <2>2. pc' # "select"
    <3>1. CASE SandboxEOF
      BY <3>1 DEF SandboxEOF
    <3>2. ASSUME NEW n \in 1..Len(out),
                 FindStart(SubSeq(out, 1, n)) \/ FindEnd(frame, SubSeq(out, 1, n))
          PROVE  pc' # "select"
      <4>1. SubSeq(out, 1, n) \in Seq(Markers) /\ frame \in SUBSET Markers
        BY ReadProperties DEF TypeOK, SandboxTypes, SentTypes
      <4> QED
        BY <3>2, <4>1, FindTypes
    <3>3. ProcessSandbox /\ pc' = pc => pc' # "select"
      BY DEF ProcessSandbox, Handles, Turn
    <3> QED
      BY <1>4, <3>1, <3>2, <3>3 DEF ProcessSandbox, ReadOn
  <2> QED
    BY <1>1, <2>1, <2>2 DEF AllFlags
<1>5. CASE Scan
  <2>1. pc \in {"scan_shell", "scan_term"} /\ pc' = pc
    BY <1>5
    DEF Scan, CmdEdited, CmdStarted, CmdExecuted, OutOfSync, PwdChanged,
        RPromptStarted, OrderTyped, FlagTyped, MaskCommitted, ScanStep
  <2>2. CASE CmdEdited \/ CmdStarted
    <3>1. /\ flags' = Queued("cmd")
          /\ \/ pl' = "prompt" /\ ss' = "prompt"
             \/ pl = "prompt" /\ pl' = pl /\ ss' = ss
      BY <2>2 DEF CmdEdited, CmdStarted, QueueCmd
    <3>2. "cmd" \in flags' /\ "lost" \notin flags'
      BY <3>1, QueuedProperties DEF AllFlags
    <3> QED
      BY <2>1, <3>1, <3>2 DEF LineInv
  <2>3. CASE CmdExecuted
    BY <2>1, <2>3 DEF CmdExecuted, LineInv, queueVars
  <2>4. CASE OutOfSync
    <3>1. /\ pl = "prompt" /\ pl' = "executing" /\ ss' = "lost"
          /\ flags' \in {flags, Queued("lost")}
      BY <2>4 DEF OutOfSync
    <3>2. "lost" \notin flags /\ "cmd" \notin Queued("lost")
      BY <3>1, QueuedProperties DEF LineInv, AllFlags
    <3> QED
      BY <2>1, <3>1, <3>2 DEF LineInv
  <2>5. CASE PwdChanged
    <3>1. flags' = Queued("pwd") /\ unsent' = FALSE /\ UNCHANGED <<pl, ss>>
      BY <2>5 DEF PwdChanged
    <3>2. /\ "cmd" \notin flags'
          /\ "lost" \in flags' => "lost" \in flags
      BY <3>1, QueuedProperties DEF AllFlags
    <3> QED
      BY <2>1, <3>1, <3>2 DEF LineInv
  <2>6. CASE RPromptStarted
    BY <2>1, <2>6 DEF RPromptStarted, LineInv, queueVars
  <2>7. CASE \/ \E o \in Orders : OrderTyped(o)
             \/ \E a \in {"mask", "disable"} : FlagTyped(a)
             \/ MaskCommitted
    <3>1. /\ UNCHANGED scanVars
          /\ \/ flags' = flags
             \/ \E a \in AllFlags \ {"pwd", "lost"} : flags' = Queued(a)
      BY <2>7 DEF OrderTyped, FlagTyped, MaskCommitted, QueueCmd, AllFlags
    <3> QED
      BY <1>1, <2>1, <3>1
  <2> QED
    BY <1>5, <2>2, <2>3, <2>4, <2>5, <2>6, <2>7 DEF Scan
<1>6. CASE ActExit
  BY <1>6 DEF ActExit, Dequeues, queueVars, scanVars, LineInv
<1>7. CASE ActDisable
  BY <1>7 DEF ActDisable, Dequeues, loopVars, scanVars, LineInv
<1>8. CASE ActLost
  BY <1>8 DEF ActLost, Dequeues, loopVars, LineInv
<1>9. CASE ActPassOn
  <2>1. /\ UNCHANGED scanVars /\ pc = "act"
        /\ \/ flags' = flags
           \/ \E a \in AllFlags \ {"cmd"} : flags' = flags \ {a}
        /\ put_param_wrapped(enabled, told, "act")
    BY <1>9 DEF ActPassOn, Dequeues, AllFlags
  <2>2. pc' # "select"
    BY <2>1, PutProperties
  <2> QED
    BY <1>1, <2>1, <2>2
<1>10. CASE ActCmd
  BY <1>10 DEF ActCmd, Dequeues, scanVars, LineInv
<1>11. CASE call_vgexpand
  <2>1. flags' = flags /\ UNCHANGED <<pl, ss>> /\ unsent' = FALSE
    BY <1>11 DEF call_vgexpand, queueVars
  <2>2. pc' # "select"
    BY <1>11, PutProperties DEF call_vgexpand
  <2> QED
    BY <2>1, <2>2 DEF LineInv
<1>12. CASE SendStatus
  BY <1>12 DEF SendStatus, queueVars, scanVars, LineInv
<1>13. CASE Sandbox \/ World \/ UNCHANGED vars
  <2>1. UNCHANGED <<scanVars, flags, pc, ssPrev>>
    BY <1>13
    DEF Sandbox, TakeCommand, PrintMarker, CdFails, SandboxStep, World, Stall, Stalls,
        VgdSends, VgdExits, ShellExits, TerminalCloses, SandboxExits, Happening, vars,
        queueVars, loopVars, sentVars
  <2> QED
    BY <1>1, <2>1
<1> QED
  BY <1>2, <1>3, <1>4, <1>5, <1>6, <1>7, <1>8, <1>9, <1>10, <1>11, <1>12, <1>13
  DEF Next, LoopStep, Exited

\* No step sends anything once vgseer is disabled, or enables it again.
Silent == ~enabled => ~enabled' /\ told' = told

\* When vgseer goes back to select, vgd has been sent the status.
Informed ==
    (pc' = "select" /\ pc # "select" /\ enabled' /\ vgd) => told'.status = ss'

\* What vgd was sent is remembered, until vgd has gone or vgseer is disabled.
LEMMA SentStep ==
    ASSUME TypeOK, SentSoFar, [Next]_vars
    PROVE  SentSoFar' /\ Silent /\ Informed
<1>1. ASSUME UNCHANGED <<told, ssPrev, runs>>,
             vgd' => vgd, enabled' => enabled, pc = "exited" => pc' = "exited",
             pc' = "select" => pc = "select"
      PROVE  SentSoFar' /\ Silent /\ Informed
  <2>1. SentSoFar'
    BY <1>1 DEF SentSoFar
  <2>2. Silent /\ Informed
    BY <1>1 DEF Silent, Informed
  <2> QED
    BY <2>1, <2>2
<1>2. CASE \/ Select \/ IOFails \/ ProcessShell \/ ProcessTerminal \/ ProcessVgd
           \/ ChildWait \/ ScanEnds
           \/ ActExit \/ ActDisable \/ ActLost \/ ActCmd
  <2>1. UNCHANGED sentVars
    BY <1>2 DEF Select, IOFails, ProcessShell, ProcessTerminal, ProcessVgd,
                ChildWait, ScanEnds, ActExit, ActDisable, ActLost, ActCmd
  <2>2. vgd' = vgd /\ (enabled' = enabled \/ enabled' = FALSE)
    BY <1>2 DEF Select, IOFails, ProcessShell, ProcessTerminal, ProcessVgd,
                ChildWait, ScanEnds, ActExit, ActDisable, ActLost, ActCmd,
                disable_vgseer, worldVars
  <2>3. pc # "exited" /\ (pc' = "select" => pc = "select")
    <3>1. CASE Select \/ IOFails \/ ScanEnds \/ ActExit \/ ActCmd
      BY <3>1 DEF Select, IOFails, ScanEnds, ActExit, ActCmd, Dequeues, Turn, clean_fail
    <3>2. CASE ActDisable \/ ActLost
      BY <3>2 DEF ActDisable, ActLost, Dequeues, loopVars
    <3>3. CASE ProcessShell \/ ProcessTerminal \/ ProcessVgd \/ ChildWait
      BY <3>3 DEF ProcessShell, ProcessTerminal, ProcessVgd, ChildWait, Handles, Turn
    <3> QED
      BY <1>2, <3>1, <3>2, <3>3
  <2>4. UNCHANGED <<told, ssPrev, runs>>
    BY <2>1 DEF sentVars
  <2>5. enabled' => enabled
    BY <2>2
  <2> QED
    BY <1>1, <2>2, <2>3, <2>4, <2>5
<1>3. CASE Scan \/ Sandbox \/ World \/ UNCHANGED vars
  <2>1. /\ UNCHANGED <<told, ssPrev, runs, pc, enabled>>
        /\ vgd' = vgd \/ vgd' = FALSE
    BY <1>3
    DEF sentVars, Scan, CmdEdited, CmdStarted, CmdExecuted, OutOfSync, PwdChanged,
        RPromptStarted, OrderTyped, FlagTyped, MaskCommitted, ScanStep, Sandbox,
        TakeCommand, PrintMarker, CdFails, SandboxStep, World, Stall, Stalls,
        VgdSends, VgdExits, ShellExits, TerminalCloses, SandboxExits, Happening, vars, worldVars,
        loopVars
  <2> QED
    BY <1>1, <2>1
<1>4. CASE ProcessSandbox \/ ReadOn
  <2>1. UNCHANGED <<runs, ssPrev, enabled, vgd>> /\ pc # "exited" /\ pc # "select"
    BY <1>4 DEF ProcessSandbox, ReadOn, Handles, Turn, worldVars
  <2>2. /\ told'.status = told.status /\ told'.cmd = told.cmd
        /\ pc' # "select"
        /\ ~enabled => told' = told
    <3>1. ASSUME NEW d, NEW b, FindEnd(d, b)
          PROVE  /\ told'.status = told.status /\ told'.cmd = told.cmd
                 /\ pc' # "select"
                 /\ ~enabled => told' = told
      <4>1. CASE told' = told /\ pc' # "select"
        BY <4>1
      <4>2. ASSUME NEW o, put_param_wrapped(enabled, [told EXCEPT !.expanded = o], "handle")
            PROVE  /\ told'.status = told.status /\ told'.cmd = told.cmd
                   /\ pc' # "select"
                   /\ ~enabled => told' = told
        <5> DEFINE t == [told EXCEPT !.expanded = o]
        <5>1. t.status = told.status /\ t.cmd = told.cmd
          BY DEF TypeOK, SentTypes
        <5> HIDE DEF t
        <5>2. put_param_wrapped(enabled, t, "handle")
          BY <4>2 DEF t
        <5> QED
          BY <5>1, <5>2, PutProperties
      <4> QED
        BY <3>1, <4>1, <4>2 DEF FindEnd, SendExpansion, clean_fail
    <3>2. ASSUME NEW b, FindStart(b)
          PROVE  /\ told'.status = told.status /\ told'.cmd = told.cmd
                 /\ pc' # "select"
                 /\ ~enabled => told' = told
      BY <3>1, <3>2 DEF FindStart
    <3> QED
      BY <1>4, <3>1, <3>2 DEF ProcessSandbox, ReadOn, SandboxEOF, Handles, Turn
  <2> QED
    BY <2>1, <2>2 DEF SentSoFar, Silent, Informed
<1>5. CASE ActPassOn
  <2>1. /\ UNCHANGED <<runs, ssPrev, enabled, vgd>> /\ pc = "act"
        /\ put_param_wrapped(enabled, told, "act")
    BY <1>5 DEF ActPassOn, Dequeues, worldVars
  <2>2. told' = told /\ pc' # "select"
    BY <2>1, PutProperties
  <2> QED
    BY <1>1, <2>1, <2>2
<1>6. CASE SendStatus
  <2> DEFINE t == [told EXCEPT !.status = ss]
  <2>1. /\ UNCHANGED <<runs, enabled, vgd, ss>> /\ pc = "act" /\ ssPrev' = ss
        /\ IF ss # ssPrev THEN put_param_wrapped(enabled, t, "select")
                          ELSE pc' = "select" /\ told' = told
    BY <1>6 DEF SendStatus, worldVars, scanVars
  <2>2. t.status = ss /\ t.cmd = told.cmd
    BY DEF TypeOK, SentTypes
  <2> HIDE DEF t
  <2>3. /\ enabled /\ vgd => told'.status = ss /\ told'.cmd = told.cmd
        /\ ~enabled => told' = told
    BY <2>1, <2>2, PutProperties DEF SentSoFar
  <2> QED
    BY <2>1, <2>3 DEF SentSoFar, Silent, Informed
<1>7. CASE call_vgexpand
  <2> DEFINE t == [told EXCEPT !.cmd = runs']
  <2>1. /\ UNCHANGED <<ssPrev, vgd>> /\ pc = "write"
        /\ put_param_wrapped(enabled', t, "act")
        /\ enabled' = enabled \/ enabled' = FALSE
    BY <1>7 DEF call_vgexpand, disable_vgseer, worldVars
  <2>2. t.cmd = runs' /\ t.status = told.status
    BY DEF TypeOK, SentTypes
  <2> HIDE DEF t
  <2>3. /\ enabled' /\ vgd => told'.status = told.status /\ told'.cmd = runs'
        /\ ~enabled => told' = told /\ ~enabled'
        /\ pc' # "select"
    BY <2>1, <2>2, PutProperties
  <2>4. enabled' => enabled
    BY <2>1
  <2> QED
    BY <2>1, <2>3, <2>4 DEF SentSoFar, Silent, Informed
<1> QED
  BY <1>2, <1>3, <1>4, <1>5, <1>6, <1>7 DEF Next, LoopStep, Exited

-----------------------------------------------------------------------------
(* The commands and the outputs on their way. *)

\* The two markers of a run's output.
LEMMA OutputMarkers ==
    ASSUME NEW k
    PROVE  Output(k) = {Marker(k, "start"), Marker(k, "end")}
<1>1. ASSUME NEW m \in Output(k)
      PROVE  m \in {Marker(k, "start"), Marker(k, "end")}
  <2>1. m = [run |-> m.run, part |-> m.part] /\ m.run = k /\ m.part \in {"start", "end"}
    BY DEF Output
  <2> QED
    BY <2>1 DEF Marker
<1>2. Marker(k, "start") \in Output(k) /\ Marker(k, "end") \in Output(k)
  BY DEF Output, Marker
<1> QED
  BY <1>1, <1>2

\* A marker is its run and its part.
LEMMA MarkerParts ==
    ASSUME NEW m \in Markers
    PROVE  /\ m.run \in Runs /\ m.part \in {"start", "end"}
           /\ m = Marker(m.run, m.part)
BY DEF Markers, Marker

\* The types of what is on its way, item by item.
LEMMA OutTypes ==
    ASSUME TypeOK
    PROVE  /\ MaxRuns \in Nat /\ runs \in 0..MaxRuns /\ running \in 0..MaxRuns
           /\ inPipe \in Seq(0..MaxRuns) /\ Len(inPipe) \in Nat
           /\ \A j \in 1..Len(inPipe) : inPipe[j] \in 0..MaxRuns
           /\ out \in Seq(Markers) /\ Len(out) \in Nat
           /\ \A i \in 1..Len(out) :
                 /\ out[i] \in Markers /\ out[i].run \in 1..MaxRuns
                 /\ out[i].part \in {"start", "end"}
                 /\ out[i] = Marker(out[i].run, out[i].part)
<1>1. /\ MaxRuns \in Nat /\ runs \in 0..MaxRuns /\ running \in 0..MaxRuns
      /\ inPipe \in Seq(0..MaxRuns) /\ out \in Seq(Markers)
  BY VgseerAssumption DEF TypeOK, SentTypes, SandboxTypes
<1>2. /\ Len(inPipe) \in Nat /\ \A j \in 1..Len(inPipe) : inPipe[j] \in 0..MaxRuns
      /\ Len(out) \in Nat /\ \A i \in 1..Len(out) : out[i] \in Markers
  BY <1>1
<1> QED
  BY <1>1, <1>2, MarkerParts DEF Runs

\* An expansion is older than what is still on its way when n markers of the
\* output have been read.
OlderThanRest(x, n) ==
    /\ x <= runs
    /\ \A j \in 1..Len(inPipe) : inPipe[j] # Cut => x < inPipe[j]
    /\ running # 0 => x < running
    /\ \A j \in (n + 1)..Len(out) : x < out[j].run

\* The expansion vgd has is.
LEMMA OldIsOlder ==
    ASSUME TypeOK, InOrder, NEW n \in 0..Len(out)
    PROVE  \A old \in told.expanded : OlderThanRest(old.run, n)
<1>1. /\ DOMAIN inPipe = 1..Len(inPipe) /\ DOMAIN out = 1..Len(out)
      /\ Len(out) \in Nat
  BY OutTypes
<1> QED
  BY <1>1 DEF InOrder, OlderThanRest

\* So is the run whose end marker was among those read.
LEMMA EndIsOlder ==
    ASSUME TypeOK, InOrder, NEW n \in 1..Len(out), NEW m \in 1..n, NEW k \in 1..runs,
           out[m] = Marker(k, "end")
    PROVE  OlderThanRest(k, n)
<1>1. /\ DOMAIN inPipe = 1..Len(inPipe) /\ DOMAIN out = 1..Len(out)
      /\ Len(out) \in Nat /\ m \in 1..Len(out)
  BY OutTypes
<1>2. out[m].run = k /\ \A x : out[m] # Marker(x, "start")
  BY DEF Marker
<1>3. \A j \in 1..Len(inPipe) : inPipe[j] # Cut => k < inPipe[j]
  BY <1>1, <1>2 DEF InOrder
<1>4. running # 0 => k < running
  BY <1>1, <1>2 DEF InOrder
<1>5. ASSUME NEW j \in (n + 1)..Len(out)
      PROVE  k < out[j].run
  <2>1. j \in 1..Len(out) /\ m \in 1..(j - 1)
    BY <1>1
  <2> QED
    BY <2>1, <1>1, <1>2 DEF InOrder
<1>6. k <= runs
  BY OutTypes
<1> QED
  BY <1>3, <1>4, <1>5, <1>6 DEF OlderThanRest

\* Reading markers leaves the rest paired and in order.
LEMMA RestKept ==
    ASSUME TypeOK, OutputPaired, InOrder,
           NEW n \in 1..Len(out), out' = SubSeq(out, n + 1, Len(out)),
           UNCHANGED <<inPipe, running, started, runs, sandbox>>,
           \A new \in told'.expanded : OlderThanRest(new.run, n)
    PROVE  OutputPaired' /\ InOrder'
<1>0. Len(out) \in Nat
  BY OutTypes
<1>00. PICK l \in Nat : l = Len(out) - n
  BY <1>0
<1>1. /\ Len(out') = l /\ DOMAIN out' = 1..l
      /\ \A i \in 1..l : out'[i] = out[n + i]
  BY <1>00, OutTypes, ReadProperties
<1>2. /\ DOMAIN inPipe = 1..Len(inPipe) /\ DOMAIN out = 1..Len(out)
      /\ Len(out) \in Nat /\ l = Len(out) - n
  BY <1>00, OutTypes
<1>3. OutputPaired'
  <2>1. ASSUME NEW i \in 1..(l - 1), out'[i].part = "start"
        PROVE  out'[i + 1] = Marker(out'[i].run, "end")
    <3>1. /\ i \in 1..l /\ i + 1 \in 1..l /\ n + i \in 1..(Len(out) - 1)
          /\ n + (i + 1) = (n + i) + 1
      BY <1>0, <1>00
    <3>2. out[(n + i) + 1] = Marker(out[n + i].run, "end")
      BY <2>1, <3>1, <1>1 DEF OutputPaired
    <3> QED
      BY <3>1, <3>2, <1>1
  <2>2. ASSUME sandbox, out' # <<>>, out'[l].part = "start"
        PROVE  started /\ running = out'[l].run
    <3>1. l # 0
      BY <2>2, <1>1
    <3>2. l \in 1..l /\ n + l = Len(out) /\ Len(out) # 0
      BY <3>1, <1>0, <1>00
    <3>3. out'[l] = out[Len(out)] /\ out # <<>>
      BY <3>2, <1>1
    <3> QED
      BY <2>2, <3>3 DEF OutputPaired
  <2> QED
    BY <2>1, <2>2, <1>1 DEF OutputPaired, Marker
<1>4. ASSUME NEW j \in 1..Len(inPipe), inPipe[j] # Cut
      PROVE  /\ inPipe[j] <= runs
             /\ \A i \in 1..(j - 1) : inPipe[i] < inPipe[j]
             /\ running < inPipe[j]
             /\ \A i \in 1..l : out'[i].run < inPipe[j]
             /\ \A new \in told'.expanded : new.run < inPipe[j]
  <2>1. \A i \in 1..l : n + i \in 1..Len(out)
    BY <1>0, <1>00
  <2> QED
    BY <1>1, <1>2, <1>4, <2>1 DEF InOrder, OlderThanRest
<1>5. ASSUME running # 0
      PROVE  /\ running <= runs
             /\ \A i \in 1..l : out'[i].run < running \/ out'[i] = Marker(running, "start")
             /\ \A new \in told'.expanded : new.run < running
  <2>1. \A i \in 1..l : n + i \in 1..Len(out)
    BY <1>0, <1>00
  <2> QED
    BY <1>1, <1>2, <1>5, <2>1 DEF InOrder, OlderThanRest
<1>6. ASSUME NEW j \in 1..l
      PROVE  /\ out'[j].run <= runs
             /\ \A i \in 1..(j - 1) :
                   out'[i].run < out'[j].run \/ out'[i] = Marker(out'[j].run, "start")
             /\ \A new \in told'.expanded : new.run < out'[j].run
  <2>1. /\ n + j \in 1..Len(out) /\ n + j \in (n + 1)..Len(out)
        /\ \A i \in 1..(j - 1) : n + i \in 1..((n + j) - 1) /\ i \in 1..l
    BY <1>0, <1>00
  <2>2. PICK m \in 1..Len(out) : m = n + j /\ m \in (n + 1)..Len(out)
    BY <2>1
  <2>3. /\ out'[j] = out[m]
        /\ \A i \in 1..(j - 1) : n + i \in 1..(m - 1) /\ out'[i] = out[n + i]
    BY <1>1, <2>1, <2>2
  <2>4. /\ out[m].run <= runs
        /\ \A i \in 1..(m - 1) : out[i].run < out[m].run \/ out[i] = Marker(out[m].run, "start")
    BY <1>2 DEF InOrder
  <2>5. \A new \in told'.expanded : new.run < out[m].run
    BY <2>2 DEF OlderThanRest
  <2> QED BY <2>3, <2>4, <2>5
<1>7. /\ DOMAIN inPipe' = 1..Len(inPipe) /\ inPipe' = inPipe /\ running' = running /\ runs' = runs
  BY <1>2
<1>8. \A new \in told'.expanded : new.run <= runs
  BY DEF OlderThanRest
<1>9. InOrder'
  BY <1>1, <1>4, <1>5, <1>6, <1>7, <1>8, ZenonT(60) DEF InOrder, Marker, Cut
<1> QED
  BY <1>3, <1>9

\* FindEnd goes on searching with all it read, or sends what comes before the
\* first end marker, and that.
LEMMA FindEndEffect ==
    ASSUME TypeOK, NEW d, NEW b \in Seq(Markers), FindEnd(d, b)
    PROVE  \/ /\ \A i \in 1..Len(b) : b[i].part # "end"
              /\ pc' = "find_end" /\ frame' = d \cup ToSet(b) /\ told' = told
           \/ /\ pc' # "find_end"
              /\ \E m \in 1..Len(b) :
                    /\ b[m].part = "end" /\ \A i \in 1..Len(b) : b[i].part = "end" => m <= i
                    /\ told' \in {told, [told EXCEPT !.expanded =
                                          d \cup ToSet(SubSeq(b, 1, m))]}
<1>1. CASE Positions(b, "end") = {}
  <2>1. \A i \in 1..Len(b) : b[i].part # "end"
    BY <1>1 DEF Positions
  <2> QED
    BY <1>1, <2>1 DEF FindEnd
<1>2. CASE Positions(b, "end") # {}
  <2> DEFINE m == Min(Positions(b, "end"))
             t == [told EXCEPT !.expanded = d \cup ToSet(SubSeq(b, 1, m))]
  <2>1. /\ m \in 1..Len(b) /\ b[m].part = "end"
        /\ \A i \in 1..Len(b) : b[i].part = "end" => m <= i
    BY <1>2, FirstPosition
  <2>2. put_param_wrapped(enabled, t, "handle") \/ (pc' = "exited" /\ told' = told)
    BY <1>2 DEF FindEnd, SendExpansion, clean_fail
  <2> HIDE DEF t
  <2>3. told' \in {told, t} /\ pc' # "find_end"
    BY <2>2, PutProperties
  <2> QED
    BY <2>1, <2>3 DEF t
<1> QED
  BY <1>1, <1>2

\* The sets of markers of one and of two.
LEMMA SmallOutputs ==
    ASSUME NEW b \in Seq(Markers)
    PROVE  /\ Len(b) = 1 => ToSet(b) = {b[1]}
           /\ Len(b) = 2 => ToSet(b) = {b[1], b[2]}
<1>1. DOMAIN b = 1..Len(b) /\ ToSet(b) = {b[i] : i \in DOMAIN b}
  BY DEF ToSet
<1>2. 1..1 = {1} /\ 1..2 = {1, 2}
  OBVIOUS
<1> QED
  BY <1>1, <1>2

\* What reading n markers sends, if anything, is the output of one run, whose
\* end was among them; if a search for an end goes on, the last marker read is
\* the start.
LEMMA Found ==
    ASSUME TypeOK, OutputPaired, HalfRead, InOrder,
           NEW n \in 1..Len(out),
           \/ FindStart(SubSeq(out, 1, n))
           \/ pc = "find_end" /\ FindEnd(frame, SubSeq(out, 1, n))
    PROVE  \/ /\ told' = told
              /\ pc' = "find_end" =>
                    \E k \in 1..runs : /\ out[n] = Marker(k, "start")
                                       /\ frame' = {Marker(k, "start")}
           \/ /\ pc' # "find_end"
              /\ \E k \in 1..runs :
                    /\ \E m \in 1..n : out[m] = Marker(k, "end")
                    /\ \A old \in told.expanded : old.run < k
                    /\ told' = [told EXCEPT !.expanded = Output(k)]
<1> DEFINE buf == SubSeq(out, 1, n)
<1>1. /\ buf \in Seq(Markers) /\ Len(buf) = n
      /\ \A i \in 1..n : buf[i] = out[i]
  BY ReadProperties, OutTypes
<1>2. Len(out) \in Nat /\ n \in Nat
  BY OutTypes
<1>3. ASSUME NEW i \in 1..n
      PROVE  out[i] \in Markers /\ out[i].run \in 1..runs
  <2>1. i \in 1..Len(out) /\ DOMAIN out = 1..Len(out)
    BY <1>2, OutTypes
  <2>2. out[i] \in Markers /\ out[i].run \in 1..MaxRuns /\ runs \in 0..MaxRuns /\ MaxRuns \in Nat
    BY <2>1, OutTypes
  <2>3. out[i].run <= runs
    BY <2>1 DEF InOrder
  <2> QED
    BY <2>2, <2>3
<1>4. CASE pc = "find_end" /\ FindEnd(frame, buf)
  <2>1. PICK k \in 1..runs :
           /\ frame = {Marker(k, "start")}
           /\ \A old \in told.expanded : old.run < k
           /\ out # <<>> => out[1] = Marker(k, "end")
    BY <1>4 DEF HalfRead
  <2>2. out # <<>> /\ 1 \in 1..n /\ 1 \in 1..Len(buf)
    BY <1>1, <1>2
  <2>3. buf[1] = Marker(k, "end") /\ buf[1].part = "end" /\ out[1] = Marker(k, "end")
    BY <1>1, <2>1, <2>2 DEF Marker
  <2>4. ASSUME NEW m \in 1..Len(buf), \A i \in 1..Len(buf) : buf[i].part = "end" => m <= i
        PROVE  m = 1
    BY <2>2, <2>3, <2>4, <1>1, <1>2
  <2>5. frame \cup ToSet(SubSeq(buf, 1, 1)) = Output(k)
    <3>1. 1 \in 0..Len(buf) /\ 1 \in 1..1
      BY <2>2
    <3>2. SubSeq(buf, 1, 1) \in Seq(Markers) /\ Len(SubSeq(buf, 1, 1)) = 1
          /\ SubSeq(buf, 1, 1)[1] = buf[1]
      BY <1>1, <3>1, ReadProperties
    <3> QED
      BY <2>1, <2>3, <3>2, SmallOutputs, OutputMarkers
  <2> HIDE DEF buf
  <2>6. pc' # "find_end" /\ told' \in {told, [told EXCEPT !.expanded = Output(k)]}
    <3>1. ~ \A i \in 1..Len(buf) : buf[i].part # "end"
      BY <2>2, <2>3
    <3>2. pc' # "find_end"
      BY <1>1, <1>4, <3>1, FindEndEffect
    <3>3. PICK m \in 1..Len(buf) :
             /\ \A i \in 1..Len(buf) : buf[i].part = "end" => m <= i
             /\ told' \in {told, [told EXCEPT !.expanded =
                                  frame \cup ToSet(SubSeq(buf, 1, m))]}
      BY <1>1, <1>4, <3>1, FindEndEffect
    <3>4. m = 1
      BY <2>4, <3>3
    <3> QED
      BY <2>5, <3>2, <3>3, <3>4
  <2> QED
    BY <2>1, <2>2, <2>3, <2>6
<1>5. CASE FindStart(buf)
  <2>1. CASE Positions(buf, "start") = {}
    BY <1>5, <2>1 DEF FindStart
  <2>2. CASE Positions(buf, "start") # {}
    <3> DEFINE s == Min(Positions(buf, "start"))
               b == SubSeq(buf, s, Len(buf))
               k == out[s].run
    <3>1. s \in 1..n /\ out[s].part = "start"
      BY <1>1, <2>2, FirstPosition
    <3>2. FindEnd({}, b)
      BY <1>5, <2>2 DEF FindStart
    <3> HIDE DEF s
    <3>3. /\ b \in Seq(Markers) /\ Len(b) = n - s + 1
          /\ \A i \in 1..(n - s + 1) : b[i] = out[s + i - 1]
      <4>1. s \in 1..Len(buf)
        BY <1>1, <3>1
      <4>2. /\ b \in Seq(Markers) /\ Len(b) = Len(buf) - s + 1
            /\ \A i \in 1..(Len(buf) - s + 1) : b[i] = buf[s + i - 1]
        BY <1>1, <4>1, SuffixProperties
      <4>3. \A i \in 1..(n - s + 1) : s + i - 1 \in 1..n
        BY <3>1, <1>2
      <4> QED
        BY <4>2, <4>3, <1>1
    <3> HIDE DEF b, buf
    <3>4. /\ out[s] = Marker(k, "start") /\ k \in 1..runs /\ b[1] = Marker(k, "start")
          /\ b[1].part # "end"
      <4>1. out[s] = Marker(k, "start") /\ k \in 1..runs
        BY <1>3, <3>1, MarkerParts
      <4>2. 1 \in 1..(n - s + 1) /\ s + 1 - 1 = s
        BY <3>1, <1>2
      <4>3. b[1] = out[s]
        BY <3>3, <4>2
      <4> QED
        BY <3>1, <4>1, <4>3
    <3>5. \A old \in told.expanded : old.run < k
      <4>1. s \in DOMAIN out
        BY <1>2, <3>1, OutTypes
      <4> QED
        BY <4>1 DEF InOrder
    <3>6. CASE s = n
      <4>1. Len(b) = 1 /\ \A i \in 1..Len(b) : i = 1
        BY <3>3, <3>6, <1>2
      <4>2. ToSet(b) = {Marker(k, "start")}
        BY <3>3, <3>4, <4>1, SmallOutputs
      <4>3. \A m \in 1..Len(b) : b[m].part # "end"
        BY <3>4, <4>1
      <4>4. pc' = "find_end" /\ frame' = {Marker(k, "start")} /\ told' = told
        BY <3>2, <3>3, <4>2, <4>3, FindEndEffect
      <4> QED
        BY <3>4, <3>6, <4>4
    <3>7. CASE s # n
      <4>1. /\ s \in 1..(Len(out) - 1) /\ s + 1 \in 1..n
            /\ 2 \in 1..(n - s + 1) /\ s + 2 - 1 = s + 1 /\ 2 \in 0..Len(b)
        BY <3>1, <3>3, <3>7, <1>2
      <4>2. out[s + 1] = Marker(k, "end")
        BY <3>1, <4>1 DEF OutputPaired
      <4>3. b[2] = Marker(k, "end") /\ b[2].part = "end"
        BY <3>3, <4>1, <4>2 DEF Marker
      <4>4. ASSUME NEW m \in 1..Len(b), b[m].part = "end",
                   \A i \in 1..Len(b) : b[i].part = "end" => m <= i
            PROVE  m = 2
        <5>1. 2 \in 1..Len(b) /\ m # 1
          BY <3>3, <3>4, <4>1, <4>4
        <5>2. m <= 2
          BY <4>3, <4>4, <5>1
        <5> QED
          BY <5>1, <5>2
      <4>5. ToSet(SubSeq(b, 1, 2)) = Output(k)
        <5>1. /\ SubSeq(b, 1, 2) \in Seq(Markers) /\ Len(SubSeq(b, 1, 2)) = 2
              /\ SubSeq(b, 1, 2)[1] = b[1] /\ SubSeq(b, 1, 2)[2] = b[2]
          BY <3>3, <4>1, ReadProperties
        <5> QED
          BY <3>4, <4>3, <5>1, SmallOutputs, OutputMarkers
      <4>6. ~ \A i \in 1..Len(b) : b[i].part # "end"
        BY <3>3, <4>1, <4>3
      <4>7. pc' # "find_end"
        BY <3>2, <3>3, <4>6, FindEndEffect
      <4>8. PICK m \in 1..Len(b) :
               /\ b[m].part = "end" /\ \A i \in 1..Len(b) : b[i].part = "end" => m <= i
               /\ told' \in {told, [told EXCEPT !.expanded =
                                    {} \cup ToSet(SubSeq(b, 1, m))]}
        BY <3>2, <3>3, <4>6, FindEndEffect
      <4>9. m = 2
        BY <4>4, <4>8
      <4>10. told' \in {told, [told EXCEPT !.expanded = Output(k)]}
        BY <4>5, <4>8, <4>9
      <4> QED
        BY <3>4, <3>5, <4>1, <4>2, <4>7, <4>10
    <3> QED
      BY <3>6, <3>7
  <2> QED
    BY <2>1, <2>2
<1> QED
  BY <1>4, <1>5

\* The part of the inductive invariant about them.
Stream == OutputPaired /\ HalfRead /\ InOrder /\ WholeExpansions

\* What a step sends is newer than what was sent, and its command line was sent.
SendsInOrder ==
    told'.expanded # told.expanded =>
        \A new \in told'.expanded :
           /\ new.run <= told.cmd
           /\ \A old \in told.expanded : old.run < new.run

\* A step that leaves the sandbox, its pipes and the expansion alone.
LEMMA StreamUntouched ==
    ASSUME Stream, UNCHANGED <<inPipe, running, started, sandbox, out, runs>>,
           told'.expanded = told.expanded,
           pc' = "find_end" => pc = "find_end" /\ frame' = frame
    PROVE  Stream' /\ SendsInOrder
<1>1. OutputPaired' /\ WholeExpansions'
  BY DEF Stream, OutputPaired, WholeExpansions, Marker, Output
<1>2. HalfRead'
  BY DEF Stream, HalfRead, Marker
<1>3. InOrder'
  BY DEF Stream, InOrder, Marker
<1> QED
  BY <1>1, <1>2, <1>3 DEF Stream, SendsInOrder

\* Reading the sandbox's output.
LEMMA StreamRead ==
    ASSUME TypeOK, SentSoFar, Stream, ProcessSandbox \/ ReadOn
    PROVE  Stream' /\ SendsInOrder
<1>1. UNCHANGED <<inPipe, running, started, sandbox, runs>> /\ pc # "exited"
  BY DEF ProcessSandbox, ReadOn, Handles, Turn
<1>2. CASE SandboxEOF /\ frame' = frame
  <2>1. out' = out /\ told' = told /\ pc' = "handle"
    BY <1>2 DEF SandboxEOF
  <2> QED
    BY <1>1, <1>2, <2>1, StreamUntouched
<1>3. ASSUME NEW n \in 1..Len(out), out' = SubSeq(out, n + 1, Len(out)),
             \/ pc' = "handle" /\ told' = told
             \/ FindStart(SubSeq(out, 1, n))
             \/ pc = "find_end" /\ FindEnd(frame, SubSeq(out, 1, n))
      PROVE  Stream' /\ SendsInOrder
  <2>1. OutputPaired /\ HalfRead /\ InOrder /\ WholeExpansions
    BY DEF Stream
  <2>2. /\ Len(out) \in Nat /\ n \in 0..Len(out)
        /\ Len(out') = Len(out) - n /\ out' \in Seq(Markers)
        /\ \A i \in 1..(Len(out) - n) : out'[i] = out[n + i]
    BY <1>3, OutTypes, ReadProperties, SMTT(30)
  <2>3. CASE /\ told' = told
             /\ pc' = "find_end" =>
                   \E k \in 1..runs : /\ out[n] = Marker(k, "start")
                                      /\ frame' = {Marker(k, "start")}
    <3>1. \A new \in told'.expanded : OlderThanRest(new.run, n)
      BY <2>1, <2>2, <2>3, OldIsOlder
    <3>2. OutputPaired' /\ InOrder'
      BY <1>1, <1>3, <2>1, <3>1, RestKept
    <3>3. ASSUME pc' = "find_end"
          PROVE  \E k \in 1..runs :
                    /\ frame' = {Marker(k, "start")}
                    /\ \A old \in told.expanded : old.run < k
                    /\ out' # <<>> => out'[1] = Marker(k, "end")
                    /\ (out' = <<>> /\ sandbox) => started /\ running = k
      <4>1. PICK k \in 1..runs : out[n] = Marker(k, "start") /\ frame' = {Marker(k, "start")}
        BY <2>3, <3>3
      <4>2. out[n].part = "start" /\ out[n].run = k
        BY <4>1 DEF Marker
      <4>3. n \in DOMAIN out /\ out # <<>>
        BY <2>2, OutTypes
      <4>4. \A old \in told.expanded : old.run < k
        BY <2>1, <4>2, <4>3 DEF InOrder
      <4>5. ASSUME out' # <<>>
            PROVE  out'[1] = Marker(k, "end")
        <5>1. Len(out') # 0
          BY <2>2, <4>5
        <5>2. n \in 1..(Len(out) - 1) /\ 1 \in 1..(Len(out) - n)
          BY <2>2, <5>1
        <5> QED
          BY <2>1, <2>2, <4>2, <5>2 DEF OutputPaired
      <4>6. ASSUME out' = <<>>, sandbox
            PROVE  started /\ running = k
        <5>1. Len(out') = 0
          BY <4>6
        <5>2. n = Len(out)
          BY <2>2, <5>1
        <5> QED
          BY <2>1, <4>2, <4>3, <4>6, <5>2 DEF OutputPaired
      <4> QED
        BY <4>1, <4>4, <4>5, <4>6
    <3>4. HalfRead'
      BY <1>1, <2>3, <3>3 DEF HalfRead, Marker
    <3> QED
      BY <2>1, <2>3, <3>2, <3>4 DEF Stream, WholeExpansions, Output, SendsInOrder
  <2>4. ASSUME NEW k \in 1..runs, NEW m \in 1..n, out[m] = Marker(k, "end"),
               pc' # "find_end", \A old \in told.expanded : old.run < k,
               told' = [told EXCEPT !.expanded = Output(k)]
        PROVE  Stream' /\ SendsInOrder
    <3>1. told'.expanded = Output(k)
      BY <2>4 DEF TypeOK, SentTypes
    <3>2. \A new \in Output(k) : new.run = k
      BY DEF Output
    <3>3. OlderThanRest(k, n)
      BY <2>1, <2>4, EndIsOlder
    <3>4. \A new \in told'.expanded : OlderThanRest(new.run, n)
      BY <3>1, <3>2, <3>3
    <3>5. OutputPaired' /\ InOrder'
      BY <1>1, <1>3, <2>1, <3>4, RestKept
    <3>6. HalfRead'
      BY <2>4 DEF HalfRead
    <3>7. k \in Runs /\ k <= runs
      BY OutTypes DEF Runs
    <3>8. WholeExpansions'
      BY <3>1, <3>7 DEF WholeExpansions, Output, Runs
    <3>9. told' # told => told.cmd = runs
      <4>1. told' # told => enabled /\ vgd
        <5>1. ASSUME NEW d, NEW b, FindEnd(d, b)
              PROVE  told' # told => enabled /\ vgd
          BY <5>1 DEF FindEnd, SendExpansion, put_param_wrapped
        <5> QED
          BY <1>3, <5>1 DEF FindStart
      <4> QED
        BY <1>1, <4>1 DEF SentSoFar
    <3>10. SendsInOrder
      BY <2>4, <3>1, <3>2, <3>7, <3>9 DEF SendsInOrder
    <3> QED
      BY <3>5, <3>6, <3>8, <3>10 DEF Stream
  <2> QED
    BY <1>3, <2>1, <2>3, <2>4, Found
<1>4. ProcessSandbox /\ pc' = pc => pc' = "handle"
  BY DEF ProcessSandbox, Handles, Turn
<1> QED
  BY <1>2, <1>3, <1>4 DEF ProcessSandbox, ReadOn

\* A new command is newer than everything on its way.
LEMMA StreamWrite ==
    ASSUME TypeOK, RunLeft, Stream, call_vgexpand
    PROVE  Stream' /\ SendsInOrder
<1>1. /\ UNCHANGED <<running, started, sandbox, out, frame>> /\ pc' # "find_end"
      /\ runs' = runs + 1
      /\ inPipe' = inPipe \/ \E k \in {runs', Cut} : inPipe' = Append(inPipe, k)
  BY PutProperties DEF call_vgexpand
<1>2. told'.expanded = told.expanded
  <2> DEFINE t == [told EXCEPT !.cmd = runs']
  <2>1. put_param_wrapped(enabled', t, "act")
    BY DEF call_vgexpand
  <2>2. t.expanded = told.expanded
    BY DEF TypeOK, SentTypes
  <2> HIDE DEF t
  <2> QED
    BY <2>1, <2>2, PutProperties
<1>3. /\ MaxRuns \in Nat /\ runs \in 0..MaxRuns /\ running \in 0..MaxRuns
      /\ DOMAIN inPipe = 1..Len(inPipe) /\ Len(inPipe) \in Nat
      /\ DOMAIN out = 1..Len(out)
      /\ \A j \in 1..Len(inPipe) : inPipe[j] \in 0..MaxRuns
  BY OutTypes
<1>4. runs < MaxRuns
  BY DEF RunLeft, call_vgexpand
<1>5. OutputPaired' /\ WholeExpansions' /\ HalfRead'
  BY <1>1, <1>2 DEF Stream, OutputPaired, WholeExpansions, HalfRead, Marker, Output
<1>6. /\ \A j \in DOMAIN inPipe : inPipe[j] <= runs
      /\ running <= runs
      /\ \A i \in DOMAIN out : out[i].run <= runs /\ out[i].run \in Nat
      /\ \A old \in told.expanded : old.run <= runs /\ old.run \in Nat
  <2>1. \A j \in DOMAIN inPipe : inPipe[j] <= runs
    BY <1>3 DEF Stream, InOrder, Cut
  <2>2. running <= runs
    BY <1>3 DEF Stream, InOrder
  <2>3. \A i \in DOMAIN out : out[i].run <= runs /\ out[i].run \in Nat
    BY <1>3, OutTypes DEF Stream, InOrder
  <2>4. \A old \in told.expanded : old.run <= runs /\ old.run \in Nat
    <3>1. told.expanded \subseteq Markers
      BY DEF TypeOK, SentTypes
    <3>2. \A old \in told.expanded : old.run \in Nat
      BY <1>3, <3>1, MarkerParts DEF Runs
    <3> QED
      BY <3>2 DEF Stream, InOrder
  <2> QED
    BY <2>1, <2>2, <2>3, <2>4
<1>7. CASE inPipe' = inPipe
  BY <1>1, <1>2, <1>3, <1>5, <1>6, <1>7 DEF Stream, InOrder, SendsInOrder, Marker, Cut
<1>8. ASSUME NEW k \in {runs', Cut}, inPipe' = Append(inPipe, k)
      PROVE  Stream' /\ SendsInOrder
  <2> DEFINE l == Len(inPipe)
  <2>1. /\ DOMAIN inPipe' = 1..(l + 1) /\ l \in Nat /\ DOMAIN inPipe = 1..l
        /\ \A j \in 1..l : inPipe'[j] = inPipe[j] /\ inPipe[j] <= runs /\ inPipe[j] \in Nat
        /\ inPipe'[l + 1] = k
    <3>1. runs' \in 0..MaxRuns
      BY <1>1, <1>3, <1>4
    <3>2. Cut \in 0..MaxRuns
      BY <1>3 DEF Cut
    <3> QED
      BY <1>3, <1>6, <1>8, <3>1, <3>2, OutTypes, AppendProperties
  <2> HIDE DEF l
  <2>2. runs' = runs + 1 /\ runs \in Nat
    BY <1>1, <1>3
  <2>3. ASSUME NEW j \in 1..(l + 1), inPipe'[j] # Cut
        PROVE  /\ inPipe'[j] <= runs'
               /\ \A i \in 1..(j - 1) : inPipe'[i] < inPipe'[j]
               /\ running < inPipe'[j]
               /\ \A i \in DOMAIN out : out[i].run < inPipe'[j]
               /\ \A old \in told.expanded : old.run < inPipe'[j]
    <3>1. CASE j \in 1..l
      <4>1. \A i \in 1..(j - 1) : i \in 1..l
        BY <2>1, <3>1
      <4>2. /\ inPipe'[j] = inPipe[j] /\ inPipe[j] <= runs /\ inPipe[j] \in Nat
            /\ \A i \in 1..(j - 1) : inPipe'[i] = inPipe[i]
        BY <2>1, <3>1, <4>1
      <4>3. inPipe'[j] <= runs'
        BY <2>2, <4>2
      <4> QED
        BY <2>1, <2>3, <3>1, <4>2, <4>3 DEF Stream, InOrder
    <3>2. CASE j = l + 1
      <4>1. inPipe'[j] = runs + 1
        BY <2>1, <2>2, <2>3, <3>2, <1>8
      <4>2. \A i \in 1..(j - 1) : i \in 1..l
        BY <2>1, <3>2
      <4>3. \A i \in 1..(j - 1) : inPipe'[i] <= runs /\ inPipe'[i] \in Nat
        BY <2>1, <4>2
      <4>4. running \in Nat
        BY <1>3
      <4> QED
        BY <2>2, <4>1, <4>3, <4>4, <1>6
    <3>3. j \in 1..l \/ j = l + 1
      BY <2>1
    <3> QED
      BY <3>1, <3>2, <3>3
  <2>4. running <= runs' /\ \A j \in DOMAIN out : out[j].run <= runs'
    BY <2>2, <1>3, <1>6
  <2>5. \A old \in told.expanded : old.run <= runs'
    BY <2>2, <1>6
  <2>6. InOrder'
    BY <1>1, <1>2, <2>1, <2>3, <2>4, <2>5 DEF Stream, InOrder, Marker, Cut
  <2> QED
    BY <1>2, <1>5, <2>6 DEF Stream, SendsInOrder
<1> QED
  BY <1>1, <1>7, <1>8

\* The sandbox takes up the next command only when the output of the last one
\* is complete.
LEMMA StreamTake ==
    ASSUME TypeOK, Stream, TakeCommand
    PROVE  Stream'
<1>1. /\ UNCHANGED <<started, sandbox, out, frame, runs, told, pc>> /\ sandbox
      /\ running = 0 /\ inPipe # <<>> /\ inPipe' = Tail(inPipe)
      /\ running' = 0 \/ (running' = Head(inPipe) /\ Head(inPipe) # Cut)
  BY DEF TakeCommand, SandboxStep, sentVars, loopVars
<1>2. PICK l \in Nat : l = Len(inPipe) - 1
  <2>1. Len(inPipe) \in Nat /\ Len(inPipe) # 0
    BY <1>1, OutTypes
  <2> QED
    BY <2>1
<1>3. /\ DOMAIN inPipe = 1..(l + 1) /\ DOMAIN inPipe' = 1..l
      /\ \A j \in 1..l : inPipe'[j] = inPipe[j + 1]
      /\ Head(inPipe) = inPipe[1]
      /\ \A j \in 1..(l + 1) : inPipe[j] \in 0..MaxRuns
  BY <1>1, <1>2, OutTypes, HeadTailProperties
<1>4. /\ out # <<>> => out[Len(out)].part # "start"
      /\ pc = "find_end" => out # <<>>
  <2>1. \A i \in DOMAIN out : out[i].run # 0
    BY OutTypes
  <2>2. out # <<>> => Len(out) \in DOMAIN out
    BY OutTypes
  <2>3. \A k \in 1..runs : k # 0
    BY OutTypes
  <2> QED
    BY <1>1, <2>1, <2>2, <2>3 DEF Stream, OutputPaired, HalfRead
<1>5. OutputPaired' /\ WholeExpansions' /\ HalfRead'
  BY <1>1, <1>4 DEF Stream, OutputPaired, WholeExpansions, HalfRead, Marker, Output
<1>6. ASSUME NEW j \in 1..l, inPipe'[j] # Cut
      PROVE  /\ inPipe'[j] <= runs
             /\ \A i \in 1..(j - 1) : inPipe'[i] < inPipe'[j]
             /\ running' < inPipe'[j]
             /\ \A i \in DOMAIN out : out[i].run < inPipe'[j]
             /\ \A old \in told.expanded : old.run < inPipe'[j]
  <2>1. /\ j + 1 \in 1..(l + 1) /\ 1 \in 1..((j + 1) - 1) /\ inPipe'[j] = inPipe[j + 1]
        /\ \A i \in 1..(j - 1) : i + 1 \in 1..((j + 1) - 1) /\ i \in 1..l
    BY <1>3
  <2>2. \A i \in 1..((j + 1) - 1) : inPipe[i] < inPipe'[j]
    BY <1>3, <1>6, <2>1 DEF Stream, InOrder
  <2>3. running' < inPipe'[j]
    BY <1>1, <1>3, <1>6, <2>1, <2>2 DEF Stream, InOrder
  <2>4. \A i \in 1..(j - 1) : inPipe'[i] < inPipe'[j]
    BY <1>3, <2>1, <2>2
  <2> QED
    BY <1>3, <1>6, <2>1, <2>3, <2>4 DEF Stream, InOrder
<1>7. ASSUME running' # 0
      PROVE  /\ running' <= runs
             /\ \A i \in DOMAIN out : out[i].run < running'
             /\ \A old \in told.expanded : old.run < running'
  <2>1. running' = inPipe[1] /\ inPipe[1] # Cut /\ 1 \in DOMAIN inPipe
    BY <1>1, <1>3, <1>7
  <2> QED
    BY <2>1 DEF Stream, InOrder
<1>8. InOrder'
  BY <1>1, <1>3, <1>6, <1>7 DEF Stream, InOrder, Marker, Cut
<1> QED
  BY <1>5, <1>8 DEF Stream

\* The marker printed is the one that was due.
LEMMA StreamPrint ==
    ASSUME TypeOK, Stream, PrintMarker
    PROVE  Stream'
<1> DEFINE p == IF started THEN "end" ELSE "start"
<1>1. /\ UNCHANGED <<sandbox, inPipe, frame, runs, told, pc>> /\ sandbox
      /\ running # 0 /\ out' = Append(out, Marker(running, p))
      /\ running' = IF started THEN 0 ELSE running
  BY DEF PrintMarker, SandboxStep, sentVars, loopVars, Marker
<1>2. started' = ~started /\ started \in BOOLEAN
  BY DEF PrintMarker, TypeOK, SandboxTypes
<1>3. PICK l \in Nat : l = Len(out)
  BY OutTypes
<1>4. running \in 1..MaxRuns
  BY <1>1, OutTypes
<1>5. /\ DOMAIN out = 1..l /\ DOMAIN out' = 1..(l + 1) /\ Len(out') = l + 1
      /\ \A i \in 1..l : out'[i] = out[i]
      /\ out'[l + 1] = Marker(running, p)
      /\ out' # <<>>
  <2>1. Marker(running, p) \in Markers
    BY <1>4 DEF Marker, Markers, Runs
  <2> QED
    BY <1>1, <1>3, <2>1, OutTypes, AppendProperties
<1>6. out'[l + 1].run = running /\ out'[l + 1].part = p
  BY <1>5 DEF Marker
<1>7. \A k : Marker(k, "start").part = "start" /\ Marker(k, "end").part = "end"
             /\ Marker(k, "start").run = k
  BY DEF Marker
<1>8. OutputPaired'
  <2>1. ASSUME NEW i \in 1..l, out'[i].part = "start"
        PROVE  out'[i + 1] = Marker(out'[i].run, "end")
    <3>1. CASE i = l
      <4>1. out # <<>> /\ out[l].part = "start"
        BY <1>3, <1>5, <2>1, <3>1
      <4>2. started /\ running = out[l].run
        BY <1>1, <1>3, <4>1 DEF Stream, OutputPaired
      <4> QED
        BY <1>5, <3>1, <4>2
    <3>2. CASE i # l
      <4>1. i \in 1..(l - 1) /\ i + 1 \in 1..l
        BY <3>2
      <4> QED
        BY <1>3, <1>5, <2>1, <4>1 DEF Stream, OutputPaired
    <3> QED
      BY <3>1, <3>2
  <2>2. ASSUME p = "start"
        PROVE  started' /\ running' = out'[l + 1].run
    BY <1>1, <1>2, <1>6, <2>2
  <2>3. (l + 1) - 1 = l
    OBVIOUS
  <2> QED
    BY <1>5, <1>6, <2>1, <2>2, <2>3 DEF OutputPaired, Marker
<1>9. HalfRead'
  <2>1. ASSUME pc = "find_end"
        PROVE  \E k \in 1..runs :
                  /\ frame = {Marker(k, "start")}
                  /\ \A old \in told.expanded : old.run < k
                  /\ out'[1] = Marker(k, "end")
    <3>1. PICK k \in 1..runs :
             /\ frame = {Marker(k, "start")}
             /\ \A old \in told.expanded : old.run < k
             /\ out # <<>> => out[1] = Marker(k, "end")
             /\ out = <<>> => started /\ running = k
      BY <1>1, <2>1 DEF Stream, HalfRead
    <3>2. CASE out = <<>>
      BY <1>3, <1>5, <3>1, <3>2
    <3>3. CASE out # <<>>
      <4>1. 1 \in 1..l
        BY <1>3, <3>3, OutTypes
      <4> QED
        BY <1>5, <3>1, <3>3, <4>1
    <3> QED
      BY <3>1, <3>2, <3>3
  <2> QED
    BY <1>1, <1>5, <2>1 DEF HalfRead, Marker
<1>10. ASSUME NEW j \in DOMAIN inPipe, inPipe[j] # Cut
       PROVE  /\ inPipe[j] <= runs
              /\ \A i \in 1..(j - 1) : inPipe[i] < inPipe[j]
              /\ running' < inPipe[j]
              /\ \A i \in 1..(l + 1) : out'[i].run < inPipe[j]
              /\ \A old \in told.expanded : old.run < inPipe[j]
  <2>1. running < inPipe[j] /\ \A i \in 1..l : out'[i].run < inPipe[j]
    BY <1>5, <1>10 DEF Stream, InOrder
  <2>2. \A i \in 1..(l + 1) : out'[i].run < inPipe[j]
    <3>1. \A i \in 1..(l + 1) : i \in 1..l \/ i = l + 1
      OBVIOUS
    <3> QED
      BY <1>6, <2>1, <3>1
  <2>3. running' < inPipe[j]
    <3>1. inPipe[j] \in 0..MaxRuns /\ MaxRuns \in Nat
      BY OutTypes
    <3>2. 0 < inPipe[j]
      BY <1>10, <3>1 DEF Cut
    <3> QED
      BY <1>1, <2>1, <3>2
  <2> QED
    BY <1>10, <2>2, <2>3 DEF Stream, InOrder
<1>11. /\ running <= runs
       /\ \A i \in 1..l : out'[i].run < running \/ out'[i] = Marker(running, "start")
       /\ \A old \in told.expanded : old.run < running
  BY <1>1, <1>5 DEF Stream, InOrder
<1>12. ASSUME running' # 0
       PROVE  /\ running' <= runs
              /\ \A i \in 1..(l + 1) :
                    out'[i].run < running' \/ out'[i] = Marker(running', "start")
              /\ \A old \in told.expanded : old.run < running'
  <2>1. running' = running /\ p = "start"
    BY <1>1, <1>12
  <2>2. \A i \in 1..(l + 1) : i \in 1..l \/ i = l + 1
    OBVIOUS
  <2> QED
    BY <1>5, <1>11, <2>1, <2>2
<1>13. ASSUME NEW j \in 1..(l + 1)
       PROVE  /\ out'[j].run <= runs
              /\ \A i \in 1..(j - 1) :
                    out'[i].run < out'[j].run \/ out'[i] = Marker(out'[j].run, "start")
              /\ \A old \in told.expanded : old.run < out'[j].run
  <2>1. CASE j = l + 1
    <3>1. \A i \in 1..(j - 1) : i \in 1..l
      BY <2>1
    <3> QED
      BY <1>6, <1>11, <2>1, <3>1
  <2>2. CASE j # l + 1
    <3>1. j \in 1..l /\ \A i \in 1..(j - 1) : i \in 1..l
      BY <2>2
    <3>2. out'[j] = out[j] /\ \A i \in 1..(j - 1) : out'[i] = out[i]
      BY <1>5, <3>1
    <3> QED
      BY <1>5, <3>1, <3>2 DEF Stream, InOrder
  <2> QED
    BY <2>1, <2>2
<1>14. InOrder'
  <2> HIDE DEF p
  <2>1. \A old \in told.expanded : old.run <= runs
    BY DEF Stream, InOrder
  <2> QED
    BY <1>1, <1>5, <1>10, <1>12, <1>13, <2>1 DEF InOrder, Marker, Cut
<1>15. WholeExpansions'
  BY <1>1 DEF Stream, WholeExpansions, Output
<1> QED
  BY <1>8, <1>9, <1>14, <1>15 DEF Stream

\* A sandbox that has gone has nothing waiting and nothing running.
LEMMA StreamStops ==
    ASSUME TypeOK, Stream, SandboxExits \/ CdFails
    PROVE  Stream'
<1>1. /\ UNCHANGED <<out, frame, runs, told, pc, started>> /\ running' = 0
      /\ \/ inPipe' = <<>> /\ sandbox' = FALSE
         \/ inPipe' = inPipe /\ sandbox' = sandbox /\ ~started
  BY DEF SandboxExits, CdFails, SandboxStep, Happening, sentVars, loopVars
<1>2. OutputPaired' /\ WholeExpansions' /\ HalfRead'
  BY <1>1 DEF Stream, OutputPaired, WholeExpansions, HalfRead, Marker, Output
<1>3. \A j \in DOMAIN inPipe : inPipe[j] # Cut => running' < inPipe[j]
  <2>1. \A j \in DOMAIN inPipe : inPipe[j] \in Nat
    BY OutTypes
  <2> QED
    BY <1>1, <2>1 DEF Cut
<1>4. DOMAIN inPipe' = {} \/ inPipe' = inPipe
  BY <1>1
<1>5. InOrder'
  BY <1>1, <1>3, <1>4 DEF Stream, InOrder, Marker, Cut
<1> QED
  BY <1>2, <1>5 DEF Stream

\* Every step keeps what is on its way in order, and sends nothing out of order.
LEMMA StreamStep ==
    ASSUME TypeOK, RunLeft, SentSoFar, Stream, [Next]_vars
    PROVE  Stream' /\ [SendsInOrder]_vars
<1>1. CASE UNCHANGED vars
  <2>1. UNCHANGED <<inPipe, running, started, sandbox, out, runs, told, pc, frame>>
    BY <1>1 DEF vars, sandboxVars, sentVars, loopVars
  <2> QED
    BY <2>1, StreamUntouched
<1>2. CASE ProcessSandbox \/ ReadOn
  BY <1>2, StreamRead
<1>3. CASE call_vgexpand
  BY <1>3, StreamWrite
<1>4. CASE Sandbox \/ SandboxExits
  <2>1. told' = told
    BY <1>4 DEF Sandbox, TakeCommand, PrintMarker, CdFails, SandboxStep,
                SandboxExits, Happening, sentVars
  <2> QED
    BY <1>4, <2>1, StreamTake, StreamPrint, StreamStops DEF Sandbox, SendsInOrder
<1>5. CASE \/ Select \/ IOFails \/ ProcessShell \/ ProcessTerminal \/ ProcessVgd
           \/ ChildWait \/ ScanEnds \/ Scan
           \/ ActExit \/ ActDisable \/ ActLost \/ ActCmd
           \/ Stall \/ VgdSends \/ VgdExits \/ ShellExits \/ TerminalCloses
  <2>1. UNCHANGED <<sentVars, sandboxVars>>
    BY <1>5 DEF Select, IOFails, ProcessShell, ProcessTerminal, ProcessVgd,
                ChildWait, ScanEnds, Scan, CmdEdited, CmdStarted, CmdExecuted,
                OutOfSync, PwdChanged, RPromptStarted, OrderTyped, FlagTyped,
                MaskCommitted, ScanStep, ActExit, ActDisable, ActLost, ActCmd,
                Stall, Stalls, VgdSends, VgdExits, ShellExits, TerminalCloses, Happening
  <2>2. pc' = "find_end" => pc = "find_end"
    BY <1>5 DEF Select, IOFails, ProcessShell, ProcessTerminal, ProcessVgd,
                ChildWait, ScanEnds, Scan, CmdEdited, CmdStarted, CmdExecuted,
                OutOfSync, PwdChanged, RPromptStarted, OrderTyped, FlagTyped,
                MaskCommitted, ScanStep, ActExit, ActDisable, ActLost, ActCmd,
                Stall, Stalls, VgdSends, VgdExits, ShellExits, TerminalCloses, Happening,
                Handles, Turn, clean_fail, loopVars
  <2> QED
    BY <2>1, <2>2, StreamUntouched DEF sentVars, sandboxVars
<1>6. CASE ActPassOn
  <2>1. /\ put_param_wrapped(enabled, told, "act")
        /\ UNCHANGED <<inPipe, running, started, sandbox, out, runs>>
    BY <1>6 DEF ActPassOn, sandboxVars
  <2>2. told' = told /\ pc' # "find_end"
    BY <2>1, PutProperties
  <2> QED
    BY <2>1, <2>2, StreamUntouched
<1>7. CASE SendStatus
  <2> DEFINE t == [told EXCEPT !.status = ss]
  <2>1. /\ put_param_wrapped(enabled, t, "select") \/ (told' = told /\ pc' = "select")
        /\ UNCHANGED <<inPipe, running, started, sandbox, out, runs>>
    BY <1>7 DEF SendStatus, sandboxVars
  <2>2. t.expanded = told.expanded
    BY DEF TypeOK, SentTypes
  <2> HIDE DEF t
  <2>3. told'.expanded = told.expanded /\ pc' # "find_end"
    BY <2>1, <2>2, PutProperties
  <2> QED
    BY <2>1, <2>3, StreamUntouched
<1> QED
  BY <1>1, <1>2, <1>3, <1>4, <1>5, <1>6, <1>7 DEF Next, LoopStep, World, Exited

-----------------------------------------------------------------------------
(* The theorems. *)

\* Initially nothing is on its way.
LEMMA InvariantInit == Init => IInv
<1> SUFFICES ASSUME Init PROVE IInv
  OBVIOUS
<1>1. RunLeft /\ LineInv /\ WholeExpansions /\ HalfRead
  BY DEF Init, RunLeft, LineInv, WholeExpansions, HalfRead
<1>2. SentSoFar
  BY DEF Init, SentSoFar
<1>3. out = <<>> /\ Len(out) = 0 /\ DOMAIN out = {} /\ DOMAIN inPipe = {}
  BY DEF Init
<1>4. OutputPaired
  BY <1>3 DEF OutputPaired
<1>5. InOrder
  BY <1>3 DEF Init, InOrder
<1> QED
  BY <1>1, <1>2, <1>4, <1>5, TypeInit DEF IInv

\* The inductive invariant holds in every reachable state: the types, that a run
\* number is left for each command line queued, what is remembered of what vgd
\* was sent, and the order of the commands and outputs on their way.
THEOREM Invariance == Spec => []IInv
<1>1. IInv /\ [Next]_vars => IInv'
  BY TypeStep, QueueStep, LineStep, SentStep, StreamStep DEF IInv, Stream
<1> QED
  BY InvariantInit, <1>1, PTL DEF Spec

\* Every handler, the sandbox and the user keep the state well typed, and no pipe
\* holds more than it can.
THEOREM TypeCorrect == Spec => []TypeOK
<1>1. IInv => TypeOK
  BY DEF IInv
<1> QED
  BY <1>1, Invariance, PTL

\* An expansion sent to vgd is the whole output of one run of vgexpand, however
\* the reads cut the pipe's contents up, whatever older output is still in it,
\* and wherever the sandbox exits.
THEOREM ExpansionsAreWhole == Spec => []WholeExpansions
<1>1. IInv => WholeExpansions
  BY DEF IInv
<1> QED
  BY <1>1, Invariance, PTL

\* Expansions are sent in the order of their command lines, and never before the
\* command line, for any number of command lines in the pipe.
THEOREM ExpansionsComeInOrder == Spec => ExpansionsInOrder
<1>1. IInv /\ [Next]_vars => [SendsInOrder]_vars
  BY StreamStep DEF IInv, Stream
<1>2. ExpansionsInOrder <=> [][SendsInOrder]_vars
  BY PTL DEF ExpansionsInOrder, SendsInOrder
<1> QED
  BY <1>1, <1>2, Invariance, PTL DEF Spec

\* Whenever vgseer waits, vgd holds the shell to be at its prompt exactly when the
\* scan does, and at the prompt the last change of the command line has been sent,
\* in whichever order a round queued, took back and dequeued its actions.
THEOREM LineAlwaysKnown == Spec => []LineKnown
<1>1. IInv => LineKnown
  BY DEF IInv, LineInv, SentSoFar, LineKnown
<1> QED
  BY <1>1, Invariance, PTL

\* Once disabled vgseer stays disabled, and sends nothing, in the middle of an
\* action or of the queue as well.
THEOREM DisabledIsSilent == Spec => SilentWhenDisabled
<1>1. IInv /\ [Next]_vars => [Silent]_vars
  BY SentStep DEF IInv
<1>2. SilentWhenDisabled <=> [][Silent]_vars
  BY PTL DEF SilentWhenDisabled, Silent
<1> QED
  BY <1>1, <1>2, Invariance, PTL DEF Spec

\* At the end of every round vgd has been sent the shell's status.
THEOREM StatusIsKnown == Spec => StatusKnown
<1>1. IInv /\ [Next]_vars => [Informed]_vars
  BY SentStep DEF IInv
<1>2. StatusKnown <=> [][Informed]_vars
  BY PTL DEF StatusKnown, Informed
<1> QED
  BY <1>1, <1>2, Invariance, PTL DEF Spec

=============================================================================
