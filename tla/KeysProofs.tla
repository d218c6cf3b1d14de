------------------------------ MODULE KeysProofs ------------------------------
(***************************************************************************)
(* Proofs about Keys.                                                      *)
(***************************************************************************)
EXTENDS Keys, DataLemmas, SequenceTheorems

-----------------------------------------------------------------------------
(* The helpers on sequences of keys.                                       *)

\* What the shell is typed is characters only.
LEMMA TextOfType ==
    ASSUME NEW keys \in Seq(KeyCodes)
    PROVE  TextOf(keys) \in Seq(Printables)
<1> DEFINE V == Seq(Printables)
           n == Len(keys)
           Is(f) == f = [k \in 0..n |->
                            IF k = 0 THEN <<>>
                            ELSE IF keys[k] \in Printables THEN Append(f[k - 1], keys[k])
                            ELSE f[k - 1]]
           step == [k \in 1..n |-> [t \in V |->
                       IF keys[k] \in Printables THEN Append(t, keys[k]) ELSE t]]
           upTo == CHOOSE f : Is(f)
<1>1. n \in Nat /\ <<>> \in V
  OBVIOUS
<1>2. step \in [1..n -> [V -> V]]
  OBVIOUS
<1>3. PICK g \in [0..n -> V] : Iterates(g, n, <<>>, step)
  <2> HIDE DEF V, n, step
  <2> QED BY <1>1, <1>2, Recursion
<1>4. Is(g)
  <2>1. ASSUME NEW k \in 0..n
        PROVE  g[k] = IF k = 0 THEN <<>>
                      ELSE IF keys[k] \in Printables THEN Append(g[k - 1], keys[k])
                      ELSE g[k - 1]
    <3>1. CASE k = 0
      BY <1>3, <3>1 DEF Iterates
    <3>2. CASE k # 0
      <4>1. k \in 1..n /\ k - 1 \in 0..n
        BY <3>2, <1>1
      <4>2. g[k - 1] \in V
        BY <4>1
      <4>3. step[k][g[k - 1]] = IF keys[k] \in Printables THEN Append(g[k - 1], keys[k]) ELSE g[k - 1]
        BY <4>1, <4>2
      <4> QED BY <1>3, <3>2, <4>1, <4>3 DEF Iterates
    <3> QED BY <3>1, <3>2
  <2> HIDE DEF V, step
  <2> QED BY <2>1
<1>5. Is(upTo)
  <2> HIDE DEF Is
  <2> QED BY <1>4
<1>6. \A k \in 0..n : upTo[k] \in V
  <2> DEFINE T == {k \in 0..n : upTo[k] \in V}
  <2> HIDE DEF upTo
  <2>1. 0 \in T
    BY <1>1, <1>5
  <2>2. ASSUME NEW k \in 1..n, k - 1 \in T
        PROVE  k \in T
    <3>1. k \in 0..n /\ k # 0
      BY <1>1
    <3>2. upTo[k] = IF keys[k] \in Printables THEN Append(upTo[k - 1], keys[k]) ELSE upTo[k - 1]
      BY <1>5, <3>1
    <3>3. upTo[k - 1] \in V
      BY <2>2
    <3>4. upTo[k] \in V
      BY <3>2, <3>3, AppendProperties
    <3> QED BY <3>1, <3>4
  <2>3. \A k \in 1..n : k - 1 \in T => k \in T
    BY <2>2
  <2>4. \A k \in 0..n : k \in T
    <3> HIDE DEF T, n
    <3> QED BY <1>1, <2>1, <2>3, BoundedInduction
  <2> QED BY <2>4
<1>7. TextOf(keys) = upTo[n]
  BY DEF TextOf
<1> QED
  <2> HIDE DEF upTo
  <2> QED BY <1>1, <1>6, <1>7

\* Sequences put together are a sequence.
LEMMA FlattenSeqType ==
    ASSUME NEW S, NEW seqs \in Seq(Seq(S))
    PROVE  FlattenSeq(seqs) \in Seq(S)
<1> DEFINE V == Seq(S)
           n == Len(seqs)
           Is(f) == f = [i \in 1..n |-> IF i = 1 THEN seqs[i] ELSE f[i - 1] \o seqs[i]]
           step == [i \in 1..n |-> [t \in V |-> t \o seqs[i]]]
           flatten == CHOOSE f : Is(f)
<1>1. n \in Nat /\ <<>> \in V /\ \A i \in 1..n : seqs[i] \in V
  OBVIOUS
<1>2. CASE n = 0
  <2>1. FlattenSeq(seqs) = seqs /\ seqs = <<>>
    BY <1>2 DEF FlattenSeq
  <2> QED BY <2>1
<1>3. CASE n # 0
  <2>1. step \in [1..n -> [V -> V]]
    BY <1>1
  <2>2. PICK g \in [0..n -> V] : Iterates(g, n, <<>>, step)
    <3> HIDE DEF V, n, step
    <3> QED BY <1>1, <2>1, Recursion
  <2>3. ASSUME NEW i \in 1..n
        PROVE  g[i] = g[i - 1] \o seqs[i] /\ (i = 1 => g[i] = seqs[i])
    <3>1. i - 1 \in 0..n
      BY <1>1
    <3>2. g[i - 1] \in V
      BY <3>1
    <3>3. g[i] = g[i - 1] \o seqs[i]
      BY <2>2, <3>2 DEF Iterates
    <3>4. i = 1 => g[i - 1] = <<>>
      BY <2>2 DEF Iterates
    <3>5. seqs[i] \in V
      BY <1>1
    <3> QED BY <3>3, <3>4, <3>5, ConcatEmptySeq
  <2> DEFINE h == [i \in 1..n |-> g[i]]
  <2>4. Is(h)
    <3>1. ASSUME NEW i \in 1..n
          PROVE  h[i] = IF i = 1 THEN seqs[i] ELSE h[i - 1] \o seqs[i]
      <4>1. i # 1 => i - 1 \in 1..n
        BY <1>1
      <4> QED BY <2>3, <4>1
    <3> HIDE DEF n
    <3> QED BY <3>1
  <2>5. Is(flatten)
    <3> HIDE DEF Is, h
    <3> QED BY <2>4
  <2>6. FlattenSeq(seqs) = flatten[n]
    BY <1>3 DEF FlattenSeq
  <2>7. \A i \in 1..n : flatten[i] \in V
    <3> DEFINE T == {i \in 0..n : i # 0 => flatten[i] \in V}
    <3> HIDE DEF flatten
    <3>1. 0 \in T
      BY <1>1
    <3>2. ASSUME NEW i \in 1..n, i - 1 \in T
          PROVE  i \in T
      <4>1. flatten[i] = IF i = 1 THEN seqs[i] ELSE flatten[i - 1] \o seqs[i]
        BY <2>5
      <4>2. i # 1 => flatten[i - 1] \in V
        BY <3>2
      <4>3. flatten[i] \in V
        BY <4>1, <4>2, <1>1, ConcatProperties
      <4> QED BY <4>3
    <3>3. \A i \in 0..n : i \in T
      <4>1. \A i \in 1..n : i - 1 \in T => i \in T
        BY <3>2
      <4> HIDE DEF T, n
      <4> QED BY <1>1, <3>1, <4>1, BoundedInduction
    <3> QED BY <3>3
  <2> HIDE DEF flatten
  <2> QED BY <1>1, <1>3, <2>6, <2>7
<1> QED BY <1>2, <1>3

\* What is made of a name can be read like what is typed.
LEMMA EscapedType ==
    ASSUME NEW S, Printables \subseteq S, NEW name \in Seq(S)
    PROVE  Escaped(name) \in Seq(S) /\ escape_filename(name) \in Seq(S)
<1> DEFINE parts == [i \in DOMAIN name |->
                        IF name[i] \in Special THEN <<"backslash", name[i]>> ELSE <<name[i]>>]
<1>1. parts \in Seq(Seq(S))
  <2>1. ASSUME NEW i \in 1..Len(name)
        PROVE  parts[i] \in Seq(S)
    <3>1. "backslash" \in S
      BY DEF Printables
    <3>2. name[i] \in S
      OBVIOUS
    <3>3. <<"backslash", name[i]>> \in Seq(S) /\ <<name[i]>> \in Seq(S)
      BY <3>1, <3>2
    <3> QED BY <3>3
  <2>2. DOMAIN name = 1..Len(name) /\ Len(name) \in Nat
    OBVIOUS
  <2>3. \A i \in 1..Len(name) : parts[i] \in Seq(S)
    BY <2>1
  <2> QED BY <2>2, <2>3, IsASeq
<1>2. Escaped(name) \in Seq(S)
  <2> HIDE DEF parts
  <2>1. FlattenSeq(parts) \in Seq(S)
    BY <1>1, FlattenSeqType
  <2> QED BY <2>1 DEF Escaped, parts
<1>3. Space \in S /\ <<>> \in Seq(S) /\ <<Space>> \in Seq(S)
  <2>1. Space \in S
    BY DEF Printables
  <2> QED BY <2>1
<1> HIDE DEF parts
<1> QED BY <1>2, <1>3, ConcatProperties DEF escape_filename

-----------------------------------------------------------------------------
(* The inductive invariant.                                                *)

LEMMA InitIInv == Init => IInv
<1> SUFFICES ASSUME Init PROVE IInv
  OBVIOUS
<1> USE DEF Init
<1>1. TypeOK
  <2>1. <<>> \in Seq(Printables) /\ <<>> \in Seq({"up", "pgdown", "refocus", "toggle"}) /\ Len(<<>>) = 0
    OBVIOUS
  <2>2. {in_mask, in_navigation, expect, enabled, running} \subseteq BOOLEAN
    OBVIOUS
  <2>3. {mask, mask_final, vgdMask, vgdDeveloping} \subseteq Seq(Printables)
    BY <2>1
  <2>4. Len(mask) <= MaskSize
    BY <2>1, KeysAssumption
  <2> QED BY <2>1, <2>2, <2>3, <2>4 DEF TypeOK
<1>2. ModesAgree
  BY DEF ModesAgree
<1>3. TurnInv
  BY DEF TurnInv
<1>4. MaskQueued
  BY DEF MaskQueued
<1> QED BY <1>1, <1>2, <1>3, <1>4 DEF IInv

\* What is left of a read, byte by byte.
LEMMA Bytes ==
    ASSUME IInv, buf # <<>>
    PROVE  /\ Head(buf) \in KeyCodes
           /\ Tail(buf) \in Seq(KeyCodes)
           /\ \A n \in Nat : SubSeq(buf, n + 1, Len(buf)) \in Seq(KeyCodes)
           /\ Append(passed, Head(buf)) \in Seq(KeyCodes)
<1>1. buf \in Seq(KeyCodes) /\ passed \in Seq(KeyCodes)
  BY DEF IInv, TurnInv
<1>2. Head(buf) \in KeyCodes
  BY <1>1
<1>3. Tail(buf) \in Seq(KeyCodes)
  BY <1>1
<1>4. ASSUME NEW n \in Nat
      PROVE  SubSeq(buf, n + 1, Len(buf)) \in Seq(KeyCodes)
  BY <1>1
<1> QED BY <1>1, <1>2, <1>3, <1>4

\* Steps that scan a byte and change no mode of the mask and no queue.
LEMMA PassOnIInv == IInv /\ PassOn => IInv'
<1> SUFFICES ASSUME IInv, PassOn PROVE IInv'
  OBVIOUS
<1>1. UNCHANGED <<source, pl, in_mask, in_navigation, mask, mask_final, flags, orders, expect,
                  enabled, vgdMask, vgdDeveloping, line, pos, running, cmd, shellPl>>
  BY DEF PassOn, Pass, modeVars, NoAction, queueVars, Other, vgdVars, shellVars, heardVars
<1>2. buf' \in Seq(KeyCodes) /\ passed' \in Seq(KeyCodes) /\ source \in {"terminal", "vgd"}
  BY Bytes DEF PassOn, Pass, Scans
<1>3. TypeOK'
  BY <1>1 DEF IInv, TypeOK
<1>4. ModesAgree'
  BY <1>1 DEF IInv, ModesAgree
<1>5. TurnInv'
  BY <1>1, <1>2 DEF IInv, TurnInv
<1>6. MaskQueued'
  BY <1>1 DEF IInv, MaskQueued
<1> QED BY <1>3, <1>4, <1>5, <1>6 DEF IInv

LEMMA CtrlGIInv == IInv /\ seq_ctrl_g => IInv'
<1> SUFFICES ASSUME IInv, seq_ctrl_g PROVE IInv'
  OBVIOUS
<1>1. UNCHANGED <<source, passed, in_mask, in_navigation, mask, mask_final, flags, orders, expect,
                  enabled, vgdMask, vgdDeveloping, line, pos, running, cmd, shellPl>>
  BY DEF seq_ctrl_g, Eat, NoAction, queueVars, Other, vgdVars, shellVars, heardVars
<1>2. buf' \in Seq(KeyCodes) /\ source \in {"terminal", "vgd"} /\ pl = "terminal" /\ pl' = "viewglob"
  BY Bytes DEF seq_ctrl_g, Eat, Scans
<1>3. TypeOK'
  BY <1>1, <1>2 DEF IInv, TypeOK
<1>4. ModesAgree'
  BY <1>1, <1>2 DEF IInv, ModesAgree
<1>5. TurnInv'
  BY <1>1, <1>2 DEF IInv, TurnInv
<1>6. MaskQueued'
  BY <1>1 DEF IInv, MaskQueued
<1> QED BY <1>3, <1>4, <1>5, <1>6 DEF IInv

\* What the mask's operations leave in it, and in the queue.
LEMMA MaskOperations ==
    ASSUME IInv,
           (cmd_mask_add(mask) /\ Head(buf) \in Printables) \/ cmd_mask_del \/ cmd_mask_clear
    PROVE  /\ mask' \in Seq(Printables) /\ Len(mask') <= MaskSize
           /\ orders' = orders /\ flags' \in SUBSET {"cmd", "mask", "disable"}
           /\ flags \subseteq flags' /\ flags' \subseteq flags \cup {"mask"}
           /\ mask' # mask => "mask" \in flags'
<1>1. mask \in Seq(Printables) /\ Len(mask) <= MaskSize /\ flags \in SUBSET {"cmd", "mask", "disable"}
  BY DEF IInv, TypeOK
<1>2. CASE cmd_mask_add(mask) /\ Head(buf) \in Printables
  <2>1. CASE Len(mask) < MaskSize
    <3>1. mask' = Append(mask, Head(buf)) /\ NewMask
      BY <1>2, <2>1 DEF cmd_mask_add
    <3>2. Head(buf) \in Printables
      BY <1>2
    <3>3. mask' \in Seq(Printables) /\ Len(mask') = Len(mask) + 1
      BY <3>1, <3>2, <1>1, AppendProperties
    <3>4. Len(mask') <= MaskSize
      BY <3>3, <2>1, <1>1, KeysAssumption, LenProperties
    <3> QED BY <1>1, <3>1, <3>3, <3>4 DEF NewMask
  <2>2. CASE ~ (Len(mask) < MaskSize)
    BY <1>1, <1>2, <2>2 DEF cmd_mask_add, NoAction, queueVars
  <2> QED BY <2>1, <2>2
<1>3. CASE cmd_mask_del
  <2>1. CASE mask # <<>>
    <3>1. mask' = SubSeq(mask, 1, Len(mask) - 1) /\ NewMask
      BY <1>3, <2>1 DEF cmd_mask_del
    <3>2. mask' \in Seq(Printables) /\ Len(mask') = Len(mask) - 1
      <4>1. Len(mask) \in Nat /\ Len(mask) # 0
        BY <1>1, <2>1, EmptySeq
      <4>4. \A i \in 1..(Len(mask) - 1) : mask[i] \in Printables
        BY <1>1, <4>1
      <4>5. /\ SubSeq(mask, 1, Len(mask) - 1) \in Seq(Printables)
            /\ Len(SubSeq(mask, 1, Len(mask) - 1)) = Len(mask) - 1
        <5> DEFINE n == Len(mask) - 1
        <5>1. n \in Nat /\ \A i \in 1..n : mask[i] \in Printables
          BY <4>1, <4>4
        <5> HIDE DEF n
        <5>2. /\ SubSeq(mask, 1, n) \in Seq(Printables)
              /\ Len(SubSeq(mask, 1, n)) = IF 1 <= n THEN n - 1 + 1 ELSE 0
          BY <5>1, SubSeqProperties
        <5>3. Len(SubSeq(mask, 1, n)) = n
          BY <5>1, <5>2
        <5> QED BY <5>2, <5>3 DEF n
      <4> QED BY <3>1, <4>5
    <3>3. Len(mask') <= MaskSize
      BY <3>2, <1>1, KeysAssumption, LenProperties
    <3> QED BY <1>1, <3>1, <3>2, <3>3 DEF NewMask
  <2>2. CASE mask = <<>>
    BY <1>1, <1>3, <2>2 DEF cmd_mask_del, NoAction, queueVars
  <2> QED BY <2>1, <2>2
<1>4. CASE cmd_mask_clear
  <2>1. mask' = <<>> /\ Len(<<>>) = 0 /\ <<>> \in Seq(Printables)
    BY <1>4 DEF cmd_mask_clear
  <2> QED BY <1>1, <1>4, <2>1, KeysAssumption DEF cmd_mask_clear, NewMask
<1> QED BY <1>2, <1>3, <1>4

LEMMA MaskKeyIInv == IInv /\ MaskKey => IInv'
<1> SUFFICES ASSUME IInv, MaskKey PROVE IInv'
  OBVIOUS
<1>1. UNCHANGED <<source, passed, in_navigation, expect, enabled, vgdMask, vgdDeveloping, line,
                  pos, running, cmd, shellPl>>
  BY DEF MaskKey, Eat, Other, vgdVars, shellVars, heardVars
<1>2. buf' \in Seq(KeyCodes) /\ source \in {"terminal", "vgd"} /\ pl = "viewglob" /\ in_mask
      /\ buf # <<>>
  BY Bytes DEF MaskKey, Eat, Scans
<1>3. TurnInv'
  BY <1>1, <1>2 DEF IInv, TurnInv
<1>4. mask \in Seq(Printables) /\ Len(mask) <= MaskSize /\ flags \in SUBSET {"cmd", "mask", "disable"}
  BY DEF IInv, TypeOK
<1>5. ASSUME (cmd_mask_add(mask) /\ Head(buf) \in Printables) \/ cmd_mask_del,
             UNCHANGED <<pl, in_mask, mask_final>>
      PROVE  IInv'
  <2>1. /\ mask' \in Seq(Printables) /\ Len(mask') <= MaskSize
        /\ orders' = orders /\ flags' \in SUBSET {"cmd", "mask", "disable"}
        /\ flags \subseteq flags' /\ flags' \subseteq flags \cup {"mask"}
        /\ mask' # mask => "mask" \in flags'
    BY <1>5, MaskOperations
  <2>2. TypeOK'
    BY <1>1, <1>5, <2>1 DEF IInv, TypeOK
  <2>3. ModesAgree'
    BY <1>1, <1>5 DEF IInv, ModesAgree
  <2>4. MaskQueued'
    BY <1>1, <1>2, <1>5, <2>1 DEF IInv, MaskQueued
  <2> QED BY <1>3, <2>2, <2>3, <2>4 DEF IInv
<1>6. ASSUME mask_final' = mask, SendCmd, pl' = "terminal", in_mask' = FALSE, UNCHANGED mask
      PROVE  IInv'
  <2>1. flags' = (flags \ {"mask"}) \cup {"cmd"} /\ orders' = orders
    BY <1>6 DEF SendCmd
  <2>2. TypeOK'
    BY <1>1, <1>4, <1>6, <2>1 DEF IInv, TypeOK
  <2>3. ModesAgree'
    BY <1>1, <1>2, <1>6 DEF IInv, ModesAgree
  <2>4. MaskQueued'
    BY <1>1, <1>6, <2>1 DEF IInv, MaskQueued
  <2> QED BY <1>3, <2>2, <2>3, <2>4 DEF IInv
<1>7. ASSUME cmd_mask_clear, pl' = "terminal", in_mask' = FALSE, UNCHANGED mask_final
      PROVE  IInv'
  <2>1. mask' = <<>> /\ flags' = flags \cup {"mask"} /\ orders' = orders
    BY <1>7 DEF cmd_mask_clear, NewMask
  <2>2. mask' \in Seq(Printables) /\ Len(mask') <= MaskSize
    BY <1>7, MaskOperations
  <2>3. TypeOK'
    BY <1>1, <1>4, <1>7, <2>1, <2>2 DEF IInv, TypeOK
  <2>4. ModesAgree'
    BY <1>1, <1>2, <1>7 DEF IInv, ModesAgree
  <2>5. MaskQueued'
    BY <1>1, <1>7, <2>1 DEF IInv, MaskQueued
  <2> QED BY <1>3, <2>3, <2>4, <2>5 DEF IInv
<1>8. CASE Head(buf) \in Printables /\ cmd_mask_add(mask) /\ UNCHANGED <<pl, in_mask, mask_final>>
  BY <1>5, <1>8
<1>9. CASE Head(buf) \in Rubouts /\ cmd_mask_del /\ UNCHANGED <<pl, in_mask, mask_final>>
  BY <1>5, <1>9
<1>10. CASE /\ Head(buf) = "Enter" /\ mask_final' = mask /\ SendCmd
            /\ pl' = "terminal" /\ in_mask' = FALSE /\ UNCHANGED mask
  BY <1>6, <1>10
<1>11. CASE /\ Head(buf) \notin Printables \cup Rubouts \cup {"Enter"} /\ cmd_mask_clear
            /\ pl' = "terminal" /\ in_mask' = FALSE /\ UNCHANGED mask_final
  BY <1>7, <1>11
<1> QED BY <1>8, <1>9, <1>10, <1>11 DEF MaskKey

LEMMA MaskStartsIInv == IInv /\ MaskStarts => IInv'
<1> SUFFICES ASSUME IInv, MaskStarts PROVE IInv'
  OBVIOUS
<1>1. UNCHANGED <<source, passed, pl, in_navigation, mask_final, expect, enabled, vgdMask,
                  vgdDeveloping, line, pos, running, cmd, shellPl>>
  BY DEF MaskStarts, Eat, Other, vgdVars, shellVars, heardVars
<1>2. /\ buf' \in Seq(KeyCodes) /\ source \in {"terminal", "vgd"} /\ pl = "viewglob"
      /\ ~in_navigation /\ in_mask' = TRUE
      /\ flags' = flags \cup {"mask"} /\ orders' = orders
  BY Bytes DEF MaskStarts, Eat, Scans, NewMask
<1>3. mask' \in Seq(Printables) /\ Len(mask') <= MaskSize
  <2>1. CASE Head(buf) \in Rubouts
    <3>1. mask' = <<>> /\ Len(<<>>) = 0 /\ <<>> \in Seq(Printables)
      BY <2>1 DEF MaskStarts
    <3> QED BY <3>1, KeysAssumption
  <2>2. CASE Head(buf) \notin Rubouts
    <3>1. mask' = <<Head(buf)>> /\ Head(buf) \in Printables
      BY <2>2 DEF MaskStarts
    <3>2. <<Head(buf)>> \in Seq(Printables) /\ Len(<<Head(buf)>>) = 1
      BY <3>1
    <3>3. 1 <= MaskSize
      BY KeysAssumption
    <3> QED BY <3>1, <3>2, <3>3
  <2> QED BY <2>1, <2>2
<1>4. TypeOK'
  BY <1>1, <1>2, <1>3 DEF IInv, TypeOK
<1>5. ModesAgree'
  BY <1>1, <1>2 DEF IInv, ModesAgree
<1>6. TurnInv'
  BY <1>1, <1>2 DEF IInv, TurnInv
<1>7. MaskQueued'
  BY <1>1, <1>2 DEF IInv, MaskQueued
<1> QED BY <1>4, <1>5, <1>6, <1>7 DEF IInv

LEMMA NavigationKeyIInv == IInv /\ NavigationKey => IInv'
<1> SUFFICES ASSUME IInv, NavigationKey PROVE IInv'
  OBVIOUS
<1>1. UNCHANGED <<source, passed, pl, in_mask, mask, mask_final, flags, expect, enabled, vgdMask,
                  vgdDeveloping, line, pos, running, cmd, shellPl>>
  BY DEF NavigationKey, Eat, Order, Other, vgdVars, shellVars, heardVars
<1>2. source \in {"terminal", "vgd"} /\ pl = "viewglob" /\ ~in_mask /\ in_navigation' = TRUE
      /\ buf # <<>>
  BY DEF NavigationKey, Scans
<1>3. PICK o \in {"up", "pgdown"}, n \in {1, 3} :
          buf' = SubSeq(buf, n + 1, Len(buf)) /\ orders' = Append(orders, o)
  BY DEF NavigationKey, Eat, Order, Moves
<1>4. buf' \in Seq(KeyCodes)
  BY <1>2, <1>3, Bytes
<1>5. orders' \in Seq({"up", "pgdown", "refocus", "toggle"})
  BY <1>3, AppendProperties DEF IInv, TypeOK
<1>6. TypeOK'
  BY <1>1, <1>2, <1>5 DEF IInv, TypeOK
<1>7. ModesAgree'
  BY <1>1, <1>2 DEF IInv, ModesAgree
<1>8. TurnInv'
  BY <1>1, <1>2, <1>4 DEF IInv, TurnInv
<1>9. MaskQueued'
  BY <1>1 DEF IInv, MaskQueued
<1> QED BY <1>6, <1>7, <1>8, <1>9 DEF IInv

LEMMA NavigationEndsIInv == IInv /\ NavigationEnds => IInv'
<1> SUFFICES ASSUME IInv, NavigationEnds PROVE IInv'
  OBVIOUS
<1>1. UNCHANGED <<source, mask, mask_final, flags, orders, expect, enabled, vgdMask,
                  vgdDeveloping, line, pos, running, cmd, shellPl>>
  BY DEF NavigationEnds, ChainEnds, Eat, Pass, NoAction, queueVars, Other, vgdVars, shellVars, heardVars
<1>2. /\ source \in {"terminal", "vgd"} /\ in_navigation /\ buf # <<>>
      /\ pl' \in {"terminal", "viewglob"} /\ in_mask' = FALSE /\ in_navigation' = FALSE
  BY DEF NavigationEnds, ChainEnds, Scans, Mode, Terminal
<1>3. buf' \in Seq(KeyCodes) /\ passed' \in Seq(KeyCodes)
  <2>1. \/ buf' = SubSeq(buf, 1 + 1, Len(buf)) /\ passed' = passed
        \/ buf' = Tail(buf) /\ passed' = Append(passed, Head(buf))
    BY DEF NavigationEnds, ChainEnds, Eat, Pass
  <2> QED BY <1>2, <2>1, Bytes DEF IInv, TurnInv
<1>4. TypeOK'
  BY <1>1, <1>2 DEF IInv, TypeOK
<1>5. ModesAgree'
  BY <1>2 DEF ModesAgree
<1>6. TurnInv'
  BY <1>1, <1>2, <1>3 DEF IInv, TurnInv
<1>7. MaskQueued'
  <2>1. ~in_mask
    BY <1>2 DEF IInv, ModesAgree
  <2> QED BY <1>1, <1>2, <2>1 DEF IInv, MaskQueued
<1> QED BY <1>4, <1>5, <1>6, <1>7 DEF IInv

LEMMA CommandIInv == IInv /\ Command => IInv'
<1> SUFFICES ASSUME IInv, Command PROVE IInv'
  OBVIOUS
<1>1. UNCHANGED <<source, expect, enabled, vgdMask, vgdDeveloping, line, pos, running, cmd, shellPl>>
  BY DEF Command, Eat, Pass, Other, vgdVars, shellVars, heardVars
<1>2. /\ source \in {"terminal", "vgd"} /\ ~in_mask /\ ~in_navigation /\ buf # <<>>
      /\ pl' = "terminal" /\ in_mask' = FALSE /\ in_navigation' = FALSE
  BY DEF Command, Scans, Mode, Terminal
<1>3. ModesAgree'
  BY <1>2 DEF ModesAgree
<1>4. /\ flags \in SUBSET {"cmd", "mask", "disable"}
      /\ orders \in Seq({"up", "pgdown", "refocus", "toggle"})
  BY DEF IInv, TypeOK
<1>5. TurnInv'
  <2>1. \/ buf' = SubSeq(buf, 1 + 1, Len(buf)) /\ passed' = passed
        \/ buf' = Tail(buf) /\ passed' = Append(passed, Head(buf))
    BY DEF Command, Eat, Pass
  <2>2. buf' \in Seq(KeyCodes) /\ passed' \in Seq(KeyCodes)
    BY <1>2, <2>1, Bytes DEF IInv, TurnInv
  <2> QED BY <1>1, <1>2, <2>2 DEF IInv, TurnInv
<1>6. ASSUME NEW o \in {"refocus", "toggle"}, Order(o), UNCHANGED <<mask, mask_final>>
      PROVE  IInv'
  <2>1. orders' \in Seq({"up", "pgdown", "refocus", "toggle"}) /\ flags' = flags
    BY <1>4, <1>6, AppendProperties DEF Order
  <2>2. TypeOK'
    BY <1>1, <1>2, <1>6, <2>1 DEF IInv, TypeOK
  <2>3. MaskQueued'
    BY <1>1, <1>2, <1>6, <2>1 DEF IInv, MaskQueued
  <2> QED BY <1>3, <1>5, <2>2, <2>3 DEF IInv
<1>7. ASSUME Disable \/ NoAction, UNCHANGED <<mask, mask_final>>
      PROVE  IInv'
  <2>1. orders' = orders /\ flags' \in {flags, flags \cup {"disable"}}
    BY <1>7 DEF Disable, NoAction, queueVars
  <2>2. TypeOK'
    BY <1>1, <1>2, <1>4, <1>7, <2>1 DEF IInv, TypeOK
  <2>3. MaskQueued'
    BY <1>1, <1>2, <1>7, <2>1 DEF IInv, MaskQueued
  <2> QED BY <1>3, <1>5, <2>2, <2>3 DEF IInv
<1>8. ASSUME SendCmd, mask' = <<>>, mask_final' = <<>>
      PROVE  IInv'
  <2>1. orders' = orders /\ flags' = (flags \ {"mask"}) \cup {"cmd"}
    BY <1>8 DEF SendCmd
  <2>2. mask' \in Seq(Printables) /\ mask_final' \in Seq(Printables) /\ Len(mask') <= MaskSize
    <3>1. <<>> \in Seq(Printables) /\ Len(<<>>) = 0
      OBVIOUS
    <3> QED BY <1>8, <3>1, KeysAssumption
  <2>3. TypeOK'
    BY <1>1, <1>2, <1>4, <1>8, <2>1, <2>2 DEF IInv, TypeOK
  <2>4. MaskQueued'
    BY <1>1, <1>2, <1>8, <2>1 DEF IInv, MaskQueued
  <2> QED BY <1>3, <1>5, <2>3, <2>4 DEF IInv
<1>9. \/ (Order("refocus") \/ Order("toggle") \/ Disable \/ NoAction) /\ UNCHANGED <<mask, mask_final>>
      \/ SendCmd /\ mask' = <<>> /\ mask_final' = <<>>
  BY DEF Command
<1> QED BY <1>6, <1>7, <1>8, <1>9

\* A read begins when the last has been scanned.
LEMMA ReadIInv == IInv /\ (process_terminal \/ process_vgd) => IInv'
<1> SUFFICES ASSUME IInv, process_terminal \/ process_vgd PROVE IInv'
  OBVIOUS
<1>1. UNCHANGED <<pl, in_mask, in_navigation, mask, mask_final, flags, orders, expect, enabled,
                  vgdMask, vgdDeveloping, line, pos, running, cmd, shellPl>>
  BY DEF process_terminal, process_vgd, modeVars, queueVars, Other, vgdVars, shellVars, heardVars
<1>2. passed' = <<>> /\ source' \in {"terminal", "vgd"} /\ (source' = "vgd" => enabled)
  BY DEF process_terminal, process_vgd
<1>3. buf' \in Seq(KeyCodes)
  <2>1. CASE process_terminal
    BY <2>1, KeysAssumption DEF process_terminal
  <2>2. CASE process_vgd
    <3>1. CASE \E text \in Reads : Len(text) = 1 /\ buf' = text
      BY <3>1, KeysAssumption
    <3>2. CASE \E name \in Names : buf' = escape_filename(name)
      <4>1. Printables \subseteq KeyCodes
        BY DEF KeyCodes
      <4> QED BY <3>2, <4>1, KeysAssumption, EscapedType
    <3> QED BY <2>2, <3>1, <3>2 DEF process_vgd
  <2> QED BY <2>1, <2>2
<1>4. TypeOK'
  BY <1>1, <1>2 DEF IInv, TypeOK
<1>5. ModesAgree'
  BY <1>1 DEF IInv, ModesAgree
<1>6. TurnInv'
  <2>1. <<>> \in Seq(KeyCodes)
    OBVIOUS
  <2> QED BY <1>1, <1>2, <1>3, <2>1 DEF IInv, TurnInv
<1>7. MaskQueued'
  BY <1>1 DEF IInv, MaskQueued
<1> QED BY <1>4, <1>5, <1>6, <1>7 DEF IInv

LEMMA UnscannedIInv == IInv /\ Unscanned => IInv'
<1> SUFFICES ASSUME IInv, Unscanned PROVE IInv'
  OBVIOUS
<1>1. UNCHANGED <<source, pl, in_mask, in_navigation, mask, mask_final, flags, orders, expect,
                  enabled, vgdMask, vgdDeveloping, line, pos, running, cmd, shellPl>>
  BY DEF Unscanned, Pass, modeVars, queueVars, Other, vgdVars, shellVars, heardVars
<1>2. buf' \in Seq(KeyCodes) /\ passed' \in Seq(KeyCodes) /\ source = "terminal"
  BY Bytes DEF Unscanned, Pass
<1>3. TypeOK'
  BY <1>1 DEF IInv, TypeOK
<1>4. ModesAgree'
  BY <1>1 DEF IInv, ModesAgree
<1>5. TurnInv'
  BY <1>1, <1>2 DEF IInv, TurnInv
<1>6. MaskQueued'
  BY <1>1 DEF IInv, MaskQueued
<1> QED BY <1>3, <1>4, <1>5, <1>6 DEF IInv

LEMMA WriteIInv == IInv /\ connection_write => IInv'
<1> SUFFICES ASSUME IInv, connection_write PROVE IInv'
  OBVIOUS
<1>1. UNCHANGED <<buf, passed, pl, in_mask, in_navigation, mask, mask_final, flags, orders, enabled,
                  vgdMask, vgdDeveloping, cmd, shellPl>>
  BY DEF connection_write, modeVars, queueVars, vgdVars, heardVars
<1>2. source' \in {"terminal read", "vgd read"} /\ (source' = "vgd read" => enabled) /\ buf = <<>>
  BY DEF connection_write, IInv, TurnInv
<1>3. expect' \in BOOLEAN
  BY DEF connection_write, scan_for_newline, IInv, TypeOK
<1>4. running' \in BOOLEAN /\ line' \in Seq(Printables) /\ pos' \in 0..Len(line')
  <2>1. running \in BOOLEAN /\ line \in Seq(Printables) /\ pos \in 0..Len(line)
    BY DEF IInv, TypeOK, TurnInv
  <2>2. CASE running
    BY <2>1, <2>2 DEF connection_write, ShellEdits, shellVars
  <2>3. CASE ~running /\ {"Enter", "CtrlC"} \cap ToSet(passed) # {}
    <3>1. running' = TRUE /\ line' = <<>> /\ pos' = 0
      BY <2>3 DEF connection_write, ShellEdits
    <3> QED BY <3>1
  <2>4. CASE ~running /\ {"Enter", "CtrlC"} \cap ToSet(passed) = {}
    <3> DEFINE text == TextOf(passed)
               left == SubSeq(line, 1, pos)
               right == SubSeq(line, pos + 1, Len(line))
    <3>1. text \in Seq(Printables)
      BY TextOfType DEF IInv, TurnInv
    <3>2. left \in Seq(Printables) /\ Len(left) = pos /\ right \in Seq(Printables)
      BY <2>1
    <3>3. /\ running' = running /\ line' = left \o text \o right
          /\ pos' = IF "CtrlA" \in ToSet(passed) THEN 0 ELSE pos + Len(text)
      BY <2>4 DEF connection_write, ShellEdits
    <3> HIDE DEF text, left, right
    <3>4. left \o text \in Seq(Printables) /\ Len(left \o text) = pos + Len(text)
      BY <3>1, <3>2, ConcatProperties
    <3>5. line' \in Seq(Printables) /\ Len(line') = pos + Len(text) + Len(right)
      BY <3>2, <3>3, <3>4, ConcatProperties
    <3>6. Len(text) \in Nat /\ Len(right) \in Nat
      BY <3>1, <3>2
    <3> QED BY <2>1, <3>3, <3>5, <3>6
  <2> QED BY <2>1, <2>2, <2>3, <2>4
<1>5. TypeOK'
  BY <1>1, <1>2, <1>3, <1>4 DEF IInv, TypeOK
<1>6. ModesAgree'
  BY <1>1 DEF IInv, ModesAgree
<1>7. TurnInv'
  BY <1>1, <1>2, <1>4 DEF IInv, TurnInv
<1>8. MaskQueued'
  BY <1>1 DEF IInv, MaskQueued
<1> QED BY <1>5, <1>6, <1>7, <1>8 DEF IInv

LEMMA ShellPromptsIInv == IInv /\ ShellPrompts => IInv'
<1> SUFFICES ASSUME IInv, ShellPrompts PROVE IInv'
  OBVIOUS
<1>1. UNCHANGED <<source, buf, passed, pl, in_mask, in_navigation, mask, mask_final, flags, orders,
                  expect, enabled, vgdMask, vgdDeveloping, line, pos, cmd, shellPl>>
  BY DEF ShellPrompts, bufVars, modeVars, queueVars, vgdVars, heardVars
<1>2. TypeOK'
  BY <1>1 DEF ShellPrompts, IInv, TypeOK
<1>3. ModesAgree'
  BY <1>1 DEF IInv, ModesAgree
<1>4. TurnInv'
  BY <1>1 DEF IInv, TurnInv
<1>5. MaskQueued'
  BY <1>1 DEF IInv, MaskQueued
<1> QED BY <1>2, <1>3, <1>4, <1>5 DEF IInv

LEMMA ProcessShellIInv == IInv /\ process_shell => IInv'
<1> SUFFICES ASSUME IInv, process_shell PROVE IInv'
  OBVIOUS
<1>1. UNCHANGED <<buf, passed, pl, in_mask, in_navigation, mask, mask_final, expect, enabled,
                  vgdMask, vgdDeveloping, line, pos, running>>
  BY DEF process_shell, modeVars, vgdVars, shellVars
<1>2. /\ source = "select" /\ source' = "shell read" /\ shellPl' \in {"prompt", "executing"}
      /\ cmd' = [text |-> line, pos |-> pos]
      /\ orders' = orders /\ (flags' = flags \/ flags' = (flags \ {"mask"}) \cup {"cmd"})
  BY DEF process_shell, SendCmd, NoAction, queueVars
<1>3. cmd'.text = line /\ cmd'.pos = pos
  BY <1>2
<1>4. TypeOK'
  BY <1>1, <1>2, <1>3 DEF IInv, TypeOK
<1>5. ModesAgree'
  BY <1>1 DEF IInv, ModesAgree
<1>6. TurnInv'
  BY <1>1, <1>2, <1>3 DEF IInv, TurnInv
<1>7. MaskQueued'
  BY <1>1, <1>2 DEF IInv, MaskQueued
<1> QED BY <1>4, <1>5, <1>6, <1>7 DEF IInv

LEMMA ActionLoopIInv == IInv /\ action_loop => IInv'
<1> SUFFICES ASSUME IInv, action_loop PROVE IInv'
  OBVIOUS
<1>1. UNCHANGED <<buf, pl, in_mask, in_navigation, mask, mask_final, expect, line, pos, running,
                  cmd, shellPl>>
  BY DEF action_loop, modeVars, shellVars, heardVars
<1>2. /\ source \in {"shell read", "terminal read", "vgd read"} /\ source' = "select"
      /\ enabled' = (enabled /\ "disable" \notin flags)
      /\ flags' = {} /\ orders' = <<>> /\ passed' = <<>>
  BY DEF action_loop
<1>3. enabled \in BOOLEAN /\ mask \in Seq(Printables) /\ mask_final \in Seq(Printables)
      /\ vgdMask \in Seq(Printables) /\ vgdDeveloping \in Seq(Printables)
  BY DEF IInv, TypeOK
<1>4. vgdMask' = IF enabled' /\ "cmd" \in flags THEN mask_final ELSE vgdMask
  BY DEF action_loop
<1>5. vgdDeveloping' = CASE enabled' /\ "mask" \in flags -> mask
                         [] enabled' /\ "mask" \notin flags /\ "cmd" \in flags -> <<>>
                         [] OTHER -> vgdDeveloping
  BY DEF action_loop
<1>6. vgdMask' \in Seq(Printables) /\ vgdDeveloping' \in Seq(Printables)
  BY <1>3, <1>4, <1>5
<1>7. TypeOK'
  <2>1. <<>> \in Seq({"up", "pgdown", "refocus", "toggle"})
    OBVIOUS
  <2>2. enabled' \in BOOLEAN
    BY <1>2
  <2> QED BY <1>1, <1>2, <1>6, <2>1, <2>2 DEF IInv, TypeOK
<1>8. ModesAgree'
  BY <1>1 DEF IInv, ModesAgree
<1>9. TurnInv'
  <2>1. buf = <<>>
    BY <1>2 DEF IInv, TurnInv
  <2>2. <<>> \in Seq(KeyCodes)
    OBVIOUS
  <2> QED BY <1>1, <1>2, <2>1, <2>2 DEF IInv, TurnInv
<1>10. MaskQueued'
  <2>1. enabled' => vgdMask' = mask_final
    BY <1>2, <1>4 DEF IInv, MaskQueued
  <2>2. enabled' => (vgdDeveloping' # <<>> => in_mask /\ vgdDeveloping' = mask)
    BY <1>2, <1>5 DEF IInv, MaskQueued
  <2> QED BY <1>1, <1>2, <2>1, <2>2 DEF MaskQueued
<1> QED BY <1>7, <1>8, <1>9, <1>10 DEF IInv

LEMMA StutterIInv == IInv /\ UNCHANGED vars => IInv'
<1> SUFFICES ASSUME IInv, UNCHANGED vars PROVE IInv'
  OBVIOUS
<1>1. UNCHANGED <<source, buf, passed, pl, in_mask, in_navigation, mask, mask_final, expect, enabled,
                  flags, orders, vgdMask, vgdDeveloping, line, pos, running, cmd, shellPl>>
  BY DEF vars, bufVars, modeVars, queueVars, vgdVars, shellVars, heardVars
<1> QED BY <1>1, ZenonT(60) DEF IInv, TypeOK, ModesAgree, TurnInv, MaskQueued

LEMMA NextIInv == IInv /\ [Next]_vars => IInv'
  BY ReadIInv, ShellPromptsIInv, ProcessShellIInv, CtrlGIInv, PassOnIInv, MaskKeyIInv, MaskStartsIInv,
     NavigationKeyIInv, NavigationEndsIInv, CommandIInv, UnscannedIInv, WriteIInv, ActionLoopIInv,
     StutterIInv DEF Next, Scan

\* The inductive invariant holds of every reachable state.
THEOREM Invariant == Spec => []IInv
  BY InitIInv, NextIInv, PTL DEF Spec

-----------------------------------------------------------------------------
(* What the runs check of the instance, of all of them.                    *)

\* A mask never outgrows its buffer, and the cursor is always in the line
\* (cmdline.c: cmd_mask_add; vgseer.c: escape_filename).
THEOREM TypeCorrect == Spec => []TypeOK
<1>1. IInv => TypeOK
  BY DEF IInv
<1> QED BY <1>1, Invariant, PTL

\* The static flags of seq_viewglob_all agree with the connection's level
\* (sequences.c).
THEOREM ModesAlwaysAgree == Spec => []ModesAgree
<1>1. IInv => ModesAgree
  BY DEF IInv
<1> QED BY <1>1, Invariant, PTL

\* Whatever is typed, chosen and printed within a turn of the loop, in which
\* order, vgd has the masks when it ends (actions.c; vgseer.c: action_loop).
THEOREM VgdAlwaysHasTheMask == Spec => []VgdHasTheMask
<1>1. IInv => VgdHasTheMask
  BY DEF IInv, TurnInv, MaskQueued, VgdHasTheMask
<1> QED BY <1>1, Invariant, PTL

\* In no step is a key of the mode left to the shell, or one of the shell's taken
\* (sequences.c: seq_viewglob_all; connection.c: eat_segment, pass_segment).
LEMMA StepTakesItsKeys ==
    ASSUME IInv, [Next]_vars, Len(buf') < Len(buf)
    PROVE  IF passed' = passed THEN pl = "viewglob" \/ Head(buf) = "CtrlG"
           ELSE ~enabled \/ pl' = "terminal"
<1>1. buf \in Seq(KeyCodes) /\ passed \in Seq(KeyCodes) /\ buf' \in Seq(KeyCodes)
  BY NextIInv DEF IInv, TurnInv
<1>2. buf # <<>> /\ buf # buf'
  BY <1>1
<1>3. ASSUME Pass PROVE passed' # passed
  <2>1. passed' = Append(passed, Head(buf)) /\ Head(buf) \in KeyCodes
    BY <1>3, <1>2, Bytes DEF Pass
  <2>2. Len(passed') = Len(passed) + 1 /\ Len(passed) \in Nat
    BY <1>1, <2>1, AppendProperties
  <2> QED BY <2>2
<1>4. CASE process_terminal \/ process_vgd
  BY <1>2, <1>4 DEF process_terminal, process_vgd, IInv, TurnInv
<1>5. CASE ShellPrompts \/ process_shell \/ connection_write \/ action_loop \/ UNCHANGED vars
  BY <1>2, <1>5 DEF ShellPrompts, process_shell, connection_write, action_loop, vars, bufVars
<1>6. CASE seq_ctrl_g
  BY <1>6 DEF seq_ctrl_g, Eat
<1>7. CASE PassOn
  BY <1>3, <1>7 DEF PassOn, modeVars
<1>8. CASE Unscanned
  BY <1>3, <1>8 DEF Unscanned
<1>9. CASE MaskKey \/ MaskStarts \/ NavigationKey
  BY <1>9 DEF MaskKey, MaskStarts, NavigationKey, Eat
<1>10. CASE NavigationEnds
  BY <1>3, <1>10 DEF NavigationEnds, ChainEnds, Terminal, Mode, Eat
<1>11. CASE Command
  BY <1>11 DEF Command, Terminal, Mode
<1> QED BY <1>4, <1>5, <1>6, <1>7, <1>8, <1>9, <1>10, <1>11 DEF Next, Scan

THEOREM ModeAlwaysTakesItsKeys == Spec => ModeTakesItsKeys
<1>1. IInv /\ [Next]_vars =>
        [Len(buf') < Len(buf) =>
           IF passed' = passed THEN pl = "viewglob" \/ Head(buf) = "CtrlG"
           ELSE ~enabled \/ pl' = "terminal"]_vars
  BY StepTakesItsKeys
<1> QED BY <1>1, Invariant, PTL DEF Spec, ModeTakesItsKeys

-----------------------------------------------------------------------------
(* A name chosen in the display.                                           *)

\* Of characters alone the shell's line gets all.
LEMMA TextOfIsAll ==
    ASSUME NEW keys \in Seq(Printables)
    PROVE  TextOf(keys) = keys
<1> DEFINE V == Seq(Printables)
           n == Len(keys)
           Is(f) == f = [k \in 0..n |->
                            IF k = 0 THEN <<>>
                            ELSE IF keys[k] \in Printables THEN Append(f[k - 1], keys[k])
                            ELSE f[k - 1]]
           upTo == CHOOSE f : Is(f)
           first == [k \in 0..n |-> SubSeq(keys, 1, k)]
<1>1. n \in Nat /\ \A k \in 1..n : keys[k] \in Printables
  OBVIOUS
<1>2. Is(first)
  <2>1. ASSUME NEW k \in 0..n
        PROVE  first[k] = IF k = 0 THEN <<>>
                          ELSE IF keys[k] \in Printables THEN Append(first[k - 1], keys[k])
                          ELSE first[k - 1]
    <3>1. CASE k = 0
      BY <3>1
    <3>2. CASE k # 0
      <4>1. k \in 1..n /\ k - 1 \in 0..n
        BY <3>2, <1>1
      <4>2. SubSeq(keys, 1, k) = Append(SubSeq(keys, 1, k - 1), keys[k])
        BY <4>1
      <4> QED BY <1>1, <3>2, <4>1, <4>2
    <3> QED BY <3>1, <3>2
  <2> HIDE DEF n
  <2> QED BY <2>1
<1>3. Is(upTo)
  <2> HIDE DEF Is
  <2> QED BY <1>2
<1>4. \A k \in 0..n : upTo[k] = SubSeq(keys, 1, k)
  <2> DEFINE T == {k \in 0..n : upTo[k] = SubSeq(keys, 1, k)}
  <2> HIDE DEF upTo
  <2>1. 0 \in T
    BY <1>1, <1>3
  <2>2. ASSUME NEW k \in 1..n, k - 1 \in T
        PROVE  k \in T
    <3>1. k \in 0..n /\ k # 0
      BY <1>1
    <3>2. upTo[k] = IF keys[k] \in Printables THEN Append(upTo[k - 1], keys[k]) ELSE upTo[k - 1]
      BY <1>3, <3>1
    <3>3. upTo[k - 1] = SubSeq(keys, 1, k - 1)
      BY <2>2
    <3>4. upTo[k] = SubSeq(keys, 1, k)
      BY <1>1, <3>2, <3>3
    <3> QED BY <3>1, <3>4
  <2>3. \A k \in 1..n : k - 1 \in T => k \in T
    BY <2>2
  <2>4. \A k \in 0..n : k \in T
    <3> HIDE DEF T, n
    <3> QED BY <1>1, <2>1, <2>3, BoundedInduction
  <2> QED BY <2>4
<1>5. TextOf(keys) = upTo[n]
  BY DEF TextOf
<1>6. SubSeq(keys, 1, n) = keys
  OBVIOUS
<1> QED
  <2> HIDE DEF upTo
  <2> QED BY <1>1, <1>4, <1>5, <1>6

\* What escape_filename puts before a name and after it, where there is no space.
LEMMA SpacesAround ==
    ASSUME NEW name \in Seq(Printables), shellPl = "prompt"
    PROVE  LET text == escape_filename(name)
           IN /\ text \in Seq(Printables)
              /\ ~cmd_whitespace_to_left => text # <<>> /\ text[1] = Space
              /\ ~cmd_whitespace_to_right => text # <<>> /\ text[Len(text)] = Space
<1> DEFINE text == escape_filename(name)
           lead == IF cmd_whitespace_to_left THEN <<>> ELSE <<Space>>
           trail == IF cmd_whitespace_to_right THEN <<>> ELSE <<Space>>
<1>1. Escaped(name) \in Seq(Printables) /\ text \in Seq(Printables)
  BY EscapedType
<1>2. text = lead \o Escaped(name) \o trail
  BY DEF escape_filename
<1>3. Space \in Printables
  BY DEF Printables
<1>4. lead \in Seq(Printables) /\ trail \in Seq(Printables)
  BY <1>3
<1>5. PICK esc \in Seq(Printables) : esc = Escaped(name)
  BY <1>1
<1> HIDE DEF text
<1>6. text = lead \o esc \o trail /\ lead \o esc \in Seq(Printables)
  BY <1>2, <1>4, <1>5
<1>7. ~cmd_whitespace_to_left => text # <<>> /\ text[1] = Space
  <2> SUFFICES ASSUME ~cmd_whitespace_to_left PROVE text # <<>> /\ text[1] = Space
    OBVIOUS
  <2>1. lead = <<Space>>
    OBVIOUS
  <2> HIDE DEF lead, trail
  <2> QED BY <1>3, <1>4, <1>5, <1>6, <2>1
<1>8. ~cmd_whitespace_to_right => text # <<>> /\ text[Len(text)] = Space
  <2> SUFFICES ASSUME ~cmd_whitespace_to_right PROVE text # <<>> /\ text[Len(text)] = Space
    OBVIOUS
  <2>1. trail = <<Space>>
    OBVIOUS
  <2> HIDE DEF lead, trail
  <2> QED BY <1>3, <1>4, <1>5, <1>6, <2>1
<1> QED BY <1>1, <1>7, <1>8 DEF text

\* A name is on its way as a whole, or a mask has it.
LEMMA InitNameInv == Init => NameInv
  BY DEF Init, NameInv

\* The scan of a byte when a name is being read.
LEMMA ScanNameInv ==
    ASSUME Names \subseteq Seq(Printables), IInv, NameInv, Scan
    PROVE  NameInv'
<1> SUFFICES ASSUME source = "vgd" PROVE NameInv'
  <2>1. source' = source
    BY DEF Scan, seq_ctrl_g, PassOn, MaskKey, MaskStarts, NavigationKey, NavigationEnds, Command,
           ChainEnds, Eat, Pass
  <2> QED BY <2>1 DEF NameInv
<1>1. UNCHANGED <<cmd, shellPl>> /\ buf # <<>> /\ buf \in Seq(KeyCodes) /\ passed \in Seq(KeyCodes)
  BY DEF Scan, seq_ctrl_g, PassOn, MaskKey, MaskStarts, NavigationKey, NavigationEnds, Command,
         Scans, Other, heardVars, IInv, TurnInv
<1>2. \A name \in Names : escape_filename(name)' = escape_filename(name)
  BY <1>1 DEF escape_filename, cmd_whitespace_to_left, cmd_whitespace_to_right
<1>3. PICK n \in Nat : n = Len(buf) /\ n > 0
  BY <1>1
<1>4. Head(buf) \in ToSet(buf) /\ Tail(buf) \in Seq(KeyCodes) /\ ToSet(Tail(buf)) \subseteq ToSet(buf)
  BY <1>1 DEF ToSet
<1>5. passed \o buf = Append(passed, Head(buf)) \o Tail(buf)
  BY <1>1
<1>6. \A i \in Nat : ToSet(SubSeq(buf, i + 1, Len(buf))) \subseteq ToSet(buf)
  BY <1>1 DEF ToSet
<1>7. Eat(1) => buf' = Tail(buf) /\ passed' = passed
  BY <1>1 DEF Eat
<1>8. Pass => /\ buf' = Tail(buf) /\ passed' = Append(passed, Head(buf)) /\ passed' \o buf' = passed \o buf
  BY <1>5 DEF Pass
<1>9. ToSet(Append(passed, Head(buf))) = ToSet(passed) \cup {Head(buf)}
  BY <1>1 DEF ToSet
\* A key that spells no name goes its way.
<1>10. CASE "f" \notin ToSet(passed) \cup ToSet(buf)
  <2>1. \/ \E i \in Nat : buf' = SubSeq(buf, i + 1, Len(buf)) /\ passed' = passed
        \/ buf' = Tail(buf) /\ passed' = Append(passed, Head(buf))
    <3>1. \A i \in Nat : Eat(i) => \E j \in Nat : buf' = SubSeq(buf, j + 1, Len(buf)) /\ passed' = passed
      BY DEF Eat
    <3>2. Pass => buf' = Tail(buf) /\ passed' = Append(passed, Head(buf))
      BY DEF Pass
    <3>3. Eat(1) \/ Eat(3) \/ Pass
      BY DEF Scan, seq_ctrl_g, PassOn, MaskKey, MaskStarts, NavigationKey, NavigationEnds, Command, ChainEnds
    <3>4. 1 \in Nat /\ 3 \in Nat
      OBVIOUS
    <3> QED BY <3>1, <3>2, <3>3, <3>4
  <2>2. "f" \notin ToSet(passed') \cup ToSet(buf')
    BY <1>4, <1>6, <1>9, <1>10, <2>1
  <2> QED BY <2>2 DEF NameInv
\* A mask takes one character after the other.
<1>11. ASSUME buf \in Seq(Printables)
       PROVE  Head(buf) \in Printables /\ Tail(buf) \in Seq(Printables)
  BY <1>1, <1>11
<1>12. Printables \cap ({"Enter", "ESC", "CtrlG"} \cup Rubouts \cup DOMAIN Moves) = {}
       /\ Space \in Printables
  BY DEF Printables, Rubouts, Moves, Space
<1>13. ASSUME Head(buf) \in Printables PROVE ~Moving
  <2>1. Head(buf) # "ESC" /\ Head(buf) \notin DOMAIN Moves
    BY <1>12, <1>13
  <2>2. Head(Arrow) = "ESC"
    BY DEF Arrow
  <2> QED BY <2>1, <2>2 DEF Moving, arrow_key
<1>14. ASSUME in_mask, buf \in Seq(Printables), passed = <<>>
       PROVE  NameInv'
  <2>1. pl = "viewglob"
    BY <1>14 DEF IInv, ModesAgree
  <2>2. MaskKey
    BY <1>14, <2>1 DEF Scan, seq_ctrl_g, PassOn, MaskStarts, NavigationKey, NavigationEnds, Command,
                       IInv, ModesAgree
  <2>3. in_mask' = in_mask
    BY <1>11, <1>12, <1>14, <2>2 DEF MaskKey
  <2>4. buf' = Tail(buf) /\ passed' = <<>>
    BY <1>7, <1>14, <2>2 DEF MaskKey
  <2> QED BY <1>11, <1>14, <2>3, <2>4 DEF NameInv
<1>15. CASE /\ \E name \in Names : passed \o buf = escape_filename(name)
            /\ pl = "viewglob" => passed = <<>>
  <2>1. PICK name \in Names : passed \o buf = escape_filename(name)
    BY <1>15
  <2>2. passed \o buf \in Seq(Printables)
    BY <2>1, EscapedType
  <2>3. buf \in Seq(Printables)
    <3>1. Len(passed \o buf) = Len(passed) + Len(buf) /\ Len(passed) \in Nat
      BY <1>1
    <3>2. ASSUME NEW i \in 1..Len(buf) PROVE buf[i] \in Printables
      <4>1. buf[i] = (passed \o buf)[Len(passed) + i] /\ Len(passed) + i \in 1..Len(passed \o buf)
        BY <1>1, <3>1
      <4> QED BY <2>2, <4>1
    <3> QED BY <1>1, <3>2
  <2>4. Head(buf) \in Printables /\ Head(buf) # "CtrlG" /\ ~Moving
    BY <1>11, <1>12, <1>13, <2>3
  <2>5. CASE pl = "terminal"
    <3>1. PassOn
      BY <2>4, <2>5 DEF Scan, seq_ctrl_g, MaskKey, MaskStarts, NavigationKey, NavigationEnds, Command
    <3>2. passed' \o buf' = passed \o buf /\ pl' = "terminal"
      BY <1>8, <2>5, <3>1 DEF PassOn, modeVars
    <3> QED BY <1>2, <2>1, <3>2 DEF NameInv
  <2>6. CASE pl = "viewglob" /\ in_mask
    BY <1>14, <1>15, <2>3, <2>6
  <2>7. CASE pl = "viewglob" /\ in_navigation
    <3>1. ~in_mask
      BY <2>7 DEF IInv, ModesAgree
    <3>2. NavigationEnds
      BY <2>4, <2>7, <3>1 DEF Scan, seq_ctrl_g, PassOn, MaskKey, MaskStarts, NavigationKey, Command, Moving
    <3>3. Pass /\ pl' = "terminal"
      BY <2>4, <3>2 DEF NavigationEnds, ChainEnds, Terminal, Mode
    <3>4. passed' \o buf' = passed \o buf
      BY <1>8, <3>3
    <3> QED BY <1>2, <2>1, <3>3, <3>4 DEF NameInv
  <2>8. CASE pl = "viewglob" /\ ~in_mask /\ ~in_navigation
    <3>1. MaskStarts
      BY <2>4, <2>8 DEF Scan, seq_ctrl_g, PassOn, MaskKey, NavigationKey, NavigationEnds, Command, Moving
    <3>2. in_mask' = TRUE /\ buf' = Tail(buf) /\ passed' = passed /\ passed = <<>>
      BY <1>7, <1>15, <2>8, <3>1 DEF MaskStarts
    <3> QED BY <1>11, <2>3, <3>2 DEF NameInv
  <2>9. pl \in {"terminal", "viewglob"} /\ in_mask \in BOOLEAN /\ in_navigation \in BOOLEAN
    BY DEF IInv, TypeOK
  <2> QED BY <2>5, <2>6, <2>7, <2>8, <2>9
<1> QED BY <1>10, <1>14, <1>15 DEF NameInv

LEMMA NextNameInv ==
    ASSUME Names \subseteq Seq(Printables), <<"f">> \notin Reads, IInv, NameInv, [Next]_vars
    PROVE  NameInv'
<1>1. CASE Scan
  BY <1>1, ScanNameInv
<1>2. CASE process_vgd
  <2>1. passed' = <<>> /\ source' = "vgd" /\ UNCHANGED <<cmd, shellPl>>
    BY <1>2 DEF process_vgd, Other, heardVars
  <2>2. CASE \E text \in Reads : Len(text) = 1 /\ buf' = text
    <3>1. PICK text \in Reads : Len(text) = 1 /\ buf' = text
      BY <2>2
    <3>2. text \in Seq(KeyCodes) /\ text = <<text[1]>>
      BY <3>1, KeysAssumption
    <3>3. text[1] # "f"
      BY <3>1, <3>2
    <3>4. ToSet(buf') = {text[1]} /\ ToSet(passed') = {}
      BY <2>1, <3>1, <3>2 DEF ToSet
    <3> QED BY <3>3, <3>4 DEF NameInv
  <2>3. CASE \E name \in Names : buf' = escape_filename(name)
    <3>1. PICK name \in Names : buf' = escape_filename(name)
      BY <2>3
    <3>2. escape_filename(name)' = escape_filename(name)
      BY <2>1 DEF escape_filename, cmd_whitespace_to_left, cmd_whitespace_to_right
    <3>3. buf' \in Seq(Printables)
      BY <3>1, EscapedType
    <3>4. passed' \o buf' = buf'
      BY <2>1, <3>3
    <3> QED BY <2>1, <3>1, <3>2, <3>4 DEF NameInv
  <2> QED BY <1>2, <2>2, <2>3 DEF process_vgd
<1>3. CASE process_terminal \/ ShellPrompts \/ process_shell \/ Unscanned \/ connection_write \/ action_loop
  <2>1. source' # "vgd"
    BY <1>3 DEF process_terminal, ShellPrompts, bufVars, process_shell, Unscanned, Pass,
                connection_write, action_loop
  <2> QED BY <2>1 DEF NameInv
<1>4. CASE UNCHANGED vars
  <2>1. UNCHANGED <<source, buf, passed, pl, in_mask, cmd, shellPl>>
    BY <1>4 DEF vars, bufVars, modeVars, heardVars
  <2> QED BY <2>1 DEF NameInv, escape_filename, cmd_whitespace_to_left, cmd_whitespace_to_right
<1> QED BY <1>1, <1>2, <1>3, <1>4 DEF Next

\* The step that gives the shell a name.
LEMMA WordAtCursor ==
    ASSUME Names \subseteq Seq(Printables), IInv, NameInv, [Next]_vars,
           source = "vgd", "f" \in ToSet(passed), line' # line,
           cmd = [text |-> line, pos |-> pos], shellPl = "prompt", ~running
    PROVE  /\ pos + 1 = 1 \/ line[(pos + 1) - 1] = Space \/ line'[pos + 1] = Space
           /\ line'[pos'] = Space \/ (pos' < Len(line') /\ line'[pos' + 1] = Space)
<1>1. connection_write
  <2>1. CASE Scan
    BY <2>1 DEF Scan, seq_ctrl_g, PassOn, MaskKey, MaskStarts, NavigationKey, NavigationEnds, Command,
                Other, shellVars
  <2>2. CASE process_terminal \/ process_vgd \/ ShellPrompts \/ process_shell \/ Unscanned \/ action_loop
             \/ UNCHANGED vars
    BY <2>2 DEF process_terminal, process_vgd, ShellPrompts, process_shell, Unscanned, action_loop, vars,
                Other, shellVars
  <2> QED BY <2>1, <2>2 DEF Next
<1>2. line \in Seq(Printables) /\ pos \in 0..Len(line) /\ passed \in Seq(KeyCodes) /\ buf = <<>>
  BY <1>1 DEF IInv, TypeOK, TurnInv, connection_write
<1>3. PICK name \in Names : passed = escape_filename(name)
  <2>1. passed # <<>>
    BY DEF ToSet
  <2>2. PICK name \in Names : passed \o buf = escape_filename(name)
    BY <2>1 DEF NameInv
  <2>3. passed \o buf = passed
    BY <1>2
  <2> QED BY <2>2, <2>3
<1>4. /\ passed \in Seq(Printables)
      /\ ~cmd_whitespace_to_left => passed # <<>> /\ passed[1] = Space
      /\ ~cmd_whitespace_to_right => passed # <<>> /\ passed[Len(passed)] = Space
  BY <1>3, SpacesAround
<1>5. TextOf(passed) = passed
  BY <1>4, TextOfIsAll
<1>6. {"Enter", "CtrlC"} \cap ToSet(passed) = {} /\ "CtrlA" \notin ToSet(passed)
  <2>1. ToSet(passed) \subseteq Printables
    BY <1>4 DEF ToSet
  <2>2. {"Enter", "CtrlC", "CtrlA"} \cap Printables = {}
    BY DEF Printables, Space
  <2> QED BY <2>1, <2>2
<1> DEFINE left == SubSeq(line, 1, pos)
           right == SubSeq(line, pos + 1, Len(line))
<1>7. line' = left \o passed \o right /\ pos' = pos + Len(passed)
  BY <1>1, <1>5, <1>6 DEF connection_write, ShellEdits
<1>8. /\ left \in Seq(Printables) /\ Len(left) = pos /\ right \in Seq(Printables)
      /\ Len(right) = Len(line) - pos
      /\ pos < Len(line) => right[1] = line[pos + 1]
  <2>1. PICK n \in Nat : n = Len(line)
    BY <1>2
  <2>2. left \in Seq(Printables) /\ Len(left) = pos
    BY <1>2
  <2>3. pos + 1 \in Nat /\ pos + 1 <= n + 1
    BY <1>2, <2>1
  <2>4. right \in Seq(Printables) /\ Len(right) = n - pos
    BY <1>2, <2>1, <2>3
  <2>5. pos < n => right[1] = line[pos + 1]
    BY <1>2, <2>1, <2>3
  <2> QED BY <2>1, <2>2, <2>4, <2>5
<1>9. cmd.text = line /\ cmd.pos = pos
  OBVIOUS
<1>10. passed # <<>> /\ Len(passed) \in Nat \ {0}
  BY <1>4 DEF ToSet
<1> HIDE DEF left, right
<1>11. /\ Len(line') = pos + Len(passed) + Len(right)
       /\ line'[pos + 1] = passed[1] /\ line'[pos + Len(passed)] = passed[Len(passed)]
       /\ pos < Len(line) => line'[pos + Len(passed) + 1] = right[1]
  <2>1. PICK p \in Nat : p = pos
    BY <1>2
  <2>2. PICK m \in Nat \ {0} : m = Len(passed)
    BY <1>10
  <2>3. PICK k \in Nat : k = Len(right) /\ k = Len(line) - p
    BY <1>8, <2>1
  <2>4. PICK lp \in Seq(Printables) : lp = left \o passed /\ Len(lp) = p + m
    <3>1. p \in Nat /\ m \in Nat /\ Len(left) = p /\ Len(passed) = m
      BY <1>8, <2>1, <2>2
    <3>2. left \o passed \in Seq(Printables) /\ Len(left \o passed) = p + m
      BY <1>4, <1>8, <3>1, ConcatIs
    <3> QED BY <3>2
  <2>5. lp[p + 1] = passed[1] /\ lp[p + m] = passed[m]
    <3>1. 1 \in 1..Len(passed) /\ m \in 1..Len(passed) /\ Len(left) = p
      BY <1>8, <2>1, <2>2
    <3>2. ASSUME NEW i \in 1..Len(passed)
          PROVE  (left \o passed)[p + i] = passed[i]
      <4>1. PICK j \in Nat : j = p + i /\ j = Len(left) + i
        BY <3>1
      <4>2. left \in Seq(Printables) /\ passed \in Seq(Printables)
        BY <1>4, <1>8
      <4> QED BY <4>1, <4>2, ConcatAfter
    <3>3. (left \o passed)[p + 1] = passed[1] /\ (left \o passed)[p + m] = passed[m]
      BY <3>1, <3>2
    <3> QED BY <2>4, <3>3
  <2>6. line' = lp \o right
    BY <1>7, <2>4
  <2>7. Len(line') = (p + m) + k /\ \A j \in 1..(p + m) : line'[j] = lp[j]
    <3>1. PICK n \in Nat : n = p + m
      OBVIOUS
    <3>2. Len(lp) = n /\ right \in Seq(Printables) /\ Len(right) = k
      BY <1>8, <2>3, <2>4, <3>1
    <3>3. Len(lp \o right) = n + k /\ \A j \in 1..n : (lp \o right)[j] = lp[j]
      BY <3>2, ConcatIs
    <3> QED BY <2>6, <3>1, <3>3
  <2>9. line'[p + 1] = lp[p + 1] /\ line'[p + m] = lp[p + m]
    <3>1. p + 1 \in 1..(p + m) /\ p + m \in 1..(p + m)
      OBVIOUS
    <3> QED BY <2>7, <3>1
  <2>8. pos < Len(line) => line'[p + m + 1] = right[1]
    <3> SUFFICES ASSUME pos < Len(line) PROVE line'[p + m + 1] = right[1]
      OBVIOUS
    <3>1. 1 \in 1..Len(right) /\ p + m + 1 = Len(lp) + 1
      BY <1>2, <1>8, <2>1, <2>4
    <3> QED BY <1>8, <2>6, <3>1, ConcatAfter
  <2> QED BY <2>1, <2>2, <2>3, <2>5, <2>7, <2>8, <2>9
<1>12. pos = 0 \/ line[pos] = Space \/ line'[pos + 1] = Space
  <2>1. CASE cmd_whitespace_to_left
    BY <1>9, <2>1 DEF cmd_whitespace_to_left
  <2>2. CASE ~cmd_whitespace_to_left
    <3>1. passed[1] = Space
      BY <1>4, <2>2
    <3> QED BY <1>11, <3>1
  <2> QED BY <2>1, <2>2
<1>13. line'[pos'] = Space \/ (pos' < Len(line') /\ line'[pos' + 1] = Space)
  <2>1. CASE cmd_whitespace_to_right
    <3>1. pos < Len(line) /\ line[pos + 1] = Space
      BY <1>9, <2>1 DEF cmd_whitespace_to_right
    <3>2. line'[pos' + 1] = Space
      BY <1>7, <1>8, <1>11, <3>1
    <3>3. pos' < Len(line')
      BY <1>2, <1>7, <1>8, <1>10, <1>11, <3>1
    <3> QED BY <3>2, <3>3
  <2>2. CASE ~cmd_whitespace_to_right
    <3>1. passed[Len(passed)] = Space
      BY <1>4, <2>2
    <3> QED BY <1>7, <1>11, <3>1
  <2> QED BY <2>1, <2>2
<1>14. (pos + 1 = 1 <=> pos = 0) /\ (pos + 1) - 1 = pos
  BY <1>2
<1> QED BY <1>12, <1>13, <1>14

\* Whatever line vgseer has heard of, wherever the cursor is in it and whatever
\* mode the display's name finds: it becomes a word of its own or none.  Names
\* are of characters, a control character in one being a key (ESC would end a mask
\* and the rest of the name pass without its space), and "f" is what tells a name
\* from a key here (vgseer.c: process_vgd, escape_filename).
THEOREM NameAlwaysAWord ==
    ASSUME Names \subseteq Seq(Printables), <<"f">> \notin Reads
    PROVE  Spec => NameIsAWord
<1>1. Init => NameInv
  BY InitNameInv
<1>2. IInv /\ NameInv /\ [Next]_vars => NameInv'
  BY NextNameInv
<1>3. IInv /\ NameInv /\ [Next]_vars =>
        [(source = "vgd" /\ "f" \in ToSet(passed) /\ line' # line /\ cmd = [text |-> line, pos |-> pos]
            /\ shellPl = "prompt" /\ ~running /\ Head(passed) \in Printables)
          => LET from == pos + 1
                 to == pos' IN
             /\ from = 1 \/ line[from - 1] = Space \/ line'[from] = Space
             /\ line'[to] = Space \/ (to < Len(line') /\ line'[to + 1] = Space)]_vars
  BY WordAtCursor
<1> QED BY <1>1, <1>2, <1>3, Invariant, PTL DEF Spec, NameIsAWord

=============================================================================
