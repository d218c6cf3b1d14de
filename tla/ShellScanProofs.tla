---------------------------- MODULE ShellScanProofs ----------------------------
(***************************************************************************)
(* Proofs about ShellScan: vgd has the line, no byte reaches the terminal  *)
(* twice and nothing of a directory's marker does, whatever is typed and   *)
(* printed and however the reads cut it.                                   *)
(***************************************************************************)
EXTENDS ShellScan, DataLemmas

-----------------------------------------------------------------------------
(* The command line, whose bytes may be anything: a character cut short    *)
(* can leave the cursor past the end, and then so is a part of it.         *)

AList(s) == \E S : s \in Seq(S)

ALine(l) ==
    /\ l = [data |-> l.data, pos |-> l.pos, partial |-> l.partial,
            rebuilding |-> l.rebuilding]
    /\ AList(l.data) /\ AList(l.partial) /\ l.pos \in Nat

LEMMA AListHas ==
    ASSUME NEW s, AList(s)
    PROVE  Len(s) \in Nat /\ DOMAIN s = 1..Len(s) /\ s \in Seq({s[i] : i \in 1..Len(s)})
<1>1. PICK S : s \in Seq(S)
  BY DEF AList
<1> QED BY <1>1

LEMMA PartIsList ==
    ASSUME NEW s, AList(s), NEW m \in Nat, NEW k \in Int
    PROVE  AList(SubSeq(s, m, k))
<1> DEFINE t == SubSeq(s, m, k)
<1>1. PICK l \in Nat : 1..l = 1..(1 + k - m)
  <2>1. CASE 1 + k - m < 0
    <3>1. 1..(1 + k - m) = 1..0
      BY <2>1
    <3> QED BY <3>1
  <2>2. CASE ~(1 + k - m < 0)
    <3>1. 1 + k - m \in Nat
      BY <2>2
    <3> QED BY <3>1
  <2> QED BY <2>1, <2>2
<1>2. t = [i \in 1..(1 + k - m) |-> s[m + i - 1]]
  OBVIOUS
<1>3. t = [i \in 1..l |-> t[i]]
  BY <1>1, <1>2
<1>4. t \in Seq({t[i] : i \in 1..l})
  <2> HIDE DEF t
  <2> QED BY <1>3, FunctionIs
<1> QED BY <1>4 DEF AList

LEMMA JoinedIsList ==
    ASSUME NEW s, AList(s), NEW t, AList(t)
    PROVE  AList(s \o t)
<1>1. PICK S : s \in Seq(S)
  BY DEF AList
<1>2. PICK T : t \in Seq(T)
  BY DEF AList
<1>3. s \in Seq(S \cup T) /\ t \in Seq(S \cup T)
  BY <1>1, <1>2
<1>4. s \o t \in Seq(S \cup T)
  BY <1>3, ConcatProperties
<1> QED BY <1>4 DEF AList

LEMMA LongerIsList ==
    ASSUME NEW s, AList(s), NEW b
    PROVE  AList(Append(s, b))
<1>1. PICK S : s \in Seq(S)
  BY DEF AList
<1>2. s \in Seq(S \cup {b})
  BY <1>1
<1>3. Append(s, b) \in Seq(S \cup {b})
  BY <1>2, AppendProperties
<1> QED BY <1>3 DEF AList

\* The cursor moves forward to a place, or cannot.
LEMMA ForwardIs ==
    ASSUME NEW l, ALine(l), NEW k \in Nat
    PROVE  cmd_forward(l, k) \in Nat \cup {Fails}
<1> DEFINE V == Nat \cup {Fails}
           To(p) == IF p \in {Fails, Len(l.data)} THEN Fails ELSE NextChar(l.data, p)
           Is(f) == f = [j \in 0..k |->
                            IF j = 0 THEN l.pos
                            ELSE IF f[j - 1] \in {Fails, Len(l.data)} THEN Fails
                            ELSE NextChar(l.data, f[j - 1])]
           step == [j \in 1..k |-> [p \in V |-> To(p)]]
           at == CHOOSE f : Is(f)
<1>1. l.pos \in V /\ l.pos \in Nat
  BY DEF ALine
<1>2. \A p \in V : To(p) \in V
  BY DEF NextChar, Fails
<1>3. step \in [1..k -> [V -> V]] /\ \A j \in 1..k : \A p \in V : step[j][p] = To(p)
  <2> HIDE DEF To, V
  <2> QED BY <1>2
<1>4. PICK g \in [0..k -> V] : Iterates(g, k, l.pos, step)
  <2> HIDE DEF V, step
  <2> QED BY <1>1, <1>3, Recursion
<1>5. Is(g)
  <2>1. ASSUME NEW j \in 0..k
        PROVE  g[j] = IF j = 0 THEN l.pos ELSE To(g[j - 1])
    <3> HIDE DEF To, V, step
    <3>1. CASE j = 0
      BY <1>4, <3>1 DEF Iterates
    <3>2. CASE j # 0
      <4>1. j \in 1..k /\ j - 1 \in 0..k
        BY <3>2
      <4>2. g[j - 1] \in V
        BY <1>4, <4>1
      <4> QED BY <1>3, <1>4, <3>2, <4>1, <4>2 DEF Iterates
    <3> QED BY <3>1, <3>2
  <2> HIDE DEF V, step
  <2> QED BY <2>1
<1>6. Is(at)
  <2> HIDE DEF Is
  <2> QED BY <1>5
<1>7. \A j \in 0..k : at[j] \in V
  <2> DEFINE T == {j \in 0..k : at[j] \in V}
  <2>1. /\ at[0] = l.pos
        /\ \A j \in 1..k : at[j] = To(at[j - 1])
    <3> HIDE DEF at
    <3> QED BY <1>6
  <2> HIDE DEF at, To, V
  <2>2. 0 \in T
    BY <1>1, <2>1
  <2>3. \A j \in 1..k : j - 1 \in T => j \in T
    BY <1>2, <2>1
  <2> HIDE DEF T
  <2>4. \A j \in 0..k : j \in T
    BY <2>2, <2>3, BoundedInduction
  <2> QED BY <2>4 DEF T
<1>8. cmd_forward(l, k) = at[k]
  BY DEF cmd_forward
<1> QED
  <2> HIDE DEF at
  <2> QED BY <1>7, <1>8

\* And so backward.
LEMMA BackwardIs ==
    ASSUME NEW l, ALine(l), NEW k \in Nat
    PROVE  cmd_backward(l, k) \in Nat \cup {Fails}
<1> DEFINE V == Nat \cup {Fails}
           To(p) == IF p \in {Fails, 0} THEN Fails ELSE PrevChar(l.data, p)
           Is(f) == f = [j \in 0..k |->
                            IF j = 0 THEN l.pos
                            ELSE IF f[j - 1] \in {Fails, 0} THEN Fails
                            ELSE PrevChar(l.data, f[j - 1])]
           step == [j \in 1..k |-> [p \in V |-> To(p)]]
           at == CHOOSE f : Is(f)
<1>1. l.pos \in V /\ l.pos \in Nat
  BY DEF ALine
<1>2. \A p \in V : To(p) \in V
  BY DEF PrevChar, Fails
<1>3. step \in [1..k -> [V -> V]] /\ \A j \in 1..k : \A p \in V : step[j][p] = To(p)
  <2> HIDE DEF To, V
  <2> QED BY <1>2
<1>4. PICK g \in [0..k -> V] : Iterates(g, k, l.pos, step)
  <2> HIDE DEF V, step
  <2> QED BY <1>1, <1>3, Recursion
<1>5. Is(g)
  <2>1. ASSUME NEW j \in 0..k
        PROVE  g[j] = IF j = 0 THEN l.pos ELSE To(g[j - 1])
    <3> HIDE DEF To, V, step
    <3>1. CASE j = 0
      BY <1>4, <3>1 DEF Iterates
    <3>2. CASE j # 0
      <4>1. j \in 1..k /\ j - 1 \in 0..k
        BY <3>2
      <4>2. g[j - 1] \in V
        BY <1>4, <4>1
      <4> QED BY <1>3, <1>4, <3>2, <4>1, <4>2 DEF Iterates
    <3> QED BY <3>1, <3>2
  <2> HIDE DEF V, step
  <2> QED BY <2>1
<1>6. Is(at)
  <2> HIDE DEF Is
  <2> QED BY <1>5
<1>7. \A j \in 0..k : at[j] \in V
  <2> DEFINE T == {j \in 0..k : at[j] \in V}
  <2>1. /\ at[0] = l.pos
        /\ \A j \in 1..k : at[j] = To(at[j - 1])
    <3> HIDE DEF at
    <3> QED BY <1>6
  <2> HIDE DEF at, To, V
  <2>2. 0 \in T
    BY <1>1, <2>1
  <2>3. \A j \in 1..k : j - 1 \in T => j \in T
    BY <1>2, <2>1
  <2> HIDE DEF T
  <2>4. \A j \in 0..k : j \in T
    BY <2>2, <2>3, BoundedInduction
  <2> QED BY <2>4 DEF T
<1>8. cmd_backward(l, k) = at[k]
  BY DEF cmd_backward
<1> QED
  <2> HIDE DEF at
  <2> QED BY <1>7, <1>8

LEMMA ErasedIsList ==
    ASSUME NEW s, AList(s), NEW from \in Int, NEW to \in Int, to + 1 \in Nat
    PROVE  AList(Erase(s, from, to))
<1>1. Len(s) \in Int
  BY AListHas
<1>2. AList(SubSeq(s, 1, from)) /\ AList(SubSeq(s, to + 1, Len(s)))
  BY <1>1, PartIsList
<1> QED BY <1>2, JoinedIsList DEF Erase

LEMMA SplicedIsList ==
    ASSUME NEW s, AList(s), NEW p \in Nat, NEW bytes, AList(bytes)
    PROVE  AList(Splice(s, p, bytes))
<1>1. Len(s) \in Int
  BY AListHas
<1>2. AList(SubSeq(s, 1, p)) /\ AList(SubSeq(s, p + 1, Len(s)))
  BY <1>1, PartIsList
<1>3. AList(SubSeq(s, 1, p) \o bytes)
  BY <1>2, JoinedIsList
<1>4. AList((SubSeq(s, 1, p) \o bytes) \o SubSeq(s, p + 1, Len(s)))
  <2> DEFINE a == SubSeq(s, 1, p) \o bytes
             b == SubSeq(s, p + 1, Len(s))
  <2>1. AList(a) /\ AList(b)
    BY <1>2, <1>3
  <2> HIDE DEF a, b
  <2>2. AList(a \o b)
    BY <2>1, JoinedIsList
  <2> QED BY <2>2 DEF a, b
<1> QED BY <1>4 DEF Splice

\* What a line keeps when a field of it changes.
LEMMA LineWith ==
    ASSUME NEW l, ALine(l)
    PROVE  /\ \A d : AList(d) => ALine([l EXCEPT !.data = d])
           /\ \A p \in Nat : ALine([l EXCEPT !.pos = p])
           /\ \A d : \A p \in Nat : AList(d) => ALine([l EXCEPT !.data = d, !.pos = p])
           /\ \A b : ALine([l EXCEPT !.rebuilding = b])
           /\ \A b : ALine([l EXCEPT !.rebuilding = b, !.pos = 0])
           /\ \A b : AList(b) => ALine([l EXCEPT !.partial = b])
           /\ \A d : \A p \in Nat : AList(d) => ALine([l EXCEPT !.data = d, !.pos = p, !.partial = <<>>])
           /\ \A d : [l EXCEPT !.data = d].data = d
           /\ \A p : [l EXCEPT !.pos = p].data = l.data /\ [l EXCEPT !.pos = p].pos = p
           /\ \A b : [l EXCEPT !.rebuilding = b].data = l.data
<1> DEFINE R(d, p, b, r) == [data |-> d, pos |-> p, partial |-> b, rebuilding |-> r]
<1>1. \A d, p, b, r : AList(d) /\ AList(b) /\ p \in Nat => ALine(R(d, p, b, r))
  BY DEF ALine
<1>2. /\ l = R(l.data, l.pos, l.partial, l.rebuilding)
      /\ AList(l.data) /\ AList(l.partial) /\ l.pos \in Nat
  BY DEF ALine
<1>3. /\ \A d : [l EXCEPT !.data = d] = R(d, l.pos, l.partial, l.rebuilding)
      /\ \A p : [l EXCEPT !.pos = p] = R(l.data, p, l.partial, l.rebuilding)
      /\ \A b : [l EXCEPT !.partial = b] = R(l.data, l.pos, b, l.rebuilding)
      /\ \A r : [l EXCEPT !.rebuilding = r] = R(l.data, l.pos, l.partial, r)
  BY <1>2
<1>4. ASSUME NEW d, NEW p
      PROVE  /\ [l EXCEPT !.data = d, !.pos = p] = R(d, p, l.partial, l.rebuilding)
             /\ [l EXCEPT !.data = d, !.pos = p, !.partial = <<>>] = R(d, p, <<>>, l.rebuilding)
  <2>1. PICK m : m = [l EXCEPT !.data = d]
    OBVIOUS
  <2>2. m = R(d, l.pos, l.partial, l.rebuilding)
    BY <1>3, <2>1
  <2>3. PICK m2 : m2 = [m EXCEPT !.pos = p]
    OBVIOUS
  <2>4. m2 = R(d, p, l.partial, l.rebuilding)
    BY <2>2, <2>3
  <2>5. [l EXCEPT !.data = d, !.pos = p] = m2
    BY <2>1, <2>3
  <2>6. [l EXCEPT !.data = d, !.pos = p, !.partial = <<>>] = [m2 EXCEPT !.partial = <<>>]
    BY <2>1, <2>3
  <2>7. [m2 EXCEPT !.partial = <<>>] = R(d, p, <<>>, l.rebuilding)
    BY <2>4
  <2> QED BY <2>4, <2>5, <2>6, <2>7
<1>5. ASSUME NEW r
      PROVE  [l EXCEPT !.rebuilding = r, !.pos = 0] = R(l.data, 0, l.partial, r)
  <2>1. PICK m : m = [l EXCEPT !.rebuilding = r]
    OBVIOUS
  <2>2. m = R(l.data, l.pos, l.partial, r)
    BY <1>3, <2>1
  <2>3. [l EXCEPT !.rebuilding = r, !.pos = 0] = [m EXCEPT !.pos = 0]
    BY <2>1
  <2>4. [m EXCEPT !.pos = 0] = R(l.data, 0, l.partial, r)
    BY <2>2
  <2> QED BY <2>3, <2>4
<1>6. \A d, p, b, r : R(d, p, b, r).data = d /\ R(d, p, b, r).pos = p
  OBVIOUS
<1>7. AList(<<>>)
  <2>1. <<>> \in Seq({})
    OBVIOUS
  <2> QED BY <2>1 DEF AList
<1> HIDE DEF R
<1>8. /\ \A d : AList(d) => ALine([l EXCEPT !.data = d])
      /\ \A b : AList(b) => ALine([l EXCEPT !.partial = b])
  BY <1>1, <1>2, <1>3
<1>9. /\ \A p \in Nat : ALine([l EXCEPT !.pos = p])
      /\ \A b : ALine([l EXCEPT !.rebuilding = b])
  BY <1>1, <1>2, <1>3
<1>10. ASSUME NEW d, NEW p \in Nat, AList(d)
       PROVE  ALine([l EXCEPT !.data = d, !.pos = p])
  <2>1. ALine(R(d, p, l.partial, l.rebuilding))
    BY <1>1, <1>2, <1>10
  <2> QED BY <1>4, <2>1
<1>11. ASSUME NEW d, NEW p \in Nat, AList(d)
       PROVE  ALine([l EXCEPT !.data = d, !.pos = p, !.partial = <<>>])
  <2>1. ALine(R(d, p, <<>>, l.rebuilding))
    BY <1>1, <1>2, <1>7, <1>11
  <2> QED BY <1>4, <2>1
<1>13. ASSUME NEW r
       PROVE  ALine([l EXCEPT !.rebuilding = r, !.pos = 0])
  <2>1. ALine(R(l.data, 0, l.partial, r))
    BY <1>1, <1>2
  <2> QED BY <1>5, <2>1
<1>12. /\ \A d : [l EXCEPT !.data = d].data = d
       /\ \A p : [l EXCEPT !.pos = p].data = l.data /\ [l EXCEPT !.pos = p].pos = p
       /\ \A b : [l EXCEPT !.rebuilding = b].data = l.data
  BY <1>3, <1>6
<1> QED BY <1>8, <1>9, <1>10, <1>11, <1>12, <1>13

LEMMA NoBytes == AList(<<>>)
<1>1. <<>> \in Seq({})
  OBVIOUS
<1> QED BY <1>1 DEF AList

LEMMA ClearIsLine ==
    ASSUME NEW l, ALine(l)
    PROVE  ALine(cmd_clear(l))
BY LineWith, NoBytes DEF cmd_clear

\* The ends of rows are places in the text.
LEMMA RowEndsAre ==
    ASSUME NEW l, ALine(l)
    PROVE  /\ CRsBefore(l.data, l.pos) \in SUBSET (0..l.pos)
           /\ CRsFrom(l.data, l.pos) \in SUBSET (0..Len(l.data))
           /\ CRsBefore(l.data, l.pos) # {} => Max(CRsBefore(l.data, l.pos)) \in Nat
           /\ CRsFrom(l.data, l.pos) # {} => Min(CRsFrom(l.data, l.pos)) \in Nat
<1>1. PICK m \in Nat : m = l.pos
  BY DEF ALine
<1>2. PICK k \in Nat : k = Len(l.data)
  BY AListHas DEF ALine
<1>3. CRsBefore(l.data, l.pos) \in SUBSET (0..m)
  BY <1>1 DEF CRsBefore, CRs
<1>4. CRsFrom(l.data, l.pos) \in SUBSET (0..k)
  BY <1>1, <1>2 DEF CRsFrom, CRs
<1>5. CRsBefore(l.data, l.pos) # {} => Max(CRsBefore(l.data, l.pos)) \in 0..m
  BY <1>3, Bounds
<1>6. CRsFrom(l.data, l.pos) # {} => Min(CRsFrom(l.data, l.pos)) \in 0..k
  BY <1>4, Bounds
<1> QED BY <1>1, <1>2, <1>3, <1>4, <1>5, <1>6

LEMMA OverwrittenIsLine ==
    ASSUME NEW l, ALine(l), NEW b
    PROVE  ALine(cmd_overwrite_char(l, b))
<1> DEFINE bytes == Append(l.partial, b)
           erased == IF l.pos = Len(l.data) THEN l.data
                     ELSE Erase(l.data, l.pos, NextChar(l.data, l.pos))
           data == Splice(erased, l.pos, bytes)
<1>1. AList(l.data) /\ AList(l.partial) /\ l.pos \in Nat
  BY DEF ALine
<1>2. AList(bytes)
  BY <1>1, LongerIsList
<1>3. AList(erased)
  <2>1. NextChar(l.data, l.pos) \in Int /\ NextChar(l.data, l.pos) + 1 \in Nat
    BY <1>1 DEF NextChar
  <2>2. AList(Erase(l.data, l.pos, NextChar(l.data, l.pos)))
    BY <1>1, <2>1, ErasedIsList
  <2> QED BY <1>1, <2>2
<1> HIDE DEF bytes, erased
<1>4. AList(data)
  BY <1>1, <1>2, <1>3, SplicedIsList
<1>5. l.pos + Len(bytes) \in Nat
  BY <1>1, <1>2, AListHas
<1>6. cmd_overwrite_char(l, b) = IF IsLead(bytes[Len(bytes)])
                                 THEN [l EXCEPT !.partial = bytes]
                                 ELSE [l EXCEPT !.data = data, !.pos = l.pos + Len(bytes),
                                                !.partial = <<>>]
  BY DEF cmd_overwrite_char, bytes, erased
<1> HIDE DEF data
<1>7. ALine([l EXCEPT !.partial = bytes])
  BY <1>2, LineWith
<1>8. ALine([l EXCEPT !.data = data, !.pos = l.pos + Len(bytes), !.partial = <<>>])
  BY <1>4, <1>5, LineWith
<1> QED BY <1>6, <1>7, <1>8

LEMMA DeletedIsLine ==
    ASSUME NEW l, ALine(l), NEW k \in Nat
    PROVE  ALine(cmd_del_chars(l, k))
<1>1. AList(l.data) /\ l.pos \in Nat
  BY DEF ALine
<1>2. cmd_forward(l, k) \in Int /\ cmd_forward(l, k) + 1 \in Nat
  BY ForwardIs DEF Fails
<1>3. AList(Erase(l.data, l.pos, cmd_forward(l, k)))
  BY <1>1, <1>2, ErasedIsList
<1> QED BY <1>3, LineWith DEF cmd_del_chars

LEMMA InsertedIsLine ==
    ASSUME NEW l, ALine(l), NEW k \in Nat
    PROVE  ALine(cmd_insert_chars(l, k))
<1> DEFINE blanks == [i \in 1..k |-> Byte(Blank)]
<1>1. AList(l.data) /\ l.pos \in Nat
  BY DEF ALine
<1>2. AList(blanks)
  <2>1. blanks \in Seq({Byte(Blank)})
    OBVIOUS
  <2> QED BY <2>1 DEF AList
<1>3. AList(Splice(l.data, l.pos, blanks))
  <2> HIDE DEF blanks
  <2> QED BY <1>1, <1>2, SplicedIsList
<1> QED BY <1>3, LineWith DEF cmd_insert_chars

LEMMA WipedIsLine ==
    ASSUME NEW l, ALine(l), NEW dir
    PROVE  ALine(cmd_wipe_in_line(l, dir))
<1> DEFINE before == CRsBefore(l.data, l.pos)
           after == CRsFrom(l.data, l.pos)
           to == IF after = {} THEN Len(l.data) ELSE Min(after)
           from == IF before = {} THEN 0 ELSE Max(before)
<1>1. AList(l.data) /\ l.pos \in Nat /\ Len(l.data) \in Nat
  BY AListHas DEF ALine
<1>2. to \in Nat /\ from \in Nat
  <2> HIDE DEF before, after
  <2> QED BY <1>1, RowEndsAre DEF before, after
<1> HIDE DEF to, from
<1>3. ALine(WipeRight(l))
  <2> DEFINE end == IF l.pos = 0 /\ after # {} THEN to + 1 ELSE to
  <2>1. end \in Int /\ end + 1 \in Nat
    BY <1>2
  <2>2. WipeRight(l) = [l EXCEPT !.data = Erase(l.data, l.pos, end)]
    BY DEF WipeRight, to
  <2> HIDE DEF end
  <2>3. AList(Erase(l.data, l.pos, end))
    BY <1>1, <2>1, ErasedIsList
  <2>4. PICK d : d = Erase(l.data, l.pos, end)
    OBVIOUS
  <2>5. ALine([l EXCEPT !.data = d])
    BY <2>3, <2>4, LineWith
  <2> QED BY <2>2, <2>4, <2>5
<1>4. ALine(WipeAll(l))
  <2>1. WipeAll(l) = [l EXCEPT !.data = Erase(l.data, from, to), !.pos = from]
    BY DEF WipeAll, to, from
  <2>2. AList(Erase(l.data, from, to))
    BY <1>1, <1>2, ErasedIsList
  <2>3. PICK d : d = Erase(l.data, from, to)
    OBVIOUS
  <2>4. ALine([l EXCEPT !.data = d, !.pos = from])
    BY <1>2, <2>2, <2>3, LineWith
  <2> QED BY <2>1, <2>3, <2>4
<1> QED BY <1>3, <1>4 DEF cmd_wipe_in_line

\* Only ends of rows are taken from the end.
LEMMA TrimmedIs ==
    ASSUME NEW l, ALine(l)
    PROVE  LET t == cmd_del_trailing_CRs(l)
           IN /\ ALine(t)
              /\ \E keep \in 0..Len(l.data) :
                    /\ t.data = SubSeq(l.data, 1, keep)
                    /\ \A i \in (keep + 1)..Len(l.data) : l.data[i] = Byte(CR)
<1> DEFINE end == Len(l.data)
           From(p) == /\ p > l.pos
                      /\ \A i \in p..(Len(l.data) - 1) : At(l.data, i) = Byte(CR)
           places == {p \in 0..Len(l.data) : From(p)} \cup {Len(l.data)}
           keep == Min(places)
<1>1. AList(l.data) /\ end \in Nat
  BY AListHas DEF ALine
<1>2. keep \in places /\ keep \in 0..end
  <2>1. places \in SUBSET (0..end) /\ places # {}
    BY <1>1
  <2> HIDE DEF places
  <2> QED BY <1>1, <2>1, Bounds
<1>3. cmd_del_trailing_CRs(l) = [l EXCEPT !.data = SubSeq(l.data, 1, keep)]
  BY DEF cmd_del_trailing_CRs
<1>4. ASSUME NEW i \in (keep + 1)..end
      PROVE  l.data[i] = Byte(CR)
  <2>1. keep < end /\ i - 1 \in keep..(end - 1) /\ i - 1 < end
    BY <1>1, <1>2
  <2>2. From(keep)
    <3> HIDE DEF From, keep
    <3> QED BY <1>2, <2>1
  <2>3. At(l.data, i - 1) = Byte(CR)
    <3> HIDE DEF keep
    <3> QED BY <2>1, <2>2
  <2> HIDE DEF keep
  <2>4. (i - 1) + 1 = i
    BY <1>1, <1>2
  <2> QED BY <2>1, <2>3, <2>4 DEF At
<1> HIDE DEF keep, places
<1>5. AList(SubSeq(l.data, 1, keep))
  BY <1>1, <1>2, PartIsList
<1>6. PICK t : t = cmd_del_trailing_CRs(l)
  OBVIOUS
<1>7. PICK d : d = SubSeq(l.data, 1, keep)
  OBVIOUS
<1>8. t = [l EXCEPT !.data = d]
  BY <1>3, <1>6, <1>7
<1>9. ALine(t) /\ t.data = d
  <2>1. ALine([l EXCEPT !.data = d])
    BY <1>5, <1>7, LineWith
  <2>2. [l EXCEPT !.data = d].data = d
    BY LineWith
  <2> QED BY <1>8, <2>1, <2>2
<1> QED BY <1>2, <1>4, <1>6, <1>7, <1>9

-----------------------------------------------------------------------------
(* The text, as vgd is sent it.                                            *)

\* Two texts that are the same but for the ends of rows they end with.
SameText(s, t) ==
    /\ AList(s) /\ AList(t)
    /\ \E m \in 0..Len(s) :
          /\ m <= Len(t) /\ \A k \in 1..m : s[k] = t[k]
          /\ \A k \in (m + 1)..Len(s) : s[k] = CR
          /\ \A k \in (m + 1)..Len(t) : t[k] = CR

LEMMA SameAsItself ==
    ASSUME NEW s, AList(s)
    PROVE  SameText(s, s)
<1>1. PICK k \in Nat : k = Len(s)
  BY AListHas
<1> QED BY <1>1 DEF SameText

\* The text is what is complete of the bytes read so far, up to the last one.
LEMMA CharactersAre ==
    ASSUME NEW d, AList(d)
    PROVE  \E f : /\ f[0] = <<>> /\ f[Len(d)] = Characters(d)
                  /\ \A j \in 0..Len(d) : AList(f[j])
                  /\ \A j \in 1..Len(d) :
                        f[j] = IF IsLead(d[j]) THEN f[j - 1] ELSE Append(f[j - 1], d[j][1])
<1>1. PICK k \in Nat : k = Len(d)
  BY AListHas
<1> DEFINE S == {d[j][1] : j \in 1..k}
           V == Seq(S)
           step == [j \in 1..k |-> [t \in V |-> IF IsLead(d[j]) THEN t ELSE Append(t, d[j][1])]]
           Is(f) == f = [j \in 0..k |-> IF j = 0 THEN <<>>
                                        ELSE IF IsLead(d[j]) THEN f[j - 1]
                                        ELSE Append(f[j - 1], d[j][1])]
           upTo == CHOOSE f : Is(f)
<1>2. <<>> \in V
  OBVIOUS
<1>3. \A j \in 1..k : \A t \in V : Append(t, d[j][1]) \in V
  <2>1. ASSUME NEW j \in 1..k, NEW t \in V
        PROVE  Append(t, d[j][1]) \in V
    <3>1. d[j][1] \in S
      OBVIOUS
    <3> HIDE DEF S
    <3> QED BY <3>1, AppendProperties
  <2> QED BY <2>1
<1>4. /\ step \in [1..k -> [V -> V]]
      /\ \A j \in 1..k : \A t \in V :
            step[j][t] = IF IsLead(d[j]) THEN t ELSE Append(t, d[j][1])
  <2> HIDE DEF V
  <2> QED BY <1>3
<1>5. PICK g \in [0..k -> V] : Iterates(g, k, <<>>, step)
  <2> HIDE DEF V, step
  <2> QED BY <1>2, <1>4, Recursion
<1>6. Is(g)
  <2> HIDE DEF V, step
  <2>1. ASSUME NEW j \in 0..k
        PROVE  g[j] = IF j = 0 THEN <<>>
                      ELSE IF IsLead(d[j]) THEN g[j - 1]
                      ELSE Append(g[j - 1], d[j][1])
    <3>1. CASE j = 0
      BY <1>5, <3>1 DEF Iterates
    <3>2. CASE j # 0
      <4>1. j \in 1..k /\ j - 1 \in 0..k
        BY <3>2
      <4>2. g[j - 1] \in V
        BY <1>5, <4>1
      <4>3. g[j] = step[j][g[j - 1]]
        BY <1>5, <4>1 DEF Iterates
      <4> QED BY <1>4, <3>2, <4>1, <4>2, <4>3
    <3> QED BY <3>1, <3>2
  <2> QED BY <2>1
<1>7. Is(upTo)
  <2> HIDE DEF Is
  <2> QED BY <1>6
<1>8. Characters(d) = upTo[k]
  <2>1. Characters(d) = CharactersOf(d)
    <3>1. {CharactersOf(y) : y \in {d}} = {CharactersOf(d)}
      OBVIOUS
    <3>2. (CHOOSE v \in {CharactersOf(d)} : TRUE) = CharactersOf(d)
      OBVIOUS
    <3> QED BY <3>1, <3>2 DEF Characters, Once
  <2> QED BY <1>1, <2>1 DEF CharactersOf
<1>9. /\ upTo[0] = <<>>
      /\ \A j \in 1..k : upTo[j] = IF IsLead(d[j]) THEN upTo[j - 1]
                                   ELSE Append(upTo[j - 1], d[j][1])
  <2> HIDE DEF upTo
  <2>1. \A j \in 0..k : upTo[j] = IF j = 0 THEN <<>>
                                 ELSE IF IsLead(d[j]) THEN upTo[j - 1]
                                 ELSE Append(upTo[j - 1], d[j][1])
    BY <1>7, Zenon
  <2> QED BY <2>1
<1> HIDE DEF upTo, Is, V, S, step
<1>10. \A j \in 0..k : upTo[j] \in V
  <2> DEFINE T == {j \in 0..k : upTo[j] \in V}
  <2>1. 0 \in T
    BY <1>2, <1>9
  <2>2. \A j \in 1..k : j - 1 \in T => j \in T
    BY <1>3, <1>9
  <2> HIDE DEF T
  <2>3. \A j \in 0..k : j \in T
    BY <2>1, <2>2, BoundedInduction
  <2> QED BY <2>3 DEF T
<1>11. \A j \in 0..k : AList(upTo[j])
  BY <1>10 DEF AList, V
<1> QED BY <1>1, <1>8, <1>9, <1>11

\* Without ends of rows at its end a text is the same.
LEMMA TrimmedSame ==
    ASSUME NEW d, AList(d), NEW keep \in 0..Len(d),
           \A i \in (keep + 1)..Len(d) : d[i] = Byte(CR),
           NEW t, SameText(Characters(d), t)
    PROVE  SameText(Characters(SubSeq(d, 1, keep)), t)
<1>1. PICK l \in Nat : l = Len(d)
  BY AListHas
<1>2. PICK e : e = SubSeq(d, 1, keep)
  OBVIOUS
<1>3. AList(e) /\ Len(e) = keep /\ \A i \in 1..keep : e[i] = d[i]
  <2>1. d \in Seq({d[i] : i \in 1..Len(d)})
    BY AListHas
  <2>2. AList(e)
    BY <1>1, <1>2, PartIsList
  <2> QED BY <1>1, <1>2, <2>1, <2>2
<1>4. PICK s : s = Characters(d)
  OBVIOUS
<1>5. PICK u : u = Characters(e)
  OBVIOUS
<1>6. PICK f :
         /\ f[0] = <<>> /\ f[l] = s /\ \A j \in 0..l : AList(f[j])
         /\ \A j \in 1..l : f[j] = IF IsLead(d[j]) THEN f[j - 1] ELSE Append(f[j - 1], d[j][1])
  BY <1>1, <1>4, CharactersAre
<1>7. PICK g :
         /\ g[0] = <<>> /\ g[keep] = u /\ \A j \in 0..keep : AList(g[j])
         /\ \A j \in 1..keep : g[j] = IF IsLead(e[j]) THEN g[j - 1] ELSE Append(g[j - 1], e[j][1])
  <2>1. AList(e)
    BY <1>3
  <2>2. \E g : /\ g[0] = <<>> /\ g[Len(e)] = Characters(e)
               /\ \A j \in 0..Len(e) : AList(g[j])
               /\ \A j \in 1..Len(e) :
                     g[j] = IF IsLead(e[j]) THEN g[j - 1] ELSE Append(g[j - 1], e[j][1])
    BY <2>1, CharactersAre
  <2>3. Len(e) = keep
    BY <1>3
  <2> QED BY <1>5, <2>2, <2>3
<1>8. u = f[keep]
  <2> DEFINE T == {j \in 0..keep : g[j] = f[j]}
  <2>1. 0 \in T /\ keep \in Nat
    BY <1>1, <1>6, <1>7
  <2>2. ASSUME NEW j \in 1..keep, j - 1 \in T
        PROVE  j \in T
    BY <1>1, <1>3, <1>6, <1>7, <2>2
  <2> HIDE DEF T
  <2>3. \A j \in 0..keep : j \in T
    BY <2>1, <2>2, BoundedInduction
  <2>4. keep \in T
    BY <2>1, <2>3
  <2> QED BY <1>7, <2>4 DEF T
<1>9. AList(s) /\ AList(u)
  BY <1>1, <1>6, <1>8
<1> DEFINE Longer(r) == /\ Len(u) <= Len(r) /\ \A i \in 1..Len(u) : u[i] = r[i]
                        /\ \A i \in (Len(u) + 1)..Len(r) : r[i] = CR
<1>10. \A j \in 0..l : j < keep \/ Longer(f[j])
  <2> DEFINE T == {j \in 0..l : j < keep \/ Longer(f[j])}
  <2>1. 0 \in T
    BY <1>1, <1>8, <1>9, AListHas
  <2>2. ASSUME NEW j \in 1..l, j - 1 \in T
        PROVE  j \in T
    <3>1. CASE j < keep
      BY <3>1
    <3>2. CASE j = keep
      BY <1>8, <1>9, <3>2, AListHas
    <3>3. CASE j > keep
      <4>1. d[j] = Byte(CR) /\ j \in (keep + 1)..l
        BY <1>1, <3>3
      <4>2. f[j] = Append(f[j - 1], CR)
        <5>1. ~IsLead(Byte(CR)) /\ Byte(CR)[1] = CR
          BY DEF Byte, IsLead
        <5> QED BY <1>6, <4>1, <5>1
      <4>3. j - 1 \in 0..l /\ ~(j - 1 < keep)
        BY <1>1, <3>3
      <4>4. PICK r : r = f[j - 1]
        OBVIOUS
      <4>5. AList(r) /\ Longer(r)
        BY <1>6, <2>2, <4>3, <4>4
      <4>6. PICK a \in Nat : a = Len(r)
        BY <4>5, AListHas
      <4>7. PICK b \in Nat : b = Len(u)
        BY <1>9, AListHas
      <4>8. r \in Seq({r[i] : i \in 1..a})
        BY <4>5, <4>6, AListHas
      <4>9. PICK q : q = Append(r, CR)
        OBVIOUS
      <4>10. Len(q) = a + 1 /\ (\A i \in 1..a : q[i] = r[i]) /\ q[a + 1] = CR
        BY <4>6, <4>8, <4>9
      <4>11. Longer(q)
        BY <4>5, <4>6, <4>7, <4>10
      <4>12. j \in 0..l /\ f[j] = q
        BY <1>1, <4>2, <4>4, <4>9
      <4> QED BY <4>11, <4>12
    <3> QED BY <1>1, <3>1, <3>2, <3>3
  <2> HIDE DEF T
  <2>3. \A j \in 0..l : j \in T
    BY <2>1, <2>2, BoundedInduction
  <2> QED BY <2>3 DEF T
<1>11. Longer(s)
  <2> HIDE DEF Longer
  <2> QED BY <1>1, <1>6, <1>10
<1>12. PICK a \in Nat : a = Len(s)
  BY <1>9, AListHas
<1>13. PICK b \in Nat : b = Len(u)
  BY <1>9, AListHas
<1>14. b <= a /\ (\A k \in 1..b : u[k] = s[k]) /\ \A k \in (b + 1)..a : s[k] = CR
  BY <1>11, <1>12, <1>13
<1> HIDE DEF Longer
<1>15. SameText(s, t)
  BY <1>4
<1>16. PICK v \in Nat : v = Len(t)
  BY <1>15, AListHas DEF SameText
<1>17. PICK m \in 0..a :
          /\ m <= v /\ \A k \in 1..m : s[k] = t[k]
          /\ \A k \in (m + 1)..a : s[k] = CR
          /\ \A k \in (m + 1)..v : t[k] = CR
  BY <1>12, <1>15, <1>16 DEF SameText
<1>18. PICK w \in 0..b : w = IF m <= b THEN m ELSE b
  BY <1>13
<1>19. \A k \in 1..w : u[k] = t[k]
  BY <1>13, <1>14, <1>17, <1>18
<1>20. \A k \in (w + 1)..b : u[k] = CR
  BY <1>12, <1>13, <1>14, <1>17, <1>18
<1>21. \A k \in (w + 1)..v : t[k] = CR
  <2>1. ASSUME NEW k \in (w + 1)..v
        PROVE  t[k] = CR
    <3>1. CASE k > m
      BY <1>13, <1>16, <1>17, <1>18, <3>1
    <3>2. CASE k <= m
      <4>1. k \in 1..m /\ k \in (b + 1)..a
        BY <1>12, <1>13, <1>16, <1>17, <1>18, <3>2
      <4> QED BY <1>14, <1>17, <4>1
    <3> QED BY <1>13, <1>16, <1>17, <1>18, <3>1, <3>2
  <2> QED BY <2>1
<1>22. w <= v
  BY <1>13, <1>16, <1>17, <1>18
<1>23. SameText(u, t)
  BY <1>9, <1>13, <1>15, <1>16, <1>19, <1>20, <1>21, <1>22 DEF SameText
<1> QED BY <1>2, <1>5, <1>23

\* The same text but for its end is what vgd should have.
LEMMA SameIsKept ==
    ASSUME NEW text, NEW t, SameText(text, t)
    PROVE  LET kept == Max({0} \cup {k \in DOMAIN text : text[k] # CR})
           IN Len(t) >= kept /\ SubSeq(t, 1, kept) = SubSeq(text, 1, kept)
              /\ \A k \in (kept + 1)..Len(t) : t[k] = CR
<1> DEFINE places == {0} \cup {k \in DOMAIN text : text[k] # CR}
           kept == Max(places)
<1>1. AList(text) /\ AList(t)
  BY DEF SameText
<1>2. PICK a \in Nat : a = Len(text) /\ DOMAIN text = 1..a
  BY <1>1, AListHas
<1>3. PICK b \in Nat : b = Len(t)
  BY <1>1, AListHas
<1>4. PICK m \in 0..a :
         /\ m <= b /\ \A k \in 1..m : text[k] = t[k]
         /\ \A k \in (m + 1)..a : text[k] = CR
         /\ \A k \in (m + 1)..b : t[k] = CR
  BY <1>2, <1>3 DEF SameText
<1>5. places \in SUBSET (0..a) /\ 0 \in places
  BY <1>2
<1>6. kept \in places /\ \A k \in places : kept >= k
  <2> HIDE DEF places
  <2>1. \E x \in places : \A y \in places : x >= y
    BY <1>2, <1>5, Greatest
  <2> QED BY <2>1 DEF Max
<1>7. kept \in 0..a /\ (kept # 0 => text[kept] # CR) /\ \A k \in (kept + 1)..a : text[k] = CR
  <2> HIDE DEF kept
  <2> QED BY <1>2, <1>5, <1>6
<1> HIDE DEF kept, places
<1>8. kept <= m
  BY <1>2, <1>4, <1>7
<1>9. \A k \in 1..kept : text[k] = t[k]
  BY <1>2, <1>4, <1>7, <1>8
<1>10. SubSeq(t, 1, kept) = SubSeq(text, 1, kept)
  BY <1>7, <1>9
<1>11. \A k \in (kept + 1)..b : t[k] = CR
  BY <1>2, <1>3, <1>4, <1>7, <1>8
<1>12. b >= kept
  BY <1>3, <1>4, <1>7, <1>8
<1> QED BY <1>3, <1>10, <1>11, <1>12 DEF kept, places

-----------------------------------------------------------------------------
(* The invariant.  The text is compared without what a line still lacks of *)
(* a character and without the ends of rows that are trimmed before the    *)
(* next byte is looked at, which alone nobody sends.                       *)

IInv == ALine(cmd) /\ (pl = "prompt" => SameText(Characters(cmd.data), sent))

LEMMA InitInv == Init => IInv
<1>1. AList(<<>>)
  BY NoBytes
<1> QED BY <1>1 DEF Init, IInv, ALine, cmd_init

\* What every step that looks at a byte starts from.
LEMMA LineIs ==
    ASSUME IInv
    PROVE  ALine(Line) /\ (pl = "prompt" => SameText(Characters(Line.data), sent))
<1>1. ALine(cmd)
  BY DEF IInv
<1>2. /\ ALine(Line)
      /\ \E keep \in 0..Len(cmd.data) :
            /\ Line.data = SubSeq(cmd.data, 1, keep)
            /\ \A i \in (keep + 1)..Len(cmd.data) : cmd.data[i] = Byte(CR)
  BY <1>1, TrimmedIs DEF Line
<1>3. PICK keep \in 0..Len(cmd.data) :
            /\ Line.data = SubSeq(cmd.data, 1, keep)
            /\ \A i \in (keep + 1)..Len(cmd.data) : cmd.data[i] = Byte(CR)
  BY <1>2
<1>4. AList(cmd.data)
  BY <1>1 DEF ALine
<1>5. ASSUME pl = "prompt"
      PROVE  SameText(Characters(Line.data), sent)
  <2>1. SameText(Characters(cmd.data), sent)
    BY <1>5 DEF IInv
  <2>2. SameText(Characters(SubSeq(cmd.data, 1, keep)), sent)
    BY <1>3, <1>4, <2>1, TrimmedSame
  <2> QED BY <1>3, <2>2
<1> QED BY <1>2, <1>5

\* A line that is sent is the one vgd has.
LEMMA SentIs ==
    ASSUME ALine(cmd'), QueueSendCmd
    PROVE  IInv'
<1>1. AList(cmd'.data)
  BY DEF ALine
<1>2. AList(Characters(cmd'.data))
  <2>1. Len(cmd'.data) \in 0..Len(cmd'.data)
    BY <1>1, AListHas
  <2> QED BY <1>1, <2>1, CharactersAre
<1>3. SameText(Characters(cmd'.data), Characters(cmd'.data))
  BY <1>2, SameAsItself
<1>4. SameText(Characters(cmd'.data), sent')
  BY <1>3 DEF QueueSendCmd
<1> QED BY <1>4 DEF IInv

\* The effects.
LEMMA EffectsKeep ==
    ASSUME IInv, NEW line, ALine(line)
    PROVE  /\ NoEffect(line) /\ line.data = Line.data => IInv'
           /\ Edited(line) => IInv'
           /\ CmdExecuted(line) => IInv'
<1>1. ALine(Line) /\ (pl = "prompt" => SameText(Characters(Line.data), sent))
  BY LineIs
<1>2. ASSUME NoEffect(line), line.data = Line.data
      PROVE  IInv'
  BY <1>1, <1>2 DEF NoEffect, Becomes, IInv
<1>3. ASSUME Edited(line)
      PROVE  IInv'
  BY <1>3, SentIs DEF Edited
<1>4. ASSUME CmdExecuted(line)
      PROVE  IInv'
  BY <1>4 DEF CmdExecuted, Becomes, IInv
<1> QED BY <1>2, <1>3, <1>4

LEMMA OthersKeep ==
    ASSUME IInv
    PROVE  Error \/ CmdStarted \/ CmdRebuild \/ RpromptStarted => IInv'
<1>1. ALine(Line) /\ ALine(cmd_clear(Line))
  BY LineIs, ClearIsLine
<1>2. /\ \A b : ALine([Line EXCEPT !.rebuilding = b])
      /\ \A b : ALine([Line EXCEPT !.rebuilding = b, !.pos = 0])
  BY <1>1, LineWith
<1>3. ASSUME Error
      PROVE  IInv'
  BY <1>1, <1>3 DEF Error, Becomes, IInv
<1>4. ASSUME CmdStarted
      PROVE  IInv'
  <2>1. ALine(cmd')
    BY <1>1, <1>2, <1>4 DEF CmdStarted
  <2> QED BY <1>4, <2>1, SentIs DEF CmdStarted
<1>5. ASSUME CmdRebuild
      PROVE  IInv'
  BY <1>2, <1>5 DEF CmdRebuild, Becomes, IInv
<1>6. ASSUME RpromptStarted
      PROVE  IInv'
  BY <1>2, <1>6 DEF RpromptStarted, Becomes, IInv
<1> QED BY <1>3, <1>4, <1>5, <1>6

-----------------------------------------------------------------------------
(* The functions of the sequences.                                         *)

\* The number of a movement.
LEMMA CountIs == n \in {1, 2} /\ n - 1 \in Nat
BY DEF n, parse_digits

\* The cursor somewhere else in the same text.
LEMMA MovedKeeps ==
    ASSUME IInv, NEW to \in Nat, NoEffect([Line EXCEPT !.pos = to])
    PROVE  IInv'
<1>1. ALine(Line)
  BY LineIs
<1>2. PICK line : line = [Line EXCEPT !.pos = to]
  OBVIOUS
<1>3. ALine(line) /\ line.data = Line.data
  BY <1>1, <1>2, LineWith
<1> QED BY <1>2, <1>3, EffectsKeep

\* A byte more, and the line is sent.
LEMMA TypedKeeps ==
    ASSUME IInv, NEW line, ALine(line), NEW b, Edited(cmd_overwrite_char(line, b))
    PROVE  IInv'
BY OverwrittenIsLine, EffectsKeep

LEMMA UpTargetIs ==
    ASSUME ALine(Line)
    PROVE  UpTarget \in Int
<1> DEFINE next == CRsFrom(Line.data, Line.pos)
<1>1. \A k : RowEnd(k) \in Int
  <2>1. ASSUME NEW k
        PROVE  RowEnd(k) \in Int
    <3> DEFINE ends == CRsBefore(Line.data, Line.pos)
               above == {e \in ends : Cardinality({x \in ends : x >= e}) = k}
    <3>1. above \subseteq Int
      BY RowEndsAre
    <3>2. RowEnd(k) = IF above = {} THEN Fails ELSE CHOOSE e \in above : TRUE
      BY DEF RowEnd
    <3> HIDE DEF above
    <3>3. above # {} => (CHOOSE e \in above : TRUE) \in above
      OBVIOUS
    <3>4. CASE above = {}
      BY <3>2, <3>4 DEF Fails
    <3>5. CASE above # {}
      <4>1. RowEnd(k) = CHOOSE e \in above : TRUE
        BY <3>2, <3>5
      <4>2. RowEnd(k) \in above
        BY <3>3, <3>5, <4>1, Zenon
      <4> QED BY <3>1, <4>2
    <3> QED BY <3>4, <3>5
  <2> QED BY <2>1
<1>2. Line.pos \in Int /\ (next # {} => Min(next) \in Int)
  BY RowEndsAre DEF ALine
<1>3. RowEnd(n + 1) \in Int /\ RowEnd(1) \in Int /\ RowEnd(n) \in Int
  BY <1>1
<1> HIDE DEF next
<1>4. RowEnd(n + 1) + Line.pos - RowEnd(1) \in Int
  BY <1>2, <1>3
<1>5. next # {} => RowEnd(n) - (Min(next) - Line.pos) \in Int
  BY <1>2, <1>3
<1> QED BY <1>4, <1>5 DEF UpTarget, next, Fails

LEMMA MovementsKeep ==
    ASSUME IInv, seq_term_backspace \/ seq_term_cursor_backward \/ seq_term_cursor_forward
                 \/ seq_term_cursor_up \/ seq_term_carriage_return \/ seq_term_newline
    PROVE  IInv'
<1>1. ALine(Line) /\ Line.pos \in Nat
  BY LineIs DEF ALine
<1>2. \A k \in Nat : /\ cmd_forward(Line, k) # Fails => cmd_forward(Line, k) \in Nat
                     /\ cmd_backward(Line, k) # Fails => cmd_backward(Line, k) \in Nat
  BY <1>1, ForwardIs, BackwardIs
<1>3. n \in Nat /\ n - 1 \in Nat /\ 1 \in Nat
  BY CountIs
<1>4. CASE seq_term_backspace
  <2>1. Error \/ (cmd_backward(Line, 1) # Fails /\ NoEffect([Line EXCEPT !.pos = cmd_backward(Line, 1)]))
    BY <1>4 DEF seq_term_backspace
  <2> QED BY <1>2, <1>3, <2>1, OthersKeep, MovedKeeps
<1>5. CASE seq_term_cursor_backward
  <2>1. Error \/ (cmd_backward(Line, n) # Fails /\ NoEffect([Line EXCEPT !.pos = cmd_backward(Line, n)]))
    BY <1>5 DEF seq_term_cursor_backward
  <2> QED BY <1>2, <1>3, <2>1, OthersKeep, MovedKeeps
<1>6. CASE seq_term_cursor_forward
  <2>1. \/ cmd_forward(Line, n) # Fails /\ NoEffect([Line EXCEPT !.pos = cmd_forward(Line, n)])
        \/ CmdExecuted(Line) \/ RpromptStarted \/ Edited(cmd_overwrite_char(Line, Byte(Blank)))
    BY <1>6 DEF seq_term_cursor_forward
  <2> QED BY <1>1, <1>2, <1>3, <2>1, OthersKeep, MovedKeeps, EffectsKeep, TypedKeeps
<1>7. CASE seq_term_cursor_up
  <2>1. CmdRebuild \/ (UpTarget \in Nat /\ NoEffect([Line EXCEPT !.pos = UpTarget]))
    BY <1>1, <1>7, UpTargetIs DEF seq_term_cursor_up
  <2> QED BY <2>1, OthersKeep, MovedKeeps
<1>8. CASE seq_term_carriage_return
  <2> DEFINE before == CRsBefore(Line.data, Line.pos)
  <2>1. \/ CmdExecuted(Line) \/ CmdRebuild
        \/ before # {} /\ NoEffect([Line EXCEPT !.pos = Max(before) + 1])
    BY <1>8 DEF seq_term_carriage_return
  <2>2. before # {} => Max(before) + 1 \in Nat
    BY <1>1, RowEndsAre
  <2> HIDE DEF before
  <2> QED BY <1>1, <2>1, <2>2, OthersKeep, MovedKeeps, EffectsKeep
<1>9. CASE seq_term_newline
  <2> DEFINE after == CRsFrom(Line.data, Line.pos)
             atEnd == [Line EXCEPT !.pos = Len(Line.data)]
  <2>1. \/ CmdExecuted(Line) \/ Edited(cmd_overwrite_char(atEnd, Byte(CR)))
        \/ after # {} /\ NoEffect([Line EXCEPT !.pos = Min(after) + 1])
    BY <1>9 DEF seq_term_newline
  <2>2. after # {} => Min(after) + 1 \in Nat
    BY <1>1, RowEndsAre
  <2>3. ALine(atEnd)
    <3>1. Len(Line.data) \in Nat
      BY <1>1, AListHas DEF ALine
    <3> QED BY <1>1, <3>1, LineWith
  <2> HIDE DEF after, atEnd
  <2> QED BY <1>1, <2>1, <2>2, <2>3, OthersKeep, MovedKeeps, EffectsKeep, TypedKeeps
<1> QED BY <1>4, <1>5, <1>6, <1>7, <1>8, <1>9

LEMMA EditsKeep ==
    ASSUME IInv, seq_term_cmd_wrapped \/ seq_term_delete_chars \/ seq_term_insert_blanks
                 \/ seq_term_erase_in_line \/ seq_term_bell \/ seq_new_pwd
    PROVE  IInv'
<1>1. ALine(Line)
  BY LineIs
<1>2. n \in Nat
  BY CountIs
<1>3. CASE seq_term_cmd_wrapped
  BY <1>1, <1>3, EffectsKeep, TypedKeeps DEF seq_term_cmd_wrapped
<1>4. CASE seq_term_delete_chars
  BY <1>1, <1>2, <1>4, DeletedIsLine, EffectsKeep, OthersKeep DEF seq_term_delete_chars
<1>5. CASE seq_term_insert_blanks
  BY <1>1, <1>2, <1>5, InsertedIsLine, EffectsKeep DEF seq_term_insert_blanks
<1>6. CASE seq_term_erase_in_line
  BY <1>1, <1>6, WipedIsLine, EffectsKeep, OthersKeep DEF seq_term_erase_in_line
<1>7. CASE seq_term_bell \/ seq_new_pwd
  BY <1>1, <1>7, EffectsKeep DEF seq_term_bell, seq_new_pwd
<1> QED BY <1>3, <1>4, <1>5, <1>6, <1>7

LEMMA PromptsKeep ==
    ASSUME IInv, seq_ps1_separator \/ seq_rprompt_separator_start \/ seq_zsh_completion_done
    PROVE  IInv'
<1>1. ALine(Line)
  BY LineIs
<1>2. PICK line : line = [Line EXCEPT !.rebuilding = TRUE]
  OBVIOUS
<1>3. ALine(line) /\ line.data = Line.data
  BY <1>1, <1>2, LineWith
<1>4. CASE seq_ps1_separator
  BY <1>4, OthersKeep DEF seq_ps1_separator
<1>5. CASE seq_rprompt_separator_start
  BY <1>5, OthersKeep DEF seq_rprompt_separator_start
<1>6. CASE seq_zsh_completion_done
  BY <1>2, <1>3, <1>6, EffectsKeep DEF seq_zsh_completion_done
<1> QED BY <1>4, <1>5, <1>6

\* No sequence was found, or none yet.
LEMMA UnfoundKeeps ==
    ASSUME IInv, InProgress \/ NoMatch
    PROVE  IInv'
<1>1. ALine(Line) /\ (pl = "prompt" => SameText(Characters(Line.data), sent))
  BY LineIs
<1>2. CASE InProgress
  BY <1>1, <1>2 DEF InProgress, IInv
<1>3. CASE NoMatch /\ pl = "prompt"
  <2>1. ALine(cmd_overwrite_char(Line, Stream[1]))
    BY <1>1, OverwrittenIsLine
  <2>2. ALine(cmd') /\ QueueSendCmd
    BY <1>3, <2>1 DEF NoMatch
  <2> QED BY <2>2, SentIs
<1>4. CASE NoMatch /\ pl # "prompt"
  BY <1>1, <1>4 DEF NoMatch, IInv
<1> QED BY <1>2, <1>3, <1>4

LEMMA StepInv == IInv /\ [Next]_vars => IInv'
<1> SUFFICES ASSUME IInv, [Next]_vars
             PROVE  IInv'
  OBVIOUS
<1>1. CASE UNCHANGED cmdVars /\ UNCHANGED pl
  BY <1>1 DEF IInv, cmdVars
<1>2. CASE ShellPrints
  BY <1>1, <1>2 DEF ShellPrints, scanVars
<1>3. CASE ProcessTerminal
  BY <1>1, <1>3 DEF ProcessTerminal, scanVars
<1>4. CASE ProcessShell
  BY <1>1, <1>4 DEF ProcessShell, scanVars
<1>5. CASE CheckSeqs
  <2>1. PICK found : Run(found)
    BY <1>5 DEF CheckSeqs
  <2> QED BY <2>1, MovementsKeep, EditsKeep, PromptsKeep, UnfoundKeeps DEF Run
<1>6. CASE ReadEnds
  <2>1. CASE SpaceTyped
    <3>1. ALine(cmd)
      BY DEF IInv
    <3>2. ALine(cmd_overwrite_char(cmd, Stream[1]))
      BY <3>1, OverwrittenIsLine
    <3> QED BY <2>1, <3>2, SentIs DEF SpaceTyped
  <2>2. CASE create_holdover
    BY <1>1, <2>2 DEF create_holdover, scanVars
  <2>3. CASE UNCHANGED <<scanVars, cmdVars>>
    BY <1>1, <2>3 DEF scanVars
  <2> QED BY <1>6, <2>1, <2>2, <2>3 DEF ReadEnds
<1>7. CASE UNCHANGED vars
  BY <1>1, <1>7 DEF vars, scanVars
<1> QED BY <1>2, <1>3, <1>4, <1>5, <1>6, <1>7 DEF Next

\* Whatever the shell prints and is typed, whatever the terminal's width and
\* however the reads cut it, at the prompt the text vgd was last sent is the one
\* of the line, up to the ends of rows at its end (A_SEND_CMD after each
\* operation of cmdline.c that changes the text).
THEOREM VgdAlwaysHasTheLine == Spec => []VgdHasTheLine
<1>1. IInv => VgdHasTheLine
  <2>1. ASSUME IInv, pl = "prompt"
        PROVE  VgdHasTheLine
    <3>1. SameText(Characters(cmd.data), sent)
      BY <2>1 DEF IInv
    <3> QED BY <3>1, SameIsKept DEF VgdHasTheLine
  <2> QED BY <2>1 DEF VgdHasTheLine
<1> QED BY <1>1, InitInv, StepInv, PTL DEF Spec

-----------------------------------------------------------------------------
(* What the shell has printed, in bytes.                                   *)

LEMMA TuplesAre ==
    /\ \A x : AList(<<x>>)
    /\ \A x, y : AList(<<x, y>>)
    /\ \A x, y, z : AList(<<x, y, z>>)
    /\ \A x, y, z, u : AList(<<x, y, z, u>>)
    /\ \A x, y, z, u, v : AList(<<x, y, z, u, v>>)
<1>1. ASSUME NEW x, NEW y, NEW z, NEW u, NEW v
      PROVE  /\ <<x>> \in Seq({x}) /\ <<x, y>> \in Seq({x, y}) /\ <<x, y, z>> \in Seq({x, y, z})
             /\ <<x, y, z, u>> \in Seq({x, y, z, u}) /\ <<x, y, z, u, v>> \in Seq({x, y, z, u, v})
  OBVIOUS
<1>2. ASSUME NEW x, NEW y, NEW z, NEW u, NEW v
      PROVE  /\ AList(<<x>>) /\ AList(<<x, y>>) /\ AList(<<x, y, z>>)
             /\ AList(<<x, y, z, u>>) /\ AList(<<x, y, z, u, v>>)
  BY <1>1 DEF AList
<1> QED BY <1>2, Zenon

LEMMA ControlBytesAre ==
    ASSUME NEW t
    PROVE  AList(ControlBytes(t))
<1>1. \A x : AList(Colour(x))
  BY TuplesAre DEF Colour
<1>2. AList(Marker) /\ AList(Colour("black") \o Colour("white"))
  BY <1>1, JoinedIsList DEF Marker
<1>3. \A m, x : AList(CsiBytes(m, x))
  <2>1. ASSUME NEW m, NEW x
        PROVE  AList(CsiBytes(m, x))
    <3> DEFINE count == IF m = 0 THEN <<>> ELSE IF m = 1 THEN <<"1">> ELSE <<"2">>
    <3>1. AList(count)
      BY TuplesAre, NoBytes
    <3>2. AList(<<ESC, "[">>) /\ AList(<<x>>)
      BY TuplesAre
    <3> HIDE DEF count
    <3>3. AList(<<ESC, "[">> \o count \o <<x>>)
      BY <3>1, <3>2, JoinedIsList
    <3> QED BY <3>3 DEF CsiBytes, count
  <2> QED BY <2>1
<1>4. /\ AList(Marker \o CsiBytes(t.n, "D"))
      /\ AList(<<ESC, "[", "0", "m", CR>> \o CsiBytes(t.n, "C"))
      /\ AList(Colour("black") \o <<"q">>)
  BY <1>1, <1>2, <1>3, TuplesAre, JoinedIsList
<1>5. AList(CsiBytes(t.n, Last(Pattern[t.kind])))
  BY <1>3
<1>6. /\ AList(<<ESC, "P", "d", ESC, "backslash">>) /\ AList(<<Blank, CR>>) /\ AList(<<CR>>)
      /\ AList(<<CR, LF>>) /\ AList(<<BS>>) /\ AList(<<BEL>>)
  BY TuplesAre
<1> QED BY <1>2, <1>4, <1>5, <1>6, Zenon DEF ControlBytes

LEMMA BytesAre ==
    ASSUME NEW t
    PROVE  AList(Bytes(t))
<1>1. AList(Encode(t.c))
  BY TuplesAre DEF Encode
<1>2. PICK b : b = ControlBytes(t)
  OBVIOUS
<1>3. PICK k \in Nat : DOMAIN b = 1..k
  BY <1>2, ControlBytesAre, AListHas
<1>4. AList([i \in 1..k |-> Byte(b[i])])
  <2>1. [i \in 1..k |-> Byte(b[i])] \in Seq({Byte(b[i]) : i \in 1..k})
    OBVIOUS
  <2> QED BY <2>1 DEF AList
<1> QED BY <1>1, <1>2, <1>3, <1>4 DEF Bytes

\* The bytes of a list of tokens, from first to last.
LEMMA PrintedAre ==
    ASSUME NEW s, AList(s)
    PROVE  \E f : /\ f[0] = <<>> /\ f[Len(s)] = PrintedBytes(s)
                  /\ \A j \in 0..Len(s) : AList(f[j])
                  /\ \A j \in 1..Len(s) : f[j] = f[j - 1] \o Bytes(s[j])
<1>1. PICK k \in Nat : k = Len(s)
  BY AListHas
<1> DEFINE S == UNION {{Bytes(s[j])[i] : i \in 1..Len(Bytes(s[j]))} : j \in 1..k}
           V == Seq(S)
           step == [j \in 1..k |-> [t \in V |-> t \o Bytes(s[j])]]
           Is(f) == f = [j \in 0..k |-> IF j = 0 THEN <<>> ELSE f[j - 1] \o Bytes(s[j])]
           upTo == CHOOSE f : Is(f)
<1>2. <<>> \in V
  OBVIOUS
<1>3. \A j \in 1..k : \A t \in V : t \o Bytes(s[j]) \in V
  <2>1. ASSUME NEW j \in 1..k, NEW t \in V
        PROVE  t \o Bytes(s[j]) \in V
    <3>1. PICK b : b = Bytes(s[j])
      OBVIOUS
    <3>2. b \in Seq({b[i] : i \in 1..Len(b)})
      BY <3>1, BytesAre, AListHas
    <3>3. {b[i] : i \in 1..Len(b)} \subseteq S
      BY <3>1
    <3> HIDE DEF S
    <3>4. b \in Seq(S)
      BY <3>2, <3>3
    <3> QED BY <3>1, <3>4, ConcatProperties
  <2> QED BY <2>1
<1>4. /\ step \in [1..k -> [V -> V]]
      /\ \A j \in 1..k : \A t \in V : step[j][t] = t \o Bytes(s[j])
  <2> HIDE DEF V
  <2> QED BY <1>3
<1>5. PICK g \in [0..k -> V] : Iterates(g, k, <<>>, step)
  <2> HIDE DEF V, step
  <2> QED BY <1>2, <1>4, Recursion
<1>6. Is(g)
  <2> HIDE DEF V, step
  <2>1. ASSUME NEW j \in 0..k
        PROVE  g[j] = IF j = 0 THEN <<>> ELSE g[j - 1] \o Bytes(s[j])
    <3>1. CASE j = 0
      BY <1>5, <3>1 DEF Iterates
    <3>2. CASE j # 0
      <4>1. j \in 1..k /\ j - 1 \in 0..k
        BY <3>2
      <4>2. g[j - 1] \in V
        BY <1>5, <4>1
      <4>3. g[j] = step[j][g[j - 1]]
        BY <1>5, <4>1 DEF Iterates
      <4> QED BY <1>4, <3>2, <4>1, <4>2, <4>3
    <3> QED BY <3>1, <3>2
  <2> QED BY <2>1
<1>7. Is(upTo)
  <2> HIDE DEF Is
  <2> QED BY <1>6
<1>8. PrintedBytes(s) = upTo[k]
  BY <1>1 DEF PrintedBytes
<1>9. /\ upTo[0] = <<>>
      /\ \A j \in 1..k : upTo[j] = upTo[j - 1] \o Bytes(s[j])
  <2> HIDE DEF upTo
  <2>1. \A j \in 0..k : upTo[j] = IF j = 0 THEN <<>> ELSE upTo[j - 1] \o Bytes(s[j])
    BY <1>7, Zenon
  <2>2. upTo[0] = <<>>
    <3>1. 0 \in 0..k
      OBVIOUS
    <3> QED BY <2>1, <3>1, Zenon
  <2>3. ASSUME NEW j \in 1..k
        PROVE  upTo[j] = upTo[j - 1] \o Bytes(s[j])
    <3>1. j \in 0..k /\ j # 0
      OBVIOUS
    <3> QED BY <2>1, <3>1, Zenon
  <2> QED BY <2>2, <2>3
<1> HIDE DEF upTo, Is, V, S, step
<1>10. \A j \in 0..k : upTo[j] \in V
  <2> DEFINE T == {j \in 0..k : upTo[j] \in V}
  <2>1. 0 \in T
    BY <1>2, <1>9
  <2>2. ASSUME NEW j \in 1..k, j - 1 \in T
        PROVE  j \in T
    <3>1. j \in 0..k /\ upTo[j - 1] \in V
      BY <2>2
    <3>2. upTo[j] \in V
      BY <1>3, <1>9, <3>1, Zenon
    <3> QED BY <3>1, <3>2
  <2> HIDE DEF T
  <2>3. \A j \in 0..k : j \in T
    BY <2>1, <2>2, BoundedInduction
  <2> QED BY <2>3 DEF T
<1>11. \A j \in 0..k : AList(upTo[j])
  BY <1>10 DEF AList, V
<1> QED BY <1>1, <1>8, <1>9, <1>11

LEMMA JoinedTwice ==
    ASSUME NEW a, AList(a), NEW b, AList(b), NEW d, AList(d)
    PROVE  (a \o b) \o d = a \o (b \o d)
<1>1. PICK A, B, D : a \in Seq(A) /\ b \in Seq(B) /\ d \in Seq(D)
  BY DEF AList
<1>2. a \in Seq(A \cup B \cup D) /\ b \in Seq(A \cup B \cup D) /\ d \in Seq(A \cup B \cup D)
  BY <1>1
<1> QED BY <1>2, ConcatAssociative

\* Those of the first tokens come before those of the others.
LEMMA PrintedSplit ==
    ASSUME NEW s, AList(s), NEW m \in 0..Len(s)
    PROVE  /\ AList(PrintedBytes(s))
           /\ AList(PrintedBytes(SubSeq(s, 1, m)))
           /\ AList(PrintedBytes(SubSeq(s, m + 1, Len(s))))
           /\ PrintedBytes(s) = PrintedBytes(SubSeq(s, 1, m)) \o PrintedBytes(SubSeq(s, m + 1, Len(s)))
<1>1. PICK k \in Nat : k = Len(s) /\ m \in 0..k /\ s \in Seq({s[i] : i \in 1..k})
  BY AListHas
<1>2. PICK a, b : a = SubSeq(s, 1, m) /\ b = SubSeq(s, m + 1, k)
  OBVIOUS
<1>3. AList(a) /\ AList(b)
  BY <1>1, <1>2, PartIsList
<1>4. /\ Len(a) = m /\ \A i \in 1..m : a[i] = s[i]
      /\ Len(b) = k - m /\ \A i \in 1..(k - m) : b[i] = s[m + i]
  <2>1. PICK T : s \in Seq(T)
    BY <1>1
  <2> QED BY <1>1, <1>2, <2>1
<1>5. PICK f : /\ f[0] = <<>> /\ f[k] = PrintedBytes(s)
               /\ \A j \in 0..k : AList(f[j])
               /\ \A j \in 1..k : f[j] = f[j - 1] \o Bytes(s[j])
  BY <1>1, PrintedAre
<1>6. PICK g : /\ g[0] = <<>> /\ g[m] = PrintedBytes(a)
               /\ \A j \in 0..m : AList(g[j])
               /\ \A j \in 1..m : g[j] = g[j - 1] \o Bytes(a[j])
  <2>1. Len(a) = m
    BY <1>4
  <2> QED BY <1>3, <2>1, PrintedAre
<1>7. PICK h : /\ h[0] = <<>> /\ h[k - m] = PrintedBytes(b)
               /\ \A j \in 0..(k - m) : AList(h[j])
               /\ \A j \in 1..(k - m) : h[j] = h[j - 1] \o Bytes(b[j])
  <2>1. Len(b) = k - m
    BY <1>4
  <2> QED BY <1>3, <2>1, PrintedAre
<1>8. \A j \in 0..m : f[j] = g[j]
  <2> DEFINE T == {j \in 0..m : f[j] = g[j]}
  <2>1. 0 \in T
    BY <1>1, <1>5, <1>6
  <2>2. ASSUME NEW j \in 1..m, j - 1 \in T
        PROVE  j \in T
    <3>1. j \in 1..k /\ j \in 0..m /\ f[j - 1] = g[j - 1] /\ a[j] = s[j]
      BY <1>1, <1>4, <2>2
    <3>2. f[j] = f[j - 1] \o Bytes(s[j]) /\ g[j] = g[j - 1] \o Bytes(a[j])
      BY <1>5, <1>6, <3>1
    <3>3. f[j] = g[j]
      BY <3>1, <3>2, Zenon
    <3> QED BY <3>1, <3>3
  <2> HIDE DEF T
  <2>3. m \in Nat
    BY <1>1
  <2>4. \A j \in 0..m : j \in T
    BY <2>1, <2>2, <2>3, BoundedInduction
  <2> QED BY <2>4 DEF T
<1>9. \A j \in 0..(k - m) : f[m + j] = f[m] \o h[j]
  <2> DEFINE T == {j \in 0..(k - m) : f[m + j] = f[m] \o h[j]}
  <2>1. 0 \in T
    <3>1. PICK F : f[m] \in Seq(F)
      BY <1>1, <1>5 DEF AList
    <3>2. f[m] \o <<>> = f[m]
      BY <3>1
    <3>3. m + 0 = m /\ 0 \in 0..(k - m)
      BY <1>1
    <3>4. f[m + 0] = f[m] \o h[0]
      BY <1>7, <3>2, <3>3, Zenon
    <3> QED BY <3>3, <3>4
  <2>2. ASSUME NEW j \in 1..(k - m), j - 1 \in T
        PROVE  j \in T
    <3>1. m + j \in 1..k /\ (m + j) - 1 = m + (j - 1) /\ j - 1 \in 0..(k - m) /\ m \in 0..k
      BY <1>1
    <3>2. f[m + j] = f[m + (j - 1)] \o Bytes(b[j])
      BY <1>4, <1>5, <3>1
    <3>3. f[m + (j - 1)] = f[m] \o h[j - 1]
      BY <2>2
    <3>4. AList(f[m]) /\ AList(h[j - 1]) /\ AList(Bytes(b[j]))
      BY <1>5, <1>7, <3>1, BytesAre
    <3>5. f[m + j] = f[m] \o (h[j - 1] \o Bytes(b[j]))
      <4>1. f[m + j] = (f[m] \o h[j - 1]) \o Bytes(b[j])
        BY <3>2, <3>3, Zenon
      <4>2. (f[m] \o h[j - 1]) \o Bytes(b[j]) = f[m] \o (h[j - 1] \o Bytes(b[j]))
        <5>1. PICK x, y, z : x = f[m] /\ y = h[j - 1] /\ z = Bytes(b[j])
          OBVIOUS
        <5>2. AList(x) /\ AList(y) /\ AList(z)
          BY <3>4, <5>1, Zenon
        <5>3. (x \o y) \o z = x \o (y \o z)
          BY <5>2, JoinedTwice
        <5> QED BY <5>1, <5>3, Zenon
      <4> QED BY <4>1, <4>2, Zenon
    <3>6. f[m + j] = f[m] \o h[j]
      BY <1>7, <3>5, Zenon
    <3>7. j \in 0..(k - m)
      BY <1>1
    <3> QED BY <3>6, <3>7, Zenon
  <2> HIDE DEF T
  <2>3. k - m \in Nat
    BY <1>1
  <2>4. \A j \in 0..(k - m) : j \in T
    BY <2>1, <2>2, <2>3, BoundedInduction
  <2> QED BY <2>4 DEF T
<1>10. /\ k - m \in 0..(k - m) /\ m + (k - m) = k /\ m \in 0..m /\ k \in 0..k
  BY <1>1
<1>11. f[k] = f[m] \o h[k - m] /\ f[m] = g[m]
  BY <1>8, <1>9, <1>10
<1> QED BY <1>1, <1>2, <1>5, <1>6, <1>7, <1>10, <1>11

\* The scan has passed no more than there is.
Position == AList(todo) /\ off \in Nat /\ off <= Len(PrintedBytes(todo))

LEMMA StreamIs ==
    ASSUME Position
    PROVE  LET P == PrintedBytes(todo)
           IN /\ AList(P) /\ AList(Stream) /\ Len(P) \in Nat
              /\ Len(Stream) = Len(P) - off
              /\ \A i \in 1..Len(Stream) : Stream[i] = P[off + i]
<1>1. PICK P : P = PrintedBytes(todo)
  OBVIOUS
<1>2. AList(todo) /\ off \in Nat /\ off <= Len(P)
  BY <1>1 DEF Position
<1>3. 0 \in 0..Len(todo)
  BY <1>2, AListHas
<1>4. AList(P)
  BY <1>1, <1>2, <1>3, PrintedSplit
<1>5. PICK l \in Nat : l = Len(P) /\ P \in Seq({P[i] : i \in 1..l})
  BY <1>4, AListHas
<1>6. Stream = SubSeq(P, off + 1, l)
  BY <1>1, <1>5 DEF Stream
<1>7. AList(Stream)
  BY <1>2, <1>4, <1>5, <1>6, PartIsList
<1>8. Len(Stream) = l - off /\ \A i \in 1..(l - off) : Stream[i] = P[off + i]
  <2>1. PICK T : P \in Seq(T)
    BY <1>5
  <2> QED BY <1>2, <1>5, <1>6, <2>1
<1> QED BY <1>1, <1>4, <1>5, <1>7, <1>8

\* What leaves the segment leaves the stream.
LEMMA LeaveIs ==
    ASSUME Position, NEW m \in Nat, m <= Len(Stream), NEW read, Leave(m, read)
    PROVE  /\ Position' /\ avail' = read - m /\ seglen' = 0
           /\ Len(Stream') = Len(Stream) - m
           /\ \A i \in 1..(Len(Stream) - m) : Stream'[i] = Stream[i + m]
<1>1. PICK P, s : P = PrintedBytes(todo) /\ s = todo
  OBVIOUS
<1>2. PICK l \in Nat : l = Len(P)
  BY <1>1, StreamIs
<1>3. AList(s) /\ off \in Nat /\ off <= l
  BY <1>1, <1>2 DEF Position
<1>4. PICK k \in Nat : k = Len(s)
  BY <1>3, AListHas
<1>5. Len(Stream) = l - off /\ \A i \in 1..(l - off) : Stream[i] = P[off + i]
  BY <1>1, <1>2, StreamIs
<1> DEFINE total == off + m
           Length(j) == Len(PrintedBytes(SubSeq(s, 1, j)))
           D == {j \in 0..k : Length(j) <= total}
           done == Max(D)
<1>6. total \in Nat /\ total <= l
  BY <1>3, <1>5
<1>7. done \in D
  <2>1. Length(0) = 0
    <3>1. PICK T : s \in Seq(T)
      BY <1>3 DEF AList
    <3>2. SubSeq(s, 1, 0) = <<>>
      BY <3>1
    <3>3. PICK f : f[0] = <<>> /\ f[Len(<<>>)] = PrintedBytes(<<>>)
      BY NoBytes, PrintedAre
    <3>4. PrintedBytes(<<>>) = <<>> /\ Len(<<>>) = 0
      BY <3>3
    <3>5. Length(0) = Len(PrintedBytes(SubSeq(s, 1, 0)))
      OBVIOUS
    <3> HIDE DEF Length
    <3>6. Length(0) = Len(<<>>)
      BY <3>2, <3>4, <3>5, Zenon
    <3> QED BY <3>4, <3>6
  <2> HIDE DEF Length, total
  <2>2. 0 \in D
    BY <1>6, <2>1
  <2>3. D \in SUBSET (0..k) /\ D # {}
    BY <2>2
  <2> HIDE DEF D
  <2> QED BY <2>3, Bounds
<1>8. PICK d \in 0..k : d = done
  BY <1>7
<1>9. /\ todo' = SubSeq(s, d + 1, k) /\ off' = total - Length(d)
      /\ avail' = read - m /\ seglen' = 0
  BY <1>1, <1>4, <1>8 DEF Leave
<1>10. PICK A, B : A = PrintedBytes(SubSeq(s, 1, d)) /\ B = PrintedBytes(SubSeq(s, d + 1, k))
  OBVIOUS
<1>11. AList(A) /\ AList(B) /\ P = A \o B
  BY <1>1, <1>3, <1>4, <1>10, PrintedSplit
<1>12. PICK a \in Nat, b \in Nat : a = Len(A) /\ b = Len(B)
  BY <1>11, AListHas
<1>13. l = a + b /\ \A i \in 1..b : P[a + i] = B[i]
  <2>1. PICK S1, S2 : A \in Seq(S1) /\ B \in Seq(S2)
    BY <1>11 DEF AList
  <2> QED BY <1>2, <1>11, <1>12, <2>1
<1>14. a <= total /\ off' = total - a
  BY <1>7, <1>8, <1>9, <1>10, <1>12
<1> HIDE DEF D, done, Length
<1>15. AList(SubSeq(s, d + 1, k))
  BY <1>3, <1>4, PartIsList
<1>16. PrintedBytes(todo') = B
  BY <1>9, <1>10
<1>17. off' \in Nat /\ off' <= b
  BY <1>6, <1>13, <1>14
<1>18. Position'
  BY <1>9, <1>12, <1>15, <1>16, <1>17 DEF Position
<1>19. Len(Stream') = b - off' /\ \A i \in 1..(b - off') : Stream'[i] = B[off' + i]
  <2>1. PICK S2 : B \in Seq(S2)
    BY <1>11 DEF AList
  <2>2. PICK o, t : o = off' /\ t = Stream'
    OBVIOUS
  <2>3. t = SubSeq(B, o + 1, b) /\ o \in Nat /\ o <= b
    BY <1>12, <1>16, <1>17, <2>2 DEF Stream
  <2>4. Len(t) = b - o /\ \A i \in 1..(b - o) : t[i] = B[o + i]
    BY <1>12, <2>1, <2>3
  <2> QED BY <2>2, <2>4
<1>20. b - off' = (l - off) - m
  BY <1>2, <1>3, <1>12, <1>13, <1>14
<1>21. ASSUME NEW i \in 1..((l - off) - m)
       PROVE  Stream'[i] = Stream[i + m]
  <2>1. off' + i \in 1..b /\ a + (off' + i) = off + (i + m) /\ i + m \in 1..(l - off) /\ i \in 1..(b - off')
    BY <1>3, <1>13, <1>14, <1>17, <1>20
  <2>2. Stream'[i] = B[off' + i]
    BY <1>19, <2>1
  <2>3. B[off' + i] = P[off + (i + m)]
    BY <1>13, <2>1
  <2> QED BY <1>5, <2>1, <2>2, <2>3
<1> QED BY <1>5, <1>9, <1>18, <1>19, <1>20, <1>21

\* What a sequence has from its o'th place on.
LEMMA TailIs ==
    ASSUME NEW S, NEW s2 \in Seq(S), NEW z \in Nat, z = Len(s2), NEW o \in 0..z
    PROVE  /\ SubSeq(s2, o + 1, z) \in Seq(S) /\ Len(SubSeq(s2, o + 1, z)) = z - o
           /\ \A i \in 1..(z - o) : SubSeq(s2, o + 1, z)[i] = s2[o + i]
<1>1. SubSeq(s2, o + 1, z) = [i \in 1..(z - o) |-> s2[o + i]]
  <2>1. SubSeq(s2, o + 1, z) = [i \in 1..((z - (o + 1)) + 1) |-> s2[(i + (o + 1)) - 1]]
    OBVIOUS
  <2>2. 1..((z - (o + 1)) + 1) = 1..(z - o)
    OBVIOUS
  <2>3. \A i \in 1..(z - o) : (i + (o + 1)) - 1 = o + i
    OBVIOUS
  <2> QED BY <2>1, <2>2, <2>3
<1>2. ASSUME NEW i \in 1..(z - o)
      PROVE  s2[o + i] \in S
  <2>1. PICK j \in 1..z : j = o + i
    OBVIOUS
  <2>2. s2[j] \in S
    BY <2>1, ElementOfSeq
  <2> QED BY <2>1, <2>2
<1>3. PICK l \in Nat : l = z - o
  <2>1. z - o \in Nat
    OBVIOUS
  <2> QED BY <2>1, Zenon
<1>4. PICK v : v = [i \in 1..l |-> s2[o + i]]
  OBVIOUS
<1>5. v \in Seq(S) /\ Len(v) = l /\ \A i \in 1..l : v[i] = s2[o + i]
  <2>1. v \in [1..l -> S]
    BY <1>2, <1>3, <1>4
  <2> QED BY <1>3, <1>4, <2>1
<1>6. v = SubSeq(s2, o + 1, z)
  BY <1>1, <1>3, <1>4
<1> QED BY <1>3, <1>5, <1>6


\* What is printed comes after it.
LEMMA PrintKeeps ==
    ASSUME Position, NEW t, todo' = Append(todo, t), off' = off
    PROVE  /\ Position' /\ Len(Stream) <= Len(Stream') /\ Len(Stream') \in Nat
           /\ \A i \in 1..Len(Stream) : Stream'[i] = Stream[i]
<1>1. PICK s, k : k \in Nat /\ s = todo /\ k = Len(s) /\ AList(s) /\ s \in Seq({s[i] : i \in 1..k})
  BY AListHas DEF Position
<1>2. PICK r : r = Append(s, t)
  OBVIOUS
<1>3. AList(r) /\ Len(r) = k + 1 /\ SubSeq(r, 1, k) = s
  <2>1. s \in Seq({s[i] : i \in 1..k} \cup {t})
    BY <1>1
  <2>2. /\ r \in Seq({s[i] : i \in 1..k} \cup {t}) /\ Len(r) = k + 1
        /\ \A i \in 1..k : r[i] = s[i]
    BY <1>1, <1>2, <2>1
  <2>3. SubSeq(r, 1, k) = s
    BY <1>1, <2>2
  <2> QED BY <2>2, <2>3 DEF AList
<1>4. PICK A, B : A = PrintedBytes(s) /\ B = PrintedBytes(SubSeq(r, k + 1, k + 1))
  OBVIOUS
<1>5. AList(A) /\ AList(B) /\ PrintedBytes(r) = A \o B
  <2>1. k \in 0..Len(r)
    BY <1>1, <1>3
  <2> QED BY <1>3, <1>4, <2>1, PrintedSplit
<1>6. PICK a \in Nat, b \in Nat : a = Len(A) /\ b = Len(B)
  BY <1>5, AListHas
<1>7. Len(A \o B) = a + b /\ \A i \in 1..a : (A \o B)[i] = A[i]
  <2>1. PICK S1, S2 : A \in Seq(S1) /\ B \in Seq(S2)
    BY <1>5 DEF AList
  <2> QED BY <1>6, <2>1
<1>8. off \in Nat /\ off <= a
  BY <1>1, <1>4, <1>6 DEF Position
<1>9. Position'
  BY <1>1, <1>2, <1>3, <1>5, <1>7, <1>8 DEF Position
<1>10. Len(Stream) = a - off /\ \A i \in 1..(a - off) : Stream[i] = A[off + i]
  BY <1>1, <1>4, <1>6, StreamIs
<1>11. Len(Stream') = (a + b) - off /\ \A i \in 1..((a + b) - off) : Stream'[i] = (A \o B)[off + i]
  <2>1. AList(A \o B)
    BY <1>5, JoinedIsList
  <2>2. PICK T : A \o B \in Seq(T)
    BY <2>1 DEF AList
  <2>3. Stream' = SubSeq(A \o B, off + 1, a + b)
    BY <1>1, <1>2, <1>5, <1>7 DEF Stream
  <2>4. PICK Q : Q = A \o B
    OBVIOUS
  <2>5. Q \in Seq(T) /\ Len(Q) = a + b /\ Stream' = SubSeq(Q, off + 1, a + b)
    BY <1>7, <2>2, <2>3, <2>4
  <2>6. Len(Stream') = (a + b) - off /\ \A i \in 1..((a + b) - off) : Stream'[i] = Q[off + i]
    <3>1. PICK z \in Nat, o \in Nat : z = a + b /\ o = off /\ o \in 0..z
      BY <1>6, <1>8
    <3>2. PICK r2 : r2 = Stream' /\ r2 = SubSeq(Q, o + 1, z)
      BY <2>5, <3>1
    <3>3. Len(r2) = z - o /\ \A i \in 1..(z - o) : r2[i] = Q[o + i]
      BY <2>5, <3>1, <3>2, TailIs
    <3> QED BY <3>1, <3>2, <3>3, Zenon
  <2> QED BY <2>4, <2>6
<1>12. Len(Stream) <= Len(Stream') /\ Len(Stream') \in Nat
  BY <1>6, <1>8, <1>10, <1>11
<1>13. ASSUME NEW i \in 1..(a - off)
       PROVE  Stream'[i] = Stream[i]
  <2>1. i \in 1..((a + b) - off) /\ off + i \in 1..a
    BY <1>6, <1>8
  <2> QED BY <1>7, <1>10, <1>11, <2>1
<1> QED BY <1>9, <1>10, <1>12, <1>13

LEMMA StreamStays ==
    ASSUME UNCHANGED shellVars
    PROVE  Stream' = Stream /\ (Position => Position')
BY DEF shellVars, Stream, Position

-----------------------------------------------------------------------------
(* One byte against one of the prompt's sequences.                         *)

Moves == {"forward", "backward", "up", "erase", "delete", "insert"}

Plain == {"ps1", "rstart", "wrap", "return", "newline", "backspace", "bell"}

Prompted == Moves \cup Plain \cup {"pwd"}

\* The bytes a marker begins and ends with.
LEMMA ColoursAre ==
    ASSUME NEW x, NEW y
    PROVE  Colour(x) \o Colour(y) = <<ESC, "[", "0", x, ESC, "[", "0", y>>
<1>1. PICK a, b, t : /\ a = <<ESC, "[", "0", x>> /\ b = <<ESC, "[", "0", y>>
                     /\ t = <<ESC, "[", "0", x, ESC, "[", "0", y>>
  OBVIOUS
<1>2. PICK S : S = {ESC, "[", "0", x, y}
  OBVIOUS
<1>3. /\ a \in Seq(S) /\ Len(a) = 4 /\ a[1] = ESC /\ a[2] = "[" /\ a[3] = "0" /\ a[4] = x
      /\ b \in Seq(S) /\ Len(b) = 4 /\ b[1] = ESC /\ b[2] = "[" /\ b[3] = "0" /\ b[4] = y
  BY <1>1, <1>2
<1>4. /\ t \in Seq(S) /\ Len(t) = 8 /\ t[1] = ESC /\ t[2] = "[" /\ t[3] = "0" /\ t[4] = x
      /\ t[5] = ESC /\ t[6] = "[" /\ t[7] = "0" /\ t[8] = y
  BY <1>1, <1>2
<1>5. PICK r : r = a \o b
  OBVIOUS
<1>6. /\ r \in Seq(S) /\ Len(r) = 8
      /\ \A i \in 1..8 : r[i] = IF i <= 4 THEN a[i] ELSE b[i - 4]
  <2>1. /\ r \in Seq(S) /\ Len(r) = Len(a) + Len(b)
        /\ \A i \in 1..(Len(a) + Len(b)) : r[i] = IF i <= Len(a) THEN a[i] ELSE b[i - Len(a)]
    BY <1>3, <1>5, ConcatProperties
  <2>2. Len(a) = 4 /\ Len(b) = 4
    BY <1>3
  <2> QED BY <2>1, <2>2
<1>7. \A i \in 1..8 : r[i] = t[i]
  BY <1>3, <1>4, <1>6
<1>8. r = t
  BY <1>4, <1>6, <1>7, SeqEqual
<1> QED BY <1>1, <1>5, <1>8, Zenon DEF Colour

LEMMA PatternsAre ==
    /\ Pattern["ps1"] = <<ESC, "[", "0", "black", ESC, "[", "0", "white">>
    /\ Pattern["rstart"] = <<ESC, "[", "0", "blue", ESC, "[", "0", "red">>
    /\ Pattern["pwd"] = <<ESC, "P", PRINTABLE_C, ESC, "backslash">>
    /\ Pattern["wrap"] = <<Blank, CR, NOT_LF_CR_C>>
    /\ Pattern["return"] = <<CR, NOT_LF_C>>
    /\ Pattern["newline"] = <<CR, LF>>
    /\ Pattern["backspace"] = <<BS>>
    /\ Pattern["bell"] = <<BEL>>
    /\ Pattern["forward"] = <<ESC, "[", DIGIT_C, "C">>
    /\ Pattern["backward"] = <<ESC, "[", DIGIT_C, "D">>
    /\ Pattern["up"] = <<ESC, "[", DIGIT_C, "A">>
    /\ Pattern["erase"] = <<ESC, "[", DIGIT_C, "K">>
    /\ Pattern["delete"] = <<ESC, "[", DIGIT_C, "P">>
    /\ Pattern["insert"] = <<ESC, "[", DIGIT_C, "@">>
    /\ Prompted \subseteq Sequences_
<1>1. Colour("black") \o Colour("white") = <<ESC, "[", "0", "black", ESC, "[", "0", "white">>
  BY ColoursAre
<1>2. Marker = <<ESC, "[", "0", "blue", ESC, "[", "0", "red">>
  BY ColoursAre DEF Marker
<1>3. Prompted \subseteq Sequences_
  BY DEF Prompted, Moves, Plain, Sequences_, Pattern
<1> QED BY <1>1, <1>2, <1>3 DEF Pattern, CSI

\* The patterns without a run of characters in them.
LEMMA PlainIs ==
    ASSUME NEW q \in Plain
    PROVE  LET P == Pattern[q]
           IN /\ Len(P) \in 1..8
              /\ q \in {"return", "newline"} => Len(P) = 2
              /\ q \in {"backspace", "bell"} => Len(P) = 1
              /\ \A i \in 1..Len(P) :
                    /\ P[i] \notin {DIGIT_C, PRINTABLE_C}
                    /\ i < Len(P) \/ q \notin {"wrap", "return"} => P[i] \notin {NOT_LF_CR_C, NOT_LF_C}
<1> DEFINE Spans == {DIGIT_C, PRINTABLE_C}
           Not == {NOT_LF_CR_C, NOT_LF_C}
<1>0. /\ {ESC, "[", "0", "black", "blue", "white", "red", CR, LF, BS, BEL, Blank} \cap (Spans \cup Not) = {}
      /\ Spans \cap Not = {}
  BY Zenon DEF DIGIT_C, PRINTABLE_C, NOT_LF_CR_C, NOT_LF_C, ESC, CR, LF, BS, BEL, Blank
<1>1. PICK P : P = Pattern[q]
  OBVIOUS
<1> SUFFICES /\ Len(P) \in 1..8
             /\ q \in {"return", "newline"} => Len(P) = 2
             /\ q \in {"backspace", "bell"} => Len(P) = 1
             /\ \A i \in 1..Len(P) :
                   /\ P[i] \notin Spans
                   /\ i < Len(P) \/ q \notin {"wrap", "return"} => P[i] \notin Not
  BY <1>1
<1>7. NOT_LF_CR_C \in Not /\ NOT_LF_C \in Not
  OBVIOUS
<1> HIDE DEF Spans, Not
<1>2. CASE q \in {"ps1", "rstart"}
  <2>1. PICK x \in {"black", "blue"}, y \in {"white", "red"} :
           P = <<ESC, "[", "0", x, ESC, "[", "0", y>>
    BY <1>1, <1>2, PatternsAre
  <2>2. /\ Len(P) = 8 /\ P[1] = ESC /\ P[2] = "[" /\ P[3] = "0" /\ P[4] = x
        /\ P[5] = ESC /\ P[6] = "[" /\ P[7] = "0" /\ P[8] = y
    BY <2>1
  <2>3. \A i \in 1..8 : P[i] \in {ESC, "[", "0", x, y}
    BY <2>2
  <2> QED BY <1>0, <1>7, <1>2, <2>2, <2>3
<1>3. CASE q = "wrap"
  <2>1. P = <<Blank, CR, NOT_LF_CR_C>>
    BY <1>1, <1>3, PatternsAre
  <2>2. Len(P) = 3 /\ P[1] = Blank /\ P[2] = CR /\ P[3] = NOT_LF_CR_C
    BY <2>1
  <2> QED BY <1>0, <1>7, <1>3, <2>2
<1>4. CASE q = "return"
  <2>1. P = <<CR, NOT_LF_C>>
    BY <1>1, <1>4, PatternsAre
  <2>2. Len(P) = 2 /\ P[1] = CR /\ P[2] = NOT_LF_C
    BY <2>1
  <2> QED BY <1>0, <1>7, <1>4, <2>2
<1>5. CASE q = "newline"
  <2>1. P = <<CR, LF>>
    BY <1>1, <1>5, PatternsAre
  <2>2. Len(P) = 2 /\ P[1] = CR /\ P[2] = LF
    BY <2>1
  <2> QED BY <1>0, <1>7, <1>5, <2>2
<1>6. CASE q \in {"backspace", "bell"}
  <2>1. PICK x \in {BS, BEL} : P = <<x>>
    BY <1>1, <1>6, PatternsAre
  <2>2. Len(P) = 1 /\ P[1] = x
    BY <2>1
  <2> QED BY <1>0, <1>7, <1>6, <2>2
<1> QED BY <1>2, <1>3, <1>4, <1>5, <1>6 DEF Plain

\* The first p of q's pattern are what these k bytes are, none of which
\* completes it.
Partway(q, s, k, p) ==
    /\ q \in Moves =>
          /\ p \in 1..2 /\ s[1][1] = ESC
          /\ p = 1 => k = 1
          /\ p = 2 => k >= 2 /\ s[2][1] = "[" /\ \A i \in 3..k : s[i][1] \in Digits
    /\ q = "pwd" =>
          /\ p \in {1, 2, 4} /\ s[1][1] = ESC
          /\ p = 1 => k = 1
          /\ p # 1 => k >= 2 /\ s[2][1] = "P" /\ \A i \in 3..(k - 1) : s[i][1] \notin Controls
          /\ p = 2 => s[k][1] \notin Controls
          /\ p = 4 => k >= 3 /\ s[k][1] = ESC
    /\ q \in Plain =>
          p = k /\ p \in 1..(Len(Pattern[q]) - 1) /\ \A i \in 1..p : s[i][1] = Pattern[q][i]

\* Bytes among which no sequence ends.
Calm(s, k) ==
    \A i \in 1..k : /\ s[i][1] \notin {BEL, BS, LF}
                    /\ s[i][1] = CR => i = k
                    /\ s[i][1] = ESC => \A j \in (i + 1)..k : s[j][1] \in {"["} \cup Digits

\* Those after the first of what may become a sequence are.
LEMMA PartwayCalm ==
    ASSUME NEW q \in Prompted, NEW s, NEW t, NEW k \in Nat, NEW p, Partway(q, s, k, p),
           NEW m \in 1..k, \A i \in 1..(m - 1) : t[i] = s[i + 1]
    PROVE  Calm(t, m - 1)
<1>1. Blank \notin Controls
  BY ShellScanAssumption
<1>2. CASE q \in Moves
  <2>1. \A i \in 2..k : s[i][1] \in {"["} \cup Digits
    BY <1>2 DEF Partway
  <2>2. \A i \in 1..(m - 1) : t[i][1] \in {"["} \cup Digits
    BY <2>1
  <2> QED BY <2>2 DEF Calm, Digits, BEL, BS, LF, CR, ESC
<1>3. CASE q = "pwd"
  <2>1. \A i \in 2..k : s[i][1] \notin Controls \/ (i = k /\ s[i][1] = ESC)
    BY <1>3 DEF Partway, Controls
  <2>2. \A i \in 1..(m - 1) : t[i][1] \notin Controls \/ (i = m - 1 /\ t[i][1] = ESC)
    BY <2>1
  <2> QED BY <2>2 DEF Calm, Controls, BEL, BS, LF, CR, ESC
<1>4. CASE q \in Plain
  <2>1. k \in 1..(Len(Pattern[q]) - 1) /\ \A i \in 1..k : s[i][1] = Pattern[q][i]
    BY <1>4, Zenon DEF Partway
  <2>2. \A i \in 1..(m - 1) : t[i][1] = Pattern[q][i + 1]
    BY <2>1
  <2>3. CASE q = "ps1" \/ q = "rstart"
    <3>1. PICK x \in {"black", "blue"}, y \in {"white", "red"} :
             Pattern[q] = <<ESC, "[", "0", x, ESC, "[", "0", y>>
      BY <2>3, PatternsAre
    <3>2. k \in 1..7
      BY <2>1, <3>1
    <3>3. /\ m - 1 \in 0..6
          /\ \A i \in 1..(m - 1) :
                /\ i = 1 => t[i][1] = "["
                /\ i = 2 => t[i][1] = "0"
                /\ i = 3 => t[i][1] \in {"black", "blue"}
                /\ i = 4 => t[i][1] = ESC
                /\ i = 5 => t[i][1] = "["
                /\ i = 6 => t[i][1] = "0"
      BY <2>2, <3>1, <3>2
    <3> QED BY <3>3 DEF Calm, Digits, BEL, BS, LF, CR, ESC
  <2>4. CASE q = "wrap"
    <3>1. m - 1 \in 0..1 /\ \A i \in 1..(m - 1) : i = 1 /\ t[i][1] = CR
      BY <2>1, <2>2, <2>4, PatternsAre
    <3> QED BY <3>1 DEF Calm, BEL, BS, LF, CR, ESC
  <2>5. CASE q \in {"return", "newline", "backspace", "bell"}
    <3>1. m - 1 = 0
      <4>1. PICK l \in {1, 2} : l = Len(Pattern[q])
        BY <1>4, <2>5, PlainIs
      <4>2. k \in 1..(l - 1)
        BY <2>1, <4>1, Zenon
      <4> QED BY <4>2
    <3> QED BY <3>1 DEF Calm
  <2> QED BY <1>4, <2>3, <2>4, <2>5 DEF Plain
<1> QED BY <1>2, <1>3, <1>4 DEF Prompted

\* Less the first they are too.
LEMMA CalmTail ==
    ASSUME NEW s, NEW t, NEW k \in Nat, Calm(s, k), k > 0, \A i \in 1..(k - 1) : t[i] = s[i + 1]
    PROVE  Calm(t, k - 1)
<1>1. ASSUME NEW i \in 1..(k - 1)
      PROVE  /\ t[i][1] \notin {BEL, BS, LF}
             /\ t[i][1] = CR => i = k - 1
             /\ t[i][1] = ESC => \A j \in (i + 1)..(k - 1) : t[j][1] \in {"["} \cup Digits
  <2>1. i + 1 \in 1..k /\ t[i] = s[i + 1]
    OBVIOUS
  <2>2. /\ s[i + 1][1] \notin {BEL, BS, LF}
        /\ s[i + 1][1] = CR => i + 1 = k
        /\ s[i + 1][1] = ESC => \A j \in (i + 2)..k : s[j][1] \in {"["} \cup Digits
    BY <2>1 DEF Calm
  <2>3. ASSUME NEW j \in (i + 1)..(k - 1), t[i][1] = ESC
        PROVE  t[j][1] \in {"["} \cup Digits
    <3>1. j + 1 \in (i + 2)..k /\ t[j] = s[j + 1]
      OBVIOUS
    <3> QED BY <2>1, <2>2, <2>3, <3>1
  <2> QED BY <2>1, <2>2, <2>3
<1> QED BY <1>1 DEF Calm

LEMMA AdvancesIs ==
    ASSUME NEW q, NEW p, NEW b
    PROVE  Advances(q, p, b) \in {0, 1, 2, Fails}
BY DEF Advances

\* One byte and the character it may stand for.
LEMMA AdvancesOver ==
    ASSUME NEW q, NEW p, NEW b, NEW here, here = Pattern[q][p + 1]
    PROVE  /\ here \notin {DIGIT_C, PRINTABLE_C} =>
                 Advances(q, p, b) = IF Fits(b, here) THEN 1 ELSE Fails
           /\ here \notin {DIGIT_C, PRINTABLE_C, NOT_LF_CR_C, NOT_LF_C} =>
                 Advances(q, p, b) = IF b = here THEN 1 ELSE Fails
           /\ here = DIGIT_C =>
                 Advances(q, p, b) = IF b \in Digits THEN 0
                                     ELSE IF Pattern[q][p + 2] = b THEN 2 ELSE Fails
           /\ here = PRINTABLE_C =>
                 Advances(q, p, b) = IF b \notin Controls THEN 0
                                     ELSE IF Pattern[q][p + 2] = b THEN 2 ELSE Fails
<1>1. DIGIT_C # PRINTABLE_C
  BY DEF DIGIT_C, PRINTABLE_C
<1>2. CASE here \notin {DIGIT_C, PRINTABLE_C}
  <2>1. Advances(q, p, b) = IF Fits(b, here) THEN 1 ELSE Fails
    BY <1>2, Zenon DEF Advances, Runs
  <2>2. here \notin {NOT_LF_CR_C, NOT_LF_C} => (Fits(b, here) <=> b = here)
    BY Zenon DEF Fits
  <2>3. here \notin {NOT_LF_CR_C, NOT_LF_C} => Advances(q, p, b) = IF b = here THEN 1 ELSE Fails
    BY <2>1, <2>2, Zenon
  <2> QED BY <1>2, <2>1, <2>3
<1>3. CASE here = DIGIT_C
  <2>1. Runs(b, here) <=> b \in Digits
    BY <1>1, <1>3, Zenon DEF Runs
  <2>2. Advances(q, p, b) = IF b \in Digits THEN 0
                            ELSE IF Pattern[q][p + 2] = b THEN 2 ELSE Fails
    BY <1>3, <2>1 DEF Advances
  <2> QED BY <1>1, <1>3, <2>2
<1>4. CASE here = PRINTABLE_C
  <2>1. Runs(b, here) <=> b \notin Controls
    BY <1>1, <1>4, Zenon DEF Runs
  <2>2. Advances(q, p, b) = IF b \notin Controls THEN 0
                            ELSE IF Pattern[q][p + 2] = b THEN 2 ELSE Fails
    BY <1>4, <2>1 DEF Advances
  <2> QED BY <1>1, <1>4, <2>2
<1> QED BY <1>2, <1>3, <1>4

\* How far a byte takes the patterns that begin an escape sequence, a plain one
\* and the directory's.
LEMMA MovesAdvance ==
    ASSUME NEW q \in Moves, NEW p \in 0..2, NEW b, Advances(q, p, b) # Fails
    PROVE  /\ Len(Pattern[q]) = 4
           /\ p = 0 => Advances(q, p, b) = 1 /\ b = ESC
           /\ p = 1 => Advances(q, p, b) = 1 /\ b = "["
           /\ p = 2 => \/ Advances(q, p, b) = 0 /\ b \in Digits
                       \/ Advances(q, p, b) = 2 /\ b \in {"C", "D", "A", "K", "P", "@"}
<1>1. PICK x \in {"C", "D", "A", "K", "P", "@"} : Pattern[q] = <<ESC, "[", DIGIT_C, x>>
  BY PatternsAre DEF Moves
<1>2. PICK P : P = Pattern[q]
  OBVIOUS
<1>3. Len(P) = 4 /\ P[1] = ESC /\ P[2] = "[" /\ P[3] = DIGIT_C /\ P[4] = x
  BY <1>1, <1>2
<1>4. {ESC, "["} \cap {DIGIT_C, PRINTABLE_C, NOT_LF_CR_C, NOT_LF_C} = {} /\ Fails \notin {0, 1, 2}
  BY DEF ESC, DIGIT_C, PRINTABLE_C, NOT_LF_CR_C, NOT_LF_C, Fails
<1>5. PICK a : a = Advances(q, p, b)
  OBVIOUS
<1>6. CASE p = 0
  <2>1. P[p + 1] = ESC
    BY <1>3, <1>6
  <2>2. a = IF b = ESC THEN 1 ELSE Fails
    <3>1. PICK here : here = Pattern[q][p + 1] /\ here = ESC
      BY <1>2, <2>1
    <3>2. here \notin {DIGIT_C, PRINTABLE_C, NOT_LF_CR_C, NOT_LF_C}
      BY <1>4, <3>1
    <3>3. Advances(q, p, b) = IF b = here THEN 1 ELSE Fails
      BY <3>1, <3>2, AdvancesOver
    <3> QED BY <1>5, <3>1, <3>3, Zenon
  <2> QED BY <1>2, <1>3, <1>5, <1>6, <2>2
<1>7. CASE p = 1
  <2>1. P[p + 1] = "["
    BY <1>3, <1>7
  <2>2. a = IF b = "[" THEN 1 ELSE Fails
    <3>1. PICK here : here = Pattern[q][p + 1] /\ here = "["
      BY <1>2, <2>1
    <3>2. here \notin {DIGIT_C, PRINTABLE_C, NOT_LF_CR_C, NOT_LF_C}
      BY <1>4, <3>1
    <3>3. Advances(q, p, b) = IF b = here THEN 1 ELSE Fails
      BY <3>1, <3>2, AdvancesOver
    <3> QED BY <1>5, <3>1, <3>3, Zenon
  <2> QED BY <1>2, <1>3, <1>5, <1>7, <2>2
<1>8. CASE p = 2
  <2>1. P[p + 1] = DIGIT_C /\ P[p + 2] = x
    BY <1>3, <1>8
  <2>2. a = IF b \in Digits THEN 0 ELSE IF x = b THEN 2 ELSE Fails
    BY <1>2, <1>5, <2>1, AdvancesOver
  <2> QED BY <1>1, <1>2, <1>3, <1>5, <1>8, <2>2
<1> QED BY <1>6, <1>7, <1>8

LEMMA PwdAdvances ==
    ASSUME NEW p \in {0, 1, 2, 4}, NEW b, Advances("pwd", p, b) # Fails
    PROVE  /\ Len(Pattern["pwd"]) = 5
           /\ p = 0 => Advances("pwd", p, b) = 1 /\ b = ESC
           /\ p = 1 => Advances("pwd", p, b) = 1 /\ b = "P"
           /\ p = 2 => \/ Advances("pwd", p, b) = 0 /\ b \notin Controls
                       \/ Advances("pwd", p, b) = 2 /\ b = ESC
           /\ p = 4 => Advances("pwd", p, b) = 1 /\ b = "backslash"
<1>1. PICK P : P = Pattern["pwd"]
  OBVIOUS
<1>2. /\ Len(P) = 5 /\ P[1] = ESC /\ P[2] = "P" /\ P[3] = PRINTABLE_C /\ P[4] = ESC
      /\ P[5] = "backslash"
  BY <1>1, PatternsAre
<1>3. {ESC, "P", "backslash"} \cap {DIGIT_C, PRINTABLE_C, NOT_LF_CR_C, NOT_LF_C} = {}
      /\ Fails \notin {0, 1, 2}
  BY DEF ESC, DIGIT_C, PRINTABLE_C, NOT_LF_CR_C, NOT_LF_C, Fails
<1>4. PICK a : a = Advances("pwd", p, b)
  OBVIOUS
<1>9. a # Fails
  BY <1>4, Zenon
<1> SUFFICES /\ p = 0 => a = 1 /\ b = ESC
             /\ p = 1 => a = 1 /\ b = "P"
             /\ p = 2 => (a = 0 /\ b \notin Controls) \/ (a = 2 /\ b = ESC)
             /\ p = 4 => a = 1 /\ b = "backslash"
  BY <1>1, <1>2, <1>4, Zenon
<1>5. CASE p = 0
  <2>1. P[p + 1] = ESC
    BY <1>2, <1>5
  <2>2. a = IF b = ESC THEN 1 ELSE Fails
    <3>1. PICK here : here = Pattern["pwd"][p + 1] /\ here = ESC
      BY <1>1, <2>1
    <3>2. here \notin {DIGIT_C, PRINTABLE_C, NOT_LF_CR_C, NOT_LF_C}
      BY <1>3, <3>1
    <3>3. Advances("pwd", p, b) = IF b = here THEN 1 ELSE Fails
      BY <3>1, <3>2, AdvancesOver
    <3> QED BY <1>4, <3>1, <3>3, Zenon
  <2> QED BY <1>9, <1>5, <2>2
<1>6. CASE p = 1
  <2>1. P[p + 1] = "P"
    BY <1>2, <1>6
  <2>2. a = IF b = "P" THEN 1 ELSE Fails
    <3>1. PICK here : here = Pattern["pwd"][p + 1] /\ here = "P"
      BY <1>1, <2>1
    <3>2. here \notin {DIGIT_C, PRINTABLE_C, NOT_LF_CR_C, NOT_LF_C}
      BY <1>3, <3>1
    <3>3. Advances("pwd", p, b) = IF b = here THEN 1 ELSE Fails
      BY <3>1, <3>2, AdvancesOver
    <3> QED BY <1>4, <3>1, <3>3, Zenon
  <2> QED BY <1>9, <1>6, <2>2
<1>7. CASE p = 2
  <2>1. P[p + 1] = PRINTABLE_C /\ P[p + 2] = ESC
    BY <1>2, <1>7
  <2>2. a = IF b \notin Controls THEN 0 ELSE IF ESC = b THEN 2 ELSE Fails
    BY <1>1, <1>4, <2>1, AdvancesOver
  <2> QED BY <1>9, <1>7, <2>2
<1>8. CASE p = 4
  <2>1. P[p + 1] = "backslash"
    BY <1>2, <1>8
  <2>2. a = IF b = "backslash" THEN 1 ELSE Fails
    <3>1. PICK here : here = Pattern["pwd"][p + 1] /\ here = "backslash"
      BY <1>1, <2>1
    <3>2. here \notin {DIGIT_C, PRINTABLE_C, NOT_LF_CR_C, NOT_LF_C}
      BY <1>3, <3>1
    <3>3. Advances("pwd", p, b) = IF b = here THEN 1 ELSE Fails
      BY <3>1, <3>2, AdvancesOver
    <3> QED BY <1>4, <3>1, <3>3, Zenon
  <2> QED BY <1>9, <1>8, <2>2
<1> QED BY <1>5, <1>6, <1>7, <1>8

LEMMA PlainAdvances ==
    ASSUME NEW q \in Plain, NEW p \in 0..(Len(Pattern[q]) - 1), NEW b, Advances(q, p, b) # Fails
    PROVE  /\ Len(Pattern[q]) \in 1..8
           /\ Advances(q, p, b) = 1
           /\ p + 1 < Len(Pattern[q]) \/ q \notin {"wrap", "return"} => b = Pattern[q][p + 1]
<1>1. PICK P, l : l \in Nat /\ P = Pattern[q] /\ l = Len(P)
  BY PlainIs
<1>2. /\ l \in 1..8
      /\ \A i \in 1..l :
            /\ P[i] \notin {DIGIT_C, PRINTABLE_C}
            /\ i < l \/ q \notin {"wrap", "return"} => P[i] \notin {NOT_LF_CR_C, NOT_LF_C}
  BY <1>1, PlainIs
<1>3. p + 1 \in 1..l
  BY <1>1, <1>2
<1>4. PICK here : here = P[p + 1]
  OBVIOUS
<1>5. Advances(q, p, b) = IF Fits(b, here) THEN 1 ELSE Fails
  BY <1>1, <1>2, <1>3, <1>4, AdvancesOver
<1>6. Advances(q, p, b) = 1
  BY <1>5
<1>7. p + 1 < l \/ q \notin {"wrap", "return"} => b = here
  <2>1. p + 1 < l \/ q \notin {"wrap", "return"} =>
           here \notin {DIGIT_C, PRINTABLE_C, NOT_LF_CR_C, NOT_LF_C}
    BY <1>2, <1>3, <1>4
  <2> QED BY <1>1, <1>4, <1>6, <2>1, AdvancesOver
<1> QED BY <1>1, <1>2, <1>4, <1>6, <1>7

\* One byte more is one more of the sequence, or its end.
LEMMA OneMore ==
    ASSUME NEW q \in Prompted, NEW s, NEW k \in Nat, NEW p,
           (k = 0 /\ p = 0) \/ Partway(q, s, k, p),
           Advances(q, p, s[k + 1][1]) # Fails,
           p + Advances(q, p, s[k + 1][1]) # Len(Pattern[q])
    PROVE  Partway(q, s, k + 1, p + Advances(q, p, s[k + 1][1]))
<1>1. PICK b, a : b = s[k + 1][1] /\ a = Advances(q, p, b)
  OBVIOUS
<1>2. CASE q \in Moves
  <2>1. p \in 0..2 /\ (p = 0 => k = 0) /\ q # "pwd" /\ q \notin Plain
    BY <1>2 DEF Partway, Moves, Plain
  <2>2. /\ p = 0 => a = 1 /\ b = ESC
        /\ p = 1 => a = 1 /\ b = "["
        /\ p = 2 => a = 0 /\ b \in Digits
    <3>1. Advances(q, p, b) # Fails /\ p + a # Len(Pattern[q])
      BY <1>1
    <3>2. /\ Len(Pattern[q]) = 4
          /\ p = 0 => a = 1 /\ b = ESC
          /\ p = 1 => a = 1 /\ b = "["
          /\ p = 2 => (a = 0 /\ b \in Digits) \/ a = 2
      BY <1>1, <1>2, <2>1, <3>1, MovesAdvance
    <3> QED BY <3>1, <3>2
  <2>3. CASE p = 0
    BY <1>1, <2>1, <2>2, <2>3 DEF Partway
  <2>4. CASE p = 1
    <3>1. k = 1 /\ s[1][1] = ESC
      BY <1>2, <2>4 DEF Partway
    <3> QED BY <1>1, <2>1, <2>2, <2>4, <3>1 DEF Partway
  <2>5. CASE p = 2
    <3>1. k >= 2 /\ s[1][1] = ESC /\ s[2][1] = "[" /\ \A i \in 3..k : s[i][1] \in Digits
      BY <1>2, <2>5 DEF Partway
    <3>2. \A i \in 3..(k + 1) : s[i][1] \in Digits
      BY <1>1, <2>2, <2>5, <3>1
    <3> QED BY <1>1, <2>1, <2>2, <2>5, <3>1, <3>2 DEF Partway
  <2> QED BY <2>1, <2>3, <2>4, <2>5
<1>3. CASE q = "pwd"
  <2>1. p \in {0, 1, 2, 4} /\ (p = 0 => k = 0) /\ q \notin Moves /\ q \notin Plain
    BY <1>3 DEF Partway, Moves, Plain
  <2>2. /\ p = 0 => a = 1 /\ b = ESC
        /\ p = 1 => a = 1 /\ b = "P"
        /\ p = 2 => (a = 0 /\ b \notin Controls) \/ (a = 2 /\ b = ESC)
        /\ p # 4
    <3>1. Advances("pwd", p, b) # Fails /\ p + a # Len(Pattern["pwd"]) /\ a = Advances("pwd", p, b)
      BY <1>1, <1>3
    <3>2. /\ Len(Pattern["pwd"]) = 5
          /\ p = 0 => a = 1 /\ b = ESC
          /\ p = 1 => a = 1 /\ b = "P"
          /\ p = 2 => (a = 0 /\ b \notin Controls) \/ (a = 2 /\ b = ESC)
          /\ p = 4 => a = 1
      BY <2>1, <3>1, PwdAdvances
    <3> QED BY <3>1, <3>2
  <2>3. CASE p = 0
    BY <1>1, <2>1, <2>2, <2>3 DEF Partway
  <2>4. CASE p = 1
    <3>1. k = 1 /\ s[1][1] = ESC
      BY <1>3, <2>4 DEF Partway
    <3>2. "P" \notin Controls
      BY DEF Controls
    <3> QED BY <1>1, <2>1, <2>2, <2>4, <3>1, <3>2 DEF Partway
  <2>5. CASE p = 2
    <3>1. /\ k >= 2 /\ s[1][1] = ESC /\ s[2][1] = "P" /\ s[k][1] \notin Controls
          /\ \A i \in 3..(k - 1) : s[i][1] \notin Controls
      BY <1>3, <2>5 DEF Partway
    <3>2. \A i \in 3..((k + 1) - 1) : s[i][1] \notin Controls
      BY <3>1
    <3> QED BY <1>1, <2>1, <2>2, <2>5, <3>1, <3>2 DEF Partway
  <2> QED BY <2>1, <2>2, <2>3, <2>4, <2>5
<1>4. CASE q \in Plain
  <2>1. q \notin Moves /\ q # "pwd"
    BY <1>4 DEF Moves, Plain
  <2>2. PICK P : P = Pattern[q]
    OBVIOUS
  <2>3. Len(P) \in 1..8
    BY <1>4, <2>2, PlainIs
  <2>4. p = k /\ p \in 0..(Len(P) - 1) /\ \A i \in 1..p : s[i][1] = P[i]
    <3>1. CASE k = 0 /\ p = 0
      <4>1. 0 \in 0..(Len(P) - 1) /\ \A i \in 1..0 : FALSE
        <5>1. PICK l \in 1..8 : l = Len(P)
          BY <2>3, Zenon
        <5>2. 0 \in 0..(l - 1) /\ \A i \in 1..0 : FALSE
          OBVIOUS
        <5> QED BY <5>1, <5>2, Zenon
      <4> QED BY <3>1, <4>1, Zenon
    <3>2. CASE Partway(q, s, k, p)
      <4>1. /\ p = k /\ p \in 1..(Len(Pattern[q]) - 1)
            /\ \A i \in 1..p : s[i][1] = Pattern[q][i]
        BY <1>4, <3>2, Zenon DEF Partway
      <4>2. p = k /\ p \in 1..(Len(P) - 1) /\ \A i \in 1..p : s[i][1] = P[i]
        BY <2>2, <4>1, Zenon
      <4> QED BY <2>3, <4>2
    <3> QED BY <3>1, <3>2
  <2>5. a = 1 /\ (p + 1 < Len(P) => b = P[p + 1])
    BY <1>1, <1>4, <2>2, <2>4, PlainAdvances
  <2>6. p + 1 \in 1..(Len(P) - 1) /\ \A i \in 1..(p + 1) : s[i][1] = P[i]
    BY <1>1, <2>2, <2>3, <2>4, <2>5
  <2> QED BY <1>1, <2>1, <2>2, <2>4, <2>5, <2>6 DEF Partway
<1> QED BY <1>2, <1>3, <1>4 DEF Prompted

\* No sequence ends within calm bytes.
LEMMA EndsAfter ==
    ASSUME NEW q \in Prompted, NEW s, NEW k \in Nat, NEW p,
           (k = 0 /\ p = 0) \/ Partway(q, s, k, p),
           Advances(q, p, s[k + 1][1]) # Fails,
           p + Advances(q, p, s[k + 1][1]) = Len(Pattern[q]),
           NEW m \in Nat, Calm(s, m)
    PROVE  m <= k
<1> SUFFICES ASSUME m > k PROVE FALSE
  OBVIOUS
<1>1. PICK b, a : b = s[k + 1][1] /\ a = Advances(q, p, b)
  OBVIOUS
<1>2. k + 1 \in 1..m
  OBVIOUS
<1>3. b \notin {BEL, BS, LF}
  BY <1>1, <1>2 DEF Calm
<1>4. k > 0 /\ s[1][1] = ESC => b \in {"["} \cup Digits
  <2>1. ASSUME k > 0, s[1][1] = ESC
        PROVE  b \in {"["} \cup Digits
    <3>1. 1 \in 1..m /\ k + 1 \in (1 + 1)..m
      BY <1>2, <2>1
    <3> QED BY <1>1, <2>1, <3>1 DEF Calm
  <2> QED BY <2>1
<1>5. CASE q \in Moves
  <2>1. p \in 0..2 /\ (p = 2 => k >= 2 /\ s[1][1] = ESC)
    BY <1>5 DEF Partway
  <2>2. p = 2 /\ b \in {"C", "D", "A", "K", "P", "@"}
    <3>1. Advances(q, p, b) # Fails /\ p + a = Len(Pattern[q])
      BY <1>1
    <3>2. /\ Len(Pattern[q]) = 4
          /\ p = 0 => a = 1
          /\ p = 1 => a = 1
          /\ p = 2 => a = 0 \/ b \in {"C", "D", "A", "K", "P", "@"}
      BY <1>1, <1>5, <2>1, <3>1, MovesAdvance
    <3> QED BY <2>1, <3>1, <3>2
  <2> QED BY <1>4, <2>1, <2>2 DEF Digits
<1>6. CASE q = "pwd"
  <2>1. p \in {0, 1, 2, 4} /\ (p = 4 => k >= 3 /\ s[1][1] = ESC)
    BY <1>6 DEF Partway
  <2>2. p = 4 /\ b = "backslash"
    <3>1. Advances("pwd", p, b) # Fails /\ p + a = Len(Pattern["pwd"]) /\ a = Advances("pwd", p, b)
      BY <1>1, <1>6
    <3>2. /\ Len(Pattern["pwd"]) = 5
          /\ p = 0 => a = 1
          /\ p = 1 => a = 1
          /\ p = 2 => a \in {0, 2}
          /\ p = 4 => b = "backslash"
      BY <2>1, <3>1, PwdAdvances
    <3> QED BY <2>1, <3>1, <3>2
  <2> QED BY <1>4, <2>1, <2>2 DEF Digits
<1>7. CASE q \in Plain
  <2>1. PICK P : P = Pattern[q]
    OBVIOUS
  <2>2. Len(P) \in 1..8
    BY <1>7, <2>1, PlainIs
  <2>3. p = k /\ p \in 0..(Len(P) - 1) /\ \A i \in 1..p : s[i][1] = P[i]
    <3>1. CASE k = 0 /\ p = 0
      <4>1. 0 \in 0..(Len(P) - 1) /\ \A i \in 1..0 : FALSE
        <5>1. PICK l \in 1..8 : l = Len(P)
          BY <2>2, Zenon
        <5>2. 0 \in 0..(l - 1) /\ \A i \in 1..0 : FALSE
          OBVIOUS
        <5> QED BY <5>1, <5>2, Zenon
      <4> QED BY <3>1, <4>1, Zenon
    <3>2. CASE Partway(q, s, k, p)
      <4>1. /\ p = k /\ p \in 1..(Len(Pattern[q]) - 1)
            /\ \A i \in 1..p : s[i][1] = Pattern[q][i]
        BY <1>7, <3>2, Zenon DEF Partway
      <4>2. p = k /\ p \in 1..(Len(P) - 1) /\ \A i \in 1..p : s[i][1] = P[i]
        BY <2>1, <4>1, Zenon
      <4> QED BY <2>2, <4>2
    <3> QED BY <3>1, <3>2
  <2>4. a = 1 /\ (q \notin {"wrap", "return"} => b = P[p + 1])
    BY <1>1, <1>7, <2>1, <2>3, PlainAdvances
  <2>5. p + 1 = Len(P)
    BY <1>1, <2>1, <2>4
  <2>6. CASE q \in {"ps1", "rstart"}
    <3>1. PICK x \in {"black", "blue"}, y \in {"white", "red"} :
             P = <<ESC, "[", "0", x, ESC, "[", "0", y>>
      BY <2>1, <2>6, PatternsAre
    <3>2. Len(P) = 8 /\ P[8] = y /\ P[1] = ESC
      BY <3>1
    <3>3. p = 7 /\ 1 \in 1..p
      BY <2>3, <2>5, <3>2
    <3>4. b = P[7 + 1]
      BY <2>4, <2>6, <3>3
    <3>5. b = P[8]
      BY <3>4
    <3>6. p = 7 /\ b = y /\ s[1][1] = ESC
      BY <2>3, <3>2, <3>3, <3>5, Zenon
    <3> QED BY <1>4, <2>3, <3>6 DEF Digits
  <2>7. CASE q \in {"wrap", "return"}
    <3>1. k > 0 /\ s[k][1] = CR
      <4>1. CASE q = "wrap"
        <5>1. P = <<Blank, CR, NOT_LF_CR_C>>
          BY <2>1, <4>1, PatternsAre
        <5>2. Len(P) = 3 /\ P[2] = CR
          BY <5>1
        <5> QED BY <2>3, <2>5, <5>2
      <4>2. CASE q = "return"
        <5>1. P = <<CR, NOT_LF_C>>
          BY <2>1, <4>2, PatternsAre
        <5>2. Len(P) = 2 /\ P[1] = CR
          BY <5>1
        <5> QED BY <2>3, <2>5, <5>2
      <4> QED BY <2>7, <4>1, <4>2
    <3>2. k \in 1..m
      BY <3>1
    <3> QED BY <3>1, <3>2 DEF Calm
  <2>8. CASE q \in {"newline", "backspace", "bell"}
    <3>1. b \in {BEL, BS, LF}
      <4>1. CASE q = "newline"
        <5>1. P = <<CR, LF>>
          BY <2>1, <4>1, PatternsAre
        <5>2. Len(P) = 2 /\ P[2] = LF
          BY <5>1
        <5> QED BY <2>3, <2>4, <2>5, <4>1, <5>2
      <4>2. CASE q \in {"backspace", "bell"}
        <5>1. PICK x \in {BS, BEL} : P = <<x>>
          BY <2>1, <4>2, PatternsAre
        <5>2. Len(P) = 1 /\ P[1] = x
          BY <5>1
        <5> QED BY <2>3, <2>4, <2>5, <4>2, <5>2
      <4> QED BY <2>8, <4>1, <4>2
    <3> QED BY <1>3, <3>1
  <2> QED BY <1>7, <2>6, <2>7, <2>8 DEF Plain
<1> QED BY <1>5, <1>6, <1>7 DEF Prompted

-----------------------------------------------------------------------------
(* All of a level's sequences, and the one that is found.                  *)

Levels == {"prompt", "executing", "rprompt"}

Sqs == [Sequences_ -> [pos : Nat, enabled : BOOLEAN]]

LEMMA GroupsAre ==
    /\ \A l \in Levels : seq_groups[l] \in Seq(Sequences_)
    /\ \A l \in Levels : Groups[l] = {seq_groups[l][i] : i \in DOMAIN seq_groups[l]}
    /\ \A l \in Levels : Groups[l] \subseteq Sequences_
    /\ Groups["prompt"] \subseteq Prompted
<1>1. TermSeqs \in Seq(Prompted)
  BY DEF TermSeqs, Prompted, Moves, Plain
<1>2. <<"ps1", "pwd">> \o TermSeqs \in Seq(Prompted)
  <2>1. <<"ps1", "pwd">> \in Seq(Prompted)
    BY DEF Prompted, Plain
  <2> QED BY <1>1, <2>1, ConcatProperties
<1>3. <<"ps1", "rstart">> \o TermSeqs \o <<"pwd">> \in Seq(Prompted)
  <2>1. <<"ps1", "rstart">> \in Seq(Prompted) /\ <<"pwd">> \in Seq(Prompted)
    BY DEF Prompted, Plain
  <2>2. <<"ps1", "rstart">> \o TermSeqs \in Seq(Prompted)
    BY <1>1, <2>1, ConcatProperties
  <2> QED BY <2>1, <2>2, ConcatProperties
<1>4. Prompted \subseteq Sequences_
  BY PatternsAre
<1>5. /\ init_bash_seqs["prompt"] \in Seq(Prompted) /\ init_zsh_seqs["prompt"] \in Seq(Prompted)
      /\ \A l \in Levels \ {"prompt"} :
            init_bash_seqs[l] \in Seq(Sequences_) /\ init_zsh_seqs[l] \in Seq(Sequences_)
      /\ DOMAIN init_bash_seqs = Levels /\ DOMAIN init_zsh_seqs = Levels
  <2>1. /\ init_bash_seqs["prompt"] \in Seq(Prompted) /\ init_zsh_seqs["prompt"] \in Seq(Prompted)
    BY <1>2, <1>3 DEF init_bash_seqs, init_zsh_seqs
  <2>2. {"ps1", "pwd", "rend", "completed"} \subseteq Sequences_
    BY DEF Sequences_, Pattern
  <2>3. /\ init_bash_seqs["executing"] \in Seq(Sequences_) /\ init_bash_seqs["rprompt"] \in Seq(Sequences_)
        /\ init_zsh_seqs["executing"] \in Seq(Sequences_) /\ init_zsh_seqs["rprompt"] \in Seq(Sequences_)
    BY <2>2 DEF init_bash_seqs, init_zsh_seqs
  <2>4. DOMAIN init_bash_seqs = Levels /\ DOMAIN init_zsh_seqs = Levels
    BY DEF init_bash_seqs, init_zsh_seqs, Levels
  <2> QED BY <2>1, <2>3, <2>4 DEF Levels
<1>6. seq_groups["prompt"] \in Seq(Prompted)
  BY <1>5 DEF seq_groups
<1>7. \A l \in Levels : seq_groups[l] \in Seq(Sequences_)
  <2>1. seq_groups["prompt"] \in Seq(Sequences_)
    BY <1>4, <1>6
  <2>2. \A l \in Levels \ {"prompt"} : seq_groups[l] \in Seq(Sequences_)
    BY <1>5 DEF seq_groups
  <2> QED BY <2>1, <2>2
<1>8. DOMAIN seq_groups = Levels
  BY <1>5 DEF seq_groups
<1>9. \A l \in Levels : Groups[l] = {seq_groups[l][i] : i \in DOMAIN seq_groups[l]}
  BY <1>8 DEF Groups, ToSet
<1>10. \A l \in Levels : Groups[l] \subseteq Sequences_
  BY <1>7, <1>9
<1>11. Groups["prompt"] \subseteq Prompted
  BY <1>6, <1>9 DEF Levels
<1> QED BY <1>7, <1>9, <1>10, <1>11

LEMMA SqIs ==
    ASSUME NEW sq2 \in Sqs, NEW q \in Sequences_
    PROVE  /\ sq2[q] = [pos |-> sq2[q].pos, enabled |-> sq2[q].enabled]
           /\ sq2[q].pos \in Nat /\ sq2[q].enabled \in BOOLEAN
<1>1. sq2[q] \in [pos : Nat, enabled : BOOLEAN]
  BY DEF Sqs
<1> QED BY <1>1

\* What a byte does to one of them.
LEMMA CheckedIs ==
    ASSUME NEW sq2 \in Sqs, NEW q \in Sequences_, NEW b
    PROVE  LET a == Advances(q, sq2[q].pos, b)
               r == check_seq(sq2, q, b)
           IN /\ r \in [pos : Nat, enabled : BOOLEAN]
              /\ Mismatches(sq2, q, b) =>
                    ~r.enabled /\ (r.pos = 0 \/ (~sq2[q].enabled /\ r.pos = sq2[q].pos))
              /\ ~Mismatches(sq2, q, b) /\ ~Completes(sq2, q, b) =>
                    r = [pos |-> sq2[q].pos + a, enabled |-> TRUE]
<1>1. PICK e \in BOOLEAN, p \in Nat : sq2[q] = [pos |-> p, enabled |-> e]
  BY SqIs
<1>2. PICK a \in {0, 1, 2, Fails} : a = Advances(q, p, b)
  BY AdvancesIs
<1>3. /\ sq2[q].enabled = e /\ sq2[q].pos = p
      /\ Mismatches(sq2, q, b) <=> ~e \/ a = Fails
      /\ Completes(sq2, q, b) => e /\ a # Fails
  BY <1>1, <1>2 DEF Mismatches, Completes
<1>4. PICK r : r = check_seq(sq2, q, b)
  OBVIOUS
<1>5. CASE ~e
  <2>1. r = sq2[q]
    BY <1>3, <1>4, <1>5, Zenon DEF check_seq
  <2> QED BY <1>1, <1>3, <1>4, <1>5, <2>1
<1>6. CASE e /\ a = Fails
  <2>1. r = [pos |-> 0, enabled |-> FALSE]
    BY <1>3, <1>4, <1>6, Zenon DEF check_seq
  <2> QED BY <1>3, <1>4, <1>6, <2>1
<1>7. CASE e /\ a # Fails /\ Completes(sq2, q, b)
  <2>1. r = [sq2[q] EXCEPT !.pos = 0]
    BY <1>3, <1>4, <1>7, Zenon DEF check_seq
  <2>2. r = [pos |-> 0, enabled |-> TRUE]
    <3>1. e = TRUE
      BY <1>7
    <3>2. PICK v, t : v = sq2[q] /\ v = [pos |-> p, enabled |-> t] /\ t = TRUE
      BY <1>1, <3>1, Zenon
    <3>3. [v EXCEPT !.pos = 0] = [pos |-> 0, enabled |-> t]
      <4>1. v = [pos |-> p, enabled |-> t]
        BY <3>2
      <4> QED BY <4>1
    <3> QED BY <2>1, <3>2, <3>3, Zenon
  <2> QED BY <1>3, <1>4, <1>7, <2>2
<1>8. CASE e /\ a # Fails /\ ~Completes(sq2, q, b)
  <2>1. r = [sq2[q] EXCEPT !.pos = @ + Advances(q, @, b)]
    BY <1>3, <1>4, <1>8, Zenon DEF check_seq
  <2>2. r = [pos |-> p + a, enabled |-> TRUE]
    <3>1. e = TRUE
      BY <1>8
    <3>2. PICK v, t : v = sq2[q] /\ v = [pos |-> p, enabled |-> t] /\ t = TRUE
      BY <1>1, <3>1, Zenon
    <3>3. r = [v EXCEPT !.pos = v.pos + Advances(q, v.pos, b)] /\ v.pos = p
      BY <2>1, <3>2
    <3>4. r = [v EXCEPT !.pos = p + a]
      BY <1>2, <3>3, Zenon
    <3>5. [v EXCEPT !.pos = p + a] = [pos |-> p + a, enabled |-> t]
      <4>1. v = [pos |-> p, enabled |-> t]
        BY <3>2
      <4> QED BY <4>1
    <3> QED BY <3>2, <3>4, <3>5, Zenon
  <2>3. p + a \in Nat
    BY <1>8 DEF Fails
  <2> QED BY <1>2, <1>3, <1>4, <1>8, <2>2, <2>3
<1> QED BY <1>5, <1>6, <1>7, <1>8

LEMMA CheckedAre ==
    ASSUME NEW sq2 \in Sqs, NEW l \in Levels, NEW b
    PROVE  /\ check_seqs(sq2, l, b) \in Sqs
           /\ Matches(sq2, l, b) = {} =>
                 \A q \in Groups[l] : check_seqs(sq2, l, b)[q] = check_seq(sq2, q, b)
<1> DEFINE given == {i \in DOMAIN seq_groups[l] : \A m \in Matches(sq2, l, b) : i <= m}
           names == {seq_groups[l][i] : i \in given}
<1>1. check_seqs(sq2, l, b) =
         [q \in Sequences_ |-> IF q \in names THEN check_seq(sq2, q, b) ELSE sq2[q]]
  BY DEF check_seqs
<1>2. Matches(sq2, l, b) = {} => names = Groups[l]
  BY GroupsAre
<1> HIDE DEF names
<1>3. \A q \in Sequences_ : /\ check_seq(sq2, q, b) \in [pos : Nat, enabled : BOOLEAN]
                            /\ sq2[q] \in [pos : Nat, enabled : BOOLEAN]
  BY CheckedIs DEF Sqs
<1>4. check_seqs(sq2, l, b) \in Sqs
  BY <1>1, <1>3 DEF Sqs
<1>5. Groups[l] \subseteq Sequences_
  BY GroupsAre
<1> QED BY <1>1, <1>2, <1>4, <1>5

LEMMA FoundIs ==
    ASSUME NEW sq2, NEW l \in Levels, NEW b
    PROVE  LET f == Found(sq2, l, b)
               unmatched == Matches(sq2, l, b) = {} /\ \A q \in Groups[l] : ~Completes(sq2, q, b)
           IN \/ f = "progress" /\ unmatched /\ \E q \in Groups[l] : ~Mismatches(sq2, q, b)
              \/ f = "none" /\ unmatched /\ \A q \in Groups[l] : Mismatches(sq2, q, b)
              \/ f \in Groups[l] /\ Completes(sq2, f, b)
<1>1. PICK g, M : g = seq_groups[l] /\ M = Matches(sq2, l, b)
  OBVIOUS
<1>2. g \in Seq(Sequences_) /\ Groups[l] = {g[i] : i \in DOMAIN g}
  BY <1>1, GroupsAre
<1>3. M = {i \in DOMAIN g : Completes(sq2, g[i], b)}
  BY <1>1 DEF Matches
<1>4. CASE M # {}
  <2>1. PICK k \in Nat : k = Len(g) /\ DOMAIN g = 1..k
    BY <1>2
  <2>2. M \in SUBSET (1..k)
    BY <1>3, <2>1
  <2>3. Min(M) \in M
    BY <1>4, <2>2, Extremes
  <2>4. Found(sq2, l, b) = g[Min(M)]
    BY <1>1, <1>4 DEF Found
  <2>5. PICK i \in M : i = Min(M)
    BY <2>3
  <2>6. g[i] \in Groups[l] /\ Completes(sq2, g[i], b)
    BY <1>2, <1>3
  <2> QED BY <2>4, <2>5, <2>6
<1>5. CASE M = {}
  <2>1. \A q \in Groups[l] : ~Completes(sq2, q, b)
    BY <1>2, <1>3, <1>5
  <2>2. Found(sq2, l, b) = IF \E q \in Groups[l] : ~Mismatches(sq2, q, b) THEN "progress" ELSE "none"
    BY <1>1, <1>5 DEF Found
  <2> QED BY <1>1, <1>5, <2>1, <2>2
<1> QED BY <1>4, <1>5

-----------------------------------------------------------------------------
(* No byte twice.                                                          *)

\* Where the read, the segment and what is written are.
Written ==
    /\ {seglen, hold, skip, early, avail} \subseteq Nat
    /\ {reading, hoWritten, partly} \subseteq BOOLEAN
    /\ seglen <= Len(Stream) /\ early <= Len(Stream)
    /\ ~partly => seglen = 0
    /\ reading => hold = 0 /\ ~hoWritten /\ skip = early /\ early <= avail /\ seglen <= avail
    /\ ~reading => hold = seglen /\ early = (IF hoWritten THEN hold ELSE 0)

\* At a prompt the segment is the beginning of each sequence still looked for.
Compared ==
    /\ pl \in Levels /\ sq \in Sqs
    /\ pl = "prompt" =>
          /\ \A q \in Groups["prompt"] :
                IF partly /\ sq[q].enabled THEN Partway(q, Stream, seglen, sq[q].pos)
                                           ELSE sq[q].pos = 0
          /\ partly => \E q \in Groups["prompt"] : sq[q].enabled

\* What is written early is of the segment, or holds the end of no sequence, and
\* is at a prompt.
Early == (pl # "prompt" => early = 0) /\ (early <= seglen \/ Calm(Stream, early))

OnceInv == Position /\ Written /\ Compared /\ Early

\* A directory's marker is found before any of it is written.
MarkerWhole == reading /\ seglen < Len(Stream) /\ Found(Enabled, pl, c) = "pwd" => early = 0

LEMMA InitOnce == Init => OnceInv
<1> SUFFICES ASSUME Init PROVE OnceInv
  OBVIOUS
<1>1. PICK f : f[0] = <<>> /\ f[Len(<<>>)] = PrintedBytes(<<>>)
  BY NoBytes, PrintedAre
<1>2. PrintedBytes(todo) = <<>> /\ Len(PrintedBytes(todo)) = 0
  BY <1>1 DEF Init
<1>3. Position
  BY <1>2, NoBytes DEF Init, Position
<1>4. Len(Stream) = 0
  BY <1>2, <1>3, StreamIs DEF Init
<1>5. /\ seglen = 0 /\ hold = 0 /\ skip = 0 /\ early = 0 /\ avail = 0
      /\ reading = FALSE /\ hoWritten = FALSE /\ partly = FALSE
  BY DEF Init
<1>6. Written
  <2>1. /\ {seglen, hold, skip, early, avail} \subseteq Nat
        /\ {reading, hoWritten, partly} \subseteq BOOLEAN
        /\ seglen <= Len(Stream) /\ early <= Len(Stream) /\ ~reading /\ ~hoWritten
    <3>1. {seglen, hold, skip, early, avail} \subseteq Nat
      BY <1>5
    <3>2. {reading, hoWritten, partly} \subseteq BOOLEAN /\ ~reading /\ ~hoWritten
      BY <1>5, Zenon
    <3>3. seglen <= Len(Stream) /\ early <= Len(Stream)
      BY <1>4, <1>5
    <3> QED BY <3>1, <3>2, <3>3
  <2> QED BY <1>5, <2>1, Zenon DEF Written
<1>7. Compared
  BY DEF Init, Compared, Levels, Sqs, init_seqs
<1>8. Early
  BY DEF Init, Early
<1> QED BY <1>3, <1>6, <1>7, <1>8 DEF OnceInv

LEMMA EnabledIs ==
    ASSUME OnceInv
    PROVE  /\ Enabled \in Sqs
           /\ pl = "prompt" =>
                 \A q \in Groups["prompt"] :
                    IF Enabled[q].enabled
                    THEN (seglen = 0 /\ Enabled[q].pos = 0) \/ Partway(q, Stream, seglen, Enabled[q].pos)
                    ELSE Enabled[q].pos = 0
<1>1. pl \in Levels /\ sq \in Sqs /\ partly \in BOOLEAN
  BY DEF OnceInv, Compared, Written
<1>2. CASE partly
  BY <1>1, <1>2 DEF Enabled, OnceInv, Compared
<1>3. CASE ~partly
  <2>1. Enabled = [q \in Sequences_ |-> IF q \in Groups[pl] THEN [sq[q] EXCEPT !.enabled = TRUE] ELSE sq[q]]
    BY <1>3 DEF Enabled, enable_all_seqs
  <2>2. ASSUME NEW q \in Sequences_
        PROVE  [sq[q] EXCEPT !.enabled = TRUE] = [pos |-> sq[q].pos, enabled |-> TRUE]
    <3>1. PICK r : r = sq[q]
      OBVIOUS
    <3>2. r = [pos |-> r.pos, enabled |-> r.enabled]
      BY <1>1, <3>1, SqIs
    <3>3. \A x : [r EXCEPT !.enabled = x] = [pos |-> r.pos, enabled |-> x]
      BY <3>2
    <3> QED BY <3>1, <3>3, Zenon
  <2>3. Enabled \in Sqs
    <3>1. \A q \in Sequences_ : sq[q] \in [pos : Nat, enabled : BOOLEAN] /\ sq[q].pos \in Nat
      BY <1>1, SqIs DEF Sqs
    <3> QED BY <2>1, <2>2, <3>1 DEF Sqs
  <2>4. ASSUME pl = "prompt", NEW q \in Groups["prompt"]
        PROVE  seglen = 0 /\ Enabled[q].pos = 0
    <3>1. q \in Sequences_ /\ sq[q].pos = 0 /\ seglen = 0
      BY <1>1, <1>3, <2>4, GroupsAre DEF OnceInv, Compared, Written
    <3> QED BY <2>1, <2>2, <2>4, <3>1
  <2> QED BY <2>3, <2>4
<1> QED BY <1>1, <1>2, <1>3

LEMMA FilledIs ==
    ASSUME Written
    PROVE  Filled \in Nat /\ Filled >= avail /\ Filled >= seglen + 1
<1>1. PICK a \in Nat, b \in Nat : a = avail /\ b = seglen + 1
  BY DEF Written
<1>2. PICK m : m = a + b
  OBVIOUS
<1>3. m \in Nat /\ {a, b} \in SUBSET (0..m) /\ {a, b} # {}
  BY <1>2
<1>4. \E x \in {a, b} : \A y \in {a, b} : x >= y
  BY <1>3, Greatest
<1>5. Max({a, b}) \in {a, b} /\ \A y \in {a, b} : Max({a, b}) >= y
  BY <1>4 DEF Max
<1> QED BY <1>1, <1>5 DEF Filled

LEMMA LessIs ==
    ASSUME NEW a \in Nat, NEW b \in Nat
    PROVE  /\ Less(a, b) \in Nat /\ Less(a, b) <= a /\ (a <= b => Less(a, b) = 0)
           /\ (a > b => Less(a, b) = a - b)
BY DEF Less

\* What leaves the segment takes with it what was written of it.
LEMMA PassedIs ==
    ASSUME OnceInv, reading, NEW m \in Nat, m <= Len(Stream), NEW read \in Nat,
           m <= read, avail <= read, passed(m, read), partly' = FALSE
    PROVE  /\ Position' /\ seglen' = 0 /\ early' = Less(early, m)
           /\ reading' = TRUE \/ (reading' = FALSE /\ early <= m) => Written'
           /\ Len(Stream') = Len(Stream) - m
           /\ \A i \in 1..(Len(Stream) - m) : Stream'[i] = Stream[i + m]
<1>1. Position /\ Written
  BY DEF OnceInv
<1>2. Leave(m, read)
  BY DEF passed
<1>3. /\ Position' /\ avail' = read - m /\ seglen' = 0
      /\ Len(Stream') = Len(Stream) - m
      /\ \A i \in 1..(Len(Stream) - m) : Stream'[i] = Stream[i + m]
  BY <1>1, <1>2, LeaveIs
<1>4. PICK l \in Nat : l = Len(Stream)
  BY <1>1, StreamIs, AListHas
<1>5. /\ skip' = Less(skip, m) /\ early' = Less(early, m)
      /\ hold' = hold /\ hoWritten' = hoWritten
  BY DEF passed
<1>6. /\ skip = early /\ early \in Nat /\ early <= avail /\ early <= l /\ hold = 0 /\ ~hoWritten
      /\ avail \in Nat /\ hoWritten \in BOOLEAN
  BY <1>1, <1>4 DEF Written
<1>7. early' \in Nat /\ early' <= read - m /\ early' <= l - m
  <2>1. PICK e \in Nat, r \in Nat : e = early /\ r = Less(e, m)
    BY <1>6, LessIs
  <2>2. (e <= m => r = 0) /\ (e > m => r = e - m)
    BY <2>1, LessIs
  <2>3. r <= read - m /\ r <= l - m
    BY <1>4, <1>6, <2>1, <2>2
  <2> QED BY <1>5, <2>1, <2>3
<1>8. /\ hold' = 0 /\ hoWritten' = FALSE /\ skip' = early' /\ seglen' = 0
      /\ avail' \in Nat /\ Len(Stream') = l - m /\ seglen' <= Len(Stream')
      /\ early' <= avail' /\ seglen' <= avail' /\ early' <= Len(Stream')
  BY <1>3, <1>4, <1>5, <1>6, <1>7
<1>9. reading' = TRUE => Written'
  <2>1. {seglen', hold', skip', early', avail'} \subseteq Nat
    BY <1>7, <1>8
  <2>2. reading' = TRUE => {reading', hoWritten', partly'} \subseteq BOOLEAN /\ reading' /\ ~hoWritten'
    BY <1>8
  <2> QED BY <1>8, <2>1, <2>2, Zenon DEF Written
<1>10. reading' = FALSE /\ early <= m => Written'
  <2>1. early <= m => early' = 0
    BY <1>5, <1>6, LessIs
  <2> QED BY <1>7, <1>8, <2>1 DEF Written
<1> QED BY <1>3, <1>5, <1>9, <1>10

\* After a sequence.
LEMMA BecomesIs ==
    ASSUME OnceInv, NEW l \in Levels, Becomes(l), partly' = FALSE
    PROVE  Compared'
<1>1. /\ pl' = l
      /\ sq' = clear_seqs(check_seqs(Enabled, pl, c), l)
  BY DEF Becomes
<1>2. pl \in Levels /\ Enabled \in Sqs
  BY EnabledIs DEF OnceInv, Compared
<1>3. PICK sq2 \in Sqs : sq2 = check_seqs(Enabled, pl, c)
  BY <1>2, CheckedAre
<1>4. sq' = [q \in Sequences_ |-> [pos |-> IF q \in Groups[l] THEN 0 ELSE sq2[q].pos, enabled |-> FALSE]]
  BY <1>1, <1>3 DEF clear_seqs
<1>5. sq' \in Sqs
  <2>1. \A q \in Sequences_ : sq2[q].pos \in Nat
    BY SqIs
  <2> QED BY <1>4, <2>1 DEF Sqs
<1>6. ASSUME l = "prompt", NEW q \in Groups["prompt"]
      PROVE  sq'[q].pos = 0
  <2>1. q \in Sequences_
    BY <1>6, GroupsAre
  <2> QED BY <1>4, <1>6, <2>1
<1> QED BY <1>1, <1>5, <1>6 DEF Compared

\* All that is written has left with a sequence that is found.
LEMMA FoundAfter ==
    ASSUME OnceInv, NEW q \in Groups[pl], Completes(Enabled, q, c)
    PROVE  early <= seglen
<1>1. pl \in Levels /\ seglen \in Nat /\ early \in Nat
  BY DEF OnceInv, Compared, Written
<1>2. CASE pl # "prompt"
  BY <1>1, <1>2 DEF OnceInv, Early
<1>3. CASE pl = "prompt"
  <2>1. q \in Prompted /\ q \in Sequences_
    <3>1. q \in Groups["prompt"]
      BY <1>3
    <3> QED BY <3>1, GroupsAre, PatternsAre
  <2>2. PICK s, p : s = Stream /\ p = Enabled[q].pos
    OBVIOUS
  <2>3. /\ Enabled[q].enabled
        /\ Advances(q, p, s[seglen + 1][1]) # Fails
        /\ p + Advances(q, p, s[seglen + 1][1]) = Len(Pattern[q])
    BY <2>2 DEF Completes, Mismatches, c
  <2>4. (seglen = 0 /\ p = 0) \/ Partway(q, s, seglen, p)
    BY <1>3, <2>2, <2>3, EnabledIs
  <2>5. Calm(s, early) => early <= seglen
    BY <1>1, <2>1, <2>3, <2>4, EndsAfter
  <2> QED BY <2>2, <2>5 DEF OnceInv, Early
<1> QED BY <1>2, <1>3

LEMMA MatchKeeps ==
    ASSUME OnceInv, reading, seglen < Len(Stream), partly' = FALSE,
           NEW q \in Groups[pl], Completes(Enabled, q, c),
           NEW m \in {seglen, seglen + 1}, pass_segment(m), NEW l \in Levels, Becomes(l)
    PROVE  OnceInv'
<1>1. Written /\ Position
  BY DEF OnceInv
<1>2. PICK k \in Nat : k = Len(Stream)
  BY <1>1, StreamIs, AListHas
<1>3. m \in Nat /\ m <= k /\ seglen <= m /\ early \in Nat
  BY <1>1, <1>2 DEF Written
<1>4. Filled \in Nat /\ m <= Filled /\ avail <= Filled
  BY <1>1, FilledIs DEF Written
<1>5. passed(m, Filled) /\ reading' = TRUE
  BY <1>1 DEF pass_segment, Written
<1>6. Position' /\ Written' /\ seglen' = 0 /\ early' = Less(early, m)
  BY <1>2, <1>3, <1>4, <1>5, PassedIs
<1>7. early' = 0
  <2>1. early <= seglen
    BY FoundAfter
  <2>2. early <= m
    BY <1>1, <1>3, <2>1 DEF Written
  <2> QED BY <1>3, <1>6, <2>2, LessIs
<1>8. Compared'
  BY BecomesIs
<1> QED BY <1>6, <1>7, <1>8 DEF OnceInv, Early

\* The directory's marker, which leaves skip as it is.
LEMMA PwdKeeps ==
    ASSUME OnceInv, reading, seglen < Len(Stream), partly' = FALSE, early = 0, seq_new_pwd
    PROVE  OnceInv'
<1>1. Written /\ Position /\ pl \in Levels
  BY DEF OnceInv, Compared
<1>2. PICK k \in Nat : k = Len(Stream)
  BY <1>1, StreamIs, AListHas
<1>3. seglen + 1 \in Nat /\ seglen + 1 <= k
  BY <1>1, <1>2 DEF Written
<1>4. Filled \in Nat /\ seglen + 1 <= Filled
  BY <1>1, FilledIs
<1>5. Becomes(pl)
  BY DEF seq_new_pwd, NoEffect
<1>6. Compared'
  BY <1>1, <1>5, BecomesIs
<1>7. /\ Leave(seglen + 1, Filled) /\ early' = 0 /\ skip' = skip
      /\ reading' = reading /\ hold' = hold /\ hoWritten' = hoWritten
  BY DEF seq_new_pwd, eat_segment
<1>8. /\ Position' /\ avail' = Filled - (seglen + 1) /\ seglen' = 0
      /\ Len(Stream') = k - (seglen + 1)
  BY <1>1, <1>2, <1>3, <1>7, LeaveIs
<1>9. avail' \in Nat /\ Len(Stream') \in Nat
  BY <1>2, <1>3, <1>4, <1>8
<1>10. Written'
  <2>1. {seglen', hold', skip', early', avail'} \subseteq Nat
    BY <1>1, <1>7, <1>8, <1>9 DEF Written
  <2>2. {reading', hoWritten', partly'} \subseteq BOOLEAN /\ reading' /\ ~hoWritten'
    BY <1>1, <1>7 DEF Written
  <2>3. hold' = 0 /\ skip' = early' /\ early' <= avail' /\ seglen' <= avail'
    BY <1>1, <1>7, <1>8, <1>9 DEF Written
  <2>4. seglen' <= Len(Stream') /\ early' <= Len(Stream')
    BY <1>7, <1>8, <1>9
  <2> QED BY <1>8, <2>1, <2>2, <2>3, <2>4, Zenon DEF Written
<1> QED BY <1>6, <1>7, <1>8, <1>10 DEF OnceInv, Early

\* Every other function passes the segment, with or without its last byte.
LEMMA RunIs ==
    ASSUME NEW found, found \notin {"progress", "none", "pwd"}, Run(found), pl \in Levels
    PROVE  /\ pass_segment(seglen) \/ pass_segment(seglen + 1)
           /\ \E l \in Levels : Becomes(l)
<1>1. "prompt" \in Levels /\ "executing" \in Levels /\ "rprompt" \in Levels
  BY DEF Levels
<1>2. /\ Error \/ CmdStarted \/ CmdRebuild \/ RpromptStarted => \E l \in Levels : Becomes(l)
      /\ \A line : NoEffect(line) \/ Edited(line) \/ CmdExecuted(line) => \E l \in Levels : Becomes(l)
  BY <1>1 DEF Error, CmdStarted, CmdRebuild, RpromptStarted, NoEffect, Edited, CmdExecuted
<1>3. CASE seq_ps1_separator
  BY <1>2, <1>3 DEF seq_ps1_separator
<1>4. CASE seq_rprompt_separator_start
  BY <1>2, <1>4 DEF seq_rprompt_separator_start
<1>5. CASE seq_zsh_completion_done
  BY <1>2, <1>5 DEF seq_zsh_completion_done
<1>6. CASE seq_term_cmd_wrapped
  BY <1>2, <1>6 DEF seq_term_cmd_wrapped
<1>7. CASE seq_term_backspace
  BY <1>2, <1>7 DEF seq_term_backspace
<1>8. CASE seq_term_cursor_forward
  BY <1>2, <1>8 DEF seq_term_cursor_forward
<1>9. CASE seq_term_cursor_backward
  BY <1>2, <1>9 DEF seq_term_cursor_backward
<1>10. CASE seq_term_cursor_up
  BY <1>2, <1>10 DEF seq_term_cursor_up
<1>11. CASE seq_term_erase_in_line
  BY <1>2, <1>11 DEF seq_term_erase_in_line
<1>12. CASE seq_term_delete_chars
  BY <1>2, <1>12 DEF seq_term_delete_chars
<1>13. CASE seq_term_insert_blanks
  BY <1>2, <1>13 DEF seq_term_insert_blanks
<1>14. CASE seq_term_bell
  BY <1>2, <1>14 DEF seq_term_bell
<1>15. CASE seq_term_carriage_return
  BY <1>2, <1>15 DEF seq_term_carriage_return
<1>16. CASE seq_term_newline
  BY <1>2, <1>16 DEF seq_term_newline
<1> QED BY <1>3, <1>4, <1>5, <1>6, <1>7, <1>8, <1>9, <1>10, <1>11, <1>12, <1>13, <1>14,
           <1>15, <1>16 DEF Run

LEMMA ProgressKeeps ==
    ASSUME OnceInv, reading, seglen < Len(Stream), partly' = TRUE, InProgress,
           Matches(Enabled, pl, c) = {}, \A q \in Groups[pl] : ~Completes(Enabled, q, c),
           \E q \in Groups[pl] : ~Mismatches(Enabled, q, c)
    PROVE  OnceInv'
<1>1. Written /\ Position /\ pl \in Levels
  BY DEF OnceInv, Compared
<1>2. PICK k \in Nat : k = Len(Stream)
  BY <1>1, StreamIs, AListHas
<1>3. Filled \in Nat /\ Filled >= avail /\ Filled >= seglen + 1
  BY <1>1, FilledIs
<1>4. /\ sq' = check_seqs(Enabled, pl, c) /\ seglen' = seglen + 1 /\ avail' = Filled
      /\ UNCHANGED <<shellVars, reading, hold, hoWritten, skip, early, pl>>
  BY DEF InProgress
<1>5. Stream' = Stream /\ Position'
  BY <1>1, <1>4, StreamStays
<1>6. Written'
  <2>1. /\ seglen' \in Nat /\ avail' \in Nat /\ seglen' <= Len(Stream') /\ early <= Filled
        /\ seglen' <= avail'
    BY <1>1, <1>2, <1>3, <1>4, <1>5 DEF Written
  <2>2. {seglen', hold', skip', early', avail'} \subseteq Nat
    BY <1>1, <1>4, <2>1 DEF Written
  <2>3. {reading', hoWritten', partly'} \subseteq BOOLEAN /\ reading' /\ ~hoWritten'
    BY <1>1, <1>4 DEF Written
  <2>4. early' <= Len(Stream') /\ early' <= avail' /\ skip' = early' /\ hold' = 0
    BY <1>1, <1>4, <1>5, <2>1 DEF Written
  <2> QED BY <2>1, <2>2, <2>3, <2>4, Zenon DEF Written
<1>7. Early'
  BY <1>1, <1>4, <1>5 DEF OnceInv, Early, Written
<1>8. Enabled \in Sqs /\ sq' \in Sqs
  BY <1>1, <1>4, EnabledIs, CheckedAre
<1>9. ASSUME pl = "prompt"
      PROVE  /\ \A q \in Groups["prompt"] :
                   IF sq'[q].enabled THEN Partway(q, Stream, seglen + 1, sq'[q].pos)
                                     ELSE sq'[q].pos = 0
             /\ \E q \in Groups["prompt"] : sq'[q].enabled
  <2>1. \A q \in Groups["prompt"] : sq'[q] = check_seq(Enabled, q, c)
    BY <1>1, <1>4, <1>8, <1>9, CheckedAre
  <2>2. ASSUME NEW q \in Groups["prompt"]
        PROVE  /\ Mismatches(Enabled, q, c) => ~sq'[q].enabled /\ sq'[q].pos = 0
               /\ ~Mismatches(Enabled, q, c) =>
                     sq'[q].enabled /\ Partway(q, Stream, seglen + 1, sq'[q].pos)
    <3>1. q \in Prompted /\ q \in Sequences_
      BY GroupsAre DEF Levels
    <3>2. PICK s, p : s = Stream /\ p = Enabled[q].pos
      OBVIOUS
    <3>3. IF Enabled[q].enabled THEN (seglen = 0 /\ p = 0) \/ Partway(q, s, seglen, p) ELSE p = 0
      BY <1>9, <3>2, EnabledIs
    <3>4. ASSUME Mismatches(Enabled, q, c)
          PROVE  ~sq'[q].enabled /\ sq'[q].pos = 0
      BY <1>8, <2>1, <3>1, <3>2, <3>3, <3>4, CheckedIs
    <3>5. ASSUME ~Mismatches(Enabled, q, c)
          PROVE  sq'[q].enabled /\ Partway(q, Stream, seglen + 1, sq'[q].pos)
      <4>1. ~Completes(Enabled, q, c)
        BY <1>9
      <4>2. PICK b : b = s[seglen + 1][1]
        OBVIOUS
      <4>3. c = b
        BY <3>2, <4>2 DEF c
      <4>4. sq'[q] = [pos |-> p + Advances(q, p, b), enabled |-> TRUE]
        BY <1>8, <2>1, <3>1, <3>2, <3>5, <4>1, <4>3, CheckedIs
      <4>5. Enabled[q].enabled /\ Advances(q, p, b) # Fails
        BY <3>2, <3>5, <4>3 DEF Mismatches
      <4>6. p + Advances(q, p, b) # Len(Pattern[q])
        BY <3>2, <3>5, <4>1, <4>3 DEF Completes
      <4>7. Partway(q, s, seglen + 1, p + Advances(q, p, b))
        BY <1>1, <3>1, <3>3, <4>2, <4>5, <4>6, OneMore DEF Written
      <4> QED BY <3>2, <4>4, <4>7
    <3> QED BY <3>4, <3>5
  <2>3. \E q \in Groups["prompt"] : sq'[q].enabled
    BY <1>9, <2>2
  <2> QED BY <2>2, <2>3
<1>10. Compared'
  BY <1>1, <1>4, <1>5, <1>8, <1>9 DEF Compared
<1> QED BY <1>5, <1>6, <1>7, <1>10 DEF OnceInv

LEMMA NoMatchKeeps ==
    ASSUME OnceInv, reading, seglen < Len(Stream), partly' = FALSE, NoMatch,
           Matches(Enabled, pl, c) = {}, \A q \in Groups[pl] : Mismatches(Enabled, q, c)
    PROVE  OnceInv'
<1>1. Written /\ Position /\ pl \in Levels
  BY DEF OnceInv, Compared
<1>2. PICK k \in Nat : k = Len(Stream)
  BY <1>1, StreamIs, AListHas
<1>3. Filled \in Nat /\ Filled >= avail /\ Filled >= 1 /\ 1 <= k /\ 1 \in Nat
  BY <1>1, <1>2, FilledIs DEF Written
<1>4. sq' = check_seqs(Enabled, pl, c) /\ pl' = pl /\ passed(1, Filled) /\ reading' = TRUE
  BY <1>1 DEF NoMatch, pass_segment, Written
<1>5. /\ Position' /\ Written' /\ seglen' = 0 /\ early' = Less(early, 1)
      /\ \A i \in 1..(k - 1) : Stream'[i] = Stream[i + 1]
  BY <1>2, <1>3, <1>4, PassedIs
<1>6. early \in Nat /\ early <= k /\ seglen \in Nat
  BY <1>1, <1>2 DEF Written
<1>7. Early'
  <2>1. CASE early <= 1
    <3>1. early' = 0
      BY <1>5, <1>6, <2>1, LessIs
    <3> QED BY <1>5, <3>1 DEF Early
  <2>2. CASE early > 1 /\ Calm(Stream, early)
    <3>1. early' = early - 1
      BY <1>5, <1>6, <2>2, LessIs
    <3>2. \A i \in 1..(early - 1) : Stream'[i] = Stream[i + 1]
      BY <1>5, <1>6
    <3>3. Calm(Stream', early - 1)
      BY <1>6, <2>2, <3>2, CalmTail
    <3>4. pl = "prompt"
      BY <2>2 DEF OnceInv, Early
    <3> QED BY <1>4, <3>1, <3>3, <3>4 DEF Early
  <2>3. CASE early > 1 /\ early <= seglen
    <3>1. early' = early - 1
      BY <1>5, <1>6, <2>3, LessIs
    <3>2. \A i \in 1..(early - 1) : Stream'[i] = Stream[i + 1]
      BY <1>5, <1>6
    <3>3. pl = "prompt" /\ partly
      BY <1>1, <1>6, <2>3 DEF OnceInv, Early, Written
    <3>4. PICK q \in Groups["prompt"] : sq[q].enabled
      BY <3>3 DEF OnceInv, Compared
    <3>5. Partway(q, Stream, seglen, sq[q].pos) /\ q \in Prompted
      BY <3>3, <3>4, GroupsAre DEF OnceInv, Compared
    <3>6. early \in 1..seglen
      BY <1>6, <2>3
    <3>7. PICK s, t : s = Stream /\ t = Stream'
      OBVIOUS
    <3>8. Calm(t, early - 1)
      BY <1>6, <3>2, <3>5, <3>6, <3>7, PartwayCalm
    <3> QED BY <1>4, <3>1, <3>3, <3>7, <3>8 DEF Early
  <2> QED BY <1>6, <2>1, <2>2, <2>3 DEF OnceInv, Early
<1>8. Enabled \in Sqs /\ sq' \in Sqs
  BY <1>1, <1>4, EnabledIs, CheckedAre
<1>9. ASSUME pl = "prompt", NEW q \in Groups["prompt"]
      PROVE  sq'[q].pos = 0
  <2>1. sq'[q] = check_seq(Enabled, q, c) /\ q \in Sequences_
    BY <1>1, <1>4, <1>8, <1>9, CheckedAre, GroupsAre
  <2>2. Mismatches(Enabled, q, c) /\ (~Enabled[q].enabled => Enabled[q].pos = 0)
    BY <1>9, EnabledIs
  <2> QED BY <1>8, <2>1, <2>2, CheckedIs
<1>10. Compared'
  BY <1>1, <1>4, <1>8, <1>9 DEF Compared
<1> QED BY <1>5, <1>7, <1>10 DEF OnceInv

LEMMA CheckKeepsOnce == OnceInv /\ MarkerWhole /\ CheckSeqs => OnceInv'
<1> SUFFICES ASSUME OnceInv, MarkerWhole, CheckSeqs
             PROVE  OnceInv'
  OBVIOUS
<1>1. reading /\ seglen < Len(Stream)
  BY DEF CheckSeqs
<1>2. PICK found : found = Found(Enabled, pl, c) /\ partly' = (found = "progress") /\ Run(found)
  BY DEF CheckSeqs
<1>3. pl \in Levels
  BY DEF OnceInv, Compared
<1>4. CASE /\ found = "progress" /\ Matches(Enabled, pl, c) = {}
           /\ \A q \in Groups[pl] : ~Completes(Enabled, q, c)
           /\ \E q \in Groups[pl] : ~Mismatches(Enabled, q, c)
  <2>1. InProgress /\ partly' = TRUE
    BY <1>2, <1>4 DEF Run
  <2> QED BY <1>1, <1>4, <2>1, ProgressKeeps
<1>5. CASE /\ found = "none" /\ Matches(Enabled, pl, c) = {}
           /\ \A q \in Groups[pl] : Mismatches(Enabled, q, c)
  <2>1. NoMatch /\ partly' = FALSE
    BY <1>2, <1>5 DEF Run
  <2> QED BY <1>1, <1>5, <2>1, NoMatchKeeps
<1>6. CASE found \in Groups[pl] /\ Completes(Enabled, found, c)
  <2>1. found \in Sequences_
    BY <1>3, <1>6, GroupsAre
  <2>2. found \notin {"progress", "none"}
    BY <2>1 DEF Sequences_, Pattern
  <2>3. partly' = FALSE
    BY <1>2, <2>2
  <2>4. CASE found = "pwd"
    <3>1. seq_new_pwd
      BY <1>2, <2>4 DEF Run
    <3>2. early = 0
      BY <1>1, <1>2, <2>4 DEF MarkerWhole
    <3> QED BY <1>1, <2>3, <3>1, <3>2, PwdKeeps
  <2>5. CASE found # "pwd"
    <3>1. pass_segment(seglen) \/ pass_segment(seglen + 1)
      BY <1>2, <1>3, <2>2, <2>5, RunIs
    <3>2. PICK l \in Levels : Becomes(l)
      BY <1>2, <1>3, <2>2, <2>5, RunIs
    <3> QED BY <1>1, <1>6, <2>3, <3>1, <3>2, MatchKeeps
  <2> QED BY <2>4, <2>5
<1> QED BY <1>2, <1>3, <1>4, <1>5, <1>6, FoundIs

\* What is printed later changes nothing of the segment.
LEMMA SamePartway ==
    ASSUME NEW q \in Prompted, NEW s, NEW t, NEW k \in Nat, NEW p, Partway(q, s, k, p),
           \A i \in 1..k : t[i] = s[i]
    PROVE  Partway(q, t, k, p)
<1>1. CASE q \in Moves
  <2>1. k >= 1 /\ (p = 2 => k >= 2) /\ q # "pwd" /\ q \notin Plain
    BY <1>1 DEF Partway, Moves, Plain
  <2>2. t[1] = s[1] /\ (p = 2 => t[2] = s[2]) /\ \A i \in 3..k : t[i] = s[i]
    BY <2>1
  <2> QED BY <1>1, <2>1, <2>2 DEF Partway
<1>2. CASE q = "pwd"
  <2>1. k >= 1 /\ (p # 1 => k >= 2) /\ q \notin Moves /\ q \notin Plain
    BY <1>2 DEF Partway, Moves, Plain
  <2>2. /\ t[1] = s[1] /\ (p # 1 => t[2] = s[2]) /\ t[k] = s[k]
        /\ \A i \in 3..(k - 1) : t[i] = s[i]
    BY <2>1
  <2> QED BY <1>2, <2>1, <2>2 DEF Partway
<1>3. CASE q \in Plain
  <2>1. q # "pwd" /\ q \notin Moves
    BY <1>3 DEF Moves, Plain
  <2> QED BY <1>3, <2>1 DEF Partway
<1> QED BY <1>1, <1>2, <1>3 DEF Prompted

\* Between two reads.
LEMMA ReadKeepsOnce == OnceInv /\ (ShellPrints \/ ProcessTerminal \/ ProcessShell) => OnceInv'
<1> SUFFICES ASSUME OnceInv, ShellPrints \/ ProcessTerminal \/ ProcessShell
             PROVE  OnceInv'
  OBVIOUS
<1>1. Written /\ Position /\ Compared /\ Early
  BY DEF OnceInv
<1>2. PICK k \in Nat : k = Len(Stream)
  BY <1>1, StreamIs, AListHas
<1>3. CASE ShellPrints
  <2>1. PICK t : todo' = Append(todo, t)
    BY <1>3 DEF ShellPrints
  <2>2. UNCHANGED <<off, bufVars, scanVars>>
    BY <1>3 DEF ShellPrints
  <2>3. /\ Position' /\ k <= Len(Stream') /\ \A i \in 1..k : Stream'[i] = Stream[i]
        /\ Len(Stream') \in Nat
    BY <1>1, <1>2, <2>1, <2>2, PrintKeeps
  <2>4. PICK k2 \in Nat : k2 = Len(Stream')
    BY <2>3
  <2>5. Written'
    <3>1. /\ UNCHANGED <<seglen, hold, skip, early, avail, reading, hoWritten, partly>>
          /\ seglen <= k2 /\ early <= k2
      BY <1>1, <1>2, <2>2, <2>3, <2>4 DEF Written, bufVars, scanVars
    <3>2. /\ {seglen', hold', skip', early', avail'} \subseteq Nat
          /\ {reading', hoWritten', partly'} \subseteq BOOLEAN
          /\ seglen' <= Len(Stream') /\ early' <= Len(Stream')
      BY <1>1, <2>4, <3>1 DEF Written
    <3>3. /\ ~partly => seglen = 0
          /\ reading => hold = 0 /\ ~hoWritten /\ skip = early /\ early <= avail /\ seglen <= avail
          /\ ~reading => hold = seglen /\ early = (IF hoWritten THEN hold ELSE 0)
      BY <1>1, Zenon DEF Written
    <3>4. /\ ~partly' => seglen' = 0
          /\ reading' => hold' = 0 /\ ~hoWritten' /\ skip' = early' /\ early' <= avail' /\ seglen' <= avail'
          /\ ~reading' => hold' = seglen' /\ early' = (IF hoWritten' THEN hold' ELSE 0)
      BY <3>1, <3>3
    <3> QED BY <3>2, <3>4, Zenon DEF Written
  <2>6. seglen \in 0..k /\ early \in 0..k
    BY <1>1, <1>2 DEF Written
  <2>7. ASSUME NEW q \in Prompted, NEW p, Partway(q, Stream, seglen, p)
        PROVE  Partway(q, Stream', seglen, p)
    BY <2>3, <2>6, <2>7, SamePartway
  <2>8. Calm(Stream, early) => Calm(Stream', early)
    BY <2>3, <2>6 DEF Calm
  <2>9. Compared'
    BY <1>1, <2>2, <2>7, GroupsAre DEF Compared, bufVars, scanVars
  <2>10. Early'
    BY <1>1, <2>2, <2>8 DEF Early, bufVars, scanVars
  <2> QED BY <2>3, <2>5, <2>9, <2>10 DEF OnceInv
<1>4. CASE ProcessTerminal
  <2>1. UNCHANGED <<shellVars, bufVars, scanVars>>
    BY <1>4 DEF ProcessTerminal
  <2>2. Stream' = Stream /\ Position'
    BY <1>1, <2>1, StreamStays
  <2> QED BY <1>1, <2>1, <2>2 DEF OnceInv, Written, Compared, Early, bufVars, scanVars
<1>5. CASE ProcessShell
  <2>1. /\ ~reading /\ k > hold /\ reading' = TRUE /\ avail' = hold + 1 /\ seglen' = hold
        /\ hold' = 0 /\ hoWritten' = FALSE /\ skip' = (IF hoWritten THEN hold ELSE 0)
        /\ UNCHANGED <<shellVars, early, scanVars>>
    BY <1>2, <1>5 DEF ProcessShell, prepend_holdover
  <2>2. Stream' = Stream /\ Position'
    BY <1>1, <2>1, StreamStays
  <2>3. seglen' = seglen /\ early' <= seglen' /\ seglen \in Nat
    BY <1>1, <2>1 DEF Written
  <2>4. Written'
    <3>1. seglen \in Nat /\ hold = seglen /\ early = (IF hoWritten THEN hold ELSE 0)
      BY <1>1, <2>1 DEF Written
    <3>2. {seglen', hold', skip', early', avail'} \subseteq Nat
      BY <2>1, <3>1
    <3>3. {reading', hoWritten', partly'} \subseteq BOOLEAN /\ reading' /\ ~hoWritten'
      BY <1>1, <2>1 DEF Written, scanVars
    <3>4. hold' = 0 /\ skip' = early' /\ early' <= avail' /\ seglen' <= avail'
      BY <2>1, <3>1
    <3>5. seglen' <= Len(Stream') /\ early' <= Len(Stream') /\ (~partly' => seglen' = 0)
      BY <1>1, <2>1, <2>2, <3>1 DEF Written, scanVars
    <3> QED BY <3>2, <3>3, <3>4, <3>5, Zenon DEF Written
  <2>5. Compared'
    BY <1>1, <2>1, <2>2, <2>3 DEF Compared, scanVars
  <2>6. Early'
    BY <1>1, <2>1, <2>3 DEF Early, scanVars
  <2> QED BY <2>2, <2>4, <2>5, <2>6 DEF OnceInv
<1> QED BY <1>3, <1>4, <1>5

LEMMA EndKeepsOnce == OnceInv /\ ReadEnds => OnceInv'
<1> SUFFICES ASSUME OnceInv, ReadEnds
             PROVE  OnceInv'
  OBVIOUS
<1>1. Written /\ Position /\ Compared /\ Early
  BY DEF OnceInv
<1>2. PICK k \in Nat : k = Len(Stream)
  BY <1>1, StreamIs, AListHas
<1>3. reading /\ seglen = avail /\ reading' = FALSE
  BY DEF ReadEnds
<1>4. CASE partly /\ LoneSpace /\ SpaceTyped
  <2>1. /\ pl = "prompt" /\ seglen = 1 /\ pl' = pl /\ partly' = FALSE /\ passed(1, avail)
        /\ sq' = disable_all_seqs(sq, "prompt")
    BY <1>4 DEF LoneSpace, SpaceTyped
  <2>2. avail = 1 /\ early \in Nat /\ early <= 1 /\ 1 <= k /\ 1 \in Nat
    BY <1>1, <1>2, <1>3, <2>1 DEF Written
  <2>3. Position' /\ Written' /\ early' = Less(early, 1) /\ seglen' = 0
    <3>1. avail \in Nat /\ 1 <= avail /\ avail <= avail /\ 1 <= Len(Stream)
      BY <1>2, <2>2
    <3> QED BY <1>3, <2>1, <2>2, <3>1, PassedIs
  <2>4. early' = 0
    BY <2>2, <2>3, LessIs
  <2>5. Early'
    BY <2>4, <2>3, <1>1 DEF Early, Written
  <2>6. sq' = [q \in Sequences_ |-> IF q \in Groups["prompt"] THEN [pos |-> 0, enabled |-> FALSE]
                                    ELSE sq[q]]
    BY <2>1 DEF disable_all_seqs
  <2>7. sq' \in Sqs
    <3>1. sq \in Sqs /\ \A q \in Sequences_ : sq[q] \in [pos : Nat, enabled : BOOLEAN]
      BY <1>1 DEF Compared, Sqs
    <3> QED BY <2>6, <3>1 DEF Sqs
  <2>8. \A q \in Groups["prompt"] : sq'[q].pos = 0
    <3>1. "prompt" \in Levels
      BY DEF Levels
    <3> QED BY <2>6, <3>1, GroupsAre
  <2>9. Compared'
    BY <1>1, <2>1, <2>7, <2>8 DEF Compared
  <2> QED BY <2>3, <2>5, <2>9 DEF OnceInv
<1>5. CASE partly /\ create_holdover
  <2>1. /\ hold' = seglen /\ hoWritten' = (pl = "prompt") /\ early' = (IF pl = "prompt" THEN seglen ELSE early)
        /\ avail' = 0 /\ UNCHANGED <<shellVars, seglen, skip, scanVars>>
    BY <1>5 DEF create_holdover, write_later
  <2>2. Stream' = Stream /\ Position'
    BY <1>1, <2>1, StreamStays
  <2>3. pl # "prompt" => early = 0
    BY <1>1 DEF Early
  <2>4. early' = (IF hoWritten' THEN hold' ELSE 0) /\ seglen' = seglen /\ early' <= seglen'
    BY <1>1, <2>1, <2>3 DEF Written
  <2>5. Written'
    <3>1. {seglen', hold', skip', early', avail'} \subseteq Nat
      BY <1>1, <2>1, <2>4 DEF Written
    <3>2. {reading', hoWritten', partly'} \subseteq BOOLEAN /\ ~reading'
      BY <1>1, <1>3, <2>1 DEF Written, scanVars
    <3>3. seglen' <= Len(Stream') /\ early' <= Len(Stream') /\ hold' = seglen'
      BY <1>1, <1>2, <2>1, <2>2, <2>4 DEF Written
    <3>4. ~partly' => seglen' = 0
      BY <1>1, <2>1 DEF Written, scanVars
    <3> QED BY <2>4, <3>1, <3>2, <3>3, <3>4, Zenon DEF Written
  <2>6. Compared'
    BY <1>1, <2>1, <2>2 DEF Compared, scanVars
  <2>7. Early'
    BY <1>1, <2>1, <2>3, <2>4 DEF Early, scanVars
  <2> QED BY <2>2, <2>5, <2>6, <2>7 DEF OnceInv
<1>6. CASE ~partly /\ UNCHANGED <<shellVars, avail, seglen, hold, hoWritten, skip, early, scanVars>>
  <2>1. Stream' = Stream /\ Position'
    BY <1>1, <1>6, StreamStays
  <2>2. seglen = 0 /\ early = 0 /\ hold = 0 /\ ~hoWritten
    BY <1>1, <1>3, <1>6 DEF Written
  <2>3. Written'
    <3>1. {seglen', hold', skip', early', avail'} \subseteq Nat
      BY <1>1, <1>6 DEF Written
    <3>2. {reading', hoWritten', partly'} \subseteq BOOLEAN /\ ~reading' /\ ~hoWritten'
      BY <1>1, <1>3, <1>6, <2>2 DEF Written, scanVars
    <3>3. seglen' <= Len(Stream') /\ early' <= Len(Stream')
      BY <1>1, <1>6, <2>1 DEF Written
    <3>4. seglen' = 0 /\ early' = 0 /\ hold' = 0
      BY <1>6, <2>2
    <3> QED BY <3>1, <3>2, <3>3, <3>4, Zenon DEF Written
  <2>4. Compared'
    BY <1>1, <1>6, <2>1 DEF Compared, scanVars
  <2>5. Early'
    BY <1>1, <1>6, <2>1 DEF Early, scanVars
  <2> QED BY <2>1, <2>3, <2>4, <2>5 DEF OnceInv
<1> QED BY <1>4, <1>5, <1>6 DEF ReadEnds

LEMMA NextOnce == OnceInv /\ MarkerWhole /\ [Next]_vars => OnceInv'
<1>1. OnceInv /\ UNCHANGED vars => OnceInv'
  <2> SUFFICES ASSUME OnceInv, UNCHANGED vars PROVE OnceInv'
    OBVIOUS
  <2>1. UNCHANGED <<shellVars, bufVars, scanVars>>
    BY DEF vars
  <2>2. Stream' = Stream /\ Position'
    BY <2>1, StreamStays DEF OnceInv
  <2> QED BY <2>1, <2>2 DEF OnceInv, Written, Compared, Early, bufVars, scanVars
<1> QED BY <1>1, CheckKeepsOnce, ReadKeepsOnce, EndKeepsOnce DEF Next

\* However the reads cut what the shell prints, no byte reaches the terminal twice
\* and none is left out, as long as no directory's marker is found at a prompt of
\* which a part is written already, after which eat_segment would leave skip as
\* it is (prepend_holdover, pass_segment, connection_write).
THEOREM AlwaysWrittenOnce == Spec /\ []MarkerWhole => []WrittenOnce
<1>1. OnceInv => WrittenOnce
  BY DEF OnceInv, Written, WrittenOnce
<1> QED BY <1>1, InitOnce, NextOnce, PTL DEF Spec

-----------------------------------------------------------------------------
(* Nothing of a directory's marker: which token the scan is in.            *)

IsMarker(t) == t.kind = "pwd"

AtMarker == todo # <<>> /\ IsMarker(todo[1])

\* The scan is within the first token.
InFirst == IF todo = <<>> THEN off = 0 ELSE off < Len(Bytes(todo[1]))

LEMMA LengthOf ==
    ASSUME NEW a, AList(a), NEW b, AList(b)
    PROVE  /\ Len(a \o b) = Len(a) + Len(b) /\ Len(a) \in Nat /\ Len(b) \in Nat
           /\ \A i \in 1..Len(a) : (a \o b)[i] = a[i]
           /\ \A i \in 1..Len(b) : (a \o b)[Len(a) + i] = b[i]
<1>1. PICK S, T : a \in Seq(S) /\ b \in Seq(T)
  BY DEF AList
<1> QED BY <1>1

\* A marker's bytes.
LEMMA MarkerIs ==
    ASSUME NEW t, IsMarker(t)
    PROVE  /\ Len(Bytes(t)) = 5
           /\ Bytes(t)[1][1] = ESC /\ Bytes(t)[2][1] = "P" /\ Bytes(t)[3][1] = "d"
           /\ Bytes(t)[4][1] = ESC /\ Bytes(t)[5][1] = "backslash"
<1>1. ControlBytes(t) = <<ESC, "P", "d", ESC, "backslash">>
  BY DEF IsMarker, ControlBytes
<1>2. PICK b : b = ControlBytes(t)
  OBVIOUS
<1>3. /\ DOMAIN b = 1..5 /\ b[1] = ESC /\ b[2] = "P" /\ b[3] = "d" /\ b[4] = ESC
      /\ b[5] = "backslash"
  BY <1>1, <1>2
<1>4. Bytes(t) = [i \in 1..5 |-> Byte(b[i])]
  BY <1>2, <1>3 DEF Bytes, IsMarker
<1>5. Len(Bytes(t)) = 5 /\ \A i \in 1..5 : Bytes(t)[i] = Byte(b[i])
  BY <1>4
<1>6. \A x : Byte(x)[1] = x
  BY DEF Byte
<1> QED BY <1>3, <1>5, <1>6

\* The bytes of the first token come first.
LEMMA FirstPrinted ==
    ASSUME NEW s, AList(s), Len(s) >= 1
    PROVE  /\ AList(Bytes(s[1]))
           /\ PrintedBytes(SubSeq(s, 1, 1)) = Bytes(s[1])
           /\ Len(Bytes(s[1])) <= Len(PrintedBytes(s))
           /\ \A i \in 1..Len(Bytes(s[1])) : PrintedBytes(s)[i] = Bytes(s[1])[i]
<1>1. PICK k \in Nat : k = Len(s) /\ s \in Seq({s[i] : i \in 1..k})
  BY AListHas
<1>2. PICK a, b : a = SubSeq(s, 1, 1) /\ b = Bytes(s[1])
  OBVIOUS
<1>3. AList(a) /\ Len(a) = 1 /\ a[1] = s[1]
  <2>1. AList(a)
    BY <1>2, PartIsList
  <2>2. PICK T : s \in Seq(T)
    BY <1>1
  <2> QED BY <1>1, <1>2, <2>1, <2>2
<1>4. PICK f : /\ f[0] = <<>> /\ f[Len(a)] = PrintedBytes(a)
               /\ \A j \in 1..Len(a) : f[j] = f[j - 1] \o Bytes(a[j])
  BY <1>3, PrintedAre
<1>5. AList(b)
  BY <1>2, BytesAre
<1>6. PrintedBytes(a) = b
  <2>1. f[1] = PrintedBytes(a)
    BY <1>3, <1>4
  <2>2. f[1] = f[0] \o Bytes(a[1])
    <3>1. 1 \in 1..Len(a) /\ 1 - 1 = 0
      BY <1>3
    <3> QED BY <1>4, <3>1
  <2>3. PrintedBytes(a) = <<>> \o b
    BY <1>2, <1>3, <1>4, <2>1, <2>2, Zenon
  <2>4. PICK T : b \in Seq(T)
    BY <1>5 DEF AList
  <2>5. <<>> \o b = b
    BY <2>4
  <2> QED BY <2>3, <2>5, Zenon
<1>7. PICK d : AList(d) /\ PrintedBytes(s) = PrintedBytes(a) \o d
  <2>1. 1 \in 0..Len(s)
    BY <1>1
  <2> QED BY <1>2, <2>1, PrintedSplit
<1>8. PICK p : p = PrintedBytes(s) /\ p = b \o d
  BY <1>6, <1>7, Zenon
<1>9. Len(b) <= Len(p) /\ \A i \in 1..Len(b) : p[i] = b[i]
  BY <1>5, <1>7, <1>8, LengthOf
<1> QED BY <1>2, <1>5, <1>6, <1>8, <1>9

LEMMA StreamFirst ==
    ASSUME Position, todo # <<>>, InFirst
    PROVE  /\ Len(Bytes(todo[1])) \in Nat /\ Len(Bytes(todo[1])) - off <= Len(Stream)
           /\ \A i \in 1..(Len(Bytes(todo[1])) - off) : Stream[i] = Bytes(todo[1])[off + i]
<1>1. PICK s, P, b : s = todo /\ P = PrintedBytes(s) /\ b = Bytes(s[1])
  OBVIOUS
<1>2. AList(s) /\ Len(s) >= 1
  <2>1. AList(s)
    BY <1>1 DEF Position
  <2>2. PICK T : s \in Seq(T)
    BY <2>1 DEF AList
  <2> QED BY <1>1, <2>1, <2>2
<1>3. AList(b) /\ Len(b) <= Len(P) /\ \A i \in 1..Len(b) : P[i] = b[i]
  BY <1>1, <1>2, FirstPrinted
<1>4. PICK k \in Nat : k = Len(b)
  BY <1>3, AListHas
<1>5. /\ Len(P) \in Nat /\ Len(Stream) = Len(P) - off
      /\ \A i \in 1..Len(Stream) : Stream[i] = P[off + i]
  BY <1>1, StreamIs
<1>6. off \in Nat
  BY DEF Position
<1>7. k - off <= Len(Stream)
  BY <1>3, <1>4, <1>5, <1>6
<1>8. ASSUME NEW i \in 1..(k - off)
      PROVE  Stream[i] = b[off + i]
  <2>1. off + i \in 1..k /\ i \in 1..Len(Stream)
    BY <1>5, <1>6, <1>7
  <2> QED BY <1>3, <1>4, <1>5, <2>1
<1> QED BY <1>1, <1>4, <1>7, <1>8

\* Characters that do not end in an escape character, or begin a marker.
NoMarker(b) ==
    AList(b) /\ \A j \in 1..Len(b) : b[j] = ESC => j < Len(b) /\ b[j + 1] # "P"

LEMMA JoinedNoMarker ==
    ASSUME NEW a, NoMarker(a), NEW b, NoMarker(b)
    PROVE  NoMarker(a \o b)
<1>1. AList(a) /\ AList(b) /\ AList(a \o b)
  BY JoinedIsList DEF NoMarker
<1>2. PICK k \in Nat, l \in Nat : k = Len(a) /\ l = Len(b)
  BY <1>1, AListHas
<1>3. PICK d : d = a \o b
  OBVIOUS
<1>4. /\ Len(d) = k + l
      /\ \A i \in 1..k : d[i] = a[i]
      /\ \A i \in 1..l : d[k + i] = b[i]
  BY <1>1, <1>2, <1>3, LengthOf
<1>5. ASSUME NEW j \in 1..(k + l), d[j] = ESC
      PROVE  j < k + l /\ d[j + 1] # "P"
  <2>1. CASE j <= k
    <3>1. a[j] = ESC
      BY <1>4, <1>5, <2>1
    <3>2. j < k /\ a[j + 1] # "P"
      BY <1>2, <2>1, <3>1 DEF NoMarker
    <3> QED BY <1>4, <3>2
  <2>2. CASE j > k
    <3>1. PICK i \in 1..l : i = j - k
      BY <2>2
    <3>2. b[i] = ESC
      BY <1>4, <1>5, <3>1
    <3>3. i < l /\ b[i + 1] # "P"
      BY <1>2, <3>2 DEF NoMarker
    <3>4. i + 1 \in 1..l /\ j + 1 = k + (i + 1)
      BY <3>1, <3>3
    <3>5. d[j + 1] = b[i + 1]
      BY <1>4, <3>4
    <3> QED BY <3>1, <3>3, <3>5
  <2> QED BY <2>1, <2>2
<1> QED BY <1>1, <1>3, <1>4, <1>5 DEF NoMarker

LEMMA ShortNoMarker ==
    /\ NoMarker(<<>>)
    /\ \A x : x # ESC => NoMarker(<<x>>)
    /\ \A x, y : y \notin {ESC, "P"} => NoMarker(<<x, y>>)
    /\ \A x, y, z, u : {y, z, u} \cap {ESC, "P"} = {} => NoMarker(<<x, y, z, u>>)
    /\ \A x, y, z, u, v : {y, z, u, v} \cap {ESC, "P"} = {} => NoMarker(<<x, y, z, u, v>>)
<1>1. NoMarker(<<>>)
  BY NoBytes DEF NoMarker
<1>2. ASSUME NEW x, x # ESC
      PROVE  NoMarker(<<x>>)
  BY <1>2, TuplesAre DEF NoMarker
<1>3. ASSUME NEW x, NEW y, y \notin {ESC, "P"}
      PROVE  NoMarker(<<x, y>>)
  <2>1. PICK b : b = <<x, y>>
    OBVIOUS
  <2>2. AList(b) /\ Len(b) = 2 /\ b[2] = y
    BY <2>1, TuplesAre
  <2>3. \A j \in 1..2 : j = 1 \/ j = 2
    OBVIOUS
  <2> QED BY <1>3, <2>1, <2>2, <2>3 DEF NoMarker
<1>4. ASSUME NEW x, NEW y, NEW z, NEW u, {y, z, u} \cap {ESC, "P"} = {}
      PROVE  NoMarker(<<x, y, z, u>>)
  <2>1. PICK b : b = <<x, y, z, u>>
    OBVIOUS
  <2>2. AList(b) /\ Len(b) = 4 /\ b[2] = y /\ b[3] = z /\ b[4] = u
    BY <2>1, TuplesAre
  <2>3. y # ESC /\ y # "P" /\ z # ESC /\ z # "P" /\ u # ESC /\ u # "P"
    BY <1>4, Zenon
  <2>4. \A j \in 1..4 : j = 1 \/ j = 2 \/ j = 3 \/ j = 4
    OBVIOUS
  <2>5. \A j \in 1..4 : b[j] = ESC => j < 4 /\ b[j + 1] # "P"
    BY <2>2, <2>3, <2>4
  <2> QED BY <2>1, <2>2, <2>5 DEF NoMarker
<1>5. ASSUME NEW x, NEW y, NEW z, NEW u, NEW v, {y, z, u, v} \cap {ESC, "P"} = {}
      PROVE  NoMarker(<<x, y, z, u, v>>)
  <2>1. PICK b : b = <<x, y, z, u, v>>
    OBVIOUS
  <2>2. AList(b) /\ Len(b) = 5 /\ b[2] = y /\ b[3] = z /\ b[4] = u /\ b[5] = v
    BY <2>1, TuplesAre
  <2>3. y # ESC /\ y # "P" /\ z # ESC /\ z # "P" /\ u # ESC /\ u # "P" /\ v # ESC /\ v # "P"
    BY <1>5, Zenon
  <2>4. \A j \in 1..5 : j = 1 \/ j = 2 \/ j = 3 \/ j = 4 \/ j = 5
    OBVIOUS
  <2>5. \A j \in 1..5 : b[j] = ESC => j < 5 /\ b[j + 1] # "P"
    BY <2>2, <2>3, <2>4
  <2> QED BY <2>1, <2>2, <2>5 DEF NoMarker
<1> QED BY <1>1, <1>2, <1>3, <1>4, <1>5, Zenon

\* What a line editor's tokens are but for the marker.
LEMMA ControlNoMarker ==
    ASSUME NEW t, t.kind \in {"ps1", "rstart", "rend", "completed", "colour", "wrap", "return",
                              "newline", "backspace", "bell"} \cup Moves
    PROVE  NoMarker(ControlBytes(t))
<1>0. {"[", "0", "black", "white", "blue", "red", "m", "q", "1", "2", "C", "D", "A", "K", "@",
       CR, LF, BS, BEL, Blank} \cap {ESC, "P"} = {} /\ ESC # "P"
  BY Zenon DEF ESC, CR, LF, BS, BEL, Blank
<1>1. \A x \in {"black", "white", "blue", "red"} : NoMarker(Colour(x))
  BY <1>0, ShortNoMarker DEF Colour
<1>2. NoMarker(Colour("black") \o Colour("white")) /\ NoMarker(Marker)
  BY <1>1, JoinedNoMarker DEF Marker
<1>3. ASSUME NEW m, NEW x, x # ESC
      PROVE  NoMarker(CsiBytes(m, x))
  <2> DEFINE count == IF m = 0 THEN <<>> ELSE IF m = 1 THEN <<"1">> ELSE <<"2">>
  <2>1. NoMarker(count)
    BY <1>0, ShortNoMarker
  <2>2. NoMarker(<<ESC, "[">>) /\ NoMarker(<<x>>)
    BY <1>0, <1>3, ShortNoMarker
  <2> HIDE DEF count
  <2>3. NoMarker(<<ESC, "[">> \o count \o <<x>>)
    BY <2>1, <2>2, JoinedNoMarker
  <2> QED BY <2>3 DEF CsiBytes, count
<1>4. /\ NoMarker(Marker \o CsiBytes(t.n, "D"))
      /\ NoMarker(<<ESC, "[", "0", "m", CR>> \o CsiBytes(t.n, "C"))
      /\ NoMarker(Colour("black") \o <<"q">>)
  <2>1. NoMarker(<<ESC, "[", "0", "m", CR>>) /\ NoMarker(<<"q">>)
    <3>1. {"[", "0", "m", CR} \cap {ESC, "P"} = {} /\ "q" # ESC
      BY <1>0
    <3> QED BY <3>1, ShortNoMarker
  <2>2. NoMarker(CsiBytes(t.n, "D")) /\ NoMarker(CsiBytes(t.n, "C"))
    BY <1>0, <1>3
  <2>3. NoMarker(Colour("black"))
    BY <1>1
  <2> QED BY <1>2, <2>1, <2>2, <2>3, JoinedNoMarker
<1>5. /\ NoMarker(<<Blank, CR>>) /\ NoMarker(<<CR>>) /\ NoMarker(<<CR, LF>>)
      /\ NoMarker(<<BS>>) /\ NoMarker(<<BEL>>)
  BY <1>0, ShortNoMarker
<1>6. t.kind \in Moves => NoMarker(CsiBytes(t.n, Last(Pattern[t.kind])))
  <2>1. ASSUME t.kind \in Moves
        PROVE  Last(Pattern[t.kind]) \in {"C", "D", "A", "K", "P", "@"}
    <3>1. PICK x \in {"C", "D", "A", "K", "P", "@"} : Pattern[t.kind] = <<ESC, "[", DIGIT_C, x>>
      BY <2>1, PatternsAre DEF Moves
    <3>2. PICK P : P = Pattern[t.kind]
      OBVIOUS
    <3>3. Len(P) = 4 /\ P[4] = x
      BY <3>1, <3>2
    <3> QED BY <3>2, <3>3 DEF Last
  <2> QED BY <1>0, <1>3, <2>1
<1>7. t.kind \notin Moves => NoMarker(ControlBytes(t))
  BY <1>2, <1>4, <1>5, Zenon DEF ControlBytes
<1>8. t.kind \in Moves => ControlBytes(t) = CsiBytes(t.n, Last(Pattern[t.kind]))
  BY DEF ControlBytes, Moves
<1> QED BY <1>6, <1>7, <1>8, Zenon

LEMMA ControlLength ==
    ASSUME NEW t
    PROVE  Len(ControlBytes(t)) \in Nat \ {0}
<1>1. ASSUME NEW a, AList(a), NEW b, AList(b), Len(a) > 0 \/ Len(b) > 0
      PROVE  AList(a \o b) /\ Len(a \o b) \in Nat \ {0}
  BY <1>1, LengthOf, JoinedIsList
<1>2. \A x : AList(Colour(x)) /\ Len(Colour(x)) = 4
  BY TuplesAre DEF Colour
<1>3. /\ AList(Colour("black") \o Colour("white")) /\ Len(Colour("black") \o Colour("white")) \in Nat \ {0}
      /\ AList(Marker) /\ Len(Marker) \in Nat \ {0}
  BY <1>1, <1>2 DEF Marker
<1>4. ASSUME NEW m, NEW x
      PROVE  AList(CsiBytes(m, x)) /\ Len(CsiBytes(m, x)) \in Nat \ {0}
  <2> DEFINE count == IF m = 0 THEN <<>> ELSE IF m = 1 THEN <<"1">> ELSE <<"2">>
  <2>1. AList(count) /\ AList(<<ESC, "[">>) /\ AList(<<x>>)
    BY TuplesAre, NoBytes
  <2>2. Len(<<x>>) = 1
    OBVIOUS
  <2> HIDE DEF count
  <2>3. AList(<<ESC, "[">> \o count)
    BY <2>1, JoinedIsList
  <2>5. PICK d, e : d = <<ESC, "[">> \o count /\ e = <<x>>
    OBVIOUS
  <2>6. AList(d) /\ AList(e) /\ Len(e) > 0
    BY <2>1, <2>2, <2>3, <2>5
  <2>7. AList(d \o e) /\ Len(d \o e) \in Nat \ {0}
    BY <1>1, <2>6
  <2>4. AList(<<ESC, "[">> \o count \o <<x>>) /\ Len(<<ESC, "[">> \o count \o <<x>>) \in Nat \ {0}
    BY <2>5, <2>7, Zenon
  <2> QED BY <2>4 DEF CsiBytes, count
<1>5. /\ Len(Marker \o CsiBytes(t.n, "D")) \in Nat \ {0}
      /\ Len(<<ESC, "[", "0", "m", CR>> \o CsiBytes(t.n, "C")) \in Nat \ {0}
      /\ Len(Colour("black") \o <<"q">>) \in Nat \ {0}
  <2>1. AList(<<ESC, "[", "0", "m", CR>>) /\ AList(<<"q">>) /\ Len(<<"q">>) > 0
    BY TuplesAre
  <2>2. AList(Marker) /\ Len(Marker) > 0 /\ AList(Colour("black"))
    BY <1>2, <1>3
  <2>3. /\ AList(CsiBytes(t.n, "D")) /\ AList(CsiBytes(t.n, "C"))
        /\ Len(CsiBytes(t.n, "D")) > 0 /\ Len(CsiBytes(t.n, "C")) > 0
    BY <1>4
  <2> QED BY <1>1, <2>1, <2>2, <2>3
<1>6. /\ Len(<<ESC, "P", "d", ESC, "backslash">>) \in Nat \ {0} /\ Len(<<Blank, CR>>) \in Nat \ {0}
      /\ Len(<<CR>>) \in Nat \ {0} /\ Len(<<CR, LF>>) \in Nat \ {0}
      /\ Len(<<BS>>) \in Nat \ {0} /\ Len(<<BEL>>) \in Nat \ {0}
  OBVIOUS
<1>7. Len(CsiBytes(t.n, Last(Pattern[t.kind]))) \in Nat \ {0}
  BY <1>4
<1> QED BY <1>3, <1>5, <1>6, <1>7, Zenon DEF ControlBytes

LEMMA BytesOver ==
    ASSUME NEW t
    PROVE  /\ Len(Bytes(t)) \in Nat \ {0}
           /\ t.kind # "char" =>
                 /\ Len(Bytes(t)) = Len(ControlBytes(t))
                 /\ \A i \in 1..Len(ControlBytes(t)) : Bytes(t)[i][1] = ControlBytes(t)[i]
<1>1. PICK b : b = ControlBytes(t)
  OBVIOUS
<1>2. PICK k \in Nat \ {0} : k = Len(b) /\ DOMAIN b = 1..k
  BY <1>1, ControlBytesAre, ControlLength, AListHas
<1>3. CASE t.kind = "char"
  <2>1. Bytes(t) = Encode(t.c)
    BY <1>3 DEF Bytes
  <2>2. Len(Encode(t.c)) \in {1, 2}
    BY DEF Encode
  <2>3. Len(Encode(t.c)) \in Nat \ {0}
    BY <2>2
  <2> QED BY <1>3, <2>1, <2>3, Zenon
<1>4. CASE t.kind # "char"
  <2>1. Bytes(t) = [i \in 1..k |-> Byte(b[i])]
    BY <1>1, <1>2, <1>4 DEF Bytes
  <2>2. PICK r : r = [i \in 1..k |-> Byte(b[i])]
    OBVIOUS
  <2>3. Len(r) = k /\ \A i \in 1..k : r[i] = Byte(b[i])
    BY <2>2
  <2>4. \A x : Byte(x)[1] = x
    BY DEF Byte
  <2>5. Len(r) = k /\ \A i \in 1..k : r[i][1] = b[i]
    BY <2>3, <2>4
  <2>6. PICK w : w = Bytes(t) /\ w = r
    BY <2>1, <2>2
  <2>7. Len(Bytes(t)) = k /\ \A i \in 1..k : Bytes(t)[i][1] = b[i]
    BY <2>5, <2>6, Zenon
  <2> QED BY <1>1, <1>2, <2>7
<1> QED BY <1>3, <1>4

\* A token that is no marker has none in it.
Innocent(t) ==
    ~IsMarker(t) =>
        \A j \in 1..Len(Bytes(t)) :
            Bytes(t)[j][1] = ESC => j < Len(Bytes(t)) /\ Bytes(t)[j + 1][1] # "P"

LEMMA TokensInnocent == \A t \in Terminal!Tokens : Innocent(t)
<1> SUFFICES ASSUME NEW t \in Terminal!Tokens, ~IsMarker(t)
             PROVE  \A j \in 1..Len(Bytes(t)) :
                       Bytes(t)[j][1] = ESC => j < Len(Bytes(t)) /\ Bytes(t)[j + 1][1] # "P"
  BY DEF Innocent
<1>0. /\ t.kind = "char" => t.c \in Chars
      /\ t.kind \in {"char", "pwd", "ps1", "rstart", "rend", "completed", "colour", "wrap",
                     "return", "newline", "backspace", "bell"} \cup Moves
  <2>1. \A x : Terminal!Typed(x) = [kind |-> "char", n |-> 0, c |-> x]
    BY DEF Terminal!Typed
  <2>2. \A k, m : Terminal!Token(k, m) = [kind |-> k, n |-> m, c |-> ""]
    BY DEF Terminal!Token
  <2>3. CASE t \in {Terminal!Typed(x) : x \in Chars}
    BY <2>1, <2>3
  <2>4. CASE t \notin {Terminal!Typed(x) : x \in Chars}
    <3> DEFINE Kinds == {"pwd", "ps1", "rstart", "rend", "completed", "colour", "wrap",
                         "return", "newline", "backspace", "bell"} \cup Moves
    <3>1. PICK k \in Kinds, m \in {0, 1, 2} : t = Terminal!Token(k, m)
      BY <2>4 DEF Terminal!Tokens, Moves
    <3>2. "char" \notin Kinds
      BY DEF Moves
    <3> QED BY <2>2, <3>1, <3>2
  <2> QED BY <2>3, <2>4
<1>1. CASE t.kind = "char"
  <2>1. t.c \in Chars
    BY <1>0, <1>1
  <2>2. t.c # ESC
    BY <2>1, ShellScanAssumption DEF Controls, ESC
  <2>3. Bytes(t) = Encode(t.c)
    BY <1>1 DEF Bytes
  <2>4. PICK e : e = Encode(t.c)
    OBVIOUS
  <2>5. e = <<<<t.c, 1>>, <<t.c, 2>>>> \/ e = <<<<t.c, 0>>>>
    BY <2>4, Zenon DEF Encode
  <2>6. \A j \in 1..Len(e) : e[j][1] = t.c
    BY <2>5
  <2> QED BY <2>2, <2>3, <2>4, <2>6
<1>2. CASE t.kind # "char"
  <2>1. t.kind \in {"ps1", "rstart", "rend", "completed", "colour", "wrap", "return",
                    "newline", "backspace", "bell"} \cup Moves
    BY <1>0, <1>2 DEF IsMarker
  <2>2. NoMarker(ControlBytes(t))
    BY <2>1, ControlNoMarker
  <2>3. PICK b, r : b = ControlBytes(t) /\ r = Bytes(t)
    OBVIOUS
  <2>4. PICK k \in Nat : k = Len(b) /\ k = Len(r) /\ \A i \in 1..k : r[i][1] = b[i]
    BY <1>2, <2>3, BytesOver
  <2>5. ASSUME NEW j \in 1..k, r[j][1] = ESC
        PROVE  j < k /\ r[j + 1][1] # "P"
    <3>1. b[j] = ESC
      BY <2>4, <2>5
    <3>2. j < k /\ b[j + 1] # "P"
      BY <2>2, <2>3, <2>4, <3>1 DEF NoMarker
    <3> QED BY <2>4, <3>2
  <2> QED BY <2>3, <2>4, <2>5
<1> QED BY <1>1, <1>2

\* The scan goes on within a token, or from some of its first bytes on, which
\* have just left the segment.
LEMMA LeaveTo ==
    ASSUME Position, InFirst, NEW m \in Nat, m <= Len(Stream), NEW read, Leave(m, read)
    PROVE  /\ InFirst'
           /\ \A i \in 1..Len(todo') : \E j \in 1..Len(todo) : todo'[i] = todo[j]
           /\ todo' # <<>> /\ off' > 0 =>
                 \/ todo' = todo /\ off' = off + m
                 \/ /\ off' < m
                    /\ \A i \in 1..off' : Stream[(m - off') + i] = Bytes(todo'[1])[i]
<1>1. PICK P, s : P = PrintedBytes(todo) /\ s = todo
  OBVIOUS
<1>2. PICK l \in Nat : l = Len(P)
  BY <1>1, StreamIs
<1>3. AList(s) /\ off \in Nat /\ off <= l
  BY <1>1, <1>2 DEF Position
<1>4. PICK k \in Nat : k = Len(s) /\ s \in Seq({s[i] : i \in 1..k})
  BY <1>3, AListHas
<1>5. Len(Stream) = l - off /\ \A i \in 1..(l - off) : Stream[i] = P[off + i]
  BY <1>1, <1>2, StreamIs
<1> DEFINE total == off + m
           Length(j) == Len(PrintedBytes(SubSeq(s, 1, j)))
           D == {j \in 0..k : Length(j) <= total}
           done == Max(D)
<1>6. total \in Nat /\ total <= l
  BY <1>3, <1>5
<1>7. done \in D /\ \A j \in D : j <= done
  <2>1. Length(0) = 0
    <3>1. SubSeq(s, 1, 0) = <<>>
      BY <1>4
    <3>2. PICK f : f[0] = <<>> /\ f[Len(<<>>)] = PrintedBytes(<<>>)
      BY NoBytes, PrintedAre
    <3>3. PrintedBytes(<<>>) = <<>> /\ Len(<<>>) = 0
      BY <3>2
    <3>4. Length(0) = Len(PrintedBytes(SubSeq(s, 1, 0)))
      OBVIOUS
    <3> HIDE DEF Length
    <3>5. Length(0) = Len(<<>>)
      BY <3>1, <3>3, <3>4, Zenon
    <3> QED BY <3>3, <3>5
  <2> HIDE DEF Length, total
  <2>2. 0 \in D
    BY <1>6, <2>1
  <2>3. D \in SUBSET (0..k) /\ D # {}
    BY <2>2
  <2> HIDE DEF D
  <2>4. \E x \in D : \A y \in D : x >= y
    BY <2>3, Greatest
  <2>5. Max(D) \in D /\ \A y \in D : Max(D) >= y
    BY <2>4, Zenon DEF Max
  <2>6. \A y \in D : y \in Nat
    BY <2>3
  <2> QED BY <2>5, <2>6
<1>8. PICK d \in 0..k : d = done
  BY <1>7
<1>9. todo' = SubSeq(s, d + 1, k) /\ off' = total - Length(d)
  BY <1>1, <1>4, <1>8 DEF Leave
<1>10. PICK A, r, B : A = PrintedBytes(SubSeq(s, 1, d)) /\ r = SubSeq(s, d + 1, k) /\ B = PrintedBytes(r)
  OBVIOUS
<1>11. AList(A) /\ AList(B) /\ P = A \o B /\ AList(r)
  <2>1. d \in 0..Len(s)
    BY <1>4, <1>8
  <2>2. /\ AList(PrintedBytes(SubSeq(s, 1, d))) /\ AList(PrintedBytes(SubSeq(s, d + 1, Len(s))))
        /\ PrintedBytes(s) = PrintedBytes(SubSeq(s, 1, d)) \o PrintedBytes(SubSeq(s, d + 1, Len(s)))
    BY <1>3, <2>1, PrintedSplit
  <2>3. SubSeq(s, d + 1, Len(s)) = r
    BY <1>4, <1>10, Zenon
  <2>4. AList(A) /\ AList(B) /\ P = A \o B
    BY <1>1, <1>10, <2>2, <2>3, Zenon
  <2>5. AList(r)
    BY <1>3, <1>4, <1>10, PartIsList
  <2> QED BY <2>4, <2>5
<1>12. PICK a \in Nat, b \in Nat : a = Len(A) /\ b = Len(B)
  BY <1>11, AListHas
<1>13. l = a + b /\ \A i \in 1..b : P[a + i] = B[i]
  BY <1>2, <1>11, <1>12, LengthOf
<1>14. a <= total /\ off' = total - a /\ (d < k => Length(d + 1) > total)
  <2>1. a <= total /\ off' = total - a
    BY <1>7, <1>8, <1>9, <1>10, <1>12
  <2>2. ASSUME d < k
        PROVE  Length(d + 1) > total
    <3>1. d + 1 \in 0..k /\ d + 1 \notin D
      BY <1>7, <1>8, <2>2
    <3>2. Length(d + 1) \in Nat
      <4>1. AList(PrintedBytes(SubSeq(s, 1, d + 1)))
        BY <1>3, <1>4, <3>1, PrintedSplit
      <4> QED BY <4>1, AListHas
    <3> HIDE DEF Length
    <3> QED BY <1>6, <3>1, <3>2
  <2> QED BY <2>1, <2>2
<1>15. Len(r) = k - d /\ \A i \in 1..(k - d) : r[i] = s[d + i]
  BY <1>4, <1>10
<1>16. ASSUME NEW i \in 1..Len(r)
       PROVE  \E j \in 1..k : r[i] = s[j]
  <2>1. d + i \in 1..k /\ i \in 1..(k - d)
    BY <1>15
  <2> QED BY <1>15, <2>1
<1>17. todo' = r
  BY <1>9, <1>10
<1>18. CASE d = k
  <2>1. Len(r) = 0 /\ r = <<>>
    BY <1>11, <1>15, <1>18 DEF AList
  <2>2. SubSeq(s, 1, k) = s
    BY <1>4
  <2>3. a = l
    BY <1>1, <1>2, <1>10, <1>12, <1>18, <2>2
  <2>4. off' = 0
    BY <1>6, <1>14, <2>3
  <2> QED BY <1>17, <2>1, <2>4 DEF InFirst
<1>19. CASE d < k
  <2>1. PICK e, C : e = Bytes(r[1]) /\ C = PrintedBytes(SubSeq(r, 2, k - d))
    OBVIOUS
  <2>2. AList(e) /\ AList(C) /\ B = e \o C
    <3>1. 1 \in 0..Len(r) /\ Len(r) >= 1
      BY <1>15, <1>19
    <3>2. PrintedBytes(SubSeq(r, 1, 1)) = e
      BY <1>11, <2>1, <3>1, FirstPrinted
    <3>3. AList(e)
      BY <2>1, BytesAre
    <3>4. /\ AList(PrintedBytes(SubSeq(r, 1 + 1, Len(r))))
          /\ PrintedBytes(r) = PrintedBytes(SubSeq(r, 1, 1)) \o PrintedBytes(SubSeq(r, 1 + 1, Len(r)))
      BY <1>11, <3>1, PrintedSplit
    <3>5. SubSeq(r, 1 + 1, Len(r)) = SubSeq(r, 2, k - d)
      BY <1>15
    <3> QED BY <1>10, <2>1, <3>2, <3>3, <3>4, <3>5, Zenon
  <2>3. PICK v \in Nat, w \in Nat : v = Len(e) /\ w = Len(C)
    BY <2>2, AListHas
  <2>4. b = v + w /\ \A i \in 1..v : B[i] = e[i]
    BY <1>12, <2>2, <2>3, LengthOf
  <2>5. SubSeq(r, 2, k - d) = SubSeq(s, (d + 1) + 1, k)
    <3>1. PICK x, y : x = SubSeq(r, 2, k - d) /\ y = SubSeq(s, (d + 1) + 1, k)
      OBVIOUS
    <3>2. PICK S : r \in Seq(S) /\ s \in Seq(S)
      <4>1. PICK S1, S2 : r \in Seq(S1) /\ s \in Seq(S2)
        BY <1>3, <1>11 DEF AList
      <4>2. PICK S3 : S3 = S1 \cup S2
        OBVIOUS
      <4>3. r \in Seq(S3) /\ s \in Seq(S3)
        BY <4>1, <4>2
      <4> QED BY <4>3
    <3>3. /\ x \in Seq(S) /\ Len(x) = (k - d) - 1
          /\ \A i \in 1..((k - d) - 1) : x[i] = r[i + 1]
      <4>1. PICK z \in Nat, o \in Nat : z = k - d /\ o = 1 /\ z = Len(r) /\ o \in 0..z
        BY <1>15, <1>19
      <4>2. x = SubSeq(r, o + 1, z)
        BY <3>1, <4>1
      <4>3. x \in Seq(S) /\ Len(x) = z - o /\ \A i \in 1..(z - o) : x[i] = r[o + i]
        <5>1. r \in Seq(S) /\ z \in Nat /\ z = Len(r) /\ o \in 0..z
          BY <3>2, <4>1, Zenon
        <5>2. /\ SubSeq(r, o + 1, z) \in Seq(S) /\ Len(SubSeq(r, o + 1, z)) = z - o
              /\ \A i \in 1..(z - o) : SubSeq(r, o + 1, z)[i] = r[o + i]
          BY <5>1, TailIs
        <5> QED BY <4>2, <5>2, Zenon
      <4>4. \A i \in 1..(z - o) : x[i] = r[i + 1]
        BY <4>1, <4>3
      <4> QED BY <4>1, <4>3, <4>4
    <3>4. /\ y \in Seq(S) /\ Len(y) = (k - d) - 1
          /\ \A i \in 1..((k - d) - 1) : y[i] = s[(d + 1) + i]
      BY <1>4, <1>19, <3>1, <3>2
    <3>5. \A i \in 1..((k - d) - 1) : x[i] = y[i]
      BY <1>15, <3>3, <3>4
    <3>6. x = y
      BY <3>3, <3>4, <3>5, SeqEqual
    <3> QED BY <3>1, <3>6
  <2>6. Length(d + 1) = a + v
    <3>1. d + 1 \in 0..Len(s)
      BY <1>4, <1>19
    <3>2. PICK F : F = PrintedBytes(SubSeq(s, 1, d + 1))
      OBVIOUS
    <3>3. AList(F) /\ P = F \o C
      BY <1>1, <1>3, <1>4, <2>1, <2>5, <3>1, <3>2, PrintedSplit
    <3>4. l = Len(F) + w /\ Len(F) \in Nat
      BY <1>2, <2>2, <2>3, <3>3, LengthOf
    <3>5. Len(F) = a + v
      BY <1>13, <2>4, <3>4
    <3> QED BY <3>2, <3>5
  <2> HIDE DEF Length, D, done
  <2>7. off' < v /\ off' \in Nat
    BY <1>6, <1>14, <1>19, <2>6
  <2>8. Len(r) >= 1 /\ r # <<>>
    BY <1>15, <1>19
  <2>9. InFirst'
    BY <1>17, <2>1, <2>3, <2>7, <2>8 DEF InFirst
  <2>10. ASSUME off' > 0
         PROVE  \/ todo' = todo /\ off' = off + m
                \/ /\ off' < m
                   /\ \A i \in 1..off' : Stream[(m - off') + i] = Bytes(todo'[1])[i]
    <3>1. CASE d = 0
      <4>1. SubSeq(s, 1, k) = s /\ SubSeq(s, 1, 0) = <<>>
        BY <1>4
      <4>2. PICK f : f[0] = <<>> /\ f[Len(<<>>)] = PrintedBytes(<<>>)
        BY NoBytes, PrintedAre
      <4>3. A = <<>>
        BY <1>10, <3>1, <4>1, <4>2
      <4>4. r = s
        BY <1>10, <3>1, <4>1
      <4>5. a = 0
        BY <1>12, <4>3
      <4>6. off' = off + m
        <5>1. off' = total - a
          BY <1>14
        <5> QED BY <1>6, <4>5, <5>1
      <4>7. todo' = todo
        BY <1>1, <1>17, <4>4
      <4> QED BY <4>6, <4>7
    <3>2. CASE d >= 1
      <4>1. PICK q : q = SubSeq(s, 1, d)
        OBVIOUS
      <4>2. AList(q) /\ Len(q) = d /\ q[1] = s[1]
        <5>1. AList(q)
          BY <1>3, <4>1, PartIsList
        <5> QED BY <1>4, <3>2, <4>1, <5>1
      <4>3. Len(Bytes(s[1])) <= a
        BY <1>10, <1>12, <3>2, <4>1, <4>2, FirstPrinted
      <4>4. off < Len(Bytes(s[1]))
        <5>1. todo # <<>>
          BY <1>1, <1>4, <1>19
        <5> QED BY <1>1, <5>1 DEF InFirst
      <4>5. Len(Bytes(s[1])) \in Nat
        BY BytesOver
      <4>6. off < a
        BY <1>3, <4>3, <4>4, <4>5
      <4>7. off' < m
        BY <1>3, <1>14, <4>6
      <4>8. ASSUME NEW i \in 1..off'
            PROVE  Stream[(m - off') + i] = Bytes(todo'[1])[i]
        <5>1. PICK x \in 1..(l - off) : x = (m - off') + i /\ off + x = a + i
          <6>1. (m - off') + i \in 1..(l - off) /\ off + ((m - off') + i) = a + i
            BY <1>3, <1>6, <1>14, <2>7, <4>7
          <6> QED BY <6>1
        <5>2. i \in 1..v /\ i \in 1..b
          BY <2>4, <2>7
        <5>3. Stream[x] = P[a + i] /\ P[a + i] = B[i] /\ B[i] = e[i]
          BY <1>5, <1>13, <2>4, <5>1, <5>2
        <5> QED BY <1>17, <2>1, <5>1, <5>3
      <4> QED BY <4>7, <4>8
    <3> QED BY <3>1, <3>2
  <2> QED BY <2>9, <2>10, <1>17, <1>16, <1>1, <1>4
<1> QED BY <1>1, <1>4, <1>16, <1>17, <1>18, <1>19

-----------------------------------------------------------------------------
(* Where an escape character is in what the scan looks for.                *)

\* Characters that stand for others, and what follows an escape character that is
\* not the first.
Spans == {DIGIT_C, PRINTABLE_C}
Negations == {NOT_LF_CR_C, NOT_LF_C}
Follows == {"[", "backslash"}

\* A run of characters is neither first nor last, one that is not to follow is
\* last, and none but the directory's marker has an escape character and then
\* something else than a bracket.
Regular(q, P) ==
    /\ AList(P) /\ Len(P) >= 1
    /\ \A i \in 1..Len(P) :
          /\ P[i] \in Spans => 1 < i /\ i < Len(P)
          /\ P[i] \in Negations => 1 < i /\ i = Len(P) /\ q \in {"wrap", "return"}
          /\ i > 1 /\ P[i] = ESC => i < Len(P) /\ P[i + 1] \in Follows

\* The same of a part of one.
Bracketed(P) ==
    /\ AList(P) /\ Len(P) >= 1
    /\ \A i \in 1..Len(P) :
          /\ P[i] \in Spans => 1 < i /\ i < Len(P)
          /\ P[i] \notin Negations
          /\ P[i] = ESC => i < Len(P) /\ P[i + 1] = "["

LEMMA JoinedBracketed ==
    ASSUME NEW a, Bracketed(a), NEW b, Bracketed(b)
    PROVE  Bracketed(a \o b)
<1>1. AList(a) /\ AList(b) /\ AList(a \o b)
  BY JoinedIsList DEF Bracketed
<1>2. PICK k \in Nat, l \in Nat : k = Len(a) /\ l = Len(b)
  BY <1>1, AListHas
<1>3. PICK d : d = a \o b
  OBVIOUS
<1>4. /\ Len(d) = k + l
      /\ \A i \in 1..k : d[i] = a[i]
      /\ \A i \in 1..l : d[k + i] = b[i]
  BY <1>1, <1>2, <1>3, LengthOf
<1>5. k >= 1 /\ l >= 1
  BY <1>2 DEF Bracketed
<1>6. ASSUME NEW i \in 1..(k + l)
      PROVE  /\ d[i] \in Spans => 1 < i /\ i < k + l
             /\ d[i] \notin Negations
             /\ d[i] = ESC => i < k + l /\ d[i + 1] = "["
  <2>1. CASE i <= k
    <3>1. i \in 1..k /\ d[i] = a[i]
      BY <1>4, <2>1
    <3>2. /\ a[i] \in Spans => 1 < i /\ i < k
          /\ a[i] \notin Negations
          /\ a[i] = ESC => i < k /\ a[i + 1] = "["
      BY <1>2, <3>1 DEF Bracketed
    <3>3. i < k => d[i + 1] = a[i + 1]
      BY <1>4, <3>1
    <3> QED BY <1>5, <3>1, <3>2, <3>3
  <2>2. CASE i > k
    <3>1. PICK j \in 1..l : j = i - k /\ i = k + j
      BY <2>2
    <3>2. d[i] = b[j]
      BY <1>4, <3>1
    <3>3. /\ b[j] \in Spans => 1 < j /\ j < l
          /\ b[j] \notin Negations
          /\ b[j] = ESC => j < l /\ b[j + 1] = "["
      BY <1>2, <3>1 DEF Bracketed
    <3>4. j < l => d[i + 1] = b[j + 1]
      <4>1. ASSUME j < l
            PROVE  d[k + (j + 1)] = b[j + 1]
        BY <1>4, <4>1
      <4>2. i + 1 = k + (j + 1)
        BY <3>1
      <4> QED BY <4>1, <4>2
    <3> QED BY <1>5, <3>1, <3>2, <3>3, <3>4
  <2> QED BY <2>1, <2>2
<1> QED BY <1>1, <1>3, <1>4, <1>5, <1>6 DEF Bracketed

LEMMA PartsBracketed ==
    /\ \A x \in {"black", "white", "blue", "red"} : Bracketed(Colour(x))
    /\ \A x \in {"C", "D", "A", "K", "P", "@"} : Bracketed(CSI(x))
    /\ Bracketed(<<ESC, "[", "0", "m", CR>>)
    /\ Bracketed(<<CR, LF>>) /\ Bracketed(<<BS>>) /\ Bracketed(<<BEL>>)
<1>0. /\ {"[", "0", "black", "white", "blue", "red", "m", CR, LF, BS, BEL, "C", "D", "A", "K", "P", "@"}
            \cap (Spans \cup Negations \cup {ESC}) = {}
      /\ ESC \notin Spans /\ ESC \notin Negations
      /\ DIGIT_C \notin Negations /\ DIGIT_C # ESC
  BY Zenon DEF Spans, Negations, ESC, CR, LF, BS, BEL, DIGIT_C, PRINTABLE_C, NOT_LF_CR_C, NOT_LF_C
<1>1. ASSUME NEW x \in {"black", "white", "blue", "red"}
      PROVE  Bracketed(Colour(x))
  <2>1. PICK P : P = <<ESC, "[", "0", x>>
    OBVIOUS
  <2>2. AList(P) /\ Len(P) = 4 /\ P[1] = ESC /\ P[2] = "[" /\ P[3] = "0" /\ P[4] = x
    BY <2>1, TuplesAre
  <2>3. \A i \in 1..4 : i = 1 \/ i = 2 \/ i = 3 \/ i = 4
    OBVIOUS
  <2>4. \A i \in 1..4 : /\ P[i] \notin Spans /\ P[i] \notin Negations
                        /\ P[i] = ESC => i < 4 /\ P[i + 1] = "["
    BY <1>0, <2>2, <2>3
  <2> QED BY <2>1, <2>2, <2>4 DEF Bracketed, Colour
<1>2. ASSUME NEW x \in {"C", "D", "A", "K", "P", "@"}
      PROVE  Bracketed(CSI(x))
  <2>1. PICK P : P = <<ESC, "[", DIGIT_C, x>>
    OBVIOUS
  <2>2. AList(P) /\ Len(P) = 4 /\ P[1] = ESC /\ P[2] = "[" /\ P[3] = DIGIT_C /\ P[4] = x
    BY <2>1, TuplesAre
  <2>3. \A i \in 1..4 : i = 1 \/ i = 2 \/ i = 3 \/ i = 4
    OBVIOUS
  <2>4. \A i \in 1..4 : /\ P[i] \in Spans => 1 < i /\ i < 4
                        /\ P[i] \notin Negations
                        /\ P[i] = ESC => i < 4 /\ P[i + 1] = "["
    BY <1>0, <2>2, <2>3
  <2> QED BY <2>1, <2>2, <2>4 DEF Bracketed, CSI
<1>3. Bracketed(<<ESC, "[", "0", "m", CR>>)
  <2>1. PICK P : P = <<ESC, "[", "0", "m", CR>>
    OBVIOUS
  <2>2. /\ AList(P) /\ Len(P) = 5 /\ P[1] = ESC /\ P[2] = "[" /\ P[3] = "0" /\ P[4] = "m"
        /\ P[5] = CR
    BY <2>1, TuplesAre
  <2>3. \A i \in 1..5 : i = 1 \/ i = 2 \/ i = 3 \/ i = 4 \/ i = 5
    OBVIOUS
  <2>4. \A i \in 1..5 : /\ P[i] \notin Spans /\ P[i] \notin Negations
                        /\ P[i] = ESC => i < 5 /\ P[i + 1] = "["
    BY <1>0, <2>2, <2>3
  <2> QED BY <2>1, <2>2, <2>4 DEF Bracketed
<1>4. ASSUME NEW x \in {BS, BEL}
      PROVE  Bracketed(<<x>>)
  <2>1. PICK P : P = <<x>>
    OBVIOUS
  <2>2. AList(P) /\ Len(P) = 1 /\ P[1] = x
    BY <2>1, TuplesAre
  <2>3. \A i \in 1..1 : P[i] \notin Spans /\ P[i] \notin Negations /\ P[i] # ESC
    BY <1>0, <2>2
  <2> QED BY <2>1, <2>2, <2>3 DEF Bracketed
<1>5. Bracketed(<<CR, LF>>)
  <2>1. PICK P : P = <<CR, LF>>
    OBVIOUS
  <2>2. AList(P) /\ Len(P) = 2 /\ P[1] = CR /\ P[2] = LF
    BY <2>1, TuplesAre
  <2>3. \A i \in 1..2 : P[i] \notin Spans /\ P[i] \notin Negations /\ P[i] # ESC
    BY <1>0, <2>2
  <2> QED BY <2>1, <2>2, <2>3 DEF Bracketed
<1> QED BY <1>1, <1>2, <1>3, <1>4, <1>5

LEMMA PatternsRegular == \A q \in Sequences_ : Regular(q, Pattern[q])
<1>1. ASSUME NEW q, NEW P, Bracketed(P)
      PROVE  Regular(q, P)
  BY <1>1 DEF Bracketed, Regular, Follows
<1>2. /\ Pattern["ps1"] = Colour("black") \o Colour("white")
      /\ Pattern["rstart"] = Colour("blue") \o Colour("red")
      /\ Pattern["rend"] = (Colour("blue") \o Colour("red")) \o CSI("D")
      /\ Pattern["completed"] = <<ESC, "[", "0", "m", CR>> \o CSI("C")
      /\ Pattern["newline"] = <<CR, LF>>
      /\ Pattern["backspace"] = <<BS>>
      /\ Pattern["bell"] = <<BEL>>
      /\ Pattern["forward"] = CSI("C") /\ Pattern["backward"] = CSI("D")
      /\ Pattern["up"] = CSI("A") /\ Pattern["erase"] = CSI("K")
      /\ Pattern["delete"] = CSI("P") /\ Pattern["insert"] = CSI("@")
  BY DEF Pattern, Marker
<1>3. /\ Bracketed(Colour("black") \o Colour("white")) /\ Bracketed(Colour("blue") \o Colour("red"))
      /\ Bracketed((Colour("blue") \o Colour("red")) \o CSI("D"))
      /\ Bracketed(<<ESC, "[", "0", "m", CR>> \o CSI("C"))
  <2>1. /\ Bracketed(Colour("black")) /\ Bracketed(Colour("white"))
        /\ Bracketed(Colour("blue")) /\ Bracketed(Colour("red"))
        /\ Bracketed(CSI("D")) /\ Bracketed(CSI("C")) /\ Bracketed(<<ESC, "[", "0", "m", CR>>)
    BY PartsBracketed
  <2>2. /\ Bracketed(Colour("black") \o Colour("white")) /\ Bracketed(Colour("blue") \o Colour("red"))
        /\ Bracketed(<<ESC, "[", "0", "m", CR>> \o CSI("C"))
    BY <2>1, JoinedBracketed
  <2>3. Bracketed((Colour("blue") \o Colour("red")) \o CSI("D"))
    BY <2>1, <2>2, JoinedBracketed
  <2> QED BY <2>2, <2>3
<1>4. ASSUME NEW q \in {"ps1", "rstart", "rend", "completed", "newline", "backspace", "bell",
                        "forward", "backward", "up", "erase", "delete", "insert"}
      PROVE  Bracketed(Pattern[q])
  BY <1>2, <1>3, PartsBracketed, Zenon
<1>0. /\ {ESC, "P", "backslash", CR, Blank} \cap (Spans \cup Negations) = {}
      /\ {NOT_LF_CR_C, NOT_LF_C} \subseteq Negations /\ {NOT_LF_CR_C, NOT_LF_C} \cap (Spans \cup {ESC}) = {}
      /\ PRINTABLE_C \in Spans /\ PRINTABLE_C \notin Negations /\ PRINTABLE_C # ESC
      /\ ESC \notin {"P", CR, Blank, "backslash"}
      /\ "backslash" \in Follows
  BY Zenon DEF Spans, Negations, Follows, ESC, CR, Blank, DIGIT_C, PRINTABLE_C, NOT_LF_CR_C, NOT_LF_C
<1>5. Regular("pwd", Pattern["pwd"])
  <2>1. PICK P : P = Pattern["pwd"] /\ P = <<ESC, "P", PRINTABLE_C, ESC, "backslash">>
    BY PatternsAre
  <2>2. /\ AList(P) /\ Len(P) = 5 /\ P[1] = ESC /\ P[2] = "P" /\ P[3] = PRINTABLE_C /\ P[4] = ESC
        /\ P[5] = "backslash"
    BY <2>1, TuplesAre
  <2>3. \A i \in 1..5 : i = 1 \/ i = 2 \/ i = 3 \/ i = 4 \/ i = 5
    OBVIOUS
  <2>4. \A i \in 1..5 : /\ P[i] \in Spans => 1 < i /\ i < 5
                        /\ P[i] \notin Negations
                        /\ i > 1 /\ P[i] = ESC => i < 5 /\ P[i + 1] \in Follows
    BY <1>0, <2>2, <2>3
  <2> QED BY <2>1, <2>2, <2>4 DEF Regular
<1>6. Regular("wrap", Pattern["wrap"])
  <2>1. PICK P : P = Pattern["wrap"] /\ P = <<Blank, CR, NOT_LF_CR_C>>
    BY PatternsAre
  <2>2. AList(P) /\ Len(P) = 3 /\ P[1] = Blank /\ P[2] = CR /\ P[3] = NOT_LF_CR_C
    BY <2>1, TuplesAre
  <2>3. \A i \in 1..3 : i = 1 \/ i = 2 \/ i = 3
    OBVIOUS
  <2>4. \A i \in 1..3 : /\ P[i] \notin Spans /\ P[i] # ESC
                        /\ P[i] \in Negations => 1 < i /\ i = 3
    BY <1>0, <2>2, <2>3
  <2> QED BY <2>1, <2>2, <2>4 DEF Regular
<1>7. Regular("return", Pattern["return"])
  <2>1. PICK P : P = Pattern["return"] /\ P = <<CR, NOT_LF_C>>
    BY PatternsAre
  <2>2. AList(P) /\ Len(P) = 2 /\ P[1] = CR /\ P[2] = NOT_LF_C
    BY <2>1, TuplesAre
  <2>3. \A i \in 1..2 : i = 1 \/ i = 2
    OBVIOUS
  <2>4. \A i \in 1..2 : /\ P[i] \notin Spans /\ P[i] # ESC
                        /\ P[i] \in Negations => 1 < i /\ i = 2
    BY <1>0, <2>2, <2>3
  <2> QED BY <2>1, <2>2, <2>4 DEF Regular
<1>8. \A q \in Sequences_ :
         q \in {"ps1", "rstart", "rend", "completed", "newline", "backspace", "bell",
                "forward", "backward", "up", "erase", "delete", "insert"} \cup {"pwd", "wrap", "return"}
  BY DEF Sequences_, Pattern
<1> QED BY <1>1, <1>4, <1>5, <1>6, <1>7, <1>8

\* One byte more of a pattern.
LEMMA ByteIs ==
    ASSUME NEW q \in Sequences_, NEW p \in Nat, p < Len(Pattern[q]), NEW b, NEW a,
           a = Advances(q, p, b), a # Fails
    PROVE  /\ a \in Nat /\ p + a <= Len(Pattern[q])
           /\ p = 0 => a >= 1
           /\ Pattern[q][p + 1] \in Follows => b # "P"
           /\ p > 0 /\ b = ESC /\ p + a < Len(Pattern[q]) => Pattern[q][p + a + 1] \in Follows
           /\ p > 0 /\ b = ESC /\ p + a = Len(Pattern[q]) => q \in {"wrap", "return"}
           /\ q \in {"wrap", "return"} => Pattern[q][Len(Pattern[q])] \notin Follows
<1>1. PICK P, l : P = Pattern[q] /\ l \in Nat /\ l = Len(P)
  BY PatternsRegular, AListHas DEF Regular
<1>2. \A i \in 1..l :
         /\ P[i] \in Spans => 1 < i /\ i < l
         /\ P[i] \in Negations => 1 < i /\ i = l /\ q \in {"wrap", "return"}
         /\ i > 1 /\ P[i] = ESC => i < l /\ P[i + 1] \in Follows
  BY <1>1, PatternsRegular DEF Regular
<1>0. PICK i \in 1..l : i = p + 1
  BY <1>1
<1>3. PICK here : i = p + 1 /\ here = P[i] /\ i \in 1..l
  BY <1>0
<1>4. /\ here \notin Spans => a = IF Fits(b, here) THEN 1 ELSE Fails
      /\ here \notin Spans \cup Negations => a = IF b = here THEN 1 ELSE Fails
      /\ here = DIGIT_C => a = IF b \in Digits THEN 0 ELSE IF P[p + 2] = b THEN 2 ELSE Fails
      /\ here = PRINTABLE_C => a = IF b \notin Controls THEN 0 ELSE IF P[p + 2] = b THEN 2 ELSE Fails
  <2>1. here = Pattern[q][p + 1]
    BY <1>1, <1>3
  <2>2. /\ here \notin {DIGIT_C, PRINTABLE_C} =>
              Advances(q, p, b) = IF Fits(b, here) THEN 1 ELSE Fails
        /\ here \notin {DIGIT_C, PRINTABLE_C, NOT_LF_CR_C, NOT_LF_C} =>
              Advances(q, p, b) = IF b = here THEN 1 ELSE Fails
        /\ here = DIGIT_C =>
              Advances(q, p, b) = IF b \in Digits THEN 0
                                  ELSE IF Pattern[q][p + 2] = b THEN 2 ELSE Fails
        /\ here = PRINTABLE_C =>
              Advances(q, p, b) = IF b \notin Controls THEN 0
                                  ELSE IF Pattern[q][p + 2] = b THEN 2 ELSE Fails
    BY <2>1, AdvancesOver
  <2> QED BY <1>1, <2>2 DEF Spans, Negations
<1>5. /\ "P" \notin Follows /\ Follows \cap (Spans \cup Negations) = {}
      /\ ESC \notin Digits /\ ESC \in Controls
  BY DEF Follows, Spans, Negations, Digits, Controls, ESC, DIGIT_C, PRINTABLE_C, NOT_LF_CR_C, NOT_LF_C
<1> SUFFICES /\ a \in Nat /\ p + a <= l
             /\ p = 0 => a >= 1
             /\ here \in Follows => b # "P"
             /\ p > 0 /\ b = ESC /\ p + a < l => P[p + a + 1] \in Follows
             /\ p > 0 /\ b = ESC /\ p + a = l => q \in {"wrap", "return"}
             /\ q \in {"wrap", "return"} => P[l] \notin Follows
  BY <1>1, <1>3, Zenon
<1>6. q \in {"wrap", "return"} => P[l] \notin Follows
  <2>1. CASE q = "wrap"
    <3>1. P = <<Blank, CR, NOT_LF_CR_C>>
      BY <1>1, <2>1, PatternsAre
    <3>2. P[l] = NOT_LF_CR_C
      BY <1>1, <3>1
    <3> QED BY <3>2 DEF Follows, NOT_LF_CR_C
  <2>2. CASE q = "return"
    <3>1. P = <<CR, NOT_LF_C>>
      BY <1>1, <2>2, PatternsAre
    <3>2. P[l] = NOT_LF_C
      BY <1>1, <3>1
    <3> QED BY <3>2 DEF Follows, NOT_LF_C
  <2> QED BY <2>1, <2>2
<1>7. CASE here \notin Spans \cup Negations
  <2>1. a = 1 /\ b = here
    BY <1>4, <1>7
  <2>2. p + 1 = i /\ i <= l
    BY <1>3
  <2>3. p > 0 /\ b = ESC => i < l /\ P[i + 1] \in Follows
    <3>1. ASSUME p > 0, b = ESC
          PROVE  i < l /\ P[i + 1] \in Follows
      <4>1. i > 1 /\ P[i] = ESC
        BY <1>3, <2>1, <3>1
      <4> QED BY <1>2, <4>1
    <3> QED BY <3>1
  <2> QED BY <1>5, <1>6, <2>1, <2>2, <2>3
<1>8. CASE here \in Negations
  <2>1. here \notin Spans
    BY <1>8 DEF Spans, Negations, DIGIT_C, PRINTABLE_C, NOT_LF_CR_C, NOT_LF_C
  <2>2. a = 1
    BY <1>4, <2>1
  <2>3. 1 < i /\ i = l /\ q \in {"wrap", "return"}
    BY <1>2, <1>3, <1>8
  <2>4. here \notin Follows
    BY <1>5, <1>8
  <2>5. p + a = l
    BY <1>3, <2>2, <2>3
  <2> QED BY <1>6, <2>2, <2>3, <2>4, <2>5
<1>9. CASE here \in Spans
  <2>1. 1 < i /\ i < l
    BY <1>2, <1>3, <1>9
  <2>2. (a = 0 /\ b # ESC) \/ (a = 2 /\ P[i + 1] = b)
    <3>1. p + 2 = i + 1
      BY <1>3
    <3>2. CASE here = DIGIT_C
      BY <1>4, <1>5, <3>1, <3>2
    <3>3. CASE here = PRINTABLE_C
      BY <1>4, <1>5, <3>1, <3>3
    <3> QED BY <1>9, <3>2, <3>3 DEF Spans
  <2>3. here \notin Follows
    BY <1>5, <1>9
  <2>4. p > 0 /\ a \in {0, 2}
    BY <1>3, <2>1, <2>2
  <2>5. CASE a = 0
    <3>1. b # ESC /\ p + a <= l
      BY <1>1, <1>3, <2>2, <2>5
    <3> QED BY <1>6, <2>3, <2>4, <2>5, <3>1
  <2>6. CASE a = 2
    <3>1. P[i + 1] = b /\ p + a = i + 1 /\ i + 1 \in 1..l /\ i + 1 > 1
      BY <1>1, <1>3, <2>1, <2>2, <2>6
    <3>2. b = ESC => i + 1 < l /\ P[(i + 1) + 1] \in Follows
      BY <1>2, <3>1
    <3> QED BY <1>6, <2>3, <2>4, <2>6, <3>1, <3>2
  <2> QED BY <2>4, <2>5, <2>6
<1> QED BY <1>7, <1>8, <1>9

\* Of these k bytes, the first p of q's pattern, none but the first begins a
\* marker, nor can with the next byte.
Apart(q, s, k, p) ==
    /\ p \in 0..(Len(Pattern[q]) - 1) /\ (k > 0 => p > 0)
    /\ \A j \in 2..k :
          s[j][1] = ESC => IF j < k THEN s[j + 1][1] # "P" ELSE Pattern[q][p + 1] \in Follows

\* No marker begins after the first of these m bytes.
Free(s, m) == \A j \in 2..m : s[j][1] = ESC => j < m /\ s[j + 1][1] # "P"

LEMMA ApartGoesOn ==
    ASSUME NEW q \in Sequences_, NEW s, NEW k \in Nat, NEW p \in Nat, Apart(q, s, k, p),
           NEW a, a = Advances(q, p, s[k + 1][1]), a # Fails
    PROVE  /\ p + a # Len(Pattern[q]) => Apart(q, s, k + 1, p + a)
           /\ p + a = Len(Pattern[q]) =>
                 IF q \in {"wrap", "return"} THEN Free(s, k) ELSE Free(s, k + 1)
<1>1. PICK P, l, b : P = Pattern[q] /\ l \in Nat /\ l = Len(P) /\ b = s[k + 1][1]
  BY PatternsRegular, AListHas DEF Regular
<1>2. p < l /\ (k > 0 => p > 0)
  BY <1>1 DEF Apart
<1>3. \A j \in 2..k : s[j][1] = ESC => IF j < k THEN s[j + 1][1] # "P" ELSE P[p + 1] \in Follows
  BY <1>1, Zenon DEF Apart
<1>4. /\ a \in Nat /\ p + a <= l
      /\ p = 0 => a >= 1
      /\ P[p + 1] \in Follows => b # "P"
      /\ p > 0 /\ b = ESC /\ p + a < l => P[p + a + 1] \in Follows
      /\ p > 0 /\ b = ESC /\ p + a = l => q \in {"wrap", "return"}
      /\ q \in {"wrap", "return"} => P[l] \notin Follows
  BY <1>1, <1>2, ByteIs
<1>5. \A j \in 2..k : s[j][1] = ESC => s[j + 1][1] # "P"
  BY <1>1, <1>3, <1>4
<1>6. ASSUME p + a # l
      PROVE  Apart(q, s, k + 1, p + a)
  <2>1. p + a \in 0..(l - 1) /\ p + a > 0
    <3>1. PICK x \in Nat : x = a
      BY <1>4
    <3>2. p + x <= l /\ p + x # l /\ (p = 0 => x >= 1)
      BY <1>4, <1>6, <3>1
    <3>3. p + x \in 0..(l - 1) /\ p + x > 0
      BY <1>1, <3>2
    <3> QED BY <3>1, <3>3
  <2>2. ASSUME NEW j \in 2..(k + 1), s[j][1] = ESC
        PROVE  IF j < k + 1 THEN s[j + 1][1] # "P" ELSE P[(p + a) + 1] \in Follows
    <3>1. CASE j < k + 1
      <4>1. j \in 2..k
        BY <3>1
      <4> QED BY <1>5, <2>2, <3>1, <4>1
    <3>2. CASE j = k + 1
      <4>1. k > 0 /\ b = ESC
        BY <1>1, <2>2, <3>2
      <4>3. p + a < l
        BY <1>1, <2>1
      <4>2. P[p + a + 1] \in Follows
        BY <1>2, <1>4, <4>1, <4>3
      <4> QED BY <3>2, <4>2
    <3> QED BY <3>1, <3>2
  <2> QED BY <1>1, <2>1, <2>2 DEF Apart
<1>7. ASSUME p + a = l, q \in {"wrap", "return"}
      PROVE  Free(s, k)
  <2>1. ASSUME NEW j \in 2..k, s[j][1] = ESC
        PROVE  j < k /\ s[j + 1][1] # "P"
    <3>1. p + 1 = l
      <4>1. p > 0
        BY <1>2, <2>1
      <4>2. a = 1
        <5>1. CASE q = "wrap"
          <6>1. P = <<Blank, CR, NOT_LF_CR_C>>
            BY <1>1, <5>1, PatternsAre
          <6>2. \A i \in 1..3 : P[i] \notin {DIGIT_C, PRINTABLE_C}
            <7>1. P[1] = Blank /\ P[2] = CR /\ P[3] = NOT_LF_CR_C
              BY <6>1
            <7>2. \A x \in {Blank, CR, NOT_LF_CR_C} : x \notin {DIGIT_C, PRINTABLE_C}
              BY Zenon DEF Blank, CR, NOT_LF_CR_C, DIGIT_C, PRINTABLE_C
            <7>3. \A x \in 1..3 : x = 1 \/ x = 2 \/ x = 3
              OBVIOUS
            <7>4. \A x \in 1..3 : P[x] \in {Blank, CR, NOT_LF_CR_C}
              BY <7>1, <7>3
            <7> QED BY <7>2, <7>4
          <6>3. p + 1 \in 1..3
            BY <1>1, <1>2, <6>1
          <6> QED BY <1>1, <6>2, <6>3, AdvancesOver
        <5>2. CASE q = "return"
          <6>1. P = <<CR, NOT_LF_C>>
            BY <1>1, <5>2, PatternsAre
          <6>2. \A i \in 1..2 : P[i] \notin {DIGIT_C, PRINTABLE_C}
            <7>1. P[1] = CR /\ P[2] = NOT_LF_C
              BY <6>1
            <7>2. \A x \in {CR, NOT_LF_C} : x \notin {DIGIT_C, PRINTABLE_C}
              BY Zenon DEF CR, NOT_LF_C, DIGIT_C, PRINTABLE_C
            <7>3. \A x \in 1..2 : x = 1 \/ x = 2
              OBVIOUS
            <7>4. \A x \in 1..2 : P[x] \in {CR, NOT_LF_C}
              BY <7>1, <7>3
            <7> QED BY <7>2, <7>4
          <6>3. p + 1 \in 1..2
            BY <1>1, <1>2, <6>1
          <6> QED BY <1>1, <6>2, <6>3, AdvancesOver
        <5> QED BY <1>7, <5>1, <5>2
      <4> QED BY <1>7, <4>2
    <3>2. P[p + 1] \notin Follows
      BY <1>4, <1>7, <3>1
    <3> QED BY <1>3, <2>1, <3>2
  <2> QED BY <2>1 DEF Free
<1>8. ASSUME p + a = l, q \notin {"wrap", "return"}
      PROVE  Free(s, k + 1)
  <2>1. ASSUME NEW j \in 2..(k + 1), s[j][1] = ESC
        PROVE  j < k + 1 /\ s[j + 1][1] # "P"
    <3>1. CASE j < k + 1
      <4>1. j \in 2..k
        BY <3>1
      <4> QED BY <1>5, <2>1, <3>1, <4>1
    <3>2. CASE j = k + 1
      <4>1. k > 0 /\ b = ESC
        BY <1>1, <2>1, <3>2
      <4> QED BY <1>2, <1>4, <1>8, <4>1
    <3> QED BY <3>1, <3>2
  <2> QED BY <2>1 DEF Free
<1> QED BY <1>1, <1>6, <1>7, <1>8

LEMMA SameApart ==
    ASSUME NEW q, NEW s, NEW t, NEW k \in Nat, NEW p, Apart(q, s, k, p), \A i \in 1..k : t[i] = s[i]
    PROVE  Apart(q, t, k, p)
<1>1. ASSUME NEW j \in 2..k, t[j][1] = ESC
      PROVE  IF j < k THEN t[j + 1][1] # "P" ELSE Pattern[q][p + 1] \in Follows
  <2>1. t[j] = s[j] /\ (j < k => t[j + 1] = s[j + 1])
    OBVIOUS
  <2> QED BY <1>1, <2>1 DEF Apart
<1> QED BY <1>1 DEF Apart

-----------------------------------------------------------------------------
(* The scan and the marker.                                                *)

\* Of the segment, each sequence still looked for has been compared with all.
Tracked ==
    \A q \in Groups[pl] :
        IF partly /\ sq[q].enabled THEN Apart(q, Stream, seglen, sq[q].pos) ELSE sq[q].pos = 0

\* At a marker the segment is of it, and its sequence the only one left.
Eaten ==
    AtMarker =>
        /\ off = 0
        /\ partly =>
              /\ seglen \in 1..4
              /\ sq["pwd"].enabled
              /\ seglen = 1 => sq["pwd"].pos = 1
              /\ seglen \in {2, 3} => sq["pwd"].pos = 2
              /\ seglen = 4 => sq["pwd"].pos = 4
              /\ \A q \in Groups["executing"] \ {"pwd"} :
                    IF seglen = 1 THEN sq[q].pos = 1 ELSE ~sq[q].enabled

Marks ==
    /\ InFirst
    /\ partly => seglen > 0
    /\ Tracked
    /\ Eaten
    /\ \A i \in 1..Len(todo) : Innocent(todo[i])

\* A shell prints a marker while it has no prompt, after which the next command
\* line starts; and while a command line may end, no marker is on its way.
MarkerAtRest ==
    /\ AtMarker => pl = "executing"
    /\ pl = "prompt" /\ expect => \A i \in 1..Len(todo) : ~IsMarker(todo[i])

LEMMA EnabledApart ==
    ASSUME OnceInv, Tracked
    PROVE  /\ pl \in Levels /\ Enabled \in Sqs
           /\ \A q \in Groups[pl] :
                 IF Enabled[q].enabled THEN Apart(q, Stream, seglen, Enabled[q].pos)
                                       ELSE Enabled[q].pos = 0
           /\ ~partly => \A q \in Groups[pl] : Enabled[q].enabled /\ Enabled[q].pos = 0
<1>1. pl \in Levels /\ sq \in Sqs /\ partly \in BOOLEAN /\ Enabled \in Sqs
  BY EnabledIs DEF OnceInv, Compared, Written
<1>2. CASE partly
  BY <1>1, <1>2 DEF Enabled, Tracked
<1>3. CASE ~partly
  <2>1. Enabled = [q \in Sequences_ |-> IF q \in Groups[pl] THEN [sq[q] EXCEPT !.enabled = TRUE] ELSE sq[q]]
    BY <1>3 DEF Enabled, enable_all_seqs
  <2>2. ASSUME NEW q \in Groups[pl]
        PROVE  Enabled[q].enabled /\ Enabled[q].pos = 0
    <3>1. q \in Sequences_ /\ sq[q].pos = 0
      BY <1>1, <1>3, GroupsAre DEF Tracked
    <3>2. PICK r : r = sq[q]
      OBVIOUS
    <3>3. r = [pos |-> r.pos, enabled |-> r.enabled]
      BY <1>1, <3>1, <3>2, SqIs
    <3>7. \A x : [r EXCEPT !.enabled = x] = [pos |-> r.pos, enabled |-> x]
      BY <3>3
    <3>4. [r EXCEPT !.enabled = TRUE] = [pos |-> r.pos, enabled |-> TRUE]
      BY <3>7, Zenon
    <3>5. Enabled[q] = [r EXCEPT !.enabled = TRUE]
      BY <2>1, <3>1, <3>2
    <3>6. Enabled[q] = [pos |-> 0, enabled |-> TRUE]
      BY <3>1, <3>2, <3>4, <3>5
    <3> QED BY <3>6
  <2>3. seglen = 0
    BY <1>3 DEF OnceInv, Written
  <2>4. ASSUME NEW q \in Groups[pl]
        PROVE  Apart(q, Stream, seglen, 0)
    <3>1. q \in Sequences_
      BY <1>1, GroupsAre
    <3>2. PICK l : l \in Nat /\ l = Len(Pattern[q]) /\ l >= 1
      BY <3>1, PatternsRegular, AListHas DEF Regular
    <3>3. 0 \in 0..(l - 1) /\ ~(0 > 0) /\ \A j \in 2..0 : FALSE
      BY <3>2
    <3> QED BY <2>3, <3>2, <3>3 DEF Apart
  <2> QED BY <1>1, <1>3, <2>2, <2>4
<1> QED BY <1>1, <1>2, <1>3

\* One byte more of the segment.
LEMMA ProgressTracks ==
    ASSUME OnceInv, Tracked, partly' = TRUE, InProgress,
           Matches(Enabled, pl, c) = {}, \A q \in Groups[pl] : ~Completes(Enabled, q, c)
    PROVE  Tracked'
<1>1. /\ sq' = check_seqs(Enabled, pl, c) /\ seglen' = seglen + 1 /\ pl' = pl
      /\ UNCHANGED shellVars
  BY DEF InProgress
<1>2. Stream' = Stream
  BY <1>1, StreamStays
<1>3. pl \in Levels /\ Enabled \in Sqs /\ seglen \in Nat
  BY EnabledApart DEF OnceInv, Written
<1>4. ASSUME NEW q \in Groups[pl]
      PROVE  IF sq'[q].enabled THEN Apart(q, Stream, seglen + 1, sq'[q].pos) ELSE sq'[q].pos = 0
  <2>1. q \in Sequences_ /\ sq'[q] = check_seq(Enabled, q, c)
    BY <1>1, <1>3, CheckedAre, GroupsAre
  <2>2. PICK s, p, b : s = Stream /\ p = Enabled[q].pos /\ b = s[seglen + 1][1]
    OBVIOUS
  <2>3. c = b /\ p \in Nat
    BY <1>3, <2>1, <2>2, SqIs DEF c
  <2>4. IF Enabled[q].enabled THEN Apart(q, s, seglen, p) ELSE p = 0
    BY <2>2, EnabledApart
  <2>5. CASE Mismatches(Enabled, q, c)
    <3>1. PICK r : r = check_seq(Enabled, q, c) /\ r = sq'[q]
      BY <2>1
    <3>2. ~r.enabled /\ (r.pos = 0 \/ (~Enabled[q].enabled /\ r.pos = Enabled[q].pos))
      BY <1>3, <2>1, <2>5, <3>1, CheckedIs
    <3>3. ~r.enabled /\ r.pos = 0
      BY <2>2, <2>4, <3>2
    <3> QED BY <3>1, <3>3
  <2>6. CASE ~Mismatches(Enabled, q, c)
    <3>1. sq'[q] = [pos |-> p + Advances(q, p, b), enabled |-> TRUE]
      <4>1. ~Completes(Enabled, q, c)
        BY <1>4
      <4>2. check_seq(Enabled, q, c) = [pos |-> Enabled[q].pos + Advances(q, Enabled[q].pos, c), enabled |-> TRUE]
        BY <1>3, <2>1, <2>6, <4>1, CheckedIs
      <4> QED BY <2>1, <2>2, <2>3, <4>2, Zenon
    <3>2. Enabled[q].enabled /\ Advances(q, p, b) # Fails
      BY <2>2, <2>3, <2>6 DEF Mismatches
    <3>3. p + Advances(q, p, b) # Len(Pattern[q])
      BY <1>4, <2>2, <2>3, <2>6 DEF Completes
    <3>4. PICK a : a = Advances(q, p, s[seglen + 1][1]) /\ a # Fails /\ p + a # Len(Pattern[q])
      BY <2>2, <3>2, <3>3
    <3>5. Apart(q, s, seglen + 1, p + a)
      BY <1>3, <2>1, <2>3, <2>4, <3>2, <3>4, ApartGoesOn
    <3> QED BY <2>2, <3>1, <3>4, <3>5
  <2> QED BY <2>5, <2>6
<1> QED BY <1>1, <1>2, <1>4 DEF Tracked

LEMMA BecomesTracks ==
    ASSUME OnceInv, NEW l \in Levels, Becomes(l), partly' = FALSE
    PROVE  Tracked'
<1>1. pl' = l /\ sq' = clear_seqs(check_seqs(Enabled, pl, c), l)
  BY DEF Becomes
<1>2. PICK sq2 : sq2 = check_seqs(Enabled, pl, c)
  OBVIOUS
<1>3. sq' = [q \in Sequences_ |-> [pos |-> IF q \in Groups[l] THEN 0 ELSE sq2[q].pos, enabled |-> FALSE]]
  BY <1>1, <1>2 DEF clear_seqs
<1>4. \A q \in Groups[l] : sq'[q].pos = 0
  BY <1>3, GroupsAre
<1> QED BY <1>1, <1>4 DEF Tracked

LEMMA NoMatchTracks ==
    ASSUME OnceInv, Tracked, partly' = FALSE, NoMatch,
           Matches(Enabled, pl, c) = {}, \A q \in Groups[pl] : Mismatches(Enabled, q, c)
    PROVE  Tracked'
<1>1. sq' = check_seqs(Enabled, pl, c) /\ pl' = pl
  BY DEF NoMatch
<1>2. pl \in Levels /\ Enabled \in Sqs
  BY EnabledApart
<1>3. ASSUME NEW q \in Groups[pl]
      PROVE  sq'[q].pos = 0
  <2>1. q \in Sequences_ /\ sq'[q] = check_seq(Enabled, q, c)
    BY <1>1, <1>2, CheckedAre, GroupsAre
  <2>2. Mismatches(Enabled, q, c) /\ (~Enabled[q].enabled => Enabled[q].pos = 0)
    BY EnabledApart
  <2> QED BY <1>2, <2>1, <2>2, CheckedIs
<1> QED BY <1>1, <1>3 DEF Tracked

\* The last o of m bytes.
LEMMA LastBytes ==
    ASSUME NEW m \in Nat, NEW o \in Nat, o > 0, o < m
    PROVE  \E j \in 2..m : /\ j = (m - o) + 1
                           /\ j < m => 2 \in 1..o /\ j + 1 = (m - o) + 2
<1>1. (m - o) + 1 \in 2..m
  OBVIOUS
<1>2. (m - o) + 1 < m => 2 \in 1..o /\ ((m - o) + 1) + 1 = (m - o) + 2
  OBVIOUS
<1> QED BY <1>1, <1>2

\* What leaves the segment takes the scan to no place within a marker.
LEMMA LeaveMarks ==
    ASSUME Position, InFirst, \A i \in 1..Len(todo) : Innocent(todo[i]),
           NEW m \in Nat, m <= Len(Stream), NEW read, Leave(m, read),
           Free(Stream, m) \/ \A i \in 1..Len(todo) : ~IsMarker(todo[i]),
           AtMarker => off = 0 /\ m >= 5
    PROVE  InFirst' /\ (AtMarker' => off' = 0) /\ \A i \in 1..Len(todo') : Innocent(todo'[i])
<1>1. /\ InFirst'
      /\ \A i \in 1..Len(todo') : \E j \in 1..Len(todo) : todo'[i] = todo[j]
      /\ todo' # <<>> /\ off' > 0 =>
            \/ todo' = todo /\ off' = off + m
            \/ off' < m /\ \A i \in 1..off' : Stream[(m - off') + i] = Bytes(todo'[1])[i]
  BY LeaveTo
<1>2. \A i \in 1..Len(todo') : Innocent(todo'[i])
  BY <1>1
<1>3. Position'
  BY LeaveIs
<1>4. off' \in Nat /\ AList(todo')
  BY <1>3 DEF Position
<1>5. ASSUME AtMarker', off' # 0
      PROVE  FALSE
  <2>1. todo' # <<>> /\ off' > 0 /\ IsMarker(todo'[1])
    BY <1>4, <1>5 DEF AtMarker
  <2>2. PICK b : b = Bytes(todo'[1])
    OBVIOUS
  <2>3. Len(b) = 5 /\ b[1][1] = ESC /\ b[2][1] = "P"
    BY <2>1, <2>2, MarkerIs
  <2>4. off' < 5
    BY <1>1, <2>1, <2>2, <2>3 DEF InFirst
  <2>5. CASE todo' = todo /\ off' = off + m
    <3>1. off = 0 /\ m >= 5
      BY <1>5, <2>5 DEF AtMarker
    <3> QED BY <2>4, <2>5, <3>1
  <2>6. CASE off' < m /\ \A i \in 1..off' : Stream[(m - off') + i] = b[i]
    <3>1. \E i \in 1..Len(todo) : IsMarker(todo[i])
      <4>1. PICK k \in Nat : k = Len(todo') /\ todo' \in Seq({todo'[i] : i \in 1..k})
        BY <1>4, AListHas
      <4>2. 1 \in 1..k
        BY <2>1, <4>1
      <4> QED BY <1>1, <2>1, <4>1, <4>2
    <3>2. Free(Stream, m)
      BY <3>1
    <3>8. PICK o \in Nat : o = off' /\ o > 0 /\ o < m
      BY <1>4, <2>1, <2>6
    <3>9. \A i \in 1..o : Stream[(m - o) + i] = b[i]
      BY <2>6, <3>8
    <3>3. PICK j \in 2..m : /\ j = (m - o) + 1
                            /\ j < m => 2 \in 1..o /\ j + 1 = (m - o) + 2
      BY <3>8, LastBytes
    <3>4. Stream[j][1] = ESC
      <4>1. 1 \in 1..o
        BY <3>8
      <4>2. Stream[(m - o) + 1] = b[1]
        BY <3>9, <4>1, Zenon
      <4> QED BY <2>3, <3>3, <4>2, Zenon
    <3>5. j < m /\ Stream[j + 1][1] # "P"
      BY <3>2, <3>4 DEF Free
    <3>6. 2 \in 1..o /\ j + 1 = (m - o) + 2
      BY <3>3, <3>5, Zenon
    <3>7. Stream[j + 1][1] = "P"
      BY <2>3, <3>6, <3>9, Zenon
    <3> QED BY <3>5, <3>7
  <2> QED BY <1>1, <2>1, <2>2, <2>5, <2>6
<1> QED BY <1>1, <1>2, <1>5

\* The sequences looked for while no command line is edited.
LEMMA AtRest ==
    /\ "pwd" \in Groups["executing"]
    /\ Groups["executing"] \subseteq {"pwd", "ps1", "rend", "completed"}
    /\ \A l \in Levels : "return" \in Groups[l] => l = "prompt"
<1>1. /\ Groups["executing"] = ToSet(seq_groups["executing"])
      /\ Groups["rprompt"] = ToSet(seq_groups["rprompt"])
  BY DEF Groups, seq_groups, init_bash_seqs, init_zsh_seqs
<1>2. CASE Zsh
  <2>1. seq_groups["executing"] = <<"ps1", "rend", "pwd", "completed">> /\ seq_groups["rprompt"] = <<"rend">>
    BY <1>2 DEF seq_groups, init_zsh_seqs
  <2>2. ToSet(<<"ps1", "rend", "pwd", "completed">>) = {"ps1", "rend", "pwd", "completed"}
        /\ ToSet(<<"rend">>) = {"rend"}
    BY DEF ToSet
  <2> QED BY <1>1, <2>1, <2>2 DEF Levels
<1>3. CASE ~Zsh
  <2>1. seq_groups["executing"] = <<"ps1", "pwd">> /\ seq_groups["rprompt"] = <<>>
    BY <1>3 DEF seq_groups, init_bash_seqs
  <2>2. ToSet(<<"ps1", "pwd">>) = {"ps1", "pwd"} /\ ToSet(<<>>) = {}
    BY DEF ToSet
  <2> QED BY <1>1, <2>1, <2>2 DEF Levels
<1> QED BY <1>2, <1>3

\* A marker advances its own sequence.
LEMMA PwdGoesOn ==
    /\ Len(Pattern["pwd"]) = 5
    /\ Advances("pwd", 0, ESC) = 1 /\ Advances("pwd", 1, "P") = 1
    /\ Advances("pwd", 2, "d") = 0 /\ Advances("pwd", 2, ESC) = 2
    /\ Advances("pwd", 4, "backslash") = 1
<1>1. PICK P : P = Pattern["pwd"] /\ P = <<ESC, "P", PRINTABLE_C, ESC, "backslash">>
  BY PatternsAre
<1>2. /\ Len(P) = 5 /\ P[0 + 1] = ESC /\ P[1 + 1] = "P" /\ P[2 + 1] = PRINTABLE_C
      /\ P[2 + 2] = ESC /\ P[4 + 1] = "backslash"
  BY <1>1
<1>3. {ESC, "P", "backslash"} \cap {DIGIT_C, PRINTABLE_C, NOT_LF_CR_C, NOT_LF_C} = {}
      /\ ESC \in Controls /\ "d" \notin Controls
  BY DEF ESC, DIGIT_C, PRINTABLE_C, NOT_LF_CR_C, NOT_LF_C, Controls
<1>4. ASSUME NEW p, NEW b, b = P[p + 1], b \in {ESC, "P", "backslash"}
      PROVE  Advances("pwd", p, b) = 1
  <2>1. b \notin {DIGIT_C, PRINTABLE_C, NOT_LF_CR_C, NOT_LF_C}
    BY <1>3, <1>4
  <2> QED BY <1>1, <1>4, <2>1, AdvancesOver
<1>5. ASSUME NEW b
      PROVE  Advances("pwd", 2, b) = IF b \notin Controls THEN 0 ELSE IF ESC = b THEN 2 ELSE Fails
  <2>1. PICK here : here = Pattern["pwd"][2 + 1] /\ here = PRINTABLE_C
    BY <1>1, <1>2
  <2>2. Advances("pwd", 2, b) = IF b \notin Controls THEN 0
                                ELSE IF Pattern["pwd"][2 + 2] = b THEN 2 ELSE Fails
    BY <2>1, AdvancesOver
  <2> QED BY <1>1, <1>2, <2>2
<1>6. Advances("pwd", 0, ESC) = 1 /\ Advances("pwd", 1, "P") = 1 /\ Advances("pwd", 4, "backslash") = 1
  BY <1>2, <1>4
<1>7. Advances("pwd", 2, "d") = 0 /\ Advances("pwd", 2, ESC) = 2
  BY <1>3, <1>5
<1> QED BY <1>1, <1>2, <1>6, <1>7

\* It fails the others with its second byte.
LEMMA OthersEnd ==
    ASSUME NEW q \in {"ps1", "rend", "completed"}
    PROVE  /\ 0 + 1 # Len(Pattern[q])
           /\ Advances(q, 0, ESC) = 1 /\ Advances(q, 1, "P") = Fails
<1>1. q \in Sequences_
  BY DEF Sequences_, Pattern
<1>2. PICK P, l : P = Pattern[q] /\ l \in Nat /\ l = Len(P)
  BY <1>1, PatternsRegular, AListHas DEF Regular
<1>3. l > 1 /\ P[1] = ESC /\ P[2] = "["
  <2>1. ASSUME NEW a, AList(a), NEW b, AList(b), Len(a) \in {4, 5, 8}, a[1] = ESC, a[2] = "["
        PROVE  Len(a \o b) > 1 /\ (a \o b)[1] = ESC /\ (a \o b)[2] = "["
    <3>1. 1 \in 1..Len(a) /\ 2 \in 1..Len(a)
      BY <2>1
    <3>2. (a \o b)[1] = ESC /\ (a \o b)[2] = "["
      BY <2>1, <3>1, LengthOf
    <3>3. Len(a \o b) = Len(a) + Len(b) /\ Len(b) \in Nat
      BY <2>1, LengthOf
    <3> QED BY <2>1, <3>2, <3>3
  <2>2. \A x : AList(Colour(x)) /\ AList(CSI(x))
    BY TuplesAre DEF Colour, CSI
  <2>3. CASE q = "ps1"
    <3>1. P = <<ESC, "[", "0", "black", ESC, "[", "0", "white">>
      BY <1>2, <2>3, PatternsAre
    <3>2. Len(P) = 8 /\ P[1] = ESC /\ P[2] = "["
      BY <3>1
    <3> QED BY <1>2, <3>2
  <2>4. CASE q = "rend"
    <3>1. PICK a, b : a = Marker /\ b = CSI("D") /\ P = a \o b
      BY <1>2, <2>4 DEF Pattern
    <3>2. a = <<ESC, "[", "0", "blue", ESC, "[", "0", "red">>
      BY <3>1, ColoursAre DEF Marker
    <3>3. Len(a) = 8 /\ a[1] = ESC /\ a[2] = "["
      BY <3>2
    <3>4. AList(a) /\ AList(b)
      BY <2>2, <3>1, JoinedIsList DEF Marker
    <3> QED BY <1>2, <2>1, <3>1, <3>3, <3>4
  <2>5. CASE q = "completed"
    <3>1. PICK a, b : a = <<ESC, "[", "0", "m", CR>> /\ b = CSI("C") /\ P = a \o b
      BY <1>2, <2>5 DEF Pattern
    <3>2. Len(a) = 5 /\ a[1] = ESC /\ a[2] = "["
      BY <3>1
    <3>3. AList(a) /\ AList(b)
      BY <2>2, <3>1, TuplesAre
    <3> QED BY <1>2, <2>1, <3>1, <3>2, <3>3
  <2> QED BY <2>3, <2>4, <2>5
<1>4. /\ ESC \notin {DIGIT_C, PRINTABLE_C, NOT_LF_CR_C, NOT_LF_C}
      /\ "[" \notin {DIGIT_C, PRINTABLE_C, NOT_LF_CR_C, NOT_LF_C} /\ "P" # "["
  BY DEF ESC, DIGIT_C, PRINTABLE_C, NOT_LF_CR_C, NOT_LF_C
<1>5. Advances(q, 0, ESC) = 1
  <2>1. PICK here : here = Pattern[q][0 + 1] /\ here = ESC
    BY <1>2, <1>3
  <2>2. here \notin {DIGIT_C, PRINTABLE_C, NOT_LF_CR_C, NOT_LF_C}
    BY <1>4, <2>1
  <2>3. Advances(q, 0, ESC) = IF ESC = here THEN 1 ELSE Fails
    BY <2>1, <2>2, AdvancesOver
  <2> QED BY <2>1, <2>3
<1>6. Advances(q, 1, "P") = Fails
  <2>1. PICK here : here = Pattern[q][1 + 1] /\ here = "["
    BY <1>2, <1>3
  <2>2. here \notin {DIGIT_C, PRINTABLE_C, NOT_LF_CR_C, NOT_LF_C} /\ "P" # here
    BY <1>4, <2>1
  <2>3. Advances(q, 1, "P") = IF "P" = here THEN 1 ELSE Fails
    BY <2>1, <2>2, AdvancesOver
  <2> QED BY <2>2, <2>3
<1>7. 0 + 1 # l
  BY <1>2, <1>3
<1> QED BY <1>2, <1>5, <1>6, <1>7

\* What the functions pass of the segment.
LEMMA PassIs ==
    ASSUME NEW found, found \notin {"progress", "none", "pwd"}, Run(found)
    PROVE  /\ found \notin {"wrap", "return"} => pass_segment(seglen + 1)
           /\ found = "wrap" => pass_segment(seglen)
           /\ found = "return" => pass_segment(IF expect THEN seglen + 1 ELSE seglen)
<1>1. CASE found = "wrap"
  <2>1. seq_term_cmd_wrapped
    BY <1>1 DEF Run
  <2> QED BY <1>1, <2>1 DEF seq_term_cmd_wrapped
<1>2. CASE found = "return"
  <2>1. seq_term_carriage_return
    BY <1>2 DEF Run
  <2> QED BY <1>2, <2>1 DEF seq_term_carriage_return
<1>3. CASE found \notin {"wrap", "return"}
  <2>1. \/ seq_ps1_separator \/ seq_rprompt_separator_start \/ seq_zsh_completion_done
        \/ seq_term_backspace \/ seq_term_cursor_forward \/ seq_term_cursor_backward
        \/ seq_term_cursor_up \/ seq_term_erase_in_line \/ seq_term_delete_chars
        \/ seq_term_insert_blanks \/ seq_term_bell \/ seq_term_newline
    BY <1>3, Zenon DEF Run
  <2>2. pass_segment(seglen + 1)
    <3>1. /\ seq_ps1_separator => pass_segment(seglen + 1)
          /\ seq_rprompt_separator_start => pass_segment(seglen + 1)
          /\ seq_zsh_completion_done => pass_segment(seglen + 1)
          /\ seq_term_backspace => pass_segment(seglen + 1)
          /\ seq_term_cursor_forward => pass_segment(seglen + 1)
          /\ seq_term_cursor_backward => pass_segment(seglen + 1)
      BY Zenon DEF seq_ps1_separator, seq_rprompt_separator_start, seq_zsh_completion_done,
            seq_term_backspace, seq_term_cursor_forward, seq_term_cursor_backward
    <3>2. /\ seq_term_cursor_up => pass_segment(seglen + 1)
          /\ seq_term_erase_in_line => pass_segment(seglen + 1)
          /\ seq_term_delete_chars => pass_segment(seglen + 1)
          /\ seq_term_insert_blanks => pass_segment(seglen + 1)
          /\ seq_term_bell => pass_segment(seglen + 1)
          /\ seq_term_newline => pass_segment(seglen + 1)
      BY Zenon DEF seq_term_cursor_up, seq_term_erase_in_line, seq_term_delete_chars,
            seq_term_insert_blanks, seq_term_bell, seq_term_newline
    <3> QED BY <2>1, <3>1, <3>2, Zenon
  <2> QED BY <1>3, <2>2
<1> QED BY <1>1, <1>2, <1>3

\* One byte of a marker, whose sequence alone goes on to its end.
LEMMA MarkerGoesOn ==
    ASSUME OnceInv, Marks, AtMarker, pl = "executing", seglen < Len(Stream)
    PROVE  LET r(q) == check_seq(Enabled, q, c)
           IN /\ seglen \in 0..4
              /\ seglen < 4 =>
                    /\ \A q \in Groups[pl] : ~Completes(Enabled, q, c)
                    /\ ~Mismatches(Enabled, "pwd", c)
                    /\ r("pwd").enabled
                    /\ seglen = 0 => r("pwd").pos = 1
                    /\ seglen \in {1, 2} => r("pwd").pos = 2
                    /\ seglen = 3 => r("pwd").pos = 4
                    /\ \A q \in Groups[pl] \ {"pwd"} :
                          IF seglen = 0 THEN r(q).pos = 1 ELSE ~r(q).enabled
              /\ seglen = 4 =>
                    /\ Completes(Enabled, "pwd", c)
                    /\ ~Mismatches(Enabled, "pwd", c)
                    /\ \A q \in Groups[pl] \ {"pwd"} : ~Completes(Enabled, q, c)
<1>1. /\ OnceInv /\ Position /\ Tracked /\ InFirst /\ seglen \in Nat /\ partly \in BOOLEAN
      /\ (~partly => seglen = 0) /\ (partly => seglen > 0)
  BY DEF OnceInv, Written, Marks
<1>2. /\ off = 0 /\ todo # <<>> /\ IsMarker(todo[1])
      /\ partly =>
            /\ seglen \in 1..4
            /\ sq["pwd"].enabled
            /\ seglen = 1 => sq["pwd"].pos = 1
            /\ seglen \in {2, 3} => sq["pwd"].pos = 2
            /\ seglen = 4 => sq["pwd"].pos = 4
            /\ \A q \in Groups["executing"] \ {"pwd"} :
                  IF seglen = 1 THEN sq[q].pos = 1 ELSE ~sq[q].enabled
  BY DEF Marks, Eaten, AtMarker
<1>3. seglen \in 0..4
  BY <1>1, <1>2
<1>4. PICK k : k = seglen /\ k \in 0..4
  BY <1>3
<1>5. /\ k = 0 => c = ESC
      /\ k = 1 => c = "P"
      /\ k = 2 => c = "d"
      /\ k = 3 => c = ESC
      /\ k = 4 => c = "backslash"
  <2>1. PICK b, s : b = Bytes(todo[1]) /\ s = Stream
    OBVIOUS
  <2>2. /\ Len(b) = 5 /\ b[1][1] = ESC /\ b[2][1] = "P" /\ b[3][1] = "d" /\ b[4][1] = ESC
        /\ b[5][1] = "backslash"
    BY <1>2, <2>1, MarkerIs
  <2>3. \A i \in 1..(Len(b) - off) : s[i] = b[off + i]
    BY <1>1, <1>2, <2>1, StreamFirst
  <2>4. \A i \in 1..5 : s[i] = b[i]
    BY <1>2, <2>2, <2>3
  <2>5. c = s[k + 1][1]
    BY <1>4, <2>1 DEF c
  <2> QED BY <1>4, <2>2, <2>4, <2>5
<1>6. /\ Enabled \in Sqs /\ pl \in Levels /\ "pwd" \in Groups[pl]
      /\ Groups[pl] \subseteq {"pwd", "ps1", "rend", "completed"} /\ Groups[pl] \subseteq Sequences_
  BY <1>1, EnabledApart, AtRest, GroupsAre
<1>7. /\ Enabled["pwd"].enabled
      /\ k = 0 => Enabled["pwd"].pos = 0
      /\ k = 1 => Enabled["pwd"].pos = 1
      /\ k \in {2, 3} => Enabled["pwd"].pos = 2
      /\ k = 4 => Enabled["pwd"].pos = 4
      /\ \A q \in Groups[pl] \ {"pwd"} :
            /\ k = 0 => Enabled[q].enabled /\ Enabled[q].pos = 0
            /\ k = 1 => Enabled[q].pos = 1
            /\ k > 1 => ~Enabled[q].enabled
  <2>1. CASE partly
    <3>1. Enabled = sq
      BY <2>1 DEF Enabled
    <3>2. k \in 1..4
      BY <1>2, <1>4, <2>1
    <3> QED BY <1>2, <1>4, <2>1, <3>1, <3>2
  <2>2. CASE ~partly
    <3>1. k = 0 /\ \A q \in Groups[pl] : Enabled[q].enabled /\ Enabled[q].pos = 0
      BY <1>1, <1>4, <2>2, EnabledApart
    <3> QED BY <1>6, <3>1
  <2> QED BY <1>1, <2>1, <2>2
<1>8. PICK p, a : p = Enabled["pwd"].pos /\ a = Advances("pwd", p, c)
  OBVIOUS
<1>9. /\ k = 0 => p = 0 /\ a = 1
      /\ k = 1 => p = 1 /\ a = 1
      /\ k = 2 => p = 2 /\ a = 0
      /\ k = 3 => p = 2 /\ a = 2
      /\ k = 4 => p = 4 /\ a = 1
  BY <1>5, <1>7, <1>8, PwdGoesOn
<1>10. a # Fails /\ (k < 4 => p + a # 5)
  BY <1>4, <1>9 DEF Fails
<1>11. ~Mismatches(Enabled, "pwd", c)
  BY <1>7, <1>8, <1>10 DEF Mismatches
<1>12. k < 4 => /\ ~Completes(Enabled, "pwd", c)
                /\ check_seq(Enabled, "pwd", c) = [pos |-> p + a, enabled |-> TRUE]
  <2>1. k < 4 => ~Completes(Enabled, "pwd", c)
    <3>1. Len(Pattern["pwd"]) = 5
      BY PwdGoesOn
    <3> QED BY <1>8, <1>10, <3>1 DEF Completes
  <2> QED BY <1>6, <1>8, <1>11, <2>1, CheckedIs
<1>13. ASSUME NEW q \in Groups[pl] \ {"pwd"}
       PROVE  /\ ~Completes(Enabled, q, c)
              /\ IF k = 0 THEN check_seq(Enabled, q, c).pos = 1 ELSE ~check_seq(Enabled, q, c).enabled
  <2>1. q \in {"ps1", "rend", "completed"} /\ q \in Sequences_
    BY <1>6
  <2>2. /\ 0 + 1 # Len(Pattern[q])
        /\ Advances(q, 0, ESC) = 1 /\ Advances(q, 1, "P") = Fails
    BY <2>1, OthersEnd
  <2>3. /\ k = 0 => Enabled[q].enabled /\ Enabled[q].pos = 0
        /\ k = 1 => Enabled[q].pos = 1
        /\ k > 1 => ~Enabled[q].enabled
    BY <1>7
  <2>4. CASE k = 0
    <3>1. Enabled[q].enabled /\ Enabled[q].pos = 0 /\ Advances(q, Enabled[q].pos, c) = 1
      BY <1>5, <2>2, <2>3, <2>4
    <3>2. 1 # Fails /\ 0 + 1 # Len(Pattern[q])
      <4>1. 1 # Fails
        BY DEF Fails
      <4> QED BY <2>2, <4>1, Zenon
    <3>3. ~Mismatches(Enabled, q, c) /\ ~Completes(Enabled, q, c)
      BY <3>1, <3>2 DEF Mismatches, Completes
    <3>4. check_seq(Enabled, q, c) = [pos |-> 0 + 1, enabled |-> TRUE]
      BY <1>6, <2>1, <3>1, <3>3, CheckedIs
    <3> QED BY <2>4, <3>3, <3>4
  <2>5. CASE k # 0
    <3>1. Mismatches(Enabled, q, c)
      <4>1. k = 1 => Advances(q, Enabled[q].pos, c) = Fails
        BY <1>5, <2>2, <2>3
      <4>2. k > 1 => ~Enabled[q].enabled
        BY <2>3
      <4>3. k = 1 \/ k > 1
        BY <1>4, <2>5
      <4> QED BY <4>1, <4>2, <4>3 DEF Mismatches
    <3>2. ~Completes(Enabled, q, c)
      BY <3>1 DEF Completes
    <3>3. ~check_seq(Enabled, q, c).enabled
      BY <1>6, <2>1, <3>1, CheckedIs
    <3> QED BY <2>5, <3>2, <3>3
  <2> QED BY <2>4, <2>5
<1>14. k < 4 => \A q \in Groups[pl] : ~Completes(Enabled, q, c)
  BY <1>12, <1>13
<1>15. k = 4 => Completes(Enabled, "pwd", c)
  <2>1. k = 4 => p + a = Len(Pattern["pwd"])
    BY <1>9, PwdGoesOn
  <2> QED BY <1>8, <1>11, <2>1 DEF Completes
<1>16. k < 4 => /\ check_seq(Enabled, "pwd", c).enabled
                /\ k = 0 => check_seq(Enabled, "pwd", c).pos = 1
                /\ k \in {1, 2} => check_seq(Enabled, "pwd", c).pos = 2
                /\ k = 3 => check_seq(Enabled, "pwd", c).pos = 4
  <2>1. PICK r : r = check_seq(Enabled, "pwd", c)
    OBVIOUS
  <2>2. k < 4 => r.enabled /\ r.pos = p + a
    BY <1>12, <2>1
  <2> QED BY <1>9, <2>1, <2>2
<1> QED BY <1>3, <1>4, <1>11, <1>13, <1>14, <1>15, <1>16

LEMMA CheckKeepsMarks == OnceInv /\ Marks /\ MarkerAtRest /\ CheckSeqs => Marks'
<1> SUFFICES ASSUME OnceInv, Marks, MarkerAtRest, CheckSeqs
             PROVE  Marks'
  OBVIOUS
<1>1. reading /\ seglen < Len(Stream)
  BY DEF CheckSeqs
<1>2. PICK found : found = Found(Enabled, pl, c) /\ partly' = (found = "progress") /\ Run(found)
  BY DEF CheckSeqs
<1>3. /\ pl \in Levels /\ Position /\ Written /\ Tracked /\ InFirst /\ seglen \in Nat
      /\ \A i \in 1..Len(todo) : Innocent(todo[i])
      /\ AtMarker => pl = "executing"
      /\ AtMarker => off = 0
  BY DEF OnceInv, Compared, Written, Marks, MarkerAtRest, Eaten
<1>4. PICK k \in Nat : k = Len(Stream)
  BY <1>3, StreamIs, AListHas
\* The marker's bytes.
<1>5. AtMarker => /\ seglen \in 0..4
                  /\ seglen < 4 => \A q \in Groups[pl] : ~Completes(Enabled, q, c)
                  /\ seglen = 4 => \A q \in Groups[pl] \ {"pwd"} : ~Completes(Enabled, q, c)
                  /\ ~Mismatches(Enabled, "pwd", c) /\ "pwd" \in Groups[pl]
  <2> SUFFICES ASSUME AtMarker
               PROVE  /\ seglen \in 0..4
                      /\ seglen < 4 => \A q \in Groups[pl] : ~Completes(Enabled, q, c)
                      /\ seglen = 4 => \A q \in Groups[pl] \ {"pwd"} : ~Completes(Enabled, q, c)
                      /\ ~Mismatches(Enabled, "pwd", c) /\ "pwd" \in Groups[pl]
    OBVIOUS
  <2>1. pl = "executing"
    BY <1>3
  <2>2. seglen < 4 \/ seglen = 4
    BY <1>1, <2>1, MarkerGoesOn
  <2> QED BY <1>1, <2>1, <2>2, MarkerGoesOn, AtRest
<1>6. CASE /\ found = "progress" /\ Matches(Enabled, pl, c) = {}
           /\ \A q \in Groups[pl] : ~Completes(Enabled, q, c)
  <2>1. InProgress /\ partly' = TRUE
    BY <1>2, <1>6 DEF Run
  <2>2. Tracked'
    BY <1>3, <1>6, <2>1, ProgressTracks
  <2>3. /\ UNCHANGED <<todo, off, pl>> /\ seglen' = seglen + 1
        /\ sq' = check_seqs(Enabled, pl, c)
    BY <2>1 DEF InProgress, shellVars
  <2>4. InFirst' /\ \A i \in 1..Len(todo') : Innocent(todo'[i])
    BY <1>3, <2>3 DEF InFirst
  <2>5. Eaten'
    <3> SUFFICES ASSUME AtMarker' PROVE Eaten'
      BY DEF Eaten
    <3>1. AtMarker /\ pl = "executing" /\ off' = 0
      BY <1>3, <2>3 DEF AtMarker
    <3>2. \A q \in Groups[pl] : sq'[q] = check_seq(Enabled, q, c)
      BY <1>3, <1>6, <2>3, CheckedAre, EnabledApart
    <3>3. seglen \in 0..3
      <4>1. seglen # 4
        <5>1. Completes(Enabled, "pwd", c) \/ seglen # 4
          <6>1. ASSUME seglen = 4 PROVE Completes(Enabled, "pwd", c)
            BY <1>1, <1>3, <3>1, <6>1, MarkerGoesOn
          <6> QED BY <6>1
        <5> QED BY <1>5, <1>6, <3>1, <5>1
      <4> QED BY <1>5, <3>1, <4>1
    <3>4. /\ sq'["pwd"].enabled
          /\ seglen = 0 => sq'["pwd"].pos = 1
          /\ seglen \in {1, 2} => sq'["pwd"].pos = 2
          /\ seglen = 3 => sq'["pwd"].pos = 4
          /\ \A q \in Groups[pl] \ {"pwd"} : IF seglen = 0 THEN sq'[q].pos = 1 ELSE ~sq'[q].enabled
      <4>1. "pwd" \in Groups[pl] /\ seglen < 4
        BY <1>5, <3>1, <3>3
      <4>2. \A q \in Groups[pl] \ {"pwd"} : q \in Groups[pl]
        OBVIOUS
      <4>3. /\ check_seq(Enabled, "pwd", c).enabled
            /\ seglen = 0 => check_seq(Enabled, "pwd", c).pos = 1
            /\ seglen \in {1, 2} => check_seq(Enabled, "pwd", c).pos = 2
            /\ seglen = 3 => check_seq(Enabled, "pwd", c).pos = 4
            /\ \A q \in Groups[pl] \ {"pwd"} :
                  IF seglen = 0 THEN check_seq(Enabled, q, c).pos = 1 ELSE ~check_seq(Enabled, q, c).enabled
        <5>1. OnceInv /\ Marks /\ AtMarker /\ pl = "executing" /\ seglen < Len(Stream)
          BY <1>1, <3>1
        <5> QED BY <4>1, <5>1, MarkerGoesOn
      <4>4. sq'["pwd"] = check_seq(Enabled, "pwd", c)
        BY <3>2, <4>1
      <4> QED BY <3>2, <4>2, <4>3, <4>4
    <3>5. PICK n2 \in 0..3 : n2 = seglen
      BY <3>3
    <3>6. /\ n2 + 1 \in 1..4 /\ (n2 + 1 = 1 <=> n2 = 0) /\ (n2 + 1 \in {2, 3} <=> n2 \in {1, 2})
          /\ (n2 + 1 = 4 <=> n2 = 3)
      BY <3>5
    <3> QED BY <2>3, <3>1, <3>4, <3>5, <3>6 DEF Eaten
  <2> QED BY <1>3, <2>2, <2>3, <2>4, <2>5 DEF Marks
<1>7. CASE /\ found = "none" /\ Matches(Enabled, pl, c) = {}
           /\ \A q \in Groups[pl] : Mismatches(Enabled, q, c)
  <2>1. NoMatch /\ partly' = FALSE
    BY <1>2, <1>7 DEF Run
  <2>2. Tracked'
    BY <1>3, <1>7, <2>1, NoMatchTracks
  <2>3. Leave(1, Filled)
    BY <2>1 DEF NoMatch, pass_segment, passed
  <2>4. ~AtMarker
    BY <1>5, <1>7
  <2>5. Free(Stream, 1)
    BY DEF Free
  <2>6. 1 \in Nat /\ 1 <= Len(Stream)
    BY <1>1, <1>3, <1>4
  <2>7. InFirst' /\ (AtMarker' => off' = 0) /\ \A i \in 1..Len(todo') : Innocent(todo'[i])
    BY <1>3, <2>3, <2>4, <2>5, <2>6, LeaveMarks
  <2> QED BY <2>1, <2>2, <2>7 DEF Marks, Eaten
<1>8. CASE found \in Groups[pl] /\ Completes(Enabled, found, c)
  <2>1. found \in Sequences_ /\ found \notin {"progress", "none"}
    <3>1. found \in Sequences_
      BY <1>3, <1>8, GroupsAre
    <3> QED BY <3>1 DEF Sequences_, Pattern
  <2>2. partly' = FALSE
    BY <1>2, <2>1
  <2>3. AtMarker => found = "pwd" /\ seglen + 1 = 5
    BY <1>5, <1>8
  <2>4. IF found \in {"wrap", "return"} THEN Free(Stream, seglen) ELSE Free(Stream, seglen + 1)
    <3>1. PICK s, p, b : s = Stream /\ p = Enabled[found].pos /\ b = s[seglen + 1][1]
      OBVIOUS
    <3>2. c = b /\ p \in Nat
      <4>1. Enabled \in Sqs
        BY <1>3, EnabledApart
      <4> QED BY <2>1, <3>1, <4>1, SqIs DEF c
    <3>3. Enabled[found].enabled /\ Advances(found, p, b) # Fails
      BY <1>8, <3>1, <3>2 DEF Completes, Mismatches
    <3>4. p + Advances(found, p, b) = Len(Pattern[found])
      BY <1>8, <3>1, <3>2 DEF Completes
    <3>5. PICK a : a = Advances(found, p, s[seglen + 1][1]) /\ a # Fails /\ p + a = Len(Pattern[found])
      BY <3>1, <3>3, <3>4
    <3>6. Apart(found, s, seglen, p)
      BY <1>3, <1>8, <3>1, <3>3, EnabledApart
    <3>7. IF found \in {"wrap", "return"} THEN Free(s, seglen) ELSE Free(s, seglen + 1)
      BY <1>3, <2>1, <3>2, <3>5, <3>6, ApartGoesOn
    <3> QED BY <3>1, <3>7
  <2>5. PICK m \in {seglen, seglen + 1} :
           /\ Leave(m, Filled)
           /\ found = "pwd" => m = seglen + 1
           /\ Free(Stream, m) \/ \A i \in 1..Len(todo) : ~IsMarker(todo[i])
    <3>1. CASE found = "pwd"
      <4>1. Leave(seglen + 1, Filled)
        BY <1>2, <3>1 DEF Run, seq_new_pwd, eat_segment
      <4> QED BY <2>4, <3>1, <4>1
    <3>2. CASE found \notin {"pwd", "wrap", "return"}
      <4>1. pass_segment(seglen + 1)
        BY <1>2, <2>1, <3>2, PassIs
      <4> QED BY <2>4, <3>2, <4>1 DEF pass_segment, passed
    <3>3. CASE found = "wrap"
      <4>1. pass_segment(seglen)
        BY <1>2, <2>1, <3>3, PassIs
      <4> QED BY <2>4, <3>3, <4>1 DEF pass_segment, passed
    <3>4. CASE found = "return"
      <4>1. pass_segment(IF expect THEN seglen + 1 ELSE seglen)
        BY <1>2, <2>1, <3>4, PassIs
      <4>2. CASE expect
        <5>1. pl = "prompt"
          BY <1>3, <1>8, <3>4, AtRest
        <5>2. \A i \in 1..Len(todo) : ~IsMarker(todo[i])
          BY <4>2, <5>1 DEF MarkerAtRest
        <5> QED BY <3>4, <4>1, <4>2, <5>2 DEF pass_segment, passed
      <4>3. CASE ~expect
        BY <2>4, <3>4, <4>1, <4>3 DEF pass_segment, passed
      <4> QED BY <4>2, <4>3
    <3> QED BY <3>1, <3>2, <3>3, <3>4
  <2>6. m \in Nat /\ m <= Len(Stream)
    BY <1>1, <1>3, <1>4, <2>5
  <2>7. AtMarker => off = 0 /\ m >= 5
    <3>1. ASSUME AtMarker PROVE m >= 5
      <4>1. m = 5
        BY <2>3, <2>5, <3>1
      <4> QED BY <4>1
    <3> QED BY <1>3, <3>1
  <2>8. InFirst' /\ (AtMarker' => off' = 0) /\ \A i \in 1..Len(todo') : Innocent(todo'[i])
    BY <1>3, <2>5, <2>6, <2>7, LeaveMarks
  <2>9. Tracked'
    <3>1. PICK l \in Levels : Becomes(l)
      <4>1. CASE found = "pwd"
        BY <1>2, <1>3, <4>1 DEF Run, seq_new_pwd, NoEffect
      <4>2. CASE found # "pwd"
        BY <1>2, <1>3, <2>1, <4>2, RunIs
      <4> QED BY <4>1, <4>2
    <3> QED BY <2>2, <3>1, BecomesTracks
  <2> QED BY <2>2, <2>8, <2>9 DEF Marks, Eaten
<1> QED BY <1>2, <1>3, <1>6, <1>7, <1>8, FoundIs

LEMMA UpTo == \A l \in Nat : \A i \in 1..(l + 1) : i \in 1..l \/ i = l + 1
OBVIOUS

\* What is printed comes after what is.
LEMMA PrintKeepsMarks == OnceInv /\ Marks /\ ShellPrints => Marks'
<1> SUFFICES ASSUME OnceInv, Marks, ShellPrints
             PROVE  Marks'
  OBVIOUS
<1>1. PICK t \in Terminal!Tokens : todo' = Append(todo, t)
  BY DEF ShellPrints
<1>2. UNCHANGED <<off, seglen, partly, sq, pl>>
  BY DEF ShellPrints, bufVars, scanVars
<1>3. Position /\ Written /\ Tracked /\ InFirst /\ Eaten /\ (partly => seglen > 0)
      /\ \A i \in 1..Len(todo) : Innocent(todo[i])
  BY DEF OnceInv, Marks
<1>4. PICK k \in Nat : k = Len(Stream)
  BY <1>3, StreamIs, AListHas
<1>5. \A i \in 1..k : Stream'[i] = Stream[i]
  BY <1>1, <1>2, <1>3, <1>4, PrintKeeps
<1>6. seglen \in 0..k
  BY <1>3, <1>4 DEF Written
<1>7. Tracked'
  <2>1. ASSUME NEW q, NEW p, Apart(q, Stream, seglen, p)
        PROVE  Apart(q, Stream', seglen, p)
    <3>1. PICK s, s2 : s = Stream /\ s2 = Stream'
      OBVIOUS
    <3>2. seglen \in Nat /\ \A i \in 1..seglen : s2[i] = s[i]
      BY <1>5, <1>6, <3>1
    <3> QED BY <2>1, <3>1, <3>2, SameApart
  <2> QED BY <1>2, <1>3, <2>1 DEF Tracked
<1>8. PICK s, r, l : s = todo /\ r = todo' /\ l \in Nat /\ l = Len(s) /\ s \in Seq({s[i] : i \in 1..l})
  BY <1>3, AListHas DEF Position
<1>9. Len(r) = l + 1 /\ r # <<>> /\ (\A i \in 1..l : r[i] = s[i]) /\ r[l + 1] = t
  <2>1. s \in Seq({s[i] : i \in 1..l} \cup {t})
    BY <1>8
  <2> QED BY <1>1, <1>8, <2>1
<1>10. \A i \in 1..Len(todo') : Innocent(todo'[i])
  <2>1. \A i \in 1..l : Innocent(r[i])
    BY <1>3, <1>8, <1>9
  <2>2. Innocent(r[l + 1])
    BY <1>9, TokensInnocent
  <2>3. \A i \in 1..(l + 1) : i \in 1..l \/ i = l + 1
    BY <1>8, UpTo
  <2>4. \A i \in 1..(l + 1) : Innocent(r[i])
    BY <2>1, <2>2, <2>3
  <2> QED BY <1>8, <1>9, <2>4
<1>11. CASE todo = <<>>
  <2>1. off = 0
    BY <1>3, <1>11 DEF InFirst
  <2>2. seglen = 0
    <3>1. PICK f : f[0] = <<>> /\ f[Len(<<>>)] = PrintedBytes(<<>>)
      BY NoBytes, PrintedAre
    <3>2. Len(PrintedBytes(todo)) = 0
      BY <1>11, <3>1
    <3>3. k = 0
      BY <1>3, <1>4, <2>1, <3>2, StreamIs
    <3> QED BY <1>6, <3>3
  <2>3. ~partly
    BY <1>3, <2>2
  <2>4. InFirst'
    <3>1. Len(Bytes(todo'[1])) \in Nat \ {0}
      BY BytesOver
    <3>2. off' < Len(Bytes(todo'[1]))
      BY <1>2, <2>1, <3>1
    <3> QED BY <1>8, <1>9, <3>2 DEF InFirst
  <2>5. Eaten'
    BY <1>2, <2>1, <2>3 DEF Eaten
  <2> QED BY <1>2, <1>3, <1>7, <1>10, <2>4, <2>5 DEF Marks
<1>12. CASE todo # <<>>
  <2>1. l >= 1
    BY <1>8, <1>12
  <2>2. todo'[1] = todo[1] /\ todo' # <<>>
    <3>1. 1 \in 1..l
      BY <2>1
    <3> QED BY <1>8, <1>9, <3>1
  <2>3. InFirst'
    BY <1>2, <1>3, <1>12, <2>2 DEF InFirst
  <2>4. AtMarker' <=> AtMarker
    BY <1>12, <2>2 DEF AtMarker
  <2>5. Eaten'
    BY <1>2, <1>3, <2>4 DEF Eaten
  <2> QED BY <1>2, <1>3, <1>7, <1>10, <2>3, <2>5 DEF Marks
<1> QED BY <1>11, <1>12

LEMMA UnreadMarks ==
    ASSUME Marks, UNCHANGED <<shellVars, seglen, scanVars>>
    PROVE  Marks'
<1>1. Stream' = Stream
  BY StreamStays
<1> QED BY <1>1 DEF Marks, InFirst, Tracked, Eaten, AtMarker, shellVars, scanVars

LEMMA OthersKeepMarks ==
    OnceInv /\ Marks /\ MarkerAtRest /\ (ProcessTerminal \/ ProcessShell \/ ReadEnds) => Marks'
<1> SUFFICES ASSUME OnceInv, Marks, MarkerAtRest, ProcessTerminal \/ ProcessShell \/ ReadEnds
             PROVE  Marks'
  OBVIOUS
<1>1. /\ Written /\ Position /\ InFirst /\ seglen \in Nat
      /\ \A i \in 1..Len(todo) : Innocent(todo[i])
  BY DEF OnceInv, Written, Marks
<1>2. CASE ProcessTerminal
  BY <1>2, UnreadMarks DEF ProcessTerminal, bufVars
<1>3. CASE ProcessShell
  <2>1. seglen' = hold /\ ~reading /\ UNCHANGED <<shellVars, scanVars>>
    BY <1>3 DEF ProcessShell
  <2>2. seglen' = seglen
    BY <1>1, <2>1 DEF Written
  <2> QED BY <2>1, <2>2, UnreadMarks
<1>4. CASE ReadEnds
  <2>1. CASE partly /\ create_holdover
    BY <2>1, UnreadMarks DEF create_holdover
  <2>2. CASE ~partly /\ UNCHANGED <<shellVars, avail, seglen, hold, hoWritten, skip, early, scanVars>>
    BY <2>2, UnreadMarks
  <2>3. CASE LoneSpace /\ SpaceTyped
    <3>1. /\ pl = "prompt" /\ pl' = pl /\ seglen = 1 /\ partly' = FALSE
          /\ sq' = disable_all_seqs(sq, "prompt") /\ Leave(1, avail)
      BY <2>3 DEF LoneSpace, SpaceTyped, passed
    <3>2. ~AtMarker
      BY <3>1 DEF MarkerAtRest
    <3>3. Free(Stream, 1)
      BY DEF Free
    <3>4. 1 \in Nat /\ 1 <= Len(Stream)
      BY <1>1, <3>1 DEF Written
    <3>5. InFirst' /\ (AtMarker' => off' = 0) /\ \A i \in 1..Len(todo') : Innocent(todo'[i])
      BY <1>1, <3>1, <3>2, <3>3, <3>4, LeaveMarks
    <3>6. Tracked'
      <4>1. sq' = [q \in Sequences_ |-> IF q \in Groups["prompt"] THEN [pos |-> 0, enabled |-> FALSE]
                                        ELSE sq[q]]
        BY <3>1 DEF disable_all_seqs
      <4>2. \A q \in Groups["prompt"] : sq'[q].pos = 0
        BY <4>1, GroupsAre DEF Levels
      <4> QED BY <3>1, <4>2 DEF Tracked
    <3> QED BY <3>1, <3>5, <3>6 DEF Marks, Eaten
  <2> QED BY <1>4, <2>1, <2>2, <2>3 DEF ReadEnds
<1> QED BY <1>2, <1>3, <1>4

\* At a prompt no marker is found.
LEMMA AtRestWhole == OnceInv /\ Marks /\ MarkerAtRest => MarkerWhole
<1> SUFFICES ASSUME OnceInv, Marks, MarkerAtRest, reading, seglen < Len(Stream),
                    Found(Enabled, pl, c) = "pwd"
             PROVE  early = 0
  BY DEF MarkerWhole
<1>1. /\ Position /\ Early /\ pl \in Levels /\ InFirst /\ seglen \in Nat
      /\ \A i \in 1..Len(todo) : Innocent(todo[i])
  BY DEF OnceInv, Written, Compared, Marks
<1>2. CASE pl # "prompt"
  BY <1>1, <1>2 DEF Early
<1>3. CASE pl = "prompt"
  <2>1. "pwd" \in Groups["prompt"] /\ Completes(Enabled, "pwd", c)
    BY <1>1, <1>3, FoundIs
  <2>2. PICK s, p, b, a : /\ s = Stream /\ p = Enabled["pwd"].pos /\ b = s[seglen + 1][1]
                          /\ a = Advances("pwd", p, b)
    OBVIOUS
  <2>3. Enabled["pwd"].enabled /\ a # Fails /\ p + a = Len(Pattern["pwd"])
    BY <2>1, <2>2 DEF Completes, Mismatches, c
  <2>4. (seglen = 0 /\ p = 0) \/ Partway("pwd", s, seglen, p)
    BY <1>3, <2>1, <2>2, <2>3, EnabledIs
  <2>5. p \in {0, 1, 2, 4}
    BY <2>4 DEF Partway
  <2>6. p = 4
    <3>1. /\ Len(Pattern["pwd"]) = 5
          /\ p = 0 => a = 1
          /\ p = 1 => a = 1
          /\ p = 2 => a \in {0, 2}
      BY <2>2, <2>3, <2>5, PwdAdvances
    <3> QED BY <2>3, <2>5, <3>1
  <2>7. seglen >= 3 /\ s[1][1] = ESC /\ s[2][1] = "P"
    BY <2>4, <2>6 DEF Partway
  <2>8. todo # <<>>
    <3> SUFFICES ASSUME todo = <<>> PROVE FALSE
      OBVIOUS
    <3>1. PICK f : f[0] = <<>> /\ f[Len(<<>>)] = PrintedBytes(<<>>)
      BY NoBytes, PrintedAre
    <3>2. Len(PrintedBytes(todo)) = 0 /\ off = 0
      BY <1>1, <3>1 DEF InFirst
    <3>3. Len(Stream) = 0
      BY <1>1, <3>2, StreamIs
    <3> QED BY <1>1, <3>3
  <2>9. PICK t, v : t = todo[1] /\ v = Bytes(t)
    OBVIOUS
  <2>10. PICK l \in Nat : l = Len(v) /\ off < l /\ off \in Nat /\ \A i \in 1..(l - off) : s[i] = v[off + i]
    BY <1>1, <2>2, <2>8, <2>9, StreamFirst DEF InFirst, Position
  <2>11. v[off + 1][1] = ESC /\ off + 1 \in 1..l
    <3>1. 1 \in 1..(l - off)
      BY <2>10
    <3> QED BY <2>7, <2>10, <3>1
  <2>12. IsMarker(t)
    <3> SUFFICES ASSUME ~IsMarker(t) PROVE FALSE
      OBVIOUS
    <3>1. Innocent(t)
      <4>1. PICK k \in Nat : k = Len(todo) /\ todo \in Seq({todo[i] : i \in 1..k})
        BY <1>1, AListHas DEF Position
      <4>2. 1 \in 1..k
        BY <2>8, <4>1
      <4> QED BY <1>1, <2>9, <4>1, <4>2
    <3>2. off + 1 < l /\ v[(off + 1) + 1][1] # "P"
      BY <2>9, <2>10, <2>11, <3>1 DEF Innocent
    <3>3. 2 \in 1..(l - off) /\ off + 2 = (off + 1) + 1
      BY <2>10, <3>2
    <3>4. s[2] = v[(off + 1) + 1]
      BY <2>10, <3>3
    <3> QED BY <2>7, <3>2, <3>4
  <2>13. AtMarker
    BY <2>8, <2>9, <2>12 DEF AtMarker
  <2> QED BY <1>3, <2>13 DEF MarkerAtRest
<1> QED BY <1>2, <1>3

MarksInv == OnceInv /\ Marks

LEMMA InitMarks == Init => MarksInv
<1> SUFFICES ASSUME Init PROVE MarksInv
  OBVIOUS
<1>1. OnceInv
  BY InitOnce
<1>2. /\ todo = <<>> /\ off = 0 /\ partly = FALSE /\ pl = "executing" /\ sq = init_seqs
  BY DEF Init
<1>3. Tracked
  <2>1. Groups["executing"] \subseteq Sequences_
    BY GroupsAre DEF Levels
  <2>2. \A q \in Groups["executing"] : sq[q].pos = 0
    BY <1>2, <2>1 DEF init_seqs
  <2> QED BY <1>2, <2>2 DEF Tracked
<1>4. InFirst /\ Eaten /\ \A i \in 1..Len(todo) : Innocent(todo[i])
  <2>1. \A i \in 1..Len(todo) : FALSE
    BY <1>2
  <2> QED BY <1>2, <2>1 DEF InFirst, Eaten, AtMarker
<1> QED BY <1>1, <1>2, <1>3, <1>4 DEF MarksInv, Marks

LEMMA NextMarks == MarksInv /\ MarkerAtRest /\ [Next]_vars => MarksInv'
<1> SUFFICES ASSUME OnceInv, Marks, MarkerAtRest, [Next]_vars
             PROVE  OnceInv' /\ Marks'
  BY DEF MarksInv
<1>1. OnceInv'
  BY AtRestWhole, NextOnce
<1>2. CASE UNCHANGED vars
  BY <1>1, <1>2, UnreadMarks DEF vars, bufVars
<1>3. CASE Next
  BY <1>1, <1>3, PrintKeepsMarks, OthersKeepMarks, CheckKeepsMarks DEF Next
<1> QED BY <1>1, <1>2, <1>3

\* However the reads cut what the shell prints, of a directory's marker no part
\* reaches the terminal: each of its bytes is in the segment until the last is,
\* and no match or mismatch of another sequence passes any of them (check_seqs,
\* pass_segment, eat_segment, create_holdover). The shell is taken to print one
\* only while it has no prompt, and none while a command line may be ending.
THEOREM PwdNeverPassed == Spec /\ []MarkerAtRest => []PwdNeverShown
<1>1. ASSUME MarksInv, MarkerAtRest
      PROVE  PwdNeverShown
  <2> SUFFICES ASSUME todo # <<>>, todo[1].kind = "pwd"
               PROVE  off = 0 /\ early = 0
    BY DEF PwdNeverShown
  <2>1. AtMarker
    BY DEF AtMarker, IsMarker
  <2>2. off = 0 /\ pl = "executing"
    BY <1>1, <2>1 DEF MarksInv, Marks, Eaten, MarkerAtRest
  <2>3. early = 0
    BY <1>1, <2>2 DEF MarksInv, OnceInv, Early
  <2> QED BY <2>2, <2>3
<1> QED BY <1>1, InitMarks, NextMarks, PTL DEF Spec
=============================================================================
