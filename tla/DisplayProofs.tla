---------------------------- MODULE DisplayProofs ----------------------------
(***************************************************************************)
(* What the displays make of a listing: lemmas about VgMini and Exhibit    *)
(* for any directories and files.                                          *)
(***************************************************************************)
EXTENDS VgMini, Exhibit, DataLemmas

-----------------------------------------------------------------------------
(* Lists whose elements have different keys.                               *)

KeyOnce(s, key) == \A i, j \in DOMAIN s : key[s[i]] = key[s[j]] => i = j

NamedOnce(s) == \A i, j \in DOMAIN s : s[i].name = s[j].name => i = j

NameOf(S) == [x \in S |-> x.name]

LEMMA NamedKey ==
    ASSUME NEW S, NEW s \in Seq(S)
    PROVE  NamedOnce(s) <=> KeyOnce(s, NameOf(S))
<1>1. \A i \in DOMAIN s : s[i] \in S
  OBVIOUS
<1>2. \A i \in DOMAIN s : NameOf(S)[s[i]] = s[i].name
  BY <1>1 DEF NameOf
<1> QED BY <1>2 DEF NamedOnce, KeyOnce

LEMMA InsertedIs ==
    ASSUME NEW S, NEW key, NEW s \in Seq(S), KeyOnce(s, key), NEW x \in S,
           \A y \in ToSet(s) : key[y] # key[x], NEW position \in Nat
    PROVE  LET t == InsertedAt(s, x, position)
           IN t \in Seq(S) /\ KeyOnce(t, key) /\ ToSet(t) = ToSet(s) \cup {x}
<1>1. PICK n \in Nat : n = Len(s) /\ DOMAIN s = 1..n
  OBVIOUS
<1>2. PICK i \in 1..(n + 1) : i = Min({position, n}) + 1
  <2>1. PICK I : I = {position, n}
    OBVIOUS
  <2>2. I \in SUBSET (0..(position + n)) /\ I # {} /\ position + n \in Nat
    BY <2>1
  <2>3. Min(I) \in I /\ \A k \in I : Min(I) <= k
    <3>1. \E m \in I : \A k \in I : m <= k
      BY <2>1
    <3>2. I \in SUBSET Nat
      BY <2>1
    <3> QED BY <3>1, <3>2 DEF Min
  <2>4. Min(I) \in 0..n
    BY <2>1, <2>3
  <2> QED BY <2>1, <2>4
<1>3. PICK t : t = InsertAt(s, i, x)
  OBVIOUS
<1>4. t = InsertedAt(s, x, position)
  BY <1>1, <1>2, <1>3 DEF InsertedAt
<1>5. /\ t \in Seq(S) /\ Len(t) = n + 1
      /\ \A k \in 1..(n + 1) : t[k] = IF k < i THEN s[k] ELSE IF k = i THEN x ELSE s[k - 1]
  <2>1. i \in 1..(Len(s) + 1)
    BY <1>1
  <2>2. PutIn(S, s, i, x, t)
    BY <1>3, <2>1, InsertAtIs
  <2> QED BY <1>1, <2>2 DEF PutIn
<1>12. i \in Nat /\ t[i] = x
  BY <1>5
<1>6. DOMAIN t = 1..(n + 1)
  BY <1>5
<1>7. PICK at : at = [k \in 1..(n + 1) |-> IF k < i THEN k ELSE k - 1]
  OBVIOUS
<1>8. \A k \in 1..(n + 1) : k # i => at[k] \in 1..n /\ t[k] = s[at[k]]
  <2>1. ASSUME NEW k \in 1..(n + 1), k # i
        PROVE  at[k] \in 1..n /\ t[k] = s[at[k]]
    <3>1. CASE k < i
      <4>1. k \in 1..n
        BY <1>12, <3>1
      <4>2. at[k] = k /\ t[k] = s[k]
        BY <1>5, <1>7, <3>1
      <4> QED BY <4>1, <4>2
    <3>2. CASE ~ (k < i)
      <4>1. at[k] = k - 1 /\ k - 1 \in 1..n
        BY <1>2, <1>7, <2>1, <3>2
      <4>2. t[k] = s[k - 1]
        BY <1>5, <2>1, <3>2
      <4> QED BY <4>1, <4>2
    <3> QED BY <3>1, <3>2
  <2> QED BY <2>1
<1>9. ASSUME NEW j \in 1..(n + 1), NEW k \in 1..(n + 1), key[t[j]] = key[t[k]]
      PROVE  j = k
  <2>1. CASE j = i
    <3>1. k # i => s[at[k]] \in ToSet(s) /\ t[k] = s[at[k]]
      BY <1>1, <1>8 DEF ToSet
    <3> QED BY <1>9, <1>12, <2>1, <3>1
  <2>2. CASE k = i
    <3>1. j # i => s[at[j]] \in ToSet(s) /\ t[j] = s[at[j]]
      BY <1>1, <1>8 DEF ToSet
    <3> QED BY <1>9, <1>12, <2>2, <3>1
  <2>3. CASE j # i /\ k # i
    <3>1. at[j] = at[k]
      BY <1>1, <1>8, <1>9, <2>3 DEF KeyOnce
    <3>2. (IF j < i THEN j ELSE j - 1) = (IF k < i THEN k ELSE k - 1)
      BY <1>7, <3>1
    <3>3. j \in Nat /\ k \in Nat /\ i \in Nat
      BY <1>12
    <3> QED BY <2>3, <3>2, <3>3
  <2> QED BY <2>1, <2>2, <2>3
<1>10. ToSet(t) = ToSet(s) \cup {x}
  <2>1. \A k \in 1..(n + 1) : t[k] \in ToSet(s) \cup {x}
    BY <1>1, <1>8, <1>12 DEF ToSet
  <2>2. i \in 1..(n + 1) /\ t[i] = x
    BY <1>12
  <2>3. \A k \in 1..n : \E j \in 1..(n + 1) : t[j] = s[k]
    <3>1. ASSUME NEW k \in 1..n
          PROVE  \E j \in 1..(n + 1) : t[j] = s[k]
      <4>1. CASE k < i
        <5>1. k \in 1..(n + 1) /\ t[k] = s[k]
          BY <1>5, <4>1
        <5> QED BY <5>1
      <4>2. CASE ~ (k < i)
        <5>1. k + 1 \in 1..(n + 1) /\ ~ (k + 1 < i) /\ k + 1 # i /\ (k + 1) - 1 = k
          BY <1>12, <4>2
        <5>2. t[k + 1] = s[k]
          BY <1>5, <5>1
        <5> QED BY <5>1, <5>2
      <4> QED BY <4>1, <4>2
    <3> QED BY <3>1
  <2>4. ToSet(t) = {t[k] : k \in 1..(n + 1)} /\ ToSet(s) = {s[k] : k \in 1..n}
    BY <1>1, <1>6 DEF ToSet
  <2>5. \A y \in ToSet(t) : y \in ToSet(s) \cup {x}
    BY <2>1, <2>4
  <2>6. \A y \in ToSet(s) : y \in ToSet(t)
    BY <2>3, <2>4
  <2>7. x \in ToSet(t)
    BY <2>2, <2>4
  <2> QED BY <2>5, <2>6, <2>7
<1>11. KeyOnce(t, key)
  BY <1>6, <1>9 DEF KeyOnce
<1> QED BY <1>4, <1>5, <1>10, <1>11

LEMMA RemovedIs ==
    ASSUME NEW S, NEW key, NEW s \in Seq(S), KeyOnce(s, key), NEW i \in DOMAIN s
    PROVE  LET t == RemoveAt(s, i)
           IN t \in Seq(S) /\ KeyOnce(t, key) /\ ToSet(t) = ToSet(s) \ {s[i]}
<1>1. PICK n \in Nat : n = Len(s) /\ DOMAIN s = 1..n /\ i \in 1..n
  OBVIOUS
<1>2. PICK t : t = RemoveAt(s, i)
  OBVIOUS
<1>3. /\ t \in Seq(S) /\ Len(t) = n - 1
      /\ \A k \in 1..(n - 1) : t[k] = IF k < i THEN s[k] ELSE s[k + 1]
  BY <1>1, <1>2, RemoveAtIs
<1>4. DOMAIN t = 1..(n - 1)
  BY <1>3
<1>5. PICK at : at = [k \in 1..(n - 1) |-> IF k < i THEN k ELSE k + 1]
  OBVIOUS
<1>6. \A k \in 1..(n - 1) : at[k] \in 1..n /\ at[k] # i /\ t[k] = s[at[k]]
  BY <1>1, <1>3, <1>5
<1>7. ASSUME NEW j \in 1..(n - 1), NEW k \in 1..(n - 1), key[t[j]] = key[t[k]]
      PROVE  j = k
  <2>1. at[j] = at[k]
    BY <1>1, <1>6, <1>7 DEF KeyOnce
  <2>2. (IF j < i THEN j ELSE j + 1) = (IF k < i THEN k ELSE k + 1)
    BY <1>5, <2>1
  <2>3. j \in Nat /\ k \in Nat /\ i \in Nat
    BY <1>1
  <2> QED BY <2>2, <2>3
<1>8. ASSUME NEW k \in 1..n, k # i
      PROVE  s[k] # s[i] /\ \E j \in 1..(n - 1) : t[j] = s[k]
  <2>1. s[k] # s[i]
    BY <1>1, <1>8 DEF KeyOnce
  <2>2. CASE k < i
    <3>1. k \in 1..(n - 1) /\ at[k] = k
      BY <1>1, <1>5, <2>2
    <3> QED BY <1>6, <2>1, <3>1
  <2>3. CASE ~ (k < i)
    <3>1. k - 1 \in 1..(n - 1) /\ ~ (k - 1 < i) /\ (k - 1) + 1 = k
      BY <1>1, <1>8, <2>3
    <3>2. t[k - 1] = s[k]
      BY <1>3, <3>1
    <3> QED BY <2>1, <3>1, <3>2
  <2> QED BY <2>2, <2>3
<1>9. ToSet(t) = ToSet(s) \ {s[i]}
  <2>1. ASSUME NEW k \in 1..(n - 1)
        PROVE  t[k] \in ToSet(s) /\ t[k] # s[i]
    <3>1. at[k] \in 1..n /\ at[k] # i /\ t[k] = s[at[k]]
      BY <1>6
    <3>2. s[at[k]] # s[i]
      BY <1>8, <3>1
    <3> QED BY <1>1, <3>1, <3>2 DEF ToSet
  <2>2. \A k \in 1..n : s[k] # s[i] => \E j \in 1..(n - 1) : t[j] = s[k]
    BY <1>8
  <2>3. ToSet(t) = {t[k] : k \in 1..(n - 1)} /\ ToSet(s) = {s[k] : k \in 1..n}
    BY <1>1, <1>4 DEF ToSet
  <2>4. \A y \in ToSet(t) : y \in ToSet(s) \ {s[i]}
    BY <2>1, <2>3
  <2>5. \A y \in ToSet(s) \ {s[i]} : y \in ToSet(t)
    BY <2>2, <2>3
  <2> QED BY <2>4, <2>5
<1>10. KeyOnce(t, key)
  BY <1>4, <1>7 DEF KeyOnce
<1> QED BY <1>2, <1>3, <1>9, <1>10

LEMMA KeptIs ==
    ASSUME NEW S, NEW key, NEW s \in Seq(S), KeyOnce(s, key), NEW kept \in SUBSET (DOMAIN s)
    PROVE  LET t == Picked(s, kept)
           IN t \in Seq(S) /\ KeyOnce(t, key) /\ ToSet(t) = {s[i] : i \in kept}
<1>1. DOMAIN s = 1..Len(s)
  OBVIOUS
<1>2. PICK t : t = Picked(s, kept)
  OBVIOUS
<1>3. kept \in SUBSET (1..Len(s))
  BY <1>1
<1>4. t \in Seq(S) /\ \E f \in [1..Len(t) -> kept] :
        /\ \A k \in 1..Len(t) : t[k] = s[f[k]]
        /\ \A i \in kept : \E k \in 1..Len(t) : f[k] = i
        /\ \A j, k \in 1..Len(t) : j < k => f[j] < f[k]
  BY <1>2, <1>3, PickedIs, SMTT(30)
<1>5. PICK f \in [1..Len(t) -> kept] :
        /\ \A k \in 1..Len(t) : t[k] = s[f[k]]
        /\ \A i \in kept : \E k \in 1..Len(t) : f[k] = i
        /\ \A j, k \in 1..Len(t) : j < k => f[j] < f[k]
  BY <1>4
<1>6. PICK n \in Nat : n = Len(t) /\ DOMAIN t = 1..n
  BY <1>4
<1>7. ASSUME NEW j \in 1..n, NEW k \in 1..n, key[t[j]] = key[t[k]]
      PROVE  j = k
  <2>1. f[j] \in kept /\ f[k] \in kept /\ t[j] = s[f[j]] /\ t[k] = s[f[k]]
    BY <1>5, <1>6
  <2>2. f[j] = f[k]
    BY <1>7, <2>1 DEF KeyOnce
  <2>3. f[j] \in Nat
    BY <1>1, <2>1
  <2>4. ~ (f[j] < f[k]) /\ ~ (f[k] < f[j])
    BY <2>2, <2>3
  <2>5. ~ (j < k) /\ ~ (k < j)
    BY <1>5, <1>6, <2>4
  <2> QED BY <2>5
<1>8. KeyOnce(t, key)
  BY <1>6, <1>7 DEF KeyOnce
<1>9. ToSet(t) = {s[i] : i \in kept}
  BY <1>5, <1>6, SMTT(30) DEF ToSet
<1> QED BY <1>2, <1>4, <1>8, <1>9

\* The element of a name, if there is one.
LEMMA NamedIs ==
    ASSUME NEW S, NEW s \in Seq(S), NEW name
    PROVE  \/ Named(s, name) = 0 /\ \A i \in DOMAIN s : s[i].name # name
           \/ Named(s, name) \in DOMAIN s /\ s[Named(s, name)].name = name
<1>1. PICK n \in Nat : n = Len(s) /\ DOMAIN s = 1..n
  OBVIOUS
<1>2. PICK I : I = {i \in 1..n : s[i].name = name}
  OBVIOUS
<1>3. Named(s, name) = IF I # {} THEN Min(I) ELSE 0
  BY <1>1, <1>2 DEF Named, SelectInSeq
<1>4. I \in SUBSET (1..n)
  BY <1>2
<1>5. I # {} => Min(I) \in I
  BY <1>1, <1>4, Extremes
<1> QED BY <1>1, <1>2, <1>3, <1>5

LEMMA RankedIs ==
    ASSUME NEW S, NEW s \in Seq(S), NEW rank, \E i \in DOMAIN s : s[i].rank = rank
    PROVE  Ranked(s, rank) \in DOMAIN s /\ s[Ranked(s, rank)].rank = rank
<1>1. PICK n \in Nat : n = Len(s) /\ DOMAIN s = 1..n
  OBVIOUS
<1>2. PICK I : I = {i \in 1..n : s[i].rank = rank}
  OBVIOUS
<1>3. I # {}
  BY <1>1, <1>2
<1>4. Ranked(s, rank) = Min(I)
  BY <1>1, <1>2, <1>3 DEF Ranked, SelectInSeq
<1>5. I \in SUBSET (1..n)
  BY <1>2
<1>6. Min(I) \in I
  BY <1>1, <1>3, <1>5, Extremes
<1> QED BY <1>1, <1>2, <1>4, <1>6

-----------------------------------------------------------------------------
(* A box of files.                                                         *)

Boxes(F) ==
    {b \in [fis : Seq(F), marked : SUBSET {f.name : f \in F}] : NamedOnce(b.fis)}

FileNames(files) == {f.name : f \in ToSet(files)}

\* All of these files have been put in ...
Holds(b, files) ==
    b.marked = FileNames(files) /\ ToSet(files) \subseteq ToSet(b.fis)

\* ... and there are no others.
HoldsJust(b, files) ==
    /\ b.marked = FileNames(files)
    /\ ToSet(b.fis) = ToSet(files) /\ Len(b.fis) = Len(files)

LEMMA BoxIs ==
    ASSUME NEW F, NEW fis \in Seq(F), NamedOnce(fis),
           NEW marked \in SUBSET {f.name : f \in F}
    PROVE  [fis |-> fis, marked |-> marked] \in Boxes(F)
  BY DEF Boxes

LEMMA NewBox ==
    ASSUME NEW F
    PROVE  file_box_new \in Boxes(F) /\ file_box_new.marked = {} /\ file_box_new.fis = <<>>
<1>1. <<>> \in Seq(F) /\ {} \in SUBSET {f.name : f \in F} /\ NamedOnce(<<>>)
  BY DEF NamedOnce
<1> QED BY <1>1, BoxIs DEF file_box_new

LEMMA BeginRead ==
    ASSUME NEW F, NEW b \in Boxes(F)
    PROVE  LET c == file_box_begin_read(b)
           IN c \in Boxes(F) /\ c.marked = {} /\ c.fis = b.fis
<1>1. b \in [fis : Seq(F), marked : SUBSET {f.name : f \in F}] /\ NamedOnce(b.fis)
  BY DEF Boxes
<1>4. b = [fis |-> b.fis, marked |-> b.marked]
  BY <1>1
<1>5. [b EXCEPT !.marked = {}] = [fis |-> b.fis, marked |-> {}]
  BY <1>4
<1>2. file_box_begin_read(b) = [fis |-> b.fis, marked |-> {}]
  BY <1>5 DEF file_box_begin_read
<1>3. {} \in SUBSET {f.name : f \in F}
  OBVIOUS
<1> QED BY <1>1, <1>2, <1>3, BoxIs

\* The file is there when it has been added, whether it was or not, and so
\* are the others; when it was there as it is now, nothing else changes.
Added(F, b, f, done) ==
    /\ done \in [fbox : Boxes(F), points : Nat]
    /\ done.fbox.marked = b.marked \cup {f.name}
    /\ f \in ToSet(done.fbox.fis)
    /\ \A x \in ToSet(b.fis) : x.name # f.name => x \in ToSet(done.fbox.fis)
    /\ f \in ToSet(b.fis) => done.fbox.fis = b.fis /\ done.points = 0

LEMMA AddIs ==
    ASSUME NEW F, NEW b \in Boxes(F), NEW f \in F, NEW rank \in Nat
    PROVE  Added(F, b, f, file_box_add(b, f, rank))
<1>1. PICK fis \in Seq(F) : fis = b.fis /\ NamedOnce(fis)
  BY DEF Boxes
<1>12. b.marked \in SUBSET {x.name : x \in F} /\ f.name \in {x.name : x \in F}
  BY DEF Boxes
<1>2. PICK marked : marked = b.marked \cup {f.name} /\ marked \in SUBSET {x.name : x \in F}
  BY <1>12, ZenonT(60)
<1>3. b = [fis |-> fis, marked |-> b.marked]
  <2>1. b \in [fis : Seq(F), marked : SUBSET {x.name : x \in F}]
    BY DEF Boxes
  <2> QED BY <1>1, <2>1
<1>4. PICK key : key = NameOf(F) /\ \A x \in F : key[x] = x.name
  <2>1. \A x \in F : NameOf(F)[x] = x.name
    BY DEF NameOf
  <2> QED BY <2>1
<1>5. KeyOnce(fis, key)
  BY <1>1, <1>4, NamedKey
<1>6. PICK i : i = Named(fis, f.name)
  OBVIOUS
<1>7. \/ i = 0 /\ \A j \in DOMAIN fis : fis[j].name # f.name
      \/ i \in DOMAIN fis /\ fis[i].name = f.name
  BY <1>6, NamedIs
<1>8. ToSet(fis) \subseteq F /\ \A x \in ToSet(fis) : \E j \in DOMAIN fis : fis[j] = x
  <2>1. \A j \in DOMAIN fis : fis[j] \in F
    BY <1>1
  <2> QED BY <2>1 DEF ToSet
<1> DEFINE Done(new, points) == [fbox |-> [fis |-> new, marked |-> marked], points |-> points]
<1>9. ASSUME NEW new \in Seq(F), KeyOnce(new, key), NEW points \in Nat,
             ToSet(new) = (ToSet(fis) \ (IF i = 0 THEN {} ELSE {fis[i]})) \cup {f},
             f \in ToSet(fis) => new = fis /\ points = 0,
             file_box_add(b, f, rank) = Done(new, points)
      PROVE  Added(F, b, f, file_box_add(b, f, rank))
  <2>1. NamedOnce(new)
    BY <1>4, <1>9, NamedKey
  <2>2. [fis |-> new, marked |-> marked] \in Boxes(F)
    BY <1>2, <2>1, BoxIs
  <2>3. PICK done : done = Done(new, points)
    OBVIOUS
  <2>4. done \in [fbox : Boxes(F), points : Nat]
    <3> HIDE DEF Boxes
    <3> QED BY <2>2, <2>3
  <2>5. done.fbox.marked = b.marked \cup {f.name} /\ done.fbox.fis = new /\ done.points = points
    BY <1>2, <2>3
  <2>6. f \in ToSet(new)
    BY <1>9
  <2>7. \A x \in ToSet(fis) : x.name # f.name => x \in ToSet(new)
    BY <1>7, <1>9
  <2> HIDE DEF Done
  <2> QED BY <1>1, <1>9, <2>3, <2>4, <2>5, <2>6, <2>7 DEF Added
<1>10. CASE i = 0
  <2>1. \A x \in ToSet(fis) : key[x] # key[f]
    BY <1>4, <1>7, <1>8, <1>10
  <2>2. PICK new : new = InsertedAt(fis, f, rank)
    OBVIOUS
  <2>3. new \in Seq(F) /\ KeyOnce(new, key) /\ ToSet(new) = ToSet(fis) \cup {f}
    BY <1>5, <2>1, <2>2, InsertedIs
  <2>4. f \notin ToSet(fis)
    BY <2>1
  <2>5. file_box_add(b, f, rank) = Done(new, 2)
    <3>1. [b EXCEPT !.fis = InsertedAt(@, f, rank)] = [fis |-> new, marked |-> b.marked]
      BY <1>3, <2>2
    <3>2. file_box_add(b, f, rank) =
             [[fbox |-> [fis |-> new, marked |-> b.marked], points |-> 2] EXCEPT
                 !.fbox.marked = @ \cup {f.name}]
      BY <1>1, <1>6, <1>10, <3>1 DEF file_box_add
    <3> QED BY <1>2, <3>2
  <2> HIDE DEF Done
  <2>6. 2 \in Nat /\ ToSet(new) = (ToSet(fis) \ (IF i = 0 THEN {} ELSE {fis[i]})) \cup {f}
    BY <1>10, <2>3
  <2> QED BY <1>9, <2>3, <2>4, <2>5, <2>6
<1>11. CASE i # 0
  <2>1. i \in DOMAIN fis /\ fis[i].name = f.name /\ fis[i] \in F /\ fis[i] \in ToSet(fis)
    BY <1>1, <1>7, <1>11 DEF ToSet
  <2>2. \A x \in ToSet(fis) : x.name = f.name => x = fis[i]
    BY <1>1, <1>8, <2>1 DEF NamedOnce
  <2>3. CASE fis[i].type # f.type
    <3>1. PICK left : left = RemoveAt(fis, i)
      OBVIOUS
    <3>2. left \in Seq(F) /\ KeyOnce(left, key) /\ ToSet(left) = ToSet(fis) \ {fis[i]}
      BY <1>5, <2>1, <3>1, RemovedIs
    <3>3. \A x \in ToSet(left) : key[x] # key[f]
      BY <1>4, <1>8, <2>2, <3>2
    <3>4. PICK new : new = InsertedAt(left, f, rank)
      OBVIOUS
    <3>5. new \in Seq(F) /\ KeyOnce(new, key) /\ ToSet(new) = ToSet(left) \cup {f}
      BY <3>2, <3>3, <3>4, InsertedIs, SMTT(30)
    <3>6. PICK points \in Nat : points = 2 + (IF fis[i].sel # f.sel THEN 1 ELSE 0)
      OBVIOUS
    <3>7. file_box_add(b, f, rank) = Done(new, points)
      <4>1. [b EXCEPT !.fis = InsertedAt(RemoveAt(@, i), f, rank)] =
               [fis |-> new, marked |-> b.marked]
        BY <1>3, <3>1, <3>4
      <4>2. fitem_update_type_selection_and_order(b, i, f, rank) =
               [fbox |-> [fis |-> new, marked |-> b.marked], points |-> points]
        BY <1>1, <2>3, <3>6, <4>1 DEF fitem_update_type_selection_and_order
      <4>3. file_box_add(b, f, rank) =
               [[fbox |-> [fis |-> new, marked |-> b.marked], points |-> points] EXCEPT
                   !.fbox.marked = @ \cup {f.name}]
        BY <1>1, <1>6, <1>11, <4>2 DEF file_box_add
      <4> QED BY <1>2, <4>3
    <3>8. f \notin ToSet(fis)
      <4>1. f # fis[i]
        BY <2>3
      <4> QED BY <2>2, <4>1
    <3> HIDE DEF Done
    <3>9. ToSet(new) = (ToSet(fis) \ (IF i = 0 THEN {} ELSE {fis[i]})) \cup {f}
      BY <1>11, <3>2, <3>5
    <3> QED BY <1>9, <3>5, <3>7, <3>8, <3>9
  <2>4. CASE fis[i].type = f.type
    <3>1. PICK new : new = [fis EXCEPT ![i] = f]
      OBVIOUS
    <3>2. PICK n \in Nat : n = Len(fis) /\ DOMAIN fis = 1..n
      OBVIOUS
    <3>3. new \in Seq(F) /\ DOMAIN new = 1..n /\ \A j \in 1..n : new[j] = IF j = i THEN f ELSE fis[j]
      BY <2>1, <3>1, <3>2
    <3>4. NamedOnce(new)
      BY <1>1, <2>1, <3>2, <3>3 DEF NamedOnce
    <3>5. KeyOnce(new, key)
      BY <1>4, <3>3, <3>4, NamedKey
    <3>6. ToSet(new) = (ToSet(fis) \ {fis[i]}) \cup {f}
      <4>1. \A j \in 1..n : j # i => fis[j] # fis[i]
        BY <1>1, <2>1, <3>2 DEF NamedOnce
      <4> QED BY <2>1, <3>2, <3>3, <4>1 DEF ToSet
    <3>7. f \in ToSet(fis) => new = fis
      <4>1. f \in ToSet(fis) => fis[i] = f
        BY <2>2
      <4> QED BY <2>1, <3>1, <4>1
    <3>8. PICK points \in Nat : points = 0 + (IF fis[i].sel # f.sel THEN 1 ELSE 0)
      OBVIOUS
    <3>9. f \in ToSet(fis) => points = 0
      BY <2>2, <3>8
    <3>10. file_box_add(b, f, rank) = Done(new, points)
      <4>1. [b EXCEPT !.fis[i] = f] = [fis |-> new, marked |-> b.marked]
        BY <1>3, <3>1
      <4>2. fitem_update_type_selection_and_order(b, i, f, rank) =
               [fbox |-> [fis |-> new, marked |-> b.marked], points |-> points]
        BY <1>1, <2>4, <3>8, <4>1 DEF fitem_update_type_selection_and_order
      <4>3. file_box_add(b, f, rank) =
               [[fbox |-> [fis |-> new, marked |-> b.marked], points |-> points] EXCEPT
                   !.fbox.marked = @ \cup {f.name}]
        BY <1>1, <1>6, <1>11, <4>2 DEF file_box_add
      <4> QED BY <1>2, <4>3
    <3> HIDE DEF Done
    <3>11. ToSet(new) = (ToSet(fis) \ (IF i = 0 THEN {} ELSE {fis[i]})) \cup {f}
      BY <1>11, <3>6
    <3> QED BY <1>9, <3>3, <3>5, <3>7, <3>9, <3>10, <3>11
  <2> QED BY <2>3, <2>4
<1> QED BY <1>10, <1>11

\* The files in a box are in the order of these files, which are of their types.
Leads(fis, files, h) ==
    /\ \A i \in DOMAIN fis : /\ h[i] \in DOMAIN files /\ files[h[i]].name = fis[i].name
                             /\ files[h[i]].type = fis[i].type
    /\ \A i, j \in DOMAIN fis : i < j => h[i] < h[j]

Follows(fis, files) == \E h : Leads(fis, files, h)

\* Up to the k-th file they have been put in, and the others come after them.
Along(fis0, files, k, fis) ==
    \A h : Leads(fis0, files, h) =>
        \E c \in 1..(Len(fis0) + 1) :
            /\ \A i \in DOMAIN fis0 : i < c <=> h[i] <= k
            /\ Len(fis) = k + Len(fis0) - c + 1
            /\ \A j \in 1..k : fis[j] = files[j]
            /\ \A i \in DOMAIN fis0 : i >= c => fis[k + i - c + 1] = fis0[i]

\* Where a file is put that is there in its type, and one that is not there.
LEMMA AddPlace ==
    ASSUME NEW F, NEW b \in Boxes(F), NEW f \in F, NEW rank \in Nat
    PROVE  LET fis == file_box_add(b, f, rank).fbox.fis
           IN /\ \A p \in DOMAIN b.fis : b.fis[p].name = f.name /\ b.fis[p].type = f.type =>
                    fis = [b.fis EXCEPT ![p] = f]
              /\ (\A p \in DOMAIN b.fis : b.fis[p].name # f.name) => fis = InsertedAt(b.fis, f, rank)
<1>1. PICK fis \in Seq(F) : fis = b.fis /\ NamedOnce(fis)
  BY DEF Boxes
<1>2. PICK marked : marked = b.marked
  OBVIOUS
<1>3. b = [fis |-> fis, marked |-> marked]
  <2>1. b \in [fis : Seq(F), marked : SUBSET {x.name : x \in F}]
    BY DEF Boxes
  <2> QED BY <1>1, <1>2, <2>1
<1>4. PICK i : i = Named(fis, f.name)
  OBVIOUS
<1>5. \/ i = 0 /\ \A j \in DOMAIN fis : fis[j].name # f.name
      \/ i \in DOMAIN fis /\ fis[i].name = f.name
  BY <1>4, NamedIs
<1>6. 0 \notin DOMAIN fis
  OBVIOUS
<1>7. PICK all : all = marked \cup {f.name}
  OBVIOUS
<1>8. ASSUME NEW p \in DOMAIN fis, fis[p].name = f.name, fis[p].type = f.type
      PROVE  file_box_add(b, f, rank).fbox.fis = [fis EXCEPT ![p] = f]
  <2>1. i = p /\ i # 0
    BY <1>1, <1>5, <1>6, <1>8 DEF NamedOnce
  <2>2. PICK new : new = [fis EXCEPT ![p] = f]
    OBVIOUS
  <2>3. PICK points : points = 0 + (IF fis[i].sel # f.sel THEN 1 ELSE 0)
    OBVIOUS
  <2>4. [b EXCEPT !.fis[i] = f] = [fis |-> new, marked |-> marked]
    BY <1>3, <2>1, <2>2, SMTT(30)
  <2>5. fitem_update_type_selection_and_order(b, i, f, rank) =
           [fbox |-> [fis |-> new, marked |-> marked], points |-> points]
    BY <1>1, <1>8, <2>1, <2>3, <2>4 DEF fitem_update_type_selection_and_order
  <2>6. file_box_add(b, f, rank) =
           [[fbox |-> [fis |-> new, marked |-> marked], points |-> points] EXCEPT
               !.fbox.marked = @ \cup {f.name}]
    BY <1>1, <1>4, <2>1, <2>5 DEF file_box_add
  <2>7. PICK done : done = file_box_add(b, f, rank)
    OBVIOUS
  <2>8. done = [fbox |-> [fis |-> new, marked |-> all], points |-> points]
    BY <1>7, <2>6, <2>7
  <2>9. done.fbox.fis = new
    BY <2>8
  <2> QED BY <2>2, <2>7, <2>9
<1>9. ASSUME \A p \in DOMAIN fis : fis[p].name # f.name
      PROVE  file_box_add(b, f, rank).fbox.fis = InsertedAt(fis, f, rank)
  <2>1. i = 0
    BY <1>5, <1>9
  <2>2. PICK new : new = InsertedAt(fis, f, rank)
    OBVIOUS
  <2>3. [b EXCEPT !.fis = InsertedAt(@, f, rank)] = [fis |-> new, marked |-> marked]
    BY <1>3, <2>2
  <2>4. file_box_add(b, f, rank) =
           [[fbox |-> [fis |-> new, marked |-> marked], points |-> 2] EXCEPT
               !.fbox.marked = @ \cup {f.name}]
    BY <1>1, <1>4, <2>1, <2>3 DEF file_box_add
  <2>5. PICK done : done = file_box_add(b, f, rank)
    OBVIOUS
  <2>6. done = [fbox |-> [fis |-> new, marked |-> all], points |-> 2]
    BY <1>7, <2>4, <2>5
  <2>7. done.fbox.fis = new
    BY <2>6
  <2> QED BY <2>2, <2>5, <2>7
<1> QED BY <1>1, <1>8, <1>9

\* One that is put in where the list has a place.
LEMMA InsertedWithin ==
    ASSUME NEW S, NEW s \in Seq(S), NEW x \in S, NEW position \in Nat, position <= Len(s)
    PROVE  PutIn(S, s, position + 1, x, InsertedAt(s, x, position))
<1>1. PICK n \in Nat : n = Len(s) /\ DOMAIN s = 1..n
  OBVIOUS
<1>2. PICK i \in 1..(n + 1) : i = position + 1
  BY <1>1
<1>3. Min({position, n}) = position
  <2>1. PICK I : I = {position, n}
    OBVIOUS
  <2>2. I \in SUBSET (0..n) /\ I # {}
    BY <1>1, <2>1
  <2>3. \E m \in I : \A k \in I : m <= k
    BY <1>1, <2>1
  <2>4. Min(I) \in I /\ \A k \in I : Min(I) <= k
    BY <2>3 DEF Min
  <2> QED BY <1>1, <2>1, <2>2, <2>4
<1>4. PICK t : t = InsertAt(s, i, x)
  OBVIOUS
<1>5. t = InsertedAt(s, x, position)
  BY <1>1, <1>2, <1>3, <1>4 DEF InsertedAt
<1>6. PutIn(S, s, i, x, t)
  <2>1. i \in 1..(Len(s) + 1)
    BY <1>1
  <2> QED BY <1>4, <2>1, InsertAtIs
<1> QED BY <1>2, <1>5, <1>6

LEMMA AlongStarts ==
    ASSUME NEW F, NEW fis \in Seq(F), NEW files \in Seq(F)
    PROVE  Along(fis, files, 0, fis)
<1> SUFFICES ASSUME NEW h, Leads(fis, files, h)
             PROVE  \E c \in 1..(Len(fis) + 1) :
                       /\ \A i \in DOMAIN fis : i < c <=> h[i] <= 0
                       /\ Len(fis) = 0 + Len(fis) - c + 1
                       /\ \A j \in 1..0 : fis[j] = files[j]
                       /\ \A i \in DOMAIN fis : i >= c => fis[0 + i - c + 1] = fis[i]
  BY DEF Along
<1>1. PICK n \in Nat : n = Len(fis) /\ DOMAIN fis = 1..n
  OBVIOUS
<1>2. ASSUME NEW i \in 1..n
      PROVE  ~ (i < 1) /\ ~ (h[i] <= 0) /\ 0 + i - 1 + 1 = i
  <2>1. h[i] \in DOMAIN files
    BY <1>1 DEF Leads
  <2>2. h[i] \in 1..Len(files)
    BY <2>1
  <2> QED BY <2>2
<1>3. 1 \in 1..(n + 1) /\ n = 0 + n - 1 + 1 /\ 1..0 = {}
  OBVIOUS
<1> QED BY <1>1, <1>2, <1>3

LEMMA AlongNext ==
    ASSUME NEW F, NEW fis0 \in Seq(F), NEW files \in Seq(F), NamedOnce(files),
           NEW k \in 1..Len(files), NEW b \in Boxes(F), Along(fis0, files, k - 1, b.fis)
    PROVE  Along(fis0, files, k, file_box_add(b, files[k], k - 1).fbox.fis)
<1>1. PICK fis \in Seq(F) : fis = b.fis /\ NamedOnce(fis)
  BY DEF Boxes
<1>2. PICK m \in Nat : m = Len(fis0) /\ DOMAIN fis0 = 1..m
  OBVIOUS
<1>3. PICK n \in Nat : n = Len(files) /\ DOMAIN files = 1..n /\ k \in 1..n
  OBVIOUS
<1>4. PICK f \in F : f = files[k]
  OBVIOUS
<1>5. PICK new : new = file_box_add(b, files[k], k - 1).fbox.fis
  OBVIOUS
<1>6. PICK place \in Nat : place = k - 1
  OBVIOUS
<1>7. /\ \A p \in DOMAIN fis : fis[p].name = f.name /\ fis[p].type = f.type =>
            new = [fis EXCEPT ![p] = f]
      /\ (\A p \in DOMAIN fis : fis[p].name # f.name) => new = InsertedAt(fis, f, place)
  BY <1>1, <1>4, <1>5, <1>6, AddPlace
<1> SUFFICES ASSUME NEW h, Leads(fis0, files, h)
             PROVE  \E c \in 1..(Len(fis0) + 1) :
                       /\ \A i \in DOMAIN fis0 : i < c <=> h[i] <= k
                       /\ Len(new) = k + Len(fis0) - c + 1
                       /\ \A j \in 1..k : new[j] = files[j]
                       /\ \A i \in DOMAIN fis0 : i >= c => new[k + i - c + 1] = fis0[i]
  BY <1>5 DEF Along
<1>8. PICK c \in 1..(m + 1) :
         /\ \A i \in 1..m : i < c <=> h[i] <= k - 1
         /\ Len(fis) = (k - 1) + m - c + 1
         /\ \A j \in 1..(k - 1) : fis[j] = files[j]
         /\ \A i \in 1..m : i >= c => fis[(k - 1) + i - c + 1] = fis0[i]
  <2>1. \E c \in 1..(Len(fis0) + 1) :
           /\ \A i \in DOMAIN fis0 : i < c <=> h[i] <= k - 1
           /\ Len(fis) = (k - 1) + Len(fis0) - c + 1
           /\ \A j \in 1..(k - 1) : fis[j] = files[j]
           /\ \A i \in DOMAIN fis0 : i >= c => fis[(k - 1) + i - c + 1] = fis0[i]
    BY <1>1 DEF Along
  <2> QED BY <1>2, <2>1
<1>9. \A i \in 1..m : /\ h[i] \in 1..n /\ files[h[i]].name = fis0[i].name
                      /\ files[h[i]].type = fis0[i].type
  BY <1>2, <1>3 DEF Leads
<1>10. \A i, j \in 1..m : i < j => h[i] < h[j]
  BY <1>2 DEF Leads
<1>11. \A i, j \in 1..n : files[i].name = files[j].name => i = j
  BY <1>3 DEF NamedOnce
<1>12. PICK q \in Nat : q = Len(fis) /\ DOMAIN fis = 1..q /\ q = (k - 1) + m - c + 1
  BY <1>8
<1>13. CASE c \in 1..m /\ h[c] = k
  <2>1. k \in 1..q /\ (k - 1) + c - c + 1 = k
    BY <1>12, <1>13
  <2>2. fis[k] = fis0[c]
    BY <1>8, <1>13, <2>1
  <2>3. fis[k].name = f.name /\ fis[k].type = f.type
    BY <1>4, <1>9, <1>13, <2>2
  <2>4. new = [fis EXCEPT ![k] = f]
    BY <1>7, <1>12, <2>1, <2>3
  <2>5. Len(new) = q /\ \A p \in 1..q : new[p] = IF p = k THEN f ELSE fis[p]
    BY <1>12, <2>1, <2>4
  <2>6. PICK d \in 1..(m + 1) : d = c + 1
    BY <1>13
  <2>7. Len(new) = k + m - d + 1
    BY <1>12, <2>5, <2>6
  <2>8. ASSUME NEW i \in 1..m
        PROVE  i < d <=> h[i] <= k
    <3>1. h[i] \in 1..n
      BY <1>9
    <3>2. CASE i < c
      BY <1>8, <2>6, <3>1, <3>2
    <3>3. CASE i = c
      BY <1>13, <2>6, <3>3
    <3>4. CASE c < i
      <4>1. h[c] < h[i]
        BY <1>10, <1>13, <3>4
      <4> QED BY <1>13, <2>6, <3>1, <3>4, <4>1
    <3> QED BY <3>2, <3>3, <3>4
  <2>9. ASSUME NEW j \in 1..k
        PROVE  new[j] = files[j]
    <3>1. j \in 1..q
      BY <2>1
    <3>2. CASE j = k
      BY <1>4, <2>5, <3>1, <3>2
    <3>3. CASE j # k
      <4>1. j \in 1..(k - 1)
        BY <3>3
      <4> QED BY <1>8, <2>5, <3>1, <3>3, <4>1
    <3> QED BY <3>2, <3>3
  <2>10. ASSUME NEW i \in 1..m, i >= d
         PROVE  new[k + i - d + 1] = fis0[i]
    <3>1. PICK p \in 1..q : p = k + i - d + 1 /\ p = (k - 1) + i - c + 1 /\ p # k
      BY <1>12, <2>6, <2>10
    <3>2. i >= c
      BY <2>6, <2>10
    <3>3. fis[p] = fis0[i]
      BY <1>8, <3>1, <3>2
    <3> QED BY <2>5, <3>1, <3>3
  <2> QED BY <1>2, <2>7, <2>8, <2>9, <2>10
<1>14. CASE ~ (c \in 1..m /\ h[c] = k)
  <2>1. ASSUME NEW i \in 1..m
        PROVE  h[i] # k
    <3>1. h[i] \in 1..n
      BY <1>9
    <3>2. CASE i < c
      BY <1>8, <3>1, <3>2
    <3>3. CASE i = c
      BY <1>14, <3>3
    <3>4. CASE c < i
      <4>1. c \in 1..m /\ h[c] < h[i] /\ h[c] \in 1..n /\ ~ (h[c] <= k - 1)
        BY <1>8, <1>9, <1>10, <3>4
      <4> QED BY <1>14, <3>1, <4>1
    <3> QED BY <3>2, <3>3, <3>4
  <2>2. ASSUME NEW p \in 1..q
        PROVE  fis[p].name # f.name
    <3>1. CASE p <= k - 1
      <4>1. p \in 1..(k - 1) /\ p \in 1..n /\ p # k
        BY <1>3, <3>1
      <4> QED BY <1>3, <1>4, <1>8, <1>11, <4>1
    <3>2. CASE ~ (p <= k - 1)
      <4>1. PICK i \in 1..m : i = p - k + c /\ i >= c /\ (k - 1) + i - c + 1 = p
        BY <1>12, <3>2
      <4>2. fis[p] = fis0[i]
        BY <1>8, <4>1
      <4>3. fis[p].name = files[h[i]].name /\ h[i] \in 1..n
        BY <1>9, <4>2
      <4> QED BY <1>3, <1>4, <1>11, <2>1, <4>3
    <3> QED BY <3>1, <3>2
  <2>3. place <= q
    BY <1>6, <1>12
  <2>4. new = InsertedAt(fis, f, place)
    BY <1>7, <1>12, <2>2
  <2>5. /\ Len(new) = q + 1
        /\ \A p \in 1..(q + 1) :
              new[p] = IF p <= place THEN fis[p] ELSE IF p = place + 1 THEN f ELSE fis[p - 1]
    <3>1. PutIn(F, fis, place + 1, f, new)
      BY <1>12, <2>3, <2>4, InsertedWithin
    <3>2. \A p \in 1..(q + 1) : p < place + 1 <=> p <= place
      OBVIOUS
    <3> QED BY <1>12, <3>1, <3>2 DEF PutIn
  <2>6. Len(new) = k + m - c + 1
    BY <1>12, <2>5
  <2>7. ASSUME NEW i \in 1..m
        PROVE  i < c <=> h[i] <= k
    <3>1. h[i] \in 1..n
      BY <1>9
    <3> QED BY <1>8, <2>1, <3>1
  <2>8. ASSUME NEW j \in 1..k
        PROVE  new[j] = files[j]
    <3>1. j \in 1..(q + 1)
      BY <1>6, <2>3
    <3>2. CASE j = k
      <4>1. ~ (j <= place) /\ j = place + 1
        BY <1>6, <3>2
      <4> QED BY <1>4, <2>5, <3>1, <3>2, <4>1
    <3>3. CASE j # k
      <4>1. j \in 1..(k - 1) /\ j <= place
        BY <1>6, <3>3
      <4> QED BY <1>8, <2>5, <3>1, <4>1
    <3> QED BY <3>2, <3>3
  <2>9. ASSUME NEW i \in 1..m, i >= c
        PROVE  new[k + i - c + 1] = fis0[i]
    <3>1. PICK p \in 1..(q + 1) : p = k + i - c + 1
      BY <1>12, <2>9
    <3>4. PICK r \in Nat : r = i - c
      BY <2>9
    <3>5. p = k + r + 1 /\ (k - 1) + i - c + 1 = k + r
      BY <3>1, <3>4
    <3>2. ~ (p <= place) /\ p # place + 1 /\ p - 1 = (k - 1) + i - c + 1
      BY <1>6, <3>5
    <3>3. fis[p - 1] = fis0[i]
      BY <1>8, <2>9, <3>2
    <3> QED BY <2>5, <3>1, <3>2, <3>3
  <2> QED BY <1>2, <2>6, <2>7, <2>8, <2>9
<1> QED BY <1>13, <1>14

LEMMA AlongEnds ==
    ASSUME NEW F, NEW fis0 \in Seq(F), NEW files \in Seq(F), NEW fis \in Seq(F),
           Follows(fis0, files), Along(fis0, files, Len(files), fis)
    PROVE  fis = files
<1>1. PICK h : Leads(fis0, files, h)
  BY DEF Follows
<1>2. PICK m \in Nat : m = Len(fis0) /\ DOMAIN fis0 = 1..m
  OBVIOUS
<1>3. PICK n \in Nat : n = Len(files) /\ DOMAIN files = 1..n
  OBVIOUS
<1>4. PICK c \in 1..(m + 1) :
         /\ \A i \in 1..m : i < c <=> h[i] <= n
         /\ Len(fis) = n + m - c + 1
         /\ \A j \in 1..n : fis[j] = files[j]
  BY <1>1, <1>2, <1>3 DEF Along
<1>5. c = m + 1
  <2>1. c \in 1..m => h[c] \in 1..n
    BY <1>1, <1>2, <1>3 DEF Leads
  <2> QED BY <1>4, <2>1
<1>6. Len(fis) = n
  BY <1>4, <1>5
<1> QED BY <1>3, <1>4, <1>6

\* A box that is filled again holds the files of the listing; when it has
\* them all as they are now, it does not change, and when it has some of them in
\* their order and types, it is in the listing's order.
LEMMA FilledIs ==
    ASSUME NEW F, NEW b \in Boxes(F), b.marked = {}, NEW files \in Seq(F), NamedOnce(files)
    PROVE  LET fill == Filled(b, files)
           IN /\ fill \in [fbox : Boxes(F), points : Nat]
              /\ Holds(fill.fbox, files)
              /\ files = <<>> => fill.points = 0
              /\ ToSet(files) \subseteq ToSet(b.fis) => fill.fbox.fis = b.fis /\ fill.points = 0
              /\ Follows(b.fis, files) => fill.fbox.fis = files
<1>1. PICK n \in Nat : n = Len(files) /\ DOMAIN files = 1..n /\ \A k \in 1..n : files[k] \in F
  OBVIOUS
<1> DEFINE Next(v, k) == [file_box_add(v.fbox, files[k], k - 1) EXCEPT !.points = @ + v.points]
           start == [fbox |-> b, points |-> 0]
           All == [fbox : Boxes(F), points : Nat]
           Done(v, k) ==
               /\ v.fbox.marked = {files[j].name : j \in 1..k}
               /\ \A j \in 1..k : files[j] \in ToSet(v.fbox.fis)
               /\ k = 0 => v.points = 0
               /\ ToSet(files) \subseteq ToSet(b.fis) => v.fbox.fis = b.fis /\ v.points = 0
               /\ Along(b.fis, files, k, v.fbox.fis)
           Is(f) == f = [k \in 0..n |-> IF k = 0 THEN start ELSE Next(f[k - 1], k)]
           after == CHOOSE f : Is(f)
<1>2. Filled(b, files) = after[n]
  BY <1>1 DEF Filled
<1>3. start \in All /\ Done(start, 0)
  <2>1. start \in All
    <3> HIDE DEF Boxes
    <3> QED OBVIOUS
  <2>2. 1..0 = {}
    OBVIOUS
  <2>3. Along(b.fis, files, 0, b.fis)
    <3>1. b.fis \in Seq(F)
      BY DEF Boxes
    <3> QED BY <3>1, AlongStarts
  <2> QED BY <2>1, <2>2, <2>3
<1>4. ASSUME NEW k \in 1..n, NEW v \in All, Done(v, k - 1)
      PROVE  Next(v, k) \in All /\ Done(Next(v, k), k)
  <2>1. PICK f \in F : f = files[k]
    BY <1>1
  <2>2. PICK c \in Boxes(F) : c = v.fbox
    <3> HIDE DEF Boxes
    <3> QED OBVIOUS
  <2>3. PICK m \in Nat : m = k - 1
    OBVIOUS
  <2>4. PICK add : add = file_box_add(c, f, m)
    OBVIOUS
  <2>15. Added(F, c, f, add)
    BY <2>4, AddIs
  <2>5. /\ add \in [fbox : Boxes(F), points : Nat]
        /\ add.fbox.marked = c.marked \cup {f.name}
        /\ f \in ToSet(add.fbox.fis)
        /\ \A x \in ToSet(c.fis) : x.name # f.name => x \in ToSet(add.fbox.fis)
        /\ f \in ToSet(c.fis) => add.fbox.fis = c.fis /\ add.points = 0
    BY <2>15 DEF Added
  <2>6. PICK p \in Nat : p = v.points
    OBVIOUS
  <2>7. PICK w : w = Next(v, k)
    OBVIOUS
  <2>8. w = [add EXCEPT !.points = add.points + p]
    BY <2>1, <2>2, <2>3, <2>4, <2>6, <2>7
  <2>9. w \in All /\ w.fbox = add.fbox /\ w.points = add.points + p
    <3> HIDE DEF Boxes, Next
    <3>1. add.points + p \in Nat
      BY <2>5
    <3> QED BY <2>5, <2>8, <3>1
  <2>10. \A j \in 1..k : j = k \/ j \in 1..(k - 1)
    OBVIOUS
  <2>11. w.fbox.marked = {files[j].name : j \in 1..k}
    <3>1. c.marked = {files[j].name : j \in 1..(k - 1)}
      BY <1>4, <2>2
    <3>2. 1..k = 1..(k - 1) \cup {k}
      OBVIOUS
    <3> QED BY <2>1, <2>5, <2>9, <3>1, <3>2
  <2>12. \A j \in 1..k : files[j] \in ToSet(w.fbox.fis)
    <3>1. ASSUME NEW j \in 1..(k - 1)
          PROVE  files[j] \in ToSet(w.fbox.fis)
      <4>1. j \in 1..n /\ k \in 1..n /\ j # k
        OBVIOUS
      <4>2. files[j].name # f.name
        BY <1>1, <2>1, <4>1 DEF NamedOnce
      <4>3. files[j] \in ToSet(c.fis)
        BY <1>4, <2>2
      <4> QED BY <2>5, <2>9, <4>2, <4>3
    <3> QED BY <2>1, <2>5, <2>9, <2>10, <3>1
  <2>13. ToSet(files) \subseteq ToSet(b.fis) => w.fbox.fis = b.fis /\ w.points = 0
    <3> SUFFICES ASSUME ToSet(files) \subseteq ToSet(b.fis)
                 PROVE  w.fbox.fis = b.fis /\ w.points = 0
      OBVIOUS
    <3>1. c.fis = b.fis /\ p = 0
      BY <1>4, <2>2, <2>6
    <3>2. f \in ToSet(files)
      BY <1>1, <2>1 DEF ToSet
    <3> QED BY <2>5, <2>9, <3>1, <3>2
  <2>14. k # 0
    OBVIOUS
  <2>16. Along(b.fis, files, k, w.fbox.fis)
    <3>1. b.fis \in Seq(F) /\ k \in 1..Len(files)
      BY <1>1 DEF Boxes
    <3>2. Along(b.fis, files, k - 1, c.fis)
      BY <1>4, <2>2
    <3>3. Along(b.fis, files, k, file_box_add(c, files[k], k - 1).fbox.fis)
      BY <3>1, <3>2, AlongNext
    <3> QED BY <2>1, <2>3, <2>4, <2>9, <3>3
  <2> HIDE DEF Next, All
  <2> QED BY <2>7, <2>9, <2>11, <2>12, <2>13, <2>14, <2>16
<1>5. PICK W : W = [k \in 0..n |-> {v \in All : Done(v, k)}]
  OBVIOUS
<1>6. PICK step : step = [k \in 1..n |-> [v \in All |-> Next(v, k)]]
  OBVIOUS
<1>7. \A k \in 0..n : \A v : v \in W[k] <=> v \in All /\ Done(v, k)
  <2> HIDE DEF All, Done
  <2> QED BY <1>5
<1>8. \A k \in 1..n : \A v \in All : step[k][v] = Next(v, k)
  <2> HIDE DEF All, Next
  <2> QED BY <1>6
<1> HIDE DEF All, Done, Next, start, after
<1>9. start \in W[0]
  BY <1>1, <1>3, <1>7
<1>10. \A k \in 1..n : \A v \in W[k - 1] : step[k][v] \in W[k]
  <2>1. \A k \in 1..n : k - 1 \in 0..n /\ k \in 0..n
    OBVIOUS
  <2> QED BY <1>4, <1>7, <1>8, <2>1
<1>11. PICK g : /\ g = [k \in 0..n |-> g[k]] /\ Iterates(g, n, start, step)
                /\ \A k \in 0..n : g[k] \in W[k]
  BY <1>9, <1>10, StageByStage
<1>12. Is(g)
  <2>1. ASSUME NEW k \in 0..n
        PROVE  g[k] = IF k = 0 THEN start ELSE Next(g[k - 1], k)
    <3>1. CASE k = 0
      BY <1>11, <3>1 DEF Iterates
    <3>2. CASE k # 0
      <4>1. k \in 1..n /\ k - 1 \in 0..n
        BY <3>2
      <4>2. g[k - 1] \in All
        BY <1>7, <1>11, <4>1
      <4>3. g[k] = step[k][g[k - 1]]
        BY <1>11, <4>1 DEF Iterates
      <4> QED BY <1>8, <3>2, <4>1, <4>2, <4>3
    <3> QED BY <3>1, <3>2
  <2> QED BY <1>11, <2>1
<1>13. Is(after)
  <2> HIDE DEF Is
  <2> QED BY <1>12 DEF after
<1>14. after = g
  <2> DEFINE P(k) == after[k] = g[k]
  <2>1. PICK R : R = {k \in 0..n : after[k] = g[k]}
    OBVIOUS
  <2>2. 0 \in R
    BY <1>1, <1>12, <1>13, <2>1
  <2>3. ASSUME NEW k \in 1..n, k - 1 \in R
        PROVE  k \in R
    <3>1. k \in 0..n /\ k # 0
      OBVIOUS
    <3>2. after[k] = Next(after[k - 1], k) /\ g[k] = Next(g[k - 1], k)
      BY <1>12, <1>13, <3>1
    <3> QED BY <2>1, <2>3, <3>1, <3>2
  <2>4. \A k \in 0..n : k \in R
    BY <2>2, <2>3, BoundedInduction
  <2> QED BY <1>12, <1>13, <2>1, <2>4
<1>15. PICK fill : fill = Filled(b, files)
  OBVIOUS
<1>16. fill \in All /\ Done(fill, n)
  <2>1. n \in 0..n
    BY <1>1
  <2> QED BY <1>2, <1>7, <1>11, <1>14, <1>15, <2>1
<1>17. Holds(fill.fbox, files)
  <2>1. FileNames(files) = {files[j].name : j \in 1..n}
    BY <1>1 DEF FileNames, ToSet
  <2> QED BY <1>1, <1>16, <2>1 DEF Done, Holds, ToSet
<1>18. files = <<>> => n = 0
  BY <1>1
<1>19. Follows(b.fis, files) => fill.fbox.fis = files
  <2> SUFFICES ASSUME Follows(b.fis, files) PROVE fill.fbox.fis = files
    OBVIOUS
  <2>1. PICK box \in Boxes(F) : box = fill.fbox
    BY <1>16 DEF All
  <2>2. box.fis \in Seq(F) /\ b.fis \in Seq(F)
    BY DEF Boxes
  <2>3. Along(b.fis, files, Len(files), box.fis)
    BY <1>1, <1>16, <2>1 DEF Done
  <2>4. box.fis = files
    BY <2>2, <2>3, AlongEnds
  <2> QED BY <2>1, <2>4
<1> QED BY <1>15, <1>16, <1>17, <1>18, <1>19 DEF All, Done

\* What has not been listed again goes.
LEMMA FlushIs ==
    ASSUME NEW F, NEW b \in Boxes(F), NEW files \in Seq(F), NamedOnce(files), Holds(b, files)
    PROVE  LET c == file_box_flush(b)
           IN /\ c \in Boxes(F) /\ HoldsJust(c, files)
              /\ HoldsJust(b, files) => c = b
<1>1. PICK fis \in Seq(F) : fis = b.fis /\ NamedOnce(fis)
  BY DEF Boxes
<1>2. PICK marked : marked = b.marked /\ marked \in SUBSET {x.name : x \in F}
  BY DEF Boxes
<1>3. b = [fis |-> fis, marked |-> marked]
  <2>1. b \in [fis : Seq(F), marked : SUBSET {x.name : x \in F}]
    BY DEF Boxes
  <2> QED BY <1>1, <1>2, <2>1
<1>4. PICK key : key = NameOf(F) /\ \A x \in F : key[x] = x.name
  <2>1. \A x \in F : NameOf(F)[x] = x.name
    BY DEF NameOf
  <2> QED BY <2>1
<1>5. KeyOnce(fis, key)
  BY <1>1, <1>4, NamedKey
<1>6. PICK kept : kept = {i \in DOMAIN fis : fis[i].name \in marked}
  OBVIOUS
<1>7. kept \in SUBSET (DOMAIN fis)
  BY <1>6
<1>8. PICK left : left = Picked(fis, kept)
  OBVIOUS
<1>9. left \in Seq(F) /\ KeyOnce(left, key) /\ ToSet(left) = {fis[i] : i \in kept}
  BY <1>5, <1>7, <1>8, KeptIs
<1>10. NamedOnce(left)
  BY <1>4, <1>9, NamedKey
<1>11. PICK c : c = file_box_flush(b)
  OBVIOUS
<1>12. c = [fis |-> left, marked |-> marked]
  BY <1>1, <1>2, <1>3, <1>6, <1>8, <1>11 DEF file_box_flush
<1>13. c \in Boxes(F)
  BY <1>2, <1>9, <1>10, <1>12, BoxIs
<1>14. marked = FileNames(files) /\ ToSet(files) \subseteq ToSet(fis)
  BY <1>1, <1>2 DEF Holds
<1>15. ToSet(left) = ToSet(files)
  <2>1. ASSUME NEW i \in kept
        PROVE  fis[i] \in ToSet(files)
    <3>1. PICK f \in ToSet(files) : f.name = fis[i].name
      BY <1>6, <1>14 DEF FileNames
    <3>2. PICK j \in DOMAIN fis : fis[j] = f
      BY <1>14 DEF ToSet
    <3>3. i = j
      BY <1>1, <1>7, <3>1, <3>2 DEF NamedOnce
    <3> QED BY <3>2, <3>3
  <2>2. ASSUME NEW f \in ToSet(files)
        PROVE  \E i \in kept : fis[i] = f
    <3>1. PICK j \in DOMAIN fis : fis[j] = f
      BY <1>14 DEF ToSet
    <3>2. j \in kept
      BY <1>6, <1>14, <3>1 DEF FileNames
    <3> QED BY <3>1, <3>2
  <2> QED BY <1>9, <2>1, <2>2
<1>16. Len(left) = Len(files)
  <2>1. IsInjective(left)
    BY <1>10 DEF NamedOnce, IsInjective
  <2>2. IsInjective(files)
    BY DEF NamedOnce, IsInjective
  <2> QED BY <1>9, <1>15, <2>1, <2>2, SameLength
<1>17. HoldsJust(c, files)
  BY <1>12, <1>14, <1>15, <1>16 DEF HoldsJust
<1>18. HoldsJust(b, files) => c = b
  <2> SUFFICES ASSUME HoldsJust(b, files) PROVE c = b
    OBVIOUS
  <2>1. ToSet(fis) = ToSet(files)
    BY <1>1 DEF HoldsJust
  <2>2. kept = DOMAIN fis
    <3>1. \A i \in DOMAIN fis : fis[i] \in ToSet(fis)
      BY DEF ToSet
    <3> QED BY <1>6, <1>14, <2>1, <3>1 DEF FileNames
  <2>3. left = fis
    BY <1>8, <2>2, PickedAll
  <2> QED BY <1>3, <1>12, <2>3
<1> QED BY <1>11, <1>13, <1>17, <1>18

-----------------------------------------------------------------------------
(* The directories of a listing, one after the other.  The widgets there   *)
(* are, s0, have none of the listing's marks; entry[j] is what the j-th    *)
(* directory's becomes.                                                    *)

Entries(D, s0, L, entry) ==
    /\ s0 \in Seq(D) /\ NamedOnce(s0)
    /\ L \in Seq(ToSet(L)) /\ NamedOnce(L)
    /\ \A j \in DOMAIN L : entry[j] \in D /\ entry[j].name = L[j].name

\* Whether the directories up to the k-th name one of the widgets.
Mentions(L, k, name) == \E j \in 1..k : L[j].name = name

\* The widgets after the k-th directory.
HasRead(D, s0, L, entry, k, t) ==
    /\ t \in Seq(D) /\ NamedOnce(t)
    /\ \A i \in DOMAIN s0 : i \in DOMAIN t /\ t[i].name = s0[i].name
    /\ \A i \in DOMAIN s0 : ~ Mentions(L, k, s0[i].name) => t[i] = s0[i]
    /\ \A i \in DOMAIN t : i \in DOMAIN s0 \/ \E j \in 1..k : t[i] = entry[j]
    /\ \A j \in 1..k : \E i \in DOMAIN t : t[i] = entry[j]
    /\ (\A i \in DOMAIN s0 : ~ Mentions(L, k, s0[i].name)) =>
          Len(t) = Len(s0) + k /\ \A j \in 1..k : t[Len(s0) + j] = entry[j]
    /\ (\A j \in 1..k : \E i \in DOMAIN s0 : s0[i].name = L[j].name) => Len(t) = Len(s0)

LEMMA ReadsStart ==
    ASSUME NEW D, NEW s0, NEW L, NEW entry, Entries(D, s0, L, entry)
    PROVE  HasRead(D, s0, L, entry, 0, s0)
<1>1. 1..0 = {}
  OBVIOUS
<1>2. s0 \in Seq(D) /\ NamedOnce(s0)
  BY DEF Entries
<1>3. Len(s0) = Len(s0) + 0
  BY <1>2
<1> QED BY <1>1, <1>2, <1>3 DEF HasRead

\* The next directory's widget is as it was.
LEMMA ReadsKnown ==
    ASSUME NEW D, NEW s0, NEW L, NEW entry, Entries(D, s0, L, entry),
           NEW k \in DOMAIN L, NEW t, HasRead(D, s0, L, entry, k - 1, t)
    PROVE  LET i == Named(t, L[k].name)
           IN /\ Named(s0, L[k].name) = i
              /\ \/ i = 0 /\ \A x \in DOMAIN t : t[x].name # L[k].name
                 \/ i \in DOMAIN s0 /\ i \in DOMAIN t /\ t[i] = s0[i] /\ s0[i].name = L[k].name
<1>1. PICK name : name = L[k].name
  OBVIOUS
<1>2. PICK i : i = Named(t, name)
  OBVIOUS
<1>3. PICK h : h = Named(s0, name)
  OBVIOUS
<1>4. t \in Seq(D) /\ s0 \in Seq(D) /\ NamedOnce(t) /\ NamedOnce(s0)
  BY DEF HasRead, Entries
<1>5. \/ i = 0 /\ \A x \in DOMAIN t : t[x].name # name
      \/ i \in DOMAIN t /\ t[i].name = name
  BY <1>2, <1>4, NamedIs
<1>6. \/ h = 0 /\ \A x \in DOMAIN s0 : s0[x].name # name
      \/ h \in DOMAIN s0 /\ s0[h].name = name
  BY <1>3, <1>4, NamedIs
<1>7. \A j \in 1..(k - 1) : j \in DOMAIN L /\ L[j].name # name /\ entry[j].name = L[j].name
  <2>1. PICK n \in Nat : n = Len(L) /\ DOMAIN L = 1..n
    BY DEF Entries
  <2>2. \A j \in 1..(k - 1) : j \in 1..n /\ j # k
    BY <2>1
  <2> QED BY <1>1, <2>1, <2>2 DEF Entries, NamedOnce
<1>8. ~ Mentions(L, k - 1, name)
  BY <1>7 DEF Mentions
<1>9. \A x \in DOMAIN s0 : s0[x].name = name => t[x] = s0[x] /\ x \in DOMAIN t
  BY <1>8 DEF HasRead
<1>10. CASE h = 0
  <2>1. \A x \in DOMAIN t : t[x].name = name => FALSE
    <3> SUFFICES ASSUME NEW x \in DOMAIN t, t[x].name = name PROVE FALSE
      OBVIOUS
    <3>1. CASE x \in DOMAIN s0
      <4>1. s0[x].name = name
        BY <3>1 DEF HasRead
      <4>2. 0 \notin DOMAIN s0
        BY <1>4
      <4> QED BY <1>6, <1>10, <3>1, <4>1, <4>2
    <3>2. CASE \E j \in 1..(k - 1) : t[x] = entry[j]
      BY <1>7, <3>2
    <3> QED BY <3>1, <3>2 DEF HasRead
  <2>2. i = 0
    BY <1>5, <2>1
  <2> QED BY <1>1, <1>2, <1>3, <1>10, <2>1, <2>2
<1>11. CASE h # 0
  <2>1. h \in DOMAIN s0 /\ s0[h].name = name /\ h \in DOMAIN t /\ t[h] = s0[h]
    BY <1>6, <1>9, <1>11
  <2>2. i \in DOMAIN t /\ t[i].name = name
    BY <1>5, <2>1
  <2>3. i = h
    BY <1>4, <2>1, <2>2 DEF NamedOnce
  <2> QED BY <1>1, <1>2, <1>3, <2>1, <2>3
<1> QED BY <1>10, <1>11

\* The widgets with the next directory's.
With(t, i, x) == IF i = 0 THEN Append(t, x) ELSE [t EXCEPT ![i] = x]

Widened(D, t, i, x, u) ==
    /\ u \in Seq(D) /\ Len(u) = IF i = 0 THEN Len(t) + 1 ELSE Len(t)
    /\ \A j \in DOMAIN t : j \in DOMAIN u /\ u[j] = IF j = i THEN x ELSE t[j]
    /\ \A j \in DOMAIN u : j \in DOMAIN t \/ (i = 0 /\ j = Len(t) + 1)
    /\ i = 0 => Len(t) + 1 \in DOMAIN u /\ u[Len(t) + 1] = x

LEMMA WithIs ==
    ASSUME NEW D, NEW t \in Seq(D), NEW x \in D, NEW i,
           i = 0 \/ i \in DOMAIN t
    PROVE  Widened(D, t, i, x, With(t, i, x))
<1>1. PICK n \in Nat : n = Len(t) /\ DOMAIN t = 1..n
  OBVIOUS
<1>2. CASE i = 0
  <2>1. PICK u : u = Append(t, x)
    OBVIOUS
  <2>2. u \in Seq(D) /\ Len(u) = n + 1 /\ DOMAIN u = 1..(n + 1)
    BY <1>1, <2>1
  <2>3. \A j \in 1..n : j \in 1..(n + 1) /\ j # 0 /\ u[j] = t[j]
    BY <1>1, <2>1
  <2>4. n + 1 \in 1..(n + 1) /\ u[n + 1] = x
    BY <1>1, <2>1
  <2>5. \A j \in 1..(n + 1) : j \in 1..n \/ j = n + 1
    OBVIOUS
  <2>6. u = With(t, i, x)
    BY <1>2, <2>1 DEF With
  <2> QED BY <1>1, <1>2, <2>2, <2>3, <2>4, <2>5, <2>6 DEF Widened
<1>3. CASE i # 0
  <2>1. PICK u : u = [t EXCEPT ![i] = x]
    OBVIOUS
  <2>2. u \in Seq(D) /\ Len(u) = n /\ DOMAIN u = 1..n
    BY <1>1, <1>3, <2>1
  <2>3. \A j \in 1..n : u[j] = IF j = i THEN x ELSE t[j]
    BY <1>1, <2>1
  <2>4. u = With(t, i, x)
    BY <1>3, <2>1 DEF With
  <2> QED BY <1>1, <1>3, <2>2, <2>3, <2>4 DEF Widened
<1> QED BY <1>2, <1>3

LEMMA ReadsNext ==
    ASSUME NEW D, NEW s0, NEW L, NEW entry, Entries(D, s0, L, entry),
           NEW k \in DOMAIN L, NEW t, HasRead(D, s0, L, entry, k - 1, t)
    PROVE  HasRead(D, s0, L, entry, k, With(t, Named(t, L[k].name), entry[k]))
<1>1. PICK x \in D : x = entry[k] /\ x.name = L[k].name
  BY DEF Entries
<1>2. PICK i : i = Named(t, L[k].name)
  OBVIOUS
<1>3. PICK n \in Nat : n = Len(L) /\ DOMAIN L = 1..n
  BY DEF Entries
<1>4. k \in 1..n /\ k \in Nat
  BY <1>3
<1>5. t \in Seq(D) /\ s0 \in Seq(D) /\ NamedOnce(t) /\ NamedOnce(s0)
  BY DEF HasRead, Entries
<1>6. \/ i = 0 /\ (\A y \in DOMAIN t : t[y].name # L[k].name)
      \/ i \in DOMAIN s0 /\ i \in DOMAIN t /\ t[i] = s0[i] /\ s0[i].name = L[k].name
  BY <1>2, ReadsKnown
<1>7. PICK u : u = With(t, i, x)
  OBVIOUS
<1>8. i = 0 \/ i \in DOMAIN t
  BY <1>6
<1>9. PICK p \in Nat : p = Len(t) /\ DOMAIN t = 1..p
  BY <1>5
<1>10. PICK m \in Nat : m = Len(s0) /\ DOMAIN s0 = 1..m
  BY <1>5
<1>11. 0 \notin DOMAIN t /\ 0 \notin DOMAIN s0 /\ p + 1 \notin DOMAIN t
  BY <1>9, <1>10
<1>12. /\ u \in Seq(D) /\ Len(u) = IF i = 0 THEN p + 1 ELSE p
       /\ \A j \in DOMAIN t : j \in DOMAIN u /\ u[j] = IF j = i THEN x ELSE t[j]
       /\ \A j \in DOMAIN u : j \in DOMAIN t \/ (i = 0 /\ j = p + 1)
       /\ i = 0 => p + 1 \in DOMAIN u /\ u[p + 1] = x
  <2>1. Widened(D, t, i, x, u)
    BY <1>5, <1>7, <1>8, WithIs
  <2> QED BY <1>9, <2>1 DEF Widened
<1>13. i # 0 => i \in DOMAIN t /\ t[i].name = x.name
  BY <1>1, <1>6
<1>14. NamedOnce(u)
  <2> SUFFICES ASSUME NEW a \in DOMAIN u, NEW c \in DOMAIN u, u[a].name = u[c].name
               PROVE  a = c
    BY DEF NamedOnce
  <2>1. \A j \in DOMAIN t : u[j].name = t[j].name
    BY <1>12, <1>13
  <2>2. CASE a \in DOMAIN t /\ c \in DOMAIN t
    BY <1>5, <2>1, <2>2 DEF NamedOnce
  <2>3. CASE a \notin DOMAIN t
    <3>1. i = 0 /\ a = p + 1 /\ u[a] = x
      BY <1>12, <2>3
    <3>2. c \notin DOMAIN t
      BY <1>1, <1>6, <1>11, <2>1, <3>1
    <3> QED BY <1>12, <3>1, <3>2
  <2>4. CASE c \notin DOMAIN t
    <3>1. i = 0 /\ c = p + 1 /\ u[c] = x
      BY <1>12, <2>4
    <3>2. a \notin DOMAIN t
      BY <1>1, <1>6, <1>11, <2>1, <3>1
    <3> QED BY <1>12, <3>1, <3>2
  <2> QED BY <2>2, <2>3, <2>4
<1>15. \A j \in DOMAIN s0 : j \in DOMAIN u /\ u[j].name = s0[j].name
  <2>1. \A j \in DOMAIN s0 : j \in DOMAIN t /\ t[j].name = s0[j].name
    BY DEF HasRead
  <2> QED BY <1>12, <1>13, <2>1
<1>16. 1..k = 1..(k - 1) \cup {k}
  BY <1>4
<1>17. \A name : Mentions(L, k, name) <=> Mentions(L, k - 1, name) \/ L[k].name = name
  BY <1>16 DEF Mentions
<1>18. \A j \in DOMAIN s0 : ~ Mentions(L, k, s0[j].name) => u[j] = s0[j]
  <2> SUFFICES ASSUME NEW j \in DOMAIN s0, ~ Mentions(L, k, s0[j].name) PROVE u[j] = s0[j]
    OBVIOUS
  <2>1. ~ Mentions(L, k - 1, s0[j].name) /\ L[k].name # s0[j].name
    BY <1>17
  <2>2. t[j] = s0[j] /\ j \in DOMAIN t
    BY <2>1 DEF HasRead
  <2>3. j # i
    BY <1>6, <1>11, <2>1
  <2> QED BY <1>12, <2>2, <2>3
<1>19. \A j \in DOMAIN u : j \in DOMAIN s0 \/ \E q \in 1..k : u[j] = entry[q]
  <2> SUFFICES ASSUME NEW j \in DOMAIN u, j \notin DOMAIN s0
               PROVE  \E q \in 1..k : u[j] = entry[q]
    OBVIOUS
  <2>1. k \in 1..k
    BY <1>4
  <2>2. CASE j \in DOMAIN t
    <3>1. PICK q \in 1..(k - 1) : t[j] = entry[q]
      BY <2>2 DEF HasRead
    <3>2. j # i
      BY <1>6, <1>11, <2>2
    <3>3. q \in 1..k
      BY <1>16
    <3> QED BY <1>12, <2>2, <3>1, <3>2, <3>3
  <2>3. CASE j \notin DOMAIN t
    <3>1. u[j] = x
      BY <1>12, <2>3
    <3> QED BY <1>1, <2>1, <3>1
  <2> QED BY <2>2, <2>3
<1>20. \A q \in 1..k : \E j \in DOMAIN u : u[j] = entry[q]
  <2>1. ASSUME NEW q \in 1..(k - 1)
        PROVE  \E j \in DOMAIN u : u[j] = entry[q]
    <3>1. PICK j \in DOMAIN t : t[j] = entry[q]
      BY DEF HasRead
    <3>2. q \in DOMAIN L /\ k \in DOMAIN L /\ q # k
      BY <1>3, <1>4
    <3>3. entry[q].name = L[q].name /\ L[q].name # L[k].name
      BY <3>2 DEF Entries, NamedOnce
    <3>4. j # i
      BY <1>1, <1>11, <1>13, <3>1, <3>3
    <3> QED BY <1>12, <3>1, <3>4
  <2>2. \E j \in DOMAIN u : u[j] = entry[k]
    BY <1>1, <1>8, <1>12
  <2> QED BY <1>16, <2>1, <2>2
<1>21. (\A j \in DOMAIN s0 : ~ Mentions(L, k, s0[j].name)) =>
          Len(u) = m + k /\ \A q \in 1..k : u[m + q] = entry[q]
  <2> SUFFICES ASSUME \A j \in DOMAIN s0 : ~ Mentions(L, k, s0[j].name)
               PROVE  Len(u) = m + k /\ \A q \in 1..k : u[m + q] = entry[q]
    OBVIOUS
  <2>1. \A j \in DOMAIN s0 : ~ Mentions(L, k - 1, s0[j].name) /\ L[k].name # s0[j].name
    BY <1>17
  <2>2. p = m + (k - 1) /\ \A q \in 1..(k - 1) : t[m + q] = entry[q]
    BY <1>9, <1>10, <2>1 DEF HasRead
  <2>3. i = 0
    BY <1>6, <2>1
  <2>4. Len(u) = m + k /\ p + 1 = m + k /\ u[m + k] = entry[k]
    BY <1>1, <1>4, <1>12, <2>2, <2>3
  <2>5. ASSUME NEW q \in 1..(k - 1)
        PROVE  u[m + q] = entry[q]
    <3>1. m + q \in 1..p /\ m + q # 0
      BY <1>4, <2>2
    <3> QED BY <1>9, <1>12, <2>2, <2>3, <3>1
  <2> QED BY <1>16, <2>4, <2>5
<1>22. (\A q \in 1..k : \E j \in DOMAIN s0 : s0[j].name = L[q].name) => Len(u) = m
  <2> SUFFICES ASSUME \A q \in 1..k : \E j \in DOMAIN s0 : s0[j].name = L[q].name
               PROVE  Len(u) = m
    OBVIOUS
  <2>1. \A q \in 1..(k - 1) : \E j \in DOMAIN s0 : s0[j].name = L[q].name
    BY <1>16
  <2>2. p = m
    BY <1>9, <1>10, <2>1 DEF HasRead
  <2>3. PICK j \in DOMAIN s0 : s0[j].name = L[k].name
    BY <1>16
  <2>4. j \in DOMAIN t /\ t[j].name = L[k].name
    BY <2>3 DEF HasRead
  <2>5. i # 0
    BY <1>6, <1>11, <2>4
  <2> QED BY <1>12, <2>2, <2>5
<1>23. HasRead(D, s0, L, entry, k, u)
  BY <1>10, <1>12, <1>14, <1>15, <1>18, <1>19, <1>20, <1>21, <1>22 DEF HasRead
<1> QED BY <1>1, <1>2, <1>7, <1>23

\* What is left of the widgets when those of no directory are gone: one for
\* each directory.  When the first of them is new, none is known; and when
\* the directories are those of before, the widgets are in the same order.
Culled(D, s0, L, entry, kept) ==
    /\ kept \in Seq(D) /\ NamedOnce(kept) /\ Len(kept) = Len(L)
    /\ \A i \in DOMAIN kept : \E j \in DOMAIN L : kept[i] = entry[j]
    /\ \A j \in DOMAIN L : \E i \in DOMAIN kept : kept[i] = entry[j]
    /\ kept # <<>> /\ (\A i \in DOMAIN s0 : s0[i].name # kept[1].name) => kept[1] = entry[1]
    /\ /\ \A j \in DOMAIN L : \E i \in DOMAIN s0 : s0[i].name = L[j].name
       /\ \A i \in DOMAIN s0 : \E j \in DOMAIN L : L[j].name = s0[i].name
       => Len(kept) = Len(s0) /\ \A i \in DOMAIN s0 : kept[i].name = s0[i].name

LEMMA CulledIs ==
    ASSUME NEW D, NEW s0, NEW L, NEW entry, Entries(D, s0, L, entry), NEW t,
           HasRead(D, s0, L, entry, Len(L), t),
           \A i \in DOMAIN s0 : s0[i].marked = FALSE,
           \A j \in DOMAIN L : entry[j].marked = TRUE
    PROVE  Culled(D, s0, L, entry, Picked(t, {i \in DOMAIN t : t[i].marked}))
<1>1. PICK n \in Nat : n = Len(L) /\ DOMAIN L = 1..n
  BY DEF Entries
<1>2. PICK m \in Nat : m = Len(s0) /\ DOMAIN s0 = 1..m
  BY DEF Entries
<1>3. t \in Seq(D) /\ s0 \in Seq(D) /\ NamedOnce(t)
  BY DEF HasRead, Entries
<1>4. PICK p \in Nat : p = Len(t) /\ DOMAIN t = 1..p
  BY <1>3
<1>5. \A j \in 1..n : entry[j] \in D /\ entry[j].name = L[j].name /\ entry[j].marked = TRUE
  BY <1>1 DEF Entries
<1>6. \A i \in DOMAIN t : t[i] \in D
  BY <1>3
<1>7. HasRead(D, s0, L, entry, n, t)
  BY <1>1
<1>8. ASSUME NEW i \in DOMAIN s0
      PROVE  /\ i \in DOMAIN t /\ t[i].name = s0[i].name
             /\ Mentions(L, n, s0[i].name) => \E j \in 1..n : t[i] = entry[j]
             /\ ~ Mentions(L, n, s0[i].name) => t[i].marked = FALSE
  <2>1. i \in DOMAIN t /\ t[i].name = s0[i].name
    BY <1>7 DEF HasRead
  <2>2. ASSUME Mentions(L, n, s0[i].name)
        PROVE  \E j \in 1..n : t[i] = entry[j]
    <3>1. PICK j \in 1..n : L[j].name = s0[i].name
      BY <2>2 DEF Mentions
    <3>2. PICK x \in DOMAIN t : t[x] = entry[j]
      BY <1>7 DEF HasRead
    <3>3. x = i
      BY <1>3, <1>5, <2>1, <3>1, <3>2 DEF NamedOnce
    <3> QED BY <3>2, <3>3
  <2>3. ~ Mentions(L, n, s0[i].name) => t[i].marked = FALSE
    BY <1>7 DEF HasRead
  <2> QED BY <2>1, <2>2, <2>3
<1>9. PICK M : M = {i \in DOMAIN t : t[i].marked}
  OBVIOUS
<1>10. ASSUME NEW i \in DOMAIN t
       PROVE  i \in M <=> \E j \in 1..n : t[i] = entry[j]
  <2>1. CASE \E j \in 1..n : t[i] = entry[j]
    <3>1. t[i].marked = TRUE
      BY <1>5, <2>1
    <3> QED BY <1>9, <2>1, <3>1
  <2>2. CASE ~ \E j \in 1..n : t[i] = entry[j]
    <3>1. i \in DOMAIN s0
      BY <1>7, <2>2 DEF HasRead
    <3>2. t[i].marked = FALSE
      BY <1>8, <2>2, <3>1
    <3> QED BY <1>9, <2>2, <3>2
  <2> QED BY <2>1, <2>2
<1>11. M \in SUBSET (DOMAIN t) /\ M \in SUBSET (1..Len(t))
  BY <1>4, <1>9
<1>12. PICK kept : kept = Picked(t, M)
  OBVIOUS
<1>13. PICK key : key = NameOf(D)
  OBVIOUS
<1>14. KeyOnce(t, key)
  BY <1>3, <1>13, NamedKey
<1>15. kept \in Seq(D) /\ KeyOnce(kept, key) /\ ToSet(kept) = {t[i] : i \in M}
  BY <1>3, <1>11, <1>12, <1>14, KeptIs
<1>16. NamedOnce(kept)
  BY <1>13, <1>15, NamedKey
<1>17. PICK q \in Nat : q = Len(kept) /\ DOMAIN kept = 1..q
  BY <1>15
<1>18. \A i \in DOMAIN kept : \E j \in DOMAIN L : kept[i] = entry[j]
  <2>1. ASSUME NEW i \in DOMAIN kept
        PROVE  \E j \in DOMAIN L : kept[i] = entry[j]
    <3>1. kept[i] \in ToSet(kept)
      BY DEF ToSet
    <3>2. PICK x \in M : kept[i] = t[x]
      BY <1>15, <3>1
    <3> QED BY <1>1, <1>10, <1>11, <3>2
  <2> QED BY <2>1
<1>19. \A j \in DOMAIN L : \E i \in DOMAIN kept : kept[i] = entry[j]
  <2>1. ASSUME NEW j \in DOMAIN L
        PROVE  \E i \in DOMAIN kept : kept[i] = entry[j]
    <3>1. PICK x \in DOMAIN t : t[x] = entry[j]
      BY <1>1, <1>7 DEF HasRead
    <3>2. x \in M
      BY <1>1, <1>10, <3>1
    <3>3. entry[j] \in ToSet(kept)
      BY <1>15, <3>1, <3>2
    <3> QED BY <3>3 DEF ToSet
  <2> QED BY <2>1
<1>20. q = n
  <2>1. PICK E : E = [j \in 1..n |-> entry[j]]
    OBVIOUS
  <2>2. E \in Seq(D) /\ Len(E) = n /\ DOMAIN E = 1..n
    BY <1>5, <2>1
  <2>3. IsInjective(E)
    <3>1. \A i, j \in 1..n : entry[i] = entry[j] => i = j
      BY <1>1, <1>5 DEF Entries, NamedOnce
    <3> QED BY <2>1, <2>2, <3>1 DEF IsInjective
  <2>4. IsInjective(kept)
    BY <1>16 DEF NamedOnce, IsInjective
  <2>5. ToSet(E) = ToSet(kept)
    <3>1. \A x \in ToSet(E) : x \in ToSet(kept)
      BY <1>1, <1>19, <2>1, <2>2 DEF ToSet
    <3>2. \A x \in ToSet(kept) : x \in ToSet(E)
      BY <1>1, <1>18, <2>1, <2>2 DEF ToSet
    <3> QED BY <3>1, <3>2
  <2> QED BY <1>15, <1>17, <2>2, <2>3, <2>4, <2>5, SameLength
<1>21. ASSUME kept # <<>>, \A i \in DOMAIN s0 : s0[i].name # kept[1].name
       PROVE  kept[1] = entry[1]
  <2>1. PICK f \in [1..Len(kept) -> M] :
           /\ \A k \in 1..Len(kept) : kept[k] = t[f[k]]
           /\ \A i \in M : \E k \in 1..Len(kept) : f[k] = i
           /\ \A j, k \in 1..Len(kept) : j < k => f[j] < f[k]
    <3>1. t \in Seq(D)
      BY <1>3
    <3>2. M \in SUBSET (1..Len(t))
      BY <1>11
    <3>3. \E f \in [1..Len(kept) -> M] :
             /\ \A k \in 1..Len(kept) : kept[k] = t[f[k]]
             /\ \A i \in M : \E k \in 1..Len(kept) : f[k] = i
             /\ \A j, k \in 1..Len(kept) : j < k => f[j] < f[k]
      BY <1>12, <3>1, <3>2, PickedIs, SMTT(30)
    <3> QED BY <3>3
  <2>2. q # 0
    <3>1. q = 0 => kept = <<>>
      BY <1>15, <1>17
    <3> QED BY <1>21, <3>1
  <2>3. 1 \in 1..q
    BY <2>2
  <2>4. PICK a \in M : a = f[1] /\ kept[1] = t[a]
    BY <1>17, <2>1, <2>3
  <2>5. a \in 1..p /\ a \notin 1..m
    <3>1. a \in DOMAIN t
      BY <1>11
    <3>2. a \in DOMAIN s0 => t[a].name = s0[a].name
      BY <1>8
    <3> QED BY <1>2, <1>4, <1>21, <2>4, <3>1, <3>2
  <2>6. \A x \in M : a <= x /\ x \notin 1..m
    <3>1. ASSUME NEW x \in M
          PROVE  a <= x
      <4>1. PICK k \in 1..q : f[k] = x
        BY <1>17, <2>1
      <4>2. CASE k = 1
        BY <2>4, <2>5, <4>1, <4>2
      <4>3. CASE k # 1
        <5>1. 1 < k
          BY <4>3
        <5>2. f[1] < f[k]
          BY <1>17, <2>1, <2>3, <5>1
        <5>3. x \in 1..p
          BY <1>4, <1>11
        <5> QED BY <2>4, <2>5, <4>1, <5>2, <5>3
      <4> QED BY <4>2, <4>3
    <3>2. \A x \in M : x \in 1..p
      BY <1>4, <1>11
    <3> QED BY <2>5, <3>1, <3>2
  <2>7. \A i \in DOMAIN s0 : ~ Mentions(L, n, s0[i].name)
    <3>1. ASSUME NEW i \in DOMAIN s0, Mentions(L, n, s0[i].name)
          PROVE  FALSE
      <4>1. i \in DOMAIN t /\ \E j \in 1..n : t[i] = entry[j]
        BY <1>8, <3>1
      <4>2. i \in M
        BY <1>10, <4>1
      <4> QED BY <1>2, <2>6, <4>2
    <3> QED BY <3>1
  <2>8. p = m + n /\ \A j \in 1..n : t[m + j] = entry[j]
    BY <1>2, <1>4, <1>7, <2>7 DEF HasRead
  <2>9. 1 \in 1..n /\ m + 1 \in DOMAIN t /\ t[m + 1] = entry[1]
    <3>1. 1 \in 1..n /\ m + 1 \in 1..p
      BY <1>20, <2>3, <2>8
    <3> QED BY <1>4, <2>8, <3>1
  <2>10. m + 1 \in M
    BY <1>10, <2>9
  <2>11. a = m + 1
    BY <2>5, <2>6, <2>10
  <2> QED BY <2>4, <2>9, <2>11
<1>22. ASSUME \A j \in DOMAIN L : \E i \in DOMAIN s0 : s0[i].name = L[j].name,
              \A i \in DOMAIN s0 : \E j \in DOMAIN L : L[j].name = s0[i].name
       PROVE  Len(kept) = Len(s0) /\ \A i \in DOMAIN s0 : kept[i].name = s0[i].name
  <2>1. p = m
    BY <1>1, <1>2, <1>4, <1>7, <1>22 DEF HasRead
  <2>2. \A i \in DOMAIN s0 : Mentions(L, n, s0[i].name)
    BY <1>1, <1>22 DEF Mentions
  <2>3. \A i \in DOMAIN t : i \in M
    BY <1>2, <1>4, <1>8, <1>10, <2>1, <2>2
  <2>4. M = DOMAIN t
    BY <1>11, <2>3
  <2>5. kept = t
    BY <1>3, <1>12, <2>4, PickedAll
  <2> QED BY <1>2, <1>4, <1>8, <2>1, <2>5
<1>23. Culled(D, s0, L, entry, kept)
  BY <1>1, <1>15, <1>16, <1>17, <1>18, <1>19, <1>20, <1>21, <1>22 DEF Culled
<1> QED BY <1>9, <1>12, <1>23

-----------------------------------------------------------------------------
(* The box the widgets are packed in.                                      *)

Joined(N, box, x, after) ==
    after \in Seq(N) /\ IsInjective(after) /\ ToSet(after) = ToSet(box) \cup {x}

LEMMA ReorderedIs ==
    ASSUME NEW N, NEW box \in Seq(N), IsInjective(box), NEW x \in N, NEW position \in Nat
    PROVE  Joined(N, box, x, Reordered(box, x, position))
<1>1. PICK key : key = [y \in N |-> y]
  OBVIOUS
<1>2. \A y \in N : key[y] = y
  BY <1>1
<1>3. ASSUME NEW s \in Seq(N)
      PROVE  IsInjective(s) <=> KeyOnce(s, key)
  <2>1. \A i \in DOMAIN s : s[i] \in N
    OBVIOUS
  <2> QED BY <1>2, <2>1 DEF IsInjective, KeyOnce
<1>4. PICK kept : kept = {i \in DOMAIN box : box[i] # x}
  OBVIOUS
<1>5. PICK left : left = Picked(box, kept)
  OBVIOUS
<1>6. KeyOnce(box, key) /\ kept \in SUBSET (DOMAIN box)
  BY <1>3, <1>4
<1>7. left \in Seq(N) /\ KeyOnce(left, key) /\ ToSet(left) = {box[i] : i \in kept}
  BY <1>5, <1>6, KeptIs
<1>8. ToSet(left) = ToSet(box) \ {x}
  BY <1>4, <1>7 DEF ToSet
<1>9. \A y \in ToSet(left) : y \in N
  <2>1. \A i \in DOMAIN left : left[i] \in N
    BY <1>7
  <2> QED BY <2>1 DEF ToSet
<1>10. \A y \in ToSet(left) : key[y] # key[x]
  BY <1>2, <1>8, <1>9
<1>11. PICK after : after = InsertedAt(left, x, position)
  OBVIOUS
<1>12. after \in Seq(N) /\ KeyOnce(after, key) /\ ToSet(after) = ToSet(left) \cup {x}
  BY <1>7, <1>10, <1>11, InsertedIs, SMTT(30)
<1>13. after = Reordered(box, x, position)
  BY <1>4, <1>5, <1>11 DEF Reordered
<1>14. IsInjective(after) /\ ToSet(after) = ToSet(box) \cup {x}
  BY <1>3, <1>8, <1>12
<1> QED BY <1>12, <1>13, <1>14 DEF Joined

\* t is what is left of s when some elements go.
Thins(s, t) ==
    \E g : /\ \A k \in DOMAIN t : g[k] \in DOMAIN s /\ t[k] = s[g[k]]
           /\ \A j, k \in DOMAIN t : j < k => g[j] < g[k]

\* An element is taken out and put in at its place, or at the end when the rest
\* is shorter.
Shifted(N, box, x, position, rest, after) ==
    /\ rest \in Seq(N) /\ IsInjective(rest) /\ ToSet(rest) = ToSet(box) \ {x} /\ Thins(box, rest)
    /\ position <= Len(rest) => PutIn(N, rest, position + 1, x, after)

IsLeft(N, box, kept, rest) ==
    /\ rest \in Seq(N) /\ IsInjective(rest) /\ Thins(box, rest)
    /\ ToSet(rest) = {box[i] : i \in kept}

LEMMA ThinsIs ==
    ASSUME NEW N, NEW box \in Seq(N), IsInjective(box), NEW kept \in SUBSET (DOMAIN box)
    PROVE  IsLeft(N, box, kept, Picked(box, kept))
<1>1. kept \in SUBSET (1..Len(box))
  OBVIOUS
<1>2. PICK rest : rest = Picked(box, kept)
  OBVIOUS
<1>3. rest \in Seq(N) /\ \E f \in [1..Len(rest) -> kept] :
         /\ \A k \in 1..Len(rest) : rest[k] = box[f[k]]
         /\ \A i \in kept : \E k \in 1..Len(rest) : f[k] = i
         /\ \A j, k \in 1..Len(rest) : j < k => f[j] < f[k]
  BY <1>1, <1>2, PickedIs, SMTT(30)
<1>4. PICK n \in Nat : n = Len(rest) /\ DOMAIN rest = 1..n
  BY <1>3
<1>5. PICK f \in [1..n -> kept] :
         /\ \A k \in 1..n : rest[k] = box[f[k]]
         /\ \A i \in kept : \E k \in 1..n : f[k] = i
         /\ \A j, k \in 1..n : j < k => f[j] < f[k]
  BY <1>3, <1>4
<1>6. Thins(box, rest)
  <2>1. \A k \in DOMAIN rest : f[k] \in DOMAIN box /\ rest[k] = box[f[k]]
    BY <1>4, <1>5
  <2>2. \A j, k \in DOMAIN rest : j < k => f[j] < f[k]
    BY <1>4, <1>5
  <2> QED BY <2>1, <2>2 DEF Thins
<1>7. IsInjective(rest)
  <2>1. ASSUME NEW j \in 1..n, NEW k \in 1..n, rest[j] = rest[k]
        PROVE  j = k
    <3>1. f[j] \in DOMAIN box /\ f[k] \in DOMAIN box /\ box[f[j]] = box[f[k]]
      BY <1>5, <2>1
    <3>2. f[j] = f[k] /\ f[j] \in 1..Len(box)
      BY <3>1 DEF IsInjective
    <3>3. ~ (f[j] < f[k]) /\ ~ (f[k] < f[j])
      BY <3>2
    <3>4. ~ (j < k) /\ ~ (k < j)
      BY <1>5, <3>3
    <3> QED BY <3>4
  <2> QED BY <1>4, <2>1 DEF IsInjective
<1>8. ToSet(rest) = {box[i] : i \in kept}
  <2>1. ASSUME NEW k \in 1..n
        PROVE  \E i \in kept : rest[k] = box[i]
    BY <1>5
  <2>2. ASSUME NEW i \in kept
        PROVE  \E k \in 1..n : rest[k] = box[i]
    BY <1>5
  <2>3. ToSet(rest) = {rest[k] : k \in 1..n}
    BY <1>4 DEF ToSet
  <2>4. ASSUME NEW x \in {rest[k] : k \in 1..n}
        PROVE  x \in {box[i] : i \in kept}
    <3>1. PICK k \in 1..n : x = rest[k]
      OBVIOUS
    <3> QED BY <2>1, <3>1
  <2>5. ASSUME NEW x \in {box[i] : i \in kept}
        PROVE  x \in {rest[k] : k \in 1..n}
    <3>1. PICK i \in kept : x = box[i]
      OBVIOUS
    <3> QED BY <2>2, <3>1
  <2> QED BY <2>3, <2>4, <2>5
<1> QED BY <1>2, <1>3, <1>6, <1>7, <1>8 DEF IsLeft

LEMMA ReorderedAt ==
    ASSUME NEW N, NEW box \in Seq(N), IsInjective(box), NEW x \in N, NEW position \in Nat
    PROVE  \E rest : Shifted(N, box, x, position, rest, Reordered(box, x, position))
<1>1. PICK kept : kept = {i \in DOMAIN box : box[i] # x}
  OBVIOUS
<1>2. PICK rest : rest = Picked(box, kept)
  OBVIOUS
<1>3. kept \in SUBSET (DOMAIN box)
  BY <1>1
<1>4. /\ rest \in Seq(N) /\ IsInjective(rest) /\ Thins(box, rest)
      /\ ToSet(rest) = {box[i] : i \in kept}
  <2>1. IsLeft(N, box, kept, rest)
    BY <1>2, <1>3, ThinsIs
  <2> QED BY <2>1 DEF IsLeft
<1>5. ToSet(rest) = ToSet(box) \ {x}
  BY <1>1, <1>4 DEF ToSet
<1>6. PICK after : after = InsertedAt(rest, x, position)
  OBVIOUS
<1>7. after = Reordered(box, x, position)
  BY <1>1, <1>2, <1>6 DEF Reordered
<1>8. position <= Len(rest) => PutIn(N, rest, position + 1, x, after)
  BY <1>4, <1>6, InsertedWithin
<1>9. Shifted(N, box, x, position, rest, after)
  BY <1>4, <1>5, <1>8 DEF Shifted
<1> QED BY <1>7, <1>9

\* The directories of a listing are put in their places from the first to the
\* last, but for those that stay.
InTurn(stay, L, box, after) ==
    \E f : /\ f[0] = box /\ after = f[Len(L)]
           /\ \A k \in 1..Len(L) :
                 f[k] = IF k \in stay THEN f[k - 1] ELSE Reordered(f[k - 1], L[k].name, k - 1)

\* That is one order.
LEMMA InTurnOnce ==
    ASSUME NEW S, NEW L \in Seq(S), NEW stay, NEW box, NEW a, NEW b,
           InTurn(stay, L, box, a), InTurn(stay, L, box, b)
    PROVE  a = b
<1>1. PICK n \in Nat : n = Len(L)
  OBVIOUS
<1>2. PICK f : /\ f[0] = box /\ a = f[n]
               /\ \A k \in 1..n : f[k] = IF k \in stay THEN f[k - 1]
                                         ELSE Reordered(f[k - 1], L[k].name, k - 1)
  BY <1>1 DEF InTurn
<1>3. PICK g : /\ g[0] = box /\ b = g[n]
               /\ \A k \in 1..n : g[k] = IF k \in stay THEN g[k - 1]
                                         ELSE Reordered(g[k - 1], L[k].name, k - 1)
  BY <1>1 DEF InTurn
<1>4. PICK T : T = {k \in 0..n : f[k] = g[k]}
  OBVIOUS
<1>5. 0 \in T
  BY <1>1, <1>2, <1>3, <1>4
<1>6. ASSUME NEW k \in 1..n, k - 1 \in T
      PROVE  k \in T
  <2>1. f[k - 1] = g[k - 1] /\ k \in 0..n
    BY <1>4, <1>6
  <2>2. f[k] = g[k]
    BY <1>2, <1>3, <2>1
  <2> QED BY <1>4, <2>1, <2>2
<1>7. \A k \in 0..n : k \in T
  BY <1>5, <1>6, BoundedInduction
<1>8. n \in 0..n
  OBVIOUS
<1> QED BY <1>2, <1>3, <1>4, <1>7, <1>8

\* Lists of two and of three.
Two(N, s, x, y) ==
    s \in Seq(N) /\ IsInjective(s) /\ x # y /\ ToSet(s) = {x, y} /\ s[1] = x

Three(N, s, x, y, z, p, q) ==
    /\ s \in Seq(N) /\ IsInjective(s) /\ x # y /\ x # z /\ y # z
    /\ ToSet(s) = {x, y, z} /\ s[1] = x
    /\ p \in DOMAIN s /\ q \in DOMAIN s /\ s[p] = y /\ s[q] = z /\ p < q

LEMMA TwoIs ==
    ASSUME NEW N, NEW s, NEW x, NEW y, Two(N, s, x, y)
    PROVE  Len(s) = 2 /\ s[2] = y
<1>0. s \in Seq(N) /\ IsInjective(s) /\ x # y /\ ToSet(s) = {x, y} /\ s[1] = x
  BY DEF Two
<1>1. PICK n \in Nat : n = Len(s) /\ DOMAIN s = 1..n
  BY <1>0
<1>2. PICK p \in 1..n : s[p] = y
  BY <1>0, <1>1 DEF ToSet
<1>3. \A k \in 1..n : s[k] = x \/ s[k] = y
  BY <1>0, <1>1 DEF ToSet
<1>4. p # 1 /\ 1 \in 1..n
  BY <1>0, <1>2
<1>5. ASSUME NEW k \in 1..n
      PROVE  k = 1 \/ k = p
  BY <1>0, <1>1, <1>2, <1>3, <1>4 DEF IsInjective
<1>6. p = 2
  <2>1. 2 \in 1..n
    BY <1>4
  <2> QED BY <1>5, <2>1
<1>7. n = 2
  <2>1. n \in 1..n
    BY <1>4
  <2> QED BY <1>4, <1>5, <1>6, <2>1
<1> QED BY <1>1, <1>2, <1>6, <1>7

LEMMA ThreeIs ==
    ASSUME NEW N, NEW s, NEW x, NEW y, NEW z, NEW p, NEW q, Three(N, s, x, y, z, p, q)
    PROVE  Len(s) = 3 /\ s[2] = y /\ s[3] = z
<1>0. /\ s \in Seq(N) /\ IsInjective(s) /\ x # y /\ x # z /\ y # z
      /\ ToSet(s) = {x, y, z} /\ s[1] = x
      /\ p \in DOMAIN s /\ q \in DOMAIN s /\ s[p] = y /\ s[q] = z /\ p < q
  BY DEF Three
<1>1. PICK n \in Nat : n = Len(s) /\ DOMAIN s = 1..n /\ p \in 1..n /\ q \in 1..n
  BY <1>0
<1>2. \A k \in 1..n : s[k] = x \/ s[k] = y \/ s[k] = z
  BY <1>0, <1>1 DEF ToSet
<1>3. 1 \in 1..n /\ p # 1 /\ q # 1
  BY <1>0, <1>1
<1>4. ASSUME NEW k \in 1..n
      PROVE  k = 1 \/ k = p \/ k = q
  BY <1>0, <1>1, <1>2, <1>3 DEF IsInjective
<1>5. p = 2
  <2>1. 2 \in 1..n
    BY <1>1, <1>3
  <2> QED BY <1>0, <1>1, <1>3, <1>4, <2>1
<1>6. q = 3
  <2>1. 3 \in 1..n
    BY <1>0, <1>1, <1>5
  <2> QED BY <1>0, <1>1, <1>4, <1>5, <2>1
<1>7. n = 3
  <2>1. n \in 1..n
    BY <1>3
  <2> QED BY <1>1, <1>4, <1>5, <1>6, <2>1
<1> QED BY <1>0, <1>1, <1>5, <1>6, <1>7

First(s, x) == 1 \in DOMAIN s /\ s[1] = x

Ahead(s, x, y) == \E p, q \in DOMAIN s : p < q /\ s[p] = x /\ s[q] = y

\* What is left keeps its order.
LEMMA ThinsKeeps ==
    ASSUME NEW N, NEW s \in Seq(N), IsInjective(s), NEW t \in Seq(N), Thins(s, t)
    PROVE  /\ \A x \in ToSet(t) : First(s, x) => First(t, x)
           /\ \A x, y \in ToSet(t) : Ahead(s, x, y) => Ahead(t, x, y)
<1>1. PICK g : /\ \A k \in DOMAIN t : g[k] \in DOMAIN s /\ t[k] = s[g[k]]
               /\ \A j, k \in DOMAIN t : j < k => g[j] < g[k]
  BY DEF Thins
<1>2. PICK m \in Nat : m = Len(s) /\ DOMAIN s = 1..m
  OBVIOUS
<1>3. PICK n \in Nat : n = Len(t) /\ DOMAIN t = 1..n
  OBVIOUS
<1>4. ASSUME NEW x \in ToSet(t), NEW i \in 1..m, s[i] = x
      PROVE  \E k \in 1..n : t[k] = x /\ g[k] = i
  <2>1. PICK k \in 1..n : t[k] = x
    BY <1>3 DEF ToSet
  <2>2. g[k] \in 1..m /\ s[g[k]] = s[i]
    BY <1>1, <1>2, <1>3, <1>4, <2>1
  <2>3. g[k] = i
    BY <1>2, <2>2 DEF IsInjective
  <2> QED BY <2>1, <2>3
<1>5. ASSUME NEW x \in ToSet(t), First(s, x)
      PROVE  First(t, x)
  <2>1. 1 \in 1..m /\ s[1] = x
    BY <1>2, <1>5 DEF First
  <2>2. PICK k \in 1..n : t[k] = x /\ g[k] = 1
    BY <1>4, <2>1
  <2>3. ASSUME k # 1
        PROVE  FALSE
    <3>1. 1 \in 1..n /\ 1 < k
      BY <2>3
    <3>2. g[1] < 1 /\ g[1] \in 1..m
      BY <1>1, <1>2, <1>3, <2>2, <3>1
    <3> QED BY <3>2
  <2> QED BY <1>3, <2>2, <2>3 DEF First
<1>6. ASSUME NEW x \in ToSet(t), NEW y \in ToSet(t), Ahead(s, x, y)
      PROVE  Ahead(t, x, y)
  <2>1. PICK p \in 1..m, q \in 1..m : p < q /\ s[p] = x /\ s[q] = y
    BY <1>2, <1>6 DEF Ahead
  <2>2. PICK j \in 1..n : t[j] = x /\ g[j] = p
    BY <1>4, <2>1
  <2>3. PICK k \in 1..n : t[k] = y /\ g[k] = q
    BY <1>4, <2>1
  <2>4. ~ (k < j) /\ k # j
    <3>1. k < j => g[k] < g[j]
      BY <1>1, <1>3
    <3>2. ~ (g[k] < g[j]) /\ g[k] # g[j]
      BY <2>1, <2>2, <2>3
    <3> QED BY <3>1, <3>2
  <2>5. j < k
    BY <2>4
  <2> QED BY <1>3, <2>2, <2>3, <2>5 DEF Ahead
<1> QED BY <1>5, <1>6

\* What has been put in its place, and what was there before.
Turned(N, box, x, position, after) ==
    /\ after \in Seq(N) /\ IsInjective(after) /\ ToSet(after) = ToSet(box) \cup {x}
    /\ position = 0 => /\ First(after, x)
                       /\ \A y, z : y # x /\ z # x /\ Ahead(box, y, z) => Ahead(after, y, z)
    /\ position = 1 =>
          \A y : y # x /\ First(box, y) => First(after, y) /\ 2 \in DOMAIN after /\ after[2] = x
    /\ position = 2 =>
          \A y, z : /\ y # x /\ z # x /\ y # z /\ First(box, y)
                    /\ ToSet(box) \ {x} = {y, z}
                    => Len(after) = 3 /\ after[1] = y /\ after[2] = z /\ after[3] = x

LEMMA TurnKeeps ==
    ASSUME NEW N, NEW box \in Seq(N), IsInjective(box), NEW x \in N, NEW position \in Nat,
           NEW after, after = Reordered(box, x, position)
    PROVE  Turned(N, box, x, position, after)
<1>1. Joined(N, box, x, after)
  BY ReorderedIs
<1>2. PICK rest : Shifted(N, box, x, position, rest, after)
  BY ReorderedAt
<1>3. /\ rest \in Seq(N) /\ IsInjective(rest) /\ ToSet(rest) = ToSet(box) \ {x} /\ Thins(box, rest)
      /\ position <= Len(rest) => PutIn(N, rest, position + 1, x, after)
  BY <1>2 DEF Shifted
<1>4. PICK n \in Nat : n = Len(rest) /\ DOMAIN rest = 1..n
  BY <1>3
<1>5. /\ \A y \in ToSet(rest) : First(box, y) => First(rest, y)
      /\ \A y, z \in ToSet(rest) : Ahead(box, y, z) => Ahead(rest, y, z)
  BY <1>3, ThinsKeeps
<1>6. ASSUME position <= n
      PROVE  /\ DOMAIN after = 1..(n + 1) /\ Len(after) = n + 1
             /\ after[position + 1] = x
             /\ \A k \in 1..position : after[k] = rest[k]
             /\ \A k \in (position + 1)..n : after[k + 1] = rest[k]
  <2>1. PutIn(N, rest, position + 1, x, after)
    BY <1>3, <1>4, <1>6
  <2> QED BY <1>1, <1>4, <1>6, <2>1 DEF PutIn, Joined
<1>7. ASSUME NEW y, y # x, First(box, y)
      PROVE  1 \in 1..n /\ rest[1] = y
  <2>1. y \in ToSet(box)
    BY <1>7 DEF First, ToSet
  <2>2. y \in ToSet(rest)
    BY <1>3, <1>7, <2>1
  <2> QED BY <1>4, <1>5, <1>7, <2>2 DEF First
<1>8. ASSUME position = 0
      PROVE  /\ First(after, x)
             /\ \A y, z : y # x /\ z # x /\ Ahead(box, y, z) => Ahead(after, y, z)
  <2>1. /\ DOMAIN after = 1..(n + 1) /\ after[1] = x
        /\ \A k \in 1..n : after[k + 1] = rest[k]
    BY <1>6, <1>8
  <2>2. First(after, x)
    BY <2>1 DEF First
  <2>3. ASSUME NEW y, NEW z, y # x, z # x, Ahead(box, y, z)
        PROVE  Ahead(after, y, z)
    <3>1. y \in ToSet(box) /\ z \in ToSet(box)
      BY <2>3 DEF Ahead, ToSet
    <3>2. Ahead(rest, y, z)
      BY <1>3, <1>5, <2>3, <3>1
    <3>3. PICK p \in 1..n, q \in 1..n : p < q /\ rest[p] = y /\ rest[q] = z
      BY <1>4, <3>2 DEF Ahead
    <3>4. p + 1 \in 1..(n + 1) /\ q + 1 \in 1..(n + 1) /\ p + 1 < q + 1
      BY <3>3
    <3>5. after[p + 1] = y /\ after[q + 1] = z
      BY <2>1, <3>3
    <3> QED BY <2>1, <3>4, <3>5 DEF Ahead
  <2> QED BY <2>2, <2>3
<1>9. ASSUME position = 1, NEW y, y # x, First(box, y)
      PROVE  First(after, y) /\ 2 \in DOMAIN after /\ after[2] = x
  <2>1. 1 \in 1..n /\ rest[1] = y
    BY <1>7, <1>9
  <2>2. DOMAIN after = 1..(n + 1) /\ after[2] = x /\ after[1] = y
    BY <1>6, <1>9, <2>1
  <2> QED BY <2>1, <2>2 DEF First
<1>10. ASSUME position = 2, NEW y, NEW z, y # x, z # x, y # z, First(box, y),
              ToSet(box) \ {x} = {y, z}
       PROVE  Len(after) = 3 /\ after[1] = y /\ after[2] = z /\ after[3] = x
  <2>1. rest[1] = y
    BY <1>7, <1>10
  <2>3. Two(N, rest, y, z)
    BY <1>3, <1>10, <2>1 DEF Two
  <2>2. n = 2 /\ rest[2] = z
    BY <1>4, <2>3, TwoIs
  <2> QED BY <1>6, <1>10, <2>1, <2>2
<1> QED BY <1>1, <1>8, <1>9, <1>10 DEF Joined, Turned

\* The directories that have the same place in both listings.
StillAt(L0, L) == {k \in DOMAIN L : k \in DOMAIN L0 /\ L0[k].name = L[k].name}

\* What the box becomes from one listing to the next.
Rearranges(L0, L, vbox, after) ==
    InTurn(StillAt(L0, L), L,
           Picked(vbox, {i \in DOMAIN vbox : vbox[i] \in {L[j].name : j \in DOMAIN L}}), after)

\* Directories of these names, each listed once.
NamesIn(N, L) == NamedOnce(L) /\ \A j \in DOMAIN L : L[j].name \in N

\* The box is in the order of the listing.
AsListed(L, vbox) == vbox = [j \in DOMAIN L |-> L[j].name]

\* Up to three directories get in order when those before them were: the first
\* goes to the front, the second behind it, and nothing is left to be wrong.
LEMMA UpToThree ==
    ASSUME NEW N, NEW S, NEW L0 \in Seq(S), NamesIn(N, L0),
           NEW L \in Seq(S), NamesIn(N, L), Len(L) <= 3,
           NEW vbox, AsListed(L0, vbox), NEW after, Rearranges(L0, L, vbox, after)
    PROVE  AsListed(L, after)
<1>1. PICK n \in 0..3 : n = Len(L) /\ DOMAIN L = 1..n
  <2>1. PICK m \in Nat : m = Len(L) /\ DOMAIN L = 1..m
    OBVIOUS
  <2>2. m \in 0..3
    BY <2>1
  <2> QED BY <2>1, <2>2
<1>2. PICK a : a = [j \in 1..n |-> L[j].name]
  OBVIOUS
<1>3. a \in Seq(N) /\ Len(a) = n /\ \A j \in 1..n : a[j] = L[j].name /\ a[j] \in N
  BY <1>1, <1>2 DEF NamesIn
<1>4. \A j, k \in 1..n : a[j] = a[k] => j = k
  BY <1>1, <1>3 DEF NamesIn, NamedOnce
<1>5. vbox \in Seq(N) /\ IsInjective(vbox)
  <2>1. PICK m \in Nat : m = Len(L0) /\ DOMAIN L0 = 1..m
    OBVIOUS
  <2>2. vbox = [j \in 1..m |-> L0[j].name] /\ \A j \in 1..m : L0[j].name \in N
    BY <2>1 DEF AsListed, NamesIn
  <2>3. vbox \in Seq(N) /\ DOMAIN vbox = 1..m /\ \A j \in 1..m : vbox[j] = L0[j].name
    BY <2>2
  <2> QED BY <2>1, <2>3 DEF NamesIn, NamedOnce, IsInjective
<1>6. PICK all : all = {L[j].name : j \in DOMAIN L}
  OBVIOUS
<1>7. \A x : x \in all <=> \E j \in 1..n : x = a[j]
  BY <1>1, <1>3, <1>6
<1>8. PICK kept : kept = {i \in DOMAIN vbox : vbox[i] \in all}
  OBVIOUS
<1>9. PICK box : box = Picked(vbox, kept)
  OBVIOUS
<1>10. /\ box \in Seq(N) /\ IsInjective(box) /\ Thins(vbox, box)
       /\ ToSet(box) = {vbox[i] : i \in kept}
  <2>1. kept \in SUBSET (DOMAIN vbox)
    BY <1>8
  <2>2. IsLeft(N, vbox, kept, box)
    BY <1>5, <1>9, <2>1, ThinsIs
  <2> QED BY <2>2 DEF IsLeft
<1>11. ToSet(box) = ToSet(vbox) \cap all
  <2>1. ToSet(vbox) = {vbox[i] : i \in DOMAIN vbox}
    BY DEF ToSet
  <2>2. \A x : x \in ToSet(box) <=> \E i \in DOMAIN vbox : vbox[i] \in all /\ x = vbox[i]
    BY <1>8, <1>10
  <2> QED BY <2>1, <2>2
<1>12. PICK stay : stay = StillAt(L0, L)
  OBVIOUS
<1>13. PICK f : /\ f[0] = box /\ after = f[n]
                /\ \A k \in 1..n : f[k] = IF k \in stay THEN f[k - 1]
                                          ELSE Reordered(f[k - 1], a[k], k - 1)
  <2>1. InTurn(stay, L, box, after)
    BY <1>6, <1>8, <1>9, <1>12 DEF Rearranges
  <2> QED BY <1>1, <1>3, <2>1 DEF InTurn
<1>14. ASSUME NEW k \in 1..n, k \in stay
       PROVE  k \in DOMAIN vbox /\ vbox[k] = a[k] /\ a[k] \in ToSet(box)
  <2>1. k \in DOMAIN vbox /\ vbox[k] = a[k]
    BY <1>3, <1>12, <1>14 DEF StillAt, AsListed
  <2>2. a[k] \in ToSet(vbox)
    BY <2>1 DEF ToSet
  <2> QED BY <1>7, <1>11, <2>1, <2>2
<1>15. ASSUME n # 0
       PROVE  /\ f[1] \in Seq(N) /\ IsInjective(f[1])
              /\ ToSet(f[1]) = ToSet(box) \cup {a[1]} /\ First(f[1], a[1])
              /\ \A y, z : y # a[1] /\ z # a[1] /\ Ahead(box, y, z) => Ahead(f[1], y, z)
  <2>1. 1 \in 1..n /\ a[1] \in N
    BY <1>3, <1>15
  <2>2. CASE 1 \in stay
    <3>1. f[1] = box
      BY <1>13, <2>1, <2>2
    <3>2. First(vbox, a[1]) /\ a[1] \in ToSet(box)
      BY <1>14, <2>1, <2>2 DEF First
    <3>3. First(box, a[1])
      BY <1>5, <1>10, <3>2, ThinsKeeps
    <3> QED BY <1>10, <3>1, <3>2, <3>3
  <2>3. CASE 1 \notin stay
    <3>1. f[1] = Reordered(box, a[1], 0)
      BY <1>13, <2>1, <2>3
    <3>2. Turned(N, box, a[1], 0, f[1])
      BY <1>10, <2>1, <3>1, TurnKeeps
    <3> QED BY <3>2 DEF Turned
  <2> QED BY <2>2, <2>3
<1>16. ASSUME n \in {2, 3}
       PROVE  /\ f[2] \in Seq(N) /\ IsInjective(f[2])
              /\ ToSet(f[2]) = ToSet(f[1]) \cup {a[2]} /\ First(f[2], a[1])
              /\ 2 \in stay => f[2] = f[1]
              /\ 2 \notin stay => 2 \in DOMAIN f[2] /\ f[2][2] = a[2]
  <2>1. 1 \in 1..n /\ 2 \in 1..n /\ a[2] \in N /\ a[1] # a[2] /\ n # 0
    BY <1>3, <1>4, <1>16
  <2>2. f[1] \in Seq(N) /\ IsInjective(f[1]) /\ First(f[1], a[1])
    BY <1>15, <2>1
  <2>3. CASE 2 \in stay
    <3>1. f[2] = f[1]
      BY <1>13, <2>1, <2>3
    <3>2. a[2] \in ToSet(f[1])
      BY <1>14, <1>15, <2>1, <2>3
    <3> QED BY <2>2, <2>3, <3>1, <3>2
  <2>4. CASE 2 \notin stay
    <3>1. f[2] = Reordered(f[1], a[2], 1)
      BY <1>13, <2>1, <2>4
    <3>2. Turned(N, f[1], a[2], 1, f[2])
      BY <2>1, <2>2, <3>1, TurnKeeps
    <3> QED BY <2>1, <2>2, <2>4, <3>2 DEF Turned
  <2> QED BY <2>3, <2>4
<1>17. ASSUME n = 3
       PROVE  after = a
  <2>1. /\ 1 \in 1..n /\ 2 \in 1..n /\ 3 \in 1..n
        /\ a[1] \in N /\ a[2] \in N /\ a[3] \in N
        /\ a[1] # a[2] /\ a[1] # a[3] /\ a[2] # a[3]
    BY <1>3, <1>4, <1>17
  <2>2. f[2] \in Seq(N) /\ IsInjective(f[2]) /\ First(f[2], a[1])
    BY <1>16, <1>17
  <2>3. ToSet(f[2]) = ToSet(box) \cup {a[1], a[2]}
    BY <1>15, <1>16, <1>17
  <2>4. all = {a[1], a[2], a[3]}
    BY <1>7, <1>17, <2>1
  <2>5. after = f[3]
    BY <1>13, <1>17
  <2>6. CASE 3 \notin stay
    <3>1. f[3] = Reordered(f[2], a[3], 2)
      BY <1>13, <2>1, <2>6
    <3>2. ToSet(f[2]) \ {a[3]} = {a[1], a[2]}
      BY <1>11, <2>1, <2>3, <2>4
    <3>3. Turned(N, f[2], a[3], 2, f[3])
      BY <2>1, <2>2, <3>1, TurnKeeps
    <3>4. /\ f[3] \in Seq(N) /\ Len(f[3]) = 3
          /\ f[3][1] = a[1] /\ f[3][2] = a[2] /\ f[3][3] = a[3]
      BY <2>1, <2>2, <3>2, <3>3 DEF Turned
    <3>5. \A k \in 1..3 : f[3][k] = a[k]
      BY <3>4
    <3>6. Len(f[3]) = Len(a) /\ \A k \in 1..Len(f[3]) : f[3][k] = a[k]
      BY <1>3, <1>17, <3>4, <3>5
    <3> QED BY <1>3, <2>5, <3>4, <3>6, SeqEqual
  <2>7. CASE 3 \in stay
    <3>1. f[3] = f[2]
      BY <1>13, <2>1, <2>7
    <3>2. a[3] \in ToSet(box)
      BY <1>14, <2>1, <2>7
    <3>3. ToSet(f[2]) = {a[1], a[2], a[3]}
      BY <1>11, <2>3, <2>4, <3>2
    <3>4. Ahead(f[2], a[2], a[3])
      <4>1. CASE 2 \notin stay
        <5>1. PICK m \in Nat : DOMAIN f[2] = 1..m
          BY <2>2
        <5>2. 1 \in 1..m /\ f[2][1] = a[1]
          BY <2>2, <5>1 DEF First
        <5>3. 2 \in 1..m /\ f[2][2] = a[2]
          BY <1>16, <1>17, <4>1, <5>1
        <5>4. PICK q \in 1..m : f[2][q] = a[3]
          BY <3>3, <5>1 DEF ToSet
        <5>5. q # 1 /\ q # 2
          BY <2>1, <5>2, <5>3, <5>4
        <5>6. 2 < q
          BY <5>5
        <5> QED BY <5>1, <5>3, <5>4, <5>6 DEF Ahead
      <4>2. CASE 2 \in stay
        <5>1. /\ 2 \in DOMAIN vbox /\ vbox[2] = a[2] /\ a[2] \in ToSet(box)
              /\ 3 \in DOMAIN vbox /\ vbox[3] = a[3] /\ a[3] \in ToSet(box)
          BY <1>14, <2>1, <2>7, <4>2
        <5>2. Ahead(vbox, a[2], a[3])
          BY <5>1 DEF Ahead
        <5>3. Ahead(box, a[2], a[3])
          BY <1>5, <1>10, <5>1, <5>2, ThinsKeeps
        <5>4. Ahead(f[1], a[2], a[3])
          BY <1>15, <1>17, <2>1, <5>3
        <5> QED BY <1>16, <1>17, <4>2, <5>4
      <4> QED BY <4>1, <4>2
    <3>5. Len(f[2]) = 3 /\ f[2][1] = a[1] /\ f[2][2] = a[2] /\ f[2][3] = a[3]
      <4>1. PICK p \in DOMAIN f[2], q \in DOMAIN f[2] : p < q /\ f[2][p] = a[2] /\ f[2][q] = a[3]
        BY <3>4 DEF Ahead
      <4>2. f[2][1] = a[1]
        BY <2>2 DEF First
      <4>3. PICK s \in Seq(N) : s = f[2] /\ IsInjective(s)
        BY <2>2
      <4>4. PICK x, y, z : x = a[1] /\ y = a[2] /\ z = a[3]
        OBVIOUS
      <4>5. Three(N, s, x, y, z, p, q)
        BY <2>1, <3>3, <4>1, <4>2, <4>3, <4>4 DEF Three
      <4>6. Len(s) = 3 /\ s[2] = y /\ s[3] = z
        BY <4>5, ThreeIs
      <4> QED BY <4>2, <4>3, <4>4, <4>6
    <3>6. \A k \in 1..3 : f[2][k] = a[k]
      BY <3>5
    <3>7. \A k \in 1..Len(f[2]) : f[2][k] = a[k]
      BY <3>5, <3>6
    <3>8. Len(f[2]) = Len(a)
      BY <1>3, <1>17, <3>5
    <3>9. f[2] = a
      BY <1>3, <2>2, <3>7, <3>8, SeqEqual
    <3> QED BY <2>5, <3>1, <3>9
  <2> QED BY <2>6, <2>7
<1>18. ASSUME n = 2
       PROVE  after = a
  <2>1. 1 \in 1..n /\ 2 \in 1..n /\ a[1] # a[2]
    BY <1>4, <1>18
  <2>2. f[2] \in Seq(N) /\ IsInjective(f[2]) /\ f[2][1] = a[1]
    BY <1>16, <1>18 DEF First
  <2>3. all = {a[1], a[2]}
    BY <1>7, <1>18, <2>1
  <2>4. ToSet(f[2]) = {a[1], a[2]}
    <3>1. ToSet(f[1]) = ToSet(box) \cup {a[1]}
      BY <1>15, <1>18
    <3>2. ToSet(f[2]) = ToSet(f[1]) \cup {a[2]}
      BY <1>16, <1>18
    <3>3. \A x \in ToSet(box) : x = a[1] \/ x = a[2]
      BY <1>11, <2>3
    <3> QED BY <3>1, <3>2, <3>3
  <2>5. Len(f[2]) = 2 /\ f[2][2] = a[2]
    <3>1. PICK s \in Seq(N) : s = f[2] /\ IsInjective(s)
      BY <2>2
    <3>2. PICK x, y : x = a[1] /\ y = a[2]
      OBVIOUS
    <3>3. Two(N, s, x, y)
      BY <2>1, <2>2, <2>4, <3>1, <3>2 DEF Two
    <3>4. Len(s) = 2 /\ s[2] = y
      BY <3>3, TwoIs
    <3> QED BY <3>1, <3>2, <3>4
  <2>6. \A k \in 1..2 : f[2][k] = a[k]
    BY <2>2, <2>5
  <2>7. Len(f[2]) = Len(a) /\ \A k \in 1..Len(f[2]) : f[2][k] = a[k]
    BY <1>3, <1>18, <2>5, <2>6
  <2>8. f[2] = a
    BY <1>3, <2>2, <2>7, SeqEqual
  <2> QED BY <1>13, <1>18, <2>8
<1>19. ASSUME n = 1
       PROVE  after = a
  <2>1. f[1] \in Seq(N) /\ IsInjective(f[1]) /\ First(f[1], a[1])
    BY <1>15, <1>19
  <2>2. ToSet(f[1]) = {a[1]}
    <3>1. ToSet(f[1]) = ToSet(box) \cup {a[1]}
      BY <1>15, <1>19
    <3>2. \A j \in 1..n : j = 1
      BY <1>19
    <3>3. \A x \in ToSet(box) : x = a[1]
      BY <1>7, <1>11, <3>2
    <3> QED BY <3>1, <3>3
  <2>3. PICK m \in Nat : m = Len(f[1]) /\ DOMAIN f[1] = 1..m
    BY <2>1
  <2>4. 1 \in 1..m /\ f[1][1] = a[1]
    BY <2>1, <2>3 DEF First
  <2>5. \A k \in 1..m : f[1][k] = a[1]
    BY <2>2, <2>3 DEF ToSet
  <2>6. m = 1
    <3>1. m \in 1..m
      BY <2>4
    <3>2. f[1][m] = f[1][1]
      BY <2>4, <2>5, <3>1
    <3> QED BY <2>1, <2>3, <2>4, <3>1, <3>2 DEF IsInjective
  <2>7. Len(f[1]) = Len(a) /\ \A k \in 1..Len(f[1]) : f[1][k] = a[k]
    BY <1>3, <1>19, <2>3, <2>5, <2>6
  <2>8. f[1] = a
    BY <1>3, <2>1, <2>7, SeqEqual
  <2> QED BY <1>13, <1>19, <2>8
<1>20. ASSUME n = 0
       PROVE  after = a
  <2>1. ToSet(box) = {}
    BY <1>7, <1>11, <1>20
  <2>2. DOMAIN box = {}
    BY <2>1 DEF ToSet
  <2>3. Len(box) = 0
    BY <1>10, <2>2
  <2> QED BY <1>3, <1>10, <1>13, <1>20, <2>3, SeqEqual
<1>21. n = 0 \/ n = 1 \/ n = 2 \/ n = 3
  OBVIOUS
<1> QED BY <1>1, <1>2, <1>17, <1>18, <1>19, <1>20, <1>21 DEF AsListed

\* Every rank is a widget's, and no two widgets' is the same.
Rankings(widgets) ==
    /\ \A i \in DOMAIN widgets : widgets[i].rank \in 0..(Len(widgets) - 1)
    /\ \A i, j \in DOMAIN widgets : widgets[i].rank = widgets[j].rank => i = j
    /\ \A r \in 0..(Len(widgets) - 1) : \E i \in DOMAIN widgets : widgets[i].rank = r

Moves(widget) == is_new(widget) \/ widget.rank # widget.old_rank

ByRank(widgets) == [k \in 1..Len(widgets) |-> widgets[Ranked(widgets, k - 1)]]

\* What has moved is packed; when nothing has, the box stays as it is.
Packed(N, box, widgets, after) ==
    /\ after \in Seq(N) /\ IsInjective(after)
    /\ ToSet(after) = ToSet(box) \cup
          {widgets[i].name : i \in {j \in DOMAIN widgets : Moves(widgets[j])}}
    /\ (\A i \in DOMAIN widgets : ~ Moves(widgets[i])) => after = box
    /\ InTurn({k \in 1..Len(widgets) : ~ Moves(ByRank(widgets)[k])}, ByRank(widgets), box, after)

LEMMA ArrangedIs ==
    ASSUME NEW N, NEW D, NEW box \in Seq(N), IsInjective(box), NEW widgets \in Seq(D),
           Rankings(widgets), \A i \in DOMAIN widgets : widgets[i].name \in N
    PROVE  Packed(N, box, widgets, Arranged(box, widgets))
<1>1. PICK n \in Nat : n = Len(widgets) /\ DOMAIN widgets = 1..n
  OBVIOUS
<1> DEFINE Widget(k) == widgets[Ranked(widgets, k - 1)]
           Next(v, k) == IF Moves(Widget(k)) THEN Reordered(v, Widget(k).name, k - 1) ELSE v
           Moved(k) == {j \in DOMAIN widgets : Moves(widgets[j]) /\ widgets[j].rank < k}
           Done(v, k) ==
               /\ v \in Seq(N) /\ IsInjective(v)
               /\ ToSet(v) = ToSet(box) \cup {widgets[i].name : i \in Moved(k)}
               /\ (\A i \in DOMAIN widgets : ~ Moves(widgets[i])) => v = box
           Is(f) == f = [k \in 0..n |-> IF k = 0 THEN box ELSE Next(f[k - 1], k)]
           after == CHOOSE f : Is(f)
<1>2. Arranged(box, widgets) = after[n]
  BY <1>1 DEF Arranged, Moves
<1>3. \A i \in DOMAIN widgets : widgets[i].rank \in Nat /\ widgets[i].rank < n
  BY <1>1 DEF Rankings
<1>4. Done(box, 0)
  <2>1. Moved(0) = {}
    BY <1>3
  <2> QED BY <2>1
<1>5. ASSUME NEW k \in 1..n
      PROVE  \E i \in DOMAIN widgets : /\ Ranked(widgets, k - 1) = i /\ widgets[i].rank = k - 1
                                       /\ Moved(k) = Moved(k - 1) \cup (IF Moves(widgets[i]) THEN {i} ELSE {})
  <2>1. \E i \in DOMAIN widgets : widgets[i].rank = k - 1
    <3>1. k - 1 \in 0..(Len(widgets) - 1)
      BY <1>1
    <3> QED BY <3>1 DEF Rankings
  <2>2. PICK i \in DOMAIN widgets : i = Ranked(widgets, k - 1) /\ widgets[i].rank = k - 1
    BY <2>1, RankedIs
  <2>3. ASSUME NEW j \in DOMAIN widgets
        PROVE  widgets[j].rank < k <=> widgets[j].rank < k - 1 \/ j = i
    <3>1. PICK r \in Nat : r = widgets[j].rank
      BY <1>3
    <3>2. r = k - 1 <=> j = i
      BY <2>2, <3>1 DEF Rankings
    <3> QED BY <3>1, <3>2
  <2>4. Moved(k) = Moved(k - 1) \cup (IF Moves(widgets[i]) THEN {i} ELSE {})
    BY <2>3
  <2> HIDE DEF Moved
  <2> QED BY <2>2, <2>4
<1>6. ASSUME NEW k \in 1..n, NEW v, Done(v, k - 1)
      PROVE  Done(Next(v, k), k)
  <2>1. PICK i \in DOMAIN widgets :
           /\ Ranked(widgets, k - 1) = i /\ widgets[i].rank = k - 1
           /\ Moved(k) = Moved(k - 1) \cup (IF Moves(widgets[i]) THEN {i} ELSE {})
    <3> HIDE DEF Moved
    <3> QED BY <1>5
  <2> HIDE DEF Moved
  <2>2. CASE Moves(widgets[i])
    <3>1. PICK x \in N : x = widgets[i].name
      OBVIOUS
    <3>2. PICK position \in Nat : position = k - 1
      OBVIOUS
    <3>3. PICK w : w = Reordered(v, x, position)
      OBVIOUS
    <3>9. v \in Seq(N) /\ IsInjective(v)
      BY <1>6
    <3>10. Joined(N, v, x, w)
      <4> HIDE DEF Done, Next
      <4> QED BY <3>3, <3>9, ReorderedIs
    <3>4. w \in Seq(N) /\ IsInjective(w) /\ ToSet(w) = ToSet(v) \cup {x}
      BY <3>10 DEF Joined
    <3>5. w = Next(v, k)
      BY <2>1, <2>2, <3>1, <3>2, <3>3
    <3>6. Moved(k) = Moved(k - 1) \cup {i}
      BY <2>1, <2>2
    <3>7. ToSet(w) = ToSet(box) \cup {widgets[j].name : j \in Moved(k)}
      BY <1>6, <3>1, <3>4, <3>6
    <3>8. Done(w, k)
      BY <2>2, <3>4, <3>7
    <3> HIDE DEF Done, Next
    <3> QED BY <3>5, <3>8
  <2>3. CASE ~ Moves(widgets[i])
    <3>1. Next(v, k) = v
      BY <2>1, <2>3
    <3>2. Moved(k) = Moved(k - 1)
      BY <2>1, <2>3
    <3>3. Done(v, k)
      BY <1>6, <3>2
    <3> HIDE DEF Done, Next
    <3> QED BY <3>1, <3>3
  <2> QED BY <2>2, <2>3
<1>7. PICK All : All = Seq(N)
  OBVIOUS
<1>8. PICK W : W = [k \in 0..n |-> {v \in All : Done(v, k)}]
  OBVIOUS
<1>9. PICK step : step = [k \in 1..n |-> [v \in All |-> Next(v, k)]]
  OBVIOUS
<1>10. \A k : \A v : Done(v, k) => v \in All
  BY <1>7
<1> HIDE DEF Done, Next, after
<1>11. \A k \in 0..n : \A v : v \in W[k] <=> Done(v, k)
  BY <1>8, <1>10
<1>12. \A k \in 1..n : \A v \in All : step[k][v] = Next(v, k)
  BY <1>9
<1>13. box \in W[0]
  BY <1>1, <1>4, <1>11
<1>14. \A k \in 1..n : \A v \in W[k - 1] : step[k][v] \in W[k]
  <2>1. \A k \in 1..n : k - 1 \in 0..n /\ k \in 0..n
    OBVIOUS
  <2> QED BY <1>6, <1>10, <1>11, <1>12, <2>1
<1>15. PICK g : /\ g = [k \in 0..n |-> g[k]] /\ Iterates(g, n, box, step)
                /\ \A k \in 0..n : g[k] \in W[k]
  BY <1>13, <1>14, StageByStage
<1>16. Is(g)
  <2>1. ASSUME NEW k \in 0..n
        PROVE  g[k] = IF k = 0 THEN box ELSE Next(g[k - 1], k)
    <3>1. CASE k = 0
      BY <1>15, <3>1 DEF Iterates
    <3>2. CASE k # 0
      <4>1. k \in 1..n /\ k - 1 \in 0..n
        BY <3>2
      <4>2. g[k - 1] \in All
        BY <1>10, <1>11, <1>15, <4>1
      <4>3. g[k] = step[k][g[k - 1]]
        BY <1>15, <4>1 DEF Iterates
      <4> QED BY <1>12, <3>2, <4>1, <4>2, <4>3
    <3> QED BY <3>1, <3>2
  <2> QED BY <1>15, <2>1
<1>17. Is(after)
  <2> HIDE DEF Is
  <2> QED BY <1>16 DEF after
<1>18. PICK T : T = {k \in 0..n : Done(after[k], k)}
  OBVIOUS
<1>19. 0 \in T
  BY <1>1, <1>4, <1>17, <1>18
<1>20. ASSUME NEW k \in 1..n, k - 1 \in T
       PROVE  k \in T
  <2>1. k \in 0..n /\ k # 0
    OBVIOUS
  <2>2. after[k] = Next(after[k - 1], k)
    BY <1>17, <2>1
  <2>3. Done(after[k - 1], k - 1)
    BY <1>18, <1>20
  <2>4. Done(after[k], k)
    BY <1>6, <2>2, <2>3
  <2> QED BY <1>18, <2>1, <2>4
<1>21. \A k \in 0..n : k \in T
  BY <1>19, <1>20, BoundedInduction
<1>22. Done(after[n], n)
  <2>1. n \in 0..n
    BY <1>1
  <2> QED BY <1>18, <1>21, <2>1
<1>23. Moved(n) = {j \in DOMAIN widgets : Moves(widgets[j])}
  BY <1>3
<1>24. PICK a : a = Arranged(box, widgets)
  OBVIOUS
<1>25. InTurn({k \in 1..Len(widgets) : ~ Moves(ByRank(widgets)[k])}, ByRank(widgets), box, a)
  <2>1. PICK w : w = ByRank(widgets)
    OBVIOUS
  <2>2. Len(w) = n /\ \A k \in 1..n : w[k] = Widget(k)
    BY <1>1, <2>1 DEF ByRank
  <2>3. PICK stay : stay = {k \in 1..n : ~ Moves(w[k])}
    OBVIOUS
  <2> HIDE DEF Widget
  <2>4. ASSUME NEW k \in 1..n
        PROVE  after[k] = IF k \in stay THEN after[k - 1] ELSE Reordered(after[k - 1], w[k].name, k - 1)
    <3>1. after[k] = Next(after[k - 1], k)
      <4>1. k \in 0..n /\ k # 0
        OBVIOUS
      <4> QED BY <1>17, <4>1
    <3>2. k \in stay <=> ~ Moves(Widget(k))
      BY <2>2, <2>3
    <3> QED BY <2>2, <3>1, <3>2 DEF Next
  <2>5. after[0] = box
    BY <1>1, <1>17
  <2>6. InTurn(stay, w, box, after[n])
    BY <2>2, <2>4, <2>5 DEF InTurn
  <2> QED BY <1>1, <1>2, <1>24, <2>1, <2>3, <2>6
<1>26. Packed(N, box, widgets, a)
  <2> HIDE DEF Moved
  <2> QED BY <1>2, <1>22, <1>23, <1>24, <1>25 DEF Done, Packed
<1> QED BY <1>24, <1>26

-----------------------------------------------------------------------------
(* All the directories of a listing, and the box after them.               *)

LEMMA ReadAll ==
    ASSUME NEW D, NEW s0, NEW L, NEW entry, Entries(D, s0, L, entry)
    PROVE  \E g : /\ g = [k \in 0..Len(L) |-> g[k]] /\ g[0] = s0
                  /\ \A k \in DOMAIN L :
                        g[k] = With(g[k - 1], Named(g[k - 1], L[k].name), entry[k])
                  /\ \A k \in 0..Len(L) : HasRead(D, s0, L, entry, k, g[k])
<1>1. PICK n \in Nat : n = Len(L) /\ DOMAIN L = 1..n
  BY DEF Entries
<1> DEFINE Next(t, k) == With(t, Named(t, L[k].name), entry[k])
<1>2. PICK All : All = Seq(D)
  OBVIOUS
<1>3. PICK W : W = [k \in 0..n |-> {t \in All : HasRead(D, s0, L, entry, k, t)}]
  OBVIOUS
<1>4. PICK step : step = [k \in 1..n |-> [t \in All |-> Next(t, k)]]
  OBVIOUS
<1>5. \A k \in 0..n : \A t : t \in W[k] <=> HasRead(D, s0, L, entry, k, t)
  <2>1. \A k : \A t : HasRead(D, s0, L, entry, k, t) => t \in All
    BY <1>2 DEF HasRead
  <2> QED BY <1>3, <2>1
<1>6. \A k \in 1..n : \A t \in All : step[k][t] = Next(t, k)
  <2> HIDE DEF Next
  <2> QED BY <1>4
<1>7. s0 \in W[0]
  <2>1. HasRead(D, s0, L, entry, 0, s0)
    BY ReadsStart
  <2> QED BY <1>1, <1>5, <2>1
<1>8. ASSUME NEW k \in 1..n, NEW t \in W[k - 1]
      PROVE  t \in All /\ Next(t, k) \in W[k]
  <2>1. k - 1 \in 0..n /\ k \in 0..n /\ k \in DOMAIN L
    BY <1>1
  <2>2. HasRead(D, s0, L, entry, k - 1, t)
    BY <1>5, <2>1
  <2>3. HasRead(D, s0, L, entry, k, Next(t, k))
    BY <2>1, <2>2, ReadsNext
  <2>4. t \in All
    BY <1>2, <2>2 DEF HasRead
  <2> HIDE DEF Next
  <2> QED BY <1>5, <2>1, <2>3, <2>4
<1>9. \A k \in 1..n : \A t \in W[k - 1] : step[k][t] \in W[k]
  <2> HIDE DEF Next
  <2> QED BY <1>6, <1>8
<1>10. PICK g : /\ g = [k \in 0..n |-> g[k]] /\ Iterates(g, n, s0, step)
                /\ \A k \in 0..n : g[k] \in W[k]
  BY <1>7, <1>9, StageByStage
<1>11. g[0] = s0
  BY <1>10 DEF Iterates
<1>12. ASSUME NEW k \in 1..n
       PROVE  g[k] = Next(g[k - 1], k)
  <2>1. k - 1 \in 0..n
    OBVIOUS
  <2>2. g[k - 1] \in All
    BY <1>8, <1>10, <2>1
  <2>3. g[k] = step[k][g[k - 1]]
    BY <1>10 DEF Iterates
  <2> HIDE DEF Next
  <2> QED BY <1>6, <2>2, <2>3
<1>13. \A k \in 0..n : HasRead(D, s0, L, entry, k, g[k])
  BY <1>5, <1>10
<1> QED BY <1>1, <1>10, <1>11, <1>12, <1>13

\* The widgets come from those there were and from the listing.
Ranking(s0, L, entry) ==
    \A j \in DOMAIN L :
        /\ entry[j].rank = j - 1
        /\ \A i \in DOMAIN s0 : s0[i].name = L[j].name => entry[j].old_rank = s0[i].rank
        /\ (\A i \in DOMAIN s0 : s0[i].name # L[j].name) => is_new(entry[j])

\* The directories that are listed at the rank they had.
InPlace(s0, L) == {k \in DOMAIN L : \E i \in DOMAIN s0 : s0[i].name = L[k].name /\ s0[i].rank = k - 1}

\* The names in the box are those of the listing; when the listing is the
\* same, the box is.
Rearranged(N, s0, L, vbox, after) ==
    /\ after \in Seq(N) /\ IsInjective(after)
    /\ ToSet(after) = {L[j].name : j \in DOMAIN L} /\ Len(after) = Len(L)
    /\ /\ \A j \in DOMAIN L : \E i \in DOMAIN s0 : s0[i].name = L[j].name /\ s0[i].rank = j - 1
       /\ \A i \in DOMAIN s0 : \E j \in DOMAIN L : L[j].name = s0[i].name
       => after = vbox
    /\ InTurn(InPlace(s0, L), L,
              Picked(vbox, {i \in DOMAIN vbox : vbox[i] \in {L[j].name : j \in DOMAIN L}}), after)

\* Each of the widgets that stay has a place of its own in the listing.
LEMMA CulledRankings ==
    ASSUME NEW D, NEW s0, NEW L, NEW entry, Entries(D, s0, L, entry),
           Ranking(s0, L, entry), NEW kept, Culled(D, s0, L, entry, kept)
    PROVE  Rankings(kept)
<1>1. PICK n \in Nat : n = Len(L) /\ DOMAIN L = 1..n
  BY DEF Entries
<1>2. kept \in Seq(D) /\ NamedOnce(kept) /\ Len(kept) = n /\ DOMAIN kept = 1..n
  BY <1>1 DEF Culled
<1>3. \A j \in 1..n : entry[j].name = L[j].name /\ entry[j].rank = j - 1
  BY <1>1 DEF Entries, Ranking
<1>4. /\ \A i \in 1..n : \E j \in 1..n : kept[i] = entry[j]
      /\ \A j \in 1..n : \E i \in 1..n : kept[i] = entry[j]
  BY <1>1, <1>2 DEF Culled
<1>5. ASSUME NEW i \in 1..n
      PROVE  \E j \in 1..n : kept[i] = entry[j] /\ kept[i].rank = j - 1
  <2>1. PICK j \in 1..n : kept[i] = entry[j]
    BY <1>4
  <2> QED BY <1>3, <2>1
<1>6. \A i \in 1..n : kept[i].rank \in 0..(n - 1)
  <2>1. \A j \in 1..n : j - 1 \in 0..(n - 1)
    OBVIOUS
  <2> QED BY <1>5, <2>1
<1>7. ASSUME NEW i \in 1..n, NEW k \in 1..n, kept[i].rank = kept[k].rank
      PROVE  i = k
  <2>1. PICK j \in 1..n : kept[i] = entry[j] /\ kept[i].rank = j - 1
    BY <1>5
  <2>2. PICK q \in 1..n : kept[k] = entry[q] /\ kept[k].rank = q - 1
    BY <1>5
  <2>3. j = q
    BY <1>7, <2>1, <2>2
  <2> QED BY <1>2, <2>1, <2>2, <2>3 DEF NamedOnce
<1>8. ASSUME NEW r \in 0..(n - 1)
      PROVE  \E i \in 1..n : kept[i].rank = r
  <2>1. PICK j \in 1..n : j = r + 1 /\ j - 1 = r
    OBVIOUS
  <2>2. PICK i \in 1..n : kept[i] = entry[j]
    BY <1>4
  <2> QED BY <1>3, <2>1, <2>2
<1> QED BY <1>2, <1>6, <1>7, <1>8 DEF Rankings

Repacked(N, s0, L, vbox, kept, names) ==
    /\ names = {L[j].name : j \in DOMAIN L}
    /\ Rearranged(N, s0, L, vbox,
           Arranged(Picked(vbox, {i \in DOMAIN vbox : vbox[i] \in names}), kept))

LEMMA RearrangedIs ==
    ASSUME NEW N, NEW D, NEW s0, NEW L, NEW entry, Entries(D, s0, L, entry),
           Ranking(s0, L, entry), NEW kept, Culled(D, s0, L, entry, kept),
           NEW vbox \in Seq(N), IsInjective(vbox), ToSet(vbox) = {s0[i].name : i \in DOMAIN s0},
           \A j \in DOMAIN L : L[j].name \in N,
           NEW names, names = {kept[i].name : i \in DOMAIN kept}
    PROVE  Repacked(N, s0, L, vbox, kept, names)
<1>1. PICK n \in Nat : n = Len(L) /\ DOMAIN L = 1..n
  BY DEF Entries
<1>2. kept \in Seq(D) /\ NamedOnce(kept) /\ Len(kept) = n /\ DOMAIN kept = 1..n
  BY <1>1 DEF Culled
<1>3. \A j \in 1..n : /\ entry[j].name = L[j].name /\ entry[j].rank = j - 1 /\ L[j].name \in N
                      /\ (\A i \in DOMAIN s0 : s0[i].name # L[j].name) => is_new(entry[j])
                      /\ \A i \in DOMAIN s0 : s0[i].name = L[j].name => entry[j].old_rank = s0[i].rank
  BY <1>1 DEF Entries, Ranking
<1>4. /\ \A i \in 1..n : \E j \in 1..n : kept[i] = entry[j]
      /\ \A j \in 1..n : \E i \in 1..n : kept[i] = entry[j]
  BY <1>1, <1>2 DEF Culled
<1>18. ASSUME NEW i \in 1..n
       PROVE  \E j \in 1..n : /\ kept[i] = entry[j] /\ kept[i].name = L[j].name
                              /\ kept[i].rank = j - 1 /\ kept[i].name \in N
  <2>1. PICK j \in 1..n : kept[i] = entry[j]
    BY <1>4
  <2> QED BY <1>3, <2>1
<1>19. ASSUME NEW j \in 1..n
       PROVE  \E i \in 1..n : kept[i].name = L[j].name
  <2>1. PICK i \in 1..n : kept[i] = entry[j]
    BY <1>4
  <2> QED BY <1>3, <2>1
<1>5. names = {L[j].name : j \in 1..n}
  <2>1. ASSUME NEW x \in names
        PROVE  \E j \in 1..n : x = L[j].name
    <3>1. PICK i \in 1..n : x = kept[i].name
      BY <1>2
    <3>2. PICK j \in 1..n : kept[i].name = L[j].name
      BY <1>18
    <3> QED BY <3>1, <3>2
  <2>2. \A j \in 1..n : L[j].name \in names
    BY <1>2, <1>19
  <2> QED BY <2>1, <2>2
<1>6. PICK stay : stay = {i \in DOMAIN vbox : vbox[i] \in names}
  OBVIOUS
<1>7. PICK box : box = Picked(vbox, stay)
  OBVIOUS
<1>8. box \in Seq(N) /\ IsInjective(box) /\ ToSet(box) = ToSet(vbox) \cap names
  <2>1. PICK key : key = [y \in N |-> y]
    OBVIOUS
  <2>2. ASSUME NEW s \in Seq(N)
        PROVE  IsInjective(s) <=> KeyOnce(s, key)
    <3>1. \A i \in DOMAIN s : s[i] \in N /\ key[s[i]] = s[i]
      BY <2>1
    <3> QED BY <3>1 DEF IsInjective, KeyOnce
  <2>3. KeyOnce(vbox, key) /\ stay \in SUBSET (DOMAIN vbox)
    BY <1>6, <2>2
  <2>4. box \in Seq(N) /\ KeyOnce(box, key) /\ ToSet(box) = {vbox[i] : i \in stay}
    BY <1>7, <2>3, KeptIs
  <2>5. {vbox[i] : i \in stay} = ToSet(vbox) \cap names
    BY <1>6 DEF ToSet
  <2> QED BY <2>2, <2>4, <2>5
<1>9. Rankings(kept)
  BY CulledRankings
<1>10. \A i \in DOMAIN kept : kept[i].name \in N
  BY <1>2, <1>18
<1>11. PICK after : after = Arranged(box, kept)
  OBVIOUS
<1>12. Packed(N, box, kept, after)
  BY <1>2, <1>8, <1>9, <1>10, <1>11, ArrangedIs
<1>13. after \in Seq(N) /\ IsInjective(after)
  BY <1>12 DEF Packed
<1>14. ToSet(after) = names
  <2>1. ToSet(after) = ToSet(box) \cup {kept[i].name : i \in {j \in DOMAIN kept : Moves(kept[j])}}
    BY <1>12 DEF Packed
  <2>2. \A x \in ToSet(after) : x \in names
    BY <1>8, <2>1
  <2>3. ASSUME NEW x \in names
        PROVE  x \in ToSet(after)
    <3>1. PICK i \in DOMAIN kept : x = kept[i].name
      OBVIOUS
    <3>2. PICK j \in 1..n : kept[i] = entry[j]
      BY <1>2, <1>4
    <3>3. x = L[j].name
      BY <1>3, <3>1, <3>2
    <3>4. CASE \E q \in DOMAIN s0 : s0[q].name = x
      <4>1. x \in ToSet(vbox)
        BY <3>4
      <4> QED BY <1>8, <2>1, <4>1
    <3>5. CASE ~ \E q \in DOMAIN s0 : s0[q].name = x
      <4>1. is_new(kept[i])
        BY <1>3, <3>2, <3>3, <3>5
      <4>2. Moves(kept[i])
        BY <4>1 DEF Moves
      <4> QED BY <2>1, <3>1, <4>2
    <3> QED BY <3>4, <3>5
  <2> QED BY <2>2, <2>3
<1>15. Len(after) = n
  <2>1. PICK listed : listed = [j \in 1..n |-> L[j].name]
    OBVIOUS
  <2>2. listed \in Seq(N) /\ Len(listed) = n /\ DOMAIN listed = 1..n
    BY <1>3, <2>1
  <2>3. IsInjective(listed)
    BY <1>1, <2>1, <2>2 DEF Entries, NamedOnce, IsInjective
  <2>4. ToSet(listed) = names
    BY <1>5, <2>1, <2>2 DEF ToSet
  <2> QED BY <1>13, <1>14, <2>2, <2>3, <2>4, SameLength
<1>16. ASSUME \A j \in DOMAIN L : \E i \in DOMAIN s0 : s0[i].name = L[j].name /\ s0[i].rank = j - 1,
              \A i \in DOMAIN s0 : \E j \in DOMAIN L : L[j].name = s0[i].name
       PROVE  after = vbox
  <2>1. ToSet(vbox) = names
    <3>1. \A x \in ToSet(vbox) : x \in names
      BY <1>1, <1>5, <1>16, ZenonT(60)
    <3>2. \A x \in names : x \in ToSet(vbox)
      BY <1>1, <1>5, <1>16
    <3> QED BY <3>1, <3>2
  <2>2. stay = DOMAIN vbox
    BY <1>6, <2>1 DEF ToSet
  <2>3. box = vbox
    BY <1>7, <2>2, PickedAll
  <2>4. ASSUME NEW i \in DOMAIN kept
        PROVE  ~ Moves(kept[i])
    <3>1. PICK j \in 1..n : kept[i] = entry[j]
      BY <1>2, <1>4
    <3>2. PICK q \in DOMAIN s0 : s0[q].name = L[j].name /\ s0[q].rank = j - 1
      BY <1>1, <1>16
    <3>3. kept[i].old_rank = j - 1 /\ kept[i].rank = j - 1 /\ ~ (j - 1 < 0)
      BY <1>3, <3>1, <3>2
    <3> QED BY <3>3 DEF Moves, is_new
  <2> QED BY <1>12, <2>3, <2>4 DEF Packed
<1>20. InTurn(InPlace(s0, L), L, box, after)
  <2>1. PICK w : w = ByRank(kept)
    OBVIOUS
  <2>2. PICK moved : moved = {k \in 1..n : ~ Moves(w[k])}
    OBVIOUS
  <2>3. InTurn(moved, w, box, after) /\ Len(w) = n
    BY <1>2, <1>12, <2>1, <2>2 DEF Packed, ByRank
  <2>4. ASSUME NEW k \in 1..n
        PROVE  w[k].name = L[k].name /\ (k \in moved <=> k \in InPlace(s0, L))
    <3>1. \E i \in DOMAIN kept : kept[i].rank = k - 1
      <4>1. k - 1 \in 0..(Len(kept) - 1)
        BY <1>2
      <4> QED BY <1>9, <4>1 DEF Rankings
    <3>2. PICK i \in DOMAIN kept : i = Ranked(kept, k - 1) /\ kept[i].rank = k - 1
      BY <1>2, <3>1, RankedIs
    <3>3. w[k] = kept[i]
      BY <1>2, <2>1, <3>2 DEF ByRank
    <3>4. PICK j \in 1..n : kept[i] = entry[j] /\ kept[i].rank = j - 1
      BY <1>2, <1>18, <3>2
    <3>5. j = k
      BY <3>2, <3>4
    <3>6. w[k] = entry[k] /\ w[k].rank = k - 1 /\ w[k].name = L[k].name
      BY <1>3, <3>2, <3>3, <3>4, <3>5
    <3>7. CASE \E q \in DOMAIN s0 : s0[q].name = L[k].name /\ s0[q].rank = k - 1
      <4>1. w[k].old_rank = k - 1 /\ ~ (k - 1 < 0)
        BY <1>3, <3>6, <3>7
      <4>2. ~ Moves(w[k])
        BY <3>6, <4>1 DEF Moves, is_new
      <4> QED BY <1>1, <2>2, <3>6, <3>7, <4>2 DEF InPlace
    <3>8. CASE ~ \E q \in DOMAIN s0 : s0[q].name = L[k].name /\ s0[q].rank = k - 1
      <4>1. Moves(w[k])
        <5>1. CASE \E q \in DOMAIN s0 : s0[q].name = L[k].name
          <6>1. w[k].old_rank # k - 1
            BY <1>3, <3>6, <3>8, <5>1
          <6> QED BY <3>6, <6>1 DEF Moves
        <5>2. CASE ~ \E q \in DOMAIN s0 : s0[q].name = L[k].name
          <6>1. is_new(w[k])
            BY <1>3, <3>6, <5>2
          <6> QED BY <6>1 DEF Moves
        <5> QED BY <5>1, <5>2
      <4> QED BY <1>1, <2>2, <3>6, <3>8, <4>1 DEF InPlace
    <3> QED BY <3>7, <3>8
  <2>5. PICK f : /\ f[0] = box /\ after = f[n]
                 /\ \A k \in 1..n : f[k] = IF k \in moved THEN f[k - 1]
                                           ELSE Reordered(f[k - 1], w[k].name, k - 1)
    BY <2>3 DEF InTurn
  <2>6. PICK same : same = InPlace(s0, L)
    OBVIOUS
  <2>7. \A k \in 1..n : f[k] = IF k \in same THEN f[k - 1] ELSE Reordered(f[k - 1], L[k].name, k - 1)
    BY <2>4, <2>5, <2>6
  <2>8. InTurn(same, L, box, after)
    BY <1>1, <2>5, <2>7 DEF InTurn
  <2> QED BY <2>6, <2>8
<1>17. Rearranged(N, s0, L, vbox, after)
  <2>1. InTurn(InPlace(s0, L), L, Picked(vbox, {i \in DOMAIN vbox : vbox[i] \in {L[j].name : j \in DOMAIN L}}), after)
    BY <1>1, <1>5, <1>6, <1>7, <1>20
  <2> QED BY <1>1, <1>5, <1>13, <1>14, <1>15, <1>16, <2>1 DEF Rearranged
<1> QED BY <1>1, <1>5, <1>6, <1>7, <1>11, <1>17 DEF Repacked

-----------------------------------------------------------------------------
(* Listings of directories with these names and files.                     *)

ADir(N, F) ==
    [selected : Int, total : Int, hidden : Int, is_pwd : BOOLEAN, name : N, files : Seq(F)]

\* A directory is listed once, and so is a file of it.
GoodListing(N, F, L) ==
    /\ L \in Seq(ADir(N, F)) /\ NamedOnce(L)
    /\ \A j \in DOMAIN L : NamedOnce(L[j].files) /\ (L[j].total = 0 => L[j].files = <<>>)

-----------------------------------------------------------------------------
(* The DirConts of the mini display.                                       *)

ADirCont(N, F) ==
    [name : N, rank : Int, old_rank : Int, marked : BOOLEAN, score : Nat,
     selected : Int, total : Int, hidden : Int, is_restricted : BOOLEAN,
     is_pwd : BOOLEAN, is_active : BOOLEAN, file_box : Boxes(F)]

\* The same DirCont but for what a listing sets.
SameBut(N, F, c, dc, rank, old_rank, marked, score, box) ==
    /\ c \in ADirCont(N, F) /\ c.name = dc.name /\ c.rank = rank /\ c.old_rank = old_rank
    /\ c.marked = marked /\ c.score = score /\ c.is_active = dc.is_active /\ c.file_box = box

LEMMA SetCounts ==
    ASSUME NEW N, NEW F, NEW dc \in ADirCont(N, F), NEW dir \in ADir(N, F)
    PROVE  LET c == dircont_set_counts(dc, dir)
           IN /\ SameBut(N, F, c, dc, dc.rank, dc.old_rank, dc.marked, dc.score, dc.file_box)
              /\ c.selected = dir.selected /\ c.total = dir.total /\ c.hidden = dir.hidden
              /\ c.is_restricted = (dir.total = 0) /\ c.is_pwd = dc.is_pwd
<1>1. dir.selected \in Int /\ dir.total \in Int /\ dir.hidden \in Int
  BY DEF ADir
<1> QED BY <1>1 DEF dircont_set_counts, ADirCont, SameBut

\* The DirCont of the directory, before the files that are gone go.
DirContOf(dcs, dir, rank) ==
    LET i == Named(dcs, dir.name)
        old == IF i = 0 THEN dircont_new(dir.name) ELSE dcs[i]
        box == IF i = 0 THEN old.file_box ELSE file_box_begin_read(old.file_box)
        fill == Filled(box, dir.files)
    IN [dircont_mark(dircont_set_counts(old, dir), rank) EXCEPT
           !.is_pwd = dir.is_pwd,
           !.file_box = fill.fbox,
           !.score = @ + fill.points + (IF i = 0 THEN 100 ELSE 0)]

\* It is the directory's, whichever it was made from; what it was made
\* from shows in its old rank and in its score.
TakenIn(N, F, dcs, dir, rank, dc) ==
    /\ dc \in ADirCont(N, F) /\ dc.name = dir.name /\ dc.rank = rank /\ dc.marked = TRUE
    /\ dc.selected = dir.selected /\ dc.total = dir.total /\ dc.hidden = dir.hidden
    /\ dc.is_pwd = dir.is_pwd /\ dc.is_restricted = (dir.total = 0)
    /\ Holds(dc.file_box, dir.files)
    /\ (\A i \in DOMAIN dcs : dcs[i].name # dir.name) => dc.old_rank = -1
    /\ \A i \in DOMAIN dcs : dcs[i].name = dir.name =>
          /\ dc.old_rank = dcs[i].rank
          /\ dir.files = <<>> => dc.score = dcs[i].score
          /\ HoldsJust(dcs[i].file_box, dir.files) =>
                dc.score = dcs[i].score /\ dc.file_box = dcs[i].file_box
          /\ Follows(dcs[i].file_box.fis, dir.files) => dc.file_box.fis = dir.files

LEMMA DirContIs ==
    ASSUME NEW N, NEW F, NEW dcs \in Seq(ADirCont(N, F)), NamedOnce(dcs),
           NEW dir \in ADir(N, F), NamedOnce(dir.files), NEW rank \in Nat
    PROVE  TakenIn(N, F, dcs, dir, rank, DirContOf(dcs, dir, rank))
<1>1. PICK i : i = Named(dcs, dir.name)
  OBVIOUS
<1>2. \/ i = 0 /\ \A j \in DOMAIN dcs : dcs[j].name # dir.name
      \/ i \in DOMAIN dcs /\ dcs[i].name = dir.name
  BY <1>1, NamedIs
<1>3. 0 \notin DOMAIN dcs
  OBVIOUS
<1>4. dir.files \in Seq(F) /\ dir.name \in N
  BY DEF ADir
<1>6. PICK dc : dc = DirContOf(dcs, dir, rank)
  OBVIOUS
<1> DEFINE Took(old, box, extra) ==
             /\ dc \in ADirCont(N, F) /\ dc.name = dir.name /\ dc.rank = rank /\ dc.marked = TRUE
             /\ dc.selected = dir.selected /\ dc.total = dir.total /\ dc.hidden = dir.hidden
             /\ dc.is_pwd = dir.is_pwd /\ dc.is_restricted = (dir.total = 0)
             /\ Holds(dc.file_box, dir.files) /\ dc.old_rank = old.rank
             /\ dir.files = <<>> => dc.score = old.score + extra
             /\ ToSet(dir.files) \subseteq ToSet(box.fis) =>
                   dc.score = old.score + extra /\ dc.file_box.fis = box.fis
             /\ Follows(box.fis, dir.files) => dc.file_box.fis = dir.files
<1>5. ASSUME NEW old \in ADirCont(N, F), old.name = dir.name,
             NEW box \in Boxes(F), box.marked = {}, NEW extra \in Nat,
             dc = LET fill == Filled(box, dir.files)
                  IN [dircont_mark(dircont_set_counts(old, dir), rank) EXCEPT
                         !.is_pwd = dir.is_pwd, !.file_box = fill.fbox,
                         !.score = @ + fill.points + extra]
      PROVE  Took(old, box, extra)
  <2>1. PICK fill : fill = Filled(box, dir.files)
    OBVIOUS
  <2>2. /\ fill \in [fbox : Boxes(F), points : Nat]
        /\ Holds(fill.fbox, dir.files)
        /\ dir.files = <<>> => fill.points = 0
        /\ ToSet(dir.files) \subseteq ToSet(box.fis) => fill.fbox.fis = box.fis /\ fill.points = 0
        /\ Follows(box.fis, dir.files) => fill.fbox.fis = dir.files
    BY <1>4, <1>5, <2>1, FilledIs
  <2>3. PICK fbox \in Boxes(F) : fbox = fill.fbox
    BY <2>2
  <2>4. PICK points \in Nat : points = fill.points
    BY <2>2
  <2>5. PICK score \in Nat : score = old.score
    BY DEF ADirCont
  <2>6. PICK total \in Nat : total = score + points + extra
    OBVIOUS
  <2>7. PICK set : set = dircont_set_counts(old, dir)
    OBVIOUS
  <2>8. PICK mark : mark = dircont_mark(set, rank)
    OBVIOUS
  <2>9. /\ SameBut(N, F, set, old, old.rank, old.old_rank, old.marked, old.score, old.file_box)
        /\ set.selected = dir.selected /\ set.total = dir.total /\ set.hidden = dir.hidden
        /\ set.is_restricted = (dir.total = 0) /\ set.is_pwd = old.is_pwd
    BY <2>7, SetCounts
  <2>10. set \in ADirCont(N, F)
    BY <2>9 DEF SameBut
  <2>11. /\ SameBut(N, F, mark, set, rank, set.rank, TRUE, set.score, set.file_box)
         /\ mark.selected = set.selected /\ mark.total = set.total /\ mark.hidden = set.hidden
         /\ mark.is_restricted = set.is_restricted /\ mark.is_pwd = set.is_pwd
    <3>1. rank \in Int
      OBVIOUS
    <3> QED BY <2>8, <2>10, <3>1 DEF dircont_mark, ADirCont, SameBut
  <2>12. mark \in ADirCont(N, F) /\ mark.score = score
    BY <2>5, <2>9, <2>11 DEF SameBut
  <2>13. PICK is_pwd \in BOOLEAN : is_pwd = dir.is_pwd
    BY DEF ADir
  <2>14. dc = [mark EXCEPT !.is_pwd = is_pwd, !.file_box = fbox, !.score = total]
    BY <1>5, <2>1, <2>3, <2>4, <2>6, <2>7, <2>8, <2>12, <2>13
  <2>15. /\ SameBut(N, F, dc, mark, mark.rank, mark.old_rank, mark.marked, total, fbox)
         /\ dc.selected = mark.selected /\ dc.total = mark.total /\ dc.hidden = mark.hidden
         /\ dc.is_restricted = mark.is_restricted /\ dc.is_pwd = is_pwd
    BY <2>12, <2>14 DEF ADirCont, SameBut
  <2>16. /\ dc \in ADirCont(N, F) /\ dc.name = dir.name /\ dc.rank = rank /\ dc.marked = TRUE
         /\ dc.old_rank = old.rank /\ dc.score = total /\ dc.file_box = fbox
    BY <1>5, <2>9, <2>11, <2>15 DEF SameBut
  <2>17. /\ dc.selected = dir.selected /\ dc.total = dir.total /\ dc.hidden = dir.hidden
         /\ dc.is_pwd = dir.is_pwd /\ dc.is_restricted = (dir.total = 0)
    BY <2>9, <2>11, <2>13, <2>15
  <2>18. points = 0 => total = old.score + extra
    BY <2>5, <2>6
  <2> QED BY <2>2, <2>3, <2>4, <2>16, <2>17, <2>18
<1> HIDE DEF Took
<1>7. CASE i = 0
  <2>1. PICK old : old = dircont_new(dir.name)
    OBVIOUS
  <2>2. PICK box \in Boxes(F) : box = file_box_new /\ box.marked = {}
    BY NewBox
  <2>3. old \in ADirCont(N, F) /\ old.name = dir.name /\ old.rank = -1
    <3>1. old.name = dir.name /\ old.rank = -1
      BY <2>1 DEF dircont_new
    <3>2. old \in ADirCont(N, F)
      BY <1>4, <2>1, <2>2 DEF dircont_new, ADirCont
    <3> QED BY <3>1, <3>2
  <2>4. dc = LET fill == Filled(box, dir.files)
             IN [dircont_mark(dircont_set_counts(old, dir), rank) EXCEPT
                    !.is_pwd = dir.is_pwd, !.file_box = fill.fbox,
                    !.score = @ + fill.points + 100]
    <3>1. old.file_box = box
      BY <2>1, <2>2 DEF dircont_new
    <3> QED BY <1>1, <1>6, <1>7, <2>1, <3>1 DEF DirContOf
  <2>5. 100 \in Nat
    OBVIOUS
  <2>6. /\ dc \in ADirCont(N, F) /\ dc.name = dir.name /\ dc.rank = rank /\ dc.marked = TRUE
        /\ dc.selected = dir.selected /\ dc.total = dir.total /\ dc.hidden = dir.hidden
        /\ dc.is_pwd = dir.is_pwd /\ dc.is_restricted = (dir.total = 0)
        /\ Holds(dc.file_box, dir.files) /\ dc.old_rank = old.rank
    <3>1. Took(old, box, 100)
      BY <1>5, <2>2, <2>3, <2>4, <2>5
    <3> QED BY <3>1 DEF Took
  <2>7. \A j \in DOMAIN dcs : dcs[j].name # dir.name
    BY <1>2, <1>3, <1>7
  <2>8. TakenIn(N, F, dcs, dir, rank, dc)
    BY <2>3, <2>6, <2>7 DEF TakenIn
  <2> QED BY <1>6, <2>8
<1>8. CASE i # 0
  <2>1. i \in DOMAIN dcs /\ dcs[i].name = dir.name
    BY <1>2, <1>8
  <2>2. PICK old \in ADirCont(N, F) : old = dcs[i] /\ old.name = dir.name
    BY <2>1
  <2>3. PICK was \in Boxes(F) : was = old.file_box
    BY DEF ADirCont
  <2>4. PICK box \in Boxes(F) : box = file_box_begin_read(was) /\ box.marked = {} /\ box.fis = was.fis
    BY BeginRead
  <2>6. PICK none \in Nat : none = 0
    OBVIOUS
  <2>5. dc = LET fill == Filled(box, dir.files)
             IN [dircont_mark(dircont_set_counts(old, dir), rank) EXCEPT
                    !.is_pwd = dir.is_pwd, !.file_box = fill.fbox,
                    !.score = @ + fill.points + none]
    BY <1>1, <1>6, <1>8, <2>2, <2>3, <2>4, <2>6 DEF DirContOf
  <2>7. /\ dc \in ADirCont(N, F) /\ dc.name = dir.name /\ dc.rank = rank /\ dc.marked = TRUE
        /\ dc.selected = dir.selected /\ dc.total = dir.total /\ dc.hidden = dir.hidden
        /\ dc.is_pwd = dir.is_pwd /\ dc.is_restricted = (dir.total = 0)
        /\ Holds(dc.file_box, dir.files) /\ dc.old_rank = old.rank
        /\ dir.files = <<>> => dc.score = old.score + none
        /\ ToSet(dir.files) \subseteq ToSet(box.fis) =>
              dc.score = old.score + none /\ dc.file_box.fis = box.fis
        /\ Follows(box.fis, dir.files) => dc.file_box.fis = dir.files
    <3>1. Took(old, box, none)
      BY <1>5, <2>2, <2>4, <2>5
    <3> QED BY <3>1 DEF Took
  <2>8. old.score + none = old.score
    BY <2>6 DEF ADirCont
  <2>9. ASSUME HoldsJust(was, dir.files)
        PROVE  dc.score = old.score /\ dc.file_box = was
    <3>1. ToSet(was.fis) = ToSet(dir.files) /\ was.marked = FileNames(dir.files)
      BY <2>9 DEF HoldsJust
    <3>2. dc.file_box.fis = was.fis /\ dc.score = old.score
      BY <2>4, <2>7, <2>8, <3>1
    <3>3. dc.file_box.marked = was.marked
      BY <2>7, <3>1 DEF Holds
    <3>4. dc.file_box \in Boxes(F)
      BY <2>7 DEF ADirCont
    <3>5. dc.file_box = was
      <4>1. PICK b : b = dc.file_box
        OBVIOUS
      <4>2. b \in [fis : Seq(F), marked : SUBSET {f.name : f \in F}]
        BY <3>4, <4>1 DEF Boxes
      <4>3. was \in [fis : Seq(F), marked : SUBSET {f.name : f \in F}]
        BY DEF Boxes
      <4>4. b.fis = was.fis /\ b.marked = was.marked
        BY <3>2, <3>3, <4>1
      <4>5. b = was
        BY <4>2, <4>3, <4>4
      <4> QED BY <4>1, <4>5
    <3> QED BY <3>2, <3>5
  <2>10. \A j \in DOMAIN dcs : dcs[j].name = dir.name => dcs[j] = old
    BY <2>1, <2>2 DEF NamedOnce
  <2>11. ~ \A j \in DOMAIN dcs : dcs[j].name # dir.name
    BY <2>1
  <2>13. Follows(was.fis, dir.files) => dc.file_box.fis = dir.files
    BY <2>4, <2>7
  <2>12. TakenIn(N, F, dcs, dir, rank, dc)
    BY <2>3, <2>7, <2>8, <2>9, <2>10, <2>11, <2>13 DEF TakenIn
  <2> QED BY <1>6, <2>12
<1> QED BY <1>7, <1>8

-----------------------------------------------------------------------------
(* The DirCont with the highest score.                                     *)

\* Where it is; and when the first one, if it is restricted, has no score
\* or comes first in rank too, a restricted one wins only among its like.
Best(v, highest) ==
    \E b \in DOMAIN v.dcs :
        /\ highest = v.dcs[b]
        /\ /\ v.dcs[1].is_restricted => v.dcs[1].score = 0 \/ v.dcs[1].rank = 0
           /\ v.dcs[b].is_restricted
           => \A i \in DOMAIN v.dcs : v.dcs[i].is_restricted

LEMMA HighestIs ==
    ASSUME NEW N, NEW F, NEW v, v.dcs \in Seq(ADirCont(N, F)), v.dcs # <<>>, Rankings(v.dcs)
    PROVE  Best(v, Highest(v))
<1>1. PICK dcs : dcs = v.dcs
  OBVIOUS
<1>2. PICK n \in Nat : n = Len(dcs) /\ DOMAIN dcs = 1..n /\ 1 \in 1..n
  <2>1. dcs \in Seq(ADirCont(N, F)) /\ dcs # <<>>
    BY <1>1
  <2> QED BY <2>1, EmptySeq
<1> DEFINE Score(i, k) == IF dcs[i].rank < k THEN FinalScore(dcs[i]) ELSE dcs[i].score
           Next(b, k) == LET i == Ranked(dcs, k - 1)
                         IN IF Score(i, k) >= Score(b, k) THEN i ELSE b
           Is(f) == f = [k \in 0..n |-> IF k = 0 THEN 1 ELSE Next(f[k - 1], k)]
           best == CHOOSE f : Is(f)
<1>3. Highest(v) = dcs[best[n]]
  BY <1>1, <1>2 DEF Highest
<1>4. \A i \in 1..n : /\ dcs[i] \in ADirCont(N, F) /\ dcs[i].score \in Nat /\ dcs[i].rank \in Int
                      /\ dcs[i].rank >= 0 /\ dcs[i].rank < n /\ dcs[i].is_restricted \in BOOLEAN
  <2>1. \A i \in 1..n : dcs[i] \in ADirCont(N, F)
    BY <1>1, <1>2
  <2>2. \A i \in 1..n : dcs[i].rank \in 0..(n - 1)
    BY <1>1, <1>2 DEF Rankings
  <2>3. \A r \in 0..(n - 1) : r \in Int /\ r >= 0 /\ r < n
    OBVIOUS
  <2> QED BY <2>1, <2>2, <2>3 DEF ADirCont
<1>5. ASSUME NEW k \in 1..n
      PROVE  Ranked(dcs, k - 1) \in 1..n /\ dcs[Ranked(dcs, k - 1)].rank = k - 1
  <2>1. k - 1 \in 0..(Len(dcs) - 1)
    BY <1>2
  <2>2. \E i \in DOMAIN dcs : dcs[i].rank = k - 1
    BY <1>1, <2>1 DEF Rankings
  <2>3. dcs \in Seq(ADirCont(N, F))
    BY <1>1
  <2> QED BY <1>2, <2>2, <2>3, RankedIs
<1>6. PICK V : V = 1..n
  OBVIOUS
<1>7. PICK step : step = [k \in 1..n |-> [b \in V |-> Next(b, k)]]
  OBVIOUS
<1>8. \A k \in 1..n : \A b \in V : Next(b, k) \in V
  BY <1>5, <1>6
<1>9. \A k \in 1..n : \A b \in V : step[k][b] = Next(b, k)
  <2> HIDE DEF Next
  <2> QED BY <1>7
<1>10. step \in [1..n -> [V -> V]]
  <2> HIDE DEF Next
  <2> QED BY <1>7, <1>8
<1>11. PICK one \in V : one = 1
  BY <1>2, <1>6
<1>12. PICK g \in [0..n -> V] : Iterates(g, n, one, step)
  BY <1>10, Recursion
<1>13. Is(g)
  <2>1. ASSUME NEW k \in 0..n
        PROVE  g[k] = IF k = 0 THEN 1 ELSE Next(g[k - 1], k)
    <3>1. CASE k = 0
      BY <1>11, <1>12, <3>1 DEF Iterates
    <3>2. CASE k # 0
      <4>1. k \in 1..n /\ k - 1 \in 0..n
        BY <3>2
      <4>2. g[k - 1] \in V
        BY <4>1
      <4>3. g[k] = step[k][g[k - 1]]
        BY <1>12, <4>1 DEF Iterates
      <4> HIDE DEF Next
      <4> QED BY <1>9, <3>2, <4>1, <4>2, <4>3
    <3> QED BY <3>1, <3>2
  <2> HIDE DEF Next
  <2> QED BY <2>1
<1>14. Is(best)
  <2> HIDE DEF Is
  <2> QED BY <1>13
<1> HIDE DEF best
<1> DEFINE Open(i) == ~ dcs[i].is_restricted
           Fair == dcs[1].is_restricted => dcs[1].score = 0 \/ dcs[1].rank = 0
           Done(b, k) == /\ b \in 1..n /\ (b = 1 \/ dcs[b].rank < k)
                         /\ Fair => (\A i \in 1..n : dcs[i].rank < k /\ Open(i) => Open(b))
<1>15. PICK T : T = {k \in 0..n : Done(best[k], k)}
  OBVIOUS
<1>16. 0 \in T
  <2>1. 0 \in 0..n /\ best[0] = 1
    BY <1>14
  <2>2. \A i \in 1..n : ~ (dcs[i].rank < 0)
    BY <1>4
  <2> QED BY <1>2, <1>15, <2>1, <2>2
<1>17. ASSUME NEW k \in 1..n, k - 1 \in T
       PROVE  k \in T
  <2>1. k \in 0..n /\ k # 0 /\ k \in Int
    OBVIOUS
  <2>2. PICK b : b = best[k - 1] /\ Done(b, k - 1)
    BY <1>15, <1>17
  <2>3. PICK i \in 1..n : i = Ranked(dcs, k - 1) /\ dcs[i].rank = k - 1
    BY <1>5
  <2>4. best[k] = IF Score(i, k) >= Score(b, k) THEN i ELSE b
    BY <1>14, <2>1, <2>2, <2>3
  <2>5. Score(i, k) = FinalScore(dcs[i]) /\ dcs[i].rank < k
    BY <2>1, <2>3
  <2>6. PICK s \in Int : s = Score(i, k) /\ (Open(i) <=> s >= 0)
    <3>1. PICK score \in Nat : score = dcs[i].score
      BY <1>4
    <3>2. FinalScore(dcs[i]) = IF Open(i) THEN score ELSE -1
      BY <3>1 DEF FinalScore
    <3>3. FinalScore(dcs[i]) \in Int /\ (Open(i) <=> FinalScore(dcs[i]) >= 0)
      <4> HIDE DEF Open
      <4> QED BY <3>2
    <3> HIDE DEF Open, Score
    <3> QED BY <2>5, <3>3
  <2>7. b \in 1..n /\ (b = 1 \/ dcs[b].rank < k - 1)
    BY <2>2
  <2>8. PICK c \in Int : c = Score(b, k) /\ (Open(b) => c >= 0) /\ (Fair /\ c > 0 => Open(b))
    <3>1. PICK rank \in Int : rank = dcs[b].rank /\ rank >= 0
      BY <1>4, <2>7
    <3>2. PICK score \in Nat : score = dcs[b].score
      BY <1>4, <2>7
    <3>3. FinalScore(dcs[b]) = IF Open(b) THEN score ELSE -1
      BY <3>2 DEF FinalScore
    <3>4. Score(b, k) = IF rank < k THEN FinalScore(dcs[b]) ELSE score
      BY <3>1, <3>2
    <3>5. Score(b, k) \in Int /\ (Open(b) => Score(b, k) >= 0)
      <4> HIDE DEF Score, Open
      <4> QED BY <3>3, <3>4
    <3>6. ASSUME Fair, Score(b, k) > 0, ~ Open(b)
          PROVE  FALSE
      <4>1. ~ (rank < k) /\ score > 0
        <5> HIDE DEF Score, Open, Fair
        <5> QED BY <3>3, <3>4, <3>6
      <4>2. b = 1
        BY <2>1, <2>7, <3>1, <4>1
      <4>3. rank = 0
        BY <3>1, <3>2, <3>6, <4>1, <4>2
      <4> QED BY <2>1, <4>1, <4>3
    <3> HIDE DEF Score, Open, Fair
    <3> QED BY <3>5, <3>6
  <2>9. \A j \in 1..n : dcs[j].rank < k => j = i \/ dcs[j].rank < k - 1
    <3>1. ASSUME NEW j \in 1..n, dcs[j].rank < k, ~ (dcs[j].rank < k - 1)
          PROVE  j = i
      <4>1. dcs[j].rank = k - 1
        BY <1>4, <2>1, <3>1
      <4>2. \A h, l \in 1..n : dcs[h].rank = dcs[l].rank => h = l
        BY <1>1, <1>2 DEF Rankings
      <4> QED BY <2>3, <4>1, <4>2
    <3> QED BY <3>1
  <2>10. CASE s >= c
    <3>1. best[k] = i
      <4> HIDE DEF Score
      <4> QED BY <2>4, <2>6, <2>8, <2>10
    <3>2. ASSUME Fair, NEW j \in 1..n, dcs[j].rank < k, Open(j)
          PROVE  Open(i)
      <4>1. CASE j = i
        BY <3>2, <4>1
      <4>2. CASE dcs[j].rank < k - 1
        <5>1. Open(b)
          BY <2>2, <3>2, <4>2
        <5>2. s >= 0
          BY <2>8, <2>10, <5>1
        <5> QED BY <2>6, <5>2
      <4> QED BY <2>9, <3>2, <4>1, <4>2
    <3>3. Done(i, k)
      <4> HIDE DEF Open, Fair
      <4> QED BY <2>5, <3>2
    <3> QED BY <1>15, <2>1, <3>1, <3>3
  <2>11. CASE ~ (s >= c)
    <3>1. best[k] = b
      <4> HIDE DEF Score
      <4> QED BY <2>4, <2>6, <2>8, <2>11
    <3>2. ASSUME Fair, NEW j \in 1..n, dcs[j].rank < k, Open(j)
          PROVE  Open(b)
      <4>1. CASE j = i
        <5>1. c > 0
          BY <2>6, <2>8, <2>11, <3>2, <4>1
        <5> QED BY <2>8, <3>2, <5>1
      <4>2. CASE dcs[j].rank < k - 1
        BY <2>2, <3>2, <4>2
      <4> QED BY <2>9, <3>2, <4>1, <4>2
    <3>3. b = 1 \/ dcs[b].rank < k
      BY <1>4, <2>1, <2>7
    <3>4. Done(b, k)
      <4> HIDE DEF Open, Fair
      <4> QED BY <2>7, <3>2, <3>3
    <3> QED BY <1>15, <2>1, <3>1, <3>4
  <2> QED BY <2>10, <2>11
<1>18. \A k \in 0..n : k \in T
  BY <1>16, <1>17, BoundedInduction
<1>19. PICK b \in 1..n : b = best[n] /\ Done(b, n)
  <2>1. n \in 0..n
    OBVIOUS
  <2> QED BY <1>15, <1>18, <2>1
<1>20. ASSUME Fair, dcs[b].is_restricted
       PROVE  \A i \in 1..n : dcs[i].is_restricted
  <2>1. \A i \in 1..n : dcs[i].rank < n
    BY <1>4
  <2> QED BY <1>19, <1>20, <2>1
<1> QED BY <1>1, <1>2, <1>3, <1>19, <1>20 DEF Best

-----------------------------------------------------------------------------
(* The mini display takes a listing in.                                    *)

AVg(N, F) == [dcs : Seq(ADirCont(N, F)), active : N \cup {NoDir}, vbox : Seq(N)]

Unmarks(N, F, dcs, s0) ==
    /\ s0 \in Seq(ADirCont(N, F)) /\ Len(s0) = Len(dcs) /\ DOMAIN s0 = DOMAIN dcs
    /\ \A i \in DOMAIN dcs :
          SameBut(N, F, s0[i], dcs[i], dcs[i].rank, dcs[i].old_rank, FALSE, 0, dcs[i].file_box)

LEMMA UnmarkIs ==
    ASSUME NEW N, NEW F, NEW vg \in AVg(N, F)
    PROVE  \E s0 : /\ Unmarks(N, F, vg.dcs, s0)
                   /\ unmark_all_dirconts(vg) = [dcs |-> s0, active |-> vg.active, vbox |-> vg.vbox]
<1>1. PICK dcs \in Seq(ADirCont(N, F)) : dcs = vg.dcs
  BY DEF AVg
<1>2. PICK n \in Nat : n = Len(dcs) /\ DOMAIN dcs = 1..n
  OBVIOUS
<1> DEFINE Unmark(dc) == [dc EXCEPT !.marked = FALSE, !.score = 0]
           s0 == [i \in 1..n |-> Unmark(dcs[i])]
<1>3. ASSUME NEW dc \in ADirCont(N, F)
      PROVE  SameBut(N, F, Unmark(dc), dc, dc.rank, dc.old_rank, FALSE, 0, dc.file_box)
  BY DEF ADirCont, SameBut
<1>4. ASSUME NEW i \in 1..n
      PROVE  /\ SameBut(N, F, s0[i], dcs[i], dcs[i].rank, dcs[i].old_rank, FALSE, 0, dcs[i].file_box)
             /\ s0[i] \in ADirCont(N, F)
  <2>1. PICK dc \in ADirCont(N, F) : dc = dcs[i]
    BY <1>2
  <2>2. SameBut(N, F, Unmark(dc), dc, dc.rank, dc.old_rank, FALSE, 0, dc.file_box)
    BY <1>3
  <2>3. s0[i] = Unmark(dc)
    BY <2>1
  <2> HIDE DEF s0, Unmark
  <2>4. SameBut(N, F, s0[i], dcs[i], dcs[i].rank, dcs[i].old_rank, FALSE, 0, dcs[i].file_box)
    BY <2>1, <2>2, <2>3
  <2> QED BY <2>4 DEF SameBut
<1>5. s0 = [i \in 1..n |-> s0[i]]
  OBVIOUS
<1>6. Each(dcs, LAMBDA dc : [dc EXCEPT !.marked = FALSE, !.score = 0]) = SubSeq(s0, 1, n)
  BY <1>2 DEF Each
<1> HIDE DEF s0, Unmark
<1>7. s0 \in Seq(ADirCont(N, F)) /\ Len(s0) = n /\ DOMAIN s0 = 1..n /\ SubSeq(s0, 1, n) = s0
  BY <1>4, <1>5, FunctionIs
<1>8. Unmarks(N, F, vg.dcs, s0)
  BY <1>1, <1>2, <1>4, <1>7 DEF Unmarks
<1>9. unmark_all_dirconts(vg) = [dcs |-> s0, active |-> vg.active, vbox |-> vg.vbox]
  <2>1. vg = [dcs |-> dcs, active |-> vg.active, vbox |-> vg.vbox]
    BY <1>1 DEF AVg
  <2>2. unmark_all_dirconts(vg) = [vg EXCEPT !.dcs = s0]
    BY <1>1, <1>6, <1>7 DEF unmark_all_dirconts
  <2>3. [vg EXCEPT !.dcs = s0] = [dcs |-> s0, active |-> vg.active, vbox |-> vg.vbox]
    BY <2>1
  <2> QED BY <2>2, <2>3
<1> QED BY <1>8, <1>9

\* What the display is before the directories that are gone go.
TakenVg(vg, listing) ==
    LET read[k \in 0..Len(listing)] ==
            IF k = 0 THEN unmark_all_dirconts(vg)
            ELSE add_dircont(read[k - 1], listing[k], k - 1)
    IN read[Len(listing)]

MiniEntries(N, F, s0, L, entry) ==
    /\ Entries(ADirCont(N, F), s0, L, entry)
    /\ \A j \in DOMAIN L : TakenIn(N, F, s0, L[j], j - 1, entry[j])

MiniTaken(N, F, vg, L, s0, entry, t) ==
    /\ Unmarks(N, F, vg.dcs, s0) /\ MiniEntries(N, F, s0, L, entry)
    /\ HasRead(ADirCont(N, F), s0, L, entry, Len(L), t)
    /\ TakenVg(vg, L) = [dcs |-> t, active |-> vg.active, vbox |-> vg.vbox]

LEMMA MiniTakenIs ==
    ASSUME NEW N, NEW F, NEW vg \in AVg(N, F), NamedOnce(vg.dcs), NEW L, GoodListing(N, F, L)
    PROVE  \E s0, entry, t : MiniTaken(N, F, vg, L, s0, entry, t)
<1>1. PICK n \in Nat : n = Len(L) /\ DOMAIN L = 1..n
  BY DEF GoodListing
<1>2. PICK D : D = ADirCont(N, F)
  OBVIOUS
<1>3. PICK s0 : /\ Unmarks(N, F, vg.dcs, s0)
                /\ unmark_all_dirconts(vg) = [dcs |-> s0, active |-> vg.active, vbox |-> vg.vbox]
  BY UnmarkIs
<1>4. s0 \in Seq(ADirCont(N, F)) /\ NamedOnce(s0)
  <2>1. \A i \in DOMAIN s0 : i \in DOMAIN vg.dcs /\ s0[i].name = vg.dcs[i].name
    BY <1>3 DEF Unmarks, SameBut
  <2>2. NamedOnce(s0)
    BY <2>1 DEF NamedOnce
  <2> QED BY <1>3, <2>2 DEF Unmarks
<1>5. PICK entry : entry = [j \in 1..n |-> DirContOf(s0, L[j], j - 1)]
  OBVIOUS
<1>6. ASSUME NEW j \in 1..n
      PROVE  TakenIn(N, F, s0, L[j], j - 1, entry[j])
  <2>1. L[j] \in ADir(N, F) /\ NamedOnce(L[j].files)
    BY <1>1 DEF GoodListing
  <2>2. j - 1 \in Nat
    OBVIOUS
  <2>3. TakenIn(N, F, s0, L[j], j - 1, DirContOf(s0, L[j], j - 1))
    BY <1>4, <2>1, <2>2, DirContIs
  <2> QED BY <1>5, <2>3
<1>7. Entries(D, s0, L, entry)
  <2>1. \A j \in 1..n : entry[j] \in D /\ entry[j].name = L[j].name
    BY <1>2, <1>6 DEF TakenIn
  <2>2. L \in Seq(ToSet(L)) /\ NamedOnce(L)
    BY <1>1 DEF GoodListing, ToSet
  <2> QED BY <1>1, <1>2, <1>4, <2>1, <2>2 DEF Entries
<1>8. PICK g : /\ g = [k \in 0..Len(L) |-> g[k]] /\ g[0] = s0
               /\ \A k \in DOMAIN L :
                     g[k] = With(g[k - 1], Named(g[k - 1], L[k].name), entry[k])
               /\ \A k \in 0..Len(L) : HasRead(D, s0, L, entry, k, g[k])
  BY <1>7, ReadAll
<1> DEFINE State(t) == [dcs |-> t, active |-> vg.active, vbox |-> vg.vbox]
           start == unmark_all_dirconts(vg)
           Next(v, k) == add_dircont(v, L[k], k - 1)
           Is(f) == f = [k \in 0..n |-> IF k = 0 THEN start ELSE Next(f[k - 1], k)]
           read == CHOOSE f : Is(f)
           all == [k \in 0..n |-> State(g[k])]
<1>9. TakenVg(vg, L) = read[n]
  BY <1>1 DEF TakenVg
<1>10. ASSUME NEW k \in 1..n
       PROVE  Next(State(g[k - 1]), k) = State(g[k])
  <2>1. PICK t : t = g[k - 1]
    OBVIOUS
  <2>2. PICK i : i = Named(t, L[k].name)
    OBVIOUS
  <2>3. k - 1 \in 0..n /\ k \in DOMAIN L
    BY <1>1
  <2>4. HasRead(D, s0, L, entry, k - 1, t)
    BY <1>1, <1>8, <2>1, <2>3
  <2>5. /\ Named(s0, L[k].name) = i
        /\ i # 0 => t[i] = s0[i]
    BY <1>7, <2>2, <2>3, <2>4, ReadsKnown
  <2>6. PICK dc : dc = DirContOf(t, L[k], k - 1)
    OBVIOUS
  <2>7. dc = entry[k]
    <3>1. DirContOf(t, L[k], k - 1) = DirContOf(s0, L[k], k - 1)
      BY <2>2, <2>5 DEF DirContOf
    <3> QED BY <1>5, <2>6, <3>1
  <2>8. g[k] = With(t, i, dc)
    BY <1>8, <2>1, <2>2, <2>3, <2>7
  <2>9. PICK v : v = State(t)
    OBVIOUS
  <2>10. v.dcs = t
    BY <2>9
  <2>11. Next(v, k) = IF i = 0 THEN [v EXCEPT !.dcs = Append(@, dc)] ELSE [v EXCEPT !.dcs[i] = dc]
    BY <2>2, <2>6, <2>10 DEF add_dircont, DirContOf
  <2>12. Next(v, k) = State(With(t, i, dc))
    BY <2>9, <2>11 DEF With
  <2> QED BY <2>1, <2>8, <2>9, <2>12
<1>11. start = State(g[0])
  BY <1>3, <1>8
<1>12. Is(all)
  <2>1. ASSUME NEW k \in 0..n
        PROVE  all[k] = IF k = 0 THEN start ELSE Next(all[k - 1], k)
    <3>1. k # 0 => k \in 1..n /\ k - 1 \in 0..n
      OBVIOUS
    <3> HIDE DEF Next, start, State
    <3> QED BY <1>10, <1>11, <3>1
  <2> HIDE DEF Next, start, State
  <2> QED BY <2>1
<1>13. Is(read)
  <2> HIDE DEF Is
  <2> QED BY <1>12
<1> HIDE DEF read
<1>14. PICK T : T = {k \in 0..n : read[k] = all[k]}
  OBVIOUS
<1>15. 0 \in T
  <2> HIDE DEF Next, start, State, all
  <2> QED BY <1>12, <1>13, <1>14
<1>16. ASSUME NEW k \in 1..n, k - 1 \in T
       PROVE  k \in T
  <2>1. k \in 0..n /\ k # 0
    OBVIOUS
  <2>2. read[k - 1] = all[k - 1]
    BY <1>14, <1>16
  <2>3. read[k] = Next(read[k - 1], k) /\ all[k] = Next(all[k - 1], k)
    <3> HIDE DEF Next, start, State, all
    <3> QED BY <1>12, <1>13, <2>1
  <2> HIDE DEF Next, start, State, all
  <2> QED BY <1>14, <2>1, <2>2, <2>3
<1>17. \A k \in 0..n : k \in T
  BY <1>15, <1>16, BoundedInduction
<1>18. TakenVg(vg, L) = State(g[n])
  <2>1. n \in 0..n
    OBVIOUS
  <2> QED BY <1>9, <1>14, <1>17, <2>1
<1>19. PICK t : t = g[n]
  OBVIOUS
<1>20. HasRead(D, s0, L, entry, Len(L), t)
  BY <1>1, <1>8, <1>19
<1>21. MiniEntries(N, F, s0, L, entry)
  BY <1>1, <1>2, <1>6, <1>7 DEF MiniEntries
<1>22. MiniTaken(N, F, vg, L, s0, entry, t)
  BY <1>2, <1>3, <1>18, <1>19, <1>20, <1>21 DEF MiniTaken
<1> QED BY <1>22

\* The active directory is one of those there are; it is restricted only
\* when all are, and it stays as long as no other has a score.
ActiveChosen(w, active) ==
    /\ \E i \in DOMAIN w.dcs : w.dcs[i].name = active
    /\ (w.dcs[1].is_restricted => w.dcs[1].score = 0 \/ w.dcs[1].rank = 0) =>
          \A i \in DOMAIN w.dcs : w.dcs[i].name = active /\ w.dcs[i].is_restricted =>
              \A j \in DOMAIN w.dcs : w.dcs[j].is_restricted
    /\ /\ \A i \in DOMAIN w.dcs : w.dcs[i].score = 0
       /\ w.active # NoDir
       /\ \A i \in DOMAIN w.dcs : w.dcs[i].name = w.active => ~ w.dcs[i].is_restricted
       => active = w.active

LEMMA ChosenIs ==
    ASSUME NEW N, NEW F, NEW w, w.dcs \in Seq(ADirCont(N, F)), w.dcs # <<>>, NamedOnce(w.dcs),
           Rankings(w.dcs),
           w.active # NoDir => \E i \in DOMAIN w.dcs : w.dcs[i].name = w.active
    PROVE  ActiveChosen(w, Chosen(w))
<1>1. PICK highest : highest = Highest(w)
  OBVIOUS
<1>2. Best(w, highest)
  BY <1>1, HighestIs
<1>3. PICK b \in DOMAIN w.dcs :
         /\ highest = w.dcs[b]
         /\ /\ w.dcs[1].is_restricted => w.dcs[1].score = 0 \/ w.dcs[1].rank = 0
            /\ w.dcs[b].is_restricted
            => \A i \in DOMAIN w.dcs : w.dcs[i].is_restricted
  BY <1>2 DEF Best
<1>4. PICK chosen : chosen = Chosen(w)
  OBVIOUS
<1>5. ASSUME NEW i \in DOMAIN w.dcs
      PROVE  /\ FinalScore(w.dcs[i]) \in Int
             /\ w.dcs[i].is_restricted <=> FinalScore(w.dcs[i]) < 0
             /\ w.dcs[i].score = 0 => FinalScore(w.dcs[i]) <= 0
  <2>1. w.dcs[i] \in ADirCont(N, F)
    OBVIOUS
  <2>2. PICK score \in Nat : score = w.dcs[i].score
    BY <2>1 DEF ADirCont
  <2>3. FinalScore(w.dcs[i]) = IF w.dcs[i].is_restricted THEN -1 ELSE score
    BY <2>2 DEF FinalScore
  <2> QED BY <2>2, <2>3
<1>6. CASE w.active = NoDir
  <2>1. chosen = w.dcs[b].name
    BY <1>1, <1>3, <1>4, <1>6 DEF Chosen
  <2>2. \A i \in DOMAIN w.dcs : w.dcs[i].name = chosen => i = b
    BY <2>1 DEF NamedOnce
  <2> QED BY <1>3, <1>4, <1>6, <2>1, <2>2 DEF ActiveChosen
<1>7. CASE w.active # NoDir
  <2>1. PICK a \in DOMAIN w.dcs : w.dcs[a].name = w.active
    BY <1>7
  <2>2. Named(w.dcs, w.active) = a
    <3>1. Named(w.dcs, w.active) \in DOMAIN w.dcs
          /\ w.dcs[Named(w.dcs, w.active)].name = w.active
      BY <2>1, NamedIs
    <3> QED BY <2>1, <3>1 DEF NamedOnce
  <2>3. PICK x \in Int : x = FinalScore(w.dcs[b])
    BY <1>5
  <2>4. PICK y \in Int : y = FinalScore(w.dcs[a])
    BY <1>5
  <2>5. chosen = IF x > y THEN w.dcs[b].name ELSE w.active
    BY <1>1, <1>3, <1>4, <1>7, <2>2, <2>3, <2>4 DEF Chosen, Active
  <2>6. \A i \in DOMAIN w.dcs : w.dcs[i].name = w.dcs[a].name => i = a
    BY DEF NamedOnce
  <2>7. \A i \in DOMAIN w.dcs : w.dcs[i].name = w.dcs[b].name => i = b
    BY DEF NamedOnce
  <2>8. w.dcs[a].is_restricted <=> y < 0
    BY <1>5, <2>4
  <2>9. w.dcs[b].is_restricted <=> x < 0
    BY <1>5, <2>3
  <2>10. w.dcs[b].score = 0 => x <= 0
    BY <1>5, <2>3
  <2>11. CASE x > y
    <3>1. chosen = w.dcs[b].name
      BY <2>5, <2>11
    <3>2. w.dcs[b].score = 0 /\ ~ w.dcs[a].is_restricted => FALSE
      BY <2>8, <2>10, <2>11
    <3> QED BY <1>3, <1>4, <2>1, <2>7, <3>1, <3>2 DEF ActiveChosen
  <2>12. CASE ~ (x > y)
    <3>1. chosen = w.active
      BY <2>5, <2>12
    <3>2. w.dcs[a].is_restricted => w.dcs[b].is_restricted
      BY <2>8, <2>9, <2>12
    <3> QED BY <1>3, <1>4, <2>1, <2>6, <3>1, <3>2 DEF ActiveChosen
  <2> QED BY <2>11, <2>12
<1> QED BY <1>6, <1>7

Shows(N, F, c, dc, active) ==
    /\ c \in ADirCont(N, F) /\ c.name = dc.name /\ c.rank = dc.rank /\ c.old_rank = -1
    /\ c.marked = dc.marked /\ c.score = 0 /\ c.is_active = (dc.name = active)
    /\ c.selected = dc.selected /\ c.total = dc.total /\ c.hidden = dc.hidden
    /\ c.is_restricted = dc.is_restricted /\ c.is_pwd = dc.is_pwd
    /\ c.file_box = file_box_flush(dc.file_box)

Shown(N, F, dcs, active, shown) ==
    /\ shown \in Seq(ADirCont(N, F)) /\ Len(shown) = Len(dcs) /\ DOMAIN shown = DOMAIN dcs
    /\ \A i \in DOMAIN dcs : Shows(N, F, shown[i], dcs[i], active)

LEMMA ShownIs ==
    ASSUME NEW N, NEW F, NEW w \in AVg(N, F),
           \A i \in DOMAIN w.dcs : file_box_flush(w.dcs[i].file_box) \in Boxes(F)
    PROVE  \E shown : /\ Shown(N, F, w.dcs, Chosen(w), shown)
                      /\ rearrange_and_show(w) =
                            [dcs |-> shown, active |-> Chosen(w), vbox |-> Arranged(w.vbox, w.dcs)]
<1>1. PICK dcs \in Seq(ADirCont(N, F)) : dcs = w.dcs
  BY DEF AVg
<1>2. PICK n \in Nat : n = Len(dcs) /\ DOMAIN dcs = 1..n
  OBVIOUS
<1>3. PICK active : active = Chosen(w)
  OBVIOUS
<1> DEFINE Show(dc) == [dc EXCEPT !.file_box = file_box_flush(@), !.score = 0, !.old_rank = -1,
                                  !.is_active = (dc.name = active)]
           shown == [i \in 1..n |-> Show(dcs[i])]
<1>4. ASSUME NEW dc \in ADirCont(N, F), file_box_flush(dc.file_box) \in Boxes(F)
      PROVE  Shows(N, F, Show(dc), dc, active)
  <2>1. PICK box \in Boxes(F) : box = file_box_flush(dc.file_box)
    BY <1>4
  <2>2. PICK is \in BOOLEAN : is = (dc.name = active)
    OBVIOUS
  <2>6. PICK none \in Int : none = -1
    OBVIOUS
  <2>3. Show(dc) = [dc EXCEPT !.file_box = box, !.score = 0, !.old_rank = none, !.is_active = is]
    BY <2>1, <2>2, <2>6
  <2>4. PICK c : c = Show(dc)
    OBVIOUS
  <2> HIDE DEF Show
  <2>7. PICK d : d = [dc EXCEPT !.file_box = box, !.score = 0]
    OBVIOUS
  <2>8. /\ d \in ADirCont(N, F) /\ d.name = dc.name /\ d.rank = dc.rank
        /\ d.marked = dc.marked /\ d.score = 0 /\ d.selected = dc.selected /\ d.total = dc.total
    BY <2>7 DEF ADirCont
  <2>9. /\ d.hidden = dc.hidden /\ d.is_restricted = dc.is_restricted /\ d.is_pwd = dc.is_pwd
        /\ d.file_box = box
    BY <2>7 DEF ADirCont
  <2>10. c = [d EXCEPT !.old_rank = none, !.is_active = is]
    BY <2>3, <2>4, <2>7 DEF ADirCont
  <2>11. c \in ADirCont(N, F)
    BY <2>8, <2>10 DEF ADirCont
  <2>12. /\ c.name = d.name /\ c.rank = d.rank /\ c.old_rank = none
         /\ c.marked = d.marked /\ c.score = d.score /\ c.is_active = is
    BY <2>8, <2>10 DEF ADirCont
  <2>13. /\ c.selected = d.selected /\ c.total = d.total /\ c.hidden = d.hidden
         /\ c.is_restricted = d.is_restricted /\ c.is_pwd = d.is_pwd /\ c.file_box = d.file_box
    BY <2>8, <2>10 DEF ADirCont
  <2>5. /\ c \in ADirCont(N, F) /\ c.name = dc.name /\ c.rank = dc.rank /\ c.old_rank = none
        /\ c.marked = dc.marked /\ c.score = 0 /\ c.is_active = is
        /\ c.selected = dc.selected /\ c.total = dc.total /\ c.hidden = dc.hidden
        /\ c.is_restricted = dc.is_restricted /\ c.is_pwd = dc.is_pwd
        /\ c.file_box = box
    BY <2>8, <2>9, <2>11, <2>12, <2>13
  <2> QED BY <2>1, <2>2, <2>4, <2>5, <2>6 DEF Shows
<1>5. ASSUME NEW i \in 1..n
      PROVE  Shows(N, F, shown[i], dcs[i], active) /\ shown[i] \in ADirCont(N, F)
  <2>1. PICK dc \in ADirCont(N, F) : dc = dcs[i] /\ file_box_flush(dc.file_box) \in Boxes(F)
    BY <1>1, <1>2
  <2>2. Shows(N, F, Show(dc), dc, active)
    BY <1>4, <2>1
  <2>3. shown[i] = Show(dc)
    BY <2>1
  <2> HIDE DEF shown, Show
  <2>4. Shows(N, F, shown[i], dcs[i], active)
    BY <2>1, <2>2, <2>3
  <2> QED BY <2>4 DEF Shows
<1>6. shown = [i \in 1..n |-> shown[i]]
  OBVIOUS
<1>7. Each(dcs, LAMBDA dc : [dc EXCEPT !.file_box = file_box_flush(@), !.score = 0, !.old_rank = -1,
                                       !.is_active = (dc.name = active)]) = SubSeq(shown, 1, n)
  BY <1>2 DEF Each
<1> HIDE DEF shown, Show
<1>8. shown \in Seq(ADirCont(N, F)) /\ Len(shown) = n /\ DOMAIN shown = 1..n /\ SubSeq(shown, 1, n) = shown
  BY <1>5, <1>6, FunctionIs
<1>9. Shown(N, F, w.dcs, active, shown)
  BY <1>1, <1>2, <1>5, <1>8 DEF Shown
<1>10. rearrange_and_show(w) = [dcs |-> shown, active |-> active, vbox |-> Arranged(w.vbox, w.dcs)]
  <2>1. PICK was : was = w.active
    OBVIOUS
  <2>2. PICK box : box = w.vbox
    OBVIOUS
  <2>3. w = [dcs |-> dcs, active |-> was, vbox |-> box]
    BY <1>1, <2>1, <2>2 DEF AVg
  <2>4. PICK vbox : vbox = Arranged(box, dcs)
    OBVIOUS
  <2>5. rearrange_and_show(w) =
           [w EXCEPT !.active = active, !.vbox = Arranged(@, dcs),
                     !.dcs = Each(@, LAMBDA dc : [dc EXCEPT !.file_box = file_box_flush(@),
                                                            !.score = 0, !.old_rank = -1,
                                                            !.is_active = (dc.name = active)])]
    BY <1>1, <1>3 DEF rearrange_and_show
  <2>6. rearrange_and_show(w) = [dcs |-> shown, active |-> active, vbox |-> vbox]
    BY <1>7, <1>8, <2>3, <2>4, <2>5
  <2> QED BY <1>1, <2>2, <2>4, <2>6
<1> QED BY <1>3, <1>9, <1>10

\* The display when the directories that are gone have gone.
MiniCulled(N, F, vg, L, s0, entry, w) ==
    /\ Unmarks(N, F, vg.dcs, s0) /\ MiniEntries(N, F, s0, L, entry)
    /\ w \in AVg(N, F) /\ Culled(ADirCont(N, F), s0, L, entry, w.dcs) /\ Rankings(w.dcs)
    /\ w.active = IF vg.active \in {L[j].name : j \in DOMAIN L} THEN vg.active ELSE NoDir
    /\ Rearranged(N, s0, L, vg.vbox, Arranged(w.vbox, w.dcs))
    /\ process_glob_data(vg, L) = rearrange_and_show(w)

LEMMA MiniCulledIs ==
    ASSUME NEW N, NEW F, NEW vg \in AVg(N, F), NamedOnce(vg.dcs),
           IsInjective(vg.vbox), ToSet(vg.vbox) = {vg.dcs[i].name : i \in DOMAIN vg.dcs},
           NEW L, GoodListing(N, F, L)
    PROVE  \E s0, entry, w : MiniCulled(N, F, vg, L, s0, entry, w)
<1>1. PICK s0, entry, t : MiniTaken(N, F, vg, L, s0, entry, t)
  BY MiniTakenIs
<1>2. PICK D : D = ADirCont(N, F)
  OBVIOUS
<1>3. Entries(D, s0, L, entry) /\ HasRead(D, s0, L, entry, Len(L), t)
  BY <1>1, <1>2 DEF MiniTaken, MiniEntries
<1>4. \A j \in DOMAIN L : TakenIn(N, F, s0, L[j], j - 1, entry[j])
  BY <1>1 DEF MiniTaken, MiniEntries
<1>5. /\ s0 \in Seq(ADirCont(N, F)) /\ DOMAIN s0 = DOMAIN vg.dcs
      /\ \A i \in DOMAIN s0 : s0[i].name = vg.dcs[i].name /\ s0[i].marked = FALSE
  BY <1>1 DEF MiniTaken, Unmarks, SameBut
<1>6. PICK kept : kept = Picked(t, {i \in DOMAIN t : t[i].marked})
  OBVIOUS
<1>7. Culled(D, s0, L, entry, kept)
  <2>1. \A j \in DOMAIN L : entry[j].marked = TRUE
    BY <1>4 DEF TakenIn
  <2>2. \A i \in DOMAIN s0 : s0[i].marked = FALSE
    BY <1>5
  <2> QED BY <1>3, <1>6, <2>1, <2>2, CulledIs, ZenonT(60)
<1>8. Ranking(s0, L, entry)
  <2>1. ASSUME NEW j \in DOMAIN L
        PROVE  /\ entry[j].rank = j - 1
               /\ \A i \in DOMAIN s0 : s0[i].name = L[j].name => entry[j].old_rank = s0[i].rank
               /\ (\A i \in DOMAIN s0 : s0[i].name # L[j].name) => entry[j].old_rank = -1
    BY <1>4 DEF TakenIn
  <2>2. ASSUME NEW j \in DOMAIN L, \A i \in DOMAIN s0 : s0[i].name # L[j].name
        PROVE  is_new(entry[j])
    <3>1. entry[j].old_rank = -1
      BY <2>1, <2>2
    <3> QED BY <3>1 DEF is_new
  <2> QED BY <2>1, <2>2 DEF Ranking
<1>9. Rankings(kept)
  BY <1>3, <1>7, <1>8, CulledRankings
<1>10. PICK vbox \in Seq(N) : vbox = vg.vbox
  BY DEF AVg
<1>11. PICK names : names = {kept[i].name : i \in DOMAIN kept}
  OBVIOUS
<1>12. PICK box : box = Picked(vbox, {i \in DOMAIN vbox : vbox[i] \in names})
  OBVIOUS
<1>13. names = {L[j].name : j \in DOMAIN L} /\ Rearranged(N, s0, L, vbox, Arranged(box, kept))
  <2>1. IsInjective(vbox) /\ ToSet(vbox) = {s0[i].name : i \in DOMAIN s0}
    BY <1>5, <1>10
  <2>2. ASSUME NEW j \in DOMAIN L
        PROVE  L[j].name \in N
    <3>1. L[j] \in ADir(N, F)
      BY DEF GoodListing
    <3> QED BY <3>1 DEF ADir
  <2>3. names = {kept[i].name : i \in DOMAIN kept}
    BY <1>11
  <2>4. Repacked(N, s0, L, vbox, kept, names)
    BY <1>3, <1>7, <1>8, <1>10, <2>1, <2>2, <2>3, RearrangedIs
  <2> QED BY <1>12, <2>4 DEF Repacked
<1>14. PICK active : active = IF vg.active \in names THEN vg.active ELSE NoDir
  OBVIOUS
<1>15. PICK w : w = [dcs |-> kept, active |-> active, vbox |-> box]
  OBVIOUS
<1>16. w.dcs = kept /\ w.active = active /\ w.vbox = box
  BY <1>15
<1>17. box \in Seq(N)
  <2>1. {i \in DOMAIN vbox : vbox[i] \in names} \in SUBSET (DOMAIN vbox)
    OBVIOUS
  <2>2. PICK key : key = [y \in N |-> y]
    OBVIOUS
  <2>3. \A i \in DOMAIN vbox : vbox[i] \in N /\ key[vbox[i]] = vbox[i]
    BY <2>2
  <2>4. KeyOnce(vbox, key)
    BY <1>10, <2>3 DEF IsInjective, KeyOnce
  <2> QED BY <1>10, <1>12, <2>1, <2>4, KeptIs
<1>18. w \in AVg(N, F)
  <2>1. active \in N \cup {NoDir}
    BY <1>14 DEF AVg
  <2>2. kept \in Seq(ADirCont(N, F))
    BY <1>2, <1>7 DEF Culled
  <2> QED BY <1>15, <1>17, <2>1, <2>2 DEF AVg
<1>19. process_glob_data(vg, L) = rearrange_and_show(w)
  <2>1. PICK v : v = TakenVg(vg, L)
    OBVIOUS
  <2>2. process_glob_data(vg, L) = rearrange_and_show(cull_dcs(v))
    BY <2>1 DEF process_glob_data, TakenVg
  <2>3. v.dcs = t /\ v.active = vg.active /\ v.vbox = vbox
    BY <1>1, <1>10, <2>1 DEF MiniTaken
  <2>4. cull_dcs(v) = w
    BY <1>6, <1>11, <1>12, <1>14, <1>15, <2>3 DEF cull_dcs
  <2> QED BY <2>2, <2>4
<1>20. MiniCulled(N, F, vg, L, s0, entry, w)
  BY <1>1, <1>2, <1>7, <1>9, <1>10, <1>13, <1>14, <1>16, <1>18, <1>19 DEF MiniCulled, MiniTaken
<1> QED BY <1>20

\* What a widget shows of its directory.
ShowsDir(dc, dir, rank) ==
    /\ dc.name = dir.name /\ dc.rank = rank
    /\ dc.selected = dir.selected /\ dc.total = dir.total /\ dc.hidden = dir.hidden
    /\ dc.is_pwd = dir.is_pwd /\ dc.is_restricted = (dir.total = 0)
    /\ HoldsJust(dc.file_box, dir.files)

\* One step from the display to the one that shows the listing: entry[j] is
\* what becomes of the widget of the j-th directory.
MiniStep(N, F, vg, L, s0, entry, w, v) ==
    /\ MiniCulled(N, F, vg, L, s0, entry, w) /\ v = process_glob_data(vg, L)
    /\ Shown(N, F, w.dcs, v.active, v.dcs) /\ v.active = Chosen(w)
    /\ v.vbox = Arranged(w.vbox, w.dcs)
    /\ v = [dcs |-> v.dcs, active |-> v.active, vbox |-> v.vbox]
    /\ \A i \in DOMAIN w.dcs : \E j \in DOMAIN L :
          w.dcs[i] = entry[j] /\ ShowsDir(v.dcs[i], L[j], j - 1)
    /\ \A j \in DOMAIN L : \E i \in DOMAIN w.dcs :
          w.dcs[i] = entry[j] /\ ShowsDir(v.dcs[i], L[j], j - 1)

LEMMA ShowsDirIs ==
    ASSUME NEW N, NEW F, NEW dcs, NEW dir \in ADir(N, F), NamedOnce(dir.files), NEW rank,
           NEW dc, TakenIn(N, F, dcs, dir, rank, dc)
    PROVE  /\ file_box_flush(dc.file_box) \in Boxes(F)
           /\ \A c, active : Shows(N, F, c, dc, active) => ShowsDir(c, dir, rank)
<1>1. PICK box \in Boxes(F) : box = dc.file_box
  BY DEF TakenIn, ADirCont
<1>2. Holds(box, dir.files)
  BY <1>1 DEF TakenIn
<1>3. dir.files \in Seq(F)
  BY DEF ADir
<1>4. file_box_flush(box) \in Boxes(F) /\ HoldsJust(file_box_flush(box), dir.files)
  BY <1>2, <1>3, FlushIs
<1>5. ASSUME NEW c, NEW active, Shows(N, F, c, dc, active)
      PROVE  ShowsDir(c, dir, rank)
  <2>1. c.name = dir.name /\ c.rank = rank /\ c.is_pwd = dir.is_pwd
        /\ c.is_restricted = (dir.total = 0)
    BY <1>5 DEF Shows, TakenIn
  <2>2. c.selected = dir.selected /\ c.total = dir.total /\ c.hidden = dir.hidden
    BY <1>5 DEF Shows, TakenIn
  <2>3. c.file_box = file_box_flush(box)
    BY <1>1, <1>5 DEF Shows
  <2> QED BY <1>4, <2>1, <2>2, <2>3 DEF ShowsDir
<1> QED BY <1>1, <1>4, <1>5

LEMMA MiniStepIs ==
    ASSUME NEW N, NEW F, NEW vg, NEW L, GoodListing(N, F, L),
           NEW s0, NEW entry, NEW w, MiniCulled(N, F, vg, L, s0, entry, w)
    PROVE  \E v : MiniStep(N, F, vg, L, s0, entry, w, v)
<1>1. ASSUME NEW j \in DOMAIN L
      PROVE  /\ file_box_flush(entry[j].file_box) \in Boxes(F)
             /\ \A c, active : Shows(N, F, c, entry[j], active) => ShowsDir(c, L[j], j - 1)
  <2>1. L[j] \in ADir(N, F) /\ NamedOnce(L[j].files)
    BY DEF GoodListing
  <2>2. TakenIn(N, F, s0, L[j], j - 1, entry[j])
    BY DEF MiniCulled, MiniEntries
  <2> QED BY <2>1, <2>2, ShowsDirIs
<1>2. /\ \A i \in DOMAIN w.dcs : \E j \in DOMAIN L : w.dcs[i] = entry[j]
      /\ \A j \in DOMAIN L : \E i \in DOMAIN w.dcs : w.dcs[i] = entry[j]
  BY DEF MiniCulled, Culled
<1>3. w \in AVg(N, F)
  BY DEF MiniCulled
<1>4. \A i \in DOMAIN w.dcs : file_box_flush(w.dcs[i].file_box) \in Boxes(F)
  BY <1>1, <1>2
<1>5. PICK shown : /\ Shown(N, F, w.dcs, Chosen(w), shown)
                   /\ rearrange_and_show(w) =
                         [dcs |-> shown, active |-> Chosen(w), vbox |-> Arranged(w.vbox, w.dcs)]
  BY <1>3, <1>4, ShownIs
<1>6. PICK v : v = process_glob_data(vg, L)
  OBVIOUS
<1>7. PICK active : active = Chosen(w)
  OBVIOUS
<1>8. PICK vbox : vbox = Arranged(w.vbox, w.dcs)
  OBVIOUS
<1>9. v = [dcs |-> shown, active |-> active, vbox |-> vbox]
  BY <1>5, <1>6, <1>7, <1>8 DEF MiniCulled
<1>10. v.dcs = shown /\ v.active = active /\ v.vbox = vbox
  BY <1>9
<1>11. \A i \in DOMAIN w.dcs : Shows(N, F, v.dcs[i], w.dcs[i], active)
  BY <1>5, <1>7, <1>10 DEF Shown
<1>12. ASSUME NEW i \in DOMAIN w.dcs
       PROVE  \E j \in DOMAIN L : w.dcs[i] = entry[j] /\ ShowsDir(v.dcs[i], L[j], j - 1)
  <2>1. PICK j \in DOMAIN L : w.dcs[i] = entry[j]
    BY <1>2
  <2> QED BY <1>1, <1>11, <2>1
<1>13. ASSUME NEW j \in DOMAIN L
       PROVE  \E i \in DOMAIN w.dcs : w.dcs[i] = entry[j] /\ ShowsDir(v.dcs[i], L[j], j - 1)
  <2>1. PICK i \in DOMAIN w.dcs : w.dcs[i] = entry[j]
    BY <1>2
  <2> QED BY <1>1, <1>11, <2>1
<1>14. MiniStep(N, F, vg, L, s0, entry, w, v)
  BY <1>5, <1>6, <1>7, <1>8, <1>9, <1>10, <1>12, <1>13 DEF MiniStep
<1> QED BY <1>14

\* The mini display shows this listing.
MiniShows(N, F, vg, L) ==
    /\ vg \in AVg(N, F) /\ NamedOnce(vg.dcs) /\ Len(vg.dcs) = Len(L)
    /\ \A i \in DOMAIN vg.dcs : \E j \in DOMAIN L : ShowsDir(vg.dcs[i], L[j], j - 1)
    /\ \A j \in DOMAIN L : \E i \in DOMAIN vg.dcs : ShowsDir(vg.dcs[i], L[j], j - 1)
    /\ IsInjective(vg.vbox) /\ Len(vg.vbox) = Len(L)
    /\ ToSet(vg.vbox) = {L[j].name : j \in DOMAIN L}
    /\ vg.active = NoDir <=> L = <<>>
    /\ vg.active # NoDir => \E i \in DOMAIN vg.dcs : vg.dcs[i].name = vg.active
    /\ \A i \in DOMAIN vg.dcs :
          /\ vg.dcs[i].is_active = (vg.dcs[i].name = vg.active)
          /\ vg.dcs[i].marked = TRUE /\ vg.dcs[i].score = 0 /\ vg.dcs[i].old_rank = -1

\* The names of the widgets are those of the listing.
SameNames(dcs, L) == {dcs[i].name : i \in DOMAIN dcs} = {L[j].name : j \in DOMAIN L}

LEMMA ShownNames ==
    ASSUME NEW N, NEW F, NEW vg, NEW L, MiniShows(N, F, vg, L)
    PROVE  SameNames(vg.dcs, L)
<1>1. ASSUME NEW i \in DOMAIN vg.dcs
      PROVE  \E j \in DOMAIN L : vg.dcs[i].name = L[j].name
  BY DEF MiniShows, ShowsDir
<1>2. ASSUME NEW j \in DOMAIN L
      PROVE  \E i \in DOMAIN vg.dcs : vg.dcs[i].name = L[j].name
  BY DEF MiniShows, ShowsDir
<1> QED BY <1>1, <1>2 DEF SameNames

LEMMA MiniStepShows ==
    ASSUME NEW N, NEW F, NEW vg, NEW L, GoodListing(N, F, L), NoDir \notin N, L # <<>>,
           NEW s0, NEW entry, NEW w, NEW v, MiniStep(N, F, vg, L, s0, entry, w, v)
    PROVE  MiniShows(N, F, v, L) /\ ActiveChosen(w, v.active)
<1>1. MiniCulled(N, F, vg, L, s0, entry, w)
  BY DEF MiniStep
<1>2. /\ w.dcs \in Seq(ADirCont(N, F)) /\ NamedOnce(w.dcs) /\ Len(w.dcs) = Len(L)
      /\ Rankings(w.dcs)
  BY <1>1 DEF MiniCulled, Culled
<1>3. L \in Seq(ADir(N, F)) /\ DOMAIN L = 1..Len(L) /\ Len(L) \in Nat
  BY DEF GoodListing
<1>4. w.dcs # <<>> /\ DOMAIN w.dcs = DOMAIN L
  BY <1>2, <1>3
<1>5. \A j \in DOMAIN L : entry[j].name = L[j].name
  BY <1>1 DEF MiniCulled, MiniEntries, Entries
<1>6. w.active # NoDir => \E i \in DOMAIN w.dcs : w.dcs[i].name = w.active
  <2> SUFFICES ASSUME w.active # NoDir
               PROVE  \E i \in DOMAIN w.dcs : w.dcs[i].name = w.active
    OBVIOUS
  <2>1. PICK j \in DOMAIN L : w.active = L[j].name
    BY <1>1 DEF MiniCulled
  <2>2. PICK i \in DOMAIN w.dcs : w.dcs[i] = entry[j]
    BY DEF MiniStep
  <2> QED BY <1>5, <2>1, <2>2
<1>7. ActiveChosen(w, v.active)
  <2>1. ActiveChosen(w, Chosen(w))
    BY <1>2, <1>4, <1>6, ChosenIs
  <2> QED BY <2>1 DEF MiniStep
<1>8. /\ v.dcs \in Seq(ADirCont(N, F)) /\ Len(v.dcs) = Len(L) /\ DOMAIN v.dcs = DOMAIN w.dcs
      /\ \A i \in DOMAIN w.dcs : Shows(N, F, v.dcs[i], w.dcs[i], v.active)
  BY <1>2 DEF MiniStep, Shown
<1>9. \A i \in DOMAIN w.dcs :
         /\ v.dcs[i].name = w.dcs[i].name /\ v.dcs[i].is_active = (v.dcs[i].name = v.active)
         /\ v.dcs[i].score = 0 /\ v.dcs[i].old_rank = -1 /\ v.dcs[i].marked = w.dcs[i].marked
  BY <1>8 DEF Shows
<1>10. \A i \in DOMAIN w.dcs : w.dcs[i].marked = TRUE
  <2>1. \A j \in DOMAIN L : entry[j].marked = TRUE
    BY <1>1 DEF MiniCulled, MiniEntries, TakenIn
  <2>2. \A i \in DOMAIN w.dcs : \E j \in DOMAIN L : w.dcs[i] = entry[j]
    BY DEF MiniStep
  <2> QED BY <2>1, <2>2
<1>11. PICK a \in DOMAIN w.dcs : w.dcs[a].name = v.active
  BY <1>7 DEF ActiveChosen
<1>12. v.active \in N
  <2>1. w.dcs[a] \in ADirCont(N, F)
    BY <1>2, <1>11
  <2> QED BY <1>11, <2>1 DEF ADirCont
<1>13. v.active # NoDir
  BY <1>12
<1>14. /\ v.vbox \in Seq(N) /\ IsInjective(v.vbox) /\ Len(v.vbox) = Len(L)
       /\ ToSet(v.vbox) = {L[j].name : j \in DOMAIN L}
  BY <1>1 DEF MiniStep, MiniCulled, Rearranged
<1>15. v \in AVg(N, F)
  <2>1. PICK dcs, active, vbox : dcs = v.dcs /\ active = v.active /\ vbox = v.vbox
    OBVIOUS
  <2>2. v = [dcs |-> dcs, active |-> active, vbox |-> vbox]
    BY <2>1 DEF MiniStep
  <2>3. dcs \in Seq(ADirCont(N, F)) /\ active \in N \cup {NoDir} /\ vbox \in Seq(N)
    BY <1>8, <1>12, <1>14, <2>1
  <2> QED BY <2>2, <2>3 DEF AVg
<1>16. NamedOnce(v.dcs)
  BY <1>2, <1>8, <1>9 DEF NamedOnce
<1>17. /\ \A i \in DOMAIN v.dcs : \E j \in DOMAIN L : ShowsDir(v.dcs[i], L[j], j - 1)
       /\ \A j \in DOMAIN L : \E i \in DOMAIN v.dcs : ShowsDir(v.dcs[i], L[j], j - 1)
  BY <1>8 DEF MiniStep
<1>18. \E i \in DOMAIN v.dcs : v.dcs[i].name = v.active
  BY <1>8, <1>9, <1>11
<1>19. MiniShows(N, F, v, L)
  BY <1>8, <1>9, <1>10, <1>13, <1>14, <1>15, <1>16, <1>17, <1>18 DEF MiniShows
<1> QED BY <1>7, <1>19

SameFields(c, d) ==
    /\ c.name = d.name /\ c.rank = d.rank /\ c.old_rank = d.old_rank
    /\ c.marked = d.marked /\ c.score = d.score /\ c.selected = d.selected
    /\ c.total = d.total /\ c.hidden = d.hidden /\ c.is_restricted = d.is_restricted
    /\ c.is_pwd = d.is_pwd /\ c.is_active = d.is_active /\ c.file_box = d.file_box

LEMMA SameDirCont ==
    ASSUME NEW N, NEW F, NEW c \in ADirCont(N, F), NEW d \in ADirCont(N, F), SameFields(c, d)
    PROVE  c = d
BY DEF ADirCont, SameFields

\* Only where no directory can be read is one that cannot active.
LEMMA MiniStepActive ==
    ASSUME NEW N, NEW F, NEW vg \in AVg(N, F), NEW L, GoodListing(N, F, L), L # <<>>,
           NEW s0, NEW entry, NEW w, NEW v, MiniStep(N, F, vg, L, s0, entry, w, v),
           ActiveChosen(w, v.active)
    PROVE  \A i \in DOMAIN v.dcs : v.dcs[i].name = v.active /\ v.dcs[i].is_restricted =>
               \A j \in DOMAIN v.dcs : v.dcs[j].is_restricted
<1>1. MiniCulled(N, F, vg, L, s0, entry, w)
  BY DEF MiniStep
<1>2. /\ DOMAIN v.dcs = DOMAIN w.dcs
      /\ \A i \in DOMAIN w.dcs : v.dcs[i].name = w.dcs[i].name
                                 /\ v.dcs[i].is_restricted = w.dcs[i].is_restricted
  BY DEF MiniStep, Shown, Shows
<1>3. w.dcs # <<>> /\ DOMAIN w.dcs = DOMAIN L /\ 1 \in DOMAIN w.dcs
  <2>1. L \in Seq(ADir(N, F)) /\ w.dcs \in Seq(ADirCont(N, F)) /\ Len(w.dcs) = Len(L)
    BY <1>1 DEF GoodListing, MiniCulled, Culled
  <2> QED BY <2>1
<1>4. w.dcs[1].is_restricted => w.dcs[1].score = 0 \/ w.dcs[1].rank = 0
  <2> SUFFICES ASSUME w.dcs[1].is_restricted
               PROVE  w.dcs[1].score = 0 \/ w.dcs[1].rank = 0
    OBVIOUS
  <2>1. PICK j \in DOMAIN L : w.dcs[1] = entry[j]
    BY <1>3 DEF MiniStep
  <2>2. TakenIn(N, F, s0, L[j], j - 1, entry[j])
    BY <1>1 DEF MiniCulled, MiniEntries
  <2>3. L[j].total = 0
    BY <2>1, <2>2 DEF TakenIn
  <2>4. L[j].files = <<>>
    BY <2>3 DEF GoodListing
  <2>5. w.dcs[1].name = L[j].name
    BY <2>1, <2>2 DEF TakenIn
  <2>6. CASE \E i \in DOMAIN s0 : s0[i].name = L[j].name
    <3>1. PICK i \in DOMAIN s0 : s0[i].name = L[j].name
      BY <2>6
    <3>2. entry[j].score = s0[i].score
      BY <2>2, <2>4, <3>1 DEF TakenIn
    <3>3. s0[i].score = 0
      BY <1>1, <3>1 DEF MiniCulled, Unmarks, SameBut
    <3> QED BY <2>1, <3>2, <3>3
  <2>7. CASE \A i \in DOMAIN s0 : s0[i].name # L[j].name
    <3>1. w.dcs[1] = entry[1]
      BY <1>1, <1>3, <2>5, <2>7 DEF MiniCulled, Culled
    <3>2. TakenIn(N, F, s0, L[1], 1 - 1, entry[1])
      BY <1>1, <1>3 DEF MiniCulled, MiniEntries
    <3>3. entry[1].rank = 1 - 1
      BY <3>2 DEF TakenIn
    <3> QED BY <3>1, <3>3
  <2> QED BY <2>6, <2>7
<1>5. \A i \in DOMAIN w.dcs : w.dcs[i].name = v.active /\ w.dcs[i].is_restricted =>
          \A j \in DOMAIN w.dcs : w.dcs[j].is_restricted
  BY <1>4 DEF ActiveChosen
<1> QED BY <1>2, <1>5

\* To take the same listing in again changes nothing.
LEMMA MiniStepAgain ==
    ASSUME NEW N, NEW F, NEW vg, NEW L, MiniShows(N, F, vg, L), GoodListing(N, F, L), L # <<>>,
           \A i \in DOMAIN vg.dcs : vg.dcs[i].name = vg.active => ~ vg.dcs[i].is_restricted,
           NEW s0, NEW entry, NEW w, NEW v, MiniStep(N, F, vg, L, s0, entry, w, v),
           ActiveChosen(w, v.active)
    PROVE  v = vg
<1>1. MiniCulled(N, F, vg, L, s0, entry, w)
  BY DEF MiniStep
<1>2. /\ vg.dcs \in Seq(ADirCont(N, F)) /\ Len(vg.dcs) = Len(L)
      /\ vg.active # NoDir /\ \E i \in DOMAIN vg.dcs : vg.dcs[i].name = vg.active
      /\ \A i \in DOMAIN vg.dcs :
            /\ vg.dcs[i].is_active = (vg.dcs[i].name = vg.active)
            /\ vg.dcs[i].marked = TRUE /\ vg.dcs[i].score = 0 /\ vg.dcs[i].old_rank = -1
  BY DEF MiniShows, AVg
<1>3. /\ s0 \in Seq(ADirCont(N, F)) /\ DOMAIN s0 = DOMAIN vg.dcs /\ Len(s0) = Len(vg.dcs)
      /\ \A i \in DOMAIN s0 : /\ s0[i].name = vg.dcs[i].name /\ s0[i].rank = vg.dcs[i].rank
                              /\ s0[i].score = 0 /\ s0[i].file_box = vg.dcs[i].file_box
  BY <1>1 DEF MiniCulled, Unmarks, SameBut
<1>4. ASSUME NEW j \in DOMAIN L
      PROVE  \E i \in DOMAIN s0 : s0[i].name = L[j].name /\ s0[i].rank = j - 1
  <2>1. PICK i \in DOMAIN vg.dcs : ShowsDir(vg.dcs[i], L[j], j - 1)
    BY DEF MiniShows
  <2> QED BY <1>3, <2>1 DEF ShowsDir
<1>5. ASSUME NEW i \in DOMAIN s0
      PROVE  \E j \in DOMAIN L : L[j].name = s0[i].name
  <2>1. PICK j \in DOMAIN L : ShowsDir(vg.dcs[i], L[j], j - 1)
    BY <1>3 DEF MiniShows
  <2> QED BY <1>3, <2>1 DEF ShowsDir
<1>6. v.vbox = vg.vbox
  BY <1>1, <1>4, <1>5 DEF MiniStep, MiniCulled, Rearranged
<1>7. /\ w.dcs \in Seq(ADirCont(N, F)) /\ Len(w.dcs) = Len(s0)
      /\ \A i \in DOMAIN s0 : w.dcs[i].name = s0[i].name
  BY <1>1, <1>4, <1>5 DEF MiniCulled, Culled
<1>8. DOMAIN w.dcs = DOMAIN vg.dcs /\ DOMAIN w.dcs = DOMAIN s0
  BY <1>2, <1>3, <1>7
<1>9. ASSUME NEW i \in DOMAIN vg.dcs
      PROVE  /\ w.dcs[i].rank = vg.dcs[i].rank /\ w.dcs[i].marked = TRUE /\ w.dcs[i].score = 0
             /\ w.dcs[i].selected = vg.dcs[i].selected /\ w.dcs[i].total = vg.dcs[i].total
             /\ w.dcs[i].hidden = vg.dcs[i].hidden /\ w.dcs[i].is_pwd = vg.dcs[i].is_pwd
             /\ w.dcs[i].is_restricted = vg.dcs[i].is_restricted
             /\ w.dcs[i].file_box = vg.dcs[i].file_box
             /\ file_box_flush(w.dcs[i].file_box) = vg.dcs[i].file_box
  <2>1. PICK j \in DOMAIN L : w.dcs[i] = entry[j]
    BY <1>8 DEF MiniStep
  <2>2. TakenIn(N, F, s0, L[j], j - 1, entry[j])
    BY <1>1 DEF MiniCulled, MiniEntries
  <2>3. w.dcs[i].name = vg.dcs[i].name
    BY <1>3, <1>7
  <2>4. w.dcs[i].name = L[j].name
    BY <2>1, <2>2 DEF TakenIn
  <2>5. PICK q \in DOMAIN L : ShowsDir(vg.dcs[i], L[q], q - 1)
    BY DEF MiniShows
  <2>6. q = j
    BY <2>3, <2>4, <2>5 DEF ShowsDir, GoodListing, NamedOnce
  <2>7. ShowsDir(vg.dcs[i], L[j], j - 1)
    BY <2>5, <2>6
  <2>8. s0[i].name = L[j].name /\ HoldsJust(s0[i].file_box, L[j].files)
    BY <1>3, <2>3, <2>4, <2>7 DEF ShowsDir
  <2>9. entry[j].score = s0[i].score /\ entry[j].file_box = s0[i].file_box
    BY <1>3, <2>2, <2>8 DEF TakenIn
  <2>10. entry[j].score = 0 /\ entry[j].file_box = vg.dcs[i].file_box
    BY <1>3, <2>9
  <2>11. file_box_flush(vg.dcs[i].file_box) = vg.dcs[i].file_box
    <3>1. vg.dcs[i] \in ADirCont(N, F)
      BY <1>2
    <3>2. PICK box \in Boxes(F) : box = vg.dcs[i].file_box
      BY <3>1 DEF ADirCont
    <3>3. HoldsJust(box, L[j].files) /\ Holds(box, L[j].files)
      BY <2>7, <3>2 DEF ShowsDir, HoldsJust, Holds
    <3>4. L[j] \in ADir(N, F) /\ NamedOnce(L[j].files)
      BY DEF GoodListing
    <3>5. L[j].files \in Seq(F)
      BY <3>4 DEF ADir
    <3>6. file_box_flush(box) = box
      BY <3>3, <3>4, <3>5, FlushIs
    <3> QED BY <3>2, <3>6
  <2>12. /\ entry[j].rank = vg.dcs[i].rank /\ entry[j].marked = TRUE
         /\ entry[j].selected = vg.dcs[i].selected /\ entry[j].total = vg.dcs[i].total
         /\ entry[j].hidden = vg.dcs[i].hidden /\ entry[j].is_pwd = vg.dcs[i].is_pwd
         /\ entry[j].is_restricted = vg.dcs[i].is_restricted
    BY <2>2, <2>7 DEF TakenIn, ShowsDir
  <2> QED BY <2>1, <2>10, <2>11, <2>12
<1>10. v.active = vg.active
  <2>1. PICK a \in DOMAIN vg.dcs : vg.dcs[a].name = vg.active
    BY <1>2
  <2>2. PICK j \in DOMAIN L : L[j].name = vg.active
    BY <1>3, <1>5, <2>1
  <2>3. w.active = vg.active
    BY <1>1, <2>2 DEF MiniCulled
  <2>4. \A i \in DOMAIN w.dcs : w.dcs[i].score = 0
    BY <1>8, <1>9
  <2>5. \A i \in DOMAIN w.dcs : w.dcs[i].name = w.active => ~ w.dcs[i].is_restricted
    <3> SUFFICES ASSUME NEW i \in DOMAIN w.dcs, w.dcs[i].name = w.active
                 PROVE  ~ w.dcs[i].is_restricted
      OBVIOUS
    <3>1. i \in DOMAIN vg.dcs /\ vg.dcs[i].name = vg.active
      BY <1>3, <1>7, <1>8, <2>3
    <3>2. ~ vg.dcs[i].is_restricted
      BY <3>1
    <3>3. w.dcs[i].is_restricted = vg.dcs[i].is_restricted
      BY <1>9, <3>1
    <3> QED BY <3>2, <3>3
  <2> QED BY <1>2, <2>3, <2>4, <2>5 DEF ActiveChosen
<1>11. v.dcs \in Seq(ADirCont(N, F)) /\ Len(v.dcs) = Len(vg.dcs) /\ DOMAIN v.dcs = DOMAIN vg.dcs
  BY <1>3, <1>7, <1>8 DEF MiniStep, Shown
<1>12. ASSUME NEW i \in DOMAIN vg.dcs
       PROVE  v.dcs[i] = vg.dcs[i]
  <2>1. Shows(N, F, v.dcs[i], w.dcs[i], v.active)
    BY <1>8 DEF MiniStep, Shown
  <2>2. w.dcs[i].name = vg.dcs[i].name
    BY <1>3, <1>7
  <2>3. /\ v.dcs[i].name = vg.dcs[i].name /\ v.dcs[i].rank = vg.dcs[i].rank
        /\ v.dcs[i].old_rank = vg.dcs[i].old_rank /\ v.dcs[i].marked = vg.dcs[i].marked
        /\ v.dcs[i].score = vg.dcs[i].score /\ v.dcs[i].selected = vg.dcs[i].selected
    BY <1>2, <1>9, <2>1, <2>2 DEF Shows
  <2>4. /\ v.dcs[i].total = vg.dcs[i].total /\ v.dcs[i].hidden = vg.dcs[i].hidden
        /\ v.dcs[i].is_restricted = vg.dcs[i].is_restricted
        /\ v.dcs[i].is_pwd = vg.dcs[i].is_pwd
        /\ v.dcs[i].is_active = vg.dcs[i].is_active /\ v.dcs[i].file_box = vg.dcs[i].file_box
    BY <1>2, <1>9, <1>10, <2>1, <2>2, ZenonT(60) DEF Shows
  <2>5. SameFields(v.dcs[i], vg.dcs[i])
    BY <2>3, <2>4 DEF SameFields
  <2>6. v.dcs[i] \in ADirCont(N, F) /\ vg.dcs[i] \in ADirCont(N, F)
    BY <1>2, <1>11
  <2> QED BY <2>5, <2>6, SameDirCont
<1>13. v.dcs = vg.dcs
  BY <1>2, <1>11, <1>12
<1>14. PICK dcs, active, vbox : dcs = vg.dcs /\ active = vg.active /\ vbox = vg.vbox
  OBVIOUS
<1>15. vg = [dcs |-> dcs, active |-> active, vbox |-> vbox]
  BY <1>14 DEF MiniShows, AVg
<1>16. v = [dcs |-> dcs, active |-> active, vbox |-> vbox]
  BY <1>6, <1>10, <1>13, <1>14 DEF MiniStep
<1> QED BY <1>15, <1>16

\* A listing on top of what the mini display shows already.
MiniProcessed(N, F, vg, L0, L, v) ==
    /\ MiniShows(N, F, v, L)
    /\ \A i \in DOMAIN v.dcs : v.dcs[i].name = v.active /\ v.dcs[i].is_restricted =>
           \A j \in DOMAIN v.dcs : v.dcs[j].is_restricted
    /\ /\ L = L0
       /\ \A i \in DOMAIN vg.dcs : vg.dcs[i].name = vg.active => ~ vg.dcs[i].is_restricted
       => v = vg

LEMMA MiniProcess ==
    ASSUME NEW N, NEW F, NEW vg, NEW L0, MiniShows(N, F, vg, L0),
           NEW L, GoodListing(N, F, L), NoDir \notin N, L # <<>>
    PROVE  MiniProcessed(N, F, vg, L0, L, process_glob_data(vg, L))
<1>1. vg \in AVg(N, F) /\ NamedOnce(vg.dcs) /\ IsInjective(vg.vbox)
  BY DEF MiniShows
<1>2. ToSet(vg.vbox) = {vg.dcs[i].name : i \in DOMAIN vg.dcs}
  <2>1. ToSet(vg.vbox) = {L0[j].name : j \in DOMAIN L0}
    BY DEF MiniShows
  <2>2. SameNames(vg.dcs, L0)
    BY ShownNames
  <2> QED BY <2>1, <2>2 DEF SameNames
<1>3. PICK s0, entry, w : MiniCulled(N, F, vg, L, s0, entry, w)
  BY <1>1, <1>2, MiniCulledIs
<1>4. PICK v : MiniStep(N, F, vg, L, s0, entry, w, v)
  BY <1>3, MiniStepIs
<1>5. v = process_glob_data(vg, L)
  BY <1>4 DEF MiniStep
<1>6. MiniShows(N, F, v, L) /\ ActiveChosen(w, v.active)
  BY <1>4, MiniStepShows
<1>7. \A i \in DOMAIN v.dcs : v.dcs[i].name = v.active /\ v.dcs[i].is_restricted =>
          \A j \in DOMAIN v.dcs : v.dcs[j].is_restricted
  BY <1>1, <1>4, <1>6, MiniStepActive
<1>8. ASSUME L = L0,
             \A i \in DOMAIN vg.dcs : vg.dcs[i].name = vg.active => ~ vg.dcs[i].is_restricted
      PROVE  v = vg
  <2>1. MiniShows(N, F, vg, L)
    BY <1>8
  <2> QED BY <1>4, <1>6, <1>8, <2>1, MiniStepAgain
<1>9. MiniProcessed(N, F, vg, L0, L, v)
  BY <1>6, <1>7, <1>8 DEF MiniProcessed
<1> QED BY <1>5, <1>9

\* What is in place is what a display shows where it is listed again.
LEMMA InPlaceIs ==
    ASSUME NEW s0, NEW L0, NEW L, NEW dcs, DOMAIN L0 \subseteq Nat, DOMAIN L \subseteq Nat,
           DOMAIN s0 = DOMAIN dcs,
           \A i \in DOMAIN dcs : s0[i].name = dcs[i].name /\ s0[i].rank = dcs[i].rank,
           \A i \in DOMAIN dcs : \E j \in DOMAIN L0 : dcs[i].name = L0[j].name /\ dcs[i].rank = j - 1,
           \A j \in DOMAIN L0 : \E i \in DOMAIN dcs : dcs[i].name = L0[j].name /\ dcs[i].rank = j - 1
    PROVE  InPlace(s0, L) = StillAt(L0, L)
<1>1. ASSUME NEW k \in DOMAIN L, NEW i \in DOMAIN s0, s0[i].name = L[k].name, s0[i].rank = k - 1
      PROVE  k \in DOMAIN L0 /\ L0[k].name = L[k].name
  <2>1. PICK j \in DOMAIN L0 : dcs[i].name = L0[j].name /\ dcs[i].rank = j - 1
    OBVIOUS
  <2>2. j \in Nat /\ k \in Nat /\ j - 1 = k - 1
    BY <1>1, <2>1
  <2>3. j = k
    BY <2>2
  <2> QED BY <1>1, <2>1, <2>3
<1>2. ASSUME NEW k \in DOMAIN L, k \in DOMAIN L0, L0[k].name = L[k].name
      PROVE  \E i \in DOMAIN s0 : s0[i].name = L[k].name /\ s0[i].rank = k - 1
  BY <1>2
<1> QED BY <1>1, <1>2 DEF InPlace, StillAt

\* A directory whose files come in the order of those it shows has them all in
\* order afterwards.
FilesFollow(dcs, L, next) ==
    \A i \in DOMAIN dcs, j \in DOMAIN L :
        dcs[i].name = L[j].name /\ Follows(dcs[i].file_box.fis, L[j].files) =>
            \E q \in DOMAIN next : next[q].name = L[j].name /\ next[q].file_box.fis = L[j].files

LEMMA FlushKeeps ==
    ASSUME NEW F, NEW b \in Boxes(F), NEW files \in Seq(F), NamedOnce(files), Holds(b, files),
           b.fis = files
    PROVE  file_box_flush(b).fis = files
<1>1. HoldsJust(b, files)
  BY DEF Holds, HoldsJust
<1>2. file_box_flush(b) = b
  BY <1>1, FlushIs
<1> QED BY <1>2

LEMMA MiniKeeps ==
    ASSUME NEW N, NEW F, NEW vg, NEW S, NEW L0 \in Seq(S), MiniShows(N, F, vg, L0),
           NEW L, GoodListing(N, F, L)
    PROVE  /\ Rearranges(L0, L, vg.vbox, process_glob_data(vg, L).vbox)
           /\ FilesFollow(vg.dcs, L, process_glob_data(vg, L).dcs)
<1>1. vg \in AVg(N, F) /\ NamedOnce(vg.dcs) /\ IsInjective(vg.vbox)
  BY DEF MiniShows
<1>2. ToSet(vg.vbox) = {vg.dcs[i].name : i \in DOMAIN vg.dcs}
  <2>1. ToSet(vg.vbox) = {L0[j].name : j \in DOMAIN L0}
    BY DEF MiniShows
  <2>2. SameNames(vg.dcs, L0)
    BY ShownNames
  <2> QED BY <2>1, <2>2 DEF SameNames
<1>3. PICK s0, entry, w : MiniCulled(N, F, vg, L, s0, entry, w)
  BY <1>1, <1>2, MiniCulledIs
<1>4. PICK v : MiniStep(N, F, vg, L, s0, entry, w, v)
  BY <1>3, MiniStepIs
<1>5. v = process_glob_data(vg, L)
  BY <1>4 DEF MiniStep
<1>6. /\ DOMAIN s0 = DOMAIN vg.dcs
      /\ \A i \in DOMAIN vg.dcs : /\ s0[i].name = vg.dcs[i].name /\ s0[i].rank = vg.dcs[i].rank
                                  /\ s0[i].file_box = vg.dcs[i].file_box
  BY <1>3 DEF MiniCulled, Unmarks, SameBut
<1>7. Rearranges(L0, L, vg.vbox, v.vbox)
  <2>1. DOMAIN L0 \subseteq Nat /\ DOMAIN L \subseteq Nat
    <3>1. L \in Seq(ADir(N, F))
      BY DEF GoodListing
    <3> QED BY <3>1
  <2>2. /\ \A i \in DOMAIN vg.dcs : \E j \in DOMAIN L0 : vg.dcs[i].name = L0[j].name /\ vg.dcs[i].rank = j - 1
        /\ \A j \in DOMAIN L0 : \E i \in DOMAIN vg.dcs : vg.dcs[i].name = L0[j].name /\ vg.dcs[i].rank = j - 1
    BY DEF MiniShows, ShowsDir
  <2>3. InPlace(s0, L) = StillAt(L0, L)
    BY <1>6, <2>1, <2>2, InPlaceIs
  <2>4. Rearranged(N, s0, L, vg.vbox, v.vbox)
    BY <1>3, <1>4 DEF MiniCulled, MiniStep
  <2> QED BY <2>3, <2>4 DEF Rearranged, Rearranges
<1>8. ASSUME NEW i \in DOMAIN vg.dcs, NEW j \in DOMAIN L, vg.dcs[i].name = L[j].name,
             Follows(vg.dcs[i].file_box.fis, L[j].files)
      PROVE  \E q \in DOMAIN v.dcs : v.dcs[q].name = L[j].name /\ v.dcs[q].file_box.fis = L[j].files
  <2>1. TakenIn(N, F, s0, L[j], j - 1, entry[j])
    BY <1>3 DEF MiniCulled, MiniEntries
  <2>2. entry[j].file_box.fis = L[j].files
    BY <1>6, <1>8, <2>1 DEF TakenIn
  <2>3. entry[j].file_box \in Boxes(F) /\ Holds(entry[j].file_box, L[j].files)
    BY <2>1 DEF TakenIn, ADirCont
  <2>4. L[j].files \in Seq(F) /\ NamedOnce(L[j].files)
    <3>1. L \in Seq(ADir(N, F)) /\ NamedOnce(L[j].files)
      BY DEF GoodListing
    <3>2. L[j] \in ADir(N, F)
      BY <3>1
    <3> QED BY <3>1, <3>2 DEF ADir
  <2>5. file_box_flush(entry[j].file_box).fis = L[j].files
    BY <2>2, <2>3, <2>4, FlushKeeps
  <2>6. PICK q \in DOMAIN w.dcs : w.dcs[q] = entry[j] /\ ShowsDir(v.dcs[q], L[j], j - 1)
    BY <1>4 DEF MiniStep
  <2>7. Shown(N, F, w.dcs, v.active, v.dcs)
    BY <1>4 DEF MiniStep
  <2>8. q \in DOMAIN v.dcs /\ v.dcs[q].file_box = file_box_flush(entry[j].file_box)
    BY <2>6, <2>7 DEF Shown, Shows
  <2>9. v.dcs[q].name = L[j].name
    BY <2>6 DEF ShowsDir
  <2> QED BY <2>5, <2>8, <2>9
<1>9. FilesFollow(vg.dcs, L, v.dcs)
  BY <1>8 DEF FilesFollow
<1> QED BY <1>5, <1>7, <1>9

-----------------------------------------------------------------------------
(* The user moves.                                                         *)

\* Another directory is active and nothing else has changed.
Moved(vg, v, a) ==
    /\ v.active = vg.dcs[a].name /\ v.vbox = vg.vbox
    /\ v = [dcs |-> v.dcs, active |-> v.active, vbox |-> v.vbox]
    /\ v.dcs = [i \in DOMAIN vg.dcs |-> v.dcs[i]]
    /\ Len(v.dcs) = Len(vg.dcs) /\ DOMAIN v.dcs = DOMAIN vg.dcs
    /\ \A i \in DOMAIN vg.dcs :
          /\ v.dcs[i] = [vg.dcs[i] EXCEPT !.is_active = v.dcs[i].is_active]
          /\ v.dcs[i].is_active = (vg.dcs[i].name = v.active)

\* The same DirCont, active or not.
WithActive(N, F, c, dc, is) ==
    /\ c \in ADirCont(N, F) /\ c.is_active = is
    /\ c.name = dc.name /\ c.rank = dc.rank /\ c.old_rank = dc.old_rank
    /\ c.marked = dc.marked /\ c.score = dc.score /\ c.selected = dc.selected
    /\ c.total = dc.total /\ c.hidden = dc.hidden
    /\ c.is_restricted = dc.is_restricted
    /\ c.is_pwd = dc.is_pwd /\ c.file_box = dc.file_box

LEMMA SetActive ==
    ASSUME NEW N, NEW F, NEW dc \in ADirCont(N, F), NEW is \in BOOLEAN,
           NEW c, c = [dc EXCEPT !.is_active = is]
    PROVE  WithActive(N, F, c, dc, is)
BY DEF ADirCont, WithActive

\* One element is replaced.
Replaced(D, t, i, x, u) ==
    /\ u \in Seq(D) /\ Len(u) = Len(t) /\ DOMAIN u = DOMAIN t /\ u[i] = x
    /\ \A j \in DOMAIN t : j # i => u[j] = t[j]

LEMMA ReplacedIs ==
    ASSUME NEW D, NEW t \in Seq(D), NEW i \in DOMAIN t, NEW x \in D
    PROVE  Replaced(D, t, i, x, [t EXCEPT ![i] = x])
BY DEF Replaced

\* The element of that name, where names are distinct.
LEMMA NamedAt ==
    ASSUME NEW S, NEW s \in Seq(S), NamedOnce(s), NEW a \in DOMAIN s
    PROVE  Named(s, s[a].name) = a
<1>1. Named(s, s[a].name) \in DOMAIN s /\ s[Named(s, s[a].name)].name = s[a].name
  BY NamedIs
<1> QED BY <1>1 DEF NamedOnce

LEMMA ActivatedIs ==
    ASSUME NEW N, NEW F, NEW vg, NEW L, MiniShows(N, F, vg, L),
           NEW a \in DOMAIN vg.dcs, vg.dcs[a].name # vg.active
    PROVE  Moved(vg, Activated(vg, vg.dcs[a].name), a)
<1>1. PICK dcs \in Seq(ADirCont(N, F)) : dcs = vg.dcs
  BY DEF MiniShows, AVg
<1>2. PICK n \in Nat : n = Len(dcs) /\ DOMAIN dcs = 1..n
  OBVIOUS
<1>3. PICK was, vbox : vg = [dcs |-> dcs, active |-> was, vbox |-> vbox]
  BY <1>1 DEF MiniShows, AVg
<1>4. PICK name : name = dcs[a].name
  OBVIOUS
<1>5. NamedOnce(dcs) /\ Named(dcs, name) = a /\ a \in 1..n
  <2>1. NamedOnce(dcs)
    BY <1>1 DEF MiniShows
  <2> QED BY <1>1, <1>2, <1>4, <2>1, NamedAt
<1>6. vg.active = was /\ vg.dcs = dcs /\ vg.vbox = vbox
  BY <1>3
<1>7. PICK o \in 1..n : dcs[o].name = was
  <2>1. 1..n # {}
    BY <1>5
  <2>2. vg.active # NoDir
    <3>1. Len(vg.dcs) = Len(L) /\ (vg.active = NoDir <=> L = <<>>)
      BY DEF MiniShows
    <3>2. L = <<>> => Len(L) = 0
      OBVIOUS
    <3> QED BY <1>2, <1>5, <1>6, <3>1, <3>2
  <2> QED BY <1>2, <1>6, <2>2 DEF MiniShows
<1>8. o # a
  BY <1>4, <1>6, <1>7
<1>9. PICK d1 : d1 = [dcs EXCEPT ![a].is_active = TRUE]
  OBVIOUS
<1>10. /\ d1 \in Seq(ADirCont(N, F)) /\ Len(d1) = n /\ DOMAIN d1 = 1..n
       /\ d1[a] = [dcs[a] EXCEPT !.is_active = TRUE]
       /\ \A i \in 1..n : i # a => d1[i] = dcs[i]
  <2>1. dcs[a] \in ADirCont(N, F)
    BY <1>2, <1>5
  <2>2. PICK c \in ADirCont(N, F) : c = [dcs[a] EXCEPT !.is_active = TRUE]
    BY <2>1, SetActive, ZenonT(60) DEF WithActive
  <2>3. d1 = [dcs EXCEPT ![a] = c]
    BY <1>9, <2>2
  <2>4. Replaced(ADirCont(N, F), dcs, a, c, d1)
    BY <1>2, <1>5, <2>3, ReplacedIs
  <2> QED BY <1>2, <2>2, <2>4 DEF Replaced
<1>11. \A i \in 1..n : d1[i].name = dcs[i].name
  <2>1. dcs[a] \in ADirCont(N, F)
    BY <1>2, <1>5
  <2>2. WithActive(N, F, d1[a], dcs[a], TRUE)
    BY <1>10, <2>1, SetActive
  <2> QED BY <1>10, <2>2 DEF WithActive
<1>12. Named(d1, was) = o
  <2>1. NamedOnce(d1)
    BY <1>2, <1>5, <1>10, <1>11 DEF NamedOnce
  <2> QED BY <1>7, <1>10, <1>11, <2>1, NamedAt
<1>13. PICK d2 : d2 = [d1 EXCEPT ![o].is_active = FALSE]
  OBVIOUS
<1>14. /\ d2 \in Seq(ADirCont(N, F)) /\ Len(d2) = n /\ DOMAIN d2 = 1..n
       /\ d2[o] = [dcs[o] EXCEPT !.is_active = FALSE]
       /\ d2[a] = [dcs[a] EXCEPT !.is_active = TRUE]
       /\ \A i \in 1..n : i # a /\ i # o => d2[i] = dcs[i]
  <2>1. d1[o] \in ADirCont(N, F) /\ d1[o] = dcs[o]
    BY <1>7, <1>8, <1>10
  <2>2. PICK c \in ADirCont(N, F) : c = [dcs[o] EXCEPT !.is_active = FALSE]
    BY <2>1, SetActive, ZenonT(60) DEF WithActive
  <2>3. d2 = [d1 EXCEPT ![o] = c]
    BY <1>13, <2>1, <2>2
  <2>4. Replaced(ADirCont(N, F), d1, o, c, d2)
    BY <1>7, <1>10, <2>3, ReplacedIs
  <2>5. d2[a] = d1[a]
    BY <1>5, <1>8, <1>10, <2>4 DEF Replaced
  <2>6. \A i \in 1..n : i # a /\ i # o => d2[i] = dcs[i]
    BY <1>10, <2>4 DEF Replaced
  <2> QED BY <1>10, <2>2, <2>4, <2>5, <2>6 DEF Replaced
<1>15. Activated(vg, name) = [dcs |-> d2, active |-> name, vbox |-> vbox]
  <2>1. PICK u : u = update_dc(vg, name, TRUE)
    OBVIOUS
  <2>2. u = [dcs |-> d1, active |-> was, vbox |-> vbox]
    BY <1>3, <1>5, <1>9, <2>1 DEF update_dc
  <2>3. PICK x : x = update_dc(u, was, FALSE)
    OBVIOUS
  <2>4. x = [dcs |-> d2, active |-> was, vbox |-> vbox]
    BY <1>12, <1>13, <2>2, <2>3 DEF update_dc
  <2>5. Activated(vg, name) = [x EXCEPT !.active = name]
    BY <1>6, <2>1, <2>3 DEF Activated
  <2> QED BY <2>4, <2>5
<1>16. PICK v : v = Activated(vg, name)
  OBVIOUS
<1>17. v.dcs = d2 /\ v.active = name /\ v.vbox = vbox
  BY <1>15, <1>16
<1>18. ASSUME NEW i \in 1..n
       PROVE  /\ d2[i] = [dcs[i] EXCEPT !.is_active = d2[i].is_active]
              /\ d2[i].is_active = (dcs[i].name = name)
  <2>1. PICK dc \in ADirCont(N, F) : dc = dcs[i]
    BY <1>2
  <2>2. CASE i = a
    <3>1. d2[i] = [dc EXCEPT !.is_active = TRUE]
      BY <1>14, <2>1, <2>2
    <3>2. WithActive(N, F, d2[i], dc, TRUE)
      BY <3>1, SetActive
    <3>3. d2[i].is_active = TRUE
      BY <3>2 DEF WithActive
    <3> QED BY <1>4, <2>1, <2>2, <3>1, <3>3
  <2>3. CASE i = o
    <3>1. d2[i] = [dc EXCEPT !.is_active = FALSE]
      BY <1>14, <2>1, <2>3
    <3>2. WithActive(N, F, d2[i], dc, FALSE)
      BY <3>1, SetActive
    <3>4. d2[i].is_active = FALSE
      BY <3>2 DEF WithActive
    <3>3. dcs[i].name # name
      BY <1>4, <1>6, <1>7, <2>3
    <3> QED BY <2>1, <3>1, <3>3, <3>4
  <2>4. CASE i # a /\ i # o
    <3>1. d2[i] = dc
      BY <1>14, <2>1, <2>4
    <3>2. dc.is_active = (dc.name = was)
      BY <1>1, <1>2, <1>6, <2>1, ZenonT(60) DEF MiniShows
    <3>3. dc.name # was /\ dc.name # name
      BY <1>2, <1>4, <1>5, <1>7, <2>1, <2>4 DEF NamedOnce
    <3>4. dc = [dc EXCEPT !.is_active = dc.is_active]
      BY DEF ADirCont
    <3> QED BY <2>1, <3>1, <3>2, <3>3, <3>4
  <2> QED BY <2>2, <2>3, <2>4
<1>19. Moved(vg, v, a)
  <2>1. v = [dcs |-> v.dcs, active |-> v.active, vbox |-> v.vbox]
    BY <1>15, <1>16, <1>17
  <2>2. d2 = [i \in 1..n |-> d2[i]]
    BY <1>14
  <2>3. v.active = vg.dcs[a].name /\ v.vbox = vg.vbox
    BY <1>1, <1>4, <1>6, <1>17
  <2>4. /\ v.dcs = [i \in DOMAIN vg.dcs |-> v.dcs[i]]
        /\ Len(v.dcs) = Len(vg.dcs) /\ DOMAIN v.dcs = DOMAIN vg.dcs
    BY <1>2, <1>6, <1>14, <1>17, <2>2
  <2>5. \A i \in DOMAIN vg.dcs :
            /\ v.dcs[i] = [vg.dcs[i] EXCEPT !.is_active = v.dcs[i].is_active]
            /\ v.dcs[i].is_active = (vg.dcs[i].name = v.active)
    BY <1>2, <1>6, <1>17, <1>18
  <2> QED BY <2>1, <2>3, <2>4, <2>5 DEF Moved
<1> QED BY <1>4, <1>6, <1>16, <1>19

SameDirs(vg, v) ==
    \A i \in DOMAIN vg.dcs : /\ v.dcs[i].name = vg.dcs[i].name
                             /\ v.dcs[i].is_restricted = vg.dcs[i].is_restricted

LEMMA MovedShows ==
    ASSUME NEW N, NEW F, NoDir \notin N, NEW vg, NEW L, MiniShows(N, F, vg, L),
           NEW a \in DOMAIN vg.dcs, NEW v, Moved(vg, v, a)
    PROVE  MiniShows(N, F, v, L) /\ SameDirs(vg, v)
<1>1. PICK dcs \in Seq(ADirCont(N, F)) : dcs = vg.dcs
  BY DEF MiniShows, AVg
<1>2. PICK n \in Nat : n = Len(dcs) /\ DOMAIN dcs = 1..n
  OBVIOUS
<1>3. PICK d : d = v.dcs
  OBVIOUS
<1>4. DOMAIN d = 1..n /\ Len(d) = n /\ a \in 1..n /\ v.active = dcs[a].name
  BY <1>1, <1>2, <1>3 DEF Moved
<1>5. ASSUME NEW i \in 1..n
      PROVE  WithActive(N, F, d[i], dcs[i], (dcs[i].name = v.active))
  <2>1. dcs[i] \in ADirCont(N, F)
    BY <1>2
  <2>2. PICK is \in BOOLEAN : is = (dcs[i].name = v.active)
    OBVIOUS
  <2>3. d[i] = [dcs[i] EXCEPT !.is_active = is]
    BY <1>1, <1>2, <1>3, <2>2, ZenonT(60) DEF Moved
  <2>4. WithActive(N, F, d[i], dcs[i], is)
    BY <2>1, <2>3, SetActive
  <2> QED BY <2>2, <2>4
<1>6. d \in Seq(ADirCont(N, F))
  <2>1. \A i \in 1..n : d[i] \in ADirCont(N, F)
    BY <1>5 DEF WithActive
  <2>2. d = [i \in 1..n |-> d[i]]
    BY <1>1, <1>2, <1>3 DEF Moved
  <2> QED BY <2>1, <2>2, FunctionIs
<1>7. \A i \in 1..n : d[i].name = dcs[i].name /\ d[i].is_restricted = dcs[i].is_restricted
  BY <1>5 DEF WithActive
<1>8. ASSUME NEW i \in 1..n, NEW j, ShowsDir(dcs[i], L[j], j - 1)
      PROVE  ShowsDir(d[i], L[j], j - 1)
  <2>1. WithActive(N, F, d[i], dcs[i], (dcs[i].name = v.active))
    BY <1>5
  <2> QED BY <1>8, <2>1 DEF WithActive, ShowsDir
<1>9. /\ \A i \in DOMAIN d : \E j \in DOMAIN L : ShowsDir(d[i], L[j], j - 1)
      /\ \A j \in DOMAIN L : \E i \in DOMAIN d : ShowsDir(d[i], L[j], j - 1)
  <2>1. /\ \A i \in 1..n : \E j \in DOMAIN L : ShowsDir(dcs[i], L[j], j - 1)
        /\ \A j \in DOMAIN L : \E i \in 1..n : ShowsDir(dcs[i], L[j], j - 1)
    BY <1>1, <1>2 DEF MiniShows
  <2> QED BY <1>4, <1>8, <2>1
<1>10. v.active \in N /\ v.active # NoDir
  <2>1. dcs[a] \in ADirCont(N, F)
    BY <1>2, <1>4
  <2>2. v.active \in N
    BY <1>4, <2>1 DEF ADirCont
  <2> QED BY <2>2
<1>11. L # <<>>
  <2>1. Len(L) = n
    BY <1>1, <1>2 DEF MiniShows
  <2>2. L = <<>> => Len(L) = 0
    OBVIOUS
  <2> QED BY <1>4, <2>1, <2>2
<1>12. /\ v.vbox = vg.vbox /\ v.vbox \in Seq(N) /\ IsInjective(v.vbox) /\ Len(v.vbox) = Len(L)
       /\ ToSet(v.vbox) = {L[j].name : j \in DOMAIN L}
  BY DEF Moved, MiniShows, AVg
<1>13. v \in AVg(N, F)
  <2>1. PICK active, vbox : active = v.active /\ vbox = v.vbox
    OBVIOUS
  <2>2. v = [dcs |-> d, active |-> active, vbox |-> vbox]
    BY <1>3, <2>1 DEF Moved
  <2> QED BY <1>6, <1>10, <1>12, <2>1, <2>2 DEF AVg
<1>14. NamedOnce(d)
  <2>1. NamedOnce(dcs)
    BY <1>1 DEF MiniShows
  <2> QED BY <1>2, <1>4, <1>7, <2>1 DEF NamedOnce
<1>15. ASSUME NEW i \in 1..n
       PROVE  /\ d[i].is_active = (d[i].name = v.active)
              /\ d[i].marked = TRUE /\ d[i].score = 0 /\ d[i].old_rank = -1
  <2>1. WithActive(N, F, d[i], dcs[i], (dcs[i].name = v.active))
    BY <1>5
  <2>2. dcs[i].marked = TRUE /\ dcs[i].score = 0 /\ dcs[i].old_rank = -1
    BY <1>1, <1>2 DEF MiniShows
  <2> QED BY <2>1, <2>2 DEF WithActive
<1>16. Len(d) = Len(L)
  BY <1>1, <1>2, <1>4 DEF MiniShows
<1>17. \E i \in DOMAIN d : d[i].name = v.active
  BY <1>4, <1>7
<1>18. MiniShows(N, F, v, L)
  BY <1>3, <1>4, <1>9, <1>10, <1>11, <1>12, <1>13, <1>14, <1>15, <1>16, <1>17 DEF MiniShows
<1> QED BY <1>1, <1>2, <1>3, <1>7, <1>18 DEF SameDirs

\* A header is clicked.
LEMMA ClickIs ==
    ASSUME NEW N, NEW F, NoDir \notin N, NEW vg, NEW L, MiniShows(N, F, vg, L),
           NEW a \in DOMAIN vg.dcs
    PROVE  /\ MiniShows(N, F, button_release_event(vg, vg.dcs[a].name), L)
           /\ button_release_event(vg, vg.dcs[a].name).vbox = vg.vbox
<1>1. CASE vg.active = vg.dcs[a].name
  BY <1>1 DEF button_release_event
<1>2. CASE vg.active # vg.dcs[a].name
  <2>1. PICK v : v = Activated(vg, vg.dcs[a].name)
    OBVIOUS
  <2>2. Moved(vg, v, a)
    BY <1>2, <2>1, ActivatedIs
  <2>3. MiniShows(N, F, v, L)
    BY <2>2, MovedShows
  <2>4. button_release_event(vg, vg.dcs[a].name) = v
    BY <1>2, <2>1 DEF button_release_event
  <2>5. v.vbox = vg.vbox
    BY <2>2 DEF Moved
  <2> QED BY <2>3, <2>4, <2>5
<1> QED BY <1>1, <1>2

\* The display stays as it is, or another directory that can be read is
\* active.
Navigated(N, F, vg, L, v) ==
    /\ MiniShows(N, F, v, L) /\ v.vbox = vg.vbox
    /\ \/ v = vg
       \/ /\ \A i \in DOMAIN v.dcs : v.dcs[i].name = v.active => ~ v.dcs[i].is_restricted
          /\ v.active # NoDir

LEMMA NavigateIs ==
    ASSUME NEW N, NEW F, NoDir \notin N, NEW vg, NEW L, GoodListing(N, F, L),
           MiniShows(N, F, vg, L), NEW next
    PROVE  Navigated(N, F, vg, L, activate_dc(vg, next))
<1>1. PICK dcs \in Seq(ADirCont(N, F)) : dcs = vg.dcs
  BY DEF MiniShows, AVg
<1>2. PICK n \in Nat : n = Len(dcs) /\ DOMAIN dcs = 1..n
  OBVIOUS
<1>3. PICK onward : onward = Onward(vg, next)
  OBVIOUS
<1>4. PICK open : open = {r \in onward : ~ dcs[Ranked(dcs, r)].is_restricted}
  OBVIOUS
<1>5. CASE vg.active = NoDir \/ open = {}
  <2>1. activate_dc(vg, next) = vg
    BY <1>1, <1>3, <1>4, <1>5 DEF activate_dc
  <2> QED BY <2>1 DEF Navigated
<1>6. CASE ~ (vg.active = NoDir \/ open = {})
  <2>1. \A i \in 1..n : dcs[i].rank \in 0..n
    <3>1. DOMAIN L = 1..n
      BY <1>1, <1>2 DEF MiniShows, GoodListing
    <3> SUFFICES ASSUME NEW i \in 1..n
                 PROVE  dcs[i].rank \in 0..n
      OBVIOUS
    <3>2. PICK j \in 1..n : ShowsDir(dcs[i], L[j], j - 1)
      BY <1>1, <1>2, <3>1 DEF MiniShows
    <3> QED BY <3>2 DEF ShowsDir
  <2>2. open \in SUBSET (0..n) /\ open # {} /\ open \subseteq onward
    <3>1. onward \subseteq {dcs[i].rank : i \in 1..n}
      BY <1>1, <1>2, <1>3 DEF Onward
    <3> QED BY <1>4, <1>6, <2>1, <3>1
  <2>3. PICK r \in open : r = Nearest(open, next)
    BY <1>2, <2>2, Bounds DEF Nearest
  <2>4. PICK a : a = Ranked(dcs, r)
    OBVIOUS
  <2>5. a \in 1..n /\ dcs[a].rank = r /\ ~ dcs[a].is_restricted
    <3>1. \E i \in DOMAIN dcs : dcs[i].rank = r
      BY <1>1, <1>2, <1>3, <2>2 DEF Onward
    <3>2. a \in DOMAIN dcs /\ dcs[a].rank = r
      BY <2>4, <3>1, RankedIs
    <3> QED BY <1>2, <1>4, <2>4, <3>2
  <2>6. dcs[a].name # vg.active
    <3> SUFFICES ASSUME dcs[a].name = vg.active
                 PROVE  FALSE
      OBVIOUS
    <3>1. Active(vg) = dcs[a]
      <4>1. NamedOnce(dcs)
        BY <1>1 DEF MiniShows
      <4>2. Named(dcs, dcs[a].name) = a
        BY <1>2, <2>5, <4>1, NamedAt
      <4> QED BY <1>1, <4>2 DEF Active
    <3>2. r \in onward /\ r \in 0..n
      BY <2>2
    <3>3. r # Active(vg).rank
      <4>1. PICK m : m = Active(vg).rank
        OBVIOUS
      <4>2. IF next THEN r > m ELSE r < m
        BY <1>3, <3>2, <4>1 DEF Onward
      <4>3. m \in 0..n
        BY <2>1, <2>5, <3>1, <4>1
      <4> QED BY <3>2, <4>1, <4>2, <4>3
    <3> QED BY <2>5, <3>1, <3>3
  <2>7. PICK v : v = activate_dc(vg, next)
    OBVIOUS
  <2>8. v = Activated(vg, dcs[a].name)
    BY <1>1, <1>3, <1>4, <1>6, <2>3, <2>4, <2>7 DEF activate_dc
  <2>9. Moved(vg, v, a)
    BY <1>1, <1>2, <2>5, <2>6, <2>8, ActivatedIs
  <2>10. /\ MiniShows(N, F, v, L)
         /\ \A i \in 1..n : v.dcs[i].name = dcs[i].name
                             /\ v.dcs[i].is_restricted = dcs[i].is_restricted
    <3>1. a \in DOMAIN vg.dcs
      BY <1>1, <1>2, <2>5
    <3>2. MiniShows(N, F, v, L)
      BY <2>9, <3>1, MovedShows
    <3>3. SameDirs(vg, v)
      BY <2>9, <3>1, MovedShows
    <3> QED BY <1>1, <1>2, <3>2, <3>3 DEF SameDirs
  <2>11. v.active = dcs[a].name /\ DOMAIN v.dcs = 1..n
    BY <1>1, <1>2, <2>9 DEF Moved
  <2>12. ASSUME NEW i \in DOMAIN v.dcs, v.dcs[i].name = v.active
         PROVE  ~ v.dcs[i].is_restricted
    <3>1. dcs[i].name = dcs[a].name
      BY <2>10, <2>11, <2>12
    <3>2. i = a
      BY <1>1, <1>2, <2>5, <2>11, <3>1 DEF MiniShows, NamedOnce
    <3> QED BY <2>5, <2>10, <2>11, <3>2
  <2>13. v.active # NoDir
    <3>1. dcs[a] \in ADirCont(N, F)
      BY <1>2, <2>5
    <3>2. dcs[a].name \in N
      BY <3>1 DEF ADirCont
    <3> QED BY <2>11, <3>2
  <2>14. v.vbox = vg.vbox
    BY <2>9 DEF Moved
  <2>15. Navigated(N, F, vg, L, v)
    BY <2>10, <2>12, <2>13, <2>14 DEF Navigated
  <2> QED BY <2>7, <2>15
<1> QED BY <1>5, <1>6

-----------------------------------------------------------------------------
(* The DListings of the classic display.                                   *)

ADListing(N, F) ==
    [name : N, rank : Int, old_rank : Int, marked : BOOLEAN,
     selected : Int, total : Int, hidden : Int, file_box : Boxes(F)]

\* The DListing of the directory, before the files that are gone go.
DListingOf(dls, dir, rank) ==
    LET i == Named(dls, dir.name)
        old == IF i = 0 THEN dlisting_new(dir.name) ELSE dls[i]
        box == IF i = 0 THEN old.file_box ELSE file_box_begin_read(old.file_box)
    IN [dlisting_mark(dlisting_set_file_counts(old, dir), rank) EXCEPT
           !.file_box = Filled(box, dir.files).fbox]

TakenInto(N, F, dls, dir, rank, dl) ==
    /\ dl \in ADListing(N, F) /\ dl.name = dir.name /\ dl.rank = rank /\ dl.marked = TRUE
    /\ dl.selected = dir.selected /\ dl.total = dir.total /\ dl.hidden = dir.hidden
    /\ Holds(dl.file_box, dir.files)
    /\ (\A i \in DOMAIN dls : dls[i].name # dir.name) => dl.old_rank = -1
    /\ \A i \in DOMAIN dls : dls[i].name = dir.name =>
          /\ dl.old_rank = dls[i].rank
          /\ HoldsJust(dls[i].file_box, dir.files) => dl.file_box = dls[i].file_box
          /\ Follows(dls[i].file_box.fis, dir.files) => dl.file_box.fis = dir.files

\* The box has changed for the files of the directory.
TookInto(N, F, old, box, dir, rank, dl) ==
    /\ dl \in ADListing(N, F) /\ dl.name = old.name /\ dl.rank = rank /\ dl.marked = TRUE
    /\ dl.selected = dir.selected /\ dl.total = dir.total /\ dl.hidden = dir.hidden
    /\ Holds(dl.file_box, dir.files) /\ dl.old_rank = old.rank
    /\ ToSet(dir.files) \subseteq ToSet(box.fis) => dl.file_box.fis = box.fis
    /\ Follows(box.fis, dir.files) => dl.file_box.fis = dir.files

LEMMA TookIntoIs ==
    ASSUME NEW N, NEW F, NEW dir \in ADir(N, F), NamedOnce(dir.files), NEW rank \in Nat,
           NEW old \in ADListing(N, F), NEW box \in Boxes(F), box.marked = {}, NEW dl,
           dl = [dlisting_mark(dlisting_set_file_counts(old, dir), rank) EXCEPT
                    !.file_box = Filled(box, dir.files).fbox]
    PROVE  TookInto(N, F, old, box, dir, rank, dl)
<1>1. PICK fill : fill = Filled(box, dir.files)
  OBVIOUS
<1>2. dir.files \in Seq(F)
  BY DEF ADir
<1>3. /\ fill \in [fbox : Boxes(F), points : Nat]
      /\ Holds(fill.fbox, dir.files)
      /\ ToSet(dir.files) \subseteq ToSet(box.fis) => fill.fbox.fis = box.fis
      /\ Follows(box.fis, dir.files) => fill.fbox.fis = dir.files
  BY <1>1, <1>2, FilledIs
<1>4. PICK fbox \in Boxes(F) : fbox = fill.fbox
  BY <1>3
<1>5. PICK set : set = dlisting_set_file_counts(old, dir)
  OBVIOUS
<1>6. PICK mark : mark = dlisting_mark(set, rank)
  OBVIOUS
<1>7. /\ set \in ADListing(N, F) /\ set.name = old.name /\ set.rank = old.rank
      /\ set.selected = dir.selected /\ set.total = dir.total /\ set.hidden = dir.hidden
  <2>1. dir.selected \in Int /\ dir.total \in Int /\ dir.hidden \in Int
    BY DEF ADir
  <2> QED BY <1>5, <2>1 DEF dlisting_set_file_counts, ADListing
<1>8. /\ mark \in ADListing(N, F) /\ mark.name = set.name /\ mark.rank = rank /\ mark.marked = TRUE
      /\ mark.selected = set.selected /\ mark.total = set.total /\ mark.hidden = set.hidden
      /\ mark.old_rank = set.rank
  <2>1. rank \in Int
    OBVIOUS
  <2> QED BY <1>6, <1>7, <2>1 DEF dlisting_mark, ADListing
<1>9. dl = [mark EXCEPT !.file_box = fbox]
  BY <1>1, <1>4, <1>5, <1>6
<1>10. /\ dl \in ADListing(N, F) /\ dl.name = mark.name /\ dl.rank = mark.rank
       /\ dl.marked = mark.marked
       /\ dl.selected = mark.selected /\ dl.total = mark.total /\ dl.hidden = mark.hidden
       /\ dl.old_rank = mark.old_rank /\ dl.file_box = fbox
  BY <1>8, <1>9 DEF ADListing
<1> QED BY <1>3, <1>4, <1>7, <1>8, <1>10 DEF TookInto

LEMMA DListingIs ==
    ASSUME NEW N, NEW F, NEW dls \in Seq(ADListing(N, F)), NamedOnce(dls),
           NEW dir \in ADir(N, F), NamedOnce(dir.files), NEW rank \in Nat
    PROVE  TakenInto(N, F, dls, dir, rank, DListingOf(dls, dir, rank))
<1>1. PICK i : i = Named(dls, dir.name)
  OBVIOUS
<1>2. \/ i = 0 /\ \A j \in DOMAIN dls : dls[j].name # dir.name
      \/ i \in DOMAIN dls /\ dls[i].name = dir.name
  BY <1>1, NamedIs
<1>3. 0 \notin DOMAIN dls
  OBVIOUS
<1>4. dir.files \in Seq(F) /\ dir.name \in N
  BY DEF ADir
<1>5. PICK dl : dl = DListingOf(dls, dir, rank)
  OBVIOUS
<1>6. CASE i = 0
  <2>1. PICK old : old = dlisting_new(dir.name)
    OBVIOUS
  <2>2. PICK box \in Boxes(F) : box = file_box_new /\ box.marked = {}
    BY NewBox
  <2>3. old \in ADListing(N, F)
    BY <1>4, <2>1, <2>2 DEF dlisting_new, ADListing
  <2>4. old.name = dir.name /\ old.rank = -1 /\ old.file_box = box
    BY <2>1, <2>2 DEF dlisting_new
  <2>5. dl = [dlisting_mark(dlisting_set_file_counts(old, dir), rank) EXCEPT
                 !.file_box = Filled(box, dir.files).fbox]
    BY <1>1, <1>5, <1>6, <2>1, <2>4 DEF DListingOf
  <2>6. TookInto(N, F, old, box, dir, rank, dl)
    BY <2>2, <2>3, <2>5, TookIntoIs
  <2>7. \A j \in DOMAIN dls : dls[j].name # dir.name
    BY <1>2, <1>3, <1>6
  <2>8. TakenInto(N, F, dls, dir, rank, dl)
    BY <2>4, <2>6, <2>7 DEF TookInto, TakenInto
  <2> QED BY <1>5, <2>8
<1>7. CASE i # 0
  <2>1. i \in DOMAIN dls /\ dls[i].name = dir.name
    BY <1>2, <1>7
  <2>2. PICK old \in ADListing(N, F) : old = dls[i] /\ old.name = dir.name
    BY <2>1
  <2>3. PICK was \in Boxes(F) : was = old.file_box
    BY DEF ADListing
  <2>4. PICK box \in Boxes(F) : box = file_box_begin_read(was) /\ box.marked = {} /\ box.fis = was.fis
    BY BeginRead
  <2>5. dl = [dlisting_mark(dlisting_set_file_counts(old, dir), rank) EXCEPT
                 !.file_box = Filled(box, dir.files).fbox]
    BY <1>1, <1>5, <1>7, <2>2, <2>3, <2>4 DEF DListingOf
  <2>6. TookInto(N, F, old, box, dir, rank, dl)
    BY <2>2, <2>4, <2>5, TookIntoIs
  <2>7. ASSUME HoldsJust(was, dir.files)
        PROVE  dl.file_box = was
    <3>1. ToSet(was.fis) = ToSet(dir.files) /\ was.marked = FileNames(dir.files)
      BY <2>7 DEF HoldsJust
    <3>2. PICK b \in Boxes(F) : b = dl.file_box
      BY <2>6 DEF TookInto, ADListing
    <3>3. b.fis = was.fis
      BY <2>4, <2>6, <3>1, <3>2 DEF TookInto
    <3>4. b.marked = was.marked
      BY <2>6, <3>1, <3>2 DEF TookInto, Holds
    <3>5. b \in [fis : Seq(F), marked : SUBSET {f.name : f \in F}]
      BY DEF Boxes
    <3>6. was \in [fis : Seq(F), marked : SUBSET {f.name : f \in F}]
      BY DEF Boxes
    <3>7. b = was
      BY <3>3, <3>4, <3>5, <3>6
    <3> QED BY <3>2, <3>7
  <2>8. \A j \in DOMAIN dls : dls[j].name = dir.name => dls[j] = old
    BY <2>1, <2>2 DEF NamedOnce
  <2>9. ~ \A j \in DOMAIN dls : dls[j].name # dir.name
    BY <2>1
  <2>11. Follows(was.fis, dir.files) => dl.file_box.fis = dir.files
    BY <2>4, <2>6 DEF TookInto
  <2>10. TakenInto(N, F, dls, dir, rank, dl)
    BY <2>2, <2>3, <2>6, <2>7, <2>8, <2>9, <2>11 DEF TookInto, TakenInto
  <2> QED BY <1>5, <2>10
<1> QED BY <1>6, <1>7

-----------------------------------------------------------------------------
(* The classic display takes a listing in.                                 *)

AnExhibit(N, F) == [dls : Seq(ADListing(N, F)), listings_box : Seq(N)]

Unmarked(N, F, c, dl) ==
    /\ c \in ADListing(N, F) /\ c.name = dl.name /\ c.rank = dl.rank /\ c.marked = FALSE
    /\ c.file_box = dl.file_box

UnmarksAll(N, F, dls, s0) ==
    /\ s0 \in Seq(ADListing(N, F)) /\ Len(s0) = Len(dls) /\ DOMAIN s0 = DOMAIN dls
    /\ \A i \in DOMAIN dls : Unmarked(N, F, s0[i], dls[i])

LEMMA UnmarkAllIs ==
    ASSUME NEW N, NEW F, NEW e \in AnExhibit(N, F)
    PROVE  \E s0 : /\ UnmarksAll(N, F, e.dls, s0)
                   /\ exhibit_unmark_all(e) = [dls |-> s0, listings_box |-> e.listings_box]
<1>1. PICK dls \in Seq(ADListing(N, F)) : dls = e.dls
  BY DEF AnExhibit
<1>2. PICK n \in Nat : n = Len(dls) /\ DOMAIN dls = 1..n
  OBVIOUS
<1> DEFINE Unmark(dl) == [dl EXCEPT !.marked = FALSE]
           s0 == [i \in 1..n |-> Unmark(dls[i])]
<1>3. ASSUME NEW dl \in ADListing(N, F)
      PROVE  Unmarked(N, F, Unmark(dl), dl)
  BY DEF ADListing, Unmarked
<1>4. ASSUME NEW i \in 1..n
      PROVE  Unmarked(N, F, s0[i], dls[i]) /\ s0[i] \in ADListing(N, F)
  <2>1. PICK dl \in ADListing(N, F) : dl = dls[i]
    BY <1>2
  <2>2. Unmarked(N, F, Unmark(dl), dl)
    BY <1>3
  <2>3. s0[i] = Unmark(dl)
    BY <2>1
  <2> HIDE DEF s0, Unmark
  <2>4. Unmarked(N, F, s0[i], dls[i])
    BY <2>1, <2>2, <2>3
  <2> QED BY <2>4 DEF Unmarked
<1>5. s0 = [i \in 1..n |-> s0[i]]
  OBVIOUS
<1>6. Each(dls, LAMBDA dl : [dl EXCEPT !.marked = FALSE]) = SubSeq(s0, 1, n)
  BY <1>2 DEF Each
<1> HIDE DEF s0, Unmark
<1>7. s0 \in Seq(ADListing(N, F)) /\ Len(s0) = n /\ DOMAIN s0 = 1..n /\ SubSeq(s0, 1, n) = s0
  BY <1>4, <1>5, FunctionIs
<1>8. UnmarksAll(N, F, e.dls, s0)
  BY <1>1, <1>2, <1>4, <1>7 DEF UnmarksAll
<1>9. exhibit_unmark_all(e) = [dls |-> s0, listings_box |-> e.listings_box]
  <2>1. e = [dls |-> dls, listings_box |-> e.listings_box]
    BY <1>1 DEF AnExhibit
  <2>2. exhibit_unmark_all(e) = [e EXCEPT !.dls = s0]
    BY <1>1, <1>6, <1>7 DEF exhibit_unmark_all
  <2>3. [e EXCEPT !.dls = s0] = [dls |-> s0, listings_box |-> e.listings_box]
    BY <2>1
  <2> QED BY <2>2, <2>3
<1> QED BY <1>8, <1>9

\* What the classic display is before the directories that are gone go.
TakenExhibit(e, listing) ==
    LET read[k \in 0..Len(listing)] ==
            IF k = 0 THEN exhibit_unmark_all(e)
            ELSE exhibit_add(read[k - 1], listing[k], k - 1)
    IN read[Len(listing)]

ExhibitEntries(N, F, s0, L, entry) ==
    /\ Entries(ADListing(N, F), s0, L, entry)
    /\ \A j \in DOMAIN L : TakenInto(N, F, s0, L[j], j - 1, entry[j])

ExhibitTaken(N, F, e, L, s0, entry, t) ==
    /\ UnmarksAll(N, F, e.dls, s0) /\ ExhibitEntries(N, F, s0, L, entry)
    /\ HasRead(ADListing(N, F), s0, L, entry, Len(L), t)
    /\ TakenExhibit(e, L) = [dls |-> t, listings_box |-> e.listings_box]

LEMMA ExhibitTakenIs ==
    ASSUME NEW N, NEW F, NEW e \in AnExhibit(N, F), NamedOnce(e.dls), NEW L, GoodListing(N, F, L)
    PROVE  \E s0, entry, t : ExhibitTaken(N, F, e, L, s0, entry, t)
<1>1. PICK n \in Nat : n = Len(L) /\ DOMAIN L = 1..n
  BY DEF GoodListing
<1>2. PICK D : D = ADListing(N, F)
  OBVIOUS
<1>3. PICK s0 : /\ UnmarksAll(N, F, e.dls, s0)
                /\ exhibit_unmark_all(e) = [dls |-> s0, listings_box |-> e.listings_box]
  BY UnmarkAllIs
<1>4. s0 \in Seq(ADListing(N, F)) /\ NamedOnce(s0)
  <2>1. \A i \in DOMAIN s0 : i \in DOMAIN e.dls /\ s0[i].name = e.dls[i].name
    BY <1>3 DEF UnmarksAll, Unmarked
  <2>2. NamedOnce(s0)
    BY <2>1 DEF NamedOnce
  <2> QED BY <1>3, <2>2 DEF UnmarksAll
<1>5. PICK entry : entry = [j \in 1..n |-> DListingOf(s0, L[j], j - 1)]
  OBVIOUS
<1>6. ASSUME NEW j \in 1..n
      PROVE  TakenInto(N, F, s0, L[j], j - 1, entry[j])
  <2>1. L[j] \in ADir(N, F) /\ NamedOnce(L[j].files)
    BY <1>1 DEF GoodListing
  <2>2. j - 1 \in Nat
    OBVIOUS
  <2>3. TakenInto(N, F, s0, L[j], j - 1, DListingOf(s0, L[j], j - 1))
    BY <1>4, <2>1, <2>2, DListingIs
  <2> QED BY <1>5, <2>3
<1>7. Entries(D, s0, L, entry)
  <2>1. \A j \in 1..n : entry[j] \in D /\ entry[j].name = L[j].name
    BY <1>2, <1>6 DEF TakenInto
  <2>2. L \in Seq(ToSet(L)) /\ NamedOnce(L)
    BY <1>1 DEF GoodListing, ToSet
  <2> QED BY <1>1, <1>2, <1>4, <2>1, <2>2 DEF Entries
<1>8. PICK g : /\ g = [k \in 0..Len(L) |-> g[k]] /\ g[0] = s0
               /\ \A k \in DOMAIN L :
                     g[k] = With(g[k - 1], Named(g[k - 1], L[k].name), entry[k])
               /\ \A k \in 0..Len(L) : HasRead(D, s0, L, entry, k, g[k])
  BY <1>7, ReadAll
<1> DEFINE State(t) == [dls |-> t, listings_box |-> e.listings_box]
           start == exhibit_unmark_all(e)
           Next(v, k) == exhibit_add(v, L[k], k - 1)
           Is(f) == f = [k \in 0..n |-> IF k = 0 THEN start ELSE Next(f[k - 1], k)]
           read == CHOOSE f : Is(f)
           all == [k \in 0..n |-> State(g[k])]
<1>9. TakenExhibit(e, L) = read[n]
  BY <1>1 DEF TakenExhibit
<1>10. ASSUME NEW k \in 1..n
       PROVE  Next(State(g[k - 1]), k) = State(g[k])
  <2>1. PICK t : t = g[k - 1]
    OBVIOUS
  <2>2. PICK i : i = Named(t, L[k].name)
    OBVIOUS
  <2>3. k - 1 \in 0..n /\ k \in DOMAIN L
    BY <1>1
  <2>4. HasRead(D, s0, L, entry, k - 1, t)
    BY <1>1, <1>8, <2>1, <2>3
  <2>5. /\ Named(s0, L[k].name) = i
        /\ i # 0 => t[i] = s0[i]
    BY <1>7, <2>2, <2>3, <2>4, ReadsKnown
  <2>6. PICK dc : dc = DListingOf(t, L[k], k - 1)
    OBVIOUS
  <2>7. dc = entry[k]
    <3>1. DListingOf(t, L[k], k - 1) = DListingOf(s0, L[k], k - 1)
      BY <2>2, <2>5 DEF DListingOf
    <3> QED BY <1>5, <2>6, <3>1
  <2>8. g[k] = With(t, i, dc)
    BY <1>8, <2>1, <2>2, <2>3, <2>7
  <2>9. PICK v : v = State(t)
    OBVIOUS
  <2>10. v.dls = t
    BY <2>9
  <2>11. Next(v, k) = IF i = 0 THEN [v EXCEPT !.dls = Append(@, dc)] ELSE [v EXCEPT !.dls[i] = dc]
    BY <2>2, <2>6, <2>10 DEF exhibit_add, DListingOf
  <2>12. Next(v, k) = State(With(t, i, dc))
    BY <2>9, <2>11 DEF With
  <2> QED BY <2>1, <2>8, <2>9, <2>12
<1>11. start = State(g[0])
  BY <1>3, <1>8
<1>12. Is(all)
  <2>1. ASSUME NEW k \in 0..n
        PROVE  all[k] = IF k = 0 THEN start ELSE Next(all[k - 1], k)
    <3>1. k # 0 => k \in 1..n /\ k - 1 \in 0..n
      OBVIOUS
    <3> HIDE DEF Next, start, State
    <3> QED BY <1>10, <1>11, <3>1
  <2> HIDE DEF Next, start, State
  <2> QED BY <2>1
<1>13. Is(read)
  <2> HIDE DEF Is
  <2> QED BY <1>12
<1> HIDE DEF read
<1>14. PICK T : T = {k \in 0..n : read[k] = all[k]}
  OBVIOUS
<1>15. 0 \in T
  <2> HIDE DEF Next, start, State, all
  <2> QED BY <1>12, <1>13, <1>14
<1>16. ASSUME NEW k \in 1..n, k - 1 \in T
       PROVE  k \in T
  <2>1. k \in 0..n /\ k # 0
    OBVIOUS
  <2>2. read[k - 1] = all[k - 1]
    BY <1>14, <1>16
  <2>3. read[k] = Next(read[k - 1], k) /\ all[k] = Next(all[k - 1], k)
    <3> HIDE DEF Next, start, State, all
    <3> QED BY <1>12, <1>13, <2>1
  <2> HIDE DEF Next, start, State, all
  <2> QED BY <1>14, <2>1, <2>2, <2>3
<1>17. \A k \in 0..n : k \in T
  BY <1>15, <1>16, BoundedInduction
<1>18. TakenExhibit(e, L) = State(g[n])
  <2>1. n \in 0..n
    OBVIOUS
  <2> QED BY <1>9, <1>14, <1>17, <2>1
<1>19. PICK t : t = g[n]
  OBVIOUS
<1>20. HasRead(D, s0, L, entry, Len(L), t)
  BY <1>1, <1>8, <1>19
<1>21. ExhibitEntries(N, F, s0, L, entry)
  BY <1>1, <1>2, <1>6, <1>7 DEF ExhibitEntries
<1>22. ExhibitTaken(N, F, e, L, s0, entry, t)
  BY <1>2, <1>3, <1>18, <1>19, <1>20, <1>21 DEF ExhibitTaken
<1> QED BY <1>22

\* The classic display when the directories that are gone have gone.
ExhibitCulled(N, F, e, L, s0, entry, w) ==
    /\ UnmarksAll(N, F, e.dls, s0) /\ ExhibitEntries(N, F, s0, L, entry)
    /\ w \in AnExhibit(N, F) /\ Culled(ADListing(N, F), s0, L, entry, w.dls) /\ Rankings(w.dls)
    /\ Rearranged(N, s0, L, e.listings_box, Arranged(w.listings_box, w.dls))
    /\ exhibit_process(e, L) = exhibit_rearrange_and_show(w)

LEMMA ExhibitCulledIs ==
    ASSUME NEW N, NEW F, NEW e \in AnExhibit(N, F), NamedOnce(e.dls),
           IsInjective(e.listings_box), ToSet(e.listings_box) = {e.dls[i].name : i \in DOMAIN e.dls},
           NEW L, GoodListing(N, F, L)
    PROVE  \E s0, entry, w : ExhibitCulled(N, F, e, L, s0, entry, w)
<1>1. PICK s0, entry, t : ExhibitTaken(N, F, e, L, s0, entry, t)
  BY ExhibitTakenIs
<1>2. PICK D : D = ADListing(N, F)
  OBVIOUS
<1>3. Entries(D, s0, L, entry) /\ HasRead(D, s0, L, entry, Len(L), t)
  BY <1>1, <1>2 DEF ExhibitTaken, ExhibitEntries
<1>4. \A j \in DOMAIN L : TakenInto(N, F, s0, L[j], j - 1, entry[j])
  BY <1>1 DEF ExhibitTaken, ExhibitEntries
<1>5. /\ s0 \in Seq(ADListing(N, F)) /\ DOMAIN s0 = DOMAIN e.dls
      /\ \A i \in DOMAIN s0 : s0[i].name = e.dls[i].name /\ s0[i].marked = FALSE
  BY <1>1 DEF ExhibitTaken, UnmarksAll, Unmarked
<1>6. PICK kept : kept = Picked(t, {i \in DOMAIN t : t[i].marked})
  OBVIOUS
<1>7. Culled(D, s0, L, entry, kept)
  <2>1. \A j \in DOMAIN L : entry[j].marked = TRUE
    BY <1>4 DEF TakenInto
  <2>2. \A i \in DOMAIN s0 : s0[i].marked = FALSE
    BY <1>5
  <2> QED BY <1>3, <1>6, <2>1, <2>2, CulledIs, ZenonT(60)
<1>8. Ranking(s0, L, entry)
  <2>1. ASSUME NEW j \in DOMAIN L
        PROVE  /\ entry[j].rank = j - 1
               /\ \A i \in DOMAIN s0 : s0[i].name = L[j].name => entry[j].old_rank = s0[i].rank
               /\ (\A i \in DOMAIN s0 : s0[i].name # L[j].name) => entry[j].old_rank = -1
    BY <1>4 DEF TakenInto
  <2>2. ASSUME NEW j \in DOMAIN L, \A i \in DOMAIN s0 : s0[i].name # L[j].name
        PROVE  is_new(entry[j])
    <3>1. entry[j].old_rank = -1
      BY <2>1, <2>2
    <3> QED BY <3>1 DEF is_new
  <2> QED BY <2>1, <2>2 DEF Ranking
<1>9. Rankings(kept)
  BY <1>3, <1>7, <1>8, CulledRankings
<1>10. PICK vbox \in Seq(N) : vbox = e.listings_box
  BY DEF AnExhibit
<1>11. PICK names : names = {kept[i].name : i \in DOMAIN kept}
  OBVIOUS
<1>12. PICK box : box = Picked(vbox, {i \in DOMAIN vbox : vbox[i] \in names})
  OBVIOUS
<1>13. names = {L[j].name : j \in DOMAIN L} /\ Rearranged(N, s0, L, vbox, Arranged(box, kept))
  <2>1. IsInjective(vbox) /\ ToSet(vbox) = {s0[i].name : i \in DOMAIN s0}
    BY <1>5, <1>10
  <2>2. ASSUME NEW j \in DOMAIN L
        PROVE  L[j].name \in N
    <3>1. L[j] \in ADir(N, F)
      BY DEF GoodListing
    <3> QED BY <3>1 DEF ADir
  <2>3. names = {kept[i].name : i \in DOMAIN kept}
    BY <1>11
  <2>4. Repacked(N, s0, L, vbox, kept, names)
    BY <1>3, <1>7, <1>8, <1>10, <2>1, <2>2, <2>3, RearrangedIs
  <2> QED BY <1>12, <2>4 DEF Repacked
<1>15. PICK w : w = [dls |-> kept, listings_box |-> box]
  OBVIOUS
<1>16. w.dls = kept /\ w.listings_box = box
  BY <1>15
<1>17. box \in Seq(N)
  <2>1. {i \in DOMAIN vbox : vbox[i] \in names} \in SUBSET (DOMAIN vbox)
    OBVIOUS
  <2>2. PICK key : key = [y \in N |-> y]
    OBVIOUS
  <2>3. \A i \in DOMAIN vbox : vbox[i] \in N /\ key[vbox[i]] = vbox[i]
    BY <2>2
  <2>4. KeyOnce(vbox, key)
    BY <1>10, <2>3 DEF IsInjective, KeyOnce
  <2> QED BY <1>10, <1>12, <2>1, <2>4, KeptIs
<1>18. w \in AnExhibit(N, F)
  <2>2. kept \in Seq(ADListing(N, F))
    BY <1>2, <1>7 DEF Culled
  <2> QED BY <1>15, <1>17, <2>2 DEF AnExhibit
<1>19. exhibit_process(e, L) = exhibit_rearrange_and_show(w)
  <2>1. PICK v : v = TakenExhibit(e, L)
    OBVIOUS
  <2>2. exhibit_process(e, L) = exhibit_rearrange_and_show(exhibit_cull(v))
    BY <2>1 DEF exhibit_process, TakenExhibit
  <2>3. v.dls = t /\ v.listings_box = vbox
    BY <1>1, <1>10, <2>1 DEF ExhibitTaken
  <2>4. exhibit_cull(v) = w
    BY <1>6, <1>11, <1>12, <1>15, <2>3 DEF exhibit_cull
  <2> QED BY <2>2, <2>4
<1>20. ExhibitCulled(N, F, e, L, s0, entry, w)
  BY <1>1, <1>2, <1>7, <1>9, <1>10, <1>13, <1>16, <1>18, <1>19 DEF ExhibitCulled, ExhibitTaken
<1> QED BY <1>20

ShowsNow(N, F, c, dl) ==
    /\ c \in ADListing(N, F) /\ c.name = dl.name /\ c.rank = dl.rank /\ c.old_rank = -1
    /\ c.marked = dl.marked
    /\ c.selected = dl.selected /\ c.total = dl.total /\ c.hidden = dl.hidden
    /\ c.file_box = file_box_flush(dl.file_box)

ShownNow(N, F, dls, shown) ==
    /\ shown \in Seq(ADListing(N, F)) /\ Len(shown) = Len(dls) /\ DOMAIN shown = DOMAIN dls
    /\ \A i \in DOMAIN dls : ShowsNow(N, F, shown[i], dls[i])

LEMMA ShownNowIs ==
    ASSUME NEW N, NEW F, NEW w \in AnExhibit(N, F),
           \A i \in DOMAIN w.dls : file_box_flush(w.dls[i].file_box) \in Boxes(F)
    PROVE  \E shown : /\ ShownNow(N, F, w.dls, shown)
                      /\ exhibit_rearrange_and_show(w) =
                            [dls |-> shown, listings_box |-> Arranged(w.listings_box, w.dls)]
<1>1. PICK dls \in Seq(ADListing(N, F)) : dls = w.dls
  BY DEF AnExhibit
<1>2. PICK n \in Nat : n = Len(dls) /\ DOMAIN dls = 1..n
  OBVIOUS
<1> DEFINE Show(dl) == [dl EXCEPT !.file_box = file_box_flush(@), !.old_rank = -1]
           shown == [i \in 1..n |-> Show(dls[i])]
<1>3. ASSUME NEW dl \in ADListing(N, F), file_box_flush(dl.file_box) \in Boxes(F)
      PROVE  ShowsNow(N, F, Show(dl), dl)
  <2>1. PICK box \in Boxes(F) : box = file_box_flush(dl.file_box)
    BY <1>3
  <2>2. PICK none \in Int : none = -1
    OBVIOUS
  <2>3. PICK c : c = Show(dl)
    OBVIOUS
  <2>4. c = [dl EXCEPT !.file_box = box, !.old_rank = none]
    BY <2>1, <2>2, <2>3
  <2> HIDE DEF Show
  <2>5. /\ c \in ADListing(N, F) /\ c.name = dl.name /\ c.rank = dl.rank /\ c.old_rank = none
        /\ c.marked = dl.marked
        /\ c.selected = dl.selected /\ c.total = dl.total /\ c.hidden = dl.hidden
        /\ c.file_box = box
    BY <2>4 DEF ADListing
  <2>6. ShowsNow(N, F, c, dl)
    BY <2>1, <2>2, <2>5 DEF ShowsNow
  <2> QED BY <2>3, <2>6
<1>4. ASSUME NEW i \in 1..n
      PROVE  ShowsNow(N, F, shown[i], dls[i]) /\ shown[i] \in ADListing(N, F)
  <2>1. PICK dl \in ADListing(N, F) : dl = dls[i] /\ file_box_flush(dl.file_box) \in Boxes(F)
    BY <1>1, <1>2
  <2>2. ShowsNow(N, F, Show(dl), dl)
    BY <1>3, <2>1
  <2>3. shown[i] = Show(dl)
    BY <2>1
  <2> HIDE DEF shown, Show
  <2>4. ShowsNow(N, F, shown[i], dls[i])
    BY <2>1, <2>2, <2>3
  <2> QED BY <2>4 DEF ShowsNow
<1>5. shown = [i \in 1..n |-> shown[i]]
  OBVIOUS
<1>6. Each(dls, LAMBDA dl : [dl EXCEPT !.file_box = file_box_flush(@), !.old_rank = -1])
         = SubSeq(shown, 1, n)
  BY <1>2 DEF Each
<1> HIDE DEF shown, Show
<1>7. shown \in Seq(ADListing(N, F)) /\ Len(shown) = n /\ DOMAIN shown = 1..n /\ SubSeq(shown, 1, n) = shown
  BY <1>4, <1>5, FunctionIs
<1>8. ShownNow(N, F, w.dls, shown)
  BY <1>1, <1>2, <1>4, <1>7 DEF ShownNow
<1>9. exhibit_rearrange_and_show(w) = [dls |-> shown, listings_box |-> Arranged(w.listings_box, w.dls)]
  BY <1>1, <1>6, <1>7 DEF exhibit_rearrange_and_show
<1> QED BY <1>8, <1>9

\* What a DListing shows of its directory.
ShowsListing(dl, dir, rank) ==
    /\ dl.name = dir.name /\ dl.rank = rank
    /\ dl.selected = dir.selected /\ dl.total = dir.total /\ dl.hidden = dir.hidden
    /\ HoldsJust(dl.file_box, dir.files)

ExhibitStep(N, F, e, L, s0, entry, w, v) ==
    /\ ExhibitCulled(N, F, e, L, s0, entry, w) /\ v = exhibit_process(e, L)
    /\ ShownNow(N, F, w.dls, v.dls)
    /\ v.listings_box = Arranged(w.listings_box, w.dls)
    /\ v = [dls |-> v.dls, listings_box |-> v.listings_box]
    /\ \A i \in DOMAIN w.dls : \E j \in DOMAIN L :
          w.dls[i] = entry[j] /\ ShowsListing(v.dls[i], L[j], j - 1)
    /\ \A j \in DOMAIN L : \E i \in DOMAIN w.dls :
          w.dls[i] = entry[j] /\ ShowsListing(v.dls[i], L[j], j - 1)

LEMMA ShowsListingIs ==
    ASSUME NEW N, NEW F, NEW dls, NEW dir \in ADir(N, F), NamedOnce(dir.files), NEW rank,
           NEW dl, TakenInto(N, F, dls, dir, rank, dl)
    PROVE  /\ file_box_flush(dl.file_box) \in Boxes(F)
           /\ \A c : ShowsNow(N, F, c, dl) => ShowsListing(c, dir, rank)
<1>1. PICK box \in Boxes(F) : box = dl.file_box
  BY DEF TakenInto, ADListing
<1>2. Holds(box, dir.files)
  BY <1>1 DEF TakenInto
<1>3. dir.files \in Seq(F)
  BY DEF ADir
<1>4. file_box_flush(box) \in Boxes(F) /\ HoldsJust(file_box_flush(box), dir.files)
  BY <1>2, <1>3, FlushIs
<1>5. ASSUME NEW c, ShowsNow(N, F, c, dl)
      PROVE  ShowsListing(c, dir, rank)
  <2>1. c.name = dir.name /\ c.rank = rank
    BY <1>5 DEF ShowsNow, TakenInto
  <2>2. c.selected = dir.selected /\ c.total = dir.total /\ c.hidden = dir.hidden
    BY <1>5 DEF ShowsNow, TakenInto
  <2>3. c.file_box = file_box_flush(box)
    BY <1>1, <1>5 DEF ShowsNow
  <2> QED BY <1>4, <2>1, <2>2, <2>3 DEF ShowsListing
<1> QED BY <1>1, <1>4, <1>5

LEMMA ExhibitStepIs ==
    ASSUME NEW N, NEW F, NEW e, NEW L, GoodListing(N, F, L),
           NEW s0, NEW entry, NEW w, ExhibitCulled(N, F, e, L, s0, entry, w)
    PROVE  \E v : ExhibitStep(N, F, e, L, s0, entry, w, v)
<1>1. ASSUME NEW j \in DOMAIN L
      PROVE  /\ file_box_flush(entry[j].file_box) \in Boxes(F)
             /\ \A c : ShowsNow(N, F, c, entry[j]) => ShowsListing(c, L[j], j - 1)
  <2>1. L[j] \in ADir(N, F) /\ NamedOnce(L[j].files)
    BY DEF GoodListing
  <2>2. TakenInto(N, F, s0, L[j], j - 1, entry[j])
    BY DEF ExhibitCulled, ExhibitEntries
  <2> QED BY <2>1, <2>2, ShowsListingIs
<1>2. /\ \A i \in DOMAIN w.dls : \E j \in DOMAIN L : w.dls[i] = entry[j]
      /\ \A j \in DOMAIN L : \E i \in DOMAIN w.dls : w.dls[i] = entry[j]
  BY DEF ExhibitCulled, Culled
<1>3. w \in AnExhibit(N, F)
  BY DEF ExhibitCulled
<1>4. \A i \in DOMAIN w.dls : file_box_flush(w.dls[i].file_box) \in Boxes(F)
  BY <1>1, <1>2
<1>5. PICK shown : /\ ShownNow(N, F, w.dls, shown)
                   /\ exhibit_rearrange_and_show(w) =
                         [dls |-> shown, listings_box |-> Arranged(w.listings_box, w.dls)]
  BY <1>3, <1>4, ShownNowIs
<1>6. PICK v : v = exhibit_process(e, L)
  OBVIOUS
<1>7. PICK box : box = Arranged(w.listings_box, w.dls)
  OBVIOUS
<1>8. v = [dls |-> shown, listings_box |-> box]
  BY <1>5, <1>6, <1>7 DEF ExhibitCulled
<1>9. v.dls = shown /\ v.listings_box = box
  BY <1>8
<1>10. \A i \in DOMAIN w.dls : ShowsNow(N, F, v.dls[i], w.dls[i])
  BY <1>5, <1>9 DEF ShownNow
<1>11. ASSUME NEW i \in DOMAIN w.dls
       PROVE  \E j \in DOMAIN L : w.dls[i] = entry[j] /\ ShowsListing(v.dls[i], L[j], j - 1)
  <2>1. PICK j \in DOMAIN L : w.dls[i] = entry[j]
    BY <1>2
  <2> QED BY <1>1, <1>10, <2>1
<1>12. ASSUME NEW j \in DOMAIN L
       PROVE  \E i \in DOMAIN w.dls : w.dls[i] = entry[j] /\ ShowsListing(v.dls[i], L[j], j - 1)
  <2>1. PICK i \in DOMAIN w.dls : w.dls[i] = entry[j]
    BY <1>2
  <2> QED BY <1>1, <1>10, <2>1
<1>13. ExhibitStep(N, F, e, L, s0, entry, w, v)
  BY <1>5, <1>6, <1>7, <1>8, <1>9, <1>11, <1>12 DEF ExhibitStep
<1> QED BY <1>13

\* The classic display shows this listing.
ExhibitShows(N, F, e, L) ==
    /\ e \in AnExhibit(N, F) /\ NamedOnce(e.dls) /\ Len(e.dls) = Len(L)
    /\ \A i \in DOMAIN e.dls : \E j \in DOMAIN L : ShowsListing(e.dls[i], L[j], j - 1)
    /\ \A j \in DOMAIN L : \E i \in DOMAIN e.dls : ShowsListing(e.dls[i], L[j], j - 1)
    /\ IsInjective(e.listings_box) /\ Len(e.listings_box) = Len(L)
    /\ ToSet(e.listings_box) = {L[j].name : j \in DOMAIN L}
    /\ \A i \in DOMAIN e.dls : e.dls[i].marked = TRUE /\ e.dls[i].old_rank = -1

LEMMA ListedNames ==
    ASSUME NEW N, NEW F, NEW e, NEW L, ExhibitShows(N, F, e, L)
    PROVE  SameNames(e.dls, L)
<1>1. ASSUME NEW i \in DOMAIN e.dls
      PROVE  \E j \in DOMAIN L : e.dls[i].name = L[j].name
  BY DEF ExhibitShows, ShowsListing
<1>2. ASSUME NEW j \in DOMAIN L
      PROVE  \E i \in DOMAIN e.dls : e.dls[i].name = L[j].name
  BY DEF ExhibitShows, ShowsListing
<1> QED BY <1>1, <1>2 DEF SameNames

LEMMA ExhibitStepShows ==
    ASSUME NEW N, NEW F, NEW e, NEW L, GoodListing(N, F, L),
           NEW s0, NEW entry, NEW w, NEW v, ExhibitStep(N, F, e, L, s0, entry, w, v)
    PROVE  ExhibitShows(N, F, v, L)
<1>1. ExhibitCulled(N, F, e, L, s0, entry, w)
  BY DEF ExhibitStep
<1>2. w.dls \in Seq(ADListing(N, F)) /\ NamedOnce(w.dls) /\ Len(w.dls) = Len(L)
  BY <1>1 DEF ExhibitCulled, Culled
<1>3. /\ v.dls \in Seq(ADListing(N, F)) /\ Len(v.dls) = Len(L) /\ DOMAIN v.dls = DOMAIN w.dls
      /\ \A i \in DOMAIN w.dls : ShowsNow(N, F, v.dls[i], w.dls[i])
  BY <1>2 DEF ExhibitStep, ShownNow
<1>4. \A i \in DOMAIN w.dls :
         /\ v.dls[i].name = w.dls[i].name
         /\ v.dls[i].old_rank = -1 /\ v.dls[i].marked = w.dls[i].marked
  BY <1>3 DEF ShowsNow
<1>5. \A i \in DOMAIN w.dls : w.dls[i].marked = TRUE
  <2>1. \A j \in DOMAIN L : entry[j].marked = TRUE
    BY <1>1 DEF ExhibitCulled, ExhibitEntries, TakenInto
  <2>2. \A i \in DOMAIN w.dls : \E j \in DOMAIN L : w.dls[i] = entry[j]
    BY DEF ExhibitStep
  <2> QED BY <2>1, <2>2
<1>6. /\ v.listings_box \in Seq(N) /\ IsInjective(v.listings_box)
      /\ Len(v.listings_box) = Len(L)
      /\ ToSet(v.listings_box) = {L[j].name : j \in DOMAIN L}
  BY <1>1 DEF ExhibitStep, ExhibitCulled, Rearranged
<1>7. v \in AnExhibit(N, F)
  <2>1. PICK dls, box : dls = v.dls /\ box = v.listings_box
    OBVIOUS
  <2>2. v = [dls |-> dls, listings_box |-> box]
    BY <2>1 DEF ExhibitStep
  <2>3. dls \in Seq(ADListing(N, F)) /\ box \in Seq(N)
    BY <1>3, <1>6, <2>1
  <2> QED BY <2>2, <2>3 DEF AnExhibit
<1>8. NamedOnce(v.dls)
  BY <1>2, <1>3, <1>4 DEF NamedOnce
<1>9. /\ \A i \in DOMAIN v.dls : \E j \in DOMAIN L : ShowsListing(v.dls[i], L[j], j - 1)
      /\ \A j \in DOMAIN L : \E i \in DOMAIN v.dls : ShowsListing(v.dls[i], L[j], j - 1)
  BY <1>3 DEF ExhibitStep
<1> QED BY <1>3, <1>4, <1>5, <1>6, <1>7, <1>8, <1>9 DEF ExhibitShows

\* To take the same listing in again changes nothing.
LEMMA ExhibitStepAgain ==
    ASSUME NEW N, NEW F, NEW e, NEW L, ExhibitShows(N, F, e, L), GoodListing(N, F, L),
           NEW s0, NEW entry, NEW w, NEW v, ExhibitStep(N, F, e, L, s0, entry, w, v)
    PROVE  v = e
<1>1. ExhibitCulled(N, F, e, L, s0, entry, w)
  BY DEF ExhibitStep
<1>2. /\ e.dls \in Seq(ADListing(N, F)) /\ Len(e.dls) = Len(L)
      /\ \A i \in DOMAIN e.dls : e.dls[i].marked = TRUE /\ e.dls[i].old_rank = -1
  BY DEF ExhibitShows, AnExhibit
<1>3. /\ s0 \in Seq(ADListing(N, F)) /\ DOMAIN s0 = DOMAIN e.dls /\ Len(s0) = Len(e.dls)
      /\ \A i \in DOMAIN s0 : /\ s0[i].name = e.dls[i].name /\ s0[i].rank = e.dls[i].rank
                              /\ s0[i].file_box = e.dls[i].file_box
  BY <1>1 DEF ExhibitCulled, UnmarksAll, Unmarked
<1>4. ASSUME NEW j \in DOMAIN L
      PROVE  \E i \in DOMAIN s0 : s0[i].name = L[j].name /\ s0[i].rank = j - 1
  <2>1. PICK i \in DOMAIN e.dls : ShowsListing(e.dls[i], L[j], j - 1)
    BY DEF ExhibitShows
  <2> QED BY <1>3, <2>1 DEF ShowsListing
<1>5. ASSUME NEW i \in DOMAIN s0
      PROVE  \E j \in DOMAIN L : L[j].name = s0[i].name
  <2>1. PICK j \in DOMAIN L : ShowsListing(e.dls[i], L[j], j - 1)
    BY <1>3 DEF ExhibitShows
  <2> QED BY <1>3, <2>1 DEF ShowsListing
<1>6. v.listings_box = e.listings_box
  BY <1>1, <1>4, <1>5 DEF ExhibitStep, ExhibitCulled, Rearranged
<1>7. /\ w.dls \in Seq(ADListing(N, F)) /\ Len(w.dls) = Len(s0)
      /\ \A i \in DOMAIN s0 : w.dls[i].name = s0[i].name
  BY <1>1, <1>4, <1>5 DEF ExhibitCulled, Culled
<1>8. DOMAIN w.dls = DOMAIN e.dls /\ DOMAIN w.dls = DOMAIN s0
  BY <1>2, <1>3, <1>7
<1>9. ASSUME NEW i \in DOMAIN e.dls
      PROVE  v.dls[i] = e.dls[i]
  <2>1. PICK j \in DOMAIN L : w.dls[i] = entry[j]
    BY <1>8 DEF ExhibitStep
  <2>2. TakenInto(N, F, s0, L[j], j - 1, entry[j])
    BY <1>1 DEF ExhibitCulled, ExhibitEntries
  <2>3. w.dls[i].name = e.dls[i].name
    BY <1>3, <1>7
  <2>4. w.dls[i].name = L[j].name
    BY <2>1, <2>2 DEF TakenInto
  <2>5. PICK q \in DOMAIN L : ShowsListing(e.dls[i], L[q], q - 1)
    BY DEF ExhibitShows
  <2>6. q = j
    BY <2>3, <2>4, <2>5 DEF ShowsListing, GoodListing, NamedOnce
  <2>7. ShowsListing(e.dls[i], L[j], j - 1)
    BY <2>5, <2>6
  <2>8. s0[i].name = L[j].name /\ HoldsJust(s0[i].file_box, L[j].files)
    BY <1>3, <2>3, <2>4, <2>7 DEF ShowsListing
  <2>9. entry[j].file_box = e.dls[i].file_box
    BY <1>3, <2>2, <2>8 DEF TakenInto
  <2>10. file_box_flush(e.dls[i].file_box) = e.dls[i].file_box
    <3>1. e.dls[i] \in ADListing(N, F)
      BY <1>2
    <3>2. PICK box \in Boxes(F) : box = e.dls[i].file_box
      BY <3>1 DEF ADListing
    <3>3. HoldsJust(box, L[j].files) /\ Holds(box, L[j].files)
      BY <2>7, <3>2 DEF ShowsListing, HoldsJust, Holds
    <3>4. L[j] \in ADir(N, F) /\ NamedOnce(L[j].files)
      BY DEF GoodListing
    <3>5. L[j].files \in Seq(F)
      BY <3>4 DEF ADir
    <3>6. file_box_flush(box) = box
      BY <3>3, <3>4, <3>5, FlushIs
    <3> QED BY <3>2, <3>6
  <2>11. /\ entry[j].rank = e.dls[i].rank /\ entry[j].marked = TRUE
         /\ entry[j].selected = e.dls[i].selected /\ entry[j].total = e.dls[i].total
         /\ entry[j].hidden = e.dls[i].hidden
    BY <2>2, <2>7 DEF TakenInto, ShowsListing
  <2>12. ShowsNow(N, F, v.dls[i], w.dls[i])
    BY <1>8 DEF ExhibitStep, ShownNow
  <2>13. /\ v.dls[i].name = e.dls[i].name /\ v.dls[i].rank = e.dls[i].rank
         /\ v.dls[i].old_rank = e.dls[i].old_rank /\ v.dls[i].marked = e.dls[i].marked
         /\ v.dls[i].selected = e.dls[i].selected /\ v.dls[i].total = e.dls[i].total
         /\ v.dls[i].hidden = e.dls[i].hidden /\ v.dls[i].file_box = e.dls[i].file_box
    BY <1>2, <2>1, <2>3, <2>9, <2>10, <2>11, <2>12, ZenonT(60) DEF ShowsNow
  <2>14. v.dls[i] \in ADListing(N, F) /\ e.dls[i] \in ADListing(N, F)
    BY <1>2, <2>12 DEF ShowsNow
  <2> QED BY <2>13, <2>14 DEF ADListing
<1>10. v.dls = e.dls
  <2>1. v.dls \in Seq(ADListing(N, F)) /\ Len(v.dls) = Len(e.dls) /\ DOMAIN v.dls = DOMAIN e.dls
    BY <1>3, <1>7, <1>8 DEF ExhibitStep, ShownNow
  <2> QED BY <1>2, <1>9, <2>1
<1>11. PICK dls, box : dls = e.dls /\ box = e.listings_box
  OBVIOUS
<1>12. e = [dls |-> dls, listings_box |-> box]
  BY <1>11 DEF ExhibitShows, AnExhibit
<1>13. v = [dls |-> dls, listings_box |-> box]
  BY <1>6, <1>10, <1>11 DEF ExhibitStep
<1> QED BY <1>12, <1>13

\* A listing on top of what the classic display shows already.
LEMMA ExhibitProcess ==
    ASSUME NEW N, NEW F, NEW e, NEW L0, ExhibitShows(N, F, e, L0), NEW L, GoodListing(N, F, L)
    PROVE  /\ ExhibitShows(N, F, exhibit_process(e, L), L)
           /\ L = L0 => exhibit_process(e, L) = e
<1>1. e \in AnExhibit(N, F) /\ NamedOnce(e.dls) /\ IsInjective(e.listings_box)
  BY DEF ExhibitShows
<1>2. ToSet(e.listings_box) = {e.dls[i].name : i \in DOMAIN e.dls}
  <2>1. ToSet(e.listings_box) = {L0[j].name : j \in DOMAIN L0}
    BY DEF ExhibitShows
  <2>2. SameNames(e.dls, L0)
    BY ListedNames
  <2> QED BY <2>1, <2>2 DEF SameNames
<1>3. PICK s0, entry, w : ExhibitCulled(N, F, e, L, s0, entry, w)
  BY <1>1, <1>2, ExhibitCulledIs
<1>4. PICK v : ExhibitStep(N, F, e, L, s0, entry, w, v)
  BY <1>3, ExhibitStepIs
<1>5. v = exhibit_process(e, L)
  BY <1>4 DEF ExhibitStep
<1>6. ExhibitShows(N, F, v, L)
  BY <1>4, ExhibitStepShows
<1>7. ASSUME L = L0
      PROVE  v = e
  <2>1. ExhibitShows(N, F, e, L)
    BY <1>7
  <2> QED BY <1>4, <2>1, ExhibitStepAgain
<1> QED BY <1>5, <1>6, <1>7

LEMMA ExhibitKeeps ==
    ASSUME NEW N, NEW F, NEW e, NEW S, NEW L0 \in Seq(S), ExhibitShows(N, F, e, L0),
           NEW L, GoodListing(N, F, L)
    PROVE  /\ Rearranges(L0, L, e.listings_box, exhibit_process(e, L).listings_box)
           /\ FilesFollow(e.dls, L, exhibit_process(e, L).dls)
<1>1. e \in AnExhibit(N, F) /\ NamedOnce(e.dls) /\ IsInjective(e.listings_box)
  BY DEF ExhibitShows
<1>2. ToSet(e.listings_box) = {e.dls[i].name : i \in DOMAIN e.dls}
  <2>1. ToSet(e.listings_box) = {L0[j].name : j \in DOMAIN L0}
    BY DEF ExhibitShows
  <2>2. SameNames(e.dls, L0)
    BY ListedNames
  <2> QED BY <2>1, <2>2 DEF SameNames
<1>3. PICK s0, entry, w : ExhibitCulled(N, F, e, L, s0, entry, w)
  BY <1>1, <1>2, ExhibitCulledIs
<1>4. PICK v : ExhibitStep(N, F, e, L, s0, entry, w, v)
  BY <1>3, ExhibitStepIs
<1>5. v = exhibit_process(e, L)
  BY <1>4 DEF ExhibitStep
<1>6. /\ DOMAIN s0 = DOMAIN e.dls
      /\ \A i \in DOMAIN e.dls : /\ s0[i].name = e.dls[i].name /\ s0[i].rank = e.dls[i].rank
                                  /\ s0[i].file_box = e.dls[i].file_box
  BY <1>3 DEF ExhibitCulled, UnmarksAll, Unmarked
<1>7. Rearranges(L0, L, e.listings_box, v.listings_box)
  <2>1. DOMAIN L0 \subseteq Nat /\ DOMAIN L \subseteq Nat
    <3>1. L \in Seq(ADir(N, F))
      BY DEF GoodListing
    <3> QED BY <3>1
  <2>2. /\ \A i \in DOMAIN e.dls : \E j \in DOMAIN L0 : e.dls[i].name = L0[j].name /\ e.dls[i].rank = j - 1
        /\ \A j \in DOMAIN L0 : \E i \in DOMAIN e.dls : e.dls[i].name = L0[j].name /\ e.dls[i].rank = j - 1
    BY DEF ExhibitShows, ShowsListing
  <2>3. InPlace(s0, L) = StillAt(L0, L)
    BY <1>6, <2>1, <2>2, InPlaceIs
  <2>4. Rearranged(N, s0, L, e.listings_box, v.listings_box)
    BY <1>3, <1>4 DEF ExhibitCulled, ExhibitStep
  <2> QED BY <2>3, <2>4 DEF Rearranged, Rearranges
<1>8. ASSUME NEW i \in DOMAIN e.dls, NEW j \in DOMAIN L, e.dls[i].name = L[j].name,
             Follows(e.dls[i].file_box.fis, L[j].files)
      PROVE  \E q \in DOMAIN v.dls : v.dls[q].name = L[j].name /\ v.dls[q].file_box.fis = L[j].files
  <2>1. TakenInto(N, F, s0, L[j], j - 1, entry[j])
    BY <1>3 DEF ExhibitCulled, ExhibitEntries
  <2>2. entry[j].file_box.fis = L[j].files
    BY <1>6, <1>8, <2>1 DEF TakenInto
  <2>3. entry[j].file_box \in Boxes(F) /\ Holds(entry[j].file_box, L[j].files)
    BY <2>1 DEF TakenInto, ADListing
  <2>4. L[j].files \in Seq(F) /\ NamedOnce(L[j].files)
    <3>1. L \in Seq(ADir(N, F)) /\ NamedOnce(L[j].files)
      BY DEF GoodListing
    <3>2. L[j] \in ADir(N, F)
      BY <3>1
    <3> QED BY <3>1, <3>2 DEF ADir
  <2>5. file_box_flush(entry[j].file_box).fis = L[j].files
    BY <2>2, <2>3, <2>4, FlushKeeps
  <2>6. PICK q \in DOMAIN w.dls : w.dls[q] = entry[j] /\ ShowsListing(v.dls[q], L[j], j - 1)
    BY <1>4 DEF ExhibitStep
  <2>7. ShownNow(N, F, w.dls, v.dls)
    BY <1>4 DEF ExhibitStep
  <2>8. q \in DOMAIN v.dls /\ v.dls[q].file_box = file_box_flush(entry[j].file_box)
    BY <2>6, <2>7 DEF ShownNow, ShowsNow
  <2>9. v.dls[q].name = L[j].name
    BY <2>6 DEF ShowsListing
  <2> QED BY <2>5, <2>8, <2>9
<1>9. FilesFollow(e.dls, L, v.dls)
  BY <1>8 DEF FilesFollow
<1> QED BY <1>5, <1>7, <1>9

\* Nothing is shown at first.
LEMMA ShowsNothing ==
    ASSUME NEW N, NEW F
    PROVE  MiniShows(N, F, vgmini_new, <<>>) /\ ExhibitShows(N, F, exhibit_new, <<>>)
<1>11. PICK none : none = <<>>
  OBVIOUS
<1>12. Len(none) = 0 /\ DOMAIN none = {}
  BY <1>11
<1>13. none \in Seq(N)
  BY <1>11
<1>14. none \in Seq(ADirCont(N, F)) /\ none \in Seq(ADListing(N, F))
  BY <1>11
<1>1. /\ none = <<>> /\ Len(none) = 0 /\ DOMAIN none = {}
      /\ none \in Seq(N) /\ none \in Seq(ADirCont(N, F)) /\ none \in Seq(ADListing(N, F))
  BY <1>11, <1>12, <1>13, <1>14
<1>2. ToSet(none) = {} /\ IsInjective(none) /\ NamedOnce(none)
  BY <1>1 DEF ToSet, IsInjective, NamedOnce
<1>3. PICK v : v = vgmini_new
  OBVIOUS
<1>4. v = [dcs |-> none, active |-> NoDir, vbox |-> none]
  BY <1>1, <1>3 DEF vgmini_new
<1>5. v.dcs = none /\ v.active = NoDir /\ v.vbox = none /\ v \in AVg(N, F)
  BY <1>1, <1>4 DEF AVg
<1>6. MiniShows(N, F, v, none)
  BY <1>1, <1>2, <1>5 DEF MiniShows
<1>7. PICK x : x = exhibit_new
  OBVIOUS
<1>8. x = [dls |-> none, listings_box |-> none]
  BY <1>1, <1>7 DEF exhibit_new
<1>9. x.dls = none /\ x.listings_box = none /\ x \in AnExhibit(N, F)
  BY <1>1, <1>8 DEF AnExhibit
<1>10. ExhibitShows(N, F, x, none)
  BY <1>1, <1>2, <1>9 DEF ExhibitShows
<1> QED BY <1>1, <1>3, <1>6, <1>7, <1>10
=============================================================================
