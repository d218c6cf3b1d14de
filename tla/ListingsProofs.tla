---------------------------- MODULE ListingsProofs ----------------------------
(***************************************************************************)
(* Proofs about Listings: whatever the file systems, the lines, the masks, *)
(* the options and the characters of a line.                               *)
(***************************************************************************)
EXTENDS Listings, DisplayProofs

-----------------------------------------------------------------------------
(* What is left of a command line, and how the sandbox reads it (Sanitize). *)

Quotes == {Single, Double, Paren}

\* The states of the loop and of the shell that reads, over characters C.
Sane(C) ==
    [last_char_backslash : BOOLEAN, last_char_exclamation : BOOLEAN,
     last_char_dollar : BOOLEAN, skip_word : BOOLEAN,
     ql : Seq(Quotes), command : Seq(C), ended : BOOLEAN]

Reader(C) ==
    [in : Seq(Quotes), esc : BOOLEAN, opener : BOOLEAN, dollar : BOOLEAN,
     words : Seq(Seq(C)), apart : BOOLEAN, only_words : BOOLEAN]

TopOf(q) == IF q = <<>> THEN NoQuote ELSE Head(q)

-----------------------------------------------------------------------------
(* Sequences.                                                              *)

\* What is put at the end is taken from there.
LEMMA AppendIs ==
    ASSUME NEW C, NEW s \in Seq(C), NEW c \in C
    PROVE  /\ Append(s, c) \in Seq(C) /\ Append(s, c) # <<>>
           /\ Last(Append(s, c)) = c /\ Front(Append(s, c)) = s
<1> DEFINE t == Append(s, c)
<1>1. /\ t \in Seq(C) /\ Len(t) = Len(s) + 1
      /\ \A i \in 1..Len(s) : t[i] = s[i]
      /\ t[Len(s) + 1] = c
  BY AppendProperties
<1>2. Len(s) \in Nat
  OBVIOUS
<1> HIDE DEF t
<1>3. t # <<>> /\ Last(t) = c
  BY <1>1, <1>2 DEF Last
<1>4. Front(t) = s
  <2>1. Front(t) = SubSeq(t, 1, Len(s))
    BY <1>1, <1>2 DEF Front
  <2>2. /\ SubSeq(t, 1, Len(s)) \in Seq(C)
        /\ Len(SubSeq(t, 1, Len(s))) = Len(s)
        /\ \A i \in 1..Len(s) : SubSeq(t, 1, Len(s))[i] = t[i]
    <3>1. \A i \in 1..Len(s) : t[i] \in C
      BY <1>1, <1>2
    <3> QED BY <3>1, <1>2, SubSeqProperties
  <2>3. \A i \in 1..Len(s) : SubSeq(t, 1, Len(s))[i] = s[i]
    BY <2>2, <1>1
  <2> QED BY <2>1, <2>2, <2>3, SeqEqual
<1> QED BY <1>1, <1>3, <1>4 DEF t

\* A sequence is its front with its last element.
LEMMA FrontIs ==
    ASSUME NEW C, NEW s \in Seq(C), s # <<>>
    PROVE  Front(s) \in Seq(C) /\ Last(s) \in C /\ s = Append(Front(s), Last(s))
<1>1. Len(s) \in Nat \ {0}
  BY EmptySeq
<1>2. /\ Front(s) \in Seq(C) /\ Len(Front(s)) = Len(s) - 1
      /\ \A i \in 1..(Len(s) - 1) : Front(s)[i] = s[i]
  <2>1. \A i \in 1..(Len(s) - 1) : s[i] \in C
    BY <1>1
  <2>2. PICK n \in Nat : n = Len(s) - 1
    BY <1>1
  <2>3. Front(s) = SubSeq(s, 1, n)
    BY <2>2 DEF Front
  <2>4. /\ SubSeq(s, 1, n) \in Seq(C) /\ Len(SubSeq(s, 1, n)) = n
        /\ \A i \in 1..n : SubSeq(s, 1, n)[i] = s[i]
    BY <2>1, <2>2, SubSeqProperties
  <2> QED BY <2>2, <2>3, <2>4
<1>3. Last(s) \in C
  BY <1>1 DEF Last
<1>4. /\ Append(Front(s), Last(s)) \in Seq(C)
      /\ Len(Append(Front(s), Last(s))) = Len(s)
      /\ \A i \in 1..(Len(s) - 1) : Append(Front(s), Last(s))[i] = s[i]
      /\ Append(Front(s), Last(s))[Len(s)] = Last(s)
  BY <1>1, <1>2, <1>3, AppendProperties
<1>5. \A i \in 1..Len(s) : Append(Front(s), Last(s))[i] = s[i]
  BY <1>1, <1>4 DEF Last
<1>6. s = Append(Front(s), Last(s))
  BY <1>4, <1>5, SeqEqual
<1> QED BY <1>2, <1>3, <1>6

\* The beginnings of a sequence, from one to the next.
LEMMA PrefixIs ==
    ASSUME NEW C, NEW s \in Seq(C)
    PROVE  /\ SubSeq(s, 1, 0) = <<>>
           /\ SubSeq(s, 1, Len(s)) = s
           /\ \A k \in 0..Len(s) : SubSeq(s, 1, k) \in Seq(C)
           /\ \A k \in 1..Len(s) : SubSeq(s, 1, k) = Append(SubSeq(s, 1, k - 1), s[k])
<1>1. Len(s) \in Nat
  OBVIOUS
<1>2. SubSeq(s, 1, 0) = <<>>
  BY SubSeqEmpty
<1>3. SubSeq(s, 1, Len(s)) = s
  BY SubSeqFull
<1>4. ASSUME NEW k \in 0..Len(s)
      PROVE  /\ SubSeq(s, 1, k) \in Seq(C) /\ Len(SubSeq(s, 1, k)) = k
             /\ \A i \in 1..k : SubSeq(s, 1, k)[i] = s[i]
  <2>1. \A i \in 1..k : s[i] \in C
    BY <1>1
  <2> QED BY <2>1, <1>1, SubSeqProperties
<1>5. ASSUME NEW k \in 1..Len(s)
      PROVE  SubSeq(s, 1, k) = Append(SubSeq(s, 1, k - 1), s[k])
  <2>1. k \in 0..Len(s) /\ k - 1 \in 0..Len(s) /\ s[k] \in C
    BY <1>1
  <2> DEFINE t == Append(SubSeq(s, 1, k - 1), s[k])
  <2>2. /\ t \in Seq(C) /\ Len(t) = k
        /\ \A i \in 1..(k - 1) : t[i] = s[i]
        /\ t[k] = s[k]
    BY <2>1, <1>4, AppendProperties
  <2> HIDE DEF t
  <2>3. \A i \in 1..k : t[i] = SubSeq(s, 1, k)[i]
    BY <2>1, <2>2, <1>4
  <2>4. t = SubSeq(s, 1, k)
    BY <2>1, <2>2, <2>3, <1>4, SeqEqual
  <2> QED BY <2>4 DEF t
<1> QED BY <1>2, <1>3, <1>4, <1>5

\* A quote is opened and closed.
LEMMA PushIs ==
    ASSUME NEW q \in Seq(Quotes), NEW x \in Quotes
    PROVE  /\ <<x>> \o q \in Seq(Quotes) /\ <<x>> \o q # <<>>
           /\ Head(<<x>> \o q) = x /\ Tail(<<x>> \o q) = q
           /\ TopOf(<<x>> \o q) = x
<1> DEFINE t == <<x>> \o q
<1>1. <<x>> \in Seq(Quotes) /\ Len(<<x>>) = 1 /\ <<x>>[1] = x
  OBVIOUS
<1>2. /\ t \in Seq(Quotes) /\ Len(t) = 1 + Len(q)
      /\ \A i \in 1..(1 + Len(q)) : t[i] = IF i <= 1 THEN <<x>>[i] ELSE q[i - 1]
  BY <1>1, ConcatProperties
<1>3. Len(q) \in Nat
  OBVIOUS
<1> HIDE DEF t
<1>4. t # <<>>
  BY <1>2, <1>3
<1>5. t[1] = x /\ \A i \in 1..Len(q) : t[i + 1] = q[i]
  BY <1>1, <1>2, <1>3
<1>6. Head(t) = x
  BY <1>2, <1>4, <1>5
<1>7. Tail(t) = q
  <2>1. /\ Tail(t) \in Seq(Quotes) /\ Len(Tail(t)) = Len(q)
        /\ \A i \in 1..Len(q) : Tail(t)[i] = t[i + 1]
    BY <1>2, <1>3, <1>4, HeadTailProperties
  <2>2. \A i \in 1..Len(q) : Tail(t)[i] = q[i]
    BY <2>1, <1>5
  <2> QED BY <2>1, <2>2, SeqEqual
<1> QED BY <1>2, <1>4, <1>6, <1>7 DEF t, TopOf

LEMMA TopIs ==
    ASSUME NEW q \in Seq(Quotes)
    PROVE  /\ TopOf(q) \in Quotes \cup {NoQuote}
           /\ q = <<>> <=> TopOf(q) = NoQuote
           /\ q # <<>> => Head(q) = TopOf(q) /\ TopOf(q) \in Quotes /\ Tail(q) \in Seq(Quotes)
<1>1. q # <<>> => Head(q) \in Quotes /\ Tail(q) \in Seq(Quotes)
  BY HeadTailProperties
<1> QED BY <1>1 DEF TopOf, Quotes, NoQuote, Single, Double, Paren

-----------------------------------------------------------------------------
(* The operations of the loop.                                             *)

LEMMA AddChar ==
    ASSUME NEW C, NEW s \in Sane(C), NEW c \in C
    PROVE  /\ add_char(s, c) \in Sane(C)
           /\ add_char(s, c) = [s EXCEPT !.command = Append(s.command, c)]
<1>1. s.command \in Seq(C)
  BY DEF Sane
<1>2. Append(s.command, c) \in Seq(C)
  BY <1>1, AppendIs
<1> QED BY <1>2 DEF Sane, add_char

LEMMA Backspace ==
    ASSUME NEW C, NEW s \in Sane(C), s.command # <<>>
    PROVE  /\ backspace(s) \in Sane(C)
           /\ backspace(s) = [s EXCEPT !.command = Front(s.command)]
<1>1. s.command \in Seq(C)
  BY DEF Sane
<1>2. Front(s.command) \in Seq(C)
  BY <1>1, FrontIs
<1> QED BY <1>2 DEF Sane, backspace

LEMMA QlPush ==
    ASSUME NEW C, NEW s \in Sane(C), NEW c \in C \cap Quotes
    PROVE  /\ ql_push(s, c) \in Sane(C)
           /\ ql_push(s, c) = [s EXCEPT !.ql = <<c>> \o s.ql, !.command = Append(s.command, c)]
<1>1. s.ql \in Seq(Quotes)
  BY DEF Sane
<1>2. <<c>> \o s.ql \in Seq(Quotes)
  BY <1>1, PushIs
<1>3. PICK u \in Sane(C) : u = [s EXCEPT !.ql = <<c>> \o s.ql]
  BY <1>2 DEF Sane
<1>4. add_char(u, c) \in Sane(C) /\ add_char(u, c) = [u EXCEPT !.command = Append(u.command, c)]
  BY AddChar
<1>5. [u EXCEPT !.command = Append(u.command, c)] =
          [s EXCEPT !.ql = <<c>> \o s.ql, !.command = Append(s.command, c)]
  BY <1>3 DEF Sane
<1>6. ql_push(s, c) = add_char(u, c)
  BY <1>3 DEF ql_push
<1> QED BY <1>4, <1>5, <1>6

LEMMA QlPop ==
    ASSUME NEW C, NEW s \in Sane(C), s.ql # <<>>, Closer(Head(s.ql)) \in C
    PROVE  /\ ql_pop(s) \in Sane(C)
           /\ ql_pop(s) = [s EXCEPT !.ql = Tail(s.ql), !.command = Append(s.command, Closer(Head(s.ql)))]
<1>1. s.ql \in Seq(Quotes)
  BY DEF Sane
<1>2. Tail(s.ql) \in Seq(Quotes)
  BY <1>1, HeadTailProperties
<1> DEFINE c == Closer(Head(s.ql))
<1>3. PICK u \in Sane(C) : u = [s EXCEPT !.ql = Tail(s.ql)]
  BY <1>2 DEF Sane
<1>4. add_char(u, c) \in Sane(C) /\ add_char(u, c) = [u EXCEPT !.command = Append(u.command, c)]
  BY AddChar
<1>5. [u EXCEPT !.command = Append(u.command, c)] =
          [s EXCEPT !.ql = Tail(s.ql), !.command = Append(s.command, c)]
  <2> HIDE DEF c
  <2> QED BY <1>3 DEF Sane
<1>6. ql_pop(s) = add_char(u, c)
  BY <1>3 DEF ql_pop
<1> QED BY <1>4, <1>5, <1>6

-----------------------------------------------------------------------------
(* The operations of the shell.                                            *)

LEMMA LiteralIs ==
    ASSUME NEW C, NEW r \in Reader(C), NEW c \in C
    PROVE  LET t == Literal(r, c)
           IN /\ t \in Reader(C)
              /\ t.in = r.in /\ t.only_words = r.only_words
              /\ ~ t.esc /\ ~ t.opener /\ ~ t.dollar
<1>1. r.words \in Seq(Seq(C)) /\ r.apart \in BOOLEAN
  BY DEF Reader
<1>2. <<c>> \in Seq(C)
  OBVIOUS
<1> DEFINE w == IF r.apart THEN Append(r.words, <<c>>)
                ELSE [r.words EXCEPT ![Len(r.words)] = Append(@, c)]
<1>3. w \in Seq(Seq(C))
  <2>1. CASE r.apart
    <3>1. Append(r.words, <<c>>) \in Seq(Seq(C))
      BY <1>1, <1>2, AppendProperties
    <3> QED BY <2>1, <3>1
  <2>2. CASE ~ r.apart /\ r.words = <<>>
    <3>1. [r.words EXCEPT ![Len(r.words)] = Append(@, c)] = r.words
      BY <2>2
    <3> QED BY <2>2, <3>1, <1>1
  <2>3. CASE ~ r.apart /\ r.words # <<>>
    <3>1. Len(r.words) \in 1..Len(r.words)
      BY <1>1, <2>3, EmptySeq
    <3>2. r.words[Len(r.words)] \in Seq(C)
      BY <3>1, <1>1
    <3>3. Append(r.words[Len(r.words)], c) \in Seq(C)
      BY <3>2, AppendProperties
    <3>4. [r.words EXCEPT ![Len(r.words)] = Append(r.words[Len(r.words)], c)] \in Seq(Seq(C))
      BY <3>1, <3>3, <1>1, ExceptSeq
    <3> QED BY <2>3, <3>4
  <2> QED BY <2>1, <2>2, <2>3, <1>1
<1>4. Literal(r, c) = [r EXCEPT !.words = w, !.apart = FALSE, !.esc = FALSE,
                                !.opener = FALSE, !.dollar = FALSE]
  BY DEF Literal
<1> HIDE DEF w
<1> QED BY <1>3, <1>4 DEF Reader

LEMMA OpenedIs ==
    ASSUME NEW C, NEW r \in Reader(C), NEW x \in Quotes
    PROVE  LET t == Opened(r, x)
           IN /\ t \in Reader(C)
              /\ t.in = <<x>> \o r.in /\ t.only_words = r.only_words
              /\ t.esc = r.esc /\ ~ t.opener /\ t.dollar = r.dollar
<1>1. r.words \in Seq(Seq(C)) /\ r.apart \in BOOLEAN /\ r.in \in Seq(Quotes)
  BY DEF Reader
<1>2. <<x>> \o r.in \in Seq(Quotes)
  BY <1>1, PushIs
<1> DEFINE w == IF r.apart THEN Append(r.words, <<>>) ELSE r.words
<1>3. w \in Seq(Seq(C))
  <2>1. <<>> \in Seq(C)
    OBVIOUS
  <2>2. Append(r.words, <<>>) \in Seq(Seq(C))
    BY <1>1, <2>1, AppendProperties
  <2> QED BY <1>1, <2>2
<1>4. Opened(r, x) = [r EXCEPT !.in = <<x>> \o r.in, !.opener = FALSE, !.words = w, !.apart = FALSE]
  BY DEF Opened
<1> HIDE DEF w
<1> QED BY <1>2, <1>3, <1>4 DEF Reader

LEMMA ClosedIs ==
    ASSUME NEW C, NEW r \in Reader(C), r.in # <<>>
    PROVE  LET t == Closed(r)
           IN /\ t \in Reader(C)
              /\ t.in = Tail(r.in) /\ t.only_words = r.only_words
              /\ t.esc = r.esc /\ ~ t.opener /\ ~ t.dollar
<1>1. r.in \in Seq(Quotes)
  BY DEF Reader
<1>2. Tail(r.in) \in Seq(Quotes)
  BY <1>1, HeadTailProperties
<1> QED BY <1>2 DEF Reader, Closed

LEMMA OperatorIs ==
    ASSUME NEW C, NEW r \in Reader(C)
    PROVE  Operator(r) \in Reader(C) /\ ~ Operator(r).only_words
  BY DEF Reader, Operator

LEMMA OthersAre ==
    ASSUME NEW C, NEW r \in Reader(C)
    PROVE  /\ [r EXCEPT !.esc = TRUE] \in Reader(C)
           /\ [r EXCEPT !.dollar = TRUE] \in Reader(C)
           /\ [r EXCEPT !.opener = TRUE] \in Reader(C)
           /\ [r EXCEPT !.apart = TRUE, !.opener = FALSE, !.dollar = FALSE] \in Reader(C)
  BY DEF Reader

\* Whatever comes, and nothing makes an operator undone.
LEMMA ReadsType ==
    ASSUME NEW C, NEW r \in Reader(C), NEW c \in C
    PROVE  Reads(r, c) \in Reader(C) /\ (Reads(r, c).only_words => r.only_words)
<1>1. r.in \in Seq(Quotes)
  BY DEF Reader
<1>2. /\ Literal(r, c) \in Reader(C) /\ Literal(r, c).only_words = r.only_words
  BY LiteralIs
<1>3. \A x \in Quotes : Opened(r, x) \in Reader(C) /\ Opened(r, x).only_words = r.only_words
  BY OpenedIs
<1>4. r.in # <<>> => Closed(r) \in Reader(C) /\ Closed(r).only_words = r.only_words
  BY ClosedIs
<1>5. Operator(r) \in Reader(C) /\ ~ Operator(r).only_words
  BY OperatorIs
<1>6. /\ [r EXCEPT !.esc = TRUE] \in Reader(C)
      /\ [r EXCEPT !.esc = TRUE].only_words = r.only_words
  BY OthersAre DEF Reader
<1>7. /\ [r EXCEPT !.apart = TRUE, !.opener = FALSE, !.dollar = FALSE] \in Reader(C)
      /\ [r EXCEPT !.apart = TRUE, !.opener = FALSE, !.dollar = FALSE].only_words = r.only_words
  BY OthersAre, ZenonT(60) DEF Reader
<1>8. /\ [Literal(r, c) EXCEPT !.dollar = TRUE] \in Reader(C)
      /\ [Literal(r, c) EXCEPT !.dollar = TRUE].only_words = r.only_words
      /\ [Literal(r, c) EXCEPT !.opener = TRUE] \in Reader(C)
      /\ [Literal(r, c) EXCEPT !.opener = TRUE].only_words = r.only_words
  <2>1. PICK t \in Reader(C) : t = Literal(r, c) /\ t.only_words = r.only_words
    BY <1>2
  <2>2. /\ [t EXCEPT !.dollar = TRUE] \in Reader(C)
        /\ [t EXCEPT !.dollar = TRUE].only_words = t.only_words
        /\ [t EXCEPT !.opener = TRUE] \in Reader(C)
        /\ [t EXCEPT !.opener = TRUE].only_words = t.only_words
    BY OthersAre DEF Reader
  <2> QED BY <2>1, <2>2
<1>9. Single \in Quotes /\ Double \in Quotes /\ Paren \in Quotes
  BY DEF Quotes
<1>10. NoQuote # Single /\ NoQuote # Double /\ NoQuote # Paren
  BY DEF NoQuote, Single, Double, Paren
<1> DEFINE qt == IF r.in = <<>> THEN NoQuote ELSE Head(r.in)
<1>11. qt # NoQuote => r.in # <<>>
  OBVIOUS
<1> QED
  BY <1>2, <1>3, <1>4, <1>5, <1>6, <1>7, <1>8, <1>9, <1>10, <1>11 DEF Reads

\* The loop keeps its types.
LEMMA SaneIs ==
    ASSUME NEW C, NEW s \in Sane(C)
    PROVE  /\ s.ql \in Seq(Quotes) /\ s.command \in Seq(C)
           /\ Top(s) = TopOf(s.ql) /\ Top(s) \in Quotes \cup {NoQuote}
           /\ Top(s) # NoQuote => s.ql # <<>> /\ Head(s.ql) = Top(s)
           /\ backspace(s) \in Sane(C) /\ delete_current_word(s) \in Sane(C)
           /\ Break(s) \in Sane(C)
           /\ \A b \in BOOLEAN :
                 /\ [s EXCEPT !.last_char_backslash = b] \in Sane(C)
                 /\ [s EXCEPT !.last_char_exclamation = b] \in Sane(C)
                 /\ [s EXCEPT !.last_char_dollar = b] \in Sane(C)
                 /\ [s EXCEPT !.skip_word = b] \in Sane(C)
<1>1. s.ql \in Seq(Quotes) /\ s.command \in Seq(C)
  BY DEF Sane
<1>2. Top(s) = TopOf(s.ql)
  BY DEF Top, TopOf
<1>3. backspace(s) \in Sane(C)
  <2>1. CASE s.command = <<>>
    <3>1. [s EXCEPT !.command = s.command] = s
      BY DEF Sane
    <3> QED BY <2>1, <3>1 DEF backspace
  <2>2. CASE s.command # <<>>
    BY <2>2, Backspace
  <2> QED BY <2>1, <2>2
<1>4. delete_current_word(s) \in Sane(C) /\ Break(s) \in Sane(C)
  <2>1. <<>> \in Seq(C)
    OBVIOUS
  <2> QED BY <2>1 DEF Sane, delete_current_word, Break
<1>5. \A b \in BOOLEAN :
         /\ [s EXCEPT !.last_char_backslash = b] \in Sane(C)
         /\ [s EXCEPT !.last_char_exclamation = b] \in Sane(C)
         /\ [s EXCEPT !.last_char_dollar = b] \in Sane(C)
         /\ [s EXCEPT !.skip_word = b] \in Sane(C)
  BY DEF Sane
<1> QED BY <1>1, <1>2, <1>3, <1>4, <1>5, TopIs

LEMMA SpecialType ==
    ASSUME NEW C, NEW s \in Sane(C), NEW c \in C
    PROVE  Special(s, c) \in Sane(C)
<1>1. PICK plain \in Sane(C) : plain = add_char(s, c)
  BY AddChar
<1>2. /\ [plain EXCEPT !.last_char_backslash = TRUE] \in Sane(C)
      /\ [plain EXCEPT !.last_char_dollar = TRUE] \in Sane(C)
      /\ [plain EXCEPT !.last_char_exclamation = TRUE] \in Sane(C)
  BY SaneIs
<1>3. PICK t \in Sane(C) : t = [s EXCEPT !.last_char_exclamation = FALSE]
  BY SaneIs
<1>4. backspace(t) \in Sane(C) /\ Break(s) \in Sane(C) /\ delete_current_word(s) \in Sane(C)
  BY SaneIs
<1>5. Break(backspace(t)) \in Sane(C) /\ Break(delete_current_word(s)) \in Sane(C)
  BY <1>4, SaneIs
<1>6. \A u \in Sane(C), x \in Quotes : x = c => ql_push(u, x) \in Sane(C)
  BY QlPush
<1>7. /\ c = Double /\ Top(s) = Double => ql_pop(s) \in Sane(C)
      /\ c = ")" /\ Top(s) = Paren => ql_pop(s) \in Sane(C)
  <2>1. Top(s) # NoQuote => s.ql # <<>> /\ Head(s.ql) = Top(s)
    BY SaneIs
  <2>2. Closer(Double) = Double /\ Closer(Paren) = ")" /\ Double # NoQuote /\ Paren # NoQuote
    BY DEF Closer, Double, Paren, NoQuote
  <2>3. (c = Double /\ Top(s) = Double) \/ (c = ")" /\ Top(s) = Paren) =>
            s.ql # <<>> /\ Closer(Head(s.ql)) = c
    BY <2>1, <2>2
  <2>4. s.ql # <<>> /\ Closer(Head(s.ql)) = c => ql_pop(s) \in Sane(C)
    BY QlPop
  <2> QED BY <2>3, <2>4
<1>8. Double \in Quotes /\ Single \in Quotes /\ Paren \in Quotes /\ Paren = "("
  BY DEF Quotes, Paren
<1>9. t = [s EXCEPT !.last_char_exclamation = FALSE] /\ s \in Sane(C)
  BY <1>3
<1> QED BY <1>1, <1>2, <1>3, <1>4, <1>5, <1>6, <1>7, <1>8 DEF Special

LEMMA CharType ==
    ASSUME NEW C, NEW s \in Sane(C), NEW c \in C
    PROVE  Char(s, c) \in Sane(C)
<1>1. Special(s, c) \in Sane(C) /\ add_char(s, c) \in Sane(C)
  BY SpecialType, AddChar
<1>2. add_char([s EXCEPT !.last_char_exclamation = FALSE, !.last_char_backslash = FALSE], c) \in Sane(C)
  <2>1. [s EXCEPT !.last_char_exclamation = FALSE, !.last_char_backslash = FALSE] \in Sane(C)
    BY DEF Sane
  <2> QED BY <2>1, AddChar
<1>3. add_char([s EXCEPT !.last_char_backslash = FALSE], c) \in Sane(C)
  <2>1. [s EXCEPT !.last_char_backslash = FALSE] \in Sane(C)
    BY DEF Sane
  <2> QED BY <2>1, AddChar
<1>4. Top(s) = Single /\ c = Single => ql_pop(s) \in Sane(C)
  <2>1. Top(s) # NoQuote => s.ql # <<>> /\ Head(s.ql) = Top(s)
    BY SaneIs
  <2>2. Closer(Single) = Single /\ Single # NoQuote
    BY DEF Closer, Single, Paren, NoQuote
  <2>3. Top(s) = Single /\ c = Single => s.ql # <<>> /\ Closer(Head(s.ql)) = c
    BY <2>1, <2>2
  <2>4. s.ql # <<>> /\ Closer(Head(s.ql)) = c => ql_pop(s) \in Sane(C)
    BY QlPop
  <2> QED BY <2>3, <2>4
<1> QED BY <1>1, <1>2, <1>3, <1>4 DEF Char

LEMMA TurnType ==
    ASSUME NEW C, NEW s \in Sane(C), NEW c \in C
    PROVE  Turn(s, c) \in Sane(C)
<1>1. PICK b \in Sane(C) : b = backspace(s)
  BY SaneIs
<1>2. [b EXCEPT !.skip_word = TRUE, !.last_char_exclamation = FALSE] \in Sane(C)
  BY DEF Sane
<1>3. Break([b EXCEPT !.last_char_dollar = FALSE]) \in Sane(C)
  <2>1. [b EXCEPT !.last_char_dollar = FALSE] \in Sane(C)
    BY DEF Sane
  <2> QED BY <2>1, SaneIs
<1>4. Char([s EXCEPT !.last_char_dollar = FALSE, !.skip_word = FALSE], c) \in Sane(C)
  <2>1. [s EXCEPT !.last_char_dollar = FALSE, !.skip_word = FALSE] \in Sane(C)
    BY DEF Sane
  <2> QED BY <2>1, CharType
<1> QED BY <1>1, <1>2, <1>3, <1>4 DEF Turn

-----------------------------------------------------------------------------
(* The loop and the reading, one character after the other.                *)

LEMMA LoopSteps ==
    ASSUME NEW C, NEW line \in Seq(C)
    PROVE  \E f \in [0..Len(line) -> Sane(C)] :
               /\ f[0] = Clean
               /\ \A k \in 1..Len(line) : f[k] = Turn(f[k - 1], line[k])
               /\ Loop(line) = f[Len(line)]
<1> DEFINE V == Sane(C)
           n == Len(line)
           Is(f) == f = [i \in 0..n |-> IF i = 0 THEN Clean ELSE Turn(f[i - 1], line[i])]
           step == [k \in 1..n |-> [s \in V |-> Turn(s, line[k])]]
           after == CHOOSE f : Is(f)
<1>1. n \in Nat /\ \A k \in 1..n : line[k] \in C
  OBVIOUS
<1>2. Clean \in V
  <2>1. <<>> \in Seq(Quotes) /\ <<>> \in Seq(C)
    OBVIOUS
  <2> QED BY <2>1 DEF Sane, Clean
<1>3. step \in [1..n -> [V -> V]]
  <2>1. \A k \in 1..n : \A s \in V : Turn(s, line[k]) \in V
    BY <1>1, TurnType
  <2> HIDE DEF V
  <2> QED BY <2>1
<1>4. PICK g \in [0..n -> V] : Iterates(g, n, Clean, step)
  <2> HIDE DEF V, n, step
  <2> QED BY <1>1, <1>2, <1>3, Recursion
<1> HIDE DEF V
<1>5. ASSUME NEW k \in 1..n
      PROVE  g[k] = Turn(g[k - 1], line[k])
  <2>1. k - 1 \in 0..n
    BY <1>1
  <2>2. g[k - 1] \in V
    BY <2>1
  <2>3. step[k][g[k - 1]] = Turn(g[k - 1], line[k])
    BY <2>2
  <2> QED BY <1>4, <2>3 DEF Iterates
<1>6. g[0] = Clean
  BY <1>4 DEF Iterates
<1>7. Is(g)
  <2>1. ASSUME NEW k \in 0..n
        PROVE  g[k] = IF k = 0 THEN Clean ELSE Turn(g[k - 1], line[k])
    <3>1. k # 0 => k \in 1..n
      BY <1>1
    <3> QED BY <1>5, <1>6, <3>1
  <2> QED BY <2>1
<1>8. Is(after)
  <2> HIDE DEF Is
  <2> QED BY <1>7
<1>9. Loop(line) = after[n]
  BY DEF Loop
<1> HIDE DEF after
<1>10. \A k \in 0..n : after[k] = g[k]
  <2> DEFINE T == {k \in 0..n : after[k] = g[k]}
  <2>1. 0 \in T
    BY <1>1, <1>6, <1>8
  <2>2. ASSUME NEW k \in 1..n, k - 1 \in T
        PROVE  k \in T
    <3>1. k \in 0..n /\ k # 0
      BY <1>1
    <3>2. after[k] = Turn(after[k - 1], line[k])
      BY <1>8, <3>1
    <3> QED BY <2>2, <3>1, <3>2, <1>5
  <2>3. \A k \in 0..n : k \in T
    <3> HIDE DEF T, n
    <3> QED BY <1>1, <2>1, <2>2, BoundedInduction
  <2> QED BY <2>3
<1>11. Loop(line) = g[n]
  BY <1>1, <1>9, <1>10
<1> QED
  <2>1. \A k \in 1..n : g[k] = Turn(g[k - 1], line[k])
    BY <1>5
  <2> QED BY <1>6, <1>11, <2>1 DEF V

LEMMA ReadingSteps ==
    ASSUME NEW C, NEW line \in Seq(C)
    PROVE  \E f \in [0..Len(line) -> Reader(C)] :
               /\ f[0] = Unread
               /\ \A k \in 1..Len(line) : f[k] = Reads(f[k - 1], line[k])
               /\ Reading(line) = f[Len(line)]
<1> DEFINE V == Reader(C)
           n == Len(line)
           Is(f) == f = [i \in 0..n |-> IF i = 0 THEN Unread ELSE Reads(f[i - 1], line[i])]
           step == [k \in 1..n |-> [s \in V |-> Reads(s, line[k])]]
           after == CHOOSE f : Is(f)
<1>1. n \in Nat /\ \A k \in 1..n : line[k] \in C
  OBVIOUS
<1>2. Unread \in V
  <2>1. <<>> \in Seq(Quotes) /\ <<>> \in Seq(Seq(C))
    OBVIOUS
  <2> QED BY <2>1 DEF Reader, Unread
<1>3. step \in [1..n -> [V -> V]]
  <2>1. \A k \in 1..n : \A s \in V : Reads(s, line[k]) \in V
    BY <1>1, ReadsType
  <2> HIDE DEF V
  <2> QED BY <2>1
<1>4. PICK g \in [0..n -> V] : Iterates(g, n, Unread, step)
  <2> HIDE DEF V, n, step
  <2> QED BY <1>1, <1>2, <1>3, Recursion
<1> HIDE DEF V
<1>5. ASSUME NEW k \in 1..n
      PROVE  g[k] = Reads(g[k - 1], line[k])
  <2>1. k - 1 \in 0..n
    BY <1>1
  <2>2. g[k - 1] \in V
    BY <2>1
  <2>3. step[k][g[k - 1]] = Reads(g[k - 1], line[k])
    BY <2>2
  <2> QED BY <1>4, <2>3 DEF Iterates
<1>6. g[0] = Unread
  BY <1>4 DEF Iterates
<1>7. Is(g)
  <2>1. ASSUME NEW k \in 0..n
        PROVE  g[k] = IF k = 0 THEN Unread ELSE Reads(g[k - 1], line[k])
    <3>1. k # 0 => k \in 1..n
      BY <1>1
    <3> QED BY <1>5, <1>6, <3>1
  <2> QED BY <2>1
<1>8. Is(after)
  <2> HIDE DEF Is
  <2> QED BY <1>7
<1>9. Reading(line) = after[n]
  BY DEF Reading
<1> HIDE DEF after
<1>10. \A k \in 0..n : after[k] = g[k]
  <2> DEFINE T == {k \in 0..n : after[k] = g[k]}
  <2>1. 0 \in T
    BY <1>1, <1>6, <1>8
  <2>2. ASSUME NEW k \in 1..n, k - 1 \in T
        PROVE  k \in T
    <3>1. k \in 0..n /\ k # 0
      BY <1>1
    <3>2. after[k] = Reads(after[k - 1], line[k])
      BY <1>8, <3>1
    <3> QED BY <2>2, <3>1, <3>2, <1>5
  <2>3. \A k \in 0..n : k \in T
    <3> HIDE DEF T, n
    <3> QED BY <1>1, <2>1, <2>2, BoundedInduction
  <2> QED BY <2>3
<1>11. Reading(line) = g[n]
  BY <1>1, <1>9, <1>10
<1> QED
  <2>1. \A k \in 1..n : g[k] = Reads(g[k - 1], line[k])
    BY <1>5
  <2> QED BY <1>6, <1>11, <2>1 DEF V

\* Two functions that go on alike from one value agree.
LEMMA SameIterates ==
    ASSUME NEW n \in Nat, NEW f, NEW g, f[0] = g[0],
           \A k \in 1..n : f[k - 1] = g[k - 1] => f[k] = g[k]
    PROVE  f[n] = g[n]
<1> DEFINE T == {k \in 0..n : f[k] = g[k]}
<1>1. 0 \in T
  OBVIOUS
<1>2. ASSUME NEW k \in 1..n, k - 1 \in T
      PROVE  k \in T
  BY <1>2
<1>3. \A k \in 0..n : k \in T
  <2> HIDE DEF T
  <2> QED BY <1>1, <1>2, BoundedInduction
<1>4. n \in T
  BY <1>3
<1> QED BY <1>4

LEMMA LoopAppend ==
    ASSUME NEW C, NEW line \in Seq(C), NEW c \in C
    PROVE  /\ Loop(line) \in Sane(C) /\ Loop(<<>>) = Clean
           /\ Loop(Append(line, c)) = Turn(Loop(line), c)
<1> DEFINE n == Len(line)
           longer == Append(line, c)
<1>1. n \in Nat
  OBVIOUS
<1>2. /\ longer \in Seq(C) /\ Len(longer) = n + 1 /\ longer[n + 1] = c
      /\ \A k \in 1..n : longer[k] = line[k]
  BY AppendProperties
<1>3. PICK f \in [0..n -> Sane(C)] :
         /\ f[0] = Clean
         /\ \A k \in 1..n : f[k] = Turn(f[k - 1], line[k])
         /\ Loop(line) = f[n]
  BY LoopSteps
<1> HIDE DEF longer
<1>4. PICK g \in [0..Len(longer) -> Sane(C)] :
         /\ g[0] = Clean
         /\ \A k \in 1..Len(longer) : g[k] = Turn(g[k - 1], longer[k])
         /\ Loop(longer) = g[Len(longer)]
  BY <1>2, LoopSteps
<1> HIDE DEF n
<1>5. \A k \in 1..n : f[k - 1] = g[k - 1] => f[k] = g[k]
  BY <1>1, <1>2, <1>3, <1>4
<1>6. f[0] = g[0]
  BY <1>3, <1>4
<1>7. f[n] = g[n]
  BY <1>1, <1>5, <1>6, SameIterates
<1>8. Loop(longer) = g[n + 1] /\ g[n + 1] = Turn(g[n], c)
  BY <1>1, <1>2, <1>4
<1>9. Loop(line) \in Sane(C)
  BY <1>1, <1>3
<1>10. Loop(<<>>) = Clean
  <2>1. <<>> \in Seq(C) /\ Len(<<>>) = 0
    OBVIOUS
  <2>2. PICK h : h[0] = Clean /\ Loop(<<>>) = h[Len(<<>>)]
    BY <2>1, LoopSteps
  <2> QED BY <2>1, <2>2
<1> QED BY <1>3, <1>7, <1>8, <1>9, <1>10 DEF longer

\* The loop's state for a line, and for none.
LEMMA LoopType ==
    ASSUME NEW C, NEW line \in Seq(C)
    PROVE  Loop(line) \in Sane(C)
<1>1. Len(line) \in 0..Len(line)
  OBVIOUS
<1> QED BY <1>1, LoopSteps

LEMMA LoopEmpty ==
    Loop(<<>>) = Clean
<1>1. <<>> \in Seq({}) /\ Len(<<>>) = 0
  OBVIOUS
<1> QED BY <1>1, LoopSteps

LEMMA ReadingAppend ==
    ASSUME NEW C, NEW line \in Seq(C), NEW c \in C
    PROVE  /\ Reading(line) \in Reader(C) /\ Reading(<<>>) = Unread
           /\ Reading(Append(line, c)) = Reads(Reading(line), c)
<1> DEFINE n == Len(line)
           longer == Append(line, c)
<1>1. n \in Nat
  OBVIOUS
<1>2. /\ longer \in Seq(C) /\ Len(longer) = n + 1 /\ longer[n + 1] = c
      /\ \A k \in 1..n : longer[k] = line[k]
  BY AppendProperties
<1>3. PICK f \in [0..n -> Reader(C)] :
         /\ f[0] = Unread
         /\ \A k \in 1..n : f[k] = Reads(f[k - 1], line[k])
         /\ Reading(line) = f[n]
  BY ReadingSteps
<1> HIDE DEF longer
<1>4. PICK g \in [0..Len(longer) -> Reader(C)] :
         /\ g[0] = Unread
         /\ \A k \in 1..Len(longer) : g[k] = Reads(g[k - 1], longer[k])
         /\ Reading(longer) = g[Len(longer)]
  BY <1>2, ReadingSteps
<1> HIDE DEF n
<1>5. \A k \in 1..n : f[k - 1] = g[k - 1] => f[k] = g[k]
  BY <1>1, <1>2, <1>3, <1>4
<1>6. f[0] = g[0]
  BY <1>3, <1>4
<1>7. f[n] = g[n]
  BY <1>1, <1>5, <1>6, SameIterates
<1>8. Reading(longer) = g[n + 1] /\ g[n + 1] = Reads(g[n], c)
  BY <1>1, <1>2, <1>4
<1>9. Reading(line) \in Reader(C)
  BY <1>1, <1>3
<1>10. Reading(<<>>) = Unread
  <2>1. <<>> \in Seq(C) /\ Len(<<>>) = 0
    OBVIOUS
  <2>2. PICK h : h[0] = Unread /\ Reading(<<>>) = h[Len(<<>>)]
    BY <2>1, ReadingSteps
  <2> QED BY <2>1, <2>2
<1> QED BY <1>3, <1>7, <1>8, <1>9, <1>10 DEF longer

-----------------------------------------------------------------------------
(* What the shell has read when it has read cmd: q is open, nothing is     *)
(* escaped, and an opener is what the loop takes for one.                  *)

Plain(q, cmd) ==
    LET r == Reading(cmd)
    IN /\ r.in = q /\ r.only_words /\ ~ r.esc /\ ~ r.dollar
       /\ cmd # <<>> /\ Last(cmd) = "?" /\ TopOf(q) \notin {Single, Double} => r.opener
       /\ r.opener => cmd # <<>> /\ Last(cmd) \in {"?", "!"}

\* Nothing is escaped at the beginning.
LEMMA PlainEmpty ==
    Plain(<<>>, <<>>)
<1>1. <<>> \in Seq({})
  OBVIOUS
<1>2. \E s \in Seq({}) : Reading(<<>>) = Unread
  <2>1. PICK f : f[0] = Unread /\ Reading(<<>>) = f[Len(<<>>)]
    BY <1>1, ReadingSteps
  <2>2. Len(<<>>) = 0
    OBVIOUS
  <2> QED BY <1>1, <2>1, <2>2
<1> QED BY <1>2 DEF Plain, Unread

\* One character more.
LEMMA PlainAppend ==
    ASSUME NEW C, NEW cmd \in Seq(C), NEW c \in C, NEW q,
           LET t == Reads(Reading(cmd), c)
           IN /\ t.in = q /\ t.only_words /\ ~ t.esc /\ ~ t.dollar
              /\ c = "?" /\ TopOf(q) \notin {Single, Double} => t.opener
              /\ t.opener => c \in {"?", "!"}
    PROVE  Plain(q, Append(cmd, c))
<1>1. Reading(Append(cmd, c)) = Reads(Reading(cmd), c)
  BY ReadingAppend
<1>2. Append(cmd, c) # <<>> /\ Last(Append(cmd, c)) = c
  BY AppendIs
<1> QED BY <1>1, <1>2 DEF Plain

\* The names of the quotes are different.
LEMMA QuotesDiffer ==
    /\ Single # Double /\ Single # Paren /\ Single # NoQuote
    /\ Double # Paren /\ Double # NoQuote /\ Paren # NoQuote
    /\ Single = "'" /\ Double = "\"" /\ Paren = "(" /\ Backtick = "tick" /\ NoQuote = "none"
    /\ Closer(Single) = "'" /\ Closer(Double) = "\"" /\ Closer(Paren) = ")"
    /\ Single \in Quotes /\ Double \in Quotes /\ Paren \in Quotes
  BY DEF Single, Double, Paren, NoQuote, Backtick, Closer, Quotes

\* The characters that open, close, escape or end something outside quotes.
Meta == {"\\", "$", "tick", "\"", "'", "?", "!", "(", ")"}

\* A character that stands for itself.
LEMMA ReadsLiteral ==
    ASSUME NEW C, NEW cmd \in Seq(C), NEW c \in C, NEW q \in Seq(Quotes), Plain(q, cmd),
           \/ TopOf(q) = Single /\ c # "'"
           \/ TopOf(q) = Double /\ c \notin {"\\", "$", "tick", "\""}
           \/ TopOf(q) = Paren /\ c \notin Meta
           \/ TopOf(q) = NoQuote /\ c \notin Meta \cup {";", ">"}
    PROVE  Plain(q, Append(cmd, c))
<1>1. PICK r \in Reader(C) : r = Reading(cmd)
  BY ReadingAppend
<1>2. r.in = q /\ r.only_words /\ ~ r.esc /\ ~ r.dollar
  BY <1>1 DEF Plain
<1>3. PICK t \in Reader(C) : /\ t = Literal(r, c) /\ t.in = q /\ t.only_words
                             /\ ~ t.esc /\ ~ t.opener /\ ~ t.dollar
  BY <1>2, LiteralIs
<1>4. PICK u \in Reader(C) : /\ u = [r EXCEPT !.apart = TRUE, !.opener = FALSE, !.dollar = FALSE]
                             /\ u.in = q /\ u.only_words /\ ~ u.esc /\ ~ u.opener /\ ~ u.dollar
  <2>1. [r EXCEPT !.apart = TRUE, !.opener = FALSE, !.dollar = FALSE] \in Reader(C)
    BY OthersAre
  <2> QED BY <1>2, <2>1 DEF Reader
<1> DEFINE qt == IF r.in = <<>> THEN NoQuote ELSE Head(r.in)
<1>5. qt = TopOf(q)
  BY <1>2 DEF TopOf
<1>6. CASE TopOf(q) \in {Single, Double}
  <2>1. Reads(r, c) = t
    BY <1>2, <1>3, <1>5, <1>6, QuotesDiffer DEF Reads
  <2> QED BY <1>1, <1>3, <1>6, <2>1, PlainAppend
<1>7. CASE TopOf(q) \in {Paren, NoQuote}
  <2>1. c # "?"
    BY <1>7, QuotesDiffer DEF Meta
  <2>2. Reads(r, c) = t \/ Reads(r, c) = u
    BY <1>2, <1>3, <1>4, <1>5, <1>7, QuotesDiffer DEF Reads, Meta
  <2>3. CASE Reads(r, c) = t
    BY <1>1, <1>3, <2>1, <2>3, PlainAppend
  <2>4. CASE Reads(r, c) = u
    BY <1>1, <1>4, <2>1, <2>4, PlainAppend
  <2> QED BY <2>2, <2>3, <2>4
<1> QED BY <1>6, <1>7

\* A wildcard, which may be an extended glob's.
LEMMA ReadsWildcard ==
    ASSUME NEW C, NEW cmd \in Seq(C), "?" \in C, NEW q \in Seq(Quotes), Plain(q, cmd),
           TopOf(q) \in {NoQuote, Paren}
    PROVE  Plain(q, Append(cmd, "?"))
<1>1. PICK r \in Reader(C) : r = Reading(cmd)
  BY ReadingAppend
<1>2. r.in = q /\ r.only_words /\ ~ r.esc /\ ~ r.dollar
  BY <1>1 DEF Plain
<1>3. PICK t \in Reader(C) : /\ t = Literal(r, "?") /\ t.in = q /\ t.only_words
                             /\ ~ t.esc /\ ~ t.opener /\ ~ t.dollar
  BY <1>2, LiteralIs
<1>4. PICK u \in Reader(C) : /\ u = [t EXCEPT !.opener = TRUE]
                             /\ u.in = q /\ u.only_words /\ ~ u.esc /\ u.opener /\ ~ u.dollar
  <2>1. [t EXCEPT !.opener = TRUE] \in Reader(C)
    BY OthersAre
  <2> QED BY <1>3, <2>1 DEF Reader
<1> DEFINE qt == IF r.in = <<>> THEN NoQuote ELSE Head(r.in)
<1>5. qt = TopOf(q)
  BY <1>2 DEF TopOf
<1>6. Reads(r, "?") = u
  BY <1>2, <1>3, <1>4, <1>5, QuotesDiffer DEF Reads
<1> QED BY <1>1, <1>4, <1>6, PlainAppend

\* A quote or a parenthesis is opened...
LEMMA ReadsOpening ==
    ASSUME NEW C, NEW cmd \in Seq(C), NEW c \in C \cap Quotes, NEW q \in Seq(Quotes), Plain(q, cmd),
           TopOf(q) \in {NoQuote, Paren}, c = "(" => Reading(cmd).opener
    PROVE  Plain(<<c>> \o q, Append(cmd, c))
<1>1. PICK r \in Reader(C) : r = Reading(cmd)
  BY ReadingAppend
<1>2. r.in = q /\ r.only_words /\ ~ r.esc /\ ~ r.dollar /\ (c = "(" => r.opener)
  BY <1>1 DEF Plain
<1>3. PICK t \in Reader(C) : /\ t = Opened(r, c) /\ t.in = <<c>> \o q /\ t.only_words
                             /\ ~ t.esc /\ ~ t.opener /\ ~ t.dollar
  BY <1>2, OpenedIs
<1> DEFINE qt == IF r.in = <<>> THEN NoQuote ELSE Head(r.in)
<1>4. qt = TopOf(q)
  BY <1>2 DEF TopOf
<1>5. c \in {"'", "\"", "("}
  BY QuotesDiffer DEF Quotes
<1>6. Reads(r, c) = t
  BY <1>2, <1>3, <1>4, <1>5, QuotesDiffer DEF Reads
<1>7. c # "?"
  BY <1>5
<1> QED BY <1>1, <1>3, <1>6, <1>7, PlainAppend

\* What closes a quote is taken for it, even after a "$".
LEMMA ReadsCloser ==
    ASSUME NEW C, NEW r \in Reader(C), NEW c \in C, ~ r.esc,
           r.in # <<>>, c = Closer(TopOf(r.in))
    PROVE  Reads(r, c) = Closed(r)
<1> DEFINE qt == IF r.in = <<>> THEN NoQuote ELSE Head(r.in)
<1>1. qt = TopOf(r.in)
  BY DEF TopOf
<1>2. r.in \in Seq(Quotes)
  BY DEF Reader
<1>3. qt \in Quotes /\ c = Closer(qt)
  BY <1>1, <1>2, TopIs
<1>4. CASE qt = Single
  BY <1>3, <1>4, QuotesDiffer DEF Reads
<1>5. CASE qt = Double
  BY <1>3, <1>5, QuotesDiffer DEF Reads
<1>6. CASE qt = Paren
  BY <1>3, <1>6, QuotesDiffer DEF Reads
<1> QED BY <1>3, <1>4, <1>5, <1>6 DEF Quotes

\* ... and closed.
LEMMA ReadsClosing ==
    ASSUME NEW C, NEW cmd \in Seq(C), NEW c \in C, NEW q \in Seq(Quotes), Plain(q, cmd),
           q # <<>>, c = Closer(TopOf(q))
    PROVE  Plain(Tail(q), Append(cmd, c))
<1>1. PICK r \in Reader(C) : r = Reading(cmd)
  BY ReadingAppend
<1>2. r.in = q /\ r.only_words /\ ~ r.esc /\ ~ r.dollar
  BY <1>1 DEF Plain
<1>3. PICK t \in Reader(C) : /\ t = Closed(r) /\ t.in = Tail(q) /\ t.only_words
                             /\ ~ t.esc /\ ~ t.opener /\ ~ t.dollar
  BY <1>2, ClosedIs
<1>4. Reads(r, c) = t
  BY <1>2, <1>3, ReadsCloser
<1>5. c # "?"
  BY TopIs, QuotesDiffer DEF Quotes
<1> QED BY <1>1, <1>3, <1>4, <1>5, PlainAppend

\* cmd is made of words, as far as the shell can tell: only quotes are open.
Open(q, cmd) ==
    LET r == Reading(cmd) IN r.in = q /\ r.only_words /\ ~ r.esc

\* A space ends what a "$" or a "!" could have begun.
LEMMA ReadsSpace ==
    ASSUME NEW C, NEW cmd \in Seq(C), " " \in C, NEW q \in Seq(Quotes), Open(q, cmd)
    PROVE  Plain(q, Append(cmd, " "))
<1>1. PICK r \in Reader(C) : r = Reading(cmd)
  BY ReadingAppend
<1>2. r.in = q /\ r.only_words /\ ~ r.esc
  BY <1>1 DEF Open
<1>3. PICK t \in Reader(C) : /\ t = Literal(r, " ") /\ t.in = q /\ t.only_words
                             /\ ~ t.esc /\ ~ t.opener /\ ~ t.dollar
  BY <1>2, LiteralIs
<1>4. PICK u \in Reader(C) : /\ u = [r EXCEPT !.apart = TRUE, !.opener = FALSE, !.dollar = FALSE]
                             /\ u.in = q /\ u.only_words /\ ~ u.esc /\ ~ u.opener /\ ~ u.dollar
  <2>1. [r EXCEPT !.apart = TRUE, !.opener = FALSE, !.dollar = FALSE] \in Reader(C)
    BY OthersAre
  <2> QED BY <1>2, <2>1 DEF Reader
<1>5. Reads(r, " ") = t \/ Reads(r, " ") = u
  BY <1>2, <1>3, <1>4, QuotesDiffer DEF Reads
<1>6. CASE Reads(r, " ") = t
  BY <1>1, <1>3, <1>6, PlainAppend
<1>7. CASE Reads(r, " ") = u
  BY <1>1, <1>4, <1>7, PlainAppend
<1> QED BY <1>5, <1>6, <1>7

\* A backslash outside quotes, and what it escapes.
LEMMA ReadsEscape ==
    ASSUME NEW C, NEW cmd \in Seq(C), "\\" \in C, NEW q \in Seq(Quotes), Plain(q, cmd),
           TopOf(q) = NoQuote
    PROVE  LET r == Reading(Append(cmd, "\\"))
           IN r.in = q /\ r.only_words /\ r.esc /\ ~ r.dollar
<1>1. PICK r \in Reader(C) : r = Reading(cmd)
  BY ReadingAppend
<1>2. r.in = q /\ r.only_words /\ ~ r.esc /\ ~ r.dollar
  BY <1>1 DEF Plain
<1>3. PICK u \in Reader(C) : /\ u = [r EXCEPT !.esc = TRUE]
                             /\ u.in = q /\ u.only_words /\ u.esc /\ ~ u.dollar
  <2>1. [r EXCEPT !.esc = TRUE] \in Reader(C)
    BY OthersAre
  <2> QED BY <1>2, <2>1 DEF Reader
<1> DEFINE qt == IF r.in = <<>> THEN NoQuote ELSE Head(r.in)
<1>4. qt = TopOf(q)
  BY <1>2 DEF TopOf
<1>5. Reads(r, "\\") = u
  BY <1>2, <1>3, <1>4, QuotesDiffer DEF Reads
<1>6. Reading(Append(cmd, "\\")) = Reads(r, "\\")
  BY <1>1, ReadingAppend
<1> QED BY <1>3, <1>5, <1>6

LEMMA ReadsEscaped ==
    ASSUME NEW C, NEW cmd \in Seq(C), "\\" \in C, NEW c \in C \ {"?"}, NEW q \in Seq(Quotes),
           Plain(q, cmd), TopOf(q) = NoQuote
    PROVE  Plain(q, Append(Append(cmd, "\\"), c))
<1>1. PICK b \in Seq(C) : b = Append(cmd, "\\")
  BY AppendIs
<1>2. PICK r \in Reader(C) : r = Reading(b)
  BY ReadingAppend
<1>3. r.in = q /\ r.only_words /\ r.esc
  BY <1>1, <1>2, ReadsEscape
<1>4. PICK t \in Reader(C) : /\ t = Literal(r, c) /\ t.in = q /\ t.only_words
                             /\ ~ t.esc /\ ~ t.opener /\ ~ t.dollar
  BY <1>3, LiteralIs
<1> DEFINE qt == IF r.in = <<>> THEN NoQuote ELSE Head(r.in)
<1>5. qt = TopOf(q)
  BY <1>3 DEF TopOf
<1>6. Reads(r, c) = t
  BY <1>3, <1>4, <1>5, QuotesDiffer DEF Reads
<1>7. c # "?"
  OBVIOUS
<1> QED BY <1>1, <1>2, <1>4, <1>6, <1>7, PlainAppend

\* An exclamation mark, which opens a glob when it is not quoted.
LEMMA ReadsExclamation ==
    ASSUME NEW C, NEW cmd \in Seq(C), "!" \in C, NEW q \in Seq(Quotes), Plain(q, cmd),
           TopOf(q) \in {NoQuote, Double}
    PROVE  /\ Open(q, Append(cmd, "!"))
           /\ "(" \in C /\ TopOf(q) = NoQuote =>
                 Plain(<<Paren>> \o q, Append(Append(cmd, "!"), "("))
<1>1. PICK r \in Reader(C) : r = Reading(cmd)
  BY ReadingAppend
<1>2. r.in = q /\ r.only_words /\ ~ r.esc /\ ~ r.dollar
  BY <1>1 DEF Plain
<1>3. PICK t \in Reader(C) : /\ t = Literal(r, "!") /\ t.in = q /\ t.only_words
                             /\ ~ t.esc /\ ~ t.opener /\ ~ t.dollar
  BY <1>2, LiteralIs
<1>4. PICK u \in Reader(C) : /\ u = [t EXCEPT !.opener = TRUE]
                             /\ u.in = q /\ u.only_words /\ ~ u.esc /\ u.opener /\ ~ u.dollar
  <2>1. [t EXCEPT !.opener = TRUE] \in Reader(C)
    BY OthersAre
  <2> QED BY <1>3, <2>1 DEF Reader
<1> DEFINE qt == IF r.in = <<>> THEN NoQuote ELSE Head(r.in)
<1>5. qt = TopOf(q)
  BY <1>2 DEF TopOf
<1>6. /\ TopOf(q) = NoQuote => Reads(r, "!") = u
      /\ TopOf(q) = Double => Reads(r, "!") = t
  BY <1>2, <1>3, <1>4, <1>5, QuotesDiffer DEF Reads
<1>7. PICK b \in Seq(C) : b = Append(cmd, "!") /\ Reading(b) = Reads(r, "!")
  BY <1>1, ReadingAppend, AppendIs
<1>8. Open(q, b)
  BY <1>3, <1>4, <1>6, <1>7 DEF Open
<1>9. ASSUME "(" \in C, TopOf(q) = NoQuote
      PROVE  Plain(<<Paren>> \o q, Append(b, "("))
  <2>1. Reading(b) = u
    BY <1>6, <1>7, <1>9
  <2>2. PICK v \in Reader(C) : /\ v = Opened(u, Paren) /\ v.in = <<Paren>> \o q /\ v.only_words
                               /\ ~ v.esc /\ ~ v.opener /\ ~ v.dollar
    <3>1. Paren \in Quotes
      BY QuotesDiffer
    <3>2. /\ Opened(u, Paren) \in Reader(C)
          /\ Opened(u, Paren).in = <<Paren>> \o u.in
          /\ Opened(u, Paren).only_words = u.only_words
          /\ Opened(u, Paren).esc = u.esc /\ ~ Opened(u, Paren).opener
          /\ Opened(u, Paren).dollar = u.dollar
      BY <3>1, OpenedIs
    <3> QED BY <1>4, <3>2
  <2>3. (IF u.in = <<>> THEN NoQuote ELSE Head(u.in)) = NoQuote
    BY <1>4, <1>9 DEF TopOf
  <2>4. Reads(u, "(") = v
    BY <1>4, <2>2, <2>3, QuotesDiffer DEF Reads
  <2> QED BY <1>9, <2>1, <2>2, <2>4, PlainAppend
<1> QED BY <1>7, <1>8, <1>9

\* A "$" not in single quotes.
LEMMA ReadsDollar ==
    ASSUME NEW C, NEW cmd \in Seq(C), "$" \in C, NEW q \in Seq(Quotes), Plain(q, cmd),
           TopOf(q) # Single
    PROVE  Open(q, Append(cmd, "$"))
<1>1. PICK r \in Reader(C) : r = Reading(cmd)
  BY ReadingAppend
<1>2. r.in = q /\ r.only_words /\ ~ r.esc /\ ~ r.dollar
  BY <1>1 DEF Plain
<1>3. PICK t \in Reader(C) : /\ t = Literal(r, "$") /\ t.in = q /\ t.only_words
                             /\ ~ t.esc /\ ~ t.opener /\ ~ t.dollar
  BY <1>2, LiteralIs
<1>4. PICK u \in Reader(C) : /\ u = [t EXCEPT !.dollar = TRUE]
                             /\ u.in = q /\ u.only_words /\ ~ u.esc
  <2>1. [t EXCEPT !.dollar = TRUE] \in Reader(C)
    BY OthersAre
  <2> QED BY <1>3, <2>1 DEF Reader
<1> DEFINE qt == IF r.in = <<>> THEN NoQuote ELSE Head(r.in)
<1>5. qt = TopOf(q)
  BY <1>2 DEF TopOf
<1>6. Reads(r, "$") = u
  BY <1>2, <1>3, <1>4, <1>5, QuotesDiffer DEF Reads
<1>7. Reading(Append(cmd, "$")) = Reads(r, "$")
  BY <1>1, ReadingAppend
<1> QED BY <1>4, <1>6, <1>7 DEF Open

\* What the shell would execute or wait for.
LEMMA ReadsOperator ==
    ASSUME NEW C, NEW cmd \in Seq(C), NEW c \in C, NEW q \in Seq(Quotes), Plain(q, cmd),
           \/ TopOf(q) # Single /\ c = "tick"
           \/ TopOf(q) \in {NoQuote, Paren} /\ c = "(" /\ ~ Reading(cmd).opener
           \/ TopOf(q) = NoQuote /\ c \in {")", ";", ">"}
    PROVE  ~ Reading(Append(cmd, c)).only_words
<1>1. PICK r \in Reader(C) : r = Reading(cmd)
  BY ReadingAppend
<1>2. r.in = q /\ r.only_words /\ ~ r.esc /\ ~ r.dollar
  BY <1>1 DEF Plain
<1> DEFINE qt == IF r.in = <<>> THEN NoQuote ELSE Head(r.in)
<1>3. qt = TopOf(q)
  BY <1>2 DEF TopOf
<1>4. Reads(r, c) = Operator(r)
  BY <1>1, <1>2, <1>3, QuotesDiffer DEF Reads
<1>5. ~ Operator(r).only_words
  BY OperatorIs
<1>6. Reading(Append(cmd, c)) = Reads(r, c)
  BY <1>1, ReadingAppend
<1> QED BY <1>4, <1>5, <1>6

\* The quotes that are open are closed one after the other.
LEMMA ClosersClose ==
    ASSUME NEW C, \A x \in Quotes : Closer(x) \in C
    PROVE  \A n \in Nat : \A cmd \in Seq(C) : \A q \in Seq(Quotes) :
               Len(q) = n /\ Open(q, cmd) =>
                   OneCommand(cmd \o [i \in DOMAIN q |-> Closer(q[i])])
<1> DEFINE Closes(cmd, q) == OneCommand(cmd \o [i \in DOMAIN q |-> Closer(q[i])])
           T == {n \in Nat : \A cmd \in Seq(C) : \A q \in Seq(Quotes) :
                                 Len(q) = n /\ Open(q, cmd) => Closes(cmd, q)}
<1>1. 0 \in T
  <2> SUFFICES ASSUME NEW cmd \in Seq(C), NEW q \in Seq(Quotes), Len(q) = 0, Open(q, cmd)
               PROVE  Closes(cmd, q)
    OBVIOUS
  <2>1. q = <<>> /\ [i \in DOMAIN q |-> Closer(q[i])] = <<>>
    BY EmptySeq
  <2>2. cmd \o <<>> = cmd
    BY ConcatEmptySeq
  <2> QED BY <2>1, <2>2 DEF Open, OneCommand
<1>2. ASSUME NEW n \in Nat, n \in T
      PROVE  n + 1 \in T
  <2> SUFFICES ASSUME NEW cmd \in Seq(C), NEW q \in Seq(Quotes), Len(q) = n + 1, Open(q, cmd)
               PROVE  Closes(cmd, q)
    OBVIOUS
  <2>1. q # <<>>
    BY EmptySeq
  <2>2. /\ TopOf(q) \in Quotes /\ Head(q) = TopOf(q) /\ Head(q) = q[1]
        /\ Tail(q) \in Seq(Quotes) /\ Len(Tail(q)) = n
        /\ \A i \in 1..n : Tail(q)[i] = q[i + 1]
    BY <2>1, TopIs, HeadTailProperties
  <2>3. PICK c \in C : c = Closer(q[1])
    BY <2>2
  <2>4. PICK d \in Seq(C) : d = Append(cmd, c)
    BY AppendIs
  <2>5. Open(Tail(q), d)
    <3>1. PICK r \in Reader(C) : r = Reading(cmd)
      BY ReadingAppend
    <3>2. r.in = q /\ r.only_words /\ ~ r.esc
      BY <3>1 DEF Open
    <3>3. Reads(r, c) = Closed(r)
      BY <2>1, <2>2, <2>3, <3>2, ReadsCloser
    <3>4. Reading(d) = Reads(r, c)
      BY <2>4, <3>1, ReadingAppend
    <3>5. Closed(r).in = Tail(q) /\ Closed(r).only_words /\ ~ Closed(r).esc
      BY <2>1, <3>2, ClosedIs
    <3> QED BY <3>3, <3>4, <3>5 DEF Open
  <2>6. Closes(d, Tail(q))
    <3> HIDE DEF Closes
    <3> QED BY <1>2, <2>2, <2>5
  <2>7. d \o [i \in DOMAIN Tail(q) |-> Closer(Tail(q)[i])] =
            cmd \o [i \in DOMAIN q |-> Closer(q[i])]
    <3> DEFINE a == [i \in 1..n |-> Closer(Tail(q)[i])]
               b == [i \in 1..(n + 1) |-> Closer(q[i])]
    <3>1. DOMAIN Tail(q) = 1..n /\ DOMAIN q = 1..(n + 1)
      BY <2>2
    <3>2. a \in Seq(C) /\ Len(a) = n
      <4>1. \A i \in 1..n : Tail(q)[i] \in Quotes
        BY <2>2, ElementOfSeq
      <4>2. a \in [1..n -> C]
        BY <4>1
      <4> HIDE DEF a
      <4> QED BY <4>2
    <3>3. b \in Seq(C) /\ Len(b) = n + 1
      <4>1. \A i \in 1..(n + 1) : q[i] \in Quotes
        BY ElementOfSeq
      <4> QED BY <4>1
    <3>4. b[1] = c /\ \A i \in 1..n : b[i + 1] = a[i]
      <4>1. 1 \in 1..(n + 1) /\ \A i \in 1..n : i + 1 \in 1..(n + 1)
        OBVIOUS
      <4> QED BY <2>2, <2>3, <4>1
    <3> HIDE DEF a, b
    <3> DEFINE x == d \o a
               y == cmd \o b
    <3>5. /\ x \in Seq(C) /\ Len(x) = Len(d) + n
          /\ \A i \in 1..(Len(d) + n) : x[i] = IF i <= Len(d) THEN d[i] ELSE a[i - Len(d)]
      BY <3>2, ConcatProperties
    <3>6. /\ y \in Seq(C) /\ Len(y) = Len(cmd) + (n + 1)
          /\ \A i \in 1..(Len(cmd) + (n + 1)) :
                y[i] = IF i <= Len(cmd) THEN cmd[i] ELSE b[i - Len(cmd)]
      BY <3>3, ConcatProperties
    <3>7. /\ Len(d) = Len(cmd) + 1 /\ d[Len(cmd) + 1] = c /\ Len(cmd) \in Nat
          /\ \A i \in 1..Len(cmd) : d[i] = cmd[i]
      BY <2>4, AppendProperties
    <3> HIDE DEF x, y
    <3>8. PICK m \in Nat : m = Len(cmd)
      BY <3>7
    <3>9. ASSUME NEW i \in 1..(m + 1 + n)
          PROVE  x[i] = y[i]
      <4>1. CASE i <= m
        BY <4>1, <3>5, <3>6, <3>7, <3>8
      <4>2. CASE i = m + 1
        BY <4>2, <3>4, <3>5, <3>6, <3>7, <3>8
      <4>3. CASE i > m + 1
        <5>1. PICK j \in 1..n : i = m + 1 + j
          <6>1. i - (m + 1) \in 1..n /\ i = m + 1 + (i - (m + 1))
            BY <4>3
          <6> QED BY <6>1
        <5>2. x[i] = a[j]
          BY <4>3, <5>1, <3>5, <3>7, <3>8
        <5>3. y[i] = b[j + 1]
          BY <4>3, <5>1, <3>6, <3>7, <3>8
        <5> QED BY <5>2, <5>3, <3>4
      <4> QED BY <4>1, <4>2, <4>3
    <3>10. x = y
      <4>1. Len(x) = m + 1 + n /\ Len(y) = m + 1 + n
        BY <3>5, <3>6, <3>7, <3>8
      <4>2. \A i \in 1..Len(x) : x[i] = y[i]
        BY <3>9, <4>1
      <4> QED BY <3>5, <3>6, <4>1, <4>2, SeqEqual
    <3> QED BY <3>1, <3>10 DEF a, b, x, y
  <2> QED BY <2>6, <2>7
<1>3. \A n \in Nat : n \in T
  <2> HIDE DEF T
  <2> QED BY <1>1, <1>2, Induction
<1> QED BY <1>3

-----------------------------------------------------------------------------
(* The loop and the shell agree.                                           *)

Unflagged(s) ==
    ~ s.last_char_backslash /\ ~ s.last_char_exclamation /\ ~ s.last_char_dollar

\* The last character is c, and the shell reads what is before it plainly.
Flagged(s, c) ==
    s.command # <<>> /\ Last(s.command) = c /\ Plain(s.ql, Front(s.command))

\* The quotes the loop has on its list are those the shell is in, and the
\* flags tell which last character is still to be decided.
Agree(s) ==
    /\ s.last_char_backslash =>
          /\ ~ s.last_char_exclamation /\ ~ s.last_char_dollar
          /\ Top(s) = NoQuote /\ Flagged(s, "\\")
    /\ s.last_char_exclamation =>
          ~ s.last_char_dollar /\ Top(s) \in {NoQuote, Double} /\ Flagged(s, "!")
    /\ s.last_char_dollar => Top(s) # Single /\ Flagged(s, "$")
    /\ Unflagged(s) => Plain(s.ql, s.command)

\* The character is copied.
Copied(s, u, c) ==
    /\ u.command = Append(s.command, c)
    /\ u.ended = s.ended /\ u.skip_word = s.skip_word
    /\ ~ u.last_char_exclamation /\ ~ u.last_char_dollar

LEMMA AgreePlainly ==
    ASSUME NEW s, Unflagged(s), Plain(s.ql, s.command)
    PROVE  Agree(s)
  BY DEF Agree, Unflagged

LEMMA AgreeFlagged ==
    ASSUME NEW C, NEW s \in Sane(C), NEW b \in Seq(C), NEW c \in C,
           s.command = Append(b, c)
    PROVE  Flagged(s, c) <=> Plain(s.ql, b)
  BY AppendIs DEF Flagged

\* When the character is not quoted, no flag is set, and it is neither a
\* backslash that eludes the loop nor dealt with before.
LEMMA SpecialAgrees ==
    ASSUME NEW C, NEW s \in Sane(C), NEW c \in C, Unflagged(s), Plain(s.ql, s.command),
           Top(s) # Single, Top(s) = Paren => c \notin {"!", ";", ">"},
           c # " ", c = "\\" => Top(s) = NoQuote
    PROVE  /\ Agree(Special(s, c))
           /\ /\ Reading(Append(s.command, c)).only_words /\ c \notin {"!", "$"}
              /\ s.command # <<>> => Last(s.command) # "!"
              => Copied(s, Special(s, c), c)
<1> DEFINE q == s.ql
           cmd == s.command
           Keeps(u) == /\ Reading(Append(cmd, c)).only_words /\ c \notin {"!", "$"}
                       /\ cmd # <<>> => Last(cmd) # "!"
                       => Copied(s, u, c)
<1> SUFFICES Agree(Special(s, c)) /\ Keeps(Special(s, c))
  OBVIOUS
<1>1. /\ q \in Seq(Quotes) /\ cmd \in Seq(C) /\ Append(cmd, c) \in Seq(C)
      /\ Top(s) = TopOf(q) /\ Top(s) \in {NoQuote, Double, Paren}
  BY SaneIs, AppendIs DEF Quotes
<1>2. PICK p \in Sane(C) : /\ p = add_char(s, c)
                           /\ p = [s EXCEPT !.command = Append(s.command, c)]
  BY AddChar
<1>3. /\ p.ql = q /\ p.command = Append(cmd, c) /\ p.ended = s.ended
      /\ p.skip_word = s.skip_word /\ Unflagged(p)
  BY <1>2 DEF Sane, Unflagged
<1>4. Plain(q, Append(cmd, c)) => Agree(p) /\ Keeps(p)
  BY <1>3, AgreePlainly DEF Copied, Unflagged
<1>5. PICK k \in Sane(C) : k = Break(s)
  BY SaneIs
<1>6. Agree(k)
  <2>1. k.ql = q /\ k.command = cmd /\ Unflagged(k)
    BY <1>5 DEF Break, Sane, Unflagged
  <2> QED BY <2>1, AgreePlainly
<1>7. CASE c = "\\"
  <2>1. PICK u \in Sane(C) : u = [p EXCEPT !.last_char_backslash = TRUE]
    BY SaneIs
  <2>2. /\ u.ql = q /\ u.command = Append(cmd, c) /\ u.ended = s.ended
        /\ u.skip_word = s.skip_word /\ u.last_char_backslash
        /\ ~ u.last_char_exclamation /\ ~ u.last_char_dollar
    BY <1>3, <2>1 DEF Sane, Unflagged
  <2>3. Top(u) = NoQuote
    BY <1>7, <2>2 DEF Top
  <2>4. Flagged(u, "\\")
    BY <1>1, <1>7, <2>2, AgreeFlagged
  <2>5. Agree(u) /\ Keeps(u)
    BY <2>2, <2>3, <2>4 DEF Agree, Unflagged, Copied
  <2>6. Special(s, c) = u
    BY <1>2, <1>7, <2>1, QuotesDiffer DEF Special
  <2> QED BY <2>5, <2>6
<1>8. CASE \/ c = "\"" /\ Top(s) = Double
           \/ c = ")" /\ Top(s) = Paren
  <2>1. /\ s.ql # <<>> /\ Head(s.ql) = Top(s) /\ Closer(Head(s.ql)) = c
    BY <1>8, SaneIs, QuotesDiffer
  <2>2. PICK u \in Sane(C) :
           /\ u = ql_pop(s)
           /\ u = [s EXCEPT !.ql = Tail(s.ql), !.command = Append(s.command, Closer(Head(s.ql)))]
    BY <2>1, QlPop
  <2>3. /\ u.ql = Tail(q) /\ u.command = Append(cmd, c) /\ u.ended = s.ended
        /\ u.skip_word = s.skip_word /\ Unflagged(u)
    BY <2>1, <2>2 DEF Sane, Unflagged
  <2>4. Plain(Tail(q), Append(cmd, c))
    BY <1>1, <2>1, ReadsClosing
  <2>5. Agree(u) /\ Keeps(u)
    BY <2>3, <2>4, AgreePlainly DEF Unflagged, Copied
  <2>6. Special(s, c) = u
    BY <1>8, <2>2, QuotesDiffer DEF Special, Unflagged
  <2> QED BY <2>5, <2>6
<1>9. CASE /\ Top(s) # Double /\ c \in {"\"", "'", "("}
           /\ c = "(" => last_char(s, "?")
  <2>1. c \in Quotes
    BY <1>9, QuotesDiffer
  <2>2. PICK u \in Sane(C) :
           /\ u = ql_push(s, c)
           /\ u = [s EXCEPT !.ql = <<c>> \o s.ql, !.command = Append(s.command, c)]
    <3>1. c \in C \cap Quotes
      BY <2>1
    <3> QED BY <3>1, QlPush
  <2>3. /\ u.ql = <<c>> \o q /\ u.command = Append(cmd, c) /\ u.ended = s.ended
        /\ u.skip_word = s.skip_word /\ Unflagged(u)
    BY <2>2 DEF Sane, Unflagged
  <2>4. c = "(" => Reading(cmd).opener
    BY <1>1, <1>9, QuotesDiffer DEF Plain, last_char
  <2>5. Plain(<<c>> \o q, Append(cmd, c))
    BY <1>1, <1>9, <2>1, <2>4, ReadsOpening
  <2>6. Agree(u) /\ Keeps(u)
    BY <2>3, <2>5, AgreePlainly DEF Unflagged, Copied
  <2>7. Special(s, c) = u
    BY <1>9, <2>2, QuotesDiffer DEF Special, Unflagged
  <2> QED BY <2>6, <2>7
<1>10. CASE Top(s) # Double /\ c = "(" /\ ~ last_char(s, "?")
  <2>1. Special(s, c) = k
    BY <1>5, <1>10, QuotesDiffer DEF Special, Unflagged
  <2>2. Reading(cmd).opener => cmd # <<>> /\ Last(cmd) = "!"
    BY <1>10 DEF Plain, last_char
  <2>3. ~ Reading(cmd).opener => ~ Reading(Append(cmd, c)).only_words
    BY <1>1, <1>10, ReadsOperator
  <2> QED BY <1>6, <2>1, <2>2, <2>3
<1>11. CASE c = "$"
  <2>1. PICK u \in Sane(C) : u = [p EXCEPT !.last_char_dollar = TRUE]
    BY SaneIs
  <2>2. /\ u.ql = q /\ u.command = Append(cmd, c) /\ u.last_char_dollar
        /\ ~ u.last_char_exclamation /\ ~ u.last_char_backslash
    BY <1>3, <2>1 DEF Sane, Unflagged
  <2>3. Top(u) # Single
    BY <2>2 DEF Top
  <2>4. Flagged(u, "$")
    BY <1>1, <1>11, <2>2, AgreeFlagged
  <2>5. Agree(u)
    BY <2>2, <2>3, <2>4 DEF Agree, Unflagged
  <2>6. Special(s, c) = u
    BY <1>2, <1>11, <2>1, QuotesDiffer DEF Special
  <2> QED BY <1>11, <2>5, <2>6
<1>12. CASE c = "!"
  <2>1. PICK u \in Sane(C) : u = [p EXCEPT !.last_char_exclamation = TRUE]
    BY SaneIs
  <2>2. /\ u.ql = q /\ u.command = Append(cmd, c) /\ u.last_char_exclamation
        /\ ~ u.last_char_dollar /\ ~ u.last_char_backslash
    BY <1>3, <2>1 DEF Sane, Unflagged
  <2>3. Top(u) \in {NoQuote, Double}
    BY <1>1, <1>12, <2>2 DEF Top
  <2>4. Flagged(u, "!")
    BY <1>1, <1>12, <2>2, AgreeFlagged
  <2>5. Agree(u)
    BY <2>2, <2>3, <2>4 DEF Agree, Unflagged
  <2>6. Special(s, c) = u
    BY <1>2, <1>12, <2>1, QuotesDiffer DEF Special
  <2> QED BY <1>12, <2>5, <2>6
<1>13. CASE \/ c = "tick"
            \/ Top(s) = NoQuote /\ c = ";"
  <2>1. Special(s, c) = k
    BY <1>5, <1>13, QuotesDiffer DEF Special
  <2>2. ~ Reading(Append(cmd, c)).only_words
    BY <1>1, <1>13, ReadsOperator
  <2> QED BY <1>6, <2>1, <2>2
<1>14. CASE Top(s) = NoQuote /\ c = ")"
  <2>1. Special(s, c) = s
    BY <1>14, QuotesDiffer DEF Special
  <2>2. ~ Reading(Append(cmd, c)).only_words
    BY <1>1, <1>14, ReadsOperator
  <2>3. Agree(s)
    BY AgreePlainly
  <2> QED BY <2>1, <2>2, <2>3
<1>15. CASE Top(s) = NoQuote /\ c = ">"
  <2>1. PICK u \in Sane(C) : u = Break(delete_current_word(s))
    BY SaneIs
  <2>2. u.ql = q /\ u.command = <<>> /\ Unflagged(u)
    BY <2>1 DEF Break, delete_current_word, Sane, Unflagged
  <2>3. q = <<>>
    BY <1>1, <1>15, TopIs
  <2>4. Agree(u)
    BY <2>2, <2>3, PlainEmpty, AgreePlainly
  <2>5. Special(s, c) = u
    BY <1>15, <2>1, QuotesDiffer DEF Special
  <2>6. ~ Reading(Append(cmd, c)).only_words
    BY <1>1, <1>15, ReadsOperator
  <2> QED BY <2>4, <2>5, <2>6
<1>16. CASE \/ Top(s) = Double /\ c \notin {"\\", "$", "tick", "\"", "!"}
            \/ Top(s) = Paren /\ c \notin Meta \cup {";", ">"}
            \/ Top(s) = NoQuote /\ c \notin Meta \cup {";", ">"}
            \/ Top(s) # Double /\ c = "?"
  <2>1. Plain(q, Append(cmd, c))
    <3>1. CASE Top(s) # Double /\ c = "?"
      BY <1>1, <3>1, ReadsWildcard
    <3>2. CASE ~ (Top(s) # Double /\ c = "?")
      BY <1>1, <1>16, <3>2, ReadsLiteral
    <3> QED BY <3>1, <3>2
  <2>2. Special(s, c) = p
    BY <1>1, <1>2, <1>16, QuotesDiffer DEF Special, Meta, Unflagged
  <2> QED BY <1>4, <2>1, <2>2
<1>17. \/ c = "\\"
       \/ c = "\"" /\ Top(s) = Double
       \/ c = ")" /\ Top(s) = Paren
       \/ /\ Top(s) # Double /\ c \in {"\"", "'", "("}
          /\ c = "(" => last_char(s, "?")
       \/ Top(s) # Double /\ c = "(" /\ ~ last_char(s, "?")
       \/ c = "$"
       \/ c = "!"
       \/ c = "tick"
       \/ Top(s) = NoQuote /\ c = ";"
       \/ Top(s) = NoQuote /\ c = ")"
       \/ Top(s) = NoQuote /\ c = ">"
       \/ Top(s) = Double /\ c \notin {"\\", "$", "tick", "\"", "!"}
       \/ Top(s) = Paren /\ c \notin Meta \cup {";", ">"}
       \/ Top(s) = NoQuote /\ c \notin Meta \cup {";", ">"}
       \/ Top(s) # Double /\ c = "?"
  <2>1. CASE Top(s) = Double
    BY <2>1
  <2>2. CASE Top(s) = Paren
    BY <2>2, QuotesDiffer DEF Meta
  <2>3. CASE Top(s) = NoQuote
    BY <2>3, QuotesDiffer DEF Meta
  <2> QED BY <1>1, <2>1, <2>2, <2>3
<1> HIDE DEF Keeps
<1> QED
  BY <1>7, <1>8, <1>9, <1>10, <1>11, <1>12, <1>13, <1>14, <1>15, <1>16, <1>17

\* A space, when nothing is escaped.
LEMMA SpaceAgrees ==
    ASSUME NEW C, NEW s \in Sane(C), " " \in C, Open(s.ql, s.command), Top(s) # Single,
           ~ s.last_char_dollar
    PROVE  Agree(Char(s, " ")) /\ Copied(s, Char(s, " "), " ")
<1>1. PICK t \in Sane(C) : t = [s EXCEPT !.last_char_exclamation = FALSE, !.last_char_backslash = FALSE]
  BY DEF Sane
<1>2. PICK u \in Sane(C) : u = add_char(t, " ") /\ u = [t EXCEPT !.command = Append(t.command, " ")]
  BY AddChar
<1>3. /\ u.ql = s.ql /\ u.command = Append(s.command, " ") /\ u.ended = s.ended
      /\ u.skip_word = s.skip_word /\ Unflagged(u)
  BY <1>1, <1>2 DEF Sane, Unflagged
<1>4. Char(s, " ") = u
  BY <1>1, <1>2 DEF Char, Return
<1>5. Plain(s.ql, Append(s.command, " "))
  BY SaneIs, ReadsSpace
<1> QED BY <1>3, <1>4, <1>5, AgreePlainly DEF Copied, Unflagged

\* What comes after a backslash outside quotes.
LEMMA EscapedAgrees ==
    ASSUME NEW C, NEW s \in Sane(C), NEW c \in C \ {"?"}, Agree(s), s.last_char_backslash
    PROVE  /\ Agree(Char(s, c))
           /\ c # Return => Copied(s, Char(s, c), c)
<1>1. /\ ~ s.last_char_exclamation /\ ~ s.last_char_dollar
      /\ Top(s) = NoQuote /\ Flagged(s, "\\")
  BY DEF Agree
<1>2. CASE c = Return
  <2>1. Char(s, c) = s
    BY <1>2 DEF Char
  <2> QED BY <1>2, <2>1
<1>3. CASE c # Return
  <2>1. s.command \in Seq(C) /\ s.ql \in Seq(Quotes) /\ TopOf(s.ql) = NoQuote
    BY <1>1, SaneIs
  <2>2. PICK b \in Seq(C) : b = Front(s.command) /\ s.command = Append(b, "\\") /\ "\\" \in C
    BY <1>1, <2>1, FrontIs DEF Flagged
  <2>3. Plain(s.ql, Append(s.command, c))
    BY <1>1, <2>1, <2>2, ReadsEscaped DEF Flagged
  <2>4. PICK t \in Sane(C) : t = [s EXCEPT !.last_char_backslash = FALSE]
    BY SaneIs
  <2>5. PICK u \in Sane(C) : u = add_char(t, c) /\ u = [t EXCEPT !.command = Append(t.command, c)]
    BY AddChar
  <2>6. /\ u.ql = s.ql /\ u.command = Append(s.command, c) /\ u.ended = s.ended
        /\ u.skip_word = s.skip_word /\ Unflagged(u)
    BY <1>1, <2>4, <2>5 DEF Sane, Unflagged
  <2>7. [s EXCEPT !.last_char_exclamation = FALSE, !.last_char_backslash = FALSE] = t
    BY <1>1, <2>4 DEF Sane
  <2>8. Char(s, c) = u
    BY <1>1, <1>3, <2>4, <2>5, <2>7, QuotesDiffer DEF Char
  <2> QED BY <2>3, <2>6, <2>8, AgreePlainly DEF Copied, Unflagged
<1> QED BY <1>2, <1>3

\* Any character when no flag is set.
LEMMA CharAgrees ==
    ASSUME NEW C, NEW s \in Sane(C), NEW c \in C, Unflagged(s), Plain(s.ql, s.command),
           c = "\\" => Top(s) \notin {Double, Paren}
    PROVE  /\ Agree(Char(s, c))
           /\ /\ Reading(Append(s.command, c)).only_words /\ c \notin {"!", "$", Return}
              /\ s.command # <<>> => Last(s.command) # "!"
              => Copied(s, Char(s, c), c)
<1>1. /\ s.ql \in Seq(Quotes) /\ s.command \in Seq(C)
      /\ Top(s) = TopOf(s.ql) /\ Top(s) \in {NoQuote, Single, Double, Paren}
  BY SaneIs DEF Quotes
<1>2. Agree(s)
  BY AgreePlainly
<1>3. PICK p \in Sane(C) : /\ p = add_char(s, c)
                           /\ p = [s EXCEPT !.command = Append(s.command, c)]
  BY AddChar
<1>4. /\ p.ql = s.ql /\ p.command = Append(s.command, c) /\ p.ended = s.ended
      /\ p.skip_word = s.skip_word /\ Unflagged(p)
  BY <1>3 DEF Sane, Unflagged
<1>5. Plain(s.ql, Append(s.command, c)) => Agree(p) /\ Copied(s, p, c)
  BY <1>4, AgreePlainly DEF Copied, Unflagged
<1>6. CASE c = Return
  <2>1. Char(s, c) = s
    BY <1>6 DEF Char
  <2> QED BY <1>2, <1>6, <2>1
<1>7. CASE c # Return /\ Top(s) = Single /\ c = "'"
  <2>1. /\ s.ql # <<>> /\ Head(s.ql) = Top(s) /\ Closer(Head(s.ql)) = c
    BY <1>7, SaneIs, QuotesDiffer
  <2>2. PICK u \in Sane(C) :
           /\ u = ql_pop(s)
           /\ u = [s EXCEPT !.ql = Tail(s.ql), !.command = Append(s.command, Closer(Head(s.ql)))]
    BY <2>1, QlPop
  <2>3. /\ u.ql = Tail(s.ql) /\ u.command = Append(s.command, c) /\ u.ended = s.ended
        /\ u.skip_word = s.skip_word /\ Unflagged(u)
    BY <2>1, <2>2 DEF Sane, Unflagged
  <2>4. Plain(Tail(s.ql), Append(s.command, c))
    BY <1>1, <2>1, ReadsClosing
  <2>5. Agree(u) /\ Copied(s, u, c)
    BY <2>3, <2>4, AgreePlainly DEF Unflagged, Copied
  <2>6. Char(s, c) = u
    BY <1>7, <2>2, QuotesDiffer DEF Char
  <2> QED BY <2>5, <2>6
<1>8. CASE c # Return /\ Top(s) = Single /\ c # "'"
  <2>1. Char(s, c) = p
    BY <1>3, <1>8, QuotesDiffer DEF Char
  <2>2. Plain(s.ql, Append(s.command, c))
    BY <1>1, <1>8, ReadsLiteral
  <2> QED BY <1>5, <2>1, <2>2
<1>9. CASE Top(s) # Single /\ c = " "
  <2>1. Open(s.ql, s.command)
    BY DEF Plain, Open
  <2>2. ~ s.last_char_dollar
    BY DEF Unflagged
  <2> QED BY <1>9, <2>1, <2>2, SpaceAgrees
<1>10. CASE c # Return /\ Top(s) = Paren /\ c = "!"
  <2>1. Char(s, c) = s
    BY <1>10, QuotesDiffer DEF Char
  <2> QED BY <1>2, <1>10, <2>1
<1>11. CASE c # Return /\ Top(s) = Paren /\ c \in {";", ">"}
  <2>1. Char(s, c) = p
    BY <1>3, <1>11, QuotesDiffer DEF Char
  <2>2. Plain(s.ql, Append(s.command, c))
    BY <1>1, <1>11, ReadsLiteral, QuotesDiffer DEF Meta
  <2> QED BY <1>5, <2>1, <2>2
<1>12. CASE /\ c # Return /\ Top(s) # Single /\ c # " "
            /\ Top(s) = Paren => c \notin {"!", ";", ">"}
  <2>1. Char(s, c) = Special(s, c)
    BY <1>12, QuotesDiffer DEF Char, Unflagged
  <2>2. c = "\\" => Top(s) = NoQuote
    BY <1>1, <1>12
  <2> QED BY <1>12, <2>1, <2>2, SpecialAgrees
<1> QED BY <1>1, <1>6, <1>7, <1>8, <1>9, <1>10, <1>11, <1>12 DEF Return

\* After an exclamation mark, where only a space and an opener count.
LEMMA OpenerAgrees ==
    ASSUME NEW C, NEW s \in Sane(C), "(" \in C, Agree(s), s.last_char_exclamation
    PROVE  Agree(Char(s, "("))
<1>1. /\ ~ s.last_char_backslash /\ ~ s.last_char_dollar
      /\ Top(s) \in {NoQuote, Double} /\ Flagged(s, "!")
  BY DEF Agree
<1>2. s.command \in Seq(C) /\ s.ql \in Seq(Quotes) /\ Top(s) = TopOf(s.ql)
  BY SaneIs
<1>3. PICK b \in Seq(C) : /\ b = Front(s.command) /\ s.command = Append(b, "!") /\ "!" \in C
                          /\ Plain(s.ql, b) /\ s.command # <<>>
  BY <1>1, <1>2, FrontIs DEF Flagged
<1>4. PICK t \in Sane(C) : t = [s EXCEPT !.last_char_exclamation = FALSE]
  BY SaneIs
<1>5. t.ql = s.ql /\ t.command = s.command /\ Unflagged(t)
  BY <1>1, <1>4 DEF Sane, Unflagged
<1>6. Char(s, "(") = Special(s, "(")
  BY <1>1, QuotesDiffer DEF Char, Return
<1>7. CASE Top(s) = Double
  <2>1. Special(s, "(") = Break(backspace(t))
    BY <1>4, <1>7, QuotesDiffer DEF Special
  <2>2. PICK u \in Sane(C) : u = backspace(t) /\ u = [t EXCEPT !.command = Front(t.command)]
    BY <1>3, <1>5, Backspace
  <2>3. Break(u).ql = s.ql /\ Break(u).command = b /\ Unflagged(Break(u))
    BY <1>3, <1>5, <2>2 DEF Break, Sane, Unflagged
  <2> QED BY <1>3, <1>6, <2>1, <2>2, <2>3, AgreePlainly
<1>8. CASE Top(s) = NoQuote
  <2>1. Special(s, "(") = ql_push(t, "(")
    BY <1>4, <1>8, QuotesDiffer DEF Special
  <2>2. PICK u \in Sane(C) :
           /\ u = ql_push(t, "(")
           /\ u = [t EXCEPT !.ql = <<"(">> \o t.ql, !.command = Append(t.command, "(")]
    <3>1. "(" \in C \cap Quotes
      BY QuotesDiffer
    <3> QED BY <3>1, QlPush
  <2>3. u.ql = <<"(">> \o s.ql /\ u.command = Append(s.command, "(") /\ Unflagged(u)
    BY <1>5, <2>2, ZenonT(60) DEF Sane, Unflagged
  <2>4. Plain(<<"(">> \o s.ql, Append(s.command, "("))
    BY <1>2, <1>3, <1>8, ReadsExclamation, QuotesDiffer
  <2> QED BY <1>6, <2>1, <2>2, <2>3, <2>4, AgreePlainly
<1> QED BY <1>1, <1>7, <1>8

\* One turn of the loop.
LEMMA TurnAgrees ==
    ASSUME NEW C, NEW s \in Sane(C), NEW c \in C, Agree(s),
           c = "\\" => Top(s) \notin {Double, Paren},
           c = "?" => ~ s.last_char_backslash
    PROVE  /\ Agree(Turn(s, c))
           /\ /\ Reading(Append(s.command, c)).only_words /\ c \notin {"!", "$", Return}
              /\ s.command # <<>> => Last(s.command) # "!"
              /\ ~ s.ended /\ ~ s.skip_word
              /\ ~ s.last_char_exclamation /\ ~ s.last_char_dollar
              => Copied(s, Turn(s, c), c)
<1>1. s.command \in Seq(C) /\ s.ql \in Seq(Quotes) /\ Top(s) = TopOf(s.ql)
  BY SaneIs
<1>2. PICK t \in Sane(C) : t = [s EXCEPT !.last_char_dollar = FALSE, !.skip_word = FALSE]
  BY DEF Sane
<1>3. /\ t.ql = s.ql /\ t.command = s.command /\ t.ended = s.ended
      /\ ~ t.last_char_dollar /\ ~ t.skip_word
      /\ t.last_char_exclamation = s.last_char_exclamation
      /\ t.last_char_backslash = s.last_char_backslash
  BY <1>2 DEF Sane
<1>4. Top(t) = Top(s)
  BY <1>3 DEF Top
<1>5. CASE s.ended
  <2>1. Turn(s, c) = s
    BY <1>5 DEF Turn
  <2> QED BY <1>5, <2>1
<1>6. CASE ~ s.ended /\ s.last_char_exclamation
  <2>1. /\ ~ s.last_char_backslash /\ ~ s.last_char_dollar
        /\ Top(s) \in {NoQuote, Double} /\ Flagged(s, "!")
    BY <1>6 DEF Agree
  <2>2. PICK b \in Seq(C) : /\ b = Front(s.command) /\ s.command = Append(b, "!") /\ "!" \in C
                            /\ Plain(s.ql, b) /\ s.command # <<>>
    BY <1>1, <2>1, FrontIs DEF Flagged
  <2>3. CASE c \notin {"(", " "}
    <3>1. PICK u \in Sane(C) : u = backspace(s) /\ u = [s EXCEPT !.command = Front(s.command)]
      BY <2>2, Backspace
    <3>2. PICK v \in Sane(C) : v = [u EXCEPT !.skip_word = TRUE, !.last_char_exclamation = FALSE]
      BY DEF Sane
    <3>3. v.ql = s.ql /\ v.command = b /\ Unflagged(v)
      BY <2>1, <2>2, <3>1, <3>2 DEF Sane, Unflagged
    <3>4. Turn(s, c) = v
      BY <1>6, <2>3, <3>1, <3>2 DEF Turn
    <3> QED BY <1>6, <2>2, <3>3, <3>4, AgreePlainly
  <2>4. CASE c = " "
    <3>1. Open(t.ql, t.command)
      BY <1>1, <1>3, <2>1, <2>2, ReadsExclamation
    <3>2. Agree(Char(t, " "))
      BY <1>3, <1>4, <2>1, <2>4, <3>1, SpaceAgrees, QuotesDiffer
    <3>3. Turn(s, c) = Char(t, c)
      BY <1>2, <1>6, <2>1, <2>4 DEF Turn
    <3> QED BY <1>6, <2>4, <3>2, <3>3
  <2>5. CASE c = "("
    <3>1. CASE s.skip_word
      <4>1. Turn(s, c) = s
        BY <1>6, <2>1, <2>5, <3>1 DEF Turn
      <4> QED BY <1>6, <4>1
    <3>2. CASE ~ s.skip_word
      <4>1. t = s
        BY <1>2, <2>1, <3>2 DEF Sane
      <4>2. Turn(s, c) = Char(s, c)
        BY <1>2, <1>6, <2>1, <2>5, <3>2, <4>1 DEF Turn
      <4> QED BY <1>6, <2>5, <4>2, OpenerAgrees
    <3> QED BY <3>1, <3>2
  <2> QED BY <2>3, <2>4, <2>5
<1>7. CASE ~ s.ended /\ ~ s.last_char_exclamation /\ s.last_char_dollar
  <2>1. ~ s.last_char_backslash /\ Top(s) # Single /\ Flagged(s, "$")
    BY <1>7 DEF Agree
  <2>2. PICK b \in Seq(C) : /\ b = Front(s.command) /\ s.command = Append(b, "$") /\ "$" \in C
                            /\ Plain(s.ql, b) /\ s.command # <<>>
    BY <1>1, <2>1, FrontIs DEF Flagged
  <2>3. CASE c # " "
    <3>1. PICK u \in Sane(C) : u = backspace(s) /\ u = [s EXCEPT !.command = Front(s.command)]
      BY <2>2, Backspace
    <3>2. PICK v \in Sane(C) : v = [u EXCEPT !.last_char_dollar = FALSE]
      BY DEF Sane
    <3>3. Break(v).ql = s.ql /\ Break(v).command = b /\ Unflagged(Break(v))
      BY <1>7, <2>1, <2>2, <3>1, <3>2 DEF Break, Sane, Unflagged
    <3>4. Turn(s, c) = Break(v)
      BY <1>7, <2>3, <3>1, <3>2 DEF Turn
    <3> QED BY <1>7, <2>2, <3>3, <3>4, AgreePlainly
  <2>4. CASE c = " "
    <3>1. Open(t.ql, t.command)
      BY <1>1, <1>3, <2>1, <2>2, ReadsDollar
    <3>2. Agree(Char(t, " "))
      BY <1>3, <1>4, <2>1, <2>4, <3>1, SpaceAgrees
    <3>3. Turn(s, c) = Char(t, c)
      BY <1>2, <1>7, <2>4 DEF Turn
    <3> QED BY <1>7, <2>4, <3>2, <3>3
  <2> QED BY <2>3, <2>4
<1>8. CASE ~ s.ended /\ ~ s.last_char_exclamation /\ ~ s.last_char_dollar
  <2>1. CASE s.skip_word /\ c # " "
    <3>1. Turn(s, c) = s
      BY <1>8, <2>1 DEF Turn
    <3> QED BY <2>1, <3>1
  <2>2. CASE ~ (s.skip_word /\ c # " ")
    <3>1. Turn(s, c) = Char(t, c)
      BY <1>2, <1>8, <2>2 DEF Turn
    <3>2. Copied(t, Char(t, c), c) /\ ~ s.skip_word => Copied(s, Char(t, c), c)
      BY <1>2, <1>3 DEF Copied, Sane
    <3>3. CASE s.last_char_backslash
      <4>1. Agree(t)
        BY <1>3, <1>4, <1>8, <3>3 DEF Agree, Flagged, Unflagged
      <4> QED BY <1>3, <3>1, <3>2, <3>3, <4>1, EscapedAgrees
    <3>4. CASE ~ s.last_char_backslash
      <4>1. Unflagged(t) /\ Plain(t.ql, t.command)
        BY <1>3, <1>8, <3>4 DEF Agree, Unflagged
      <4>2. /\ Agree(Char(t, c))
            /\ /\ Reading(Append(s.command, c)).only_words /\ c \notin {"!", "$", Return}
               /\ s.command # <<>> => Last(s.command) # "!"
               => Copied(t, Char(t, c), c)
        BY <1>3, <1>4, <4>1, CharAgrees
      <4> QED BY <3>1, <3>2, <4>2
    <3> QED BY <3>3, <3>4
  <2> QED BY <2>1, <2>2
<1> QED BY <1>5, <1>6, <1>7, <1>8

\* From the beginning of the line to its end.
LEMMA LoopAgrees ==
    ASSUME NEW C, NEW line \in Seq(C), ~ Eludes(line)
    PROVE  /\ Agree(Loop(line))
           /\ Reading(line).only_words /\ ToSet(line) \cap {"!", "$", Return} = {} =>
                 Loop(line).command = line /\ ~ Loop(line).last_char_exclamation
<1> DEFINE n == Len(line)
           before(k) == SubSeq(line, 1, k)
           Exact(k) == LET s == Loop(before(k))
                       IN /\ s.command = before(k)
                          /\ ~ s.ended /\ ~ s.skip_word
                          /\ ~ s.last_char_exclamation /\ ~ s.last_char_dollar
           T == {k \in 0..n : /\ Agree(Loop(before(k)))
                              /\ Reading(before(k)).only_words
                                 /\ ToSet(line) \cap {"!", "$", Return} = {} => Exact(k)}
<1>1. /\ n \in Nat /\ before(0) = <<>> /\ before(n) = line
      /\ \A k \in 0..n : before(k) \in Seq(C)
      /\ \A k \in 1..n : before(k) = Append(before(k - 1), line[k])
  BY PrefixIs
<1>2. /\ Clean.ql = <<>> /\ Clean.command = <<>> /\ Unflagged(Clean)
      /\ ~ Clean.ended /\ ~ Clean.skip_word
      /\ ~ Clean.last_char_exclamation /\ ~ Clean.last_char_dollar
  BY DEF Clean, Unflagged
<1>3. Agree(Clean)
  BY <1>2, PlainEmpty, AgreePlainly
<1>4. 0 \in T
  <2>1. Loop(before(0)) = Clean
    BY <1>1, LoopEmpty
  <2>2. Exact(0)
    BY <1>1, <1>2, <2>1
  <2>3. 0 \in 0..n /\ Agree(Loop(before(0)))
    BY <1>1, <1>3, <2>1
  <2> HIDE DEF Exact, before
  <2> QED BY <2>2, <2>3
<1>5. ASSUME NEW k \in 1..n, k - 1 \in T
      PROVE  k \in T
  <2>1. k - 1 \in 0..n /\ k \in 0..n /\ line[k] \in C /\ line[k] \in ToSet(line)
    <3>1. k \in DOMAIN line
      BY <1>1
    <3> QED BY <1>1, <3>1 DEF ToSet
  <2>2. PICK c \in C : c = line[k]
    BY <2>1
  <2>3. PICK cmd \in Seq(C) : cmd = before(k - 1)
    BY <1>1, <2>1
  <2>4. before(k) = Append(cmd, c)
    BY <1>1, <2>2, <2>3
  <2>5. PICK s \in Sane(C) : s = Loop(cmd) /\ Loop(before(k)) = Turn(s, c)
    BY <2>3, <2>4, LoopAppend
  <2>6. /\ c = "\\" => Top(s) \notin {Double, Paren}
        /\ c = "?" => ~ s.last_char_backslash
    <3>1. k \in DOMAIN line
      BY <1>1
    <3> QED BY <2>2, <2>3, <2>5, <3>1 DEF Eludes
  <2>7. Agree(s)
    BY <1>5, <2>3, <2>5
  <2>8. Agree(Turn(s, c))
    BY <2>6, <2>7, TurnAgrees
  <2>9. ASSUME Reading(before(k)).only_words, ToSet(line) \cap {"!", "$", Return} = {}
        PROVE  Exact(k)
    <3>1. Reading(cmd).only_words
      <4>1. Reading(before(k)) = Reads(Reading(cmd), c) /\ Reading(cmd) \in Reader(C)
        BY <2>3, <2>4, ReadingAppend
      <4> QED BY <2>9, <4>1, ReadsType, SMTT(30)
    <3>2. Exact(k - 1)
      BY <1>5, <2>3, <2>9, <3>1
    <3>3. /\ s.command = cmd /\ ~ s.ended /\ ~ s.skip_word
          /\ ~ s.last_char_exclamation /\ ~ s.last_char_dollar
      BY <2>3, <2>5, <3>2
    <3>4. c \notin {"!", "$", Return}
      BY <2>1, <2>2, <2>9
    <3>5. cmd # <<>> => Last(cmd) # "!"
      <4> SUFFICES ASSUME cmd # <<>> PROVE Last(cmd) # "!"
        OBVIOUS
      <4>1. PICK j \in Nat : j = k - 1
        BY <1>1
      <4>2. j # 0
        BY <1>1, <2>3, <4>1
      <4>3. j \in 1..n /\ j \in 0..n
        BY <1>1, <4>1, <4>2
      <4>4. cmd = Append(before(j - 1), line[j]) /\ before(j - 1) \in Seq(C) /\ line[j] \in C
        <5>1. j - 1 \in 0..n
          BY <4>3
        <5> QED BY <1>1, <2>3, <4>1, <4>3, <5>1
      <4>5. Last(cmd) = line[j]
        BY <4>4, AppendIs, ZenonT(60)
      <4>6. line[j] \in ToSet(line)
        <5>1. j \in DOMAIN line
          BY <1>1, <4>3
        <5> QED BY <5>1 DEF ToSet
      <4> QED BY <2>9, <4>5, <4>6
    <3>6. Copied(s, Turn(s, c), c)
      BY <2>4, <2>6, <2>7, <2>9, <3>3, <3>4, <3>5, TurnAgrees
    <3> QED BY <2>4, <2>5, <3>3, <3>6 DEF Copied
  <2> HIDE DEF Exact
  <2> QED BY <2>1, <2>5, <2>8, <2>9
<1>6. \A k \in 0..n : k \in T
  <2> HIDE DEF T, n
  <2> QED BY <1>1, <1>4, <1>5, BoundedInduction
<1>7. n \in T
  BY <1>1, <1>6
<1> QED BY <1>1, <1>7

\* What is given is what the shell would read once it is complete.
LEMMA FinishedIs ==
    ASSUME NEW C, \A x \in Quotes : Closer(x) \in C, NEW s \in Sane(C), Agree(s)
    PROVE  OneCommand(Finished(s))
<1>1. s.command \in Seq(C) /\ s.ql \in Seq(Quotes) /\ Top(s) = TopOf(s.ql)
  BY SaneIs
<1>2. \A cmd \in Seq(C) : Open(s.ql, cmd) =>
          OneCommand(cmd \o [i \in DOMAIN s.ql |-> Closer(s.ql[i])])
  <2>1. Len(s.ql) \in Nat
    BY <1>1
  <2> QED BY <1>1, <2>1, ClosersClose
<1> DEFINE drop == s.last_char_backslash \/ (s.last_char_exclamation /\ s.ql # <<>>)
<1>3. CASE drop
  <2>1. s.command # <<>> /\ Plain(s.ql, Front(s.command))
    BY <1>3 DEF Agree, Flagged
  <2>2. backspace(s).ql = s.ql /\ backspace(s).command = Front(s.command)
    BY <2>1 DEF backspace, Sane
  <2>3. Front(s.command) \in Seq(C) /\ Open(s.ql, Front(s.command))
    BY <1>1, <2>1, FrontIs DEF Plain, Open
  <2>4. Finished(s) = Front(s.command) \o [i \in DOMAIN s.ql |-> Closer(s.ql[i])]
    BY <1>3, <2>2 DEF Finished
  <2> QED BY <1>2, <2>3, <2>4
<1>4. CASE ~ drop
  <2>1. Finished(s) = s.command \o [i \in DOMAIN s.ql |-> Closer(s.ql[i])]
    BY <1>4 DEF Finished
  <2>2. Open(s.ql, s.command)
    <3>1. CASE Unflagged(s)
      BY <3>1 DEF Agree, Plain, Open
    <3>2. CASE s.last_char_exclamation
      <4>1. Top(s) \in {NoQuote, Double} /\ Flagged(s, "!")
        BY <3>2 DEF Agree
      <4>2. PICK b \in Seq(C) : Plain(s.ql, b) /\ s.command = Append(b, "!") /\ "!" \in C
        BY <1>1, <4>1, FrontIs DEF Flagged
      <4> QED BY <1>1, <4>1, <4>2, ReadsExclamation
    <3>3. CASE s.last_char_dollar
      <4>1. Top(s) # Single /\ Flagged(s, "$")
        BY <3>3 DEF Agree
      <4>2. PICK b \in Seq(C) : Plain(s.ql, b) /\ s.command = Append(b, "$") /\ "$" \in C
        BY <1>1, <4>1, FrontIs DEF Flagged
      <4> QED BY <1>1, <4>1, <4>2, ReadsDollar
    <3> QED BY <1>4, <3>1, <3>2, <3>3 DEF Unflagged
  <2> QED BY <1>1, <1>2, <2>1, <2>2
<1> QED BY <1>3, <1>4

\* Whatever the line and its characters: unless it eludes the loop, what is
\* left of it is one complete command of words only, and a line that is one
\* already, without history expansion and "$", is left as it is
\* (sanitize, src/vgseer/sanitize.c).
THEOREM OneCommandGiven ==
    ASSUME NEW line \in Seq(Characters), ~ Eludes(line)
    PROVE  /\ OneCommand(sanitize(line))
           /\ OneCommand(line) /\ ToSet(line) \cap {"!", "$", Return} = {} => sanitize(line) = line
<1>1. PICK C : C = Characters \cup {Closer(x) : x \in Quotes}
  OBVIOUS
<1>2. line \in Seq(C) /\ \A x \in Quotes : Closer(x) \in C
  <2>1. Len(line) \in Nat /\ \A i \in 1..Len(line) : line[i] \in C
    BY <1>1
  <2> QED BY <1>1, <2>1
<1>3. PICK s \in Sane(C) : s = Loop(line)
  BY <1>2, LoopType
<1>4. Agree(s)
  BY <1>2, <1>3, LoopAgrees
<1>5. OneCommand(sanitize(line))
  BY <1>2, <1>3, <1>4, FinishedIs DEF sanitize
<1>6. ASSUME OneCommand(line), ToSet(line) \cap {"!", "$", Return} = {}
      PROVE  sanitize(line) = line
  <2>1. Reading(line).in = <<>> /\ ~ Reading(line).esc /\ Reading(line).only_words
    BY <1>6 DEF OneCommand
  <2>2. s.command = line /\ ~ s.last_char_exclamation
    BY <1>2, <1>3, <1>6, <2>1, LoopAgrees
  <2>3. s.ql \in Seq(Quotes) /\ Top(s) = TopOf(s.ql)
    BY SaneIs
  <2>4. ~ s.last_char_backslash
    <3> SUFFICES ASSUME s.last_char_backslash PROVE FALSE
      OBVIOUS
    <3>1. Top(s) = NoQuote /\ Flagged(s, "\\")
      BY <1>4 DEF Agree
    <3>2. PICK b \in Seq(C) : Plain(s.ql, b) /\ line = Append(b, "\\") /\ "\\" \in C
      BY <1>2, <2>2, <3>1, FrontIs DEF Flagged
    <3>3. Reading(line).esc
      BY <2>3, <3>1, <3>2, ReadsEscape
    <3> QED BY <2>1, <3>3
  <2>5. s.ql = <<>>
    <3>1. CASE s.last_char_dollar
      <4>1. Top(s) # Single /\ Flagged(s, "$")
        BY <1>4, <3>1 DEF Agree
      <4>2. PICK b \in Seq(C) : Plain(s.ql, b) /\ line = Append(b, "$") /\ "$" \in C
        BY <1>2, <2>2, <4>1, FrontIs DEF Flagged
      <4>3. Open(s.ql, line)
        BY <2>3, <4>1, <4>2, ReadsDollar
      <4> QED BY <2>1, <4>3 DEF Open
    <3>2. CASE ~ s.last_char_dollar
      <4>1. Plain(s.ql, s.command)
        BY <1>4, <2>2, <2>4, <3>2 DEF Agree, Unflagged
      <4> QED BY <2>1, <2>2, <4>1 DEF Plain
    <3> QED BY <3>1, <3>2
  <2>6. Finished(s) = line \o [i \in DOMAIN s.ql |-> Closer(s.ql[i])]
    BY <2>2, <2>4 DEF Finished
  <2>7. [i \in DOMAIN s.ql |-> Closer(s.ql[i])] = <<>>
    BY <2>5
  <2>8. line \o <<>> = line
    BY <1>2, ConcatEmptySeq
  <2> QED BY <1>3, <2>6, <2>7, <2>8 DEF sanitize
<1> QED BY <1>5, <1>6


-----------------------------------------------------------------------------
(* A directory as vgexpand has it.                                         *)

Names == ToSet(NameOrder)

AFile(fs) ==
    [name : Names, type : {fs[n].kind : n \in DOMAIN fs}, selected : {Yes, No, Maybe},
     shown : BOOLEAN]

ADirectory(fs, paths) ==
    [name : paths, inode : DOMAIN fs, is_pwd : BOOLEAN, files : Seq(AFile(fs)),
     selected_count : Int, file_count : Int, hidden_count : Int]

\* Before the mask only what is selected is shown.
Counted(dir) ==
    /\ CountsAdd(dir)
    /\ \A i \in DOMAIN dir.files : dir.files[i].shown = (dir.files[i].selected = Yes)

\* What words about these files have marked.
MarkedBy(dir, lookups) ==
    \A i \in DOMAIN dir.files :
        dir.files[i].selected =
            IF dir.files[i].name \in lookups THEN Yes
            ELSE IF \E l \in lookups : Begins(l, dir.files[i].name) THEN Maybe
            ELSE No

\* It has the inode its name leads to, and no file is in it twice.
Proper(fs, dir) == dir.inode = stat(fs, dir.name) /\ NamedOnce(dir.files)

\* strcmp is the order of the names' places.
LEMMA StrcmpIs ==
    \E place \in [Names -> Nat] :
        /\ \A m, n \in Names : place[m] = place[n] => m = n
        /\ \A m, n \in Names : strcmp(m, n) = place[m] - place[n]
<1> DEFINE Place(m) == CHOOSE i \in DOMAIN NameOrder : NameOrder[i] = m
           place == [m \in Names |-> Place(m)]
<1>1. ASSUME NEW m \in Names
      PROVE  Place(m) \in Nat /\ NameOrder[Place(m)] = m
  <2>1. \E i \in DOMAIN NameOrder : NameOrder[i] = m
    BY DEF Names, ToSet
  <2>2. Place(m) \in DOMAIN NameOrder /\ NameOrder[Place(m)] = m
    BY <2>1
  <2>3. DOMAIN NameOrder \subseteq Nat
    BY NamesAssumption
  <2> QED BY <2>2, <2>3
<1>2. \A m, n \in Names : strcmp(m, n) = Place(m) - Place(n)
  BY DEF strcmp
<1> HIDE DEF Place
<1>3. place \in [Names -> Nat]
  BY <1>1
<1>4. \A m, n \in Names : place[m] = place[n] => m = n
  BY <1>1
<1>5. \A m, n \in Names : strcmp(m, n) = place[m] - place[n]
  BY <1>2
<1> HIDE DEF place
<1> QED BY <1>3, <1>4, <1>5

\* Every option orders files with different names strictly.
LEMMA FilenameCmp ==
    ASSUME NEW sort, NEW S, \A f \in S : f.name \in Names, \A f, g \in S : f.name = g.name => f = g
    PROVE  /\ \A f \in S : ~ (filename_cmp(sort, f, f) < 0)
           /\ \A f, g, h \in S : filename_cmp(sort, f, g) < 0 /\ filename_cmp(sort, g, h) < 0 =>
                 filename_cmp(sort, f, h) < 0
           /\ \A f, g \in S : f # g => filename_cmp(sort, f, g) < 0 \/ filename_cmp(sort, g, f) < 0
<1>1. PICK place \in [Names -> Nat] :
        /\ \A m, n \in Names : place[m] = place[n] => m = n
        /\ \A m, n \in Names : strcmp(m, n) = place[m] - place[n]
  BY StrcmpIs
<1> DEFINE at(f) == place[f.name]
           dir(f) == f.type = Directory
<1>2. /\ \A f \in S : at(f) \in Nat
      /\ \A f, g \in S : at(f) = at(g) => f = g
      /\ \A f, g \in S : strcmp(f.name, g.name) = at(f) - at(g)
  BY <1>1
<1>3. CASE sort \in {"-w", "-l"}
  <2>1. \A f, g : filename_cmp(sort, f, g) = cmp_win(f, g)
    BY <1>3 DEF filename_cmp
  <2>2. \A f, g \in S : cmp_win(f, g) = IF dir(f) = dir(g) THEN at(f) - at(g)
                                         ELSE IF dir(f) THEN -1 ELSE 1
    BY <1>2 DEF cmp_win
  <2> HIDE DEF at, dir
  <2>3. \A f \in S : dir(f) \in BOOLEAN
    BY DEF dir
  <2>4. ASSUME NEW f \in S, NEW g \in S
        PROVE  filename_cmp(sort, f, g) < 0 <=>
                   \/ dir(f) /\ ~ dir(g)
                   \/ (dir(f) <=> dir(g)) /\ at(f) < at(g)
    <3>1. at(f) \in Nat /\ at(g) \in Nat
      BY <1>2
    <3>2. CASE dir(f) = dir(g)
      <4>1. filename_cmp(sort, f, g) = at(f) - at(g)
        BY <2>1, <2>2, <3>2
      <4>2. filename_cmp(sort, f, g) < 0 <=> at(f) < at(g)
        BY <3>1, <4>1
      <4> QED BY <2>3, <3>2, <4>2
    <3>3. CASE dir(f) # dir(g) /\ dir(f)
      <4>1. filename_cmp(sort, f, g) = -1
        BY <2>1, <2>2, <3>3
      <4>2. filename_cmp(sort, f, g) < 0
        BY <4>1
      <4>3. dir(f) /\ ~ dir(g)
        BY <2>3, <3>3
      <4> QED BY <4>2, <4>3
    <3>4. CASE dir(f) # dir(g) /\ ~ dir(f)
      <4>1. filename_cmp(sort, f, g) = 1
        BY <2>1, <2>2, <3>4
      <4>2. ~ (filename_cmp(sort, f, g) < 0)
        BY <4>1
      <4>3. ~ dir(f) /\ dir(g)
        BY <2>3, <3>4
      <4> QED BY <4>2, <4>3
    <3> QED BY <3>2, <3>3, <3>4
  <2>5. \A f \in S : ~ (filename_cmp(sort, f, f) < 0)
    BY <1>2, <2>4
  <2>6. \A f, g, h \in S : filename_cmp(sort, f, g) < 0 /\ filename_cmp(sort, g, h) < 0 =>
            filename_cmp(sort, f, h) < 0
    BY <1>2, <2>4
  <2>7. \A f, g \in S : f # g => filename_cmp(sort, f, g) < 0 \/ filename_cmp(sort, g, f) < 0
    BY <1>2, <2>4
  <2> QED BY <2>5, <2>6, <2>7
<1>4. CASE sort \notin {"-w", "-l"}
  <2>1. \A f, g : filename_cmp(sort, f, g) = strcmp(f.name, g.name)
    BY <1>4 DEF filename_cmp, cmp_ls
  <2>2. \A f, g \in S : filename_cmp(sort, f, g) = at(f) - at(g)
    BY <1>2, <2>1
  <2> HIDE DEF at
  <2> QED BY <1>2, <2>2
<1> QED BY <1>3, <1>4

\* A directory that is new is listed whole, nothing selected or shown.
LEMMA NewDir ==
    ASSUME NEW fs, IsFileSystem(fs), NEW sort, NEW paths, NEW name \in paths,
           NEW inode \in DOMAIN fs, inode = stat(fs, name)
    PROVE  LET d == make_new_dir(fs, sort, name, inode)
           IN /\ d \in ADirectory(fs, paths) /\ d.inode = inode /\ ~ d.is_pwd
              /\ Counted(d) /\ MarkedBy(d, {}) /\ Proper(fs, d)
<1> DEFINE opened == fs[inode].kind = Directory /\ fs[inode].open
           files == IF opened
                    THEN {make_new_file(fs, inode, n) : n \in DOMAIN fs[inode].entries}
                    ELSE {}
           Before(f) == {g \in files : filename_cmp(sort, g, f) < 0}
           count == Cardinality(files)
           Pick(k) == CHOOSE f \in files : Cardinality(Before(f)) = k - 1
           one == [k \in 1..count |-> k]
           list == [k \in DOMAIN one |-> Pick(one[k])]
<1>1. ASSUME NEW f \in files
      PROVE  f \in AFile(fs) /\ f.selected = No /\ ~ f.shown
  <2>1. PICK n \in DOMAIN fs[inode].entries : f = make_new_file(fs, inode, n)
    OBVIOUS
  <2>2. n \in Names /\ fs[inode].entries[n] \in DOMAIN fs
    BY DEF IsFileSystem, Names
  <2> QED BY <2>1, <2>2 DEF make_new_file, AFile
<1>2. ASSUME NEW f \in files, NEW g \in files, f.name = g.name
      PROVE  f = g
  <2>1. PICK m \in DOMAIN fs[inode].entries : f = make_new_file(fs, inode, m)
    OBVIOUS
  <2>2. PICK n \in DOMAIN fs[inode].entries : g = make_new_file(fs, inode, n)
    OBVIOUS
  <2>3. m = n
    BY <1>2, <2>1, <2>2 DEF make_new_file
  <2> QED BY <2>1, <2>2, <2>3
<1>3. IsFiniteSet(files)
  <2>1. IsFiniteSet(Names)
    <3>1. NameOrder \in Seq(Names) /\ IsFiniteSet(1..Len(NameOrder))
      BY NamesAssumption, FS_Interval DEF Names
    <3>2. NameOrder \in Surjection(1..Len(NameOrder), Names)
      BY <3>1 DEF Surjection, Names, ToSet
    <3> QED BY <3>1, <3>2, FS_Surjection
  <2>2. [f \in files |-> f.name] \in Injection(files, Names)
    <3>1. \A f \in files : f.name \in Names
      BY <1>1 DEF AFile
    <3> HIDE DEF files
    <3> QED BY <1>2, <3>1 DEF Injection, IsInjective
  <2> HIDE DEF files
  <2> QED BY <2>1, <2>2, FS_Injection
<1>4. count \in Nat
  BY <1>3, FS_CardinalityType
<1>5. \A k \in 1..count : Pick(k) \in files /\ Cardinality(Before(Pick(k))) = k - 1
  <2>1. \A f \in files : f.name \in Names
    BY <1>1 DEF AFile
  <2> HIDE DEF files
  <2>2. PICK B : B = [f \in files |-> Before(f)]
    OBVIOUS
  <2>3. B \in [files -> SUBSET files] /\ \A f, g \in files : g \in B[f] <=> filename_cmp(sort, g, f) < 0
    BY <2>2
  <2>4. /\ \A f \in files : ~ (filename_cmp(sort, f, f) < 0)
        /\ \A f, g, h \in files : filename_cmp(sort, f, g) < 0 /\ filename_cmp(sort, g, h) < 0 =>
              filename_cmp(sort, f, h) < 0
        /\ \A f, g \in files : f # g => filename_cmp(sort, f, g) < 0 \/ filename_cmp(sort, g, f) < 0
    BY <1>2, <2>1, FilenameCmp
  <2>5. \A k \in 1..Cardinality(files) : \E f \in files : Cardinality(B[f]) = k - 1
    BY <1>3, <2>3, <2>4, RanksTaken
  <2>6. \A k \in 1..count : \E f \in files : Cardinality(Before(f)) = k - 1
    BY <2>2, <2>5
  <2> HIDE DEF Before
  <2> QED BY <2>6
<1>17. ASSUME NEW j \in 1..count, NEW k \in 1..count, Pick(j).name = Pick(k).name
       PROVE  j = k
  <2>1. Pick(j) = Pick(k)
    <3> HIDE DEF files, Pick
    <3> QED BY <1>2, <1>5, <1>17
  <2> HIDE DEF files, Pick, Before
  <2>2. j - 1 = k - 1
    BY <1>5, <2>1
  <2> QED BY <1>4, <2>2
<1> HIDE DEF files, Pick
<1>6. one = [k \in 1..count |-> k] /\ DOMAIN one = 1..count /\ Len(one) = count
  BY <1>4
<1>18. \A k \in 1..count : list[k] = Pick(k)
  BY <1>6
<1>7. list \in Seq(files) /\ Len(list) = count /\ SubSeq(list, 1, Len(one)) = list
  <2>1. list = [k \in 1..count |-> list[k]] /\ \A k \in 1..count : list[k] \in files
    BY <1>5
  <2> HIDE DEF list, one
  <2> QED BY <1>4, <1>6, <2>1, FunctionIs
<1>8. make_new_dir(fs, sort, name, inode) =
          [name |-> name, inode |-> inode, is_pwd |-> FALSE, files |-> list,
           selected_count |-> 0, file_count |-> count, hidden_count |-> count]
  <2>1. make_new_dir(fs, sort, name, inode) =
          [name |-> name, inode |-> inode, is_pwd |-> FALSE, files |-> SubSeq(list, 1, Len(one)),
           selected_count |-> 0, file_count |-> count, hidden_count |-> count]
    BY DEF make_new_dir, Each, files, Pick
  <2> QED BY <1>7, <2>1
<1> HIDE DEF list, one
<1>9. list \in Seq(AFile(fs)) /\ \A i \in DOMAIN list : list[i].selected = No /\ ~ list[i].shown
  <2>1. \A i \in DOMAIN list : list[i] \in files
    BY <1>7
  <2> QED BY <1>1, <1>7, <2>1
<1>10. PICK d : d = make_new_dir(fs, sort, name, inode)
  OBVIOUS
<1>11. /\ d.name = name /\ d.inode = inode /\ d.is_pwd = FALSE /\ d.files = list
       /\ d.selected_count = 0 /\ d.file_count = count /\ d.hidden_count = count
  BY <1>8, <1>10
<1>12. d \in ADirectory(fs, paths)
  BY <1>4, <1>8, <1>9, <1>10 DEF ADirectory
<1>13. No # Yes /\ No # Maybe
  BY DEF No, Yes, Maybe
<1>14. CountsAdd(d)
  <2>1. {i \in DOMAIN d.files : d.files[i].selected = Yes} = {}
    BY <1>9, <1>11, <1>13
  <2>2. {i \in DOMAIN d.files : ~ d.files[i].shown} = 1..count
    BY <1>7, <1>9, <1>11
  <2>3. Cardinality(1..count) = count
    BY <1>4, FS_Interval
  <2>4. \A i \in DOMAIN d.files : d.files[i].selected = Yes => d.files[i].shown
    BY <1>9, <1>11, <1>13
  <2> QED BY <1>7, <1>11, <2>1, <2>2, <2>3, <2>4, FS_EmptySet DEF CountsAdd, Count
<1>15. Counted(d)
  <2>1. ASSUME NEW i \in DOMAIN d.files
        PROVE  d.files[i].shown = (d.files[i].selected = Yes)
    <3>1. list[i] \in AFile(fs) /\ list[i].selected = No /\ ~ list[i].shown
      BY <1>9, <1>11
    <3>2. list[i].shown \in BOOLEAN
      BY <3>1 DEF AFile
    <3> QED BY <1>11, <1>13, <3>1, <3>2
  <2> QED BY <1>14, <2>1 DEF Counted
<1>16. MarkedBy(d, {})
  BY <1>9, <1>11 DEF MarkedBy
<1>19. NamedOnce(list)
  <2>1. \A j, k \in 1..count : list[j].name = list[k].name => j = k
    BY <1>17, <1>18
  <2>2. DOMAIN list = 1..count
    BY <1>7
  <2> QED BY <2>1, <2>2 DEF NamedOnce
<1>20. Proper(fs, d)
  BY <1>11, <1>19 DEF Proper
<1> QED BY <1>10, <1>11, <1>12, <1>15, <1>16, <1>20

\* A word marks files of a directory, and the counts follow.
LEMMA MarkType ==
    ASSUME NEW fs, NEW paths, NEW dir \in ADirectory(fs, paths), NEW lookup
    PROVE  LET d == mark_traverse(dir, lookup)
           IN /\ d \in ADirectory(fs, paths)
              /\ d.name = dir.name /\ d.inode = dir.inode /\ d.is_pwd = dir.is_pwd
              /\ DOMAIN d.files = DOMAIN dir.files /\ Len(d.files) = Len(dir.files)
              /\ \A i \in DOMAIN dir.files : d.files[i] = Marked(dir.files[i], lookup)
              /\ d.file_count = dir.file_count
              /\ LET hits == {i \in DOMAIN dir.files : dir.files[i].selected # Yes
                                                         /\ dir.files[i].name = lookup}
                 IN /\ d.selected_count = dir.selected_count + Cardinality(hits)
                    /\ d.hidden_count = dir.hidden_count - Cardinality(hits)
<1> DEFINE n == Len(dir.files)
           list == [i \in DOMAIN dir.files |-> Marked(dir.files[i], lookup)]
           hits == {i \in DOMAIN dir.files : dir.files[i].selected # Yes
                                               /\ dir.files[i].name = lookup}
<1>1. /\ dir.files \in Seq(AFile(fs)) /\ n \in Nat /\ DOMAIN dir.files = 1..n
      /\ dir.selected_count \in Int /\ dir.hidden_count \in Int
  BY DEF ADirectory
<1>2. \A i \in 1..n : list[i] \in AFile(fs)
  <2>1. ASSUME NEW f \in AFile(fs)
        PROVE  Marked(f, lookup) \in AFile(fs)
    BY DEF AFile, Marked
  <2>2. \A i \in 1..n : dir.files[i] \in AFile(fs)
    BY <1>1
  <2> QED BY <1>1, <2>1, <2>2
<1>3. list = [i \in 1..n |-> list[i]]
  BY <1>1
<1>4. list \in Seq(AFile(fs)) /\ Len(list) = n /\ SubSeq(list, 1, n) = list
  <2> HIDE DEF list, n
  <2> QED BY <1>1, <1>2, <1>3, FunctionIs
<1>5. Cardinality(hits) \in Nat
  <2>1. hits \in SUBSET (1..n)
    BY <1>1
  <2>2. IsFiniteSet(1..n)
    BY <1>1, FS_Interval
  <2> HIDE DEF hits, n
  <2> QED BY <2>1, <2>2, FS_Subset, FS_CardinalityType
<1>6. mark_traverse(dir, lookup) =
          [dir EXCEPT !.files = list,
                      !.selected_count = dir.selected_count + Cardinality(hits),
                      !.hidden_count = dir.hidden_count - Cardinality(hits)]
  <2>1. Each(dir.files, LAMBDA f : Marked(f, lookup)) = SubSeq(list, 1, n)
    BY DEF Each
  <2> HIDE DEF list, n
  <2> QED BY <1>4, <2>1 DEF mark_traverse
<1> HIDE DEF hits
<1>7. PICK d : d = mark_traverse(dir, lookup)
  OBVIOUS
<1>8. PICK m \in Nat : m = Cardinality(hits)
  BY <1>5
<1>9. dir.selected_count + m \in Int /\ dir.hidden_count - m \in Int
  BY <1>1, <1>8
<1>10. /\ d \in ADirectory(fs, paths) /\ d.files = list
       /\ d.name = dir.name /\ d.inode = dir.inode
       /\ d.is_pwd = dir.is_pwd /\ d.file_count = dir.file_count
       /\ d.selected_count = dir.selected_count + m
       /\ d.hidden_count = dir.hidden_count - m
  <2> HIDE DEF list
  <2> QED BY <1>4, <1>6, <1>7, <1>8, <1>9 DEF ADirectory
<1>11. DOMAIN d.files = DOMAIN dir.files /\ Len(d.files) = n
  BY <1>1, <1>4, <1>10
<1>12. \A i \in DOMAIN dir.files : d.files[i] = Marked(dir.files[i], lookup)
  BY <1>10
<1> QED BY <1>7, <1>8, <1>10, <1>11, <1>12 DEF hits

LEMMA MarkIs ==
    ASSUME NEW fs, NEW paths, NEW dir \in ADirectory(fs, paths), NEW lookup, NEW lookups,
           Counted(dir), MarkedBy(dir, lookups), Proper(fs, dir)
    PROVE  LET d == mark_traverse(dir, lookup)
           IN Counted(d) /\ MarkedBy(d, lookups \cup {lookup}) /\ Proper(fs, d)
<1> DEFINE n == Len(dir.files)
           hits == {i \in DOMAIN dir.files : dir.files[i].selected # Yes
                                               /\ dir.files[i].name = lookup}
           Selected(x) == {i \in 1..n : x.files[i].selected = Yes}
           Hidden(x) == {i \in 1..n : ~ x.files[i].shown}
<1>1. PICK d : /\ d = mark_traverse(dir, lookup) /\ d \in ADirectory(fs, paths)
               /\ d.name = dir.name /\ d.inode = dir.inode
               /\ DOMAIN d.files = DOMAIN dir.files /\ Len(d.files) = n
               /\ \A i \in DOMAIN dir.files : d.files[i] = Marked(dir.files[i], lookup)
               /\ d.file_count = dir.file_count
               /\ d.selected_count = dir.selected_count + Cardinality(hits)
               /\ d.hidden_count = dir.hidden_count - Cardinality(hits)
  <2>1. PICK d : d = mark_traverse(dir, lookup)
    OBVIOUS
  <2>2. /\ d \in ADirectory(fs, paths) /\ d.name = dir.name /\ d.inode = dir.inode
        /\ DOMAIN d.files = DOMAIN dir.files /\ Len(d.files) = n
        /\ \A i \in DOMAIN dir.files : d.files[i] = Marked(dir.files[i], lookup)
        /\ d.file_count = dir.file_count
        /\ d.selected_count = dir.selected_count + Cardinality(hits)
        /\ d.hidden_count = dir.hidden_count - Cardinality(hits)
    BY <2>1, MarkType
  <2> QED BY <2>1, <2>2
<1>2. /\ n \in Nat /\ DOMAIN dir.files = 1..n
      /\ \A i \in 1..n : dir.files[i] \in AFile(fs)
  BY DEF ADirectory
<1>3. Yes # No /\ Yes # Maybe /\ Maybe # No
  BY DEF Yes, No, Maybe
<1>4. ASSUME NEW i \in 1..n
      PROVE  LET f == dir.files[i]
                 g == d.files[i]
             IN /\ g.name = f.name
                /\ g.shown = (g.selected = Yes)
                /\ g.selected = Yes <=> f.selected = Yes \/ i \in hits
                /\ g.selected = IF f.name \in lookups \cup {lookup} THEN Yes
                                ELSE IF \E l \in lookups \cup {lookup} : Begins(l, f.name) THEN Maybe
                                ELSE No
  <2>1. PICK f \in AFile(fs) : f = dir.files[i]
    BY <1>2
  <2>2. /\ f.shown = (f.selected = Yes)
        /\ f.selected = IF f.name \in lookups THEN Yes
                        ELSE IF \E l \in lookups : Begins(l, f.name) THEN Maybe ELSE No
    BY <1>2, <2>1 DEF Counted, MarkedBy
  <2>3. PICK g : g = d.files[i] /\ g = Marked(f, lookup)
    BY <1>1, <1>2, <2>1
  <2>4. i \in hits <=> f.selected # Yes /\ f.name = lookup
    BY <1>2, <2>1
  <2>5. f.name = lookup => Begins(lookup, f.name)
    BY DEF Begins
  <2> HIDE DEF hits
  <2>6. CASE f.selected = Yes \/ ~ Begins(lookup, f.name)
    <3>1. g = f
      BY <2>3, <2>6 DEF Marked
    <3> QED BY <1>3, <2>1, <2>2, <2>3, <2>4, <2>5, <2>6, <3>1
  <2>7. CASE ~ (f.selected = Yes) /\ Begins(lookup, f.name) /\ f.name = lookup
    <3>1. g = [f EXCEPT !.selected = Yes, !.shown = TRUE]
      BY <2>3, <2>7 DEF Marked
    <3>2. g.name = f.name /\ g.selected = Yes /\ g.shown = TRUE
      BY <3>1 DEF AFile
    <3> QED BY <2>1, <2>3, <2>4, <2>7, <3>2
  <2>8. CASE ~ (f.selected = Yes) /\ Begins(lookup, f.name) /\ f.name # lookup
    <3>1. g = [f EXCEPT !.selected = Maybe]
      BY <2>3, <2>8 DEF Marked
    <3>2. g.name = f.name /\ g.selected = Maybe /\ g.shown = f.shown
      BY <3>1 DEF AFile
    <3> QED BY <1>3, <2>1, <2>2, <2>3, <2>4, <2>8, <3>2
  <2> QED BY <2>6, <2>7, <2>8
<1>5. /\ Selected(d) = Selected(dir) \cup hits /\ Selected(dir) \cap hits = {}
      /\ Hidden(dir) = Hidden(d) \cup hits /\ Hidden(d) \cap hits = {}
      /\ hits \in SUBSET (1..n)
  <2>1. hits \in SUBSET (1..n) /\ \A i \in hits : dir.files[i].selected # Yes
    BY <1>2
  <2>2. \A i \in 1..n : dir.files[i].shown = (dir.files[i].selected = Yes)
    BY <1>2 DEF Counted
  <2>3. \A i \in 1..n : d.files[i].shown = (d.files[i].selected = Yes)
    BY <1>4
  <2>4. \A i \in 1..n : d.files[i].selected = Yes <=> dir.files[i].selected = Yes \/ i \in hits
    BY <1>4
  <2> HIDE DEF hits, n
  <2> QED BY <2>1, <2>2, <2>3, <2>4
<1>6. /\ dir.selected_count = Cardinality(Selected(dir))
      /\ dir.hidden_count = Cardinality(Hidden(dir)) /\ dir.file_count = n
  BY <1>2 DEF Counted, CountsAdd, Count
<1>7. /\ Cardinality(Selected(d)) = Cardinality(Selected(dir)) + Cardinality(hits)
      /\ Cardinality(Hidden(dir)) = Cardinality(Hidden(d)) + Cardinality(hits)
      /\ Cardinality(Hidden(d)) \in Nat /\ Cardinality(hits) \in Nat
  <2>1. PICK S \in SUBSET (1..n) : S = Selected(dir)
    OBVIOUS
  <2>2. PICK H \in SUBSET (1..n) : H = Hidden(d)
    OBVIOUS
  <2>3. PICK T \in SUBSET (1..n) : T = hits
    BY <1>5
  <2> HIDE DEF hits, Selected, Hidden, n
  <2>4. n \in Nat /\ S \cap T = {} /\ H \cap T = {}
    BY <1>2, <1>5, <2>1, <2>2, <2>3
  <2>5. Cardinality(S \cup T) = Cardinality(S) + Cardinality(T)
    BY <2>4, CountMore, ZenonT(60)
  <2>6. /\ Cardinality(H \cup T) = Cardinality(H) + Cardinality(T)
        /\ Cardinality(H) \in Nat /\ Cardinality(T) \in Nat
    BY <2>4, CountMore, ZenonT(60)
  <2> QED BY <1>5, <2>1, <2>2, <2>3, <2>5, <2>6
<1>8. CountsAdd(d)
  <2>1. d.selected_count = Cardinality(Selected(d))
    <3> HIDE DEF hits, Selected, Hidden
    <3> QED BY <1>1, <1>6, <1>7
  <2>2. d.hidden_count = Cardinality(Hidden(d))
    <3> HIDE DEF hits, Selected, Hidden
    <3> QED BY <1>1, <1>6, <1>7
  <2>3. \A i \in DOMAIN d.files : d.files[i].selected = Yes => d.files[i].shown
    BY <1>1, <1>2, <1>4
  <2> QED BY <1>1, <1>2, <1>6, <2>1, <2>2, <2>3 DEF CountsAdd, Count
<1>9. Counted(d)
  BY <1>1, <1>2, <1>4, <1>8 DEF Counted
<1>10. MarkedBy(d, lookups \cup {lookup})
  BY <1>1, <1>2, <1>4 DEF MarkedBy
<1>11. NamedOnce(d.files)
  <2>1. \A i \in 1..n : d.files[i].name = dir.files[i].name
    BY <1>4
  <2>2. NamedOnce(dir.files)
    BY DEF Proper
  <2> QED BY <1>1, <1>2, <2>1, <2>2 DEF NamedOnce
<1>12. Proper(fs, d)
  <2>1. dir.inode = stat(fs, dir.name)
    BY DEF Proper
  <2> QED BY <1>1, <1>11, <2>1 DEF Proper
<1> QED BY <1>1, <1>9, <1>10, <1>12

\* The mask shows files, and the counts follow.
LEMMA MaskIs ==
    ASSUME NEW fs, NEW paths, NEW dir \in ADirectory(fs, paths), NEW masks, NEW lookups,
           Counted(dir), MarkedBy(dir, lookups), Proper(fs, dir)
    PROVE  LET d == mask_traverse(dir, masks)
           IN /\ d \in ADirectory(fs, paths) /\ d.inode = dir.inode /\ d.is_pwd = dir.is_pwd
              /\ CountsAdd(d) /\ MarkedBy(d, lookups) /\ Proper(fs, d)
<1> DEFINE n == Len(dir.files)
           Revealed(f) == [f EXCEPT !.shown = @ \/ Masked(masks, f)]
           list == [i \in DOMAIN dir.files |-> Revealed(dir.files[i])]
           seen == {i \in DOMAIN dir.files : dir.files[i].selected # Yes
                                               /\ Masked(masks, dir.files[i])}
           Hidden(x) == {i \in 1..n : ~ x.files[i].shown}
<1>1. /\ n \in Nat /\ DOMAIN dir.files = 1..n
      /\ \A i \in 1..n : dir.files[i] \in AFile(fs)
  BY DEF ADirectory
<1>2. \A f : Masked(masks, f) \in BOOLEAN
  BY DEF Masked
<1>3. ASSUME NEW i \in 1..n
      PROVE  LET f == dir.files[i]
                 g == list[i]
             IN /\ g \in AFile(fs) /\ g.name = f.name /\ g.selected = f.selected
                /\ ~ g.shown <=> ~ f.shown /\ i \notin seen
                /\ f.selected = Yes => g.shown
                /\ i \in seen => ~ f.shown
  <2>1. PICK f \in AFile(fs) : f = dir.files[i]
    BY <1>1
  <2>2. f.shown = (f.selected = Yes)
    BY <1>1, <2>1 DEF Counted
  <2>3. list[i] = [f EXCEPT !.shown = f.shown \/ Masked(masks, f)]
    BY <1>1, <2>1
  <2>4. i \in seen <=> f.selected # Yes /\ Masked(masks, f)
    BY <1>1, <2>1
  <2>6. f.shown \/ Masked(masks, f) \in BOOLEAN
    BY <1>2 DEF AFile
  <2>5. /\ list[i] \in AFile(fs) /\ list[i].name = f.name /\ list[i].selected = f.selected
        /\ list[i].shown = (f.shown \/ Masked(masks, f))
    <3> HIDE DEF list
    <3> QED BY <2>3, <2>6 DEF AFile
  <2> HIDE DEF seen, list
  <2> QED BY <1>2, <2>1, <2>2, <2>4, <2>5
<1>4. list = [i \in 1..n |-> list[i]]
  BY <1>1
<1>15. \A i \in 1..n : list[i] \in AFile(fs)
  BY <1>3
<1>5. /\ Len(list) = n /\ SubSeq(list, 1, n) = list /\ DOMAIN list = 1..n
      /\ list \in Seq(AFile(fs))
  <2>1. DOMAIN list = 1..n
    BY <1>1
  <2> HIDE DEF list, n
  <2> QED BY <1>1, <1>4, <1>15, <2>1, FunctionIs
<1>6. mask_traverse(dir, masks) =
          [dir EXCEPT !.files = list, !.hidden_count = dir.hidden_count - Cardinality(seen)]
  <2>1. Each(dir.files, LAMBDA f : [f EXCEPT !.shown = @ \/ Masked(masks, f)]) = SubSeq(list, 1, n)
    BY DEF Each
  <2> HIDE DEF list, n
  <2> QED BY <1>5, <2>1 DEF mask_traverse
<1>7. PICK d : d = mask_traverse(dir, masks)
  OBVIOUS
<1>8. /\ d.files = list /\ d.inode = dir.inode /\ d.is_pwd = dir.is_pwd /\ d.name = dir.name
      /\ d.file_count = dir.file_count /\ d.selected_count = dir.selected_count
      /\ d.hidden_count = dir.hidden_count - Cardinality(seen)
  <2> HIDE DEF list, seen
  <2> QED BY <1>6, <1>7 DEF ADirectory
<1>16. d \in ADirectory(fs, paths)
  <2>1. seen \in SUBSET (1..n)
    BY <1>1
  <2>2. PICK m \in Nat : m = Cardinality(seen)
    <3> HIDE DEF seen, n
    <3>1. IsFiniteSet(1..n)
      BY <1>1, FS_Interval
    <3>2. IsFiniteSet(seen)
      BY <2>1, <3>1, FS_Subset
    <3> QED BY <3>2, FS_CardinalityType
  <2> HIDE DEF list, seen
  <2>3. dir.hidden_count - m \in Int
    BY <2>2 DEF ADirectory
  <2> QED BY <1>5, <1>6, <1>7, <2>2, <2>3 DEF ADirectory
<1>9. /\ dir.selected_count = Cardinality({i \in 1..n : dir.files[i].selected = Yes})
      /\ dir.hidden_count = Cardinality(Hidden(dir)) /\ dir.file_count = n
  BY <1>1 DEF Counted, CountsAdd, Count
<1>10. /\ Hidden(dir) = Hidden(d) \cup seen /\ Hidden(d) \cap seen = {}
       /\ seen \in SUBSET (1..n) /\ Hidden(d) \in SUBSET (1..n)
  <2>1. seen \in SUBSET (1..n)
    BY <1>1
  <2>2. \A i \in 1..n : ~ d.files[i].shown <=> ~ dir.files[i].shown /\ i \notin seen
    BY <1>3, <1>8
  <2>3. \A i \in seen : ~ dir.files[i].shown
    BY <1>3, <2>1
  <2> HIDE DEF seen, n
  <2> QED BY <2>1, <2>2, <2>3
<1>11. /\ Cardinality(Hidden(dir)) = Cardinality(Hidden(d)) + Cardinality(seen)
       /\ Cardinality(Hidden(d)) \in Nat /\ Cardinality(seen) \in Nat
  <2>1. PICK H \in SUBSET (1..n) : H = Hidden(d)
    BY <1>10
  <2>2. PICK T \in SUBSET (1..n) : T = seen
    BY <1>10
  <2> HIDE DEF seen, Hidden, n
  <2>4. H \cap T = {} /\ n \in Nat
    BY <1>1, <1>10, <2>1, <2>2
  <2>3. /\ Cardinality(H \cup T) = Cardinality(H) + Cardinality(T)
        /\ Cardinality(H) \in Nat /\ Cardinality(T) \in Nat
    BY <2>4, CountMore, SMTT(30)
  <2> QED BY <1>10, <2>1, <2>2, <2>3
<1>12. {i \in 1..n : d.files[i].selected = Yes} = {i \in 1..n : dir.files[i].selected = Yes}
  BY <1>3, <1>8
<1>13. CountsAdd(d)
  <2>1. d.hidden_count = Cardinality(Hidden(d))
    <3> HIDE DEF seen, Hidden
    <3> QED BY <1>8, <1>9, <1>11
  <2>2. ASSUME NEW i \in 1..n, d.files[i].selected = Yes
        PROVE  d.files[i].shown
    <3>1. list[i].selected = Yes
      BY <1>8, <2>2
    <3>2. list[i].shown
      BY <1>3, <3>1
    <3> QED BY <1>8, <3>2
  <2>3. DOMAIN d.files = 1..n /\ Len(d.files) = n
    BY <1>5, <1>8
  <2> HIDE DEF list
  <2> QED BY <1>8, <1>9, <1>12, <2>1, <2>2, <2>3 DEF CountsAdd, Count
<1>14. MarkedBy(d, lookups)
  <2>1. DOMAIN d.files = 1..n
    BY <1>5, <1>8
  <2>2. \A i \in 1..n : d.files[i].name = dir.files[i].name /\ d.files[i].selected = dir.files[i].selected
    BY <1>3, <1>8
  <2> QED BY <1>1, <2>1, <2>2 DEF MarkedBy
<1>17. Proper(fs, d)
  <2>1. \A i \in 1..n : d.files[i].name = dir.files[i].name
    BY <1>3, <1>8
  <2>2. NamedOnce(dir.files) /\ dir.inode = stat(fs, dir.name)
    BY DEF Proper
  <2>3. DOMAIN d.files = 1..n
    BY <1>5, <1>8
  <2>4. NamedOnce(d.files)
    BY <1>1, <2>1, <2>2, <2>3 DEF NamedOnce
  <2> QED BY <1>8, <2>2, <2>4 DEF Proper
<1> QED BY <1>7, <1>8, <1>13, <1>14, <1>16, <1>17

-----------------------------------------------------------------------------
(* Words, paths and inodes.                                                *)

\* The sandbox shell makes sequences of characters of any line.
LEMMA ArgsAre ==
    ASSUME NEW S, NEW line \in Seq(S)
    PROVE  \E D : WordsOf(sanitize(line)) \in Seq(Seq(D))
<1>1. PICK D : D = S \cup {Closer(x) : x \in Quotes}
  OBVIOUS
<1>2. line \in Seq(D) /\ \A x \in Quotes : Closer(x) \in D
  <2>1. Len(line) \in Nat /\ \A i \in 1..Len(line) : line[i] \in D
    BY <1>1
  <2> QED BY <1>1, <2>1
<1>3. PICK s \in Sane(D) : s = Loop(line)
  BY <1>2, LoopType
<1>4. s.command \in Seq(D) /\ s.ql \in Seq(Quotes)
  BY DEF Sane
<1>5. [i \in DOMAIN s.ql |-> Closer(s.ql[i])] \in Seq(D)
  <2>1. Len(s.ql) \in Nat /\ DOMAIN s.ql = 1..Len(s.ql)
        /\ \A i \in 1..Len(s.ql) : s.ql[i] \in Quotes
    BY <1>4
  <2>2. \A i \in 1..Len(s.ql) : Closer(s.ql[i]) \in D
    BY <1>2, <2>1
  <2> QED BY <2>1, <2>2
<1>6. Finished(s) \in Seq(D)
  <2>1. s.command # <<>> => Front(s.command) \in Seq(D)
    BY <1>4, FrontIs
  <2>2. \A t : t.command \in Seq(D) =>
            t.command \o [i \in DOMAIN s.ql |-> Closer(s.ql[i])] \in Seq(D)
    BY <1>5, ConcatProperties
  <2>3. backspace(s).command \in Seq(D) /\ backspace(s).ql = s.ql
    BY <1>4, <2>1 DEF backspace, Sane
  <2> QED BY <1>4, <2>2, <2>3 DEF Finished
<1>7. Reading(Finished(s)) \in Reader(D)
  <2>1. Len(Finished(s)) \in 0..Len(Finished(s))
    BY <1>6
  <2> QED BY <1>6, <2>1, ReadingSteps
<1>8. WordsOf(sanitize(line)) \in Seq(Seq(D))
  BY <1>3, <1>7 DEF WordsOf, sanitize, Reader
<1> QED BY <1>8

\* A path is a sequence, of something; an absolute one begins with a slash.
IsPath(path) == \E X : path \in Seq(X)

AbsPath(path) == IsPath(path) /\ path # <<>> /\ path[1] = Slash

LEMMA PathIs ==
    ASSUME NEW path, IsPath(path), NEW remove \in BOOLEAN
    PROVE  IsPath(normalize_path(path, remove))
<1>1. PICK kept : kept = {i \in DOMAIN path : path[i] # Slash \/ i = 1 \/ path[i - 1] # Slash}
  OBVIOUS
<1>2. PICK X : path \in Seq(X)
  BY DEF IsPath
<1>3. kept \in SUBSET (1..Len(path))
  BY <1>1, <1>2
<1>4. PICK norm : norm = Picked(path, kept)
  OBVIOUS
<1>5. norm \in Seq(X)
  BY <1>2, <1>3, <1>4, PickedIs
<1>6. Len(norm) > 1 => Front(norm) \in Seq(X)
  <2>1. Len(norm) > 1 => norm # <<>>
    OBVIOUS
  <2> QED BY <1>5, <2>1, FrontIs
<1>7. normalize_path(path, remove) = IF remove /\ Len(norm) > 1 /\ Last(norm) = Slash
                                     THEN Front(norm) ELSE norm
  BY <1>1, <1>4 DEF normalize_path
<1> QED BY <1>5, <1>6, <1>7 DEF IsPath

\* The directory of a path is absolute when the working directory is.
LEMMA DirnameIs ==
    ASSUME NEW pwd, AbsPath(pwd), NEW path, IsPath(path)
    PROVE  AbsPath(vg_dirname(pwd, path))
<1>1. PICK X : pwd \in Seq(X) /\ path \in Seq(X)
  <2>1. PICK P : pwd \in Seq(P)
    BY DEF AbsPath, IsPath
  <2>2. PICK Q : path \in Seq(Q)
    BY DEF IsPath
  <2>3. pwd \in Seq(P \cup Q) /\ path \in Seq(P \cup Q)
    <3>1. Len(pwd) \in Nat /\ \A i \in 1..Len(pwd) : pwd[i] \in P \cup Q
      BY <2>1
    <3>2. Len(path) \in Nat /\ \A i \in 1..Len(path) : path[i] \in P \cup Q
      BY <2>2
    <3> QED BY <2>1, <2>2, <3>1, <3>2
  <2> QED BY <2>3
<1>2. PICK Y : Y = X \cup {Slash}
  OBVIOUS
<1>3. pwd \in Seq(Y) /\ path \in Seq(Y) /\ Slash \in Y
  <2>1. Len(pwd) \in Nat /\ \A i \in 1..Len(pwd) : pwd[i] \in Y
    BY <1>1, <1>2
  <2>2. Len(path) \in Nat /\ \A i \in 1..Len(path) : path[i] \in Y
    BY <1>1, <1>2
  <2> QED BY <1>1, <1>2, <2>1, <2>2
<1>4. PICK slash : slash = LastSlash(path)
  OBVIOUS
<1>5. /\ slash \in 0..Len(path)
      /\ path # <<>> /\ path[1] = Slash => slash # 0
  <2> DEFINE I == {i \in 1..Len(path) : path[i] = Slash}
  <2>1. slash = IF I # {} THEN Max(I) ELSE 0
    BY <1>4 DEF LastSlash, SelectLastInSeq
  <2>2. Len(path) \in Nat /\ I \in SUBSET (1..Len(path))
    BY <1>3
  <2>6. path # <<>> /\ path[1] = Slash => I # {}
    <3>1. path # <<>> => 1 \in 1..Len(path)
      BY <1>3, EmptySeq
    <3> QED BY <3>1
  <2> HIDE DEF I
  <2>3. I # {} => Max(I) \in 1..Len(path)
    BY <2>2, Extremes
  <2>4. \A k \in 1..Len(path) : k \in 0..Len(path) /\ k # 0
    BY <2>2
  <2>5. 0 \in 0..Len(path)
    BY <2>2
  <2> QED BY <2>1, <2>3, <2>4, <2>5, <2>6
<1>6. PICK rest \in Seq(Y) : /\ rest = SubSeq(path, 1, slash - 1)
                             /\ slash > 1 => rest # <<>> /\ rest[1] = path[1]
  <2>1. Len(path) \in Nat /\ slash - 1 \in Int /\ slash - 1 <= Len(path)
    BY <1>3, <1>5
  <2>2. \A i \in 1..(slash - 1) : path[i] \in Y
    BY <1>3, <2>1
  <2>3. PICK rest : rest = SubSeq(path, 1, slash - 1)
    OBVIOUS
  <2>4. rest \in Seq(Y)
    BY <2>1, <2>2, <2>3, SubSeqProperties
  <2>5. ASSUME slash > 1
        PROVE  rest # <<>> /\ rest[1] = path[1]
    <3>1. slash - 1 >= 1 /\ 1 <= slash - 1 + 1
      BY <1>3, <1>5, <2>5
    <3>2. Len(rest) = slash - 1 /\ rest[1] = path[1]
      BY <2>1, <2>2, <2>3, <3>1, SubSeqProperties
    <3> QED BY <2>4, <3>1, <3>2
  <2> QED BY <2>3, <2>4, <2>5
<1>7. <<Slash>> \in Seq(Y) /\ <<Slash>> # <<>> /\ <<Slash>>[1] = Slash
  BY <1>3
<1>8. PICK front \in Seq(Y) : /\ front = IF pwd = <<Slash>> THEN pwd ELSE Append(pwd, Slash)
                              /\ front # <<>> /\ front[1] = Slash
  <2>1. pwd # <<>> /\ pwd[1] = Slash
    BY DEF AbsPath
  <2>2. Len(pwd) \in Nat /\ 1 \in 1..Len(pwd)
    BY <1>3, <2>1, EmptySeq
  <2>3. PICK more : more = Append(pwd, Slash)
    OBVIOUS
  <2>4. more \in Seq(Y) /\ more # <<>> /\ more[1] = Slash
    BY <1>3, <2>1, <2>2, <2>3, AppendProperties
  <2> QED BY <1>3, <2>1, <2>3, <2>4
<1>9. PICK full \in Seq(Y) : full = front \o rest /\ full # <<>> /\ full[1] = Slash
  <2>1. Len(front) \in Nat /\ 1 \in 1..Len(front) /\ Len(rest) \in Nat
    BY <1>8, EmptySeq
  <2>2. PICK full : full = front \o rest
    OBVIOUS
  <2>3. full \in Seq(Y) /\ Len(full) = Len(front) + Len(rest) /\ full[1] = front[1]
    BY <2>1, <2>2, ConcatIs
  <2>4. full # <<>>
    BY <2>1, <2>3
  <2> QED BY <1>8, <2>2, <2>3, <2>4
<1>10. PICK relative \in BOOLEAN : relative = (path = <<>> \/ path[1] # Slash)
  OBVIOUS
<1>11. vg_dirname(pwd, path) =
          IF relative /\ slash = 0 THEN pwd
          ELSE IF relative THEN full
          ELSE IF slash = 1 THEN <<Slash>>
          ELSE rest
  BY <1>4, <1>6, <1>8, <1>9, <1>10 DEF vg_dirname
<1>12. ~ relative => slash # 0 /\ path[1] = Slash
  BY <1>5, <1>10
<1>13. ~ relative /\ slash # 1 => slash > 1
  BY <1>3, <1>5, <1>12
<1> QED BY <1>3, <1>6, <1>7, <1>9, <1>11, <1>12, <1>13 DEF AbsPath, IsPath

\* stat finds an inode of the file system, or none.
LEMMA StatIs ==
    ASSUME NEW fs, IsFileSystem(fs), NEW path, IsPath(path)
    PROVE  stat(fs, path) \in DOMAIN fs \cup {Nowhere}
<1> DEFINE V == DOMAIN fs \cup {Nowhere}
           n == Len(path)
           Step(x, k) == IF path[k] = Slash THEN x ELSE Child(fs, Follow(fs, x), path[k])
           Is(f) == f = [i \in 0..n |-> IF i = 0 THEN Root ELSE Step(f[i - 1], i)]
           step == [k \in 1..n |-> [x \in V |-> Step(x, k)]]
           at == CHOOSE f : Is(f)
<1>1. n \in Nat
  BY DEF IsPath
<1>2. Root \in V
  BY DEF IsFileSystem
<1>3. \A x \in V : Follow(fs, x) \in V
  BY DEF IsFileSystem, Follow
<1>4. \A x \in V : \A name : Child(fs, x, name) \in V
  BY DEF IsFileSystem, Child
<1>5. step \in [1..n -> [V -> V]]
  <2>1. \A x \in V : \A k \in 1..n : Step(x, k) \in V
    BY <1>3, <1>4
  <2> HIDE DEF V, Step
  <2> QED BY <2>1
<1>6. PICK g \in [0..n -> V] : Iterates(g, n, Root, step)
  <2> HIDE DEF V, n, step
  <2> QED BY <1>1, <1>2, <1>5, Recursion
<1>7. stat(fs, path) = Follow(fs, at[n])
  BY DEF stat
<1> HIDE DEF V, Step
<1>8. ASSUME NEW k \in 1..n
      PROVE  g[k] = Step(g[k - 1], k)
  <2>1. k - 1 \in 0..n
    BY <1>1
  <2>2. g[k - 1] \in V
    BY <2>1
  <2>3. step[k][g[k - 1]] = Step(g[k - 1], k)
    BY <2>2
  <2> QED BY <1>6, <2>3 DEF Iterates
<1>9. Is(g)
  <2>1. ASSUME NEW k \in 0..n
        PROVE  g[k] = IF k = 0 THEN Root ELSE Step(g[k - 1], k)
    <3>1. k # 0 => k \in 1..n
      BY <1>1
    <3> QED BY <1>6, <1>8, <3>1 DEF Iterates
  <2> QED BY <2>1
<1>10. Is(at)
  <2> HIDE DEF Is
  <2> QED BY <1>9
<1> HIDE DEF at
<1>11. \A k \in 0..n : at[k] = g[k]
  <2> DEFINE T == {k \in 0..n : at[k] = g[k]}
  <2>1. 0 \in T
    BY <1>1, <1>6, <1>10 DEF Iterates
  <2>2. ASSUME NEW k \in 1..n, k - 1 \in T
        PROVE  k \in T
    <3>1. k \in 0..n /\ k # 0
      BY <1>1
    <3>2. at[k] = Step(at[k - 1], k)
      BY <1>10, <3>1
    <3> QED BY <2>2, <3>1, <3>2, <1>8
  <2>3. \A k \in 0..n : k \in T
    <3> HIDE DEF T, n
    <3> QED BY <1>1, <2>1, <2>2, BoundedInduction
  <2> QED BY <2>3
<1>12. at[n] \in V
  BY <1>1, <1>11
<1>13. stat(fs, path) \in V
  BY <1>3, <1>7, <1>12
<1> QED BY <1>13 DEF V

-----------------------------------------------------------------------------
(* The directories, word by word.                                          *)

\* What the words so far look for in a directory, of pairs of an inode and
\* a name.
About(looked, inode) == {p[2] : p \in {q \in looked : q[1] = inode}}

\* What the directories are after them, the working directory's inode being
\* first.
Sound(fs, paths, first, looked, dirs) ==
    /\ dirs \in Seq(ADirectory(fs, paths)) /\ dirs # <<>>
    /\ \A i, j \in DOMAIN dirs : dirs[i].inode = dirs[j].inode => i = j
    /\ \A i \in DOMAIN dirs : dirs[i].is_pwd = (i = 1)
    /\ dirs[1].inode = first
    /\ \A i \in DOMAIN dirs : Counted(dirs[i]) /\ MarkedBy(dirs[i], About(looked, dirs[i].inode))
    /\ \A i \in DOMAIN dirs : Proper(fs, dirs[i])
    /\ \A p \in looked : \E i \in DOMAIN dirs : dirs[i].inode = p[1]

LEMMA HaveDir ==
    ASSUME NEW fs, NEW paths, NEW dirs \in Seq(ADirectory(fs, paths)), NEW name, NEW inode
    PROVE  LET h == have_dir(dirs, name, inode)
           IN \/ h = 0 /\ \A i \in DOMAIN dirs : dirs[i].inode # inode
              \/ h \in DOMAIN dirs /\ dirs[h].inode = inode
<1> DEFINE I == {i \in 1..Len(dirs) : dirs[i].inode = inode}
<1>1. Len(dirs) \in Nat /\ DOMAIN dirs = 1..Len(dirs)
  OBVIOUS
<1>2. have_dir(dirs, name, inode) = IF I # {} THEN Min(I) ELSE 0
  BY DEF have_dir, SelectInSeq
<1>3. I \in SUBSET (1..Len(dirs))
  OBVIOUS
<1>4. I # {} => Min(I) \in I
  <2> HIDE DEF I
  <2> QED BY <1>1, <1>3, Extremes
<1>5. CASE I = {}
  <2>1. \A i \in 1..Len(dirs) : dirs[i].inode # inode
    BY <1>5
  <2> HIDE DEF I
  <2> QED BY <1>1, <1>2, <1>5, <2>1
<1>6. CASE I # {}
  <2>1. \A i \in I : i \in 1..Len(dirs) /\ dirs[i].inode = inode
    OBVIOUS
  <2> HIDE DEF I
  <2> QED BY <1>1, <1>2, <1>4, <1>6, <2>1
<1> QED BY <1>5, <1>6

\* The first directory is the working directory.
LEMMA InitiateIs ==
    ASSUME NEW fs, IsFileSystem(fs), NEW paths, NEW sort, NEW pwd \in paths,
           stat(fs, pwd) \in DOMAIN fs
    PROVE  Sound(fs, paths, stat(fs, pwd), {}, initiate(fs, sort, pwd))
<1>1. PICK d : /\ d = make_new_dir(fs, sort, pwd, stat(fs, pwd))
               /\ d \in ADirectory(fs, paths) /\ d.inode = stat(fs, pwd)
               /\ Counted(d) /\ MarkedBy(d, {}) /\ Proper(fs, d)
  BY NewDir
<1>2. PICK g : g = [d EXCEPT !.is_pwd = TRUE]
  OBVIOUS
<1>3. /\ g \in ADirectory(fs, paths) /\ g.inode = d.inode /\ g.is_pwd = TRUE
      /\ g.name = d.name /\ g.files = d.files /\ g.selected_count = d.selected_count
      /\ g.hidden_count = d.hidden_count /\ g.file_count = d.file_count
  BY <1>1, <1>2 DEF ADirectory
<1>4. Counted(g) /\ MarkedBy(g, {})
  BY <1>1, <1>3 DEF Counted, CountsAdd, Count, MarkedBy
<1>5. initiate(fs, sort, pwd) = <<g>>
  BY <1>1, <1>2 DEF initiate
<1>6. About({}, g.inode) = {}
  BY DEF About
<1>7. <<g>> \in Seq(ADirectory(fs, paths)) /\ <<g>> # <<>> /\ DOMAIN <<g>> = {1} /\ <<g>>[1] = g
  <2> HIDE DEF ADirectory
  <2> QED BY <1>3
<1>8. \A i \in {1} : g.is_pwd = (i = 1)
  BY <1>3
<1>9. Proper(fs, g)
  BY <1>1, <1>3 DEF Proper
<1> QED BY <1>1, <1>3, <1>4, <1>5, <1>6, <1>7, <1>8, <1>9 DEF Sound

LEMMA CorrelateIs ==
    ASSUME NEW fs, IsFileSystem(fs), NEW paths, NEW first, NEW looked, NEW dirs,
           Sound(fs, paths, first, looked, dirs),
           NEW sort, NEW name \in paths, NEW inode \in DOMAIN fs, inode = stat(fs, name)
    PROVE  LET all == correlate(fs, sort, dirs, name, inode)
           IN /\ Sound(fs, paths, first, looked, all)
              /\ have_dir(all, name, inode) \in DOMAIN all
              /\ all[have_dir(all, name, inode)].inode = inode
<1>1. PICK D : D = ADirectory(fs, paths)
  OBVIOUS
<1>2. dirs \in Seq(D) /\ Len(dirs) \in Nat \ {0} /\ DOMAIN dirs = 1..Len(dirs)
  <2>1. dirs \in Seq(D) /\ dirs # <<>>
    BY <1>1 DEF Sound
  <2> QED BY <2>1, EmptySeq
<1>3. PICK all : all = correlate(fs, sort, dirs, name, inode)
  OBVIOUS
<1>4. CASE have_dir(dirs, name, inode) # 0
  <2>1. all = dirs
    BY <1>3, <1>4 DEF correlate
  <2> QED BY <1>1, <1>2, <1>3, <1>4, <2>1, HaveDir
<1>5. CASE have_dir(dirs, name, inode) = 0
  <2>1. \A i \in DOMAIN dirs : dirs[i].inode # inode
    BY <1>1, <1>2, <1>5, HaveDir
  <2>2. PICK d : /\ d = make_new_dir(fs, sort, name, inode)
                 /\ d \in D /\ d.inode = inode /\ ~ d.is_pwd
                 /\ Counted(d) /\ MarkedBy(d, {}) /\ Proper(fs, d)
    BY <1>1, NewDir
  <2>3. d.is_pwd = FALSE
    BY <1>1, <2>2 DEF ADirectory
  <2>4. all = Append(dirs, d)
    BY <1>3, <1>5, <2>2 DEF correlate
  <2>5. PICK n \in Nat \ {0} : n = Len(dirs) /\ DOMAIN dirs = 1..n
    BY <1>2
  <2>6. /\ all \in Seq(D) /\ all # <<>> /\ Len(all) = n + 1
        /\ \A i \in 1..n : all[i] = dirs[i]
        /\ all[n + 1] = d
    BY <1>2, <2>2, <2>4, <2>5, AppendProperties
  <2>7. /\ DOMAIN all = 1..(n + 1)
        /\ 1 \in 1..n /\ n + 1 # 1
        /\ \A i \in 1..(n + 1) : i \in 1..n \/ i = n + 1
        /\ \A i \in 1..n : i \in 1..(n + 1)
    BY <2>5, <2>6
  <2>8. About(looked, inode) = {}
    BY <2>1 DEF Sound, About
  <2>9. \A i, j \in DOMAIN all : all[i].inode = all[j].inode => i = j
    BY <2>1, <2>2, <2>5, <2>6, <2>7 DEF Sound
  <2>10. \A i \in DOMAIN all : all[i].is_pwd = (i = 1)
    <3>1. \A i \in 1..n : all[i].is_pwd = (i = 1)
      BY <2>5, <2>6 DEF Sound
    <3>2. all[n + 1].is_pwd = FALSE
      BY <2>3, <2>6
    <3> QED BY <2>7, <3>1, <3>2
  <2>11. all[1].inode = first
    BY <2>6, <2>7 DEF Sound
  <2>12. \A i \in DOMAIN all :
            Counted(all[i]) /\ MarkedBy(all[i], About(looked, all[i].inode))
    <3>1. ASSUME NEW i \in 1..n
          PROVE  Counted(all[i]) /\ MarkedBy(all[i], About(looked, all[i].inode))
      <4>1. Counted(dirs[i]) /\ MarkedBy(dirs[i], About(looked, dirs[i].inode))
        BY <2>5 DEF Sound
      <4> QED BY <2>6, <4>1
    <3>2. Counted(all[n + 1]) /\ MarkedBy(all[n + 1], About(looked, all[n + 1].inode))
      BY <2>2, <2>6, <2>8
    <3> QED BY <2>7, <3>1, <3>2
  <2>13. \A p \in looked : \E i \in DOMAIN all : all[i].inode = p[1]
    BY <2>5, <2>6, <2>7 DEF Sound
  <2>17. \A i \in DOMAIN all : Proper(fs, all[i])
    <3>1. \A i \in 1..n : Proper(fs, all[i])
      BY <2>5, <2>6 DEF Sound
    <3> QED BY <2>2, <2>6, <2>7, <3>1
  <2>14. Sound(fs, paths, first, looked, all)
    BY <1>1, <2>6, <2>9, <2>10, <2>11, <2>12, <2>13, <2>17 DEF Sound
  <2>15. n + 1 \in DOMAIN all /\ all[n + 1].inode = inode
    BY <2>2, <2>6, <2>7
  <2>16. have_dir(all, name, inode) \in DOMAIN all /\ all[have_dir(all, name, inode)].inode = inode
    BY <1>1, <2>6, <2>15, HaveDir
  <2> QED BY <1>3, <2>14, <2>16
<1> QED BY <1>4, <1>5

LEMMA CorrelateFileIs ==
    ASSUME NEW fs, IsFileSystem(fs), NEW paths, NEW first, NEW looked, NEW dirs,
           Sound(fs, paths, first, looked, dirs),
           NEW sort, NEW name \in paths, NEW inode \in DOMAIN fs, inode = stat(fs, name), NEW file
    PROVE  Sound(fs, paths, first, looked \cup {<<inode, file>>},
                 correlate_file(fs, sort, dirs, name, inode, file))
<1>1. PICK D : D = ADirectory(fs, paths)
  OBVIOUS
<1>2. PICK all : /\ all = correlate(fs, sort, dirs, name, inode)
                 /\ Sound(fs, paths, first, looked, all)
                 /\ have_dir(all, name, inode) \in DOMAIN all
                 /\ all[have_dir(all, name, inode)].inode = inode
  BY CorrelateIs
<1>3. PICK h \in DOMAIN all : h = have_dir(all, name, inode) /\ all[h].inode = inode
  BY <1>2
<1>4. PICK n \in Nat : all \in Seq(D) /\ n = Len(all) /\ DOMAIN all = 1..n /\ all # <<>>
  <2>1. all \in Seq(D) /\ all # <<>>
    BY <1>1, <1>2 DEF Sound
  <2> QED BY <2>1
<1>5. all[h] \in ADirectory(fs, paths) /\ Counted(all[h])
      /\ MarkedBy(all[h], About(looked, inode)) /\ Proper(fs, all[h])
  BY <1>1, <1>2, <1>3, <1>4 DEF Sound
<1>6. PICK d : /\ d = mark_traverse(all[h], file)
               /\ d \in D /\ d.inode = inode /\ d.is_pwd = all[h].is_pwd
               /\ Counted(d) /\ MarkedBy(d, About(looked, inode) \cup {file}) /\ Proper(fs, d)
  <2>1. PICK a \in ADirectory(fs, paths) : a = all[h] /\ a.inode = inode
    BY <1>3, <1>5
  <2>2. Counted(a) /\ MarkedBy(a, About(looked, inode)) /\ Proper(fs, a)
    BY <1>5, <2>1
  <2>3. PICK d : d = mark_traverse(a, file)
    OBVIOUS
  <2>4. d \in ADirectory(fs, paths) /\ d.inode = a.inode /\ d.is_pwd = a.is_pwd
    <3>1. mark_traverse(a, file) \in ADirectory(fs, paths)
      BY MarkType
    <3>2. mark_traverse(a, file).inode = a.inode /\ mark_traverse(a, file).is_pwd = a.is_pwd
      BY DEF mark_traverse, ADirectory
    <3> QED BY <2>3, <3>1, <3>2
  <2>5. Counted(d) /\ MarkedBy(d, About(looked, inode) \cup {file}) /\ Proper(fs, d)
    BY <2>2, <2>3, MarkIs
  <2> QED BY <1>1, <2>1, <2>3, <2>4, <2>5
<1>7. PICK new : new = [all EXCEPT ![h] = d]
  OBVIOUS
<1>8. correlate_file(fs, sort, dirs, name, inode, file) = new
  BY <1>2, <1>3, <1>6, <1>7 DEF correlate_file
<1>9. /\ new \in Seq(D) /\ DOMAIN new = 1..n /\ Len(new) = n
      /\ \A i \in 1..n : new[i] = IF i = h THEN d ELSE all[i]
  BY <1>3, <1>4, <1>6, <1>7
<1>10. new # <<>> /\ 1 \in 1..n
  BY <1>4, <1>9, EmptySeq
<1>11. \A i \in 1..n : new[i].inode = all[i].inode /\ new[i].is_pwd = all[i].is_pwd
  BY <1>3, <1>6, <1>9
<1>12. PICK more : more = looked \cup {<<inode, file>>}
  OBVIOUS
<1>13. About(more, inode) = About(looked, inode) \cup {file}
  <2>1. \A x : x \in About(more, inode) <=> \E p \in more : p[1] = inode /\ x = p[2]
    BY DEF About
  <2>2. \A x : x \in About(looked, inode) <=> \E p \in looked : p[1] = inode /\ x = p[2]
    BY DEF About
  <2>3. <<inode, file>>[1] = inode /\ <<inode, file>>[2] = file
    OBVIOUS
  <2>4. \A p : p \in more <=> p \in looked \/ p = <<inode, file>>
    BY <1>12
  <2>5. \A x : x \in About(more, inode) <=> x \in About(looked, inode) \/ x = file
    BY <2>1, <2>2, <2>3, <2>4
  <2> QED BY <2>5
<1>14. \A m : m # inode => About(more, m) = About(looked, m)
  <2>1. \A m : m # inode => {q \in more : q[1] = m} = {q \in looked : q[1] = m}
    BY <1>12
  <2> QED BY <2>1 DEF About
<1>15. \A i \in 1..n : i # h => all[i].inode # inode
  BY <1>2, <1>3, <1>4 DEF Sound
<1>16. ASSUME NEW i \in 1..n
       PROVE  Counted(new[i]) /\ MarkedBy(new[i], About(more, new[i].inode))
  <2>1. CASE i = h
    BY <1>6, <1>9, <1>13, <2>1
  <2>2. CASE i # h
    <3>1. new[i] = all[i] /\ About(more, new[i].inode) = About(looked, all[i].inode)
      BY <1>9, <1>14, <1>15, <2>2
    <3> QED BY <1>2, <1>4, <3>1 DEF Sound
  <2> QED BY <2>1, <2>2
<1>17. \A i, j \in 1..n : new[i].inode = new[j].inode => i = j
  BY <1>2, <1>4, <1>11 DEF Sound
<1>18. \A i \in 1..n : new[i].is_pwd = (i = 1)
  BY <1>2, <1>4, <1>11, SMTT(30) DEF Sound
<1>19. new[1].inode = first
  BY <1>2, <1>10, <1>11 DEF Sound
<1>20. \A p \in more : \E i \in 1..n : new[i].inode = p[1]
  <2>1. \A p \in looked : \E i \in 1..n : new[i].inode = p[1]
    BY <1>2, <1>4, <1>11 DEF Sound
  <2>2. new[h].inode = inode /\ h \in 1..n
    BY <1>3, <1>4, <1>11
  <2>3. <<inode, file>>[1] = inode
    OBVIOUS
  <2> QED BY <1>12, <2>1, <2>2, <2>3
<1>22. \A i \in 1..n : Proper(fs, new[i])
  BY <1>2, <1>4, <1>6, <1>9 DEF Sound
<1>21. Sound(fs, paths, first, more, new)
  BY <1>1, <1>9, <1>10, <1>16, <1>17, <1>18, <1>19, <1>20, <1>22 DEF Sound
<1> QED BY <1>8, <1>12, <1>21

\* What a word looks for, if its directory is there, and the words up to
\* the k-th.
Looks(fs, pwd, arg) ==
    LET path == normalize_path(arg, TRUE)
    IN {p \in {<<stat(fs, vg_dirname(pwd, path)), vg_basename(path)>>} : p[1] # Nowhere}

Looked(fs, pwd, args, k) == UNION {Looks(fs, pwd, args[i]) : i \in 2..k}

\* The names directories are given.
PathsOf(pwd, args) ==
    {pwd} \cup {vg_dirname(pwd, normalize_path(args[i], remove)) :
                   i \in DOMAIN args, remove \in BOOLEAN}

LEMMA WordIs ==
    ASSUME NEW fs, IsFileSystem(fs), NEW sort, NEW pwd, AbsPath(pwd), NEW arg, IsPath(arg),
           NEW paths, \A remove \in BOOLEAN : vg_dirname(pwd, normalize_path(arg, remove)) \in paths,
           NEW first, NEW looked, NEW dirs, Sound(fs, paths, first, looked, dirs)
    PROVE  Sound(fs, paths, first, looked \cup Looks(fs, pwd, arg), Word(fs, sort, pwd, dirs, arg))
<1>1. PICK path : path = normalize_path(arg, TRUE) /\ IsPath(path)
  BY PathIs
<1>2. PICK full : full = normalize_path(arg, FALSE) /\ IsPath(full)
  BY PathIs
<1>3. PICK name \in paths : name = vg_dirname(pwd, path) /\ IsPath(name)
  <2>1. vg_dirname(pwd, path) \in paths
    BY <1>1
  <2>2. AbsPath(vg_dirname(pwd, path))
    BY <1>1, DirnameIs
  <2> QED BY <2>1, <2>2 DEF AbsPath
<1>4. PICK dir \in paths : dir = vg_dirname(pwd, full) /\ IsPath(dir)
  <2>1. vg_dirname(pwd, full) \in paths
    BY <1>2
  <2>2. AbsPath(vg_dirname(pwd, full))
    BY <1>2, DirnameIs
  <2> QED BY <2>1, <2>2 DEF AbsPath
<1>5. PICK inode \in DOMAIN fs \cup {Nowhere} : inode = stat(fs, name)
  BY <1>3, StatIs
<1>6. PICK self \in DOMAIN fs \cup {Nowhere} : self = stat(fs, dir)
  BY <1>4, StatIs
<1>7. PICK file : file = vg_basename(path)
  OBVIOUS
<1>8. PICK once : once = IF inode = Nowhere THEN dirs
                         ELSE correlate_file(fs, sort, dirs, name, inode, file)
  OBVIOUS
<1>9. Word(fs, sort, pwd, dirs, arg) =
          IF has_trailing_slash(arg) /\ self # Nowhere THEN correlate(fs, sort, once, dir, self)
          ELSE once
  BY <1>1, <1>2, <1>3, <1>4, <1>5, <1>6, <1>7, <1>8 DEF Word
<1>10. PICK more : more = looked \cup Looks(fs, pwd, arg)
  OBVIOUS
<1>11. Sound(fs, paths, first, more, once)
  <2>1. Looks(fs, pwd, arg) = {p \in {<<inode, file>>} : p[1] # Nowhere}
    BY <1>1, <1>3, <1>5, <1>7 DEF Looks
  <2>2. <<inode, file>>[1] = inode
    OBVIOUS
  <2>3. CASE inode = Nowhere
    <3>1. Looks(fs, pwd, arg) = {}
      BY <2>1, <2>2, <2>3
    <3>2. more = looked /\ once = dirs
      BY <1>8, <1>10, <2>3, <3>1
    <3> QED BY <3>2
  <2>4. CASE inode # Nowhere
    <3>1. Looks(fs, pwd, arg) = {<<inode, file>>}
      BY <2>1, <2>2, <2>4
    <3>2. inode \in DOMAIN fs /\ inode = stat(fs, name) /\ once = correlate_file(fs, sort, dirs, name, inode, file)
      BY <1>5, <1>8, <2>4
    <3> QED BY <1>10, <3>1, <3>2, CorrelateFileIs
  <2> QED BY <2>3, <2>4
<1>12. CASE has_trailing_slash(arg) /\ self # Nowhere
  <2>1. self \in DOMAIN fs /\ self = stat(fs, dir)
    BY <1>6, <1>12
  <2>2. Sound(fs, paths, first, more, correlate(fs, sort, once, dir, self))
    BY <1>11, <2>1, CorrelateIs
  <2> QED BY <1>9, <1>10, <1>12, <2>2
<1>13. CASE ~ (has_trailing_slash(arg) /\ self # Nowhere)
  BY <1>9, <1>10, <1>11, <1>13
<1> QED BY <1>12, <1>13

\* All of them.
LEMMA CompileIs ==
    ASSUME NEW fs, IsFileSystem(fs), NEW sort, NEW pwd, AbsPath(pwd),
           NEW A, NEW args \in Seq(Seq(A)), stat(fs, pwd) \in DOMAIN fs
    PROVE  Sound(fs, PathsOf(pwd, args), stat(fs, pwd), Looked(fs, pwd, args, Len(args)),
                 compile_data(fs, sort, pwd, args))
<1> DEFINE n == Len(args)
           paths == PathsOf(pwd, args)
           first == stat(fs, pwd)
           V == {dirs \in Seq(ADirectory(fs, paths)) :
                    \E looked : Sound(fs, paths, first, looked, dirs)}
           start == initiate(fs, sort, pwd)
           Step(dirs, k) == IF k <= 1 THEN start ELSE Word(fs, sort, pwd, dirs, args[k])
           Is(f) == f = [i \in 0..n |-> IF i <= 1 THEN start
                                        ELSE Word(fs, sort, pwd, f[i - 1], args[i])]
           step == [k \in 1..n |-> [dirs \in V |-> Step(dirs, k)]]
           after == CHOOSE f : Is(f)
<1>1. n \in Nat /\ DOMAIN args = 1..n
  OBVIOUS
<1>2. ASSUME NEW k \in 1..n
      PROVE  /\ IsPath(args[k])
             /\ \A remove \in BOOLEAN : vg_dirname(pwd, normalize_path(args[k], remove)) \in paths
  <2>1. args[k] \in Seq(A)
    BY <1>1
  <2>2. \A remove \in BOOLEAN : vg_dirname(pwd, normalize_path(args[k], remove)) \in paths
    BY <1>1 DEF PathsOf
  <2> QED BY <2>1, <2>2 DEF IsPath
<1>3. pwd \in paths
  BY DEF PathsOf
<1>4. Sound(fs, paths, first, {}, start)
  <2> HIDE DEF paths
  <2> QED BY <1>3, InitiateIs
<1>5. compile_data(fs, sort, pwd, args) = after[n]
  BY DEF compile_data
<1> HIDE DEF paths, first, start
<1>6. ASSUME NEW k \in 1..n, NEW looked, NEW dirs, Sound(fs, paths, first, looked, dirs)
      PROVE  Sound(fs, paths, first, looked \cup Looks(fs, pwd, args[k]),
                   Word(fs, sort, pwd, dirs, args[k]))
  BY <1>2, <1>6, WordIs
<1>7. start \in V
  <2>1. start \in Seq(ADirectory(fs, paths))
    BY <1>4 DEF Sound
  <2> QED BY <1>4, <2>1
<1>8. \A k \in 1..n : \A dirs \in V : Step(dirs, k) \in V
  <2>1. ASSUME NEW k \in 1..n, NEW dirs \in V
        PROVE  Step(dirs, k) \in V
    <3>1. PICK looked : Sound(fs, paths, first, looked, dirs)
      OBVIOUS
    <3>2. Sound(fs, paths, first, looked \cup Looks(fs, pwd, args[k]),
                Word(fs, sort, pwd, dirs, args[k]))
      BY <1>6, <3>1
    <3>3. Word(fs, sort, pwd, dirs, args[k]) \in V
      BY <3>2 DEF Sound
    <3> QED BY <1>7, <3>3
  <2> QED BY <2>1
<1>9. step \in [1..n -> [V -> V]]
  <2> HIDE DEF V, Step
  <2> QED BY <1>8
<1>10. PICK g \in [0..n -> V] : Iterates(g, n, start, step)
  <2> HIDE DEF V, n, step
  <2> QED BY <1>1, <1>7, <1>9, Recursion
<1> HIDE DEF V
<1>11. ASSUME NEW k \in 1..n
       PROVE  g[k] = Step(g[k - 1], k)
  <2>1. k - 1 \in 0..n
    BY <1>1
  <2>2. g[k - 1] \in V
    BY <2>1
  <2> HIDE DEF Step
  <2>3. step[k][g[k - 1]] = Step(g[k - 1], k)
    BY <2>2
  <2> QED BY <1>10, <2>3 DEF Iterates
<1>12. g[0] = start
  BY <1>10 DEF Iterates
<1>13. Is(g)
  <2>1. ASSUME NEW k \in 0..n
        PROVE  g[k] = IF k <= 1 THEN start ELSE Word(fs, sort, pwd, g[k - 1], args[k])
    <3>1. k # 0 => k \in 1..n
      BY <1>1
    <3> QED BY <1>1, <1>11, <1>12, <3>1
  <2> QED BY <2>1
<1>14. Is(after)
  <2> HIDE DEF Is
  <2> QED BY <1>13
<1> HIDE DEF after
<1> DEFINE T == {k \in 0..n : Sound(fs, paths, first, Looked(fs, pwd, args, k), after[k])}
<1>15. 0 \in T
  <2>1. Looked(fs, pwd, args, 0) = {}
    <3>1. 2..0 = {}
      OBVIOUS
    <3> QED BY <3>1 DEF Looked
  <2>2. after[0] = start
    BY <1>1, <1>14
  <2>3. Sound(fs, paths, first, Looked(fs, pwd, args, 0), after[0])
    BY <1>4, <2>1, <2>2
  <2>4. 0 \in 0..n
    BY <1>1
  <2> QED BY <2>3, <2>4
<1>16. ASSUME NEW k \in 1..n, k - 1 \in T
       PROVE  k \in T
  <2>1. k \in 0..n /\ k \in Nat
    BY <1>1
  <2>2. CASE k = 1
    <3>1. 2..k = {}
      BY <2>2
    <3>2. Looked(fs, pwd, args, k) = {}
      BY <3>1 DEF Looked
    <3>3. after[k] = start
      BY <1>14, <2>1, <2>2
    <3> QED BY <1>4, <2>1, <3>2, <3>3
  <2>3. CASE k # 1
    <3>1. after[k] = Word(fs, sort, pwd, after[k - 1], args[k])
      <4>1. ~ (k <= 1)
        BY <2>3
      <4> QED BY <1>14, <2>1, <4>1
    <3>2. 2..k = 2..(k - 1) \cup {k}
      BY <2>1, <2>3
    <3>3. Looked(fs, pwd, args, k) = Looked(fs, pwd, args, k - 1) \cup Looks(fs, pwd, args[k])
      BY <3>2 DEF Looked
    <3>4. Sound(fs, paths, first, Looked(fs, pwd, args, k - 1), after[k - 1])
      BY <1>16
    <3>5. Sound(fs, paths, first, Looked(fs, pwd, args, k - 1) \cup Looks(fs, pwd, args[k]),
                Word(fs, sort, pwd, after[k - 1], args[k]))
      BY <1>6, <3>4
    <3> QED BY <2>1, <3>1, <3>3, <3>5
  <2> QED BY <2>2, <2>3
<1>17. \A k \in 0..n : k \in T
  <2> HIDE DEF T, n
  <2> QED BY <1>1, <1>15, <1>16, BoundedInduction
<1>18. Sound(fs, paths, first, Looked(fs, pwd, args, n), after[n])
  BY <1>1, <1>17
<1> QED BY <1>5, <1>18 DEF paths, first

\* Of these paths and files.
WellFound(in, dirs) ==
    /\ dirs \in Seq(ADirectory(Fs(in), PathsOf(Pwd(in), Args(in))))
    /\ \A i \in DOMAIN dirs : Proper(Fs(in), dirs[i])

\* What vgexpand finds for an input whose working directory is there.
LEMMA FoundIs ==
    ASSUME NEW in \in Inputs, Listed(in)
    PROVE  LET dirs == Dirs(in)
           IN /\ dirs # <<>>
              /\ \A i, j \in DOMAIN dirs : dirs[i].inode = dirs[j].inode => i = j
              /\ {i \in DOMAIN dirs : dirs[i].is_pwd} = {1}
              /\ dirs[1].inode = stat(Fs(in), Pwd(in))
              /\ \A i \in DOMAIN dirs : CountsAdd(dirs[i]) /\ MarkedByWords(in, dirs[i])
              /\ WellFound(in, dirs)
<1>1. PICK fs : fs = Fs(in) /\ IsFileSystem(fs)
  <2>1. in[1] \in DOMAIN FileSystems
    BY DEF Inputs
  <2> QED BY <2>1, ListingsAssumption DEF Fs
<1>2. PICK pwd : pwd = Pwd(in) /\ AbsPath(pwd) /\ IsPath(pwd)
  <2>1. in[2] \in DOMAIN Lines
    BY DEF Inputs
  <2>2. /\ Lines[in[2]].pwd \in Seq(ToSet(Lines[in[2]].pwd))
        /\ Lines[in[2]].pwd # <<>> /\ Lines[in[2]].pwd[1] = Slash
    BY <2>1, ListingsAssumption
  <2> QED BY <2>2 DEF Pwd, IsPath, AbsPath
<1>3. PICK A : Args(in) \in Seq(Seq(A))
  <2>1. in[2] \in DOMAIN Lines
    BY DEF Inputs
  <2>2. Lines[in[2]].cmd \in Seq(ToSet(Lines[in[2]].cmd))
    BY <2>1, ListingsAssumption
  <2> QED BY <2>2, ArgsAre DEF Args
<1>4. PICK args \in Seq(Seq(A)) : args = Args(in)
  BY <1>3
<1>5. PICK paths : paths = PathsOf(pwd, args)
  OBVIOUS
<1>6. PICK first \in DOMAIN fs : first = stat(fs, pwd)
  <2>1. stat(fs, pwd) # Nowhere
    BY <1>1, <1>2 DEF Listed
  <2> QED BY <1>1, <1>2, <2>1, StatIs
<1>7. PICK looked : looked = Looked(fs, pwd, args, Len(args))
  OBVIOUS
<1>8. PICK c : c = compile_data(fs, sorting, pwd, args) /\ Sound(fs, paths, first, looked, c)
  BY <1>1, <1>2, <1>4, <1>5, <1>6, <1>7, CompileIs
<1>9. PICK masks : masks = Masks[in[3]]
  OBVIOUS
<1>10. PICK n \in Nat : /\ n = Len(c) /\ DOMAIN c = 1..n /\ 1 \in 1..n
                        /\ \A i \in 1..n : c[i] \in ADirectory(fs, paths)
  <2>1. PICK D : D = ADirectory(fs, paths)
    OBVIOUS
  <2>2. c \in Seq(D) /\ c # <<>>
    BY <1>8, <2>1 DEF Sound
  <2>3. Len(c) \in Nat \ {0}
    BY <2>2, EmptySeq
  <2> QED BY <2>1, <2>2, <2>3
<1>11. PICK dirs : dirs = Dirs(in)
  OBVIOUS
<1>12. /\ DOMAIN dirs = 1..n /\ \A i \in 1..n : dirs[i] = mask_traverse(c[i], masks)
       /\ dirs = [i \in 1..n |-> dirs[i]]
  <2> DEFINE list == [i \in 1..n |-> mask_traverse(c[i], masks)]
  <2>1. dirs = SubSeq(list, 1, n)
    BY <1>1, <1>2, <1>4, <1>8, <1>9, <1>10, <1>11 DEF Dirs, Found, Each
  <2>2. list = [i \in 1..n |-> list[i]] /\ DOMAIN list = 1..n
    OBVIOUS
  <2>3. \A i \in 1..n : list[i] = mask_traverse(c[i], masks)
    OBVIOUS
  <2> HIDE DEF list
  <2> QED BY <2>1, <2>2, <2>3, FunctionIs
<1>13. \A i \in DOMAIN c : Counted(c[i]) /\ MarkedBy(c[i], About(looked, c[i].inode))
  BY <1>8 DEF Sound
<1>14. ASSUME NEW i \in 1..n
       PROVE  /\ dirs[i].inode = c[i].inode /\ dirs[i].is_pwd = c[i].is_pwd
              /\ CountsAdd(dirs[i]) /\ MarkedBy(dirs[i], About(looked, c[i].inode))
              /\ dirs[i] \in ADirectory(fs, paths) /\ Proper(fs, dirs[i])
  <2>1. PICK d \in ADirectory(fs, paths) : d = c[i]
    BY <1>10
  <2>2. Counted(d) /\ MarkedBy(d, About(looked, d.inode)) /\ Proper(fs, d)
    BY <1>8, <1>10, <1>13, <2>1 DEF Sound
  <2>3. PICK m : m = mask_traverse(d, masks)
    OBVIOUS
  <2>4. m.inode = d.inode /\ m.is_pwd = d.is_pwd
    BY <2>3 DEF mask_traverse, ADirectory
  <2>5. /\ CountsAdd(m) /\ MarkedBy(m, About(looked, d.inode))
        /\ m \in ADirectory(fs, paths) /\ Proper(fs, m)
    BY <2>2, <2>3, MaskIs
  <2> QED BY <1>12, <2>1, <2>3, <2>4, <2>5
<1>15. \A i \in 1..n : c[i].inode \in DOMAIN fs /\ c[i].is_pwd \in BOOLEAN
  BY <1>10 DEF ADirectory
<1>16. ASSUME NEW i \in 1..n
       PROVE  Lookups(in, dirs[i]) = About(looked, dirs[i].inode)
  <2> DEFINE path(j) == normalize_path(args[j], TRUE)
             at(j) == stat(fs, vg_dirname(pwd, path(j)))
             base(j) == vg_basename(path(j))
  <2>1. PICK inode \in DOMAIN fs : inode = dirs[i].inode /\ inode # Nowhere
    <3>1. Nowhere \notin DOMAIN fs
      BY <1>1 DEF IsFileSystem
    <3> QED BY <1>14, <1>15, <3>1
  <2>2. Lookups(in, dirs[i]) = {base(j) : j \in {k \in 2..Len(args) : at(k) = inode}}
    BY <1>1, <1>2, <1>4, <2>1 DEF Lookups
  <2>3. looked = UNION {Looks(fs, pwd, args[j]) : j \in 2..Len(args)}
    BY <1>7 DEF Looked
  <2>4. \A j : Looks(fs, pwd, args[j]) = {p \in {<<at(j), base(j)>>} : p[1] # Nowhere}
    BY DEF Looks
  <2> HIDE DEF path, at, base
  <2>5. \A j : <<at(j), base(j)>>[1] = at(j) /\ <<at(j), base(j)>>[2] = base(j)
    OBVIOUS
  <2>6. ASSUME NEW x
        PROVE  x \in About(looked, inode) <=> \E j \in 2..Len(args) : at(j) = inode /\ x = base(j)
    <3>1. x \in About(looked, inode) <=> \E p \in looked : p[1] = inode /\ x = p[2]
      BY DEF About
    <3>2. ASSUME NEW p \in looked, p[1] = inode, x = p[2]
          PROVE  \E j \in 2..Len(args) : at(j) = inode /\ x = base(j)
      <4>1. PICK j \in 2..Len(args) : p \in Looks(fs, pwd, args[j])
        BY <2>3
      <4>2. p = <<at(j), base(j)>>
        BY <2>4, <4>1
      <4> QED BY <2>5, <3>2, <4>2
    <3>3. ASSUME NEW j \in 2..Len(args), at(j) = inode, x = base(j)
          PROVE  \E p \in looked : p[1] = inode /\ x = p[2]
      <4>1. PICK p : p = <<at(j), base(j)>> /\ p[1] = at(j) /\ p[2] = base(j)
        BY <2>5
      <4>2. p \in Looks(fs, pwd, args[j])
        BY <2>1, <2>4, <3>3, <4>1
      <4>3. p \in looked
        BY <2>3, <4>2
      <4> QED BY <3>3, <4>1, <4>3
    <3> QED BY <3>1, <3>2, <3>3
  <2>7. \A x : x \in Lookups(in, dirs[i]) <=> \E j \in 2..Len(args) : at(j) = inode /\ x = base(j)
    BY <2>2
  <2>8. \A x : x \in Lookups(in, dirs[i]) <=> x \in About(looked, inode)
    BY <2>6, <2>7
  <2>9. Lookups(in, dirs[i]) = About(looked, inode)
    BY <2>8
  <2> QED BY <2>1, <2>9
<1>17. \A i \in 1..n : CountsAdd(dirs[i]) /\ MarkedByWords(in, dirs[i])
  <2>1. ASSUME NEW i \in 1..n
        PROVE  CountsAdd(dirs[i]) /\ MarkedByWords(in, dirs[i])
    <3>1. PICK L : L = Lookups(in, dirs[i])
      OBVIOUS
    <3>2. CountsAdd(dirs[i]) /\ MarkedBy(dirs[i], L)
      BY <1>14, <1>16, <3>1
    <3> QED BY <3>1, <3>2 DEF MarkedBy, MarkedByWords
  <2> QED BY <2>1
<1>18. \A i, j \in 1..n : dirs[i].inode = dirs[j].inode => i = j
  BY <1>8, <1>10, <1>14, SMTT(30) DEF Sound
<1>19. {i \in 1..n : dirs[i].is_pwd} = {1}
  <2>1. \A i \in 1..n : dirs[i].is_pwd = (i = 1)
    BY <1>8, <1>10, <1>14, SMTT(30) DEF Sound
  <2> QED BY <1>10, <2>1
<1>20. dirs[1].inode = first
  BY <1>8, <1>10, <1>14 DEF Sound
<1>21. dirs # <<>>
  BY <1>10, <1>12
<1>22. /\ \A i, j \in DOMAIN dirs : dirs[i].inode = dirs[j].inode => i = j
       /\ {i \in DOMAIN dirs : dirs[i].is_pwd} = {1}
       /\ dirs[1].inode = stat(Fs(in), Pwd(in))
       /\ \A i \in DOMAIN dirs : CountsAdd(dirs[i]) /\ MarkedByWords(in, dirs[i])
  <2>1. \A i, j \in DOMAIN dirs : dirs[i].inode = dirs[j].inode => i = j
    BY <1>12, <1>18
  <2>2. {i \in DOMAIN dirs : dirs[i].is_pwd} = {1}
    BY <1>12, <1>19
  <2>3. dirs[1].inode = stat(Fs(in), Pwd(in))
    BY <1>1, <1>2, <1>6, <1>20
  <2>4. \A i \in DOMAIN dirs : CountsAdd(dirs[i]) /\ MarkedByWords(in, dirs[i])
    BY <1>12, <1>17
  <2> QED BY <2>1, <2>2, <2>3, <2>4
<1>23. WellFound(in, dirs)
  <2>1. PICK D : D = ADirectory(fs, paths)
    OBVIOUS
  <2>2. \A i \in 1..n : dirs[i] \in D
    BY <1>14, <2>1
  <2>3. dirs \in Seq(D)
    BY <1>12, <2>2, FunctionIs
  <2> QED BY <1>1, <1>2, <1>4, <1>5, <1>12, <1>14, <2>1, <2>3 DEF WellFound
<1> QED BY <1>11, <1>21, <1>22, <1>23

-----------------------------------------------------------------------------
(* The report.                                                             *)

\* A path below the home directory: the rest of it comes after a tilde.
Tilded(p, t) ==
    /\ IsPath(t) /\ Len(p) > Len(Home) /\ Len(t) = Len(p) - Len(Home) + 1 /\ t[1] = "~"
    /\ \A i \in 1..Len(Home) : p[i] = Home[i]
    /\ \A i \in 1..(Len(p) - Len(Home)) : t[i + 1] = p[Len(Home) + i]

LEMMA TildedIs ==
    ASSUME NEW p, IsPath(p), IsStrictPrefix(Append(Home, Slash), p)
    PROVE  Tilded(p, <<"~">> \o SubSeq(p, Len(Home) + 1, Len(p)))
<1>1. PICK X : p \in Seq(X) /\ Home \in Seq(X) /\ {Slash, "~"} \subseteq X
  <2>1. PICK Y : p \in Seq(Y)
    BY DEF IsPath
  <2>2. PICK X : X = Y \cup ToSet(Home) \cup {Slash, "~"}
    OBVIOUS
  <2>3. Len(p) \in Nat /\ \A i \in 1..Len(p) : p[i] \in X
    BY <2>1, <2>2
  <2>4. Len(Home) \in Nat /\ \A i \in 1..Len(Home) : Home[i] \in X
    BY <2>2, HomeAssumption
  <2> QED BY <2>1, <2>2, <2>3, <2>4, HomeAssumption
<1>2. PICK h \in Nat : h = Len(Home)
  BY <1>1
<1>3. PICK n \in Nat : n = Len(p) /\ \A i \in 1..n : p[i] \in X
  BY <1>1
<1>4. PICK s \in Seq(X) : /\ s = Append(Home, Slash) /\ Len(s) = h + 1
                          /\ \A i \in 1..h : s[i] = Home[i]
  <2>1. PICK s : s = Append(Home, Slash)
    OBVIOUS
  <2>2. s \in Seq(X) /\ Len(s) = h + 1 /\ \A i \in 1..h : s[i] = Home[i]
    BY <1>1, <1>2, <2>1, AppendProperties
  <2> QED BY <2>1, <2>2
<1>5. h + 1 <= n /\ SubSeq(s, 1, h + 1) = SubSeq(p, 1, h + 1)
  BY <1>3, <1>4 DEF IsStrictPrefix, IsPrefix
<1>6. ASSUME NEW i \in 1..h
      PROVE  p[i] = Home[i]
  <2>1. /\ 1 \in Int /\ h + 1 \in Int /\ i \in 1..((h + 1) - 1 + 1) /\ 1 + i - 1 = i
        /\ \A j \in 1..(h + 1) : s[j] \in X
        /\ \A j \in 1..(h + 1) : p[j] \in X
    BY <1>3, <1>4, <1>5
  <2>2. SubSeq(s, 1, h + 1)[i] = s[i]
    BY <2>1, SubSeqProperties
  <2>3. SubSeq(p, 1, h + 1)[i] = p[i]
    BY <2>1, SubSeqProperties
  <2> QED BY <1>4, <1>5, <2>2, <2>3
<1>7. PICK rest \in Seq(X) : /\ rest = SubSeq(p, h + 1, n) /\ Len(rest) = n - h
                             /\ \A i \in 1..(n - h) : rest[i] = p[h + i]
  <2>1. h + 1 \in Int /\ n \in Int /\ \A i \in (h + 1)..n : p[i] \in X
    BY <1>3
  <2>2. PICK rest : rest = SubSeq(p, h + 1, n)
    OBVIOUS
  <2>3. /\ rest \in Seq(X) /\ Len(rest) = IF h + 1 <= n THEN n - (h + 1) + 1 ELSE 0
        /\ \A i \in 1..(n - (h + 1) + 1) : rest[i] = p[(h + 1) + i - 1]
    BY <2>1, <2>2, SubSeqProperties
  <2>4. Len(rest) = n - h
    BY <1>5, <2>3
  <2>5. \A i \in 1..(n - h) : rest[i] = p[h + i]
    BY <2>3
  <2> QED BY <2>2, <2>3, <2>4, <2>5
<1>8. PICK one \in Seq(X) : one = <<"~">> /\ Len(one) = 1 /\ one[1] = "~"
  <2>1. PICK c \in X : c = "~"
    BY <1>1
  <2>2. <<c>> \in Seq(X) /\ Len(<<c>>) = 1 /\ <<c>>[1] = c
    OBVIOUS
  <2> QED BY <2>1, <2>2
<1>9. PICK t : t = one \o rest
  OBVIOUS
<1>10. t \in Seq(X) /\ Len(t) = 1 + (n - h) /\ t[1] = "~"
  <2>1. n - h \in Nat /\ 1 \in 1..1
    BY <1>5
  <2>2. t \in Seq(X) /\ Len(t) = 1 + (n - h) /\ t[1] = one[1]
    BY <1>7, <1>8, <1>9, <2>1, ConcatIs
  <2> QED BY <1>8, <2>2
<1>11. ASSUME NEW i \in 1..(n - h)
       PROVE  t[i + 1] = p[h + i]
  <2>1. i \in 1..Len(rest) /\ i + 1 = Len(one) + i
    BY <1>7, <1>8
  <2>2. t[i + 1] = rest[i]
    BY <1>9, <2>1, ConcatAfter
  <2> QED BY <1>7, <2>2
<1>12. Tilded(p, t)
  BY <1>2, <1>3, <1>5, <1>6, <1>10, <1>11 DEF Tilded, IsPath
<1> QED BY <1>2, <1>3, <1>7, <1>8, <1>9, <1>12

\* The name a directory is listed by.
TildeOf(p, t) ==
    \/ p = Home /\ t = <<"~">>
    \/ Tilded(p, t)
    \/ t = p

LEMMA TildeIs ==
    ASSUME NEW p, AbsPath(p)
    PROVE  TildeOf(p, home_to_tilde(p)) /\ home_to_tilde(p) # <<>>
<1>1. IsPath(p) /\ p # <<>>
  BY DEF AbsPath
<1>2. CASE p = Home
  <2>1. home_to_tilde(p) = <<"~">>
    BY <1>2 DEF home_to_tilde
  <2> QED BY <1>2, <2>1 DEF TildeOf
<1>3. CASE p # Home /\ IsStrictPrefix(Append(Home, Slash), p)
  <2>1. PICK t : t = home_to_tilde(p)
    OBVIOUS
  <2>2. t = <<"~">> \o SubSeq(p, Len(Home) + 1, Len(p))
    BY <1>3, <2>1 DEF home_to_tilde
  <2>3. Tilded(p, t)
    BY <1>1, <1>3, <2>2, TildedIs
  <2>4. Len(t) > 0
    <3>1. PICK h \in Nat : h = Len(Home)
      BY HomeAssumption
    <3>2. PICK n \in Nat : n = Len(p)
      BY <1>1 DEF IsPath
    <3>3. n > h /\ Len(t) = n - h + 1
      BY <2>3, <3>1, <3>2 DEF Tilded
    <3> QED BY <3>1, <3>2, <3>3
  <2>5. t # <<>>
    BY <2>4
  <2> QED BY <2>1, <2>3, <2>5 DEF TildeOf
<1>4. CASE p # Home /\ ~ IsStrictPrefix(Append(Home, Slash), p)
  <2>1. home_to_tilde(p) = p
    BY <1>4 DEF home_to_tilde
  <2> QED BY <1>1, <2>1 DEF TildeOf
<1> QED BY <1>2, <1>3, <1>4

\* Two directories have the same name only if they have the same path.
LEMMA TildeTells ==
    ASSUME NEW p, AbsPath(p), NEW q, AbsPath(q), home_to_tilde(p) = home_to_tilde(q)
    PROVE  p = q
<1>1. PICK t : t = home_to_tilde(p) /\ t = home_to_tilde(q) /\ TildeOf(p, t) /\ TildeOf(q, t)
  BY TildeIs
<1>2. PICK h \in Nat : h = Len(Home)
  BY HomeAssumption
<1>3. PICK m \in Nat : m = Len(p) /\ p = [i \in 1..m |-> p[i]]
  BY DEF AbsPath, IsPath
<1>4. PICK n \in Nat : n = Len(q) /\ q = [i \in 1..n |-> q[i]]
  BY DEF AbsPath, IsPath
<1>5. p[1] = Slash /\ q[1] = Slash /\ Slash # "~"
  BY DEF AbsPath, Slash
<1>6. <<"~">>[1] = "~" /\ Len(<<"~">>) = 1
  OBVIOUS
<1>7. Tilded(p, t) => m > h /\ Len(t) = m - h + 1 /\ t[1] = "~"
  BY <1>2, <1>3 DEF Tilded
<1>8. Tilded(q, t) => n > h /\ Len(t) = n - h + 1 /\ t[1] = "~"
  BY <1>2, <1>4 DEF Tilded
<1>9. CASE Tilded(p, t) /\ Tilded(q, t)
  <2>1. m = n
    BY <1>7, <1>8, <1>9
  <2>2. ASSUME NEW i \in 1..m
        PROVE  p[i] = q[i]
    <3>1. CASE i <= h
      <4>1. i \in 1..h
        BY <1>2, <3>1
      <4> QED BY <1>2, <1>9, <4>1 DEF Tilded
    <3>2. CASE ~ (i <= h)
      <4>1. PICK j \in Nat : j = i - h /\ j \in 1..(m - h) /\ i = h + j
        BY <3>2
      <4>2. t[j + 1] = p[h + j]
        BY <1>2, <1>3, <1>9, <4>1 DEF Tilded
      <4>3. t[j + 1] = q[h + j]
        BY <1>2, <1>4, <1>9, <2>1, <4>1 DEF Tilded
      <4> QED BY <4>1, <4>2, <4>3
    <3> QED BY <3>1, <3>2
  <2> QED BY <1>3, <1>4, <2>1, <2>2
<1>10. CASE ~ (Tilded(p, t) /\ Tilded(q, t))
  <2>1. CASE p = Home /\ t = <<"~">>
    <3>1. ~ Tilded(q, t)
      BY <1>6, <1>8, <2>1
    <3>2. q # t
      BY <1>5, <1>6, <2>1
    <3> QED BY <1>1, <2>1, <3>1, <3>2 DEF TildeOf
  <2>2. CASE q = Home /\ t = <<"~">>
    <3>1. ~ Tilded(p, t)
      BY <1>6, <1>7, <2>2
    <3>2. p # t
      BY <1>5, <1>6, <2>2
    <3> QED BY <1>1, <2>2, <3>1, <3>2 DEF TildeOf
  <2>3. CASE t = p /\ t = q
    BY <2>3
  <2>4. CASE Tilded(p, t) /\ t = q
    BY <1>5, <1>7, <2>4
  <2>5. CASE t = p /\ Tilded(q, t)
    BY <1>5, <1>8, <2>5
  <2> QED BY <1>1, <1>10, <2>1, <2>2, <2>3, <2>4, <2>5 DEF TildeOf
<1> QED BY <1>9, <1>10

\* The same list in another order.
Reordering(S, dirs, s) ==
    /\ s \in Seq(S) /\ Len(s) = Len(dirs)
    /\ \E f \in [1..Len(dirs) -> 1..Len(dirs)] :
          /\ \A k \in 1..Len(dirs) : s[k] = dirs[f[k]]
          /\ \A j, k \in 1..Len(dirs) : f[j] = f[k] => j = k

\* Whatever the order, every directory has its place.
LEMMA OrderIs ==
    ASSUME NEW S, NEW dirs \in Seq(S), dirs # <<>>, NEW order
    PROVE  Reordering(S, dirs, InOrder(order, dirs))
<1>1. PICK n \in Nat : n = Len(dirs) /\ DOMAIN dirs = 1..n /\ n # 0 /\ \A i \in 1..n : dirs[i] \in S
  BY EmptySeq
<1>2. PICK s : s = InOrder(order, dirs)
  OBVIOUS
<1>3. ASSUME NEW T, NEW u \in Seq(T), NEW m \in Nat, m = Len(u)
      PROVE  /\ Reverse(u) \in Seq(T) /\ Len(Reverse(u)) = m
             /\ \A k \in 1..m : Reverse(u)[k] = u[m - k + 1]
  <2>1. PICK r : r = Reverse(u)
    OBVIOUS
  <2>2. r = [k \in 1..m |-> u[(m - k) + 1]]
    BY <1>3, <2>1 DEF Reverse
  <2>3. \A k \in 1..m : (m - k) + 1 \in 1..m
    OBVIOUS
  <2>4. r = [k \in 1..m |-> r[k]] /\ \A k \in 1..m : r[k] = u[(m - k) + 1] /\ r[k] \in T
    BY <1>3, <2>2, <2>3
  <2>5. r \in Seq(T) /\ Len(r) = m
    BY <2>4, FunctionIs
  <2> QED BY <2>1, <2>4, <2>5
<1>7. ASSUME NEW f \in [1..n -> 1..n], \A j, k \in 1..n : f[j] = f[k] => j = k,
             s \in Seq(S), Len(s) = n, \A k \in 1..n : s[k] = dirs[f[k]]
      PROVE  Reordering(S, dirs, s)
  BY <1>1, <1>7 DEF Reordering
<1>4. CASE order = "-a"
  <2>1. s = Reverse(dirs)
    BY <1>2, <1>4 DEF InOrder
  <2>2. PICK f : f = [k \in 1..n |-> n - k + 1]
    OBVIOUS
  <2>3. f \in [1..n -> 1..n] /\ \A j, k \in 1..n : f[j] = f[k] => j = k
    BY <2>2
  <2>4. s \in Seq(S) /\ Len(s) = n /\ \A k \in 1..n : s[k] = dirs[f[k]]
    BY <1>1, <1>3, <2>1, <2>2
  <2> QED BY <1>1, <1>2, <1>7, <2>3, <2>4
<1>5. CASE order = "-p"
  <2>1. s = <<Head(dirs)>> \o Reverse(Tail(dirs))
    BY <1>2, <1>5 DEF InOrder
  <2>2. PICK f : f = [k \in 1..n |-> IF k = 1 THEN 1 ELSE n - k + 2]
    OBVIOUS
  <2>3. f \in [1..n -> 1..n] /\ \A j, k \in 1..n : f[j] = f[k] => j = k
    BY <2>2
  <2>4. /\ Head(dirs) = dirs[1] /\ Tail(dirs) \in Seq(S) /\ Len(Tail(dirs)) = n - 1
        /\ \A i \in 1..(n - 1) : Tail(dirs)[i] = dirs[i + 1]
    BY <1>1, HeadTailProperties
  <2>5. PICK one \in Seq(S) : one = <<Head(dirs)>> /\ Len(one) = 1 /\ one[1] = dirs[1]
    <3>1. PICK c \in S : c = Head(dirs) /\ c = dirs[1]
      BY <1>1, <2>4
    <3>2. <<c>> \in Seq(S) /\ Len(<<c>>) = 1 /\ <<c>>[1] = c
      OBVIOUS
    <3> QED BY <3>1, <3>2
  <2>6. PICK r \in Seq(S) : /\ r = Reverse(Tail(dirs)) /\ Len(r) = n - 1
                            /\ \A k \in 1..(n - 1) : r[k] = dirs[n - k + 1]
    <3>1. n - 1 \in Nat
      BY <1>1
    <3>2. PICK tail \in Seq(S) : tail = Tail(dirs) /\ Len(tail) = n - 1
      BY <2>4
    <3>3. PICK r : r = Reverse(tail)
      OBVIOUS
    <3>4. r \in Seq(S) /\ Len(r) = n - 1 /\ \A k \in 1..(n - 1) : r[k] = tail[(n - 1) - k + 1]
      BY <1>3, <3>1, <3>2, <3>3
    <3>5. ASSUME NEW k \in 1..(n - 1)
          PROVE  r[k] = dirs[n - k + 1]
      <4>1. (n - 1) - k + 1 \in 1..(n - 1) /\ ((n - 1) - k + 1) + 1 = n - k + 1
        BY <1>1
      <4>2. tail[(n - 1) - k + 1] = dirs[((n - 1) - k + 1) + 1]
        BY <2>4, <3>2, <4>1
      <4> QED BY <3>4, <4>1, <4>2
    <3> QED BY <3>2, <3>3, <3>4, <3>5
  <2>7. s \in Seq(S) /\ Len(s) = n /\ s[1] = dirs[1]
    <3>1. n - 1 \in Nat /\ 1 + (n - 1) = n /\ 1 \in 1..1
      BY <1>1
    <3>2. s \in Seq(S) /\ Len(s) = 1 + (n - 1) /\ s[1] = one[1]
      BY <2>1, <2>5, <2>6, <3>1, ConcatIs
    <3> QED BY <2>5, <3>1, <3>2
  <2>8. ASSUME NEW k \in 1..n
        PROVE  s[k] = dirs[f[k]]
    <3>1. CASE k = 1
      BY <2>2, <2>7, <3>1
    <3>2. CASE k # 1
      <4>1. PICK j \in 1..Len(r) : j = k - 1 /\ k = Len(one) + j /\ j \in 1..(n - 1)
        BY <2>5, <2>6, <3>2
      <4>2. s[k] = r[j]
        BY <2>1, <2>5, <2>6, <4>1, ConcatAfter
      <4>3. r[j] = dirs[n - j + 1] /\ n - j + 1 = n - k + 2
        BY <2>6, <4>1
      <4> QED BY <2>2, <3>2, <4>2, <4>3
    <3> QED BY <3>1, <3>2
  <2> QED BY <1>1, <1>2, <1>7, <2>3, <2>7, <2>8
<1>6. CASE order \notin {"-a", "-p"}
  <2>1. s = dirs
    BY <1>2, <1>6 DEF InOrder
  <2>2. PICK f : f = [k \in 1..n |-> k]
    OBVIOUS
  <2>3. f \in [1..n -> 1..n] /\ \A j, k \in 1..n : f[j] = f[k] => j = k
    BY <2>2
  <2>4. s \in Seq(S) /\ Len(s) = n /\ \A k \in 1..n : s[k] = dirs[f[k]]
    BY <1>1, <2>1, <2>2
  <2> QED BY <1>1, <1>2, <1>7, <2>3, <2>4
<1> QED BY <1>4, <1>5, <1>6

\* What is printed of a directory: each file once, and none of an empty one.
LEMMA PrintIs ==
    ASSUME NEW fs, NEW paths, NEW dir \in ADirectory(fs, paths), CountsAdd(dir), Proper(fs, dir),
           NEW N, home_to_tilde(dir.name) \in N,
           NEW F, \A f \in AFile(fs) : [name |-> f.name, type |-> f.type, sel |-> f.selected] \in F
    PROVE  LET d == print_dir(dir)
           IN /\ d \in ADir(N, F) /\ d.name = home_to_tilde(dir.name)
              /\ NamedOnce(d.files) /\ (d.total = 0 => d.files = <<>>)
<1>1. PICK all \in Seq(AFile(fs)) : all = dir.files
  BY DEF ADirectory
<1>2. PICK n \in Nat : n = Len(all) /\ DOMAIN all = 1..n
  OBVIOUS
<1>3. PICK kept \in SUBSET (1..n) : kept = {i \in DOMAIN all : all[i].shown}
  BY <1>2
<1>4. PICK t : t = Picked(all, kept)
  OBVIOUS
<1>5. /\ t \in Seq(AFile(fs)) /\ Len(t) = Cardinality(kept)
      /\ \E f \in [1..Len(t) -> kept] :
            /\ \A k \in 1..Len(t) : t[k] = all[f[k]]
            /\ \A j, k \in 1..Len(t) : j < k => f[j] < f[k]
  <2>1. kept \in SUBSET (1..Len(all))
    BY <1>2
  <2> QED BY <1>4, <2>1, PickedIs, SMTT(30)
<1>6. PICK m \in Nat : m = Len(t) /\ DOMAIN t = 1..m
  BY <1>5
<1>7. PICK f \in [1..m -> kept] : /\ \A k \in 1..m : t[k] = all[f[k]]
                                  /\ \A j, k \in 1..m : j < k => f[j] < f[k]
  BY <1>5, <1>6
<1>8. ASSUME NEW j \in 1..m, NEW k \in 1..m, t[j].name = t[k].name
      PROVE  j = k
  <2>1. PICK a \in 1..n : a = f[j] /\ t[j] = all[a]
    BY <1>3, <1>7
  <2>2. PICK b \in 1..n : b = f[k] /\ t[k] = all[b]
    BY <1>3, <1>7
  <2>3. a = b
    BY <1>1, <1>2, <1>8, <2>1, <2>2 DEF Proper, NamedOnce
  <2>5. (j < k => a < b) /\ (k < j => b < a)
    BY <1>7, <2>1, <2>2
  <2>4. ~ (j < k) /\ ~ (k < j)
    BY <2>3, <2>5
  <2> QED BY <2>4
<1>9. PICK list : list = [k \in 1..m |-> [name |-> t[k].name, type |-> t[k].type, sel |-> t[k].selected]]
  OBVIOUS
<1>10. /\ list = [k \in 1..m |-> list[k]]
       /\ \A k \in 1..m : list[k] \in F /\ list[k].name = t[k].name
  BY <1>5, <1>6, <1>9
<1>11. list \in Seq(F) /\ Len(list) = m /\ DOMAIN list = 1..m /\ SubSeq(list, 1, m) = list
  <2>1. DOMAIN list = 1..m
    BY <1>9
  <2> QED BY <1>10, <2>1, FunctionIs
<1>12. NamedOnce(list)
  BY <1>8, <1>10, <1>11 DEF NamedOnce
<1>13. PICK d : d = print_dir(dir)
  OBVIOUS
<1>14. d = [selected |-> dir.selected_count, total |-> dir.file_count, hidden |-> dir.hidden_count,
            is_pwd |-> dir.is_pwd, name |-> home_to_tilde(dir.name), files |-> list]
  <2>1. Each(t, LAMBDA g : [name |-> g.name, type |-> g.type, sel |-> g.selected]) = list
    BY <1>6, <1>9, <1>11 DEF Each
  <2>2. Picked(dir.files, {i \in DOMAIN dir.files : dir.files[i].shown}) = t
    BY <1>1, <1>3, <1>4
  <2> QED BY <1>13, <2>1, <2>2 DEF print_dir
<1>15. /\ d.total = dir.file_count /\ d.name = home_to_tilde(dir.name) /\ d.files = list
       /\ d \in ADir(N, F)
  BY <1>11, <1>14 DEF ADir, ADirectory
<1>16. ASSUME d.total = 0
       PROVE  d.files = <<>>
  <2>1. n = 0
    BY <1>1, <1>2, <1>15, <1>16 DEF CountsAdd
  <2>2. kept = {}
    BY <1>3, <2>1
  <2>3. m = 0
    BY <1>5, <1>6, <2>2, FS_EmptySet
  <2> QED BY <1>11, <1>15, <2>3, EmptySeq
<1> QED BY <1>12, <1>13, <1>15, <1>16

\* The names directories may be listed by, and the files of them.
DirNames ==
    {home_to_tilde(p) : p \in UNION {PathsOf(Pwd(in), Args(in)) : in \in Inputs}}

DirFiles ==
    {[name |-> f.name, type |-> f.type, sel |-> f.selected] : f \in UNION {AFile(Fs(in)) : in \in Inputs}}

\* Every directory of an input has an absolute path.
LEMMA PathsAbsolute ==
    ASSUME NEW in \in Inputs, NEW p \in PathsOf(Pwd(in), Args(in))
    PROVE  AbsPath(p)
<1>1. AbsPath(Pwd(in))
  <2>1. in[2] \in DOMAIN Lines
    BY DEF Inputs
  <2>2. /\ Lines[in[2]].pwd \in Seq(ToSet(Lines[in[2]].pwd))
        /\ Lines[in[2]].pwd # <<>> /\ Lines[in[2]].pwd[1] = Slash
    BY <2>1, ListingsAssumption
  <2> QED BY <2>2 DEF Pwd, IsPath, AbsPath
<1>2. PICK A : Args(in) \in Seq(Seq(A))
  <2>1. in[2] \in DOMAIN Lines
    BY DEF Inputs
  <2>2. Lines[in[2]].cmd \in Seq(ToSet(Lines[in[2]].cmd))
    BY <2>1, ListingsAssumption
  <2> QED BY <2>2, ArgsAre DEF Args
<1>3. CASE p = Pwd(in)
  BY <1>1, <1>3
<1>4. ASSUME NEW i \in DOMAIN Args(in), NEW remove \in BOOLEAN,
             p = vg_dirname(Pwd(in), normalize_path(Args(in)[i], remove))
      PROVE  AbsPath(p)
  <2>1. IsPath(Args(in)[i])
    BY <1>2 DEF IsPath
  <2>2. IsPath(normalize_path(Args(in)[i], remove))
    BY <2>1, PathIs
  <2> QED BY <1>1, <1>4, <2>2, DirnameIs
<1> QED BY <1>3, <1>4 DEF PathsOf

LEMMA NoDirIsNone ==
    NoDir \notin DirNames
<1>1. ASSUME NEW p, p \in UNION {PathsOf(Pwd(in), Args(in)) : in \in Inputs}
      PROVE  home_to_tilde(p) # NoDir
  <2>1. PICK in \in Inputs : p \in PathsOf(Pwd(in), Args(in))
    BY <1>1
  <2>2. AbsPath(p)
    BY <2>1, PathsAbsolute
  <2> QED BY <2>2, TildeIs DEF NoDir
<1> QED BY <1>1 DEF DirNames

\* The report of an input lists each directory once, and each file of it.
LEMMA ReportIs ==
    ASSUME NEW in \in Inputs, Listed(in)
    PROVE  /\ GoodListing(DirNames, DirFiles, report(ordering, Dirs(in)))
           /\ report(ordering, Dirs(in)) # <<>>
<1>1. PICK fs : fs = Fs(in)
  OBVIOUS
<1>2. PICK paths : paths = PathsOf(Pwd(in), Args(in))
  OBVIOUS
<1>3. PICK N : N = DirNames
  OBVIOUS
<1>4. PICK F : F = DirFiles
  OBVIOUS
<1>5. PICK D : D = ADirectory(fs, paths)
  OBVIOUS
<1>6. PICK dirs : /\ dirs = Dirs(in) /\ dirs # <<>>
                  /\ \A i, j \in DOMAIN dirs : dirs[i].inode = dirs[j].inode => i = j
                  /\ \A i \in DOMAIN dirs : CountsAdd(dirs[i])
                  /\ WellFound(in, dirs)
  BY FoundIs
<1>7. dirs \in Seq(D) /\ \A i \in DOMAIN dirs : Proper(fs, dirs[i])
  BY <1>1, <1>2, <1>5, <1>6 DEF WellFound
<1>8. PICK n \in Nat : n = Len(dirs) /\ DOMAIN dirs = 1..n /\ n # 0
  BY <1>6, <1>7, EmptySeq
<1>9. PICK s : s = InOrder(ordering, dirs)
  OBVIOUS
<1>10. s \in Seq(D) /\ Len(s) = n
       /\ \E f \in [1..n -> 1..n] : /\ \A k \in 1..n : s[k] = dirs[f[k]]
                                    /\ \A j, k \in 1..n : f[j] = f[k] => j = k
  <2>1. Reordering(D, dirs, s)
    BY <1>6, <1>7, <1>9, OrderIs
  <2> QED BY <1>8, <2>1 DEF Reordering
<1>11. PICK f \in [1..n -> 1..n] : /\ \A k \in 1..n : s[k] = dirs[f[k]]
                                   /\ \A j, k \in 1..n : f[j] = f[k] => j = k
  BY <1>10
<1>12. ASSUME NEW k \in 1..n
       PROVE  /\ s[k] \in D /\ CountsAdd(s[k]) /\ Proper(fs, s[k])
              /\ home_to_tilde(s[k].name) \in N /\ AbsPath(s[k].name)
  <2>1. PICK dir \in D : dir = s[k] /\ CountsAdd(dir) /\ Proper(fs, dir)
    <3>1. f[k] \in 1..n
      OBVIOUS
    <3>2. dirs[f[k]] \in D
      BY <1>7, <1>8, <3>1
    <3> QED BY <1>6, <1>7, <1>8, <1>11, <3>1, <3>2
  <2>2. dir.name \in paths
    BY <1>5, <2>1 DEF ADirectory
  <2>3. AbsPath(dir.name)
    BY <1>2, <2>2, PathsAbsolute
  <2>4. home_to_tilde(dir.name) \in N
    BY <1>2, <1>3, <2>2 DEF DirNames
  <2> QED BY <2>1, <2>3, <2>4
<1>13. ASSUME NEW j \in 1..n, NEW k \in 1..n, home_to_tilde(s[j].name) = home_to_tilde(s[k].name)
       PROVE  j = k
  <2>1. s[j].name = s[k].name
    BY <1>12, <1>13, TildeTells
  <2>2. s[j].inode = s[k].inode
    BY <1>12, <2>1 DEF Proper
  <2>3. PICK a \in 1..n : a = f[j] /\ s[j] = dirs[a]
    BY <1>11
  <2>4. PICK b \in 1..n : b = f[k] /\ s[k] = dirs[b]
    BY <1>11
  <2>5. a = b
    BY <1>6, <1>8, <2>2, <2>3, <2>4
  <2> QED BY <1>11, <2>3, <2>4, <2>5, ZenonT(60)
<1>14. \A g \in AFile(fs) : [name |-> g.name, type |-> g.type, sel |-> g.selected] \in F
  <2>1. \A g \in AFile(fs) : g \in UNION {AFile(Fs(i)) : i \in Inputs}
    BY <1>1
  <2> QED BY <1>4, <2>1 DEF DirFiles
<1>15. ASSUME NEW k \in 1..n
       PROVE  /\ print_dir(s[k]) \in ADir(N, F) /\ print_dir(s[k]).name = home_to_tilde(s[k].name)
              /\ NamedOnce(print_dir(s[k]).files)
              /\ print_dir(s[k]).total = 0 => print_dir(s[k]).files = <<>>
  <2>1. PICK dir \in ADirectory(fs, paths) :
            dir = s[k] /\ CountsAdd(dir) /\ Proper(fs, dir) /\ home_to_tilde(dir.name) \in N
    BY <1>5, <1>12
  <2>2. PICK d : d = print_dir(dir)
    OBVIOUS
  <2>3. /\ d \in ADir(N, F) /\ d.name = home_to_tilde(dir.name)
        /\ NamedOnce(d.files) /\ (d.total = 0 => d.files = <<>>)
    BY <1>14, <2>1, <2>2, PrintIs, ZenonT(60)
  <2> QED BY <2>1, <2>2, <2>3
<1>16. PICK list : list = [k \in 1..n |-> print_dir(s[k])]
  OBVIOUS
<1>17. list = [k \in 1..n |-> list[k]] /\ \A k \in 1..n : list[k] = print_dir(s[k])
  BY <1>16
<1>18. list \in Seq(ADir(N, F)) /\ Len(list) = n /\ DOMAIN list = 1..n /\ SubSeq(list, 1, n) = list
  <2>1. \A k \in 1..n : list[k] \in ADir(N, F)
    BY <1>15, <1>17
  <2>2. DOMAIN list = 1..n
    BY <1>16
  <2> QED BY <1>17, <2>1, <2>2, FunctionIs
<1>19. report(ordering, dirs) = list
  <2>1. DOMAIN s = 1..n
    BY <1>10
  <2> QED BY <1>9, <1>10, <1>16, <1>18, <2>1 DEF report, Each
<1>20. NamedOnce(list)
  BY <1>13, <1>15, <1>17, <1>18 DEF NamedOnce
<1>21. \A j \in DOMAIN list : NamedOnce(list[j].files) /\ (list[j].total = 0 => list[j].files = <<>>)
  BY <1>15, <1>17, <1>18
<1>22. GoodListing(N, F, list)
  BY <1>18, <1>20, <1>21 DEF GoodListing
<1>23. list # <<>>
  BY <1>8, <1>18
<1> QED BY <1>3, <1>4, <1>6, <1>19, <1>22, <1>23

-----------------------------------------------------------------------------
(* The theorems.                                                           *)

\* Whatever has been typed, the sandbox shell is given one complete command
\* of words only (sanitize).
THEOREM AlwaysOneCommand ==
    Spec => []GivenOneCommand
<1>1. ASSUME NEW line \in Typed
      PROVE  line \in Seq(Characters)
  <2>1. PICK n \in 0..MaxTyped : line \in [1..n -> Characters]
    BY DEF Typed
  <2>2. n \in Nat
    BY <2>1, ListingsAssumption
  <2> QED BY <2>1, <2>2
<1>2. GivenOneCommand
  BY <1>1, OneCommandGiven DEF GivenOneCommand
<1> QED BY <1>2, PTL

\* A listing is made of an input whose working directory is there.
InputListed == input # NoInput => input \in Inputs /\ Listed(input)

LEMMA InputIs ==
    Spec => []InputListed
<1>1. Init => InputListed
  BY DEF Init, InputListed
<1>2. InputListed /\ [Next]_vars => InputListed'
  <2> SUFFICES ASSUME InputListed, [Next]_vars
               PROVE  InputListed'
    OBVIOUS
  <2>1. ASSUME NEW in \in Inputs, Expand(in)
        PROVE  InputListed'
    BY <2>1 DEF Expand, InputListed, Inputs, Listed, Fs, Pwd
  <2>2. ASSUME input' = input
        PROVE  InputListed'
    BY <2>2 DEF InputListed, Inputs, Listed, Fs, Pwd
  <2>3. ASSUME NEW i \in DOMAIN vg.dcs, Click(i)
        PROVE  InputListed'
    BY <2>2, <2>3 DEF Click
  <2>4. ASSUME NEW next \in BOOLEAN, do_nav(next)
        PROVE  InputListed'
    BY <2>2, <2>4 DEF do_nav
  <2>5. CASE UNCHANGED vars
    BY <2>2, <2>5 DEF vars
  <2> QED BY <2>1, <2>3, <2>4, <2>5 DEF Next
<1> QED BY <1>1, <1>2, PTL DEF Spec

\* Of every listing: each directory once, the working directory first and
\* alone marked as such, the counts those of the files, and a file selected
\* exactly when a word names it, whatever the file system, the words, the
\* mask and the order (compile_data, correlate, mark_traverse,
\* mask_traverse).
THEOREM EveryListingSound ==
    Spec => []ListingSound
<1>1. InputListed => ListingSound
  <2> SUFFICES ASSUME InputListed, input # NoInput
               PROVE  LET dirs == Dirs(input)
                      IN /\ \A i, j \in DOMAIN dirs : dirs[i].inode = dirs[j].inode => i = j
                         /\ {i \in DOMAIN dirs : dirs[i].is_pwd} = {1}
                         /\ dirs[1].inode = stat(Fs(input), Pwd(input))
                         /\ \A i \in DOMAIN dirs :
                               CountsAdd(dirs[i]) /\ MarkedByWords(input, dirs[i])
    BY DEF ListingSound
  <2>1. input \in Inputs /\ Listed(input)
    BY DEF InputListed
  <2> QED BY <2>1, FoundIs
<1> QED BY <1>1, InputIs, PTL

-----------------------------------------------------------------------------
(* What the displays show.                                                 *)

\* Each display shows the listing it was last given, whole and alone.
Displaying(N, F, in, list, v, x) ==
    /\ GoodListing(N, F, list) /\ MiniShows(N, F, v, list) /\ ExhibitShows(N, F, x, list)
    /\ in # NoInput => list # <<>>

Displays == InputListed /\ Displaying(DirNames, DirFiles, input, listing, vg, e)

\* The active directory cannot be read.
LEMMA OnRestrictedIs ==
    ASSUME NEW N, NEW F, NEW v, NEW L, MiniShows(N, F, v, L)
    PROVE  OnRestricted(v) =>
               \E i \in DOMAIN v.dcs : v.dcs[i].name = v.active /\ v.dcs[i].is_restricted
<1> SUFFICES ASSUME OnRestricted(v)
             PROVE  \E i \in DOMAIN v.dcs : v.dcs[i].name = v.active /\ v.dcs[i].is_restricted
  OBVIOUS
<1>1. PICK i \in DOMAIN v.dcs : v.dcs[i].name = v.active
  BY DEF MiniShows, OnRestricted
<1>2. Named(v.dcs, v.active) = i
  <2>1. v.dcs \in Seq(ADirCont(N, F)) /\ NamedOnce(v.dcs)
    BY DEF MiniShows, AVg
  <2>2. Named(v.dcs, v.dcs[i].name) = i
    BY <2>1, NamedAt
  <2> QED BY <1>1, <2>2
<1>3. v.dcs[i].is_restricted
  BY <1>2 DEF OnRestricted, Active
<1> QED BY <1>1, <1>3

\* It is one that no listing chose, unless there was no other ...
LEMMA RestrictedByAll ==
    ASSUME NEW N, NEW F, NoDir \notin N, NEW v, NEW L0, MiniShows(N, F, v, L0),
           NEW L, GoodListing(N, F, L), L # <<>>
    PROVE  OnRestricted(process_glob_data(v, L)) => AllRestricted(process_glob_data(v, L))
<1>1. PICK w : w = process_glob_data(v, L) /\ MiniProcessed(N, F, v, L0, L, w)
  BY MiniProcess
<1>2. MiniShows(N, F, w, L)
  BY <1>1 DEF MiniProcessed
<1>3. OnRestricted(w) => \E i \in DOMAIN w.dcs : w.dcs[i].name = w.active /\ w.dcs[i].is_restricted
  BY <1>2, OnRestrictedIs
<1>4. OnRestricted(w) => AllRestricted(w)
  BY <1>1, <1>3 DEF MiniProcessed, AllRestricted
<1> QED BY <1>1, <1>4

\* ... and no move.
LEMMA RestrictedByNone ==
    ASSUME NEW N, NEW F, NoDir \notin N, NEW v, NEW L, MiniShows(N, F, v, L),
           GoodListing(N, F, L), NEW next
    PROVE  OnRestricted(activate_dc(v, next)) => activate_dc(v, next) = v
<1>1. PICK w : w = activate_dc(v, next) /\ Navigated(N, F, v, L, w)
  BY NavigateIs
<1>2. MiniShows(N, F, w, L)
  BY <1>1 DEF Navigated
<1>3. OnRestricted(w) => \E i \in DOMAIN w.dcs : w.dcs[i].name = w.active /\ w.dcs[i].is_restricted
  BY <1>2, OnRestrictedIs
<1>4. OnRestricted(w) => w = v
  BY <1>1, <1>3 DEF Navigated
<1> QED BY <1>1, <1>4

LEMMA DisplaysInvariant ==
    Spec => []Displays
<1>1. Init => Displays
  <2> SUFFICES ASSUME Init
               PROVE  Displays
    OBVIOUS
  <2>1. input = NoInput /\ listing = <<>> /\ vg = vgmini_new /\ e = exhibit_new
    BY DEF Init
  <2>2. MiniShows(DirNames, DirFiles, vg, listing) /\ ExhibitShows(DirNames, DirFiles, e, listing)
    BY <2>1, ShowsNothing
  <2>3. GoodListing(DirNames, DirFiles, listing)
    <3>1. PICK none : none = <<>> /\ DOMAIN none = {}
      OBVIOUS
    <3>2. none \in Seq(ADir(DirNames, DirFiles))
      BY <3>1
    <3> QED BY <2>1, <3>1, <3>2 DEF GoodListing, NamedOnce
  <2> QED BY <2>1, <2>2, <2>3 DEF Displays, Displaying, InputListed
<1>2. Displays /\ InputListed' /\ [Next]_vars => Displays'
  <2> SUFFICES ASSUME Displays, InputListed', [Next]_vars
               PROVE  Displays'
    OBVIOUS
  <2>1. PICK N : N = DirNames
    OBVIOUS
  <2>2. PICK F : F = DirFiles
    OBVIOUS
  <2>3. /\ GoodListing(N, F, listing) /\ MiniShows(N, F, vg, listing)
        /\ ExhibitShows(N, F, e, listing) /\ (input # NoInput => listing # <<>>)
    BY <2>1, <2>2 DEF Displays, Displaying
  <2>4. NoDir \notin N
    BY <2>1, NoDirIsNone
  <2>5. Displaying(N, F, input', listing', vg', e') => Displays'
    BY <2>1, <2>2 DEF Displays
  <2>6. ASSUME NEW in \in Inputs, Expand(in)
        PROVE  Displaying(N, F, input', listing', vg', e')
    <3>1. PICK L : L = report(ordering, Dirs(in))
      OBVIOUS
    <3>2. GoodListing(N, F, L) /\ L # <<>>
      BY <2>1, <2>2, <2>6, <3>1, ReportIs DEF Expand
    <3>3. listing' = L /\ vg' = process_glob_data(vg, L) /\ e' = exhibit_process(e, L)
      BY <2>6, <3>1 DEF Expand
    <3>4. MiniShows(N, F, vg', L)
      BY <2>3, <2>4, <3>2, <3>3, MiniProcess DEF MiniProcessed
    <3>5. ExhibitShows(N, F, e', L)
      BY <2>3, <3>2, <3>3, ExhibitProcess
    <3> QED BY <3>2, <3>3, <3>4, <3>5 DEF Displaying
  <2>7. ASSUME NEW i \in DOMAIN vg.dcs, Click(i)
        PROVE  Displaying(N, F, input', listing', vg', e')
    <3>1. MiniShows(N, F, vg', listing)
      BY <2>3, <2>4, <2>7, ClickIs DEF Click
    <3> QED BY <2>3, <2>7, <3>1 DEF Displaying, Click
  <2>8. ASSUME NEW next \in BOOLEAN, do_nav(next)
        PROVE  Displaying(N, F, input', listing', vg', e')
    <3>1. MiniShows(N, F, vg', listing)
      BY <2>3, <2>4, <2>8, NavigateIs DEF do_nav, Navigated
    <3> QED BY <2>3, <2>8, <3>1 DEF Displaying, do_nav
  <2>9. CASE UNCHANGED vars
    BY <2>3, <2>5, <2>9 DEF Displaying, vars
  <2> QED BY <2>5, <2>6, <2>7, <2>8, <2>9 DEF Next
<1>3. Displays => InputListed
  BY DEF Displays
<1> QED BY <1>1, <1>2, <1>3, InputIs, PTL DEF Spec

\* After any sequence of listings, clicks and moves both displays show the
\* directories of the last listing and nothing of an earlier one: each once
\* and at its rank, with its counts and exactly its files (add_dircont,
\* exhibit_add, cull, file_box_add, file_box_flush).
THEOREM AlwaysShowsTheListing ==
    Spec => []ShowsTheListing
<1>1. Displays => ShowsTheListing
  <2> SUFFICES ASSUME Displays, input # NoInput
               PROVE  ShowsTheListing
    BY DEF ShowsTheListing
  <2>1. PICK N : N = DirNames
    OBVIOUS
  <2>2. PICK F : F = DirFiles
    OBVIOUS
  <2>3. /\ GoodListing(N, F, listing) /\ MiniShows(N, F, vg, listing)
        /\ ExhibitShows(N, F, e, listing)
    BY <2>1, <2>2 DEF Displays, Displaying
  <2>4. PICK names : names = {listing[k].name : k \in DOMAIN listing}
    OBVIOUS
  <2>5. /\ Len(vg.dcs) = Len(listing) /\ Len(e.dls) = Len(listing)
        /\ ToSet(vg.vbox) = names /\ Len(vg.vbox) = Len(listing)
        /\ ToSet(e.listings_box) = names /\ Len(e.listings_box) = Len(listing)
    BY <2>3, <2>4 DEF MiniShows, ExhibitShows
  <2>6. ASSUME NEW k \in DOMAIN listing
        PROVE  LET i == Named(vg.dcs, listing[k].name)
                   j == Named(e.dls, listing[k].name)
               IN /\ i # 0 /\ j # 0
                  /\ SameDir(listing[k], vg.dcs[i]) /\ SameDir(listing[k], e.dls[j])
                  /\ vg.dcs[i].rank = k - 1 /\ e.dls[j].rank = k - 1
                  /\ vg.dcs[i].is_pwd = listing[k].is_pwd
                  /\ vg.dcs[i].is_restricted = (listing[k].total = 0)
    <3>1. PICK i \in DOMAIN vg.dcs : ShowsDir(vg.dcs[i], listing[k], k - 1)
      BY <2>3 DEF MiniShows
    <3>2. PICK j \in DOMAIN e.dls : ShowsListing(e.dls[j], listing[k], k - 1)
      BY <2>3 DEF ExhibitShows
    <3>3. Named(vg.dcs, listing[k].name) = i /\ i # 0
      <4>1. vg.dcs \in Seq(ADirCont(N, F)) /\ NamedOnce(vg.dcs)
        BY <2>3 DEF MiniShows, AVg
      <4>2. Named(vg.dcs, vg.dcs[i].name) = i
        BY <4>1, NamedAt
      <4>3. vg.dcs[i].name = listing[k].name
        BY <3>1 DEF ShowsDir
      <4> QED BY <4>1, <4>2, <4>3
    <3>4. Named(e.dls, listing[k].name) = j /\ j # 0
      <4>1. e.dls \in Seq(ADListing(N, F)) /\ NamedOnce(e.dls)
        BY <2>3 DEF ExhibitShows, AnExhibit
      <4>2. Named(e.dls, e.dls[j].name) = j
        BY <4>1, NamedAt
      <4>3. e.dls[j].name = listing[k].name
        BY <3>2 DEF ShowsListing
      <4> QED BY <4>1, <4>2, <4>3
    <3>5. /\ SameDir(listing[k], vg.dcs[i]) /\ vg.dcs[i].rank = k - 1
          /\ vg.dcs[i].is_pwd = listing[k].is_pwd
          /\ vg.dcs[i].is_restricted = (listing[k].total = 0)
      BY <3>1 DEF ShowsDir, SameDir, HoldsJust
    <3>6. SameDir(listing[k], e.dls[j]) /\ e.dls[j].rank = k - 1
      BY <3>2 DEF ShowsListing, SameDir, HoldsJust
    <3> QED BY <3>3, <3>4, <3>5, <3>6
  <2> QED BY <2>4, <2>5, <2>6 DEF ShowsTheListing
<1> QED BY <1>1, DisplaysInvariant, PTL

\* To take the listing that is shown in again changes nothing, unless the
\* user has made a directory active that cannot be read ("Always use the
\* previous active dc if there's a tie", vgmini.c:522).
THEOREM AlwaysRepeatable ==
    Spec => []RepeatChangesNothing
<1>1. Displays => RepeatChangesNothing
  <2> SUFFICES ASSUME Displays, input # NoInput
               PROVE  /\ OnRestricted(vg) \/ process_glob_data(vg, listing) = vg
                      /\ exhibit_process(e, listing) = e
    BY DEF RepeatChangesNothing
  <2>1. PICK N : N = DirNames
    OBVIOUS
  <2>2. PICK F : F = DirFiles
    OBVIOUS
  <2>3. /\ GoodListing(N, F, listing) /\ MiniShows(N, F, vg, listing)
        /\ ExhibitShows(N, F, e, listing) /\ listing # <<>>
    BY <2>1, <2>2 DEF Displays, Displaying
  <2>4. exhibit_process(e, listing) = e
    BY <2>3, ExhibitProcess
  <2>5. ASSUME ~ OnRestricted(vg)
        PROVE  process_glob_data(vg, listing) = vg
    <3>1. ASSUME NEW i \in DOMAIN vg.dcs, vg.dcs[i].name = vg.active
          PROVE  ~ vg.dcs[i].is_restricted
      <4>1. vg.dcs \in Seq(ADirCont(N, F)) /\ NamedOnce(vg.dcs) /\ vg.active # NoDir
        BY <2>3 DEF MiniShows, AVg
      <4>2. Named(vg.dcs, vg.dcs[i].name) = i
        BY <4>1, NamedAt
      <4> QED BY <2>5, <3>1, <4>1, <4>2 DEF OnRestricted, Active
    <3>2. MiniProcessed(N, F, vg, listing, listing, process_glob_data(vg, listing))
      BY <2>1, <2>3, NoDirIsNone, MiniProcess
    <3> QED BY <3>1, <3>2 DEF MiniProcessed
  <2> QED BY <2>4, <2>5
<1> QED BY <1>1, DisplaysInvariant, PTL

\* No listing makes a directory active that cannot be read, unless there is
\* no other, and no move does: only a click ("Restricted directories can't
\* be active", vgmini.c:512).
THEOREM RestrictedIsClicked ==
    Spec => RestrictedOnlyByClick
<1> DEFINE Step ==
        /\ \A i \in DOMAIN vg'.dcs : vg'.dcs[i].is_active = (vg'.dcs[i].name = vg'.active)
        /\ OnRestricted(vg') =>
              AllRestricted(vg') \/ vg' = vg \/ Clicked
        /\ \A next \in BOOLEAN :
              LET moved == activate_dc(vg, next) IN OnRestricted(moved) => moved = vg
<1>1. Displays /\ Displays' /\ [Next]_vars => [Step]_vars
  <2> SUFFICES ASSUME Displays, Displays', Next
               PROVE  Step
    OBVIOUS
  <2>1. PICK N : N = DirNames
    OBVIOUS
  <2>2. PICK F : F = DirFiles
    OBVIOUS
  <2>3. GoodListing(N, F, listing) /\ MiniShows(N, F, vg, listing) /\ NoDir \notin N
    BY <2>1, <2>2, NoDirIsNone DEF Displays, Displaying
  <2>4. GoodListing(N, F, listing') /\ MiniShows(N, F, vg', listing') /\ (input' # NoInput => listing' # <<>>)
    BY <2>1, <2>2 DEF Displays, Displaying
  <2>5. \A i \in DOMAIN vg'.dcs : vg'.dcs[i].is_active = (vg'.dcs[i].name = vg'.active)
    BY <2>4 DEF MiniShows
  <2>6. ASSUME NEW next \in BOOLEAN
        PROVE  OnRestricted(activate_dc(vg, next)) => activate_dc(vg, next) = vg
    BY <2>3, RestrictedByNone
  <2>7. ASSUME NEW in \in Inputs, Expand(in)
        PROVE  OnRestricted(vg') => AllRestricted(vg')
    <3>1. listing' # <<>>
      BY <2>1, <2>2, <2>7, ReportIs DEF Expand
    <3>2. vg' = process_glob_data(vg, listing')
      BY <2>7 DEF Expand
    <3> QED BY <2>3, <2>4, <3>1, <3>2, RestrictedByAll
  <2>8. ASSUME NEW next \in BOOLEAN, do_nav(next)
        PROVE  OnRestricted(vg') => vg' = vg
    BY <2>6, <2>8 DEF do_nav
  <2>9. OnRestricted(vg') => AllRestricted(vg') \/ vg' = vg \/ Clicked
    BY <2>7, <2>8 DEF Next, Clicked
  <2> QED BY <2>5, <2>6, <2>9
<1> QED BY <1>1, DisplaysInvariant, PTL DEF Spec, RestrictedOnlyByClick

-----------------------------------------------------------------------------
(* The order in which they show it.                                        *)

\* Both displays are packed alike, and empty at first.
Alike ==
    /\ Displays
    /\ input = NoInput => listing = <<>>
    /\ e.listings_box = vg.vbox

LEMMA AlikeInvariant ==
    Spec => []Alike
<1>1. Init /\ Displays => Alike
  BY DEF Init, Alike, vgmini_new, exhibit_new
<1>2. Alike /\ Displays' /\ [Next]_vars => Alike'
  <2> SUFFICES ASSUME Alike, Displays', [Next]_vars
               PROVE  Alike'
    OBVIOUS
  <2>1. PICK N : N = DirNames
    OBVIOUS
  <2>2. PICK F : F = DirFiles
    OBVIOUS
  <2>3. /\ GoodListing(N, F, listing) /\ MiniShows(N, F, vg, listing)
        /\ ExhibitShows(N, F, e, listing) /\ NoDir \notin N
        /\ e.listings_box = vg.vbox /\ (input = NoInput => listing = <<>>)
    BY <2>1, <2>2, NoDirIsNone DEF Alike, Displays, Displaying
  <2>4. ASSUME NEW in \in Inputs, Expand(in)
        PROVE  input' # NoInput /\ e'.listings_box = vg'.vbox
    <3>1. PICK L : L = listing'
      OBVIOUS
    <3>2. GoodListing(N, F, L) /\ vg' = process_glob_data(vg, L) /\ e' = exhibit_process(e, L)
      BY <2>1, <2>2, <2>4, <3>1 DEF Displays, Displaying, Expand
    <3>3. listing \in Seq(ADir(N, F)) /\ L \in Seq(ADir(N, F))
      BY <2>3, <3>2 DEF GoodListing
    <3>4. Rearranges(listing, L, vg.vbox, vg'.vbox)
      BY <2>3, <3>2, <3>3, MiniKeeps
    <3>5. Rearranges(listing, L, vg.vbox, e'.listings_box)
      BY <2>3, <3>2, <3>3, ExhibitKeeps
    <3>6. e'.listings_box = vg'.vbox
      BY <3>3, <3>4, <3>5, InTurnOnce DEF Rearranges
    <3>7. in # NoInput
      <4>1. PICK n \in Nat : DOMAIN FileSystems = 1..n
        BY ListingsAssumption
      <4>2. in[1] \in 1..n
        BY <4>1 DEF Inputs
      <4>3. in[1] # 0
        BY <4>2
      <4> QED BY <4>3 DEF NoInput
    <3>8. input' = in
      BY <2>4 DEF Expand
    <3> QED BY <3>6, <3>7, <3>8
  <2>5. ASSUME NEW i \in DOMAIN vg.dcs, Click(i)
        PROVE  input' = input /\ listing' = listing /\ e'.listings_box = vg'.vbox
    BY <2>3, <2>5, ClickIs DEF Click
  <2>6. ASSUME NEW next \in BOOLEAN, do_nav(next)
        PROVE  input' = input /\ listing' = listing /\ e'.listings_box = vg'.vbox
    BY <2>3, <2>6, NavigateIs DEF do_nav, Navigated
  <2>7. CASE UNCHANGED vars
    BY <2>3, <2>7 DEF vars, Alike
  <2> QED BY <2>3, <2>4, <2>5, <2>6, <2>7 DEF Next, Alike
<1> QED BY <1>1, <1>2, DisplaysInvariant, PTL DEF Spec

\* Some files of the listing, in their types and its order.
SortedAs(fis, files) ==
    /\ \A i \in DOMAIN fis :
          \E j \in DOMAIN files : files[j].name = fis[i].name /\ files[j].type = fis[i].type
    /\ \E kept \in SUBSET (DOMAIN files) : NamesOf(fis) = Picked(NamesOf(files), kept)

LEMMA FollowsIs ==
    ASSUME NEW F, NEW fis \in Seq(F), NEW files \in Seq(F), NamedOnce(files), SortedAs(fis, files)
    PROVE  Follows(fis, files)
<1>1. PICK N : N = {f.name : f \in F}
  OBVIOUS
<1>10. PICK sorted : sorted = NamesOf(files)
  OBVIOUS
<1>11. PICK kept \in SUBSET (DOMAIN files) : NamesOf(fis) = Picked(sorted, kept)
  BY <1>10 DEF SortedAs
<1>2. sorted \in Seq(N) /\ DOMAIN sorted = DOMAIN files /\ \A j \in DOMAIN files : sorted[j] = files[j].name
  <2>1. PICK m \in Nat : m = Len(files) /\ DOMAIN files = 1..m /\ \A j \in 1..m : files[j] \in F
    OBVIOUS
  <2>2. sorted = [j \in 1..m |-> files[j].name] /\ \A j \in 1..m : files[j].name \in N
    BY <1>1, <1>10, <2>1 DEF NamesOf
  <2>3. sorted \in Seq(N) /\ DOMAIN sorted = 1..m /\ \A j \in 1..m : sorted[j] = files[j].name
    BY <2>2
  <2> QED BY <2>1, <2>3
<1>3. IsInjective(sorted)
  BY <1>2 DEF IsInjective, NamedOnce
<1>4. PICK rest : rest = Picked(sorted, kept)
  OBVIOUS
<1>5. IsLeft(N, sorted, kept, rest)
  BY <1>2, <1>3, <1>4, ThinsIs
<1>6. DOMAIN rest = DOMAIN fis /\ \A i \in DOMAIN fis : rest[i] = fis[i].name
  BY <1>4, <1>11 DEF NamesOf
<1>7. PICK g : /\ \A k \in DOMAIN rest : g[k] \in DOMAIN sorted /\ rest[k] = sorted[g[k]]
               /\ \A j, k \in DOMAIN rest : j < k => g[j] < g[k]
  BY <1>5 DEF IsLeft, Thins
<1>8. ASSUME NEW i \in DOMAIN fis
      PROVE  g[i] \in DOMAIN files /\ files[g[i]].name = fis[i].name /\ files[g[i]].type = fis[i].type
  <2>1. g[i] \in DOMAIN files /\ files[g[i]].name = fis[i].name
    BY <1>2, <1>6, <1>7
  <2>2. PICK j \in DOMAIN files : files[j].name = fis[i].name /\ files[j].type = fis[i].type
    BY DEF SortedAs
  <2>3. j = g[i]
    BY <2>1, <2>2 DEF NamedOnce
  <2> QED BY <2>1, <2>2, <2>3
<1>9. Leads(fis, files, g)
  BY <1>6, <1>7, <1>8 DEF Leads
<1> QED BY <1>9 DEF Follows

\* A display that lets files follow keeps their order.
LEMMA OrderKeptIs ==
    ASSUME NEW N, NEW F, NEW L, GoodListing(N, F, L), NEW D, NEW dcs \in Seq(D), NEW next \in Seq(D),
           \A i \in DOMAIN dcs : dcs[i].file_box.fis \in Seq(F), NamedOnce(next),
           FilesFollow(dcs, L, next)
    PROVE  OrderKeptBy(L, dcs, next)
<1> SUFFICES ASSUME NEW k \in DOMAIN L, NEW i, i = Named(dcs, L[k].name), i # 0,
                    NEW fis, fis = dcs[i].file_box.fis, Grows(L[k], fis),
                    NEW sorted, sorted = NamesOf(L[k].files),
                    NamesOf(fis) = Picked(sorted, {j \in DOMAIN sorted : sorted[j] \in ToSet(NamesOf(fis))})
             PROVE  FileOrder(next, L[k].name) = sorted
  BY DEF OrderKeptBy
<1>1. i \in DOMAIN dcs /\ dcs[i].name = L[k].name
  BY NamedIs
<1>2. L[k].files \in Seq(F) /\ NamedOnce(L[k].files)
  <2>1. L \in Seq(ADir(N, F)) /\ NamedOnce(L[k].files)
    BY DEF GoodListing
  <2>2. L[k] \in ADir(N, F)
    BY <2>1
  <2> QED BY <2>1, <2>2 DEF ADir
<1>3. fis \in Seq(F)
  BY <1>1
<1>4. PICK files : files = L[k].files
  OBVIOUS
<1>5. DOMAIN sorted = DOMAIN files
  <2>1. sorted = NamesOf(files)
    BY <1>4
  <2> QED BY <2>1 DEF NamesOf
<1>6. PICK kept : kept = {j \in DOMAIN sorted : sorted[j] \in ToSet(NamesOf(fis))}
  OBVIOUS
<1>7. SortedAs(fis, files)
  <2>1. kept \in SUBSET (DOMAIN files) /\ NamesOf(fis) = Picked(NamesOf(files), kept)
    BY <1>4, <1>5, <1>6
  <2>2. \A p \in DOMAIN fis :
            \E j \in DOMAIN files : files[j].name = fis[p].name /\ files[j].type = fis[p].type
    BY <1>4 DEF Grows
  <2> QED BY <2>1, <2>2 DEF SortedAs
<1>8. Follows(fis, files)
  BY <1>2, <1>3, <1>4, <1>7, FollowsIs
<1>9. PICK q \in DOMAIN next : next[q].name = L[k].name /\ next[q].file_box.fis = files
  BY <1>1, <1>4, <1>8 DEF FilesFollow
<1>10. Named(next, L[k].name) = q
  <2>1. Named(next, next[q].name) = q
    BY NamedAt
  <2> QED BY <1>9, <2>1
<1>11. FileOrder(next, L[k].name) = NamesOf(files)
  BY <1>9, <1>10 DEF FileOrder
<1> QED BY <1>4, <1>11

\* Files stay in order as long as the listings only add to them, for any number
\* of files and directories; up to three directories get in order and stay so,
\* and both displays have them in the same order always (file_box_add,
\* rearrange_and_show, exhibit_rearrange_and_show).
THEOREM OrderAlwaysKept ==
    Spec => OrderKept
<1> DEFINE Step ==
        input' # input =>
            /\ OrderKeptBy(listing', vg.dcs, vg'.dcs)
            /\ OrderKeptBy(listing', e.dls, e'.dls)
            /\ DirsInOrder /\ Len(listing') <= 3 =>
                  vg'.vbox = NamesOf(listing') /\ e'.listings_box = vg'.vbox
<1>1. Alike /\ Alike' /\ [Next]_vars => [Step]_vars
  <2> SUFFICES ASSUME Alike, Alike', Next, input' # input
               PROVE  Step
    BY DEF vars
  <2>1. PICK N : N = DirNames
    OBVIOUS
  <2>2. PICK F : F = DirFiles
    OBVIOUS
  <2>3. /\ GoodListing(N, F, listing) /\ MiniShows(N, F, vg, listing)
        /\ ExhibitShows(N, F, e, listing) /\ (input = NoInput => listing = <<>>)
    BY <2>1, <2>2 DEF Alike, Displays, Displaying
  <2>4. PICK L : L = listing'
    OBVIOUS
  <2>5. /\ GoodListing(N, F, L) /\ MiniShows(N, F, vg', L) /\ ExhibitShows(N, F, e', L)
        /\ e'.listings_box = vg'.vbox
    BY <2>1, <2>2, <2>4 DEF Alike, Displays, Displaying
  <2>6. vg' = process_glob_data(vg, L) /\ e' = exhibit_process(e, L)
    BY <2>4 DEF Next, Expand, Click, do_nav
  <2>7. listing \in Seq(ADir(N, F)) /\ L \in Seq(ADir(N, F))
    BY <2>3, <2>5 DEF GoodListing
  <2>8. Rearranges(listing, L, vg.vbox, vg'.vbox) /\ FilesFollow(vg.dcs, L, vg'.dcs)
    BY <2>3, <2>5, <2>6, <2>7, MiniKeeps
  <2>9. FilesFollow(e.dls, L, e'.dls)
    BY <2>3, <2>5, <2>6, <2>7, ExhibitKeeps
  <2>10. OrderKeptBy(L, vg.dcs, vg'.dcs)
    <3>1. vg.dcs \in Seq(ADirCont(N, F)) /\ vg'.dcs \in Seq(ADirCont(N, F)) /\ NamedOnce(vg'.dcs)
      BY <2>3, <2>5 DEF MiniShows, AVg
    <3>2. \A i \in DOMAIN vg.dcs : vg.dcs[i].file_box.fis \in Seq(F)
      <4>1. \A i \in DOMAIN vg.dcs : vg.dcs[i] \in ADirCont(N, F)
        BY <3>1
      <4> QED BY <4>1 DEF ADirCont, Boxes
    <3> QED BY <2>5, <2>8, <3>1, <3>2, OrderKeptIs
  <2>11. OrderKeptBy(L, e.dls, e'.dls)
    <3>1. e.dls \in Seq(ADListing(N, F)) /\ e'.dls \in Seq(ADListing(N, F)) /\ NamedOnce(e'.dls)
      BY <2>3, <2>5 DEF ExhibitShows, AnExhibit
    <3>2. \A i \in DOMAIN e.dls : e.dls[i].file_box.fis \in Seq(F)
      <4>1. \A i \in DOMAIN e.dls : e.dls[i] \in ADListing(N, F)
        BY <3>1
      <4> QED BY <4>1 DEF ADListing, Boxes
    <3> QED BY <2>5, <2>9, <3>1, <3>2, OrderKeptIs
  <2>12. ASSUME DirsInOrder, Len(L) <= 3
         PROVE  vg'.vbox = NamesOf(L)
    <3>1. vg.vbox = NamesOf(listing)
      <4>1. CASE input # NoInput
        BY <2>12, <4>1 DEF DirsInOrder
      <4>2. CASE input = NoInput
        <5>1. vg.vbox \in Seq(N) /\ Len(vg.vbox) = Len(listing) /\ listing = <<>>
          BY <2>3, <4>2 DEF MiniShows, AVg
        <5>2. vg.vbox = <<>>
          BY <5>1, EmptySeq
        <5>3. NamesOf(listing) = <<>>
          BY <5>1 DEF NamesOf
        <5> QED BY <5>2, <5>3
      <4> QED BY <4>1, <4>2
    <3>2. NamedOnce(listing) /\ NamedOnce(L)
      BY <2>3, <2>5 DEF GoodListing
    <3>3. NamesIn(N, listing) /\ NamesIn(N, L)
      <4>1. /\ \A j \in DOMAIN listing : listing[j] \in ADir(N, F)
            /\ \A j \in DOMAIN L : L[j] \in ADir(N, F)
        BY <2>7
      <4> QED BY <3>2, <4>1 DEF ADir, NamesIn
    <3>4. AsListed(listing, vg.vbox)
      BY <3>1 DEF NamesOf, AsListed
    <3>5. AsListed(L, vg'.vbox)
      BY <2>7, <2>8, <2>12, <3>3, <3>4, UpToThree
    <3> QED BY <3>5 DEF NamesOf, AsListed
  <2> QED BY <2>4, <2>5, <2>10, <2>11, <2>12
<1> QED BY <1>1, AlikeInvariant, PTL DEF Spec, OrderKept
=============================================================================
