-------------------------- MODULE ResponsesStream_proofs --------------------------
(***************************************************************************)
(* Proofs about the reading of one answer, for any events, any length of   *)
(* the stream, any cut into chunks and any size of the decoder's buffer.   *)
(***************************************************************************)
EXTENDS ResponsesStream, SequenceLemmas

-----------------------------------------------------------------------------
(* The stream as it is sent *)

Token == (UNION {ToSet(e) : e \in Events}) \cup {"CR", "LF"}

\* The provider's side never changes, but for the status and the code.
Sent ==
  /\ Len(sse) \in Nat /\ sse \in [1..Len(sse) -> Events] /\ eol \in {"lf", "crlf"}

LEMMA SentInit == StreamInit => Sent
BY StreamAssumption DEF StreamInit, Sent

\* Lines of an event, and their number.
LEMMA EventLines ==
  ASSUME Sent, NEW k \in 1..Len(sse)
  PROVE  /\ Len(sse[k]) \in Nat \ {0} /\ DOMAIN sse[k] = 1..Len(sse[k])
         /\ \A i \in 1..Len(sse[k]) : sse[k][i] \in Token \ {"CR", "LF"}
<1>1. PICK e \in Events : e = sse[k]
  BY DEF Sent
<1>2. e # <<>> /\ e \in Seq(ToSet(e) \ {"CR", "LF"})
  BY StreamAssumption DEF IsEvent
<1>3. Len(e) \in Nat /\ DOMAIN e = 1..Len(e) /\ Len(e) # 0
  BY <1>2
<1>4. \A i \in 1..Len(e) : e[i] \in ToSet(e) \ {"CR", "LF"}
  BY <1>2
<1>5. ToSet(e) \subseteq Token
  BY <1>1 DEF Token
<1>6. QED
  BY <1>1, <1>3, <1>4, <1>5

\* How a line ends, and the line.
LEMMA EolIs ==
  ASSUME Sent
  PROVE  /\ EndOfLine(eol) \in Seq(Token)
         /\ eol = "lf" => Len(EndOfLine(eol)) = 1 /\ EndOfLine(eol)[1] = "LF"
         /\ eol = "crlf" => Len(EndOfLine(eol)) = 2 /\ EndOfLine(eol)[1] = "CR"
                            /\ EndOfLine(eol)[2] = "LF"
<1>1. "CR" \in Token /\ "LF" \in Token
  BY DEF Token
<1>2. QED
  BY <1>1 DEF Sent, EndOfLine

Line(t) == Cat(<<t>>, EndOfLine(eol))

LEMMA LineIs ==
  ASSUME Sent, NEW t \in Token
  PROVE  /\ Line(t) \in Seq(Token) /\ Line(t)[1] = t
         /\ eol = "lf" => Len(Line(t)) = 2 /\ Line(t)[2] = "LF"
         /\ eol = "crlf" => Len(Line(t)) = 3 /\ Line(t)[2] = "CR" /\ Line(t)[3] = "LF"
<1>a. <<t>> \in Seq(Token) /\ Len(<<t>>) = 1 /\ <<t>>[1] = t
  OBVIOUS
<1>1. PICK h \in Seq(Token) : h = <<t>> /\ Len(h) = 1 /\ h[1] = t
  BY <1>a, Zenon
<1>2. PICK q \in Seq(Token) : q = EndOfLine(eol)
  BY EolIs
<1>3. PICK line : line = Cat(h, q)
  OBVIOUS
<1>4. /\ line \in Seq(Token) /\ Len(line) = Len(h) + Len(q)
      /\ \A i \in 1..(Len(h) + Len(q)) : line[i] = IF i <= Len(h) THEN h[i] ELSE q[i - Len(h)]
  BY ONLY <1>3, h \in Seq(Token), q \in Seq(Token), CatIs
<1>5. line[1] = t /\ Len(line) = 1 + Len(q) /\ \A i \in 2..(1 + Len(q)) : line[i] = q[i - 1]
  BY <1>1, <1>4
<1>6. eol = "lf" => Len(line) = 2 /\ line[2] = "LF"
  <2>1. SUFFICES ASSUME eol = "lf" PROVE Len(line) = 2 /\ line[2] = "LF"
    OBVIOUS
  <2>2. Len(q) = 1 /\ q[1] = "LF"
    BY <1>2, <2>1, EolIs, Zenon
  <2>3. QED
    BY <1>5, <2>2
<1>7. eol = "crlf" => Len(line) = 3 /\ line[2] = "CR" /\ line[3] = "LF"
  <2>1. SUFFICES ASSUME eol = "crlf" PROVE Len(line) = 3 /\ line[2] = "CR" /\ line[3] = "LF"
    OBVIOUS
  <2>2. Len(q) = 2 /\ q[1] = "CR" /\ q[2] = "LF"
    BY <1>2, <2>1, EolIs, Zenon
  <2>3. QED
    BY <1>5, <2>2
<1>8. line = Line(t)
  BY <1>1, <1>2, <1>3 DEF Line
<1>9. QED
  BY <1>4, <1>5, <1>6, <1>7, <1>8

\* The first m lines of an event.
LinesOf(e) == [i \in DOMAIN e |-> Line(e[i])]
Lines(e, m) == FlattenSeq(Firsts(LinesOf(e), m))

\* What they come to.
LfLines(e, s, m) ==
  /\ Len(s) = 2 * m
  /\ \A i \in 1..m : s[2 * i - 1] = e[i] /\ s[2 * i] = "LF"
CrlfLines(e, s, m) ==
  /\ Len(s) = 3 * m
  /\ \A i \in 1..m : s[3 * i - 2] = e[i] /\ s[3 * i - 1] = "CR" /\ s[3 * i] = "LF"

LEMMA LinesAre ==
  ASSUME Sent, NEW e \in Seq(Token), NEW m \in 0..Len(e)
  PROVE  /\ Lines(e, m) \in Seq(Token)
         /\ eol = "lf" => LfLines(e, Lines(e, m), m)
         /\ eol = "crlf" => CrlfLines(e, Lines(e, m), m)
<1>1. PICK N \in Nat : N = Len(e)
  OBVIOUS
<1>2. PICK s : s = LinesOf(e)
  OBVIOUS
<1>3. \A i \in 1..N : e[i] \in Token /\ s[i] = Line(e[i])
  BY <1>1, <1>2 DEF LinesOf
<1>4. \A i \in 1..N : s[i] \in Seq(Token)
  BY <1>3, LineIs
<1>5. \A n \in 0..N : Lines(e, n) \in Seq(Token)
  BY <1>1, <1>2, <1>4, FlattenIsSeq DEF Lines
<1>6. PICK X : X = {n \in 0..N : /\ eol = "lf" => LfLines(e, Lines(e, n), n)
                                 /\ eol = "crlf" => CrlfLines(e, Lines(e, n), n)}
  OBVIOUS
<1>7. 0 \in X
  <2>1. Lines(e, 0) = <<>>
    BY FlattenNone DEF Lines
  <2>2. QED
    BY <1>6, <2>1 DEF LfLines, CrlfLines
<1>8. ASSUME NEW n \in 0..(N - 1), n \in X PROVE n + 1 \in X
  <2>1. n \in Nat /\ n + 1 \in 1..N /\ n + 1 \in 0..N /\ n \in 0..N
    BY <1>1
  <2>2. PICK V : V = Seq(Token)
    OBVIOUS
  <2>3. Joinable(V) /\ \A i \in 1..(n + 1) : s[i] \in V
    BY <1>4, <2>1, <2>2, SeqJoinable
  <2>4. Lines(e, n + 1) = Cat(Lines(e, n), s[n + 1])
    BY <1>2, <2>1, <2>3, FlattenMore DEF Lines
  <2>5. PICK a \in Seq(Token) : a = Lines(e, n)
    BY <1>5, <2>1
  <2>6. PICK b \in Seq(Token) : b = s[n + 1]
    BY <1>4, <2>1
  <2>7. PICK c \in Seq(Token) : c = Lines(e, n + 1)
    BY <1>5, <2>1
  <2>8. /\ Len(c) = Len(a) + Len(b)
        /\ \A i \in 1..(Len(a) + Len(b)) : c[i] = IF i <= Len(a) THEN a[i] ELSE b[i - Len(a)]
    <3>1. c = Cat(a, b)
      BY <2>4, <2>5, <2>6, <2>7
    <3>2. QED
      BY ONLY <3>1, a \in Seq(Token), b \in Seq(Token), CatIs
  <2>c. ASSUME NEW j \in 1..Len(a) PROVE c[j] = a[j]
    <3>1. j \in 1..(Len(a) + Len(b)) /\ j <= Len(a)
      OBVIOUS
    <3>2. QED
      BY <2>8, <3>1
  <2>b. ASSUME NEW j \in 1..Len(b) PROVE c[Len(a) + j] = b[j]
    <3>1. Len(a) \in Nat /\ Len(b) \in Nat
      OBVIOUS
    <3>2. Len(a) + j \in 1..(Len(a) + Len(b)) /\ ~(Len(a) + j <= Len(a)) /\ Len(a) + j - Len(a) = j
      BY <3>1
    <3>3. QED
      BY <2>8, <3>2
  <2>9. /\ b[1] = e[n + 1]
        /\ eol = "lf" => Len(b) = 2 /\ b[2] = "LF"
        /\ eol = "crlf" => Len(b) = 3 /\ b[2] = "CR" /\ b[3] = "LF"
    BY <1>3, <2>1, <2>6, LineIs
  <2>10. eol = "lf" => LfLines(e, c, n + 1)
    <3>1. SUFFICES ASSUME eol = "lf" PROVE LfLines(e, c, n + 1)
      OBVIOUS
    <3>2. Len(a) = 2 * n /\ \A i \in 1..n : a[2 * i - 1] = e[i] /\ a[2 * i] = "LF"
      BY <1>6, <1>8, <2>5, <3>1 DEF LfLines
    <3>a. Len(b) = 2 /\ b[2] = "LF"
      BY <2>9, <3>1, Zenon
    <3>3. Len(c) = 2 * (n + 1)
      BY <2>1, <2>8, <2>9, <3>a, <3>2
    <3>4. ASSUME NEW i \in 1..(n + 1) PROVE c[2 * i - 1] = e[i] /\ c[2 * i] = "LF"
      <4>1. CASE i = n + 1
        <5>1. c[Len(a) + 1] = b[1] /\ c[Len(a) + 2] = b[2]
          <6>1. 1 \in 1..Len(b) /\ 2 \in 1..Len(b)
            BY <3>a
          <6>2. QED
            BY <2>b, <6>1
        <5>2. 2 * i - 1 = Len(a) + 1 /\ 2 * i = Len(a) + 2
          BY <2>1, <3>2, <4>1
        <5>3. QED
          BY <2>9, <3>a, <4>1, <5>1, <5>2
      <4>2. CASE i # n + 1
        <5>1. i \in 1..n /\ 2 * i - 1 \in 1..Len(a) /\ 2 * i \in 1..Len(a)
          BY <2>1, <3>2, <4>2
        <5>2. c[2 * i - 1] = a[2 * i - 1] /\ c[2 * i] = a[2 * i]
          BY <2>c, <5>1, Zenon
        <5>3. QED
          BY <3>2, <5>1, <5>2
      <4>3. QED
        BY <4>1, <4>2
    <3>5. QED
      BY <3>3, <3>4 DEF LfLines
  <2>11. eol = "crlf" => CrlfLines(e, c, n + 1)
    <3>1. SUFFICES ASSUME eol = "crlf" PROVE CrlfLines(e, c, n + 1)
      OBVIOUS
    <3>2. /\ Len(a) = 3 * n
          /\ \A i \in 1..n : a[3 * i - 2] = e[i] /\ a[3 * i - 1] = "CR" /\ a[3 * i] = "LF"
      BY <1>6, <1>8, <2>5, <3>1 DEF CrlfLines
    <3>a. Len(b) = 3 /\ b[2] = "CR" /\ b[3] = "LF"
      BY <2>9, <3>1, Zenon
    <3>3. Len(c) = 3 * (n + 1)
      BY <2>1, <2>8, <2>9, <3>a, <3>2
    <3>4. ASSUME NEW i \in 1..(n + 1)
          PROVE c[3 * i - 2] = e[i] /\ c[3 * i - 1] = "CR" /\ c[3 * i] = "LF"
      <4>1. CASE i = n + 1
        <5>1. c[Len(a) + 1] = b[1] /\ c[Len(a) + 2] = b[2] /\ c[Len(a) + 3] = b[3]
          <6>1. 1 \in 1..Len(b) /\ 2 \in 1..Len(b) /\ 3 \in 1..Len(b)
            BY <3>a
          <6>2. QED
            BY <2>b, <6>1
        <5>2. 3 * i - 2 = Len(a) + 1 /\ 3 * i - 1 = Len(a) + 2 /\ 3 * i = Len(a) + 3
          BY <2>1, <3>2, <4>1
        <5>3. QED
          BY <2>9, <3>a, <4>1, <5>1, <5>2
      <4>2. CASE i # n + 1
        <5>1. i \in 1..n /\ 3 * i - 2 \in 1..Len(a) /\ 3 * i - 1 \in 1..Len(a) /\ 3 * i \in 1..Len(a)
          BY <2>1, <3>2, <4>2
        <5>2. c[3 * i - 2] = a[3 * i - 2] /\ c[3 * i - 1] = a[3 * i - 1] /\ c[3 * i] = a[3 * i]
          BY <2>c, <5>1, Zenon
        <5>3. QED
          BY <3>2, <5>1, <5>2
      <4>3. QED
        BY <4>1, <4>2
    <3>5. QED
      BY <3>3, <3>4 DEF CrlfLines
  <2>12. QED
    BY <1>6, <2>1, <2>7, <2>10, <2>11
<1>9. 0..N \subseteq X
  BY <1>1, <1>7, <1>8, UpTo
<1>10. QED
  BY <1>1, <1>5, <1>6, <1>9

\* An event on the wire.
LfEvent(e, s) ==
  /\ Len(s) = 2 * Len(e) + 1 /\ s[2 * Len(e) + 1] = "LF"
  /\ \A i \in 1..Len(e) : s[2 * i - 1] = e[i] /\ s[2 * i] = "LF"
CrlfEvent(e, s) ==
  /\ Len(s) = 3 * Len(e) + 2 /\ s[3 * Len(e) + 1] = "CR" /\ s[3 * Len(e) + 2] = "LF"
  /\ \A i \in 1..Len(e) : s[3 * i - 2] = e[i] /\ s[3 * i - 1] = "CR" /\ s[3 * i] = "LF"

LEMMA EncodeIs ==
  ASSUME Sent, NEW e \in Seq(Token)
  PROVE  /\ Encode(e) \in Seq(Token)
         /\ eol = "lf" => LfEvent(e, Encode(e))
         /\ eol = "crlf" => CrlfEvent(e, Encode(e))
<1>1. PICK n \in Nat : n = Len(e)
  OBVIOUS
<1>a. Lines(e, n) \in Seq(Token) /\ EndOfLine(eol) \in Seq(Token)
  BY <1>1, LinesAre, EolIs
<1>2. PICK a \in Seq(Token) : a = Lines(e, n)
  BY <1>a, Zenon
<1>3. PICK b \in Seq(Token) : b = EndOfLine(eol)
  BY <1>a, Zenon
<1>4. PICK c : c = Encode(e)
  OBVIOUS
<1>5. c = Cat(a, b)
  <2>1. \A i \in DOMAIN e : <<e[i]>> \o EndOfLine(eol) = Line(e[i])
    BY Zenon DEF Line, Cat
  <2>2. [i \in DOMAIN e |-> <<e[i]>> \o EndOfLine(eol)] = LinesOf(e)
    BY <2>1, Zenon DEF LinesOf
  <2>3. LinesOf(e) = Firsts(LinesOf(e), n)
    <3>1. DOMAIN e = 1..n
      BY <1>1
    <3>2. QED
      BY <3>1 DEF LinesOf, Firsts
  <2>4. QED
    BY <1>2, <1>3, <1>4, <2>2, <2>3, Zenon DEF Encode, Lines, Cat
<1>6. /\ c \in Seq(Token) /\ Len(c) = Len(a) + Len(b)
      /\ \A i \in 1..(Len(a) + Len(b)) : c[i] = IF i <= Len(a) THEN a[i] ELSE b[i - Len(a)]
  BY ONLY <1>5, a \in Seq(Token), b \in Seq(Token), CatIs
<1>b. \A j \in 1..Len(b) : c[Len(a) + j] = b[j]
  BY ONLY <1>5, a \in Seq(Token), b \in Seq(Token), CatAfter
<1>c. \A j \in 1..Len(a) : c[j] = a[j]
  BY <1>6
<1>7. ASSUME eol = "lf" PROVE LfEvent(e, c)
  <2>1. Len(b) = 1 /\ b[1] = "LF"
    BY <1>3, <1>7, EolIs, Zenon
  <2>2. LfLines(e, a, n)
    BY <1>1, <1>2, <1>7, LinesAre
  <2>3. Len(a) = 2 * n /\ \A i \in 1..n : a[2 * i - 1] = e[i] /\ a[2 * i] = "LF"
    BY <2>2 DEF LfLines
  <2>4. Len(c) = 2 * n + 1
    BY <1>6, <2>1, <2>3
  <2>5. c[2 * n + 1] = "LF"
    <3>1. 1 \in 1..Len(b)
      BY <2>1
    <3>2. QED
      BY <1>b, <2>1, <2>3, <3>1
  <2>6. ASSUME NEW i \in 1..n PROVE c[2 * i - 1] = e[i] /\ c[2 * i] = "LF"
    <3>1. 2 * i - 1 \in 1..Len(a) /\ 2 * i \in 1..Len(a)
      BY <2>3
    <3>2. c[2 * i - 1] = a[2 * i - 1] /\ c[2 * i] = a[2 * i]
      BY <1>c, <3>1, Zenon
    <3>3. QED
      BY <2>3, <3>2
  <2>7. QED
    BY <1>1, <2>4, <2>5, <2>6 DEF LfEvent
<1>8. ASSUME eol = "crlf" PROVE CrlfEvent(e, c)
  <2>1. Len(b) = 2 /\ b[1] = "CR" /\ b[2] = "LF"
    BY <1>3, <1>8, EolIs, Zenon
  <2>2. CrlfLines(e, a, n)
    BY <1>1, <1>2, <1>8, LinesAre
  <2>3. /\ Len(a) = 3 * n
        /\ \A i \in 1..n : a[3 * i - 2] = e[i] /\ a[3 * i - 1] = "CR" /\ a[3 * i] = "LF"
    BY <2>2 DEF CrlfLines
  <2>4. Len(c) = 3 * n + 2
    BY <1>6, <2>1, <2>3
  <2>5. c[3 * n + 1] = "CR" /\ c[3 * n + 2] = "LF"
    <3>1. 1 \in 1..Len(b) /\ 2 \in 1..Len(b)
      BY <2>1
    <3>2. QED
      BY <1>b, <2>1, <2>3, <3>1
  <2>6. ASSUME NEW i \in 1..n PROVE c[3 * i - 2] = e[i] /\ c[3 * i - 1] = "CR" /\ c[3 * i] = "LF"
    <3>1. 3 * i - 2 \in 1..Len(a) /\ 3 * i - 1 \in 1..Len(a) /\ 3 * i \in 1..Len(a)
      BY <2>3
    <3>2. c[3 * i - 2] = a[3 * i - 2] /\ c[3 * i - 1] = a[3 * i - 1] /\ c[3 * i] = a[3 * i]
      BY <1>c, <3>1, Zenon
    <3>3. QED
      BY <2>3, <3>2
  <2>7. QED
    BY <1>1, <2>4, <2>5, <2>6 DEF CrlfEvent
<1>9. QED
  BY <1>4, <1>6, <1>7, <1>8

\* Where the lines of an event are, every other token ends one.
Plain(e) == Len(e) \in Nat \ {0} /\ \A i \in 1..Len(e) : e[i] \notin {"CR", "LF"}

LEMMA LfRows ==
  ASSUME NEW e, Plain(e), NEW s, LfEvent(e, s)
  PROVE  /\ Len(s) \in Nat /\ Len(s) >= 3 /\ s[Len(s) - 1] = "LF" /\ s[Len(s)] = "LF"
         /\ \A j \in 1..Len(s) : s[j] # "CR"
         /\ \A j \in 1..(Len(s) - 2) : ~ (s[j] = "LF" /\ s[j + 1] = "LF")
<1>1. PICK n \in Nat \ {0} : n = Len(e)
  BY DEF Plain
<1>2. \A i \in 1..n : s[2 * i - 1] \notin {"CR", "LF"} /\ s[2 * i] = "LF"
  BY <1>1 DEF Plain, LfEvent
<1>3. Len(s) = 2 * n + 1 /\ s[2 * n + 1] = "LF"
  BY <1>1 DEF LfEvent
<1>4. ASSUME NEW j \in 1..Len(s) PROVE s[j] # "CR" /\ (j <= Len(s) - 2 => ~ (s[j] = "LF" /\ s[j + 1] = "LF"))
  <2>1. CASE j = 2 * n + 1
    BY <1>3, <2>1
  <2>2. CASE \E i \in 1..n : j = 2 * i - 1
    <3>1. PICK i \in 1..n : j = 2 * i - 1
      BY <2>2
    <3>2. QED
      BY <1>2, <3>1
  <2>3. CASE \E i \in 1..n : j = 2 * i
    <3>1. PICK i \in 1..n : j = 2 * i
      BY <2>3
    <3>2. s[j] = "LF"
      BY <1>2, <3>1
    <3>3. ASSUME j <= Len(s) - 2 PROVE s[j + 1] # "LF"
      <4>1. i + 1 \in 1..n /\ 2 * (i + 1) - 1 = j + 1
        BY <1>3, <3>1, <3>3
      <4>2. s[2 * (i + 1) - 1] # "LF"
        BY <1>2, <4>1
      <4>3. QED
        BY <4>1, <4>2
    <3>4. QED
      BY <3>2, <3>3
  <2>4. j = 2 * n + 1 \/ (\E i \in 1..n : j = 2 * i - 1) \/ (\E i \in 1..n : j = 2 * i)
    <3>1. j \div 2 \in Nat /\ (j = 2 * (j \div 2) \/ j = 2 * (j \div 2) + 1)
      OBVIOUS
    <3>2. CASE j = 2 * (j \div 2)
      BY <1>3, <3>1, <3>2
    <3>3. CASE j = 2 * (j \div 2) + 1
      <4>1. j = 2 * (j \div 2 + 1) - 1 /\ j \div 2 + 1 \in 1..(n + 1)
        BY <1>3, <3>1, <3>3
      <4>2. CASE j \div 2 + 1 = n + 1
        BY <3>1, <3>3, <4>2
      <4>3. CASE j \div 2 + 1 \in 1..n
        BY <4>1, <4>3
      <4>4. QED
        BY <4>1, <4>2, <4>3
    <3>4. QED
      BY <3>1, <3>2, <3>3
  <2>5. QED
    BY <2>1, <2>2, <2>3, <2>4
<1>5. s[Len(s) - 1] = "LF" /\ s[Len(s)] = "LF"
  <2>1. n \in 1..n /\ Len(s) - 1 = 2 * n
    BY <1>3
  <2>2. QED
    BY <1>2, <1>3, <2>1
<1>6. QED
  BY <1>3, <1>4, <1>5

LEMMA CrlfRows ==
  ASSUME NEW e, Plain(e), NEW s, CrlfEvent(e, s)
  PROVE  /\ Len(s) \in Nat /\ Len(s) >= 5 /\ s[Len(s) - 3] = "CR" /\ s[Len(s) - 2] = "LF"
         /\ s[Len(s) - 1] = "CR" /\ s[Len(s)] = "LF"
         /\ \A j \in 1..(Len(s) - 1) : ~ (s[j] = "LF" /\ s[j + 1] = "LF")
         /\ \A j \in 1..(Len(s) - 4) : ~ (s[j] = "CR" /\ s[j + 2] = "CR")
<1>1. PICK n \in Nat \ {0} : n = Len(e)
  BY DEF Plain
<1>2. \A i \in 1..n : s[3 * i - 2] \notin {"CR", "LF"} /\ s[3 * i - 1] = "CR" /\ s[3 * i] = "LF"
  BY <1>1 DEF Plain, CrlfEvent
<1>3. Len(s) = 3 * n + 2 /\ s[3 * n + 1] = "CR" /\ s[3 * n + 2] = "LF"
  BY <1>1 DEF CrlfEvent
<1>4. ASSUME NEW j \in 1..Len(s), j <= Len(s) - 1
      PROVE /\ ~ (s[j] = "LF" /\ s[j + 1] = "LF")
            /\ j <= Len(s) - 4 => ~ (s[j] = "CR" /\ s[j + 2] = "CR")
  <2>1. PICK i \in 1..(n + 1) : j = 3 * i - 2 \/ j = 3 * i - 1 \/ j = 3 * i
    <3>1. PICK d \in Nat : d = (j + 2) \div 3
      OBVIOUS
    <3>2. j = 3 * d - 2 \/ j = 3 * d - 1 \/ j = 3 * d
      BY <3>1
    <3>3. d \in 1..(n + 1)
      BY <1>3, <3>2
    <3>4. QED
      BY <3>2, <3>3
  <2>2. CASE i = n + 1
    <3>1. j = 3 * n + 1 /\ ~ (j <= Len(s) - 4)
      BY <1>3, <1>4, <2>1, <2>2
    <3>2. QED
      BY <1>3, <3>1
  <2>3. CASE i \in 1..n
    <3>1. s[3 * i - 2] \notin {"CR", "LF"} /\ s[3 * i - 1] = "CR" /\ s[3 * i] = "LF"
      BY <1>2, <2>3
    <3>2. s[3 * i + 1] # "LF"
      <4>1. CASE i = n
        BY <1>3, <4>1
      <4>2. CASE i # n
        <5>1. i + 1 \in 1..n /\ 3 * (i + 1) - 2 = 3 * i + 1
          BY <2>3, <4>2
        <5>2. QED
          BY <1>2, <5>1
      <4>3. QED
        BY <4>1, <4>2
    <3>3. j <= Len(s) - 4 /\ j = 3 * i - 1 => s[j + 2] # "CR"
      <4>1. SUFFICES ASSUME j <= Len(s) - 4, j = 3 * i - 1 PROVE s[j + 2] # "CR"
        OBVIOUS
      <4>2. i + 1 \in 1..n /\ 3 * (i + 1) - 2 = j + 2
        BY <1>3, <2>3, <4>1
      <4>3. QED
        BY <1>2, <4>2
    <3>4. CASE j = 3 * i - 2
      BY <3>1, <3>4
    <3>5. CASE j = 3 * i - 1
      BY <3>1, <3>3, <3>5
    <3>6. CASE j = 3 * i
      BY <3>1, <3>2, <3>6
    <3>7. QED
      BY <2>1, <3>4, <3>5, <3>6
  <2>4. QED
    BY <2>1, <2>2, <2>3
<1>5. Len(s) \in Nat /\ Len(s) >= 5
  BY <1>3
<1>6. s[Len(s) - 3] = "CR" /\ s[Len(s) - 2] = "LF" /\ s[Len(s) - 1] = "CR" /\ s[Len(s)] = "LF"
  <2>1. n \in 1..n /\ Len(s) - 3 = 3 * n - 1 /\ Len(s) - 2 = 3 * n /\ Len(s) - 1 = 3 * n + 1
    BY <1>3
  <2>2. QED
    BY <1>2, <1>3, <2>1
<1>7. \A j \in 1..(Len(s) - 1) : ~ (s[j] = "LF" /\ s[j + 1] = "LF")
  BY <1>4, <1>5
<1>8. \A j \in 1..(Len(s) - 4) : ~ (s[j] = "CR" /\ s[j + 2] = "CR")
  BY <1>4, <1>5
<1>9. QED
  BY <1>5, <1>6, <1>7, <1>8

-----------------------------------------------------------------------------
(* What the decoder finds *)

LEMMA SeparatorIs ==
  ASSUME NEW b \in Seq(Token), NEW t
  PROVE  t \in find_event_separator(b) <=>
           \/ \E j \in 1..(Len(b) - 1) : t = <<j, 2>> /\ b[j] = "LF" /\ b[j + 1] = "LF"
           \/ \E j \in 1..(Len(b) - 3) : /\ t = <<j, 4>> /\ b[j] = "CR" /\ b[j + 1] = "LF"
                                         /\ b[j + 2] = "CR" /\ b[j + 3] = "LF"
<1>1. \A j \in 1..(Len(b) - 1) : Pair(b, j, "LF", "LF") <=> b[j] = "LF" /\ b[j + 1] = "LF"
  BY PairIs, Zenon
<1>2. \A j \in 1..(Len(b) - 3) :
        Four(b, j, "CR", "LF", "CR", "LF")
        <=> b[j] = "CR" /\ b[j + 1] = "LF" /\ b[j + 2] = "CR" /\ b[j + 3] = "LF"
  BY FourIs, Zenon
<1>3. PICK P : P = {j \in 1..(Len(b) - 1) : SubSeq(b, j, j + 1) = <<"LF", "LF">>}
  OBVIOUS
<1>4. PICK Q : Q = {j \in 1..(Len(b) - 3) : SubSeq(b, j, j + 3) = <<"CR", "LF", "CR", "LF">>}
  OBVIOUS
<1>5. find_event_separator(b) = {<<i, 2>> : i \in P} \cup {<<i, 4>> : i \in Q}
  BY <1>3, <1>4, Zenon DEF find_event_separator
<1>6. \A j : j \in P <=> j \in 1..(Len(b) - 1) /\ b[j] = "LF" /\ b[j + 1] = "LF"
  BY <1>1, <1>3, Zenon DEF Pair
<1>7. \A j : j \in Q <=> /\ j \in 1..(Len(b) - 3) /\ b[j] = "CR" /\ b[j + 1] = "LF"
                         /\ b[j + 2] = "CR" /\ b[j + 3] = "LF"
  BY <1>2, <1>4, Zenon DEF Four
<1>8. t \in find_event_separator(b) <=> (\E j \in P : t = <<j, 2>>) \/ (\E j \in Q : t = <<j, 4>>)
  BY <1>5, Zenon
<1>9. QED
  BY <1>6, <1>7, <1>8, Zenon

FirstSeparator(b) ==
  CHOOSE s \in find_event_separator(b) : \A t \in find_event_separator(b) : s[1] <= t[1]

LEMMA FirstIs ==
  ASSUME NEW b, NEW f \in find_event_separator(b), f[1] \in Nat,
         \A t \in find_event_separator(b) : t = f \/ (t[1] \in Nat /\ t[1] > f[1])
  PROVE  find_event_separator(b) # {} /\ FirstSeparator(b) = f
<1>1. PICK S : S = find_event_separator(b)
  OBVIOUS
<1>2. f \in S /\ \A t \in S : f[1] <= t[1]
  BY <1>1
<1>3. \A s \in S : (\A t \in S : s[1] <= t[1]) => s = f
  BY <1>1, <1>2
<1>4. (CHOOSE s \in S : \A t \in S : s[1] <= t[1]) = f
  BY <1>2, <1>3
<1>5. QED
  BY <1>1, <1>4, Zenon DEF FirstSeparator

\* The decoder's buffer begins with s, as far as it goes.
Begins(b, s) == \A i \in 1..Len(b) : i <= Len(s) => b[i] = s[i]

LEMMA LfCut ==
  ASSUME NEW e, Plain(e), NEW s, LfEvent(e, s), NEW b \in Seq(Token), Begins(b, s)
  PROVE  /\ Len(b) < Len(s) => find_event_separator(b) = {}
         /\ Len(b) >= Len(s) => /\ find_event_separator(b) # {}
                                /\ FirstSeparator(b) = <<Len(s) - 1, 2>>
<1>1. /\ Len(s) \in Nat /\ Len(s) >= 3 /\ s[Len(s) - 1] = "LF" /\ s[Len(s)] = "LF"
      /\ \A j \in 1..Len(s) : s[j] # "CR"
      /\ \A j \in 1..(Len(s) - 2) : ~ (s[j] = "LF" /\ s[j + 1] = "LF")
  BY LfRows
<1>2. PICK n \in Nat : n = Len(b)
  OBVIOUS
<1>3. \A i \in 1..n : i <= Len(s) => b[i] = s[i]
  BY <1>2 DEF Begins
<1>4. ASSUME NEW j \in 1..(n - 1), b[j] = "LF", b[j + 1] = "LF"
      PROVE  j >= Len(s) - 1
  <2>1. SUFFICES ASSUME j \in 1..(Len(s) - 2) PROVE FALSE
    BY <1>1
  <2>2. b[j] = s[j] /\ b[j + 1] = s[j + 1]
    BY <1>1, <1>3, <2>1
  <2>3. QED
    BY <1>1, <1>4, <2>1, <2>2
<1>5. ASSUME NEW j \in 1..(n - 3), b[j] = "CR"
      PROVE  j > Len(s)
  <2>1. SUFFICES ASSUME j \in 1..Len(s) PROVE FALSE
    BY <1>1
  <2>2. b[j] = s[j]
    BY <1>1, <1>2, <1>3, <2>1
  <2>3. QED
    BY <1>1, <1>5, <2>1, <2>2
<1>6. ASSUME NEW t \in find_event_separator(b)
      PROVE  n >= Len(s) /\ (t = <<Len(s) - 1, 2>> \/ (t[1] \in Nat /\ t[1] > Len(s) - 1))
  <2>1. CASE \E j \in 1..(Len(b) - 1) : t = <<j, 2>> /\ b[j] = "LF" /\ b[j + 1] = "LF"
    <3>1. PICK j \in 1..(n - 1) : t = <<j, 2>> /\ b[j] = "LF" /\ b[j + 1] = "LF"
      BY <1>2, <2>1
    <3>2. j >= Len(s) - 1
      BY <1>4, <3>1
    <3>3. QED
      BY <1>1, <3>1, <3>2
  <2>2. CASE \E j \in 1..(Len(b) - 3) : t = <<j, 4>> /\ b[j] = "CR"
    <3>1. PICK j \in 1..(n - 3) : t = <<j, 4>> /\ b[j] = "CR"
      BY <1>2, <2>2
    <3>2. j > Len(s)
      BY <1>5, <3>1
    <3>3. QED
      BY <1>1, <3>1, <3>2
  <2>3. QED
    BY <1>6, <2>1, <2>2, SeparatorIs, Zenon
<1>7. n < Len(s) => find_event_separator(b) = {}
  BY <1>1, <1>6
<1>8. ASSUME n >= Len(s)
      PROVE  find_event_separator(b) # {} /\ FirstSeparator(b) = <<Len(s) - 1, 2>>
  <2>1. PICK p \in Nat : p = Len(s) - 1 /\ p \in 1..(n - 1)
    BY <1>1, <1>8
  <2>2. b[p] = "LF" /\ b[p + 1] = "LF"
    BY <1>1, <1>3, <1>8, <2>1
  <2>3. <<p, 2>> \in find_event_separator(b)
    BY <1>2, <2>1, <2>2, SeparatorIs, Zenon
  <2>4. PICK f : f = <<p, 2>>
    OBVIOUS
  <2>5. f[1] = p
    BY <2>4
  <2>6. \A t \in find_event_separator(b) : t = f \/ (t[1] \in Nat /\ t[1] > f[1])
    BY <1>6, <2>1, <2>4, <2>5, Zenon
  <2>7. find_event_separator(b) # {} /\ FirstSeparator(b) = f
    BY <2>3, <2>4, <2>5, <2>6, FirstIs, Zenon
  <2>8. QED
    BY <2>1, <2>4, <2>7, Zenon
<1>9. QED
  BY <1>2, <1>7, <1>8

LEMMA CrlfCut ==
  ASSUME NEW e, Plain(e), NEW s, CrlfEvent(e, s), NEW b \in Seq(Token), Begins(b, s)
  PROVE  /\ Len(b) < Len(s) => find_event_separator(b) = {}
         /\ Len(b) >= Len(s) => /\ find_event_separator(b) # {}
                                /\ FirstSeparator(b) = <<Len(s) - 3, 4>>
<1>1. /\ Len(s) \in Nat /\ Len(s) >= 5 /\ s[Len(s) - 3] = "CR" /\ s[Len(s) - 2] = "LF"
      /\ s[Len(s) - 1] = "CR" /\ s[Len(s)] = "LF"
      /\ \A j \in 1..(Len(s) - 1) : ~ (s[j] = "LF" /\ s[j + 1] = "LF")
      /\ \A j \in 1..(Len(s) - 4) : ~ (s[j] = "CR" /\ s[j + 2] = "CR")
  BY CrlfRows
<1>a. Len(s) \in Nat /\ Len(s) >= 5
  BY <1>1
<1>2. PICK n \in Nat : n = Len(b)
  OBVIOUS
<1>3. \A i \in 1..n : i <= Len(s) => b[i] = s[i]
  BY <1>2 DEF Begins
<1>4. ASSUME NEW j \in 1..(n - 1), b[j] = "LF", b[j + 1] = "LF"
      PROVE  j > Len(s) - 1
  <2>1. SUFFICES ASSUME j \in 1..(Len(s) - 1) PROVE FALSE
    BY <1>1
  <2>2. b[j] = s[j] /\ b[j + 1] = s[j + 1]
    BY <1>1, <1>3, <2>1
  <2>3. QED
    BY <1>1, <1>4, <2>1, <2>2
<1>5. ASSUME NEW j \in 1..(n - 3), b[j] = "CR", b[j + 2] = "CR"
      PROVE  j >= Len(s) - 3
  <2>1. SUFFICES ASSUME j \in 1..(Len(s) - 4) PROVE FALSE
    BY <1>1
  <2>a. j \in 1..n /\ j + 2 \in 1..n /\ j <= Len(s) /\ j + 2 <= Len(s)
    BY <1>2, <1>a, <2>1
  <2>2. b[j] = s[j] /\ b[j + 2] = s[j + 2]
    BY <1>3, <2>a, Zenon
  <2>3. QED
    BY <1>1, <1>5, <2>1, <2>2
<1>6. ASSUME NEW t \in find_event_separator(b)
      PROVE  n >= Len(s) /\ (t = <<Len(s) - 3, 4>> \/ (t[1] \in Nat /\ t[1] > Len(s) - 3))
  <2>1. CASE \E j \in 1..(Len(b) - 1) : t = <<j, 2>> /\ b[j] = "LF" /\ b[j + 1] = "LF"
    <3>1. PICK j \in 1..(n - 1) : t = <<j, 2>> /\ b[j] = "LF" /\ b[j + 1] = "LF"
      BY <1>2, <2>1
    <3>2. j > Len(s) - 1
      BY <1>4, <3>1
    <3>3. QED
      BY <1>1, <3>1, <3>2
  <2>2. CASE \E j \in 1..(Len(b) - 3) : /\ t = <<j, 4>> /\ b[j] = "CR" /\ b[j + 1] = "LF"
                                        /\ b[j + 2] = "CR" /\ b[j + 3] = "LF"
    <3>1. PICK j \in 1..(n - 3) : t = <<j, 4>> /\ b[j] = "CR" /\ b[j + 2] = "CR"
      BY <1>2, <2>2
    <3>2. j >= Len(s) - 3
      BY <1>5, <3>1
    <3>3. QED
      BY <1>1, <3>1, <3>2
  <2>3. QED
    BY <1>6, <2>1, <2>2, SeparatorIs, Zenon
<1>7. n < Len(s) => find_event_separator(b) = {}
  BY <1>1, <1>6
<1>8. ASSUME n >= Len(s)
      PROVE  find_event_separator(b) # {} /\ FirstSeparator(b) = <<Len(s) - 3, 4>>
  <2>1. PICK p \in Nat : p = Len(s) - 3 /\ p \in 1..(n - 3)
    <3>1. Len(s) - 3 \in Nat /\ Len(s) - 3 \in 1..(n - 3)
      BY <1>a, <1>8
    <3>2. QED
      BY <3>1, Zenon
  <2>2. b[p] = "CR" /\ b[p + 1] = "LF" /\ b[p + 2] = "CR" /\ b[p + 3] = "LF"
    <3>1. /\ p \in 1..n /\ p + 1 \in 1..n /\ p + 2 \in 1..n /\ p + 3 \in 1..n
          /\ p <= Len(s) /\ p + 1 <= Len(s) /\ p + 2 <= Len(s) /\ p + 3 <= Len(s)
      BY <1>a, <2>1
    <3>2. b[p] = s[p] /\ b[p + 1] = s[p + 1] /\ b[p + 2] = s[p + 2] /\ b[p + 3] = s[p + 3]
      BY <1>3, <3>1, Zenon
    <3>3. p + 1 = Len(s) - 2 /\ p + 2 = Len(s) - 1 /\ p + 3 = Len(s)
      BY <1>a, <2>1
    <3>4. QED
      BY <1>1, <2>1, <3>2, <3>3, Zenon
  <2>3. <<p, 4>> \in find_event_separator(b)
    BY <1>2, <2>1, <2>2, SeparatorIs, Zenon
  <2>4. PICK f : f = <<p, 4>>
    OBVIOUS
  <2>5. f[1] = p
    BY <2>4
  <2>6. \A t \in find_event_separator(b) : t = f \/ (t[1] \in Nat /\ t[1] > f[1])
    BY <1>6, <2>1, <2>4, <2>5, Zenon
  <2>7. find_event_separator(b) # {} /\ FirstSeparator(b) = f
    BY <2>3, <2>4, <2>5, <2>6, FirstIs, Zenon
  <2>8. QED
    BY <2>1, <2>4, <2>7, Zenon
<1>9. QED
  BY <1>2, <1>7, <1>8

-----------------------------------------------------------------------------
(* The data lines of an event, of the first p tokens of a buffer *)

DataOf(b) == [i \in DOMAIN b |-> Data(b[i])]
DataTo(b, p) == FlattenSeq(Firsts(DataOf(b), p))

LEMMA DataToIs ==
  ASSUME NEW b \in Seq(Token), NEW p \in 0..Len(b)
  PROVE  DataLines(SubSeq(b, 1, p)) = DataTo(b, p)
<1>a. SubSeq(b, 1, p) \in Seq(Token)
  OBVIOUS
<1>1. PICK c \in Seq(Token) : c = SubSeq(b, 1, p)
  BY <1>a, Zenon
<1>2. DOMAIN c = 1..p /\ \A i \in 1..p : c[i] = b[i]
  BY <1>1
<1>3. DOMAIN b = 1..Len(b) /\ \A i \in 1..p : i \in DOMAIN b
  OBVIOUS
<1>4. [i \in DOMAIN c |-> Data(c[i])] = Firsts(DataOf(b), p)
  BY <1>2, <1>3 DEF Firsts, DataOf
<1>5. QED
  BY <1>1, <1>4, Zenon DEF DataLines, DataTo

LEMMA DataIs == \A t \in Token : Data(t) \in Seq(Token) /\ (t \in {"CR", "LF"} => Data(t) = <<>>)
BY DEF Data

LEMMA DataNext ==
  ASSUME NEW b \in Seq(Token), NEW p \in 0..(Len(b) - 1)
  PROVE  /\ DataTo(b, p + 1) = Cat(DataTo(b, p), Data(b[p + 1]))
         /\ b[p + 1] \in {"CR", "LF"} => DataTo(b, p + 1) = DataTo(b, p)
<1>1. PICK V : V = Seq(Token)
  OBVIOUS
<1>2. PICK s : s = DataOf(b)
  OBVIOUS
<1>3. \A i \in 1..(p + 1) : s[i] = Data(b[i]) /\ b[i] \in Token
  BY <1>2 DEF DataOf
<1>4. \A i \in 1..(p + 1) : s[i] \in V
  BY <1>1, <1>3, DataIs
<1>5. p \in Nat /\ Joinable(V)
  BY <1>1, SeqJoinable
<1>6. DataTo(b, p + 1) = Cat(DataTo(b, p), s[p + 1])
  BY <1>2, <1>4, <1>5, FlattenMore, Zenon DEF DataTo
<1>7. p + 1 \in 1..(p + 1)
  BY <1>5
<1>8. s[p + 1] = Data(b[p + 1]) /\ b[p + 1] \in Token
  BY <1>3, <1>7
<1>9. ASSUME b[p + 1] \in {"CR", "LF"} PROVE DataTo(b, p + 1) = DataTo(b, p)
  <2>1. s[p + 1] = <<>>
    BY <1>8, <1>9, DataIs, Zenon
  <2>2. DataTo(b, p) \in Seq(Token)
    <3>1. \A i \in 1..p : s[i] \in Seq(Token)
      BY <1>1, <1>4, <1>5
    <3>2. \A n \in 0..p : FlattenSeq(Firsts(s, n)) \in Seq(Token)
      BY <1>5, <3>1, FlattenIsSeq
    <3>3. QED
      BY <1>2, <1>5, <3>2 DEF DataTo
  <2>3. Cat(DataTo(b, p), <<>>) = DataTo(b, p)
    BY <2>2, ConcatEmptySeq DEF Cat
  <2>4. QED
    BY <1>6, <2>1, <2>3, Zenon
<1>10. QED
  BY <1>6, <1>8, <1>9, Zenon

\* The block before the separator has the data lines of the event.
LEMMA LfData ==
  ASSUME NEW e \in Seq(Token), Plain(e), NEW s, LfEvent(e, s), NEW b \in Seq(Token),
         Begins(b, s), Len(b) >= Len(s)
  PROVE  DataLines(SubSeq(b, 1, Len(s) - 2)) = DataLines(e)
<1>1. PICK n \in Nat \ {0} : n = Len(e)
  BY DEF Plain
<1>2. Len(s) = 2 * n + 1 /\ \A i \in 1..n : s[2 * i - 1] = e[i] /\ s[2 * i] = "LF"
  BY <1>1 DEF LfEvent
<1>3. \A i \in 1..Len(s) : i \in 1..Len(b) /\ b[i] = s[i]
  BY <1>2 DEF Begins
<1>4. \A i \in 1..n : b[2 * i - 1] = e[i] /\ b[2 * i] = "LF"
  <2>1. SUFFICES ASSUME NEW i \in 1..n PROVE b[2 * i - 1] = e[i] /\ b[2 * i] = "LF"
    OBVIOUS
  <2>2. 2 * i - 1 \in 1..Len(s) /\ 2 * i \in 1..Len(s)
    BY <1>2
  <2>3. QED
    BY <1>2, <1>3, <2>2, Zenon
<1>5. PICK X : X = {m \in 0..n : DataTo(b, 2 * m) = DataTo(e, m)}
  OBVIOUS
<1>6. 0 \in X
  BY <1>5, FlattenNone DEF DataTo
<1>7. ASSUME NEW m \in 0..(n - 1), m \in X PROVE m + 1 \in X
  <2>1. /\ m \in 0..(Len(e) - 1) /\ m + 1 \in 1..n /\ m + 1 \in 0..n /\ 2 * m \in 0..(Len(b) - 1)
        /\ 2 * m + 1 \in 0..(Len(b) - 1)
    BY <1>1, <1>2
  <2>2. b[2 * m + 1] = e[m + 1] /\ b[2 * m + 2] = "LF"
    <3>1. 2 * (m + 1) - 1 = 2 * m + 1 /\ 2 * (m + 1) = 2 * m + 2
      OBVIOUS
    <3>2. QED
      BY <1>4, <2>1, <3>1
  <2>3. DataTo(b, 2 * m + 1) = Cat(DataTo(b, 2 * m), Data(b[2 * m + 1]))
    BY <2>1, DataNext, Zenon
  <2>4. 2 * m + 1 + 1 = 2 * (m + 1) /\ 2 * m + 1 + 1 = 2 * m + 2
    OBVIOUS
  <2>5. DataTo(b, 2 * (m + 1)) = DataTo(b, 2 * m + 1)
    <3>1. b[2 * m + 1 + 1] \in {"CR", "LF"}
      BY <2>2, <2>4
    <3>2. DataTo(b, 2 * m + 1 + 1) = DataTo(b, 2 * m + 1)
      BY <2>1, <3>1, DataNext, Zenon
    <3>3. QED
      BY <2>4, <3>2, Zenon
  <2>6. DataTo(e, m + 1) = Cat(DataTo(e, m), Data(e[m + 1]))
    BY <2>1, DataNext, Zenon
  <2>7. DataTo(b, 2 * m) = DataTo(e, m)
    BY <1>5, <1>7
  <2>8. DataTo(b, 2 * (m + 1)) = DataTo(e, m + 1)
    BY <2>2, <2>3, <2>5, <2>6, <2>7, Zenon
  <2>9. QED
    BY <1>5, <2>1, <2>8
<1>8. DataTo(b, 2 * n) = DataTo(e, n)
  <2>1. 0..n \subseteq X
    BY <1>6, <1>7, UpTo
  <2>2. QED
    BY <1>5, <2>1
<1>9. DataTo(b, 2 * n) = DataTo(b, 2 * n - 1)
  <2>1. PICK p \in Nat : p = 2 * n - 1 /\ p + 1 = 2 * n /\ p \in 0..(Len(b) - 1)
    <3>1. 2 * n - 1 \in Nat /\ 2 * n - 1 + 1 = 2 * n /\ 2 * n - 1 \in 0..(Len(b) - 1)
      BY <1>2
    <3>2. QED
      BY <3>1, Zenon
  <2>2. n \in 1..n
    OBVIOUS
  <2>3. b[p + 1] \in {"CR", "LF"}
    BY <1>4, <2>1, <2>2
  <2>4. DataTo(b, p + 1) = DataTo(b, p)
    BY <2>1, <2>3, DataNext, Zenon
  <2>5. QED
    BY <2>1, <2>4, Zenon
<1>10. Len(s) - 2 = 2 * n - 1 /\ 2 * n - 1 \in 0..Len(b)
  BY <1>2
<1>11. DataLines(SubSeq(b, 1, Len(s) - 2)) = DataTo(b, 2 * n - 1)
  BY <1>10, DataToIs, Zenon
<1>12. DataLines(e) = DataTo(e, n)
  <2>1. n \in 0..Len(e) /\ SubSeq(e, 1, n) = e
    BY <1>1
  <2>2. DataLines(SubSeq(e, 1, n)) = DataTo(e, n)
    BY <2>1, DataToIs, Zenon
  <2>3. QED
    BY <2>1, <2>2, Zenon
<1>13. QED
  BY <1>8, <1>9, <1>11, <1>12, Zenon

LEMMA CrlfData ==
  ASSUME NEW e \in Seq(Token), Plain(e), NEW s, CrlfEvent(e, s), NEW b \in Seq(Token),
         Begins(b, s), Len(b) >= Len(s)
  PROVE  DataLines(SubSeq(b, 1, Len(s) - 4)) = DataLines(e)
<1>1. PICK n \in Nat \ {0} : n = Len(e)
  BY DEF Plain
<1>2. /\ Len(s) = 3 * n + 2
      /\ \A i \in 1..n : s[3 * i - 2] = e[i] /\ s[3 * i - 1] = "CR" /\ s[3 * i] = "LF"
  BY <1>1 DEF CrlfEvent
<1>3. \A i \in 1..Len(s) : i \in 1..Len(b) /\ b[i] = s[i]
  BY <1>2 DEF Begins
<1>4. \A i \in 1..n : b[3 * i - 2] = e[i] /\ b[3 * i - 1] = "CR" /\ b[3 * i] = "LF"
  <2>1. SUFFICES ASSUME NEW i \in 1..n PROVE b[3 * i - 2] = e[i] /\ b[3 * i - 1] = "CR" /\ b[3 * i] = "LF"
    OBVIOUS
  <2>2. 3 * i - 2 \in 1..Len(s) /\ 3 * i - 1 \in 1..Len(s) /\ 3 * i \in 1..Len(s)
    BY <1>2
  <2>3. QED
    BY <1>2, <1>3, <2>2, Zenon
<1>5. PICK X : X = {m \in 0..n : DataTo(b, 3 * m) = DataTo(e, m)}
  OBVIOUS
<1>6. 0 \in X
  BY <1>5, FlattenNone DEF DataTo
<1>7. ASSUME NEW m \in 0..(n - 1) PROVE
        /\ DataTo(b, 3 * m + 1) = Cat(DataTo(b, 3 * m), Data(e[m + 1]))
        /\ DataTo(b, 3 * m + 2) = DataTo(b, 3 * m + 1)
        /\ DataTo(b, 3 * m + 3) = DataTo(b, 3 * m + 1)
  <2>1. /\ 3 * m \in 0..(Len(b) - 1) /\ 3 * m + 1 \in 0..(Len(b) - 1) /\ 3 * m + 2 \in 0..(Len(b) - 1)
        /\ 3 * m + 1 + 1 = 3 * m + 2 /\ 3 * m + 2 + 1 = 3 * m + 3
    BY <1>2
  <2>2. b[3 * m + 1] = e[m + 1] /\ b[3 * m + 2] = "CR" /\ b[3 * m + 3] = "LF"
    <3>1. /\ m + 1 \in 1..n /\ 3 * (m + 1) - 2 = 3 * m + 1 /\ 3 * (m + 1) - 1 = 3 * m + 2
          /\ 3 * (m + 1) = 3 * m + 3
      OBVIOUS
    <3>2. QED
      BY <1>4, <3>1
  <2>3. DataTo(b, 3 * m + 1) = Cat(DataTo(b, 3 * m), Data(b[3 * m + 1]))
    BY <2>1, DataNext, Zenon
  <2>4. DataTo(b, 3 * m + 2) = DataTo(b, 3 * m + 1)
    <3>1. b[3 * m + 1 + 1] \in {"CR", "LF"}
      BY <2>1, <2>2, Zenon
    <3>2. DataTo(b, 3 * m + 1 + 1) = DataTo(b, 3 * m + 1)
      BY <2>1, <3>1, DataNext, Zenon
    <3>3. QED
      BY <2>1, <3>2, Zenon
  <2>5. DataTo(b, 3 * m + 3) = DataTo(b, 3 * m + 2)
    <3>1. b[3 * m + 2 + 1] \in {"CR", "LF"}
      BY <2>1, <2>2, Zenon
    <3>2. DataTo(b, 3 * m + 2 + 1) = DataTo(b, 3 * m + 2)
      BY <2>1, <3>1, DataNext, Zenon
    <3>3. QED
      BY <2>1, <3>2, Zenon
  <2>6. QED
    BY <2>2, <2>3, <2>4, <2>5, Zenon
<1>8. ASSUME NEW m \in 0..(n - 1), m \in X PROVE m + 1 \in X
  <2>1. m \in 0..(Len(e) - 1) /\ m + 1 \in 0..n /\ 3 * (m + 1) = 3 * m + 3
    BY <1>1
  <2>2. DataTo(e, m + 1) = Cat(DataTo(e, m), Data(e[m + 1]))
    BY <2>1, DataNext, Zenon
  <2>3. DataTo(b, 3 * m) = DataTo(e, m)
    BY <1>5, <1>8
  <2>4. DataTo(b, 3 * (m + 1)) = DataTo(e, m + 1)
    BY <1>7, <2>1, <2>2, <2>3, Zenon
  <2>5. QED
    BY <1>5, <2>1, <2>4
<1>9. DataTo(b, 3 * n) = DataTo(e, n)
  <2>1. 0..n \subseteq X
    BY <1>6, <1>8, UpTo
  <2>2. QED
    BY <1>5, <2>1
<1>10. DataTo(b, 3 * n) = DataTo(b, 3 * n - 2)
  <2>1. PICK m \in 0..(n - 1) : 3 * m + 3 = 3 * n /\ 3 * m + 1 = 3 * n - 2
    <3>1. n - 1 \in 0..(n - 1) /\ 3 * (n - 1) + 3 = 3 * n /\ 3 * (n - 1) + 1 = 3 * n - 2
      OBVIOUS
    <3>2. QED
      BY <3>1, Zenon
  <2>2. QED
    BY <1>7, <2>1, Zenon
<1>11. Len(s) - 4 = 3 * n - 2 /\ 3 * n - 2 \in 0..Len(b)
  BY <1>2
<1>12. DataLines(SubSeq(b, 1, Len(s) - 4)) = DataTo(b, 3 * n - 2)
  BY <1>11, DataToIs, Zenon
<1>13. DataLines(e) = DataTo(e, n)
  <2>1. n \in 0..Len(e) /\ SubSeq(e, 1, n) = e
    BY <1>1
  <2>2. DataLines(SubSeq(e, 1, n)) = DataTo(e, n)
    BY <2>1, DataToIs, Zenon
  <2>3. QED
    BY <2>1, <2>2, Zenon
<1>14. QED
  BY <1>9, <1>10, <1>12, <1>13, Zenon

\* What the decoder makes of a buffer that begins with an event: nothing as
\* long as it is not whole, and then just that event.
LEMMA DecodesEvent ==
  ASSUME Sent, NEW e \in Seq(Token), Plain(e), NEW b \in Seq(Token), Begins(b, Encode(e)),
         NEW f, f = FirstSeparator(b)
  PROVE  /\ Len(Encode(e)) \in Nat \ {0}
         /\ Len(b) < Len(Encode(e)) => find_event_separator(b) = {}
         /\ Len(b) >= Len(Encode(e)) =>
              /\ find_event_separator(b) # {} /\ f[1] + f[2] = Len(Encode(e)) + 1
              /\ DataLines(SubSeq(b, 1, f[1] - 1)) = DataLines(e)
<1>1. PICK s : s = Encode(e)
  OBVIOUS
<1>2. CASE eol = "lf"
  <2>1. LfEvent(e, s)
    BY <1>1, <1>2, EncodeIs
  <2>2. Len(s) \in Nat /\ Len(s) >= 3
    BY <2>1, LfRows
  <2>3. Len(b) < Len(s) => find_event_separator(b) = {}
    BY <1>1, <2>1, LfCut
  <2>4. ASSUME Len(b) >= Len(s)
        PROVE  /\ find_event_separator(b) # {} /\ f[1] + f[2] = Len(s) + 1
               /\ DataLines(SubSeq(b, 1, f[1] - 1)) = DataLines(e)
    <3>1. find_event_separator(b) # {} /\ f = <<Len(s) - 1, 2>>
      BY <1>1, <2>1, <2>4, LfCut
    <3>2. f[1] - 1 = Len(s) - 2 /\ f[1] + f[2] = Len(s) + 1
      BY <2>2, <3>1
    <3>3. DataLines(SubSeq(b, 1, Len(s) - 2)) = DataLines(e)
      BY <1>1, <2>1, <2>4, LfData
    <3>4. QED
      BY <3>1, <3>2, <3>3, Zenon
  <2>5. QED
    BY <1>1, <2>2, <2>3, <2>4
<1>3. CASE eol = "crlf"
  <2>1. CrlfEvent(e, s)
    BY <1>1, <1>3, EncodeIs
  <2>2. Len(s) \in Nat /\ Len(s) >= 5
    BY <2>1, CrlfRows
  <2>3. Len(b) < Len(s) => find_event_separator(b) = {}
    BY <1>1, <2>1, CrlfCut
  <2>4. ASSUME Len(b) >= Len(s)
        PROVE  /\ find_event_separator(b) # {} /\ f[1] + f[2] = Len(s) + 1
               /\ DataLines(SubSeq(b, 1, f[1] - 1)) = DataLines(e)
    <3>1. find_event_separator(b) # {} /\ f = <<Len(s) - 3, 4>>
      BY <1>1, <2>1, <2>4, CrlfCut
    <3>2. f[1] - 1 = Len(s) - 4 /\ f[1] + f[2] = Len(s) + 1
      BY <2>2, <3>1
    <3>3. DataLines(SubSeq(b, 1, Len(s) - 4)) = DataLines(e)
      BY <1>1, <2>1, <2>4, CrlfData
    <3>4. QED
      BY <3>1, <3>2, <3>3, Zenon
  <2>5. QED
    BY <1>1, <2>2, <2>3, <2>4
<1>4. QED
  BY <1>2, <1>3 DEF Sent

-----------------------------------------------------------------------------
(* Where the events of the stream begin and end *)

Start(k) == Len(Encoded(k))

LEMMA EventIs ==
  ASSUME Sent, NEW k \in 1..Len(sse)
  PROVE  sse[k] \in Seq(Token) /\ Plain(sse[k])
<1>1. /\ Len(sse[k]) \in Nat \ {0}
      /\ \A i \in 1..Len(sse[k]) : sse[k][i] \in Token \ {"CR", "LF"}
  BY EventLines
<1>2. PICK e \in Events : e = sse[k]
  BY DEF Sent
<1>3. PICK S : e \in Seq(S)
  BY StreamAssumption DEF IsEvent
<1>4. e \in Seq(Token)
  <2>1. \A i \in 1..Len(e) : e[i] \in Token
    BY <1>1, <1>2
  <2>2. e \in [1..Len(e) -> Token] /\ Len(e) \in Nat
    BY <1>3, <2>1
  <2>3. QED
    BY <2>2
<1>5. QED
  BY <1>1, <1>2, <1>4 DEF Plain

LEMMA EncodedNext ==
  ASSUME Sent, NEW k \in 0..(Len(sse) - 1)
  PROVE  /\ Encode(sse[k + 1]) \in Seq(Token) /\ Len(Encode(sse[k + 1])) \in Nat \ {0}
         /\ Encoded(k) \in Seq(Token)
         /\ Encoded(k + 1) = Cat(Encoded(k), Encode(sse[k + 1]))
<1>1. PICK s : s = [i \in 1..Len(sse) |-> Encode(sse[i])]
  OBVIOUS
<1>2. \A n \in 0..Len(sse) : Encoded(n) = FlattenSeq(Firsts(s, n))
  <2>1. SUFFICES ASSUME NEW n \in 0..Len(sse) PROVE Encoded(n) = FlattenSeq(Firsts(s, n))
    OBVIOUS
  <2>2. \A i \in 1..n : i \in 1..Len(sse)
    BY DEF Sent
  <2>3. [i \in 1..n |-> Encode(sse[i])] = Firsts(s, n)
    BY <1>1, <2>2 DEF Firsts
  <2>4. QED
    BY <2>3, Zenon DEF Encoded
<1>3. \A i \in 1..Len(sse) : s[i] = Encode(sse[i]) /\ s[i] \in Seq(Token)
  BY <1>1, EventIs, EncodeIs
<1>4. k \in Nat /\ k \in 0..Len(sse) /\ k + 1 \in 0..Len(sse) /\ k + 1 \in 1..Len(sse) /\ Len(sse) \in Nat
  BY DEF Sent
<1>5. PICK V : V = Seq(Token)
  OBVIOUS
<1>6. Joinable(V) /\ \A i \in 1..(k + 1) : s[i] \in V
  BY <1>3, <1>4, <1>5, SeqJoinable
<1>7. FlattenSeq(Firsts(s, k + 1)) = Cat(FlattenSeq(Firsts(s, k)), s[k + 1])
  BY <1>4, <1>6, FlattenMore, Zenon
<1>8. FlattenSeq(Firsts(s, k)) \in Seq(Token)
  <2>1. \A i \in 1..Len(sse) : s[i] \in Seq(Token)
    BY <1>3
  <2>2. QED
    BY <1>4, <2>1, FlattenIsSeq, Zenon
<1>9. Len(Encode(sse[k + 1])) \in Nat \ {0}
  <2>1. PICK e \in Seq(Token) : e = sse[k + 1] /\ Plain(e)
    <3>1. sse[k + 1] \in Seq(Token) /\ Plain(sse[k + 1])
      BY <1>4, EventIs
    <3>2. QED
      BY <3>1, Zenon
  <2>a. <<>> \in Seq(Token)
    OBVIOUS
  <2>2. PICK b \in Seq(Token) : b = <<>>
    BY <2>a, Zenon
  <2>3. Begins(b, Encode(e))
    BY <2>2 DEF Begins
  <2>4. QED
    BY <2>1, <2>3, DecodesEvent, Zenon
<1>10. QED
  BY <1>2, <1>3, <1>4, <1>7, <1>8, <1>9, Zenon

LEMMA Cuts ==
  ASSUME Sent, NEW m \in 0..Len(sse)
  PROVE  /\ Encoded(m) \in Seq(Token) /\ Start(m) \in Nat /\ Start(0) = 0
         /\ m < Len(sse) => /\ Start(m + 1) = Start(m) + Len(Encode(sse[m + 1]))
                            /\ Start(m + 1) > Start(m)
         /\ \A k \in 0..m : Start(k) <= Start(m) /\ \A i \in 1..Start(k) : Encoded(m)[i] = Encoded(k)[i]
<1>1. PICK N \in Nat : N = Len(sse)
  BY DEF Sent
<1>2. Encoded(0) = <<>> /\ Start(0) = 0
  <2>1. PICK s : s = [i \in 1..0 |-> Encode(sse[i])]
    OBVIOUS
  <2>2. s = Firsts(s, 0)
    BY <2>1 DEF Firsts
  <2>3. FlattenSeq(s) = <<>>
    BY <2>2, FlattenNone, Zenon
  <2>4. Encoded(0) = <<>>
    BY <2>1, <2>3, Zenon DEF Encoded
  <2>5. QED
    BY <2>4 DEF Start
<1>3. ASSUME NEW k \in 0..(N - 1)
      PROVE  /\ Encoded(k) \in Seq(Token) /\ Encoded(k + 1) \in Seq(Token)
             /\ Start(k) \in Nat /\ Start(k + 1) > Start(k)
             /\ Start(k + 1) = Start(k) + Len(Encode(sse[k + 1]))
             /\ \A i \in 1..Start(k) : Encoded(k + 1)[i] = Encoded(k)[i]
  <2>1. /\ Encode(sse[k + 1]) \in Seq(Token) /\ Len(Encode(sse[k + 1])) \in Nat \ {0}
        /\ Encoded(k) \in Seq(Token) /\ Encoded(k + 1) = Cat(Encoded(k), Encode(sse[k + 1]))
    BY <1>1, EncodedNext, Zenon
  <2>2. PICK a \in Seq(Token) : a = Encoded(k)
    BY <2>1, Zenon
  <2>3. PICK b \in Seq(Token) : b = Encode(sse[k + 1]) /\ Len(b) \in Nat \ {0}
    BY <2>1, Zenon
  <2>4. PICK c : c = Encoded(k + 1) /\ c = Cat(a, b)
    BY <2>1, <2>2, <2>3, Zenon
  <2>5. /\ c \in Seq(Token) /\ Len(c) = Len(a) + Len(b)
        /\ \A i \in 1..(Len(a) + Len(b)) : c[i] = IF i <= Len(a) THEN a[i] ELSE b[i - Len(a)]
    BY ONLY <2>4, a \in Seq(Token), b \in Seq(Token), CatIs
  <2>6. Len(a) \in Nat /\ Len(c) > Len(a) /\ \A i \in 1..Len(a) : c[i] = a[i]
    BY <2>3, <2>5
  <2>7. QED
    BY <2>2, <2>3, <2>4, <2>5, <2>6, Zenon DEF Start
<1>4. PICK X : X = {n \in 0..N : /\ Encoded(n) \in Seq(Token) /\ Start(n) \in Nat
                                 /\ \A k \in 0..n : /\ Start(k) <= Start(n)
                                                    /\ \A i \in 1..Start(k) : Encoded(n)[i] = Encoded(k)[i]}
  OBVIOUS
<1>5. 0 \in X
  <2>1. <<>> \in Seq(Token) /\ 0 \in 0..N
    OBVIOUS
  <2>2. Encoded(0) \in Seq(Token)
    BY <1>2, <2>1, Zenon
  <2>3. \A k \in 0..0 : k = 0
    OBVIOUS
  <2>4. QED
    BY <1>2, <1>4, <2>1, <2>2, <2>3
<1>6. ASSUME NEW n \in 0..(N - 1), n \in X PROVE n + 1 \in X
  <2>1. /\ Encoded(n + 1) \in Seq(Token) /\ Start(n) \in Nat /\ Start(n + 1) > Start(n)
        /\ \A i \in 1..Start(n) : Encoded(n + 1)[i] = Encoded(n)[i]
    BY <1>3, Zenon
  <2>2. Start(n + 1) \in Nat
    BY <2>1 DEF Start
  <2>3. ASSUME NEW k \in 0..(n + 1)
        PROVE  Start(k) <= Start(n + 1) /\ \A i \in 1..Start(k) : Encoded(n + 1)[i] = Encoded(k)[i]
    <3>1. CASE k = n + 1
      BY <2>2, <3>1
    <3>2. CASE k \in 0..n
      <4>1. Start(k) <= Start(n) /\ \A i \in 1..Start(k) : Encoded(n)[i] = Encoded(k)[i]
        BY <1>4, <1>6, <3>2
      <4>2. Start(k) \in Nat
        <5>1. k \in 0..(N - 1)
          BY <3>2
        <5>2. QED
          BY <1>3, <5>1, Zenon
      <4>3. \A i \in 1..Start(k) : i \in 1..Start(n)
        BY <2>1, <4>1, <4>2
      <4>4. \A i \in 1..Start(k) : Encoded(n + 1)[i] = Encoded(k)[i]
        BY <2>1, <4>1, <4>3, Zenon
      <4>5. Start(k) <= Start(n + 1)
        BY <2>1, <2>2, <4>1, <4>2
      <4>6. QED
        BY <4>4, <4>5
    <3>3. QED
      BY <3>1, <3>2
  <2>4. QED
    BY <1>4, <2>1, <2>2, <2>3
<1>7. m \in X
  BY <1>1, <1>5, <1>6, UpTo
<1>8. m < Len(sse) => /\ Start(m + 1) = Start(m) + Len(Encode(sse[m + 1]))
                      /\ Start(m + 1) > Start(m)
  <2>1. m < Len(sse) => m \in 0..(N - 1)
    BY <1>1
  <2>2. QED
    BY <1>3, <2>1, Zenon
<1>9. QED
  BY <1>2, <1>4, <1>7, <1>8

LEMMA EventAt ==
  ASSUME Sent, NEW k \in 0..(Len(sse) - 1)
  PROVE  /\ Tokens \in Seq(Token) /\ Start(k + 1) <= Len(Tokens)
         /\ \A i \in 1..Len(Encode(sse[k + 1])) : Tokens[Start(k) + i] = Encode(sse[k + 1])[i]
<1>1. PICK N \in Nat : N = Len(sse)
  BY DEF Sent
<1>2. PICK w : w = Tokens
  OBVIOUS
<1>3. /\ w \in Seq(Token) /\ \A j \in 0..N : Start(j) <= Len(w) /\ \A i \in 1..Start(j) : w[i] = Encoded(j)[i]
  <2>1. N \in 0..N
    OBVIOUS
  <2>2. w = Encoded(N) /\ Len(w) = Start(N)
    BY <1>1, <1>2, Zenon DEF Tokens, Start
  <2>3. QED
    BY <1>1, <2>1, <2>2, Cuts, Zenon
<1>4. k \in 0..N /\ k + 1 \in 0..N /\ k < Len(sse)
  BY <1>1
<1>5. /\ Encode(sse[k + 1]) \in Seq(Token) /\ Encoded(k) \in Seq(Token)
      /\ Encoded(k + 1) = Cat(Encoded(k), Encode(sse[k + 1]))
  BY EncodedNext
<1>6. Start(k + 1) = Start(k) + Len(Encode(sse[k + 1])) /\ Start(k) \in Nat
  BY <1>1, <1>4, Cuts, Zenon
<1>7. ASSUME NEW i \in 1..Len(Encode(sse[k + 1]))
      PROVE  w[Start(k) + i] = Encode(sse[k + 1])[i]
  <2>1. PICK a \in Seq(Token) : a = Encoded(k)
    BY <1>5, Zenon
  <2>2. PICK b \in Seq(Token) : b = Encode(sse[k + 1])
    BY <1>5, Zenon
  <2>3. i \in 1..Len(b) /\ Len(b) \in Nat
    BY <2>2
  <2>4. Cat(a, b)[Len(a) + i] = b[i]
    BY <2>3, CatAfter, Zenon
  <2>5. Encoded(k + 1)[Start(k) + i] = b[i]
    BY <1>5, <2>1, <2>2, <2>4, Zenon DEF Start
  <2>6. Start(k) + i \in 1..Start(k + 1)
    BY <1>6, <2>2, <2>3
  <2>7. w[Start(k) + i] = Encoded(k + 1)[Start(k) + i]
    BY <1>3, <1>4, <2>6, Zenon
  <2>8. QED
    BY <2>2, <2>5, <2>7, Zenon
<1>8. QED
  BY <1>2, <1>3, <1>4, <1>7, Zenon

Within(k) == k \in 0..Len(sse) /\ Start(k) <= pos /\ (k < Len(sse) => Start(k + 1) > pos)

LEMMA DeliveredIs ==
  ASSUME Sent, pos \in Nat, NEW k, Within(k)
  PROVE  Delivered = k
<1>1. PICK N \in Nat : N = Len(sse)
  BY DEF Sent
<1>2. ASSUME NEW i \in 0..N, NEW j \in 0..N, Within(i), Within(j) PROVE ~ (i < j)
  <2>1. SUFFICES ASSUME i < j PROVE FALSE
    OBVIOUS
  <2>2. i + 1 \in 0..j /\ i < Len(sse)
    BY <1>1, <2>1
  <2>3. Start(i + 1) <= Start(j) /\ Start(j) \in Nat
    BY <1>1, <2>2, Cuts, Zenon
  <2>4. Start(i + 1) > pos /\ Start(j) <= pos
    BY <1>2, <2>2, Zenon DEF Within
  <2>5. Start(i + 1) \in Nat
    <3>1. i + 1 \in 0..N
      BY <2>2
    <3>2. QED
      BY <1>1, <3>1, Cuts, Zenon
  <2>6. QED
    BY <2>3, <2>4, <2>5
<1>3. k \in 0..N
  BY <1>1 DEF Within
<1>4. \A j \in 0..N : Within(j) => j = k
  <2>1. SUFFICES ASSUME NEW j \in 0..N, Within(j) PROVE j = k
    OBVIOUS
  <2>2. ~ (j < k) /\ ~ (k < j)
    BY <1>2, <1>3, <2>1
  <2>3. QED
    BY <1>3, <2>2
<1>5. \A j \in 0..N : Within(j) <=> (Len(Encoded(j)) <= pos /\ (j < Len(sse) => Len(Encoded(j + 1)) > pos))
  BY <1>1, Zenon DEF Within, Start
<1>6. Delivered = CHOOSE j \in 0..N : Within(j)
  BY <1>1, <1>5, Zenon DEF Delivered
<1>7. QED
  BY <1>3, <1>4, <1>6

LEMMA DeliveredFrom ==
  ASSUME Sent, pos \in Nat, NEW k \in 0..Len(sse), Start(k) <= pos
  PROVE  Delivered \in k..Len(sse) /\ Within(Delivered)
<1>1. PICK N \in Nat : N = Len(sse)
  BY DEF Sent
<1>2. PICK S : S = {j \in k..N : j = N \/ Start(j + 1) > pos}
  OBVIOUS
<1>3. S \subseteq Nat /\ N \in S
  BY <1>1, <1>2
<1>4. PICK d \in S : \A y \in S : d <= y
  BY <1>3, SmallestOf
<1>5. d \in 0..N /\ k <= d /\ d \in Nat /\ (d < N => Start(d + 1) > pos)
  BY <1>1, <1>2, <1>4
<1>6. Start(d) <= pos
  <2>1. CASE d = k
    BY <2>1
  <2>2. CASE d # k
    <3>1. PICK c \in k..N : c + 1 = d /\ c # N
      <4>1. d - 1 \in k..N /\ d - 1 + 1 = d /\ d - 1 # N
        BY <1>1, <1>5, <2>2
      <4>2. QED
        BY <4>1, Zenon
    <3>2. c \notin S
      BY <1>4, <1>5, <3>1
    <3>3. ~ (Start(d) > pos)
      BY <1>2, <3>1, <3>2
    <3>4. Start(d) \in Nat
      BY <1>1, <1>5, Cuts, Zenon
    <3>5. QED
      BY <3>3, <3>4
  <2>3. QED
    BY <2>1, <2>2
<1>7. Within(d)
  BY <1>1, <1>5, <1>6 DEF Within
<1>8. Delivered = d
  BY <1>7, DeliveredIs, Zenon
<1>9. d \in k..Len(sse)
  BY <1>1, <1>5
<1>10. QED
  BY <1>7, <1>8, <1>9, Zenon

-----------------------------------------------------------------------------
(* Frames, and what reading them comes to *)

Fragments == Seq({"a", "b", " ", "c"})
Statuses == {"none", "completed", "incomplete"}
Codes == {"absent", "null", "server_is_overloaded", "rate_limit_exceeded"}
TextFrame == [kind : {"delta", "done"}, text : Fragments]
EndFrame == [kind : {"completed"}, status : Statuses]
ErrorFrame == [kind : {"error"}, code : Codes, type : Codes]
Frame == TextFrame \cup EndFrame \cup ErrorFrame \cup [kind : {"other", "malformed"}]

Readings == {"continue", "completed", "Indeterminate", "LaneOverload", "SharedThrottle", "Failure"}
Assemblers ==
  [delta_buf : Fragments, done_text : SUBSET Fragments, completed_status : Statuses,
   terminal_seen : BOOLEAN]
State == [a : Assemblers, r : Readings]
Fresh == [a |-> EmptyAssembler, r |-> "continue"]

LEMMA FrameIs == \A data : FrameOf(data) \in Frame
<1>1. ASSUME NEW t \in Fragments, NEW k \in {"delta", "done"} PROVE [kind |-> k, text |-> t] \in Frame
  BY DEF Frame, TextFrame
<1>2. ASSUME NEW t \in Statuses PROVE [kind |-> "completed", status |-> t] \in Frame
  BY DEF Frame, EndFrame
<1>3. ASSUME NEW c \in Codes, NEW t \in Codes PROVE [kind |-> "error", code |-> c, type |-> t] \in Frame
  BY DEF Frame, ErrorFrame
<1>4. [kind |-> "other"] \in Frame /\ [kind |-> "malformed"] \in Frame
  BY DEF Frame
<1>5. /\ <<"a">> \in Fragments /\ <<"b">> \in Fragments /\ <<" ">> \in Fragments
      /\ <<"c">> \in Fragments /\ <<>> \in Fragments
  BY DEF Fragments
<1>6. /\ [kind |-> "delta", text |-> <<"a">>] \in Frame
      /\ [kind |-> "delta", text |-> <<"b">>] \in Frame
      /\ [kind |-> "delta", text |-> <<" ">>] \in Frame
      /\ [kind |-> "done", text |-> <<"c">>] \in Frame
      /\ [kind |-> "done", text |-> <<>>] \in Frame
  BY <1>1, <1>5
<1>7. /\ [kind |-> "completed", status |-> "completed"] \in Frame
      /\ [kind |-> "completed", status |-> "none"] \in Frame
      /\ [kind |-> "completed", status |-> "incomplete"] \in Frame
  BY <1>2 DEF Statuses
<1>8. /\ [kind |-> "error", code |-> "server_is_overloaded", type |-> "absent"] \in Frame
      /\ [kind |-> "error", code |-> "absent", type |-> "rate_limit_exceeded"] \in Frame
      /\ [kind |-> "error", code |-> "null", type |-> "rate_limit_exceeded"] \in Frame
  BY <1>3 DEF Codes
<1>9. TAKE data
<1>10. QED
  BY <1>4, <1>6, <1>7, <1>8, Zenon DEF FrameOf

LEMMA OutcomeIs ==
  ASSUME NEW f \in Frame
  PROVE  /\ OutcomeOf(f) \in Readings
         /\ OutcomeOf(f) = "completed" => f.kind = "completed"
         /\ OutcomeOf(f) = "continue" => f.kind \notin {"completed", "error", "malformed"}
BY DEF OutcomeOf, classify_provider_code, Readings

LEMMA OnFrame ==
  ASSUME NEW a \in Assemblers, NEW f \in Frame
  PROVE  /\ on_frame(a, f) \in Assemblers
         /\ on_frame(a, f).delta_buf = IF f.kind = "delta" THEN Cat(a.delta_buf, f.text) ELSE a.delta_buf
         /\ on_frame(a, f).done_text = IF f.kind = "done" THEN {f.text} ELSE a.done_text
         /\ on_frame(a, f).completed_status = IF f.kind = "completed" THEN f.status ELSE a.completed_status
<1>1. f.kind \in {"delta", "done"} => f.text \in Fragments
  BY DEF Frame, TextFrame, EndFrame, ErrorFrame
<1>2. f.kind = "completed" => f.status \in Statuses
  BY DEF Frame, TextFrame, EndFrame, ErrorFrame
<1>3. a.delta_buf \in Fragments
  BY DEF Assemblers
<1>4. CASE f.kind = "delta"
  <2>1. Cat(a.delta_buf, f.text) \in Fragments
    BY <1>1, <1>3, <1>4, CatIs DEF Fragments
  <2>2. on_frame(a, f) = [a EXCEPT !.delta_buf = Cat(a.delta_buf, f.text)]
    BY <1>4 DEF on_frame, Cat
  <2>3. QED
    BY <1>4, <2>1, <2>2 DEF Assemblers
<1>5. CASE f.kind = "done"
  <2>1. on_frame(a, f) = [a EXCEPT !.done_text = {f.text}]
    BY <1>5 DEF on_frame
  <2>2. QED
    BY <1>1, <1>5, <2>1 DEF Assemblers
<1>6. CASE f.kind = "completed"
  <2>1. on_frame(a, f) = [a EXCEPT !.terminal_seen = TRUE, !.completed_status = f.status]
    BY <1>6 DEF on_frame
  <2>2. QED
    BY <1>2, <1>6, <2>1 DEF Assemblers
<1>7. CASE f.kind \notin {"delta", "done", "completed"}
  <2>1. on_frame(a, f) = a
    BY <1>7 DEF on_frame
  <2>2. QED
    BY <1>7, <2>1
<1>8. QED
  BY <1>4, <1>5, <1>6, <1>7

LEMMA ReadIs ==
  ASSUME NEW st \in State, NEW f \in Frame
  PROVE  /\ Read(st, f) \in State
         /\ st.r = "continue" => Read(st, f).a = on_frame(st.a, f) /\ Read(st, f).r = OutcomeOf(f)
         /\ st.r # "continue" => Read(st, f) = st
<1>1. on_frame(st.a, f) \in Assemblers /\ OutcomeOf(f) \in Readings
  BY OnFrame, OutcomeIs DEF State
<1>2. QED
  BY <1>1 DEF Read, State

LEMMA FreshIs == Fresh \in State
BY DEF Fresh, State, EmptyAssembler, Assemblers, Fragments, Statuses, Readings

\* The frames are read one after the other.
Reads(g, s, N) == g[0] = Fresh /\ \A n \in 1..N : g[n] = Read(g[n - 1], s[n])

LEMMA ReadsSame ==
  ASSUME NEW N \in Nat, NEW s, NEW t, \A i \in 1..N : s[i] = t[i],
         NEW g, Reads(g, s, N), NEW h, Reads(h, t, N)
  PROVE  g[N] = h[N]
<1>1. PICK X : X = {n \in 0..N : g[n] = h[n]}
  OBVIOUS
<1>2. 0 \in X
  BY <1>1 DEF Reads
<1>3. ASSUME NEW n \in 0..(N - 1), n \in X PROVE n + 1 \in X
  <2>1. n + 1 \in 1..N /\ n + 1 - 1 = n /\ n + 1 \in 0..N
    OBVIOUS
  <2>2. g[n + 1] = Read(g[n], s[n + 1]) /\ h[n + 1] = Read(h[n], t[n + 1])
    BY <2>1 DEF Reads
  <2>3. g[n] = h[n] /\ s[n + 1] = t[n + 1]
    BY <1>1, <1>3, <2>1
  <2>4. QED
    BY <1>1, <2>1, <2>2, <2>3
<1>4. 0..N \subseteq X
  BY <1>2, <1>3, UpTo
<1>5. QED
  BY <1>1, <1>4

LEMMA ReadRun ==
  ASSUME NEW N \in Nat, NEW s \in [1..N -> Frame]
  PROVE  \E g \in [0..N -> State] : Reads(g, s, N) /\ ReadAll(s) = g[N]
<1>1. PICK R : R = {t \in (1..N) \X State \X State : t[3] = Read(t[2], s[t[1]])}
  OBVIOUS
<1>2. ASSUME NEW n \in 1..N, NEW x \in State PROVE \E y \in State : Linked(R, n, x, y)
  <2>1. PICK y : y = Read(x, s[n])
    OBVIOUS
  <2>2. y \in State
    BY <2>1, ReadIs
  <2>3. Linked(R, n, x, y)
    BY <1>1, <2>1, <2>2 DEF Linked
  <2>4. QED
    BY <2>2, <2>3
<1>3. \E f \in [0..N -> State] : f[0] = Fresh /\ \A n \in 1..N : Linked(R, n, f[n - 1], f[n])
  <2>1. PICK T : T = State
    OBVIOUS
  <2>a. PICK b : b = Fresh
    OBVIOUS
  <2>2. b \in T /\ \A n \in 1..N, x \in T : \E y \in T : Linked(R, n, x, y)
    BY <1>2, <2>1, <2>a, FreshIs, Zenon
  <2>3. \E f \in [0..N -> T] : f[0] = b /\ \A n \in 1..N : Linked(R, n, f[n - 1], f[n])
    BY <2>2, FoldExists, Zenon
  <2>4. QED
    BY <2>1, <2>a, <2>3, Zenon
<1>4. PICK f \in [0..N -> State] : f[0] = Fresh /\ \A n \in 1..N : Linked(R, n, f[n - 1], f[n])
  BY <1>3
<1>5. \A n \in 1..N : f[n] = Read(f[n - 1], s[n])
  <2>1. SUFFICES ASSUME NEW n \in 1..N PROVE f[n] = Read(f[n - 1], s[n])
    OBVIOUS
  <2>2. Linked(R, n, f[n - 1], f[n])
    BY <1>4
  <2>3. QED
    BY <1>1, <2>2 DEF Linked
<1>6. f = [n \in 0..N |-> IF n = 0 THEN Fresh ELSE Read(f[n - 1], s[n])]
  <2>1. \A n \in 0..N : f[n] = IF n = 0 THEN Fresh ELSE Read(f[n - 1], s[n])
    BY <1>4, <1>5
  <2>2. QED
    BY <2>1
<1>7. Len(s) = N
  OBVIOUS
<1>8. PICK h : /\ h = [n \in 0..N |-> IF n = 0 THEN Fresh ELSE Read(h[n - 1], s[n])]
               /\ ReadAll(s) = h[N]
  <2>1. \E h : h = [n \in 0..N |-> IF n = 0 THEN Fresh ELSE Read(h[n - 1], s[n])]
    BY <1>6, Zenon
  <2>2. QED
    BY <1>7, <2>1 DEF ReadAll, Fresh
<1>9. Reads(h, s, N)
  <2>1. PICK e : e = [n \in 0..N |-> IF n = 0 THEN Fresh ELSE Read(h[n - 1], s[n])]
    OBVIOUS
  <2>2. e = h
    BY <1>8, <2>1, Zenon
  <2>3. e[0] = Fresh /\ \A n \in 1..N : e[n] = Read(h[n - 1], s[n])
    BY <2>1
  <2>4. QED
    BY <2>2, <2>3, Zenon DEF Reads
<1>10. Reads(f, s, N)
  BY <1>4, <1>5 DEF Reads
<1>11. h[N] = f[N]
  BY <1>9, <1>10, ReadsSame
<1>12. QED
  BY <1>8, <1>10, <1>11

LEMMA ReadNone == ReadAll(<<>>) = Fresh
<1>1. <<>> \in [1..0 -> Frame]
  OBVIOUS
<1>2. PICK g \in [0..0 -> State] : Reads(g, <<>>, 0) /\ ReadAll(<<>>) = g[0]
  BY <1>1, ReadRun
<1>3. QED
  BY <1>2 DEF Reads

LEMMA ReadMore ==
  ASSUME NEW fs \in Seq(Frame), NEW f \in Frame
  PROVE  ReadAll(fs) \in State /\ ReadAll(Cat(fs, <<f>>)) = Read(ReadAll(fs), f)
<1>1. PICK N \in Nat : N = Len(fs)
  OBVIOUS
<1>2. fs \in [1..N -> Frame]
  BY <1>1
<1>3. <<f>> \in Seq(Frame) /\ Len(<<f>>) = 1 /\ <<f>>[1] = f
  OBVIOUS
<1>4. PICK one \in Seq(Frame) : one = <<f>> /\ Len(one) = 1 /\ one[1] = f
  BY <1>3, Zenon
<1>5. PICK t : t = Cat(fs, one)
  OBVIOUS
<1>6. /\ t \in Seq(Frame) /\ Len(t) = Len(fs) + Len(one)
      /\ \A i \in 1..(Len(fs) + Len(one)) : t[i] = IF i <= Len(fs) THEN fs[i] ELSE one[i - Len(fs)]
  BY ONLY <1>5, fs \in Seq(Frame), one \in Seq(Frame), CatIs
<1>7. Len(t) = N + 1 /\ t \in [1..(N + 1) -> Frame] /\ \A i \in 1..N : t[i] = fs[i]
  BY <1>1, <1>4, <1>6
<1>8. t[N + 1] = f
  <2>1. PICK j \in 1..Len(one) : j = 1
    BY <1>4
  <2>2. Cat(fs, one)[Len(fs) + j] = one[j]
    BY CatAfter, Zenon
  <2>3. QED
    BY <1>1, <1>4, <1>5, <2>1, <2>2
<1>9. PICK g \in [0..N -> State] : Reads(g, fs, N) /\ ReadAll(fs) = g[N]
  BY <1>2, ReadRun
<1>10. PICK h \in [0..(N + 1) -> State] : Reads(h, t, N + 1) /\ ReadAll(t) = h[N + 1]
  <2>1. N + 1 \in Nat
    OBVIOUS
  <2>2. QED
    BY <1>7, <2>1, ReadRun, Zenon
<1>11. Reads(h, t, N) /\ h[N + 1] = Read(h[N], t[N + 1])
  <2>1. N + 1 \in 1..(N + 1) /\ N + 1 - 1 = N /\ \A n \in 1..N : n \in 1..(N + 1)
    OBVIOUS
  <2>2. QED
    BY <1>10, <2>1 DEF Reads
<1>12. h[N] = g[N]
  BY <1>7, <1>9, <1>11, ReadsSame
<1>13. g[N] \in State
  OBVIOUS
<1>14. QED
  BY <1>4, <1>5, <1>8, <1>9, <1>10, <1>11, <1>12, <1>13

LEMMA MessageIs ==
  ASSUME NEW e
  PROVE  /\ Message(e) \in Seq(Frame)
         /\ DataLines(e) = <<>> => Message(e) = <<>>
         /\ DataLines(e) # <<>> => Message(e) = <<FrameOf(DataLines(e))>>
<1>1. FrameOf(DataLines(e)) \in Frame
  BY FrameIs
<1>2. <<FrameOf(DataLines(e))>> \in Seq(Frame) /\ <<>> \in Seq(Frame)
  BY <1>1
<1>3. QED
  BY <1>2, Zenon DEF Message

LEMMA FramesNext ==
  ASSUME Sent, NEW k \in 0..Len(sse)
  PROVE  /\ Frames(k) \in Seq(Frame) /\ Frames(0) = <<>>
         /\ k < Len(sse) => Frames(k + 1) = Cat(Frames(k), Message(sse[k + 1]))
<1>1. PICK s : s = [i \in 1..Len(sse) |-> Message(sse[i])]
  OBVIOUS
<1>2. \A n \in 0..Len(sse) : Frames(n) = FlattenSeq(Firsts(s, n))
  <2>1. SUFFICES ASSUME NEW n \in 0..Len(sse) PROVE Frames(n) = FlattenSeq(Firsts(s, n))
    OBVIOUS
  <2>2. \A i \in 1..n : i \in 1..Len(sse)
    BY DEF Sent
  <2>3. [i \in 1..n |-> Message(sse[i])] = Firsts(s, n)
    BY <1>1, <2>2 DEF Firsts
  <2>4. QED
    BY <2>3, Zenon DEF Frames
<1>3. \A i \in 1..Len(sse) : s[i] = Message(sse[i]) /\ s[i] \in Seq(Frame)
  BY <1>1, MessageIs
<1>4. k \in Nat /\ 0 \in 0..Len(sse) /\ Len(sse) \in Nat
  BY DEF Sent
<1>5. Frames(k) \in Seq(Frame)
  BY <1>2, <1>3, <1>4, FlattenIsSeq, Zenon
<1>6. Frames(0) = <<>>
  BY <1>2, <1>4, FlattenNone, Zenon
<1>7. ASSUME k < Len(sse) PROVE Frames(k + 1) = Cat(Frames(k), Message(sse[k + 1]))
  <2>1. k + 1 \in 0..Len(sse) /\ k + 1 \in 1..Len(sse)
    BY <1>4, <1>7
  <2>2. PICK V : V = Seq(Frame)
    OBVIOUS
  <2>3. Joinable(V) /\ \A i \in 1..(k + 1) : s[i] \in V
    BY <1>3, <1>4, <2>1, <2>2, SeqJoinable
  <2>4. FlattenSeq(Firsts(s, k + 1)) = Cat(FlattenSeq(Firsts(s, k)), s[k + 1])
    BY <1>4, <2>3, FlattenMore, Zenon
  <2>5. QED
    BY <1>2, <1>3, <2>1, <2>4, Zenon
<1>8. QED
  BY <1>5, <1>6, <1>7

\* What the decoder has read of the first k events.
After(k) == ReadAll(Frames(k))

LEMMA AfterNext ==
  ASSUME Sent, NEW k \in 0..Len(sse)
  PROVE  /\ After(k) \in State /\ After(0) = Fresh
         /\ k < Len(sse) =>
              /\ DataLines(sse[k + 1]) = <<>> => After(k + 1) = After(k)
              /\ DataLines(sse[k + 1]) # <<>> =>
                   After(k + 1) = Read(After(k), FrameOf(DataLines(sse[k + 1])))
<1>1. PICK fs \in Seq(Frame) : fs = Frames(k)
  <2>1. Frames(k) \in Seq(Frame)
    BY FramesNext
  <2>2. QED
    BY <2>1, Zenon
<1>2. PICK d : d = DataLines(sse[k + 1])
  OBVIOUS
<1>3. PICK f \in Frame : f = FrameOf(d)
  <2>1. FrameOf(d) \in Frame
    BY FrameIs
  <2>2. QED
    BY <2>1, Zenon
<1>4. After(k) \in State /\ After(k) = ReadAll(fs) /\ ReadAll(Cat(fs, <<f>>)) = Read(ReadAll(fs), f)
  BY <1>1, ReadMore, Zenon DEF After
<1>5. After(0) = Fresh
  BY FramesNext, ReadNone, Zenon DEF After
<1>6. ASSUME k < Len(sse), d = <<>> PROVE After(k + 1) = After(k)
  <2>1. Frames(k + 1) = Cat(fs, <<>>)
    BY <1>1, <1>2, <1>6, FramesNext, MessageIs, Zenon
  <2>2. Cat(fs, <<>>) = fs
    BY ConcatEmptySeq DEF Cat
  <2>3. QED
    BY <1>1, <2>1, <2>2, Zenon DEF After
<1>7. ASSUME k < Len(sse), d # <<>> PROVE After(k + 1) = Read(After(k), f)
  <2>1. Frames(k + 1) = Cat(fs, <<f>>)
    BY <1>1, <1>2, <1>3, <1>7, FramesNext, MessageIs, Zenon
  <2>2. QED
    BY <1>4, <2>1, Zenon DEF After
<1>8. QED
  BY <1>2, <1>3, <1>4, <1>5, <1>6, <1>7, Zenon

\* Nothing is read behind what ended the reading.
LEMMA AfterKept ==
  ASSUME Sent, NEW k \in 0..Len(sse), After(k).r # "continue", NEW m \in k..Len(sse)
  PROVE  After(m) = After(k)
<1>1. PICK N \in Nat : N = Len(sse)
  BY DEF Sent
<1>2. PICK X : X = {j \in 0..(N - k) : After(k + j) = After(k)}
  OBVIOUS
<1>3. 0 \in X
  <2>1. k + 0 = k /\ 0 \in 0..(N - k)
    BY <1>1
  <2>2. QED
    BY <1>2, <2>1
<1>4. ASSUME NEW j \in 0..(N - k - 1), j \in X PROVE j + 1 \in X
  <2>1. PICK i \in 0..N : i = k + j /\ i < Len(sse) /\ i + 1 = k + (j + 1)
    <3>1. k + j \in 0..N /\ k + j < Len(sse) /\ k + j + 1 = k + (j + 1)
      BY <1>1
    <3>2. QED
      BY <3>1, Zenon
  <2>2. After(i) = After(k)
    BY <1>2, <1>4, <2>1
  <2>3. After(i + 1) = After(i)
    <3>1. CASE DataLines(sse[i + 1]) = <<>>
      BY <1>1, <2>1, <3>1, AfterNext, Zenon
    <3>2. CASE DataLines(sse[i + 1]) # <<>>
      <4>1. PICK f \in Frame : f = FrameOf(DataLines(sse[i + 1]))
        <5>1. FrameOf(DataLines(sse[i + 1])) \in Frame
          BY FrameIs
        <5>2. QED
          BY <5>1, Zenon
      <4>2. After(i + 1) = Read(After(i), f) /\ After(i) \in State
        BY <1>1, <2>1, <3>2, <4>1, AfterNext, Zenon
      <4>3. After(i).r # "continue"
        BY <2>2
      <4>4. QED
        BY <4>2, <4>3, ReadIs, Zenon
    <3>3. QED
      BY <3>1, <3>2
  <2>4. j + 1 \in 0..(N - k)
    BY <1>1
  <2>5. QED
    BY <1>2, <2>1, <2>2, <2>3, <2>4
<1>5. N - k \in Nat /\ N - k - 1 = (N - k) - 1
  BY <1>1
<1>6. 0..(N - k) \subseteq X
  BY <1>3, <1>4, <1>5, UpTo
<1>7. m - k \in 0..(N - k) /\ k + (m - k) = m
  BY <1>1
<1>8. QED
  BY <1>2, <1>6, <1>7

-----------------------------------------------------------------------------
(* The decoder has read whole events, in order, and holds what follows.    *)

Decoded(k) ==
  /\ k \in 0..Len(sse) /\ Start(k) + Len(buf) = pos
  /\ \A i \in 1..Len(buf) : buf[i] = Tokens[Start(k) + i]
  /\ asm = After(k).a /\ reading = After(k).r

Ended ==
  IF pos = 0 THEN verdict.class # "Success"
  ELSE \E D \in 0..Len(sse) : D = Delivered /\ verdict = Conclude(After(D).a, After(D).r)

StreamIInv ==
  /\ Sent /\ pos \in Nat /\ pos <= Len(Tokens) /\ buf \in Seq(Token)
  /\ \E k \in 0..Len(sse) : Decoded(k)
  /\ stage \in {"sent", "streaming", "draining", "ended", "overflowed"}
  /\ stage = "sent" => pos = 0
  /\ stage = "streaming" => find_event_separator(buf) = {} /\ reading = "continue"
  /\ stage # "ended" => verdict.class # "Success"
  /\ stage = "ended" => Ended

\* What is in the buffer: less than an event, or the next one at its head.
LEMMA BufferIs ==
  ASSUME Sent, pos \in Nat, pos <= Len(Tokens), buf \in Seq(Token),
         NEW k \in 0..Len(sse), Decoded(k), NEW f, f = FirstSeparator(buf)
  PROVE  /\ find_event_separator(buf) = {} => Within(k)
         /\ find_event_separator(buf) # {} =>
              /\ k < Len(sse) /\ f[1] + f[2] = Len(Encode(sse[k + 1])) + 1
              /\ Len(Encode(sse[k + 1])) <= Len(buf)
              /\ DataLines(SubSeq(buf, 1, f[1] - 1)) = DataLines(sse[k + 1])
<1>1. PICK N \in Nat : N = Len(sse)
  BY DEF Sent
<1>2. PICK n \in Nat : n = Len(buf)
  OBVIOUS
<1>3. Start(k) \in Nat /\ Start(k) + n = pos /\ \A i \in 1..n : buf[i] = Tokens[Start(k) + i]
  <2>1. Start(k) \in Nat
    BY Cuts
  <2>2. QED
    BY <1>2, <2>1 DEF Decoded
<1>4. CASE k = N
  <2>1. Start(k) = Len(Tokens)
    BY <1>1, <1>4, Zenon DEF Start, Tokens
  <2>2. n = 0
    BY <1>2, <1>3, <2>1
  <2>3. find_event_separator(buf) = {}
    <3>1. \A t : t \notin find_event_separator(buf)
      <4>1. TAKE t
      <4>2. (\A j : j \notin 1..(Len(buf) - 1)) /\ (\A j : j \notin 1..(Len(buf) - 3))
        BY <1>2, <2>2
      <4>3. QED
        BY <4>2, SeparatorIs, Zenon
    <3>2. QED
      BY <3>1, Zenon
  <2>4. Within(k)
    BY <1>1, <1>3, <1>4, <2>2 DEF Within
  <2>5. QED
    BY <2>3, <2>4, Zenon
<1>5. CASE k < N
  <2>1. k \in 0..(Len(sse) - 1) /\ k + 1 \in 1..Len(sse) /\ k < Len(sse)
    BY <1>1, <1>5
  <2>2. PICK e \in Seq(Token) : e = sse[k + 1] /\ Plain(e)
    <3>1. sse[k + 1] \in Seq(Token) /\ Plain(sse[k + 1])
      BY <2>1, EventIs, Zenon
    <3>2. QED
      BY <3>1, Zenon
  <2>3. PICK s \in Seq(Token) : s = Encode(e)
    <3>1. Encode(e) \in Seq(Token)
      BY EncodeIs, Zenon
    <3>2. QED
      BY <3>1, Zenon
  <2>4. \A i \in 1..Len(s) : Tokens[Start(k) + i] = s[i]
    BY <2>1, <2>2, <2>3, EventAt, Zenon
  <2>5. Begins(buf, s)
    <3>1. \A i \in 1..n : i <= Len(s) => i \in 1..Len(s)
      OBVIOUS
    <3>2. QED
      BY <1>2, <1>3, <2>4, <3>1, Zenon DEF Begins
  <2>6. /\ Len(s) \in Nat \ {0}
        /\ Len(buf) < Len(s) => find_event_separator(buf) = {}
        /\ Len(buf) >= Len(s) =>
              /\ find_event_separator(buf) # {} /\ f[1] + f[2] = Len(s) + 1
              /\ DataLines(SubSeq(buf, 1, f[1] - 1)) = DataLines(e)
    BY <2>2, <2>3, <2>5, DecodesEvent, Zenon
  <2>7. Start(k + 1) = Start(k) + Len(s)
    BY <2>1, <2>2, <2>3, Cuts, Zenon
  <2>8. CASE n < Len(s)
    <3>1. Start(k + 1) > pos /\ Start(k) <= pos
      BY <1>3, <2>6, <2>7, <2>8
    <3>2. Within(k)
      BY <3>1, Zenon DEF Within
    <3>3. find_event_separator(buf) = {}
      BY <1>2, <2>6, <2>8, Zenon
    <3>4. QED
      BY <3>2, <3>3, Zenon
  <2>9. CASE n >= Len(s)
    <3>1. Len(s) <= Len(buf)
      BY <1>2, <2>6, <2>9
    <3>2. /\ find_event_separator(buf) # {} /\ f[1] + f[2] = Len(s) + 1
          /\ DataLines(SubSeq(buf, 1, f[1] - 1)) = DataLines(e)
      BY <1>2, <2>6, <2>9, Zenon
    <3>3. QED
      BY <2>1, <2>2, <2>3, <3>1, <3>2, Zenon
  <2>10. QED
    BY <1>2, <2>6, <2>8, <2>9
<1>6. QED
  BY <1>1, <1>4, <1>5

\* The provider's events stay what they are.
LEMMA SameStream ==
  ASSUME sse' = sse, eol' = eol
  PROVE  /\ Sent' <=> Sent
         /\ \A k : Encoded(k)' = Encoded(k) /\ Start(k)' = Start(k)
         /\ \A k : Frames(k)' = Frames(k) /\ After(k)' = After(k)
         /\ Tokens' = Tokens
<1>1. \A k : Encoded(k)' = Encoded(k)
  BY Zenon DEF Encoded, Encode, EndOfLine
<1>2. \A k : Frames(k)' = Frames(k)
  BY Zenon DEF Frames, Message
<1>3. Tokens' = Tokens
  BY <1>1, Zenon DEF Tokens
<1>4. QED
  BY <1>1, <1>2, <1>3, Zenon DEF Sent, Start, After

LEMMA SameDelivered ==
  ASSUME sse' = sse, eol' = eol, pos' = pos
  PROVE  Delivered' = Delivered
BY Zenon DEF Delivered, Encoded, Encode, EndOfLine

LEMMA StreamInitIInv == StreamInit => StreamIInv
<1>1. SUFFICES ASSUME StreamInit PROVE StreamIInv
  OBVIOUS
<1>2. Sent
  BY <1>1, SentInit
<1>3. /\ pos = 0 /\ buf = <<>> /\ asm = EmptyAssembler /\ reading = "continue" /\ stage = "sent"
      /\ verdict = Err("Indeterminate", FALSE)
  BY <1>1 DEF StreamInit
<1>4. PICK N \in Nat : N = Len(sse)
  BY <1>2 DEF Sent
<1>5. 0 \in 0..Len(sse) /\ N \in 0..Len(sse)
  BY <1>4
<1>6. After(0) = Fresh /\ Start(0) = 0
  BY <1>2, <1>5, AfterNext, Cuts, Zenon
<1>7. Decoded(0)
  BY <1>3, <1>5, <1>6 DEF Decoded, Fresh
<1>8. Len(Tokens) \in Nat
  BY <1>2, <1>4, <1>5, Cuts, Zenon DEF Tokens, Start
<1>9. verdict.class # "Success" /\ <<>> \in Seq(Token)
  BY <1>3 DEF Err
<1>10. pos \in Nat /\ pos <= Len(Tokens) /\ buf \in Seq(Token)
  BY <1>3, <1>8, <1>9
<1>11. /\ stage \in {"sent", "streaming", "draining", "ended", "overflowed"}
       /\ stage # "streaming" /\ stage # "ended"
  BY <1>3
<1>12. QED
  BY <1>2, <1>3, <1>5, <1>7, <1>9, <1>10, <1>11, Zenon DEF StreamIInv

\* The part of the invariant about the decoder, and a step that leaves it alone.
Decoding ==
  /\ Sent /\ pos \in Nat /\ pos <= Len(Tokens) /\ buf \in Seq(Token)
  /\ \E k \in 0..Len(sse) : Decoded(k)

LEMMA DecoderKept ==
  ASSUME Decoding, sse' = sse, eol' = eol, UNCHANGED decoder
  PROVE  Decoding'
<1>1. pos' = pos /\ buf' = buf /\ asm' = asm /\ reading' = reading
  BY DEF decoder
<1>2. (Sent' <=> Sent) /\ Tokens' = Tokens /\ \A k : Start(k)' = Start(k) /\ After(k)' = After(k)
  BY SameStream
<1>3. \A k : Decoded(k) => Decoded(k)'
  BY <1>1, <1>2, Zenon DEF Decoded
<1>4. QED
  BY <1>1, <1>2, <1>3, Zenon DEF Decoding

\* Before the first token has arrived nothing has been read.
LEMMA NothingRead ==
  ASSUME Decoding, pos = 0
  PROVE  reading = "continue" /\ find_event_separator(buf) = {}
<1>2. PICK k \in 0..Len(sse) : Decoded(k)
  BY DEF Decoding
<1>3. Sent /\ Start(k) \in Nat
  <2>1. Sent
    BY DEF Decoding
  <2>2. QED
    BY <1>2, <2>1, Cuts, Zenon
<1>4. Start(k) = 0 /\ Len(buf) = 0
  BY <1>2, <1>3 DEF Decoding, Decoded
<1>5. k = 0
  <2>1. SUFFICES ASSUME k # 0 PROVE FALSE
    OBVIOUS
  <2>2. PICK one \in 0..k : one = 1
    BY <2>1
  <2>3. Start(one) <= 0
    BY <1>2, <1>3, <1>4, <2>2, Cuts
  <2>4. 0 \in 0..Len(sse) /\ 0 < Len(sse) /\ 0 + 1 = one
    BY <1>2, <1>3, <2>1, <2>2 DEF Sent
  <2>5. Start(one) > Start(0) /\ Start(0) = 0
    BY <1>3, <2>4, Cuts, Zenon
  <2>6. Start(one) \in Nat
    <3>1. one \in 0..Len(sse)
      BY <1>2, <2>2
    <3>2. QED
      BY <1>3, <3>1, Cuts, Zenon
  <2>7. QED
    BY <2>3, <2>5, <2>6
<1>6. reading = "continue"
  <2>1. reading = After(0).r /\ After(0) = Fresh
    BY <1>2, <1>3, <1>5, AfterNext, Zenon DEF Decoded
  <2>2. QED
    BY <2>1 DEF Fresh
<1>7. find_event_separator(buf) = {}
  <2>1. (\A j : j \notin 1..(Len(buf) - 1)) /\ (\A j : j \notin 1..(Len(buf) - 3))
    BY <1>4
  <2>2. buf \in Seq(Token)
    BY DEF Decoding
  <2>3. \A t : t \notin find_event_separator(buf)
    BY <2>1, <2>2, SeparatorIs, Zenon
  <2>4. QED
    BY <2>3, Zenon
<1>8. QED
  BY <1>6, <1>7

LEMMA SentStep ==
  ASSUME StreamIInv, SendFails \/ Rejected \/ NotAStream \/ Streams
  PROVE  StreamIInv'
<1>1. stage = "sent" /\ pos = 0 /\ Decoding /\ verdict.class # "Success"
  <2>1. stage = "sent"
    BY DEF SendFails, Rejected, NotAStream, Streams
  <2>2. QED
    BY <2>1, Zenon DEF StreamIInv, Decoding
<1>2. sse' = sse /\ eol' = eol /\ UNCHANGED decoder
  BY DEF SendFails, Rejected, NotAStream, Streams, provided, decoder
<1>3. Decoding' /\ pos' = 0
  BY <1>1, <1>2, DecoderKept DEF decoder
<1>4. CASE SendFails \/ Rejected \/ NotAStream
  <2>1. stage' = "ended"
    BY <1>4 DEF SendFails, Rejected, NotAStream, EndStream
  <2>2. verdict'.class # "Success"
    <3>1. CASE SendFails
      BY <3>1 DEF SendFails, EndStream, Err
    <3>2. CASE NotAStream
      BY <3>2 DEF NotAStream, EndStream, Err
    <3>3. CASE Rejected
      <4>1. verdict' = Err(HttpErrorClass(status', code'), FALSE)
        BY <3>3 DEF Rejected, EndStream
      <4>2. \A c : classify_provider_code(c) # "Success"
        BY DEF classify_provider_code
      <4>3. ASSUME BodyClass(code') # {} PROVE (CHOOSE x \in BodyClass(code') : TRUE) # "Success"
        BY <4>2, <4>3 DEF BodyClass
      <4>4. HttpErrorClass(status', code') # "Success"
        BY <4>3 DEF HttpErrorClass
      <4>5. QED
        BY <4>1, <4>4 DEF Err
    <3>4. QED
      BY <1>4, <3>1, <3>2, <3>3
  <2>3. Ended'
    BY <1>3, <2>2 DEF Ended
  <2>4. QED
    BY <1>3, <2>1, <2>3 DEF StreamIInv, Decoding
<1>5. CASE Streams
  <2>1. stage' = "streaming" /\ verdict' = verdict
    BY <1>5 DEF Streams
  <2>2. reading = "continue" /\ find_event_separator(buf) = {}
    BY <1>1, NothingRead
  <2>8. buf' = buf /\ reading' = reading
    BY <1>2 DEF decoder
  <2>9. QED
    BY <1>1, <1>3, <2>1, <2>2, <2>8 DEF StreamIInv, Decoding
<1>6. QED
  BY <1>4, <1>5

\* The invariant holds again behind a step that leaves the stream open.
LEMMA StillOpen ==
  ASSUME Decoding', stage' \in {"streaming", "draining", "overflowed"},
         stage' = "streaming" => find_event_separator(buf') = {} /\ reading' = "continue",
         verdict'.class # "Success"
  PROVE  StreamIInv'
BY DEF StreamIInv, Decoding

LEMMA PushStep ==
  ASSUME StreamIInv, NEW n \in 1..MaxChunk, PushChunk(n)
  PROVE  StreamIInv'
<1>1. stage = "streaming" /\ Decoding /\ verdict.class # "Success"
  <2>1. stage = "streaming"
    BY DEF PushChunk
  <2>2. QED
    BY <2>1, Zenon DEF StreamIInv, Decoding
<1>2. sse' = sse /\ eol' = eol /\ asm' = asm /\ reading' = reading
  BY DEF PushChunk, provided
<1>3. n \in Nat /\ n > 0
  BY StreamAssumption
<1>4. CASE Len(buf) + n > BufferMax
  <2>1. stage' = "overflowed" /\ verdict' = Err("Indeterminate", FALSE) /\ buf' = buf /\ pos' = pos
    BY <1>4 DEF PushChunk
  <2>2. Decoding'
    BY <1>1, <1>2, <2>1, DecoderKept DEF decoder
  <2>3. QED
    BY <2>1, <2>2, StillOpen DEF Err
<1>5. CASE ~ (Len(buf) + n > BufferMax)
  <2>1. /\ buf' = buf \o SubSeq(Tokens, pos + 1, pos + n) /\ pos' = pos + n
        /\ stage' = "draining" /\ verdict' = verdict /\ pos + n <= Len(Tokens)
    BY <1>5 DEF PushChunk
  <2>2. PICK w : w = Tokens
    OBVIOUS
  <2>3. w \in Seq(Token)
    <3>1. Sent /\ Len(sse) \in 0..Len(sse)
      BY <1>1 DEF Decoding, Sent
    <3>2. QED
      BY <2>2, <3>1, Cuts, Zenon DEF Tokens
  <2>4. pos \in Nat /\ pos + n <= Len(w) /\ buf \in Seq(Token)
    BY <1>1, <2>1, <2>2 DEF Decoding
  <2>5. /\ SubSeq(w, pos + 1, pos + n) \in Seq(Token) /\ Len(SubSeq(w, pos + 1, pos + n)) = n
        /\ \A i \in 1..n : SubSeq(w, pos + 1, pos + n)[i] = w[pos + i]
    <3>1. PICK m \in Nat : m = pos
      BY <2>4
    <3>2. PICK h \in Nat : h = pos + n
      BY <1>3, <2>4
    <3>3. m <= h /\ h <= Len(w)
      BY <1>3, <2>4, <3>1, <3>2
    <3>4. /\ SubSeq(w, m + 1, h) \in Seq(Token) /\ Len(SubSeq(w, m + 1, h)) = h - m
          /\ \A i \in 1..(h - m) : SubSeq(w, m + 1, h)[i] = w[m + i]
      BY <2>3, <3>3, SliceIs, Zenon
    <3>5. h - m = n
      BY <1>3, <2>4, <3>1, <3>2
    <3>6. QED
      BY <3>1, <3>2, <3>4, <3>5, Zenon
  <2>6. PICK c \in Seq(Token) : /\ c = SubSeq(w, pos + 1, pos + n) /\ Len(c) = n
                                /\ \A i \in 1..n : c[i] = w[pos + i]
    BY <2>5, Zenon
  <2>7. PICK a \in Seq(Token) : a = buf
    BY <2>4
  <2>8. PICK b : b = Cat(a, c)
    OBVIOUS
  <2>9. b = buf'
    BY <2>1, <2>2, <2>6, <2>7, <2>8, Zenon DEF Cat
  <2>10. /\ b \in Seq(Token) /\ Len(b) = Len(a) + Len(c)
         /\ \A i \in 1..(Len(a) + Len(c)) : b[i] = IF i <= Len(a) THEN a[i] ELSE c[i - Len(a)]
    BY ONLY <2>8, a \in Seq(Token), c \in Seq(Token), CatIs
  <2>11. PICK k \in 0..Len(sse) : Decoded(k)
    BY <1>1 DEF Decoding
  <2>12. /\ Start(k) \in Nat /\ Start(k) + Len(a) = pos /\ \A i \in 1..Len(a) : a[i] = w[Start(k) + i]
    <3>1. Start(k) \in Nat
      BY <1>1, <2>11, Cuts DEF Decoding
    <3>2. QED
      BY <2>2, <2>7, <2>11, <3>1, Zenon DEF Decoded
  <2>13. ASSUME NEW i \in 1..Len(b) PROVE b[i] = w[Start(k) + i]
    <3>1. CASE i <= Len(a)
      <4>1. i \in 1..Len(a) /\ i \in 1..(Len(a) + Len(c))
        BY <2>10, <3>1
      <4>2. QED
        BY <2>10, <2>12, <3>1, <4>1
    <3>2. CASE ~ (i <= Len(a))
      <4>1. PICK j \in 1..n : j = i - Len(a) /\ i \in 1..(Len(a) + Len(c)) /\ pos + j = Start(k) + i
        <5>1. i - Len(a) \in 1..n /\ i \in 1..(Len(a) + Len(c)) /\ pos + (i - Len(a)) = Start(k) + i
          <6>1. PICK p \in Nat : p = Len(a)
            OBVIOUS
          <6>2. PICK q \in Nat : q = Start(k)
            BY <2>12
          <6>3. q + p = pos /\ i \in 1..(p + n) /\ ~ (i <= p)
            BY <2>6, <2>10, <2>12, <3>2, <6>1, <6>2
          <6>4. i - p \in 1..n /\ i \in 1..(p + n) /\ pos + (i - p) = q + i
            BY ONLY <1>3, <2>4, <6>3, p \in Nat, q \in Nat, n \in Nat, pos \in Nat
          <6>5. QED
            BY <2>6, <6>1, <6>2, <6>4, Zenon
        <5>2. QED
          BY <5>1, Zenon
      <4>2. b[i] = c[j]
        BY <2>10, <3>2, <4>1, Zenon
      <4>3. QED
        BY <2>6, <4>1, <4>2, Zenon
    <3>3. QED
      BY <3>1, <3>2
  <2>14. Start(k) + Len(b) = pos'
    <3>1. PICK p \in Nat : p = Len(a)
      OBVIOUS
    <3>2. PICK q \in Nat : q = Start(k)
      BY <2>12, Zenon
    <3>3. PICK l : l = Len(b)
      OBVIOUS
    <3>4. q + p = pos /\ l = p + n
      BY <2>6, <2>10, <2>12, <3>1, <3>2, <3>3, Zenon
    <3>5. q + l = pos + n
      BY ONLY <3>4, p \in Nat, q \in Nat, n \in Nat
    <3>6. QED
      BY <2>1, <3>2, <3>3, <3>5, Zenon
  <2>15. /\ (Sent' <=> Sent) /\ Tokens' = Tokens /\ Start(k)' = Start(k) /\ After(k)' = After(k)
    BY <1>2, SameStream
  <2>16. Decoded(k)'
    BY <1>2, <2>2, <2>9, <2>11, <2>13, <2>14, <2>15, Zenon DEF Decoded
  <2>17. pos' \in Nat /\ pos' <= Len(Tokens)'
    BY <1>3, <2>1, <2>2, <2>4, <2>15
  <2>18. Sent' /\ buf' \in Seq(Token) /\ k \in 0..Len(sse')
    BY <1>1, <1>2, <2>9, <2>10, <2>15 DEF Decoding
  <2>19. Decoding'
    BY <2>16, <2>17, <2>18, Zenon DEF Decoding
  <2>20. QED
    BY <1>1, <2>1, <2>19, StillOpen
<1>6. QED
  BY <1>4, <1>5

LEMMA DrainStep ==
  ASSUME StreamIInv, DrainEvent
  PROVE  StreamIInv'
<1>1. stage = "draining" /\ reading = "continue" /\ Decoding /\ verdict.class # "Success"
  <2>1. stage = "draining" /\ reading = "continue"
    BY DEF DrainEvent
  <2>2. QED
    BY <2>1, Zenon DEF StreamIInv, Decoding
<1>2. sse' = sse /\ eol' = eol /\ stage' = stage /\ pos' = pos /\ verdict' = verdict
  BY DEF DrainEvent, provided
<1>3. PICK f : f = FirstSeparator(buf)
  OBVIOUS
<1>4. /\ find_event_separator(buf) # {} /\ buf' = SubSeq(buf, f[1] + f[2], Len(buf))
      /\ IF DataLines(SubSeq(buf, 1, f[1] - 1)) = <<>> THEN asm' = asm /\ reading' = reading
         ELSE /\ asm' = on_frame(asm, FrameOf(DataLines(SubSeq(buf, 1, f[1] - 1))))
              /\ reading' = OutcomeOf(FrameOf(DataLines(SubSeq(buf, 1, f[1] - 1))))
  BY <1>3, Zenon DEF DrainEvent, FirstSeparator
<1>5. PICK k \in 0..Len(sse) : Decoded(k)
  BY <1>1 DEF Decoding
<1>6. Sent /\ pos \in Nat /\ pos <= Len(Tokens) /\ buf \in Seq(Token)
  BY <1>1, Zenon DEF Decoding
<1>7. /\ k < Len(sse) /\ f[1] + f[2] = Len(Encode(sse[k + 1])) + 1
      /\ Len(Encode(sse[k + 1])) <= Len(buf)
      /\ DataLines(SubSeq(buf, 1, f[1] - 1)) = DataLines(sse[k + 1])
  BY <1>3, <1>4, <1>5, <1>6, BufferIs, Zenon
<1>8. Start(k) \in Nat /\ Start(k + 1) = Start(k) + Len(Encode(sse[k + 1]))
  BY <1>6, <1>7, Cuts, Zenon
<1>9. k \in 0..(Len(sse) - 1) /\ k + 1 \in 0..Len(sse)
  BY <1>6, <1>7 DEF Sent
<1>10. PICK n \in Nat : n = Len(Encode(sse[k + 1]))
  <2>1. Len(Encode(sse[k + 1])) \in Nat
    BY <1>6, <1>9, EncodedNext, Zenon
  <2>2. QED
    BY <2>1, Zenon
<1>11. PICK m \in Nat : m = Len(buf) /\ n <= m
  BY <1>6, <1>7, <1>10
<1>12. buf' = SubSeq(buf, n + 1, m)
  BY <1>4, <1>7, <1>10, <1>11, Zenon
<1>13. /\ SubSeq(buf, n + 1, m) \in Seq(Token) /\ Len(SubSeq(buf, n + 1, m)) = m - n
       /\ \A i \in 1..(m - n) : SubSeq(buf, n + 1, m)[i] = buf[n + i]
  <2>1. m <= Len(buf) /\ n <= m
    BY <1>11
  <2>2. QED
    BY <1>6, <2>1, SliceIs, Zenon
<1>14. PICK b \in Seq(Token) : b = buf' /\ Len(b) = m - n /\ \A i \in 1..(m - n) : b[i] = buf[n + i]
  BY <1>12, <1>13, Zenon
<1>15. PICK st \in Nat : st = Start(k)
  BY <1>8
<1>16. Start(k + 1) = st + n /\ st + m = pos /\ \A i \in 1..m : buf[i] = Tokens[st + i]
  BY <1>5, <1>8, <1>10, <1>11, <1>15, Zenon DEF Decoded
<1>17. ASSUME NEW i \in 1..Len(b) PROVE b[i] = Tokens[Start(k + 1) + i]
  <2>1. PICK j \in 1..m : j = n + i /\ st + j = st + n + i
    <3>1. n + i \in 1..m
      BY <1>11, <1>14
    <3>2. QED
      BY <3>1
  <2>2. i \in 1..(m - n)
    BY <1>14
  <2>3. b[i] = buf[j] /\ buf[j] = Tokens[st + j]
    BY <1>14, <1>16, <2>1, <2>2, Zenon
  <2>4. QED
    BY <1>16, <2>1, <2>3, Zenon
<1>18. Start(k + 1) + Len(b) = pos
  BY <1>11, <1>14, <1>16
<1>19. asm' = After(k + 1).a /\ reading' = After(k + 1).r
  <2>1. PICK d : d = DataLines(sse[k + 1])
    OBVIOUS
  <2>2. PICK u \in State : u = After(k)
    <3>1. After(k) \in State
      BY <1>6, AfterNext, Zenon
    <3>2. QED
      BY <3>1, Zenon
  <2>3. asm = u.a /\ reading = u.r /\ u.r = "continue"
    BY <1>1, <1>5, <2>2, Zenon DEF Decoded
  <2>4. CASE d = <<>>
    <3>1. After(k + 1) = u
      BY <1>6, <1>7, <2>1, <2>2, <2>4, AfterNext, Zenon
    <3>2. asm' = asm /\ reading' = reading
      BY <1>4, <1>7, <2>1, <2>4, Zenon
    <3>3. QED
      BY <2>3, <3>1, <3>2, Zenon
  <2>5. CASE d # <<>>
    <3>1. PICK g \in Frame : g = FrameOf(d)
      <4>1. FrameOf(d) \in Frame
        BY FrameIs
      <4>2. QED
        BY <4>1, Zenon
    <3>2. After(k + 1) = Read(u, g)
      BY <1>6, <1>7, <2>1, <2>2, <2>5, <3>1, AfterNext, Zenon
    <3>3. asm' = on_frame(asm, g) /\ reading' = OutcomeOf(g)
      BY <1>4, <1>7, <2>1, <2>5, <3>1, Zenon
    <3>4. QED
      BY <2>3, <3>2, <3>3, ReadIs, Zenon
  <2>6. QED
    BY <2>4, <2>5
<1>20. /\ (Sent' <=> Sent) /\ Tokens' = Tokens
       /\ Start(k + 1)' = Start(k + 1) /\ After(k + 1)' = After(k + 1)
  BY <1>2, SameStream, Zenon
<1>21. Decoded(k + 1)'
  BY <1>2, <1>9, <1>14, <1>17, <1>18, <1>19, <1>20, Zenon DEF Decoded
<1>22. Decoding'
  BY <1>2, <1>6, <1>9, <1>14, <1>20, <1>21, Zenon DEF Decoding
<1>23. QED
  BY <1>1, <1>2, <1>22, StillOpen

\* What the lane concludes from the events that arrived whole.
LEMMA Concluded ==
  ASSUME Sent, sse' = sse, eol' = eol, pos' = pos, pos # 0, NEW D \in 0..Len(sse), D = Delivered,
         verdict' = Conclude(After(D).a, After(D).r)
  PROVE  Ended'
<1>1. Delivered' = D /\ After(D)' = After(D)
  BY SameDelivered, SameStream, Zenon
<1>2. D \in 0..Len(sse') /\ pos' # 0
  OBVIOUS
<1>3. QED
  BY <1>1, <1>2, Zenon DEF Ended

LEMMA DrainedStep ==
  ASSUME StreamIInv, Drained
  PROVE  StreamIInv'
<1>1. stage = "draining" /\ Decoding /\ verdict.class # "Success"
  <2>1. stage = "draining"
    BY DEF Drained
  <2>2. QED
    BY <2>1, Zenon DEF StreamIInv, Decoding
<1>2. sse' = sse /\ eol' = eol /\ UNCHANGED decoder
  BY DEF Drained, provided
<1>3. pos' = pos /\ buf' = buf /\ asm' = asm /\ reading' = reading
  BY <1>2 DEF decoder
<1>4. Decoding'
  BY <1>1, <1>2, DecoderKept
<1>5. CASE reading = "continue"
  <2>1. find_event_separator(buf) = {} /\ stage' = "streaming" /\ verdict' = verdict
    BY <1>5 DEF Drained
  <2>2. QED
    BY <1>1, <1>3, <1>4, <1>5, <2>1, StillOpen
<1>6. CASE reading # "continue"
  <2>1. stage' = "ended" /\ verdict' = Conclude(asm, reading)
    BY <1>6 DEF Drained, EndStream
  <2>2. pos # 0
    BY <1>1, <1>6, NothingRead
  <2>3. PICK k \in 0..Len(sse) : Decoded(k)
    BY <1>1 DEF Decoding
  <2>4. Sent /\ pos \in Nat /\ Len(buf) \in Nat
    BY <1>1 DEF Decoding
  <2>5. Start(k) <= pos
    <3>1. Start(k) \in Nat
      BY <2>4, Cuts, Zenon
    <3>2. Start(k) + Len(buf) = pos
      BY <2>3, Zenon DEF Decoded
    <3>3. QED
      BY <2>4, <3>1, <3>2
  <2>6. PICK D \in k..Len(sse) : D = Delivered
    BY <2>4, <2>5, DeliveredFrom, Zenon
  <2>7. asm = After(k).a /\ reading = After(k).r
    BY <2>3, Zenon DEF Decoded
  <2>8. After(D) = After(k)
    BY <1>6, <2>4, <2>6, <2>7, AfterKept, Zenon
  <2>9. verdict' = Conclude(After(D).a, After(D).r)
    BY <2>1, <2>7, <2>8, Zenon
  <2>10. D \in 0..Len(sse)
    BY <2>4, <2>6 DEF Sent
  <2>11. Ended'
    BY <1>2, <1>3, <2>2, <2>4, <2>6, <2>9, <2>10, Concluded, Zenon
  <2>12. QED
    BY <1>4, <2>1, <2>11 DEF StreamIInv, Decoding
<1>7. QED
  BY <1>5, <1>6

LEMMA BodyEndsStep ==
  ASSUME StreamIInv, BodyEnds
  PROVE  StreamIInv'
<1>1. stage = "streaming"
  BY DEF BodyEnds
<1>2. Decoding /\ find_event_separator(buf) = {} /\ reading = "continue"
  BY <1>1, Zenon DEF StreamIInv, Decoding
<1>3. sse' = sse /\ eol' = eol /\ UNCHANGED decoder /\ stage' = "ended" /\ verdict' = Conclude(asm, reading)
  BY DEF BodyEnds, provided, EndStream
<1>4. pos' = pos /\ Decoding'
  BY <1>2, <1>3, DecoderKept DEF decoder
<1>5. CASE pos = 0
  <2>1. verdict' = Err("Indeterminate", asm.terminal_seen)
    BY <1>2, <1>3 DEF Conclude
  <2>2. verdict'.class # "Success"
    BY <2>1 DEF Err
  <2>3. Ended'
    BY <1>4, <1>5, <2>2 DEF Ended
  <2>4. QED
    BY <1>3, <1>4, <2>3 DEF StreamIInv, Decoding
<1>6. CASE pos # 0
  <2>1. PICK k \in 0..Len(sse) : Decoded(k)
    BY <1>2 DEF Decoding
  <2>2. Sent /\ pos \in Nat /\ pos <= Len(Tokens) /\ buf \in Seq(Token)
    BY <1>2, Zenon DEF Decoding
  <2>3. PICK f : f = FirstSeparator(buf)
    OBVIOUS
  <2>4. Within(k)
    BY <1>2, <2>1, <2>2, <2>3, BufferIs, Zenon
  <2>5. Delivered = k
    BY <2>2, <2>4, DeliveredIs, Zenon
  <2>6. verdict' = Conclude(After(k).a, After(k).r)
    BY <1>3, <2>1, Zenon DEF Decoded
  <2>7. Ended'
    BY <1>3, <1>4, <1>6, <2>2, <2>5, <2>6, Concluded, Zenon
  <2>8. QED
    BY <1>3, <1>4, <2>7 DEF StreamIInv, Decoding
<1>7. QED
  BY <1>5, <1>6

LEMMA StreamStill ==
  ASSUME StreamIInv, UNCHANGED streamVars
  PROVE  StreamIInv'
<1>1. /\ sse' = sse /\ eol' = eol /\ UNCHANGED decoder /\ stage' = stage /\ verdict' = verdict
      /\ pos' = pos /\ buf' = buf /\ reading' = reading
  BY DEF streamVars, provided, decoder
<1>2. Decoding'
  <2>1. Decoding
    BY Zenon DEF StreamIInv, Decoding
  <2>2. QED
    BY <1>1, <2>1, DecoderKept
<1>3. Ended => Ended'
  <2>1. CASE pos = 0
    BY <1>1, <2>1, Zenon DEF Ended
  <2>2. ASSUME pos # 0, Ended PROVE Ended'
    <3>1. PICK D \in 0..Len(sse) : D = Delivered /\ verdict = Conclude(After(D).a, After(D).r)
      BY <2>2, Zenon DEF Ended
    <3>2. Sent /\ verdict' = Conclude(After(D).a, After(D).r)
      BY <1>1, <3>1, Zenon DEF StreamIInv
    <3>3. QED
      BY <1>1, <2>2, <3>1, <3>2, Concluded, Zenon
  <2>3. QED
    BY <2>1, <2>2
<1>4. /\ stage' = "sent" => pos' = 0
      /\ stage' = "streaming" => find_event_separator(buf') = {} /\ reading' = "continue"
      /\ stage' # "ended" => verdict'.class # "Success"
      /\ stage' = "ended" => Ended'
      /\ stage' \in {"sent", "streaming", "draining", "ended", "overflowed"}
  BY <1>1, <1>3 DEF StreamIInv
<1>5. QED
  BY <1>2, <1>4, Zenon DEF StreamIInv, Decoding

\* The invariant that both theorems rest on.
LEMMA StreamInvariant == StreamSpec => []StreamIInv
<1>1. StreamInit => StreamIInv
  BY StreamInitIInv
<1>2. StreamIInv /\ [StreamNext]_streamVars => StreamIInv'
  <2>1. SUFFICES ASSUME StreamIInv, [StreamNext]_streamVars PROVE StreamIInv'
    OBVIOUS
  <2>2. CASE SendFails \/ Rejected \/ NotAStream \/ Streams
    BY <2>1, <2>2, SentStep, Zenon
  <2>3. CASE \E n \in 1..MaxChunk : PushChunk(n)
    BY <2>1, <2>3, PushStep, Zenon
  <2>4. CASE DrainEvent
    BY <2>1, <2>4, DrainStep, Zenon
  <2>5. CASE Drained
    BY <2>1, <2>5, DrainedStep, Zenon
  <2>6. CASE BodyEnds
    BY <2>1, <2>6, BodyEndsStep, Zenon
  <2>7. CASE UNCHANGED streamVars
    BY <2>1, <2>7, StreamStill, Zenon
  <2>8. QED
    BY <2>1, <2>2, <2>3, <2>4, <2>5, <2>6, <2>7, Zenon DEF StreamNext
<1>3. QED
  BY <1>1, <1>2, PTL DEF StreamSpec

\* Wherever the stream is cut into chunks and wherever it stops, the HTTP lane
\* comes to what the websocket lane makes of the events that arrived whole.
THEOREM LanesAlwaysAgree == StreamSpec => []LanesAgree
<1>1. StreamIInv => LanesAgree
  <2>1. SUFFICES ASSUME StreamIInv, stage = "ended", pos > 0
                 PROVE  verdict = run_on_socket(Frames(Delivered))
    BY Zenon DEF LanesAgree
  <2>2. pos \in Nat /\ Ended
    BY <2>1 DEF StreamIInv
  <2>3. pos # 0
    BY <2>1, <2>2
  <2>4. PICK D \in 0..Len(sse) : D = Delivered /\ verdict = Conclude(After(D).a, After(D).r)
    BY <2>2, <2>3, Zenon DEF Ended
  <2>5. QED
    BY <2>4, Zenon DEF run_on_socket, After
<1>2. QED
  BY <1>1, StreamInvariant, PTL

-----------------------------------------------------------------------------
(* What a completed answer is made of *)

PartOf(f) == IF f.kind = "delta" THEN f.text ELSE <<>>
PartsOf(fs) == [i \in DOMAIN fs |-> PartOf(fs[i])]

\* What the assembler holds of the first n frames, if it has read them.
Collected(a, fs, n) ==
  /\ a.delta_buf = FlattenSeq(Firsts(PartsOf(fs), n))
  /\ \/ a.done_text = {} /\ \A i \in 1..n : fs[i].kind # "done"
     \/ \E j \in 1..n : /\ fs[j].kind = "done" /\ a.done_text = {fs[j].text}
                        /\ \A i \in 1..n : fs[i].kind = "done" => i <= j

LEMMA PartIs ==
  ASSUME NEW f \in Frame
  PROVE  PartOf(f) \in Fragments /\ (f.kind # "delta" => PartOf(f) = <<>>)
         /\ (f.kind = "delta" => PartOf(f) = f.text)
<1>1. f.kind = "delta" => f.text \in Fragments
  BY DEF Frame, TextFrame, EndFrame, ErrorFrame
<1>2. <<>> \in Fragments
  BY DEF Fragments
<1>3. QED
  BY <1>1, <1>2, Zenon DEF PartOf

LEMMA PartsMore ==
  ASSUME NEW fs \in Seq(Frame), NEW n \in 0..(Len(fs) - 1)
  PROVE  /\ FlattenSeq(Firsts(PartsOf(fs), n)) \in Fragments
         /\ FlattenSeq(Firsts(PartsOf(fs), n + 1))
              = Cat(FlattenSeq(Firsts(PartsOf(fs), n)), PartOf(fs[n + 1]))
<1>1. PICK s : s = PartsOf(fs)
  OBVIOUS
<1>2. \A i \in 1..(n + 1) : s[i] = PartOf(fs[i]) /\ fs[i] \in Frame
  <2>1. \A i \in 1..(n + 1) : i \in 1..Len(fs)
    OBVIOUS
  <2>2. DOMAIN fs = 1..Len(fs) /\ \A i \in 1..Len(fs) : fs[i] \in Frame
    OBVIOUS
  <2>3. QED
    BY <1>1, <2>1, <2>2 DEF PartsOf
<1>3. PICK V : V = Seq({"a", "b", " ", "c"})
  OBVIOUS
<1>4. n \in Nat /\ n + 1 \in Nat /\ n \in 0..(n + 1) /\ n + 1 \in 1..(n + 1)
  OBVIOUS
<1>5. \A i \in 1..(n + 1) : s[i] \in V
  BY <1>2, <1>3, PartIs, Zenon DEF Fragments
<1>6. FlattenSeq(Firsts(s, n + 1)) = Cat(FlattenSeq(Firsts(s, n)), s[n + 1])
  BY <1>3, <1>4, <1>5, SeqJoinable, FlattenMore, Zenon
<1>7. FlattenSeq(Firsts(s, n)) \in Fragments
  BY <1>3, <1>4, <1>5, FlattenIsSeq, Zenon DEF Fragments
<1>8. QED
  BY <1>1, <1>2, <1>4, <1>6, <1>7, Zenon

LEMMA CollectedNone == \A fs : Collected(EmptyAssembler, fs, 0)
<1>1. TAKE fs
<1>2. FlattenSeq(Firsts(PartsOf(fs), 0)) = <<>>
  BY FlattenNone
<1>3. \A i : i \notin 1..0
  OBVIOUS
<1>4. EmptyAssembler.delta_buf = <<>> /\ EmptyAssembler.done_text = {}
  BY DEF EmptyAssembler
<1>5. QED
  BY <1>2, <1>3, <1>4, Zenon DEF Collected

LEMMA CollectedMore ==
  ASSUME NEW fs \in Seq(Frame), NEW n \in 0..(Len(fs) - 1),
         NEW a \in Assemblers, Collected(a, fs, n)
  PROVE  Collected(on_frame(a, fs[n + 1]), fs, n + 1)
<1>1. PICK f \in Frame : f = fs[n + 1]
  <2>1. fs[n + 1] \in Frame
    OBVIOUS
  <2>2. QED
    BY <2>1, Zenon
<1>2. PICK b : b = on_frame(a, f)
  OBVIOUS
<1>3. /\ b.delta_buf = IF f.kind = "delta" THEN Cat(a.delta_buf, f.text) ELSE a.delta_buf
      /\ b.done_text = IF f.kind = "done" THEN {f.text} ELSE a.done_text
  BY <1>2, OnFrame, Zenon
<1>4. PICK x \in Fragments : x = a.delta_buf
  BY Zenon DEF Assemblers
<1>5. x = FlattenSeq(Firsts(PartsOf(fs), n))
  BY <1>4, Zenon DEF Collected
<1>6. FlattenSeq(Firsts(PartsOf(fs), n + 1)) = Cat(x, PartOf(f))
  BY <1>1, <1>5, PartsMore, Zenon
<1>7. b.delta_buf = FlattenSeq(Firsts(PartsOf(fs), n + 1))
  <2>1. CASE f.kind = "delta"
    BY <1>3, <1>4, <1>6, <2>1, PartIs, Zenon
  <2>2. CASE f.kind # "delta"
    <3>1. Cat(x, <<>>) = x
      BY ConcatEmptySeq DEF Cat, Fragments
    <3>2. QED
      BY <1>3, <1>4, <1>6, <2>2, <3>1, PartIs, Zenon
  <2>3. QED
    BY <2>1, <2>2
<1>8. PICK m \in Nat : m = n + 1 /\ m \in 1..m
  OBVIOUS
<1>9. \A i \in 1..m : i \in 1..n \/ i = m
  BY <1>8
<1>10. CASE f.kind = "done"
  <2>1. b.done_text = {fs[m].text} /\ fs[m].kind = "done"
    BY <1>1, <1>3, <1>8, <1>10, Zenon
  <2>2. \A i \in 1..m : i <= m
    OBVIOUS
  <2>3. QED
    BY <1>1, <1>2, <1>7, <1>8, <2>1, <2>2, Zenon DEF Collected
<1>11. CASE f.kind # "done"
  <2>1. b.done_text = a.done_text
    BY <1>3, <1>11, Zenon
  <2>2. fs[m].kind # "done"
    BY <1>1, <1>8, <1>11, Zenon
  <2>3. CASE a.done_text = {} /\ \A i \in 1..n : fs[i].kind # "done"
    <3>1. b.done_text = {} /\ \A i \in 1..m : fs[i].kind # "done"
      BY <1>9, <2>1, <2>2, <2>3, Zenon
    <3>2. QED
      BY <1>1, <1>2, <1>7, <1>8, <3>1, Zenon DEF Collected
  <2>4. CASE \E j \in 1..n : /\ fs[j].kind = "done" /\ a.done_text = {fs[j].text}
                             /\ \A i \in 1..n : fs[i].kind = "done" => i <= j
    <3>1. PICK j \in 1..n : /\ fs[j].kind = "done" /\ a.done_text = {fs[j].text}
                            /\ \A i \in 1..n : fs[i].kind = "done" => i <= j
      BY <2>4
    <3>2. j \in 1..m
      BY <1>8
    <3>3. \A i \in 1..m : fs[i].kind = "done" => i <= j
      BY <1>9, <2>2, <3>1, Zenon
    <3>4. QED
      BY <1>1, <1>2, <1>7, <1>8, <2>1, <3>1, <3>2, <3>3, Zenon DEF Collected
  <2>5. QED
    BY <2>3, <2>4, Zenon DEF Collected
<1>12. QED
  BY <1>10, <1>11

\* A run that ends: frame k ended it, and what came before went on.
EndsAt(g, fs, k) ==
  /\ g[k - 1].r = "continue" /\ g[k] = Read(g[k - 1], fs[k]) /\ g[Len(fs)] = g[k]
  /\ g[k].r # "continue" /\ Collected(g[k - 1].a, fs, k - 1)
  /\ \A i \in 1..(k - 1) : OutcomeOf(fs[i]) = "continue"

LEMMA RunEnds ==
  ASSUME NEW fs \in Seq(Frame), NEW g \in [0..Len(fs) -> State], Reads(g, fs, Len(fs)),
         g[Len(fs)].r # "continue"
  PROVE  \E k \in 1..Len(fs) : EndsAt(g, fs, k)
<1>1. PICK N \in Nat : N = Len(fs)
  OBVIOUS
<1>2. PICK S : S = {n \in 0..N : g[n].r # "continue"}
  OBVIOUS
<1>3. S \subseteq Nat /\ N \in S
  BY <1>1, <1>2
<1>4. PICK k \in S : \A y \in S : k <= y
  BY <1>3, SmallestOf
<1>5. g[0] = Fresh /\ Fresh.r = "continue" /\ Fresh.a = EmptyAssembler
  BY DEF Reads, Fresh
<1>6. k \in 1..N /\ g[k].r # "continue" /\ \A n \in 0..(k - 1) : g[n].r = "continue"
  <2>1. k \in 0..N /\ g[k].r # "continue"
    BY <1>2
  <2>2. k # 0
    BY <1>5, <2>1
  <2>3. ASSUME NEW n \in 0..(k - 1) PROVE g[n].r = "continue"
    <3>1. n \in 0..N /\ ~ (k <= n)
      BY <2>1
    <3>2. QED
      BY <1>2, <1>4, <3>1, Zenon
  <2>4. QED
    BY <2>1, <2>2, <2>3
<1>7. ASSUME NEW i \in 1..N
      PROVE  /\ g[i] = Read(g[i - 1], fs[i]) /\ fs[i] \in Frame
             /\ g[i] \in State /\ g[i - 1] \in State /\ i - 1 \in 0..N
  <2>1. i - 1 \in 0..Len(fs) /\ i \in 0..Len(fs) /\ i \in 1..Len(fs)
    BY <1>1
  <2>2. g[i] = Read(g[i - 1], fs[i])
    BY <2>1, Zenon DEF Reads
  <2>3. QED
    BY <1>1, <2>1, <2>2
<1>8. ASSUME NEW i \in 1..(k - 1)
      PROVE  /\ OutcomeOf(fs[i]) = "continue" /\ g[i].a = on_frame(g[i - 1].a, fs[i])
             /\ i - 1 \in 0..(Len(fs) - 1) /\ g[i - 1].a \in Assemblers
  <2>1. i \in 1..N /\ i - 1 \in 0..(k - 1) /\ i \in 0..(k - 1) /\ i - 1 \in 0..(Len(fs) - 1)
    BY <1>1, <1>6
  <2>2. g[i].r = "continue" /\ g[i - 1].r = "continue"
    BY <1>6, <2>1, Zenon
  <2>3. g[i].r = OutcomeOf(fs[i]) /\ g[i].a = on_frame(g[i - 1].a, fs[i])
    <3>1. PICK f \in Frame : f = fs[i]
      BY <1>7, <2>1
    <3>2. PICK st \in State : st = g[i - 1]
      BY <1>7, <2>1
    <3>3. g[i] = Read(st, f) /\ st.r = "continue"
      BY <1>7, <2>1, <2>2, <3>1, <3>2, Zenon
    <3>4. Read(st, f).a = on_frame(st.a, f) /\ Read(st, f).r = OutcomeOf(f)
      BY <3>3, ReadIs, Zenon
    <3>5. g[i].a = on_frame(st.a, f) /\ g[i].r = OutcomeOf(f)
      BY <3>3, <3>4, Zenon
    <3>6. QED
      BY <3>1, <3>2, <3>5, Zenon
  <2>4. g[i - 1].a \in Assemblers
    BY <1>7, <2>1, Zenon DEF State
  <2>5. QED
    BY <2>1, <2>2, <2>3, <2>4, Zenon
<1>9. Collected(g[k - 1].a, fs, k - 1)
  <2>1. PICK M \in Nat : M = k - 1
    BY <1>6
  <2>2. PICK X : X = {n \in 0..M : Collected(g[n].a, fs, n)}
    OBVIOUS
  <2>3. 0 \in X
    <3>1. Collected(g[0].a, fs, 0)
      BY <1>5, CollectedNone, Zenon
    <3>2. QED
      BY <2>1, <2>2, <3>1
  <2>4. ASSUME NEW n \in 0..(M - 1), n \in X PROVE n + 1 \in X
    <3>1. PICK i \in 1..(k - 1) : i = n + 1 /\ i - 1 = n /\ i \in 0..M
      <4>1. PICK i \in 1..(k - 1) : i = n + 1
        BY <2>1
      <4>2. i - 1 = n /\ i \in 0..M
        BY <2>1, <4>1
      <4>3. QED
        BY <4>1, <4>2, Zenon
    <3>2. Collected(g[n].a, fs, n)
      BY <2>2, <2>4
    <3>3. Collected(on_frame(g[n].a, fs[n + 1]), fs, n + 1)
      BY <1>8, <3>1, <3>2, CollectedMore, Zenon
    <3>4. Collected(g[i].a, fs, i)
      BY <1>8, <3>1, <3>3, Zenon
    <3>5. QED
      BY <2>2, <3>1, <3>4, Zenon
  <2>5. 0..M \subseteq X
    BY <2>3, <2>4, UpTo
  <2>6. M \in X
    BY <2>1, <2>5
  <2>7. QED
    BY <2>1, <2>2, <2>6
<1>10. g[N] = g[k]
  <2>1. PICK M \in Nat : M = N - k /\ k + M = N
    BY <1>6
  <2>2. PICK X : X = {j \in 0..M : g[k + j] = g[k]}
    OBVIOUS
  <2>3. 0 \in X
    <3>1. k + 0 = k /\ 0 \in 0..M
      BY <1>6, <2>1
    <3>2. QED
      BY <2>2, <3>1
  <2>4. ASSUME NEW j \in 0..(M - 1), j \in X PROVE j + 1 \in X
    <3>1. PICK i \in 1..N : i = k + (j + 1) /\ i - 1 = k + j /\ j + 1 \in 0..M
      <4>1. PICK i \in 1..N : i = k + (j + 1)
        BY <1>6, <2>1
      <4>2. i - 1 = k + j /\ j + 1 \in 0..M
        BY <1>6, <2>1, <4>1
      <4>3. QED
        BY <4>1, <4>2, Zenon
    <3>2. g[i - 1] = g[k]
      BY <2>2, <2>4, <3>1
    <3>3. g[i - 1].r # "continue"
      BY <1>6, <3>2
    <3>4. g[i] = g[i - 1]
      BY <1>7, <3>1, <3>3, ReadIs, Zenon
    <3>5. QED
      BY <2>2, <3>1, <3>2, <3>4
  <2>5. 0..M \subseteq X
    BY <2>3, <2>4, UpTo
  <2>6. M \in X
    BY <2>1, <2>5
  <2>7. QED
    BY <2>1, <2>2, <2>6
<1>11. g[k] = Read(g[k - 1], fs[k]) /\ g[k - 1].r = "continue" /\ k \in 1..Len(fs)
  <2>1. k - 1 \in 0..(k - 1)
    BY <1>6
  <2>2. QED
    BY <1>1, <1>6, <1>7, <2>1, Zenon
<1>12. EndsAt(g, fs, k)
  BY <1>1, <1>6, <1>8, <1>9, <1>10, <1>11, Zenon DEF EndsAt
<1>13. QED
  BY <1>11, <1>12, Zenon

\* The property's names for the last final text and the fragments.
Finals(fs, k) == {i \in 1..(k - 1) : fs[i].kind = "done"}
Parts(fs, k) == [i \in 1..(k - 1) |-> IF fs[i].kind = "delta" THEN fs[i].text ELSE <<>>]

LEMMA AssembledIs ==
  ASSUME NEW fs \in Seq(Frame), NEW k \in 1..Len(fs), NEW a, Collected(a, fs, k - 1)
  PROVE  assembled_text(a) =
           IF Finals(fs, k) # {} THEN fs[Max(Finals(fs, k))].text ELSE FlattenSeq(Parts(fs, k))
<1>1. a.delta_buf = FlattenSeq(Parts(fs, k))
  <2>1. \A i \in 1..(k - 1) : i \in DOMAIN fs
    OBVIOUS
  <2>2. Parts(fs, k) = Firsts(PartsOf(fs), k - 1)
    BY <2>1 DEF Parts, Firsts, PartsOf, PartOf
  <2>3. QED
    BY <2>2, Zenon DEF Collected
<1>2. CASE a.done_text = {} /\ \A i \in 1..(k - 1) : fs[i].kind # "done"
  <2>1. Finals(fs, k) = {}
    BY <1>2 DEF Finals
  <2>2. QED
    BY <1>1, <1>2, <2>1, Zenon DEF assembled_text
<1>3. CASE \E j \in 1..(k - 1) : /\ fs[j].kind = "done" /\ a.done_text = {fs[j].text}
                                 /\ \A i \in 1..(k - 1) : fs[i].kind = "done" => i <= j
  <2>1. PICK j \in 1..(k - 1) : /\ fs[j].kind = "done" /\ a.done_text = {fs[j].text}
                                /\ \A i \in 1..(k - 1) : fs[i].kind = "done" => i <= j
    BY <1>3
  <2>2. PICK F : F = Finals(fs, k)
    OBVIOUS
  <2>3. j \in F /\ F \subseteq Int /\ \A i \in F : i <= j
    BY <2>1, <2>2 DEF Finals
  <2>4. Max(F) = j
    <3>1. j \in F /\ \A y \in F : j >= y
      BY <2>3
    <3>2. \A x \in F : (\A y \in F : x >= y) => x = j
      BY <2>3
    <3>3. QED
      BY <3>1, <3>2 DEF Max
  <2>5. assembled_text(a) = fs[j].text
    <3>1. PICK t : t = fs[j].text
      OBVIOUS
    <3>2. a.done_text = {t} /\ a.done_text # {}
      BY <2>1, <3>1
    <3>3. (CHOOSE x \in {t} : TRUE) = t
      OBVIOUS
    <3>4. QED
      BY <3>1, <3>2, <3>3, Zenon DEF assembled_text
  <2>6. QED
    BY <2>2, <2>3, <2>4, <2>5, Zenon
<1>4. QED
  BY <1>2, <1>3, Zenon DEF Collected

LEMMA SuccessIs ==
  ASSUME NEW st \in State, Conclude(st.a, st.r).class = "Success"
  PROVE  /\ st.r = "completed" /\ st.a.completed_status # "incomplete"
         /\ Conclude(st.a, st.r).text = assembled_text(st.a)
<1>1. st.r \in Readings
  BY DEF State
<1>2. st.r = "completed"
  BY <1>1 DEF Conclude, Err, Readings
<1>3. Conclude(st.a, st.r) = finish_after_completed(st.a)
  BY <1>2 DEF Conclude
<1>4. finish_after_completed(st.a).class = "Success"
  BY <1>3
<1>5. st.a.completed_status \in {"none", "completed"}
  BY <1>4 DEF finish_after_completed, Err
<1>6. finish_after_completed(st.a).text = assembled_text(st.a)
  BY <1>4 DEF finish_after_completed, Err
<1>7. QED
  BY <1>2, <1>3, <1>5, <1>6

\* A success is the whole answer: the provider said it was completed, nothing
\* that arrived before said otherwise, and the text is the last final text or
\* else every fragment, in the order sent.
THEOREM SuccessIsAlwaysTheWholeAnswer == StreamSpec => []SuccessIsTheWholeAnswer
<1>1. StreamIInv => SuccessIsTheWholeAnswer
  <2>1. SUFFICES ASSUME StreamIInv, verdict.class = "Success" PROVE SuccessIsTheWholeAnswer
    BY Zenon DEF SuccessIsTheWholeAnswer
  <2>2. Ended /\ Sent
    BY <2>1, Zenon DEF StreamIInv
  <2>3. PICK D \in 0..Len(sse) : D = Delivered /\ verdict = Conclude(After(D).a, After(D).r)
    BY <2>1, <2>2, Zenon DEF Ended
  <2>4. PICK fs \in Seq(Frame) : fs = Frames(D)
    <3>1. Frames(D) \in Seq(Frame)
      BY <2>2, FramesNext, Zenon
    <3>2. QED
      BY <3>1, Zenon
  <2>5. PICK g \in [0..Len(fs) -> State] : Reads(g, fs, Len(fs)) /\ ReadAll(fs) = g[Len(fs)]
    <3>1. Len(fs) \in Nat /\ fs \in [1..Len(fs) -> Frame]
      OBVIOUS
    <3>2. QED
      BY <3>1, ReadRun, Zenon
  <2>6. PICK st \in State : st = g[Len(fs)]
    OBVIOUS
  <2>7. verdict = Conclude(st.a, st.r)
    BY <2>3, <2>4, <2>5, <2>6, Zenon DEF After
  <2>8. st.r = "completed" /\ st.a.completed_status # "incomplete" /\ verdict.text = assembled_text(st.a)
    BY <2>1, <2>7, SuccessIs, Zenon
  <2>9. PICK k \in 1..Len(fs) : EndsAt(g, fs, k)
    <3>1. g[Len(fs)].r # "continue"
      BY <2>6, <2>8
    <3>2. QED
      BY <2>5, <3>1, RunEnds, Zenon
  <2>10. PICK u \in State : u = g[k - 1]
    <3>1. k - 1 \in 0..Len(fs)
      OBVIOUS
    <3>2. QED
      BY <3>1
  <2>a. PICK f \in Frame : f = fs[k]
    OBVIOUS
  <2>11. PICK w \in Assemblers : w = u.a
    BY DEF State
  <2>12. st.r = OutcomeOf(f) /\ st.a = on_frame(w, f)
    <3>1. st = Read(u, f) /\ u.r = "continue"
      BY <2>a, <2>6, <2>9, <2>10, Zenon DEF EndsAt
    <3>2. QED
      BY <2>11, <3>1, ReadIs, Zenon
  <2>13. fs[k].kind = "completed" /\ f.kind = "completed"
    BY <2>a, <2>8, <2>12, OutcomeIs, Zenon
  <2>14. /\ st.a.delta_buf = u.a.delta_buf /\ st.a.done_text = u.a.done_text
         /\ st.a.completed_status = fs[k].status
    <3>1. f.kind # "delta" /\ f.kind # "done"
      BY <2>13
    <3>2. PICK z : z = on_frame(w, f)
      OBVIOUS
    <3>3. /\ z.delta_buf = IF f.kind = "delta" THEN Cat(w.delta_buf, f.text) ELSE w.delta_buf
          /\ z.done_text = IF f.kind = "done" THEN {f.text} ELSE w.done_text
          /\ z.completed_status = IF f.kind = "completed" THEN f.status ELSE w.completed_status
      BY <3>2, OnFrame, Zenon
    <3>4. z.delta_buf = w.delta_buf /\ z.done_text = w.done_text /\ z.completed_status = f.status
      BY <2>13, <3>1, <3>3
    <3>5. QED
      BY <2>a, <2>11, <2>12, <3>2, <3>4, Zenon
  <2>15. verdict.text = assembled_text(u.a)
    BY <2>8, <2>14, Zenon DEF assembled_text
  <2>16. verdict.text = IF Finals(fs, k) # {} THEN fs[Max(Finals(fs, k))].text ELSE FlattenSeq(Parts(fs, k))
    <3>1. Collected(u.a, fs, k - 1)
      BY <2>9, <2>10, Zenon DEF EndsAt
    <3>2. QED
      BY <2>15, <3>1, AssembledIs, Zenon
  <2>17. \A i \in 1..(k - 1) : fs[i].kind \notin {"completed", "error", "malformed"}
    <3>1. TAKE i \in 1..(k - 1)
    <3>2. fs[i] \in Frame /\ OutcomeOf(fs[i]) = "continue"
      <4>1. i \in 1..Len(fs)
        OBVIOUS
      <4>2. QED
        BY <2>9, <4>1 DEF EndsAt
    <3>3. QED
      BY <3>2, OutcomeIs, Zenon
  <2>18. k \in DOMAIN fs /\ fs[k].status # "incomplete" /\ fs = Frames(Delivered)
    <3>1. k \in DOMAIN fs
      OBVIOUS
    <3>2. QED
      BY <2>3, <2>4, <2>8, <2>14, <3>1, Zenon
  <2>19. QED
    BY <2>13, <2>16, <2>17, <2>18, Zenon DEF SuccessIsTheWholeAnswer, Finals, Parts
<1>2. QED
  BY <1>1, StreamInvariant, PTL

================================================================================
