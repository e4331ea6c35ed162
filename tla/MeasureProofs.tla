--------------------------- MODULE MeasureProofs ---------------------------
(***************************************************************************)
(* Proofs about the measurements: for every number of elements, every      *)
(* result of the cycle counter and every timing, host and board stay in    *)
(* step and the line loses nothing.                                        *)
(***************************************************************************)
EXTENDS Measure, SerialProofs

\* What is on its way to the board.
In == rx \o wire_in

Upto(n) == [j \in 1 .. n |-> j]

\* The numbers of an answer, of which the time is the last.
Last == IF prog = "sort" THEN asked ELSE 1
Answer(k) ==
  IF k > Last THEN took
  ELSE IF prog = "sort" THEN k ELSE (asked * (asked + 1)) \div 2

\* With k numbers sent: those to come, those the host has read, and what it
\* is still to read.
Rest(k) == [j \in 1 .. Last + 1 - k |-> Answer(k + j)]
Heard(k) == IF prog = "sort" THEN Upto(IF k > Last THEN Last ELSE k) ELSE <<>>
Unread(k) ==
  IF prog = "sort" THEN IF k > Last THEN IntBytes(took) ELSE <<>>
  ELSE IF k = 0 THEN <<>>
  ELSE IF k = 1 THEN IntBytes(Answer(1)) ELSE IntBytes(Answer(1)) \o IntBytes(took)

\* What 32 bits hold.
Ints == {m \in Nat : m \div 65536 < 65536}

MeasureTypeOK ==
  /\ UartTypeOK
  /\ prog \in {"sort", "fact"} /\ mpc \in {"en", "number", "work", "wait", "send", "ack"}
  /\ acc \in Seq(Nat) /\ queue \in Seq(Nat) /\ out \in Seq(Nat) /\ took \in Ints
  /\ host \in {"idle", "results"}
  /\ asked \in Nat /\ asked < 65536
  /\ host = "results" => asked >= 1
  /\ tests \in Nat

\* Between two tests nothing is on its way and the board waits.
Resting ==
  /\ host = "idle" /\ mpc = "en"
  /\ queue = <<>> /\ out = <<>> /\ In = <<>> /\ due = <<>>
  /\ tests > 0 => got = Results(asked) /\ cnt = took

\* The board reads what was asked of it, and works.
Requested ==
  /\ host = "results" /\ got = <<>> /\ due = <<>> /\ queue = <<>> /\ out = <<>>
  /\ \/ mpc = "en" /\ \E e \in Nat : In = <<e>> \o IntBytes(asked)
     \/ mpc = "number" /\ acc \o In = IntBytes(asked) /\ Len(acc) <= 3
     \/ mpc = "work" /\ acc = IntBytes(asked) /\ In = <<>>

\* It sends number k + 1, or is about to; no time passes meanwhile.
Answering(k) ==
  /\ host = "results" /\ got = Heard(k) /\ queue = Rest(k)
  /\ In = <<>> /\ inbox = <<>> /\ tsr = <<>>
  /\ \/ mpc = "wait" /\ out = <<>> /\ due = Unread(k)
     \/ mpc = "send" /\ k <= Last /\ due \o out = Unread(k) \o IntBytes(Answer(k + 1))

\* Element k is on its way to the host, or the answer to it on its way back.
Acknowledging(k) ==
  /\ prog = "sort" /\ mpc = "ack" /\ host = "results" /\ queue = Rest(k) /\ out = <<>>
  /\ \/ got = Upto(k - 1) /\ due = IntBytes(k) /\ In = <<>>
     \/ got = Upto(k) /\ due = <<>> /\ In = <<0>>

\* The board is done, the host is still to read.
Ending ==
  /\ host = "results" /\ mpc = "en" /\ queue = <<>> /\ out = <<>> /\ In = <<>>
  /\ \/ got = Results(asked) /\ due = IntBytes(took)
     \/ prog = "fact" /\ got = <<>> /\ due = IntBytes(Answer(1)) \o IntBytes(took)

Phases ==
  \/ Resting
  \/ Requested
  \/ \E k \in Nat : k <= Last + 1 /\ Answering(k)
  \/ \E k \in Nat \ {0} : k <= Last /\ Acknowledging(k)
  \/ Ending

MeasureInv == MeasureTypeOK /\ Kept /\ Phases

------------------------------------------------------------------------------
(* Numbers as bytes. *)

LEMMA IntBytesFacts ==
  ASSUME NEW a \in Ints
  PROVE  IntBytes(a) \in Seq(Nat) /\ Len(IntBytes(a)) = 4 /\ ToInt(IntBytes(a)) = a
<1>. DEFINE b1 == a % 256
            b2 == (a \div 256) % 256
            b3 == (a \div 65536) % 256
            b4 == (a \div 16777216) % 256
<1>1. /\ b1 \in Nat /\ b2 \in Nat /\ b3 \in Nat /\ b4 \in Nat
      /\ b1 + 256 * b2 + 65536 * b3 + 16777216 * b4 = a
  <2>. DEFINE q1 == a \div 256
              q2 == q1 \div 256
              q3 == q2 \div 256
              r1 == a % 256
              r2 == q1 % 256
              r3 == q2 % 256
  <2>1. a \in Nat /\ a \div 65536 < 65536
    BY DEF Ints
  <2>2. a = 256 * q1 + r1 /\ q1 \in Nat /\ r1 \in Nat /\ r1 < 256
    BY <2>1
  <2>3. q1 = 256 * q2 + r2 /\ q2 \in Nat /\ r2 \in Nat /\ r2 < 256
    <3>. HIDE DEF q1
    <3>. QED  BY <2>2
  <2>4. q2 = 256 * q3 + r3 /\ q3 \in Nat /\ r3 \in Nat /\ r3 < 256
    <3>. HIDE DEF q2
    <3>. QED  BY <2>3
  <2>5. b1 = r1 /\ b2 = r2
    OBVIOUS
  <2>. HIDE DEF q1, q2, q3, r1, r2, r3
  <2>6. a \div 65536 = q2
    <3>1. a = 65536 * q2 + (256 * r2 + r1) /\ 256 * r2 + r1 \in Nat /\ 256 * r2 + r1 < 65536
      BY <2>2, <2>3
    <3>. QED  BY <2>1, <2>3, <3>1
  <2>7. a \div 16777216 = q3
    <3>1. /\ a = 16777216 * q3 + (65536 * r3 + 256 * r2 + r1)
          /\ 65536 * r3 + 256 * r2 + r1 \in Nat /\ 65536 * r3 + 256 * r2 + r1 < 16777216
      BY <2>2, <2>3, <2>4
    <3>. QED  BY <2>1, <2>4, <3>1
  <2>8. b3 = r3
    BY <2>6 DEF r3
  <2>9. b4 = q3
    <3>1. q3 < 256
      BY <2>1, <2>4, <2>6
    <3>2. b4 = q3 % 256
      BY <2>7
    <3>. QED  BY <2>4, <3>1, <3>2
  <2>. HIDE DEF b1, b2, b3, b4
  <2>. QED  BY <2>2, <2>3, <2>4, <2>5, <2>8, <2>9
<1>2. IntBytes(a) = <<b1, b2, b3, b4>>
  BY DEF IntBytes
<1>. HIDE DEF b1, b2, b3, b4
<1>3. ToInt(<<b1, b2, b3, b4>>) = b1 + 256 * b2 + 65536 * b3 + 16777216 * b4
  BY <1>1 DEF ToInt
<1>. QED  BY <1>1, <1>2, <1>3

\* The first four of the bytes that are due make up the first number sent.
LEMMA FirstInt ==
  ASSUME NEW a \in Ints, NEW s \in Seq(Nat), Len(s) >= 4, NEW r \in Seq(Nat),
         NEW t \in Seq(Nat), NEW d \in Seq(Nat), d = s \o r, d = IntBytes(a) \o t
  PROVE  ToInt(s) = a
<1>. DEFINE b == IntBytes(a)
<1>1. b \in Seq(Nat) /\ Len(b) = 4 /\ ToInt(b) = a
  BY IntBytesFacts
<1>2. d = b \o t
  OBVIOUS
<1>. HIDE DEF b
<1>3. \A j \in 1 .. 4 : d[j] = b[j]
  <2>1. \A j \in 1 .. Len(b) + Len(t) : (b \o t)[j] = IF j <= Len(b) THEN b[j] ELSE t[j - Len(b)]
    BY <1>1, ConcatProperties
  <2>2. Len(t) \in Nat
    OBVIOUS
  <2>. HIDE DEF b
  <2>3. SUFFICES ASSUME NEW j \in 1 .. 4  PROVE (b \o t)[j] = b[j]
    BY <1>2
  <2>4. j \in 1 .. Len(b) + Len(t) /\ j <= Len(b)
    BY <1>1, <2>2
  <2>. QED  BY ONLY <2>1, <2>4
<1>4. \A j \in 1 .. 4 : d[j] = s[j]
  <2>1. \A j \in 1 .. Len(s) + Len(r) : (s \o r)[j] = IF j <= Len(s) THEN s[j] ELSE r[j - Len(s)]
    BY ConcatProperties
  <2>2. Len(r) \in Nat /\ Len(s) \in Nat /\ Len(s) >= 4
    OBVIOUS
  <2>3. SUFFICES ASSUME NEW j \in 1 .. 4  PROVE (s \o r)[j] = s[j]
    OBVIOUS
  <2>4. j \in 1 .. Len(s) + Len(r) /\ j <= Len(s)
    BY <2>2
  <2>. QED  BY ONLY <2>1, <2>4
<1>5. ToInt(s) = ToInt(b)
  <2>1. s[1] = b[1] /\ s[2] = b[2] /\ s[3] = b[3] /\ s[4] = b[4]
    <3>1. 1 \in 1 .. 4 /\ 2 \in 1 .. 4 /\ 3 \in 1 .. 4 /\ 4 \in 1 .. 4
      OBVIOUS
    <3>. QED  BY ONLY <1>3, <1>4, <3>1
  <2>. QED  BY <2>1 DEF ToInt
<1>. QED  BY <1>1, <1>5

\* Behind them the next number begins.
LEMMA DropInt ==
  ASSUME NEW a \in Ints, NEW t \in Seq(Nat), NEW d \in Seq(Nat), d = IntBytes(a) \o t
  PROVE  SubSeq(d, 5, Len(d)) = t
<1>. DEFINE b == IntBytes(a)
            n == 4
<1>1. b \in Seq(Nat) /\ Len(b) = 4
  BY IntBytesFacts
<1>2. d = b \o t
  OBVIOUS
<1>. HIDE DEF b
<1>3. n \in Nat /\ n + 1 = 5 /\ Len(b) = n /\ Len(b) >= n
  BY <1>1
<1>. HIDE DEF n
<1>4. SubSeq(d, n + 1, Len(d)) = SubSeq(b, n + 1, Len(b)) \o t
  BY <1>1, <1>2, <1>3, DropFront, Zenon
<1>5. SubSeq(b, n + 1, Len(b)) = <<>>
  BY <1>1, <1>3
<1>6. SubSeq(d, 5, Len(d)) = <<>> \o t
  BY <1>3, <1>4, <1>5
<1>7. <<>> \o t = t
  OBVIOUS
<1>. QED  BY <1>6, <1>7

\* Nothing is due: nothing is on its way to the host.
LEMMA LineEmpty ==
  ASSUME UartTypeOK, Kept, due = <<>>
  PROVE  inbox = <<>> /\ tsr = <<>> /\ tx = <<>>
<1>1. /\ inbox \in Seq(Nat) /\ tsr \in Seq(Nat) /\ tx \in Seq(Nat)
      /\ (inbox \o tsr) \o tx = <<>>
  BY DEF UartTypeOK, Kept
<1>2. Len((inbox \o tsr) \o tx) = Len(inbox) + Len(tsr) + Len(tx)
  BY <1>1
<1>3. Len(inbox) = 0 /\ Len(tsr) = 0 /\ Len(tx) = 0
  BY <1>1, <1>2
<1>. QED  BY <1>1, <1>3

\* Time has not passed since: all that is due is in the transmit FIFO.
LEMMA LineStands ==
  ASSUME UartTypeOK, Kept, inbox = <<>>, tsr = <<>>
  PROVE  tx = due
<1>1. tx \in Seq(Nat) /\ (<<>> \o <<>>) \o tx = due
  BY DEF UartTypeOK, Kept
<1>. QED  BY <1>1

\* What the host finds begins with what is due.
LEMMA DueLong ==
  ASSUME UartTypeOK, Kept
  PROVE  /\ Len(inbox) <= Len(due) /\ Len(inbox) \in Nat /\ Len(due) \in Nat
         /\ \E r \in Seq(Nat) : due = inbox \o r
<1>1. /\ inbox \in Seq(Nat) /\ tsr \in Seq(Nat) /\ tx \in Seq(Nat) /\ due \in Seq(Nat)
      /\ (inbox \o tsr) \o tx = due
  BY DEF UartTypeOK, Kept
<1>. DEFINE r == tsr \o tx
<1>2. r \in Seq(Nat) /\ due = inbox \o r
  <2>1. (inbox \o tsr) \o tx = inbox \o (tsr \o tx)
    <3>1. inbox \in Seq(Nat) /\ tsr \in Seq(Nat) /\ tx \in Seq(Nat)
      BY <1>1
    <3>. QED  BY ONLY <3>1, Assoc
  <2>. QED  BY <1>1, <2>1
<1>. HIDE DEF r
<1>3. Len(due) = Len(inbox) + Len(r)
  BY <1>1, <1>2
<1>4. Len(inbox) \in Nat /\ Len(r) \in Nat
  BY <1>1, <1>2
<1>5. Len(due) \in Nat /\ Len(inbox) <= Len(due)
  BY <1>3, <1>4
<1>. QED  BY <1>2, <1>4, <1>5

------------------------------------------------------------------------------
(* What is to be sent. *)

LEMMA MeasureConstants ==
  /\ FifoDepth \in Nat /\ FifoDepth >= 8 /\ MaxLen \in Nat /\ MaxLen < 65536 /\ Times \subseteq Ints
BY MeasureAssumption, UartAssumption DEF Ints

LEMMA SmallInts == \A m \in Nat : m < 65536 => m \in Ints
<1>1. \A m \in Nat : m < 65536 => m \div 65536 = 0
  OBVIOUS
<1>. QED  BY <1>1 DEF Ints

LEMMA AnswerFacts ==
  ASSUME MeasureTypeOK, NEW k \in Nat
  PROVE  /\ Last \in Nat /\ Last < 65536 /\ Answer(k) \in Ints
         /\ host = "results" => Last >= 1
<1>1. asked \in Nat /\ asked < 65536 /\ took \in Ints /\ (host = "results" => asked >= 1)
  BY DEF MeasureTypeOK
<1>2. Last \in Nat /\ Last < 65536 /\ (host = "results" => Last >= 1)
  BY <1>1 DEF Last
<1>3. (asked * (asked + 1)) \div 2 \in Ints
  <2>. DEFINE m == asked * (asked + 1)
              h == m \div 2
  <2>1. m \in Nat /\ m <= 65535 * (asked + 1)
    BY <1>1
  <2>. HIDE DEF m
  <2>2. m \in Nat /\ m < 65536 * 65536
    BY <1>1, <2>1
  <2>3. h \in Nat /\ h < 65536 * 65536
    BY <2>2
  <2>. HIDE DEF h
  <2>4. h \div 65536 < 65536
    BY <2>3
  <2>. QED  BY <2>3, <2>4 DEF Ints, h, m
<1>4. ASSUME k > Last  PROVE Answer(k) = took
  BY <1>4 DEF Answer
<1>5. ASSUME ~(k > Last), prog = "sort"  PROVE Answer(k) = k
  BY <1>5 DEF Answer
<1>6. ASSUME ~(k > Last), prog # "sort"  PROVE Answer(k) = (asked * (asked + 1)) \div 2
  BY <1>6 DEF Answer
<1>7. ~(k > Last) => k \in Ints
  BY <1>2, SmallInts
<1>8. Answer(k) \in Ints
  <2>. took \in Ints
    BY <1>1
  <2>1. CASE k > Last
    BY <2>1, <1>4, Zenon
  <2>2. CASE ~(k > Last) /\ prog = "sort"
    BY <2>2, <1>5, <1>7, Zenon
  <2>3. CASE ~(k > Last) /\ prog # "sort"
    BY <2>3, <1>3, <1>6, Zenon
  <2>. QED  BY <2>1, <2>2, <2>3, Zenon
<1>. QED  BY <1>2, <1>8

LEMMA RestFacts ==
  ASSUME MeasureTypeOK, NEW k \in Nat, k <= Last + 1
  PROVE  /\ Rest(k) \in Seq(Nat) /\ Len(Rest(k)) = Last + 1 - k
         /\ k <= Last => /\ Rest(k) # <<>> /\ Head(Rest(k)) = Answer(k + 1)
                         /\ Tail(Rest(k)) = Rest(k + 1)
         /\ Rest(k) = <<>> => k = Last + 1
<1>1. Last \in Nat /\ Last < 65536 /\ \A j \in Nat : Answer(j) \in Nat
  <2>1. Last \in Nat /\ Last < 65536
    BY AnswerFacts
  <2>2. ASSUME NEW j \in Nat  PROVE Answer(j) \in Nat
    BY AnswerFacts DEF Ints
  <2>. QED  BY <2>1, <2>2
<1>2. /\ Rest(k) \in Seq(Nat) /\ Len(Rest(k)) = Last + 1 - k
      /\ \A j \in 1 .. Last + 1 - k : Rest(k)[j] = Answer(k + j)
  BY <1>1 DEF Rest
<1>3. ASSUME k <= Last
      PROVE  Rest(k) # <<>> /\ Head(Rest(k)) = Answer(k + 1) /\ Tail(Rest(k)) = Rest(k + 1)
  <2>1. Rest(k) # <<>> /\ Head(Rest(k)) = Answer(k + 1)
    BY <1>1, <1>2, <1>3
  <2>2. /\ Rest(k + 1) \in Seq(Nat) /\ Len(Rest(k + 1)) = Last - k
        /\ \A j \in 1 .. Last - k : Rest(k + 1)[j] = Answer(k + 1 + j)
    <3>1. Last + 1 - (k + 1) = Last - k
      BY <1>1
    <3>. QED  BY <3>1, <1>1, <1>3 DEF Rest
  <2>3. /\ Tail(Rest(k)) \in Seq(Nat) /\ Len(Tail(Rest(k))) = Last - k
        /\ \A j \in 1 .. Last - k : Tail(Rest(k))[j] = Rest(k)[j + 1]
    BY <1>1, <1>2, <1>3, <2>1
  <2>4. \A j \in 1 .. Last - k : Tail(Rest(k))[j] = Rest(k + 1)[j]
    <3>. SUFFICES ASSUME NEW j \in 1 .. Last - k  PROVE Tail(Rest(k))[j] = Rest(k + 1)[j]
      OBVIOUS
    <3>1. j + 1 \in 1 .. Last + 1 - k /\ k + (j + 1) = k + 1 + j
      BY <1>1
    <3>. QED  BY <3>1, <1>2, <2>2, <2>3
  <2>5. Tail(Rest(k)) = Rest(k + 1)
    BY <2>2, <2>3, <2>4, SeqEqual
  <2>. QED  BY <2>1, <2>5
<1>4. ASSUME Rest(k) = <<>>  PROVE k = Last + 1
  <2>1. Last + 1 - k = 0
    BY <1>2, <1>4
  <2>. QED  BY <1>1, <2>1
<1>. QED  BY <1>2, <1>3, <1>4, Zenon

LEMMA UptoFacts ==
  ASSUME NEW n \in Nat
  PROVE  /\ Upto(n) \in Seq(Nat) /\ Len(Upto(n)) = n /\ Upto(0) = <<>>
         /\ Append(Upto(n), n + 1) = Upto(n + 1)
<1>1. /\ Upto(n) \in Seq(Nat) /\ Len(Upto(n)) = n /\ \A j \in 1 .. n : Upto(n)[j] = j
  BY DEF Upto
<1>2. /\ Upto(n + 1) \in Seq(Nat) /\ Len(Upto(n + 1)) = n + 1
      /\ \A j \in 1 .. n + 1 : Upto(n + 1)[j] = j
  BY DEF Upto
<1>3. Upto(0) = <<>>
  <2>1. Upto(0) \in Seq(Nat) /\ Len(Upto(0)) = 0
    BY DEF Upto
  <2>. QED  BY <2>1
<1>. DEFINE a == Append(Upto(n), n + 1)
<1>4. /\ a \in Seq(Nat) /\ Len(a) = n + 1 /\ \A j \in 1 .. n : a[j] = Upto(n)[j]
      /\ a[n + 1] = n + 1
  BY <1>1
<1>. HIDE DEF a
<1>5. \A j \in 1 .. n + 1 : a[j] = Upto(n + 1)[j]
  <2>. SUFFICES ASSUME NEW j \in 1 .. n + 1  PROVE a[j] = j
    BY <1>2
  <2>1. CASE j = n + 1
    BY <2>1, <1>4
  <2>2. CASE j # n + 1
    BY <2>2, <1>1, <1>4
  <2>. QED  BY <2>1, <2>2
<1>6. a = Upto(n + 1)
  BY <1>2, <1>4, <1>5, SeqEqual
<1>. QED  BY <1>1, <1>3, <1>6 DEF a

LEMMA ResultsFacts ==
  ASSUME MeasureTypeOK
  PROVE  /\ prog = "sort" => Results(asked) = Upto(Last) /\ Len(Results(asked)) = Last
         /\ prog = "fact" => Results(asked) = <<Answer(1)>> /\ Len(Results(asked)) = 1 /\ Last = 1
<1>1. asked \in Nat
  BY DEF MeasureTypeOK
<1>2. ASSUME prog = "sort"  PROVE Results(asked) = Upto(Last)
  BY <1>2 DEF Results, Upto, Last
<1>3. ASSUME prog = "sort"  PROVE Len(Upto(Last)) = Last
  BY <1>1, <1>3, UptoFacts DEF Last
<1>4. ASSUME prog = "fact"  PROVE Results(asked) = <<Answer(1)>> /\ Last = 1
  BY <1>4 DEF Results, Answer, Last
<1>. QED  BY <1>2, <1>3, <1>4

------------------------------------------------------------------------------
(* Steps. *)

\* A number sent stays what it is until the next test.
LEMMA AnswerStays ==
  ASSUME UNCHANGED <<prog, asked, took>>, NEW CONSTANT k
  PROVE  /\ Last' = Last /\ Answer(k)' = Answer(k) /\ Rest(k)' = Rest(k)
         /\ Heard(k)' = Heard(k) /\ Unread(k)' = Unread(k)
         /\ IntBytes(asked)' = IntBytes(asked) /\ IntBytes(took)' = IntBytes(took)
         /\ Results(asked)' = Results(asked)
<1>1. prog' = prog /\ asked' = asked /\ took' = took
  OBVIOUS
<1>2. Last' = Last /\ Answer(k)' = Answer(k) /\ Answer(1)' = Answer(1)
  BY <1>1 DEF Last, Answer
<1>3. Rest(k)' = Rest(k)
  BY <1>1 DEF Rest, Last, Answer
<1>4. Heard(k)' = Heard(k)
  BY <1>1 DEF Heard, Last
<1>5. Unread(k)' = Unread(k)
  BY <1>1, <1>2 DEF Unread, Last
<1>6. /\ IntBytes(asked)' = IntBytes(asked) /\ IntBytes(took)' = IntBytes(took)
      /\ Results(asked)' = Results(asked)
  BY <1>1 DEF IntBytes, Results
<1>. QED  BY <1>2, <1>3, <1>4, <1>5, <1>6

LEMMA ConsInjective ==
  ASSUME NEW x \in Nat, NEW y \in Nat, NEW s \in Seq(Nat), NEW t \in Seq(Nat),
         <<x>> \o s = <<y>> \o t
  PROVE  s = t
<1>1. /\ Len(<<x>> \o s) = 1 + Len(s) /\ Len(<<y>> \o t) = 1 + Len(t)
      /\ Len(s) \in Nat /\ Len(t) \in Nat
  OBVIOUS
<1>2. Len(s) = Len(t)
  BY <1>1
<1>3. \A j \in 1 .. Len(s) : s[j] = t[j]
  <2>. SUFFICES ASSUME NEW j \in 1 .. Len(s)  PROVE s[j] = t[j]
    OBVIOUS
  <2>1. (<<x>> \o s)[j + 1] = s[j] /\ (<<y>> \o t)[j + 1] = t[j]
    BY <1>1, <1>2
  <2>. QED  BY <2>1
<1>. QED  BY <1>2, <1>3, SeqEqual

LEMMA LenConcat ==
  ASSUME NEW a \in Seq(Nat), NEW b \in Seq(Nat)
  PROVE  a \o b \in Seq(Nat) /\ Len(a \o b) = Len(a) + Len(b) /\ Len(a) \in Nat /\ Len(b) \in Nat
OBVIOUS

LEMMA ReadIn ==
  ASSUME UartTypeOK, uart_read_blocking
  PROVE  /\ Head(rx) \in Nat /\ In \in Seq(Nat) /\ In' \in Seq(Nat)
         /\ In = <<Head(rx)>> \o In' /\ Len(In) = 1 + Len(In') /\ In # <<>>
<1>1. /\ rx \in Seq(Nat) /\ wire_in \in Seq(Nat) /\ rx # <<>>
      /\ rx' = Tail(rx) /\ wire_in' = wire_in
  BY DEF UartTypeOK, uart_read_blocking, DataReady
<1>. DEFINE h == Head(rx)
            u == Tail(rx)
            e == <<h>>
<1>2. h \in Nat /\ u \in Seq(Nat) /\ rx = e \o u /\ e \in Seq(Nat) /\ Len(e) = 1
  BY <1>1, TailFacts
<1>3. In = rx \o wire_in /\ In' = u \o wire_in
  BY <1>1 DEF In
<1>. HIDE DEF u, e
<1>4. (e \o u) \o wire_in = e \o (u \o wire_in)
  BY <1>1, <1>2, Assoc
<1>5. In \in Seq(Nat) /\ In' \in Seq(Nat) /\ In = e \o In'
  BY <1>1, <1>2, <1>3, <1>4
<1>6. Len(e \o In') = 1 + Len(In') /\ Len(In') \in Nat
  <2>. DEFINE v == In'
  <2>1. v \in Seq(Nat) /\ e \in Seq(Nat) /\ Len(e) = 1
    BY <1>2, <1>5
  <2>. HIDE DEF v
  <2>2. Len(e \o v) = Len(e) + Len(v) /\ Len(v) \in Nat
    BY ONLY <2>1, LenConcat
  <2>. QED  BY <2>1, <2>2 DEF v
<1>7. In # <<>>
  BY <1>5, <1>6
<1>. QED  BY <1>2, <1>5, <1>6, <1>7 DEF e

LEMMA EmptyIn ==
  ASSUME UartTypeOK, In = <<>>
  PROVE  rx = <<>> /\ wire_in = <<>>
<1>1. rx \in Seq(Nat) /\ wire_in \in Seq(Nat) /\ rx \o wire_in = <<>>
  BY DEF UartTypeOK, In
<1>2. Len(rx \o wire_in) = Len(rx) + Len(wire_in)
  BY <1>1
<1>3. Len(rx) = 0 /\ Len(wire_in) = 0
  BY <1>1, <1>2
<1>. QED  BY <1>1, <1>3

LEMMA MeasureInitInv == MeasureInit => MeasureInv
<1>. SUFFICES ASSUME MeasureInit  PROVE MeasureInv
  OBVIOUS
<1>1. /\ prog \in {"sort", "fact"} /\ mpc = "en" /\ acc = <<>> /\ queue = <<>> /\ out = <<>>
      /\ took = 0 /\ host = "idle" /\ asked = 0 /\ tests = 0
      /\ rx = <<>> /\ wire_in = <<>> /\ due = <<>>
  BY DEF MeasureInit, UartInit
<1>2. UartTypeOK /\ Kept
  BY UartInitFacts DEF MeasureInit
<1>3. MeasureTypeOK
  <2>1. 0 \in Ints
    BY SmallInts
  <2>. QED  BY <1>1, <1>2, <2>1 DEF MeasureTypeOK
<1>4. In = <<>>
  BY <1>1 DEF In
<1>5. Resting
  BY <1>1, <1>4 DEF Resting
<1>. QED  BY <1>2, <1>3, <1>5 DEF MeasureInv, Phases

\* Which phase the program's state tells.
LEMMA PhaseFacts ==
  ASSUME Phases
  PROVE  /\ mpc = "en" => Resting \/ Requested \/ Ending
         /\ mpc \in {"number", "work"} => Requested
         /\ mpc \in {"wait", "send"} => \E k \in Nat : k <= Last + 1 /\ Answering(k)
         /\ mpc = "ack" => \E k \in Nat \ {0} : k <= Last /\ Acknowledging(k)
         /\ host = "idle" => Resting
BY DEF Phases, Resting, Requested, Answering, Acknowledging, Ending

LEMMA ReadEnableInv == MeasureInv /\ ReadEnable => MeasureInv'
<1>. SUFFICES ASSUME MeasureInv, ReadEnable  PROVE MeasureInv'
  OBVIOUS
<1>1. /\ mpc = "en" /\ uart_read_blocking /\ mpc' = "number" /\ acc' = <<>> /\ due' = due
      /\ UNCHANGED <<prog, queue, out, took, host, asked, got, cnt, tests>>
  BY DEF ReadEnable, hostVars, uart_read_blocking
<1>2. MeasureTypeOK /\ UartTypeOK /\ Kept /\ Phases
  BY DEF MeasureInv, MeasureTypeOK
<1>3. UartTypeOK' /\ Kept'
  BY <1>1, <1>2, ReadKeeps
<1>4. /\ Head(rx) \in Nat /\ In' \in Seq(Nat) /\ In = <<Head(rx)>> \o In' /\ In # <<>>
  BY <1>1, <1>2, ReadIn
<1>5. Requested
  BY <1>1, <1>2, <1>4, PhaseFacts DEF Resting, Ending
<1>6. PICK e \in Nat : In = <<e>> \o IntBytes(asked)
  BY <1>1, <1>5 DEF Requested
<1>7. asked \in Ints
  BY <1>2, SmallInts DEF MeasureTypeOK
<1>8. In' = IntBytes(asked)
  <2>. DEFINE v == In'
  <2>1. v \in Seq(Nat) /\ <<Head(rx)>> \o v = <<e>> \o IntBytes(asked)
    BY <1>4, <1>6
  <2>2. IntBytes(asked) \in Seq(Nat)
    BY <1>7, IntBytesFacts
  <2>. HIDE DEF v
  <2>3. v = IntBytes(asked)
    BY <1>4, <2>1, <2>2, ConsInjective
  <2>. QED  BY <2>3 DEF v
<1>9. acc' \o In' = IntBytes(asked)'
  <2>1. \A v \in Seq(Nat) : <<>> \o v = v
    OBVIOUS
  <2>2. IntBytes(asked)' = IntBytes(asked)
    BY <1>1 DEF IntBytes
  <2>. QED  BY <1>1, <1>4, <1>8, <2>1, <2>2
<1>10. Requested'
  <2>1. Len(acc') <= 3
    BY <1>1
  <2>. QED  BY <1>1, <1>5, <1>9, <2>1 DEF Requested
<1>11. MeasureTypeOK'
  BY <1>1, <1>2, <1>3 DEF MeasureTypeOK
<1>. QED  BY <1>3, <1>10, <1>11 DEF MeasureInv, Phases

LEMMA RecvIntInv == MeasureInv /\ recv_int => MeasureInv'
<1>. SUFFICES ASSUME MeasureInv, recv_int  PROVE MeasureInv'
  OBVIOUS
<1>1. /\ mpc = "number" /\ uart_read_blocking /\ acc' = Append(acc, Head(rx)) /\ due' = due
      /\ mpc' = IF Len(acc) = 3 THEN "work" ELSE "number"
      /\ UNCHANGED <<prog, queue, out, took, host, asked, got, cnt, tests>>
  BY DEF recv_int, hostVars, uart_read_blocking
<1>2. /\ MeasureTypeOK /\ UartTypeOK /\ Kept /\ Phases /\ acc \in Seq(Nat)
      /\ asked \in Nat /\ asked < 65536
  BY DEF MeasureInv, MeasureTypeOK
<1>3. UartTypeOK' /\ Kept'
  BY <1>1, <1>2, ReadKeeps
<1>4. /\ Head(rx) \in Nat /\ In \in Seq(Nat) /\ In' \in Seq(Nat) /\ In = <<Head(rx)>> \o In'
  BY <1>1, <1>2, ReadIn
<1>5. Requested /\ acc \o In = IntBytes(asked) /\ Len(acc) <= 3
  <2>1. Requested
    BY <1>1, <1>2, PhaseFacts
  <2>. QED  BY <1>1, <2>1 DEF Requested
<1>6. IntBytes(asked) \in Seq(Nat) /\ Len(IntBytes(asked)) = 4
  <2>1. asked \in Ints
    BY <1>2, SmallInts
  <2>. QED  BY <2>1, IntBytesFacts
<1>7. acc' \in Seq(Nat) /\ Len(acc') = Len(acc) + 1 /\ Len(acc) \in Nat
  BY <1>1, <1>2, <1>4
<1>8. acc' \o In' = IntBytes(asked)
  <2>. DEFINE v == In'
              h == Head(rx)
  <2>1. v \in Seq(Nat) /\ h \in Nat /\ In = <<h>> \o v
    BY <1>4
  <2>. HIDE DEF v, h
  <2>2. Append(acc, h) \o v = acc \o In
    BY <1>2, <2>1, AppendFront
  <2>. QED  BY <1>1, <1>5, <2>2 DEF v, h
<1>9. IntBytes(asked)' = IntBytes(asked)
  BY <1>1 DEF IntBytes
<1>10. ASSUME Len(acc) = 3  PROVE In' = <<>> /\ acc' = IntBytes(asked)
  <2>. DEFINE v == In'
              a == acc'
  <2>1. v \in Seq(Nat) /\ a \in Seq(Nat) /\ Len(a) = 4 /\ a \o v = IntBytes(asked)
    BY <1>4, <1>7, <1>8, <1>10
  <2>. HIDE DEF v, a
  <2>2. Len(a \o v) = Len(a) + Len(v) /\ Len(v) \in Nat
    BY ONLY <2>1, LenConcat
  <2>3. v = <<>>
    BY <1>6, <2>1, <2>2
  <2>4. a \o <<>> = a
    BY <2>1
  <2>. QED  BY <2>1, <2>3, <2>4 DEF v, a
<1>11. Requested'
  <2>1. CASE Len(acc) = 3
    BY <2>1, <1>1, <1>5, <1>9, <1>10 DEF Requested
  <2>2. CASE Len(acc) # 3
    <3>1. Len(acc') <= 3
      <4>1. \A m \in Nat : m <= 3 /\ m # 3 => m + 1 <= 3
        OBVIOUS
      <4>. QED  BY <4>1, <2>2, <1>5, <1>7
    <3>. QED  BY <2>2, <3>1, <1>1, <1>5, <1>8, <1>9 DEF Requested
  <2>. QED  BY <2>1, <2>2
<1>12. MeasureTypeOK'
  BY <1>1, <1>2, <1>3, <1>7 DEF MeasureTypeOK
<1>. QED  BY <1>3, <1>11, <1>12 DEF MeasureInv, Phases

\* All that is to be sent, at the start: the results and the time.
LEMMA RestZero ==
  ASSUME MeasureTypeOK
  PROVE  Rest(0) = Append(Results(asked), took)
<1>. DEFINE a == Append(Results(asked), took)
<1>1. /\ prog \in {"sort", "fact"} /\ asked \in Nat /\ took \in Nat
  BY DEF MeasureTypeOK, Ints
<1>2. /\ Last \in Nat /\ Answer(Last + 1) = took /\ \A j \in Nat : Answer(j) \in Nat
  <2>1. \A j \in Nat : Last \in Nat /\ Answer(j) \in Ints
    BY AnswerFacts
  <2>2. Last + 1 > Last
    BY <2>1
  <2>3. Ints \subseteq Nat
    BY DEF Ints
  <2>. QED  BY <2>1, <2>2, <2>3 DEF Answer
<1>3. /\ Rest(0) \in Seq(Nat) /\ Len(Rest(0)) = Last + 1
      /\ \A j \in 1 .. Last + 1 : Rest(0)[j] = Answer(j)
  <2>1. Last + 1 - 0 = Last + 1 /\ \A j \in Nat : 0 + j = j
    BY <1>2
  <2>. QED  BY <2>1, <1>2 DEF Rest
<1>4. /\ Results(asked) \in Seq(Nat) /\ Len(Results(asked)) = Last
      /\ \A j \in 1 .. Last : Results(asked)[j] = Answer(j)
  <2>1. CASE prog = "sort"
    <3>1. Results(asked) = Upto(Last)
      BY <2>1, ResultsFacts
    <3>2. /\ Upto(Last) \in Seq(Nat) /\ Len(Upto(Last)) = Last
          /\ \A j \in 1 .. Last : Upto(Last)[j] = j
      BY <1>2, UptoFacts DEF Upto
    <3>3. \A j \in 1 .. Last : Answer(j) = j
      BY <1>2, <2>1 DEF Answer
    <3>. QED  BY <3>1, <3>2, <3>3
  <2>2. CASE prog = "fact"
    <3>1. Results(asked) = <<Answer(1)>> /\ Last = 1 /\ Answer(1) \in Nat
      BY <2>2, <1>2, ResultsFacts
    <3>. QED  BY <3>1
  <2>. QED  BY <1>1, <2>1, <2>2
<1>5. a \in Seq(Nat) /\ Len(a) = Last + 1
  BY <1>1, <1>4
<1>6. \A j \in 1 .. Last + 1 : a[j] = Answer(j)
  <2>. SUFFICES ASSUME NEW j \in 1 .. Last + 1  PROVE a[j] = Answer(j)
    OBVIOUS
  <2>1. CASE j = Last + 1
    <3>1. \A s \in Seq(Nat), x \in Nat : Append(s, x)[Len(s) + 1] = x
      OBVIOUS
    <3>. QED  BY <2>1, <3>1, <1>1, <1>2, <1>4
  <2>2. CASE j # Last + 1
    <3>1. j \in 1 .. Last
      BY <2>2, <1>2
    <3>. QED  BY <3>1, <1>1, <1>2, <1>4
  <2>. QED  BY <2>1, <2>2
<1>. HIDE DEF a
<1>7. a = Rest(0)
  BY <1>2, <1>3, <1>5, <1>6, SeqEqual
<1>. QED  BY <1>7 DEF a

RestIsAll == Rest(0) = Append(Results(asked), took)

LEMMA RestIsZero == MeasureTypeOK => RestIsAll
BY RestZero DEF RestIsAll

LEMMA WorkInv == MeasureInv /\ Work => MeasureInv'
<1>. SUFFICES ASSUME MeasureInv, Work  PROVE MeasureInv'
  OBVIOUS
<1>1. PICK t \in Times : took' = t /\ queue' = Append(Results(ToInt(acc)), t)
  BY DEF Work
<1>2. /\ mpc = "work" /\ mpc' = "wait"
      /\ UNCHANGED <<uartVars, prog, acc, out, host, asked, got, cnt, tests>>
      /\ UNCHANGED <<wire_in, rx, tx, tsr, due, inbox, overrun>>
  BY DEF Work, hostVars, uartVars
<1>3. /\ MeasureTypeOK /\ UartTypeOK /\ Kept /\ Phases /\ asked \in Ints
  BY SmallInts DEF MeasureInv, MeasureTypeOK
<1>4. /\ Requested /\ host = "results" /\ got = <<>> /\ due = <<>> /\ out = <<>>
      /\ acc = IntBytes(asked) /\ In = <<>>
  <2>1. Requested
    BY <1>2, <1>3, PhaseFacts
  <2>. QED  BY <1>2, <2>1 DEF Requested
<1>5. ToInt(acc) = asked
  BY <1>3, <1>4, IntBytesFacts
<1>6. UartTypeOK' /\ Kept'
  BY <1>2, <1>3 DEF UartTypeOK, Kept
<1>7. took' \in Ints
  BY <1>1, MeasureConstants
<1>8. Results(asked) \in Seq(Nat)
  <2>1. \A j \in Nat : Last \in Nat /\ Answer(j) \in Ints
    BY <1>3, AnswerFacts
  <2>2. CASE prog = "sort"
    BY <2>1, <2>2, <1>3, ResultsFacts, UptoFacts
  <2>3. CASE prog = "fact"
    <3>1. Results(asked) = <<Answer(1)>> /\ Answer(1) \in Nat
      BY <2>1, <2>3, <1>3, ResultsFacts DEF Ints
    <3>. QED  BY <3>1
  <2>. QED  BY <1>3, <2>2, <2>3 DEF MeasureTypeOK
<1>9. queue' = Append(Results(asked), took') /\ queue' \in Seq(Nat)
  <2>1. took' \in Nat
    BY <1>7 DEF Ints
  <2>. QED  BY <1>1, <1>5, <1>8, <2>1
<1>10. MeasureTypeOK'
  BY <1>2, <1>3, <1>6, <1>7, <1>9 DEF MeasureTypeOK
<1>11. RestIsAll'
  BY <1>10, RestIsZero, PTL
<1>12. queue' = Rest(0)'
  <2>1. Results(asked)' = Results(asked)
    BY <1>2 DEF Results
  <2>. QED  BY <1>9, <1>11, <2>1 DEF RestIsAll
<1>13. Last' \in Nat
  BY <1>10 DEF MeasureTypeOK, Last
<1>14. Answering(0)'
  <2>1. Heard(0)' = <<>>
    <3>1. ~(0 > Last') /\ Upto(0) = <<>>
      BY <1>13, UptoFacts
    <3>. QED  BY <3>1 DEF Heard
  <2>2. Unread(0)' = <<>>
    <3>1. ~(0 > Last')
      BY <1>13
    <3>. QED  BY <3>1 DEF Unread
  <2>3. In' = <<>>
    BY <1>2, <1>4 DEF In
  <2>4. inbox' = <<>> /\ tsr' = <<>>
    BY <1>2, <1>3, <1>4, LineEmpty
  <2>. QED  BY <1>2, <1>4, <1>12, <2>1, <2>2, <2>3, <2>4 DEF Answering
<1>15. Phases'
  <2>1. 0 \in Nat /\ 0 <= Last' + 1
    <3>1. \A m \in Nat : 0 \in Nat /\ 0 <= m + 1
      OBVIOUS
    <3>. QED  BY <1>13, <3>1
  <2>. QED  BY <1>14, <2>1 DEF Phases
<1>. QED  BY <1>6, <1>10, <1>15 DEF MeasureInv

\* What is sent next, and what that makes of what the host is to read.
LEMMA UnreadFacts ==
  ASSUME MeasureTypeOK, host = "results", NEW k \in Nat, k <= Last + 1
  PROVE  /\ Unread(k) \in Seq(Nat)
         /\ k <= Last => Len(Unread(k)) <= 4
         /\ prog = "sort" /\ k <= Last => Unread(k) = <<>>
         /\ k <= Last /\ ~(prog = "sort" /\ k < Last) =>
              Unread(k) \o IntBytes(Answer(k + 1)) = Unread(k + 1)
<1>1. /\ Last \in Nat /\ Last >= 1 /\ prog \in {"sort", "fact"}
      /\ \A j \in Nat : Answer(j) \in Ints
  BY AnswerFacts DEF MeasureTypeOK
<1>2. took \in Ints
  BY DEF MeasureTypeOK
<1>. DEFINE x == IntBytes(took)
            y == IntBytes(Answer(1))
<1>3. /\ x \in Seq(Nat) /\ Len(x) = 4 /\ y \in Seq(Nat) /\ Len(y) = 4
      /\ y \o x \in Seq(Nat) /\ <<>> \o x = x /\ <<>> \o y = y /\ <<>> \in Seq(Nat) /\ Len(<<>>) = 0
  <2>1. x \in Seq(Nat) /\ Len(x) = 4 /\ y \in Seq(Nat) /\ Len(y) = 4
    BY <1>1, <1>2, IntBytesFacts
  <2>. HIDE DEF x, y
  <2>. QED  BY <2>1
<1>4. ASSUME prog = "sort"
      PROVE  /\ k <= Last => Unread(k) = <<>>
             /\ k > Last => Unread(k) = x
             /\ k = Last => Unread(k + 1) = x /\ IntBytes(Answer(k + 1)) = x
  <2>1. (k <= Last => ~(k > Last)) /\ (k = Last => k + 1 > Last)
    BY <1>1
  <2>2. (k <= Last => Unread(k) = <<>>) /\ (k > Last => Unread(k) = x)
    BY <1>4, <2>1 DEF Unread
  <2>3. k = Last => Unread(k + 1) = x
    BY <1>4, <2>1 DEF Unread
  <2>4. k = Last => Answer(k + 1) = took
    BY <2>1 DEF Answer
  <2>. QED  BY <2>2, <2>3, <2>4
<1>5. ASSUME prog = "fact"
      PROVE  /\ Last = 1 /\ (k = 0 => Unread(k) = <<>>) /\ (k = 1 => Unread(k) = y)
             /\ (k = 2 => Unread(k) = y \o x)
             /\ k = 0 => Unread(k + 1) = y /\ IntBytes(Answer(k + 1)) = y
             /\ k = 1 => Unread(k + 1) = y \o x /\ IntBytes(Answer(k + 1)) = x
  <2>1. prog # "sort" /\ Last = 1
    BY <1>5 DEF Last
  <2>2. /\ k = 0 => Unread(k) = <<>>
        /\ k = 1 => Unread(k) = y
        /\ k = 2 => Unread(k) = y \o x
    BY <2>1 DEF Unread
  <2>3. /\ k = 0 => k + 1 = 1
        /\ k = 1 => k + 1 = 2 /\ k + 1 > Last
    BY <2>1
  <2>4. /\ k = 0 => Unread(k + 1) = y
        /\ k = 1 => Unread(k + 1) = y \o x
    BY <2>1, <2>3 DEF Unread
  <2>5. k = 1 => Answer(k + 1) = took
    BY <2>3 DEF Answer
  <2>. QED  BY <2>1, <2>2, <2>3, <2>4, <2>5
<1>. HIDE DEF x, y
<1>6. CASE prog = "sort"
  <2>1. k = Last + 1 \/ k = Last \/ k < Last
    BY <1>1
  <2>2. (k = Last + 1 => k > Last /\ ~(k <= Last)) /\ (k < Last => k <= Last) /\ (k = Last => k <= Last)
    BY <1>1
  <2>3. CASE k = Last + 1
    BY <1>3, <1>4, <1>6, <2>2, <2>3
  <2>4. CASE k = Last
    <3>1. ~(k < Last)
      BY <1>1, <2>4
    <3>. QED  BY <1>3, <1>4, <1>6, <2>2, <2>4, <3>1
  <2>5. CASE k < Last
    <3>1. Unread(k) = <<>>
      BY <1>4, <1>6, <2>2, <2>5
    <3>. QED  BY <1>3, <1>6, <2>5, <3>1
  <2>. QED  BY <2>1, <2>3, <2>4, <2>5
<1>7. CASE prog = "fact"
  <2>1. k = 0 \/ k = 1 \/ k = 2
    BY <1>5, <1>7
  <2>2. ~(2 <= Last) /\ 0 <= Last /\ 1 <= Last
    BY <1>5, <1>7
  <2>3. prog # "sort"
    BY <1>7
  <2>4. CASE k = 0
    <3>1. Unread(k) = <<>> /\ Unread(k + 1) = y /\ IntBytes(Answer(k + 1)) = y
      BY <1>5, <1>7, <2>4
    <3>2. Unread(k) \o IntBytes(Answer(k + 1)) = Unread(k + 1)
      BY <1>3, <3>1
    <3>3. Unread(k) \in Seq(Nat) /\ Len(Unread(k)) <= 4
      <4>1. <<>> \in Seq(Nat) /\ Len(<<>>) <= 4
        OBVIOUS
      <4>. QED  BY <3>1, <4>1, Zenon
    <3>. QED  BY <2>3, <3>2, <3>3
  <2>5. CASE k = 1
    <3>1. Unread(k) = y /\ Unread(k + 1) = y \o x /\ IntBytes(Answer(k + 1)) = x
      BY <1>5, <1>7, <2>5
    <3>2. Unread(k) \o IntBytes(Answer(k + 1)) = Unread(k + 1)
      BY <1>3, <3>1
    <3>3. Unread(k) \in Seq(Nat) /\ Len(Unread(k)) <= 4
      <4>1. Unread(k) \in Seq(Nat) /\ Len(Unread(k)) = 4
        BY <1>3, <3>1, Zenon
      <4>. QED  BY <4>1
    <3>. QED  BY <2>3, <3>2, <3>3
  <2>6. CASE k = 2
    BY <1>3, <1>5, <1>7, <2>2, <2>3, <2>6
  <2>. QED  BY <2>1, <2>4, <2>5, <2>6
<1>. QED  BY <1>1, <1>6, <1>7

LEMMA SendNextInv == MeasureInv /\ SendNext => MeasureInv'
<1>. SUFFICES ASSUME MeasureInv, SendNext  PROVE MeasureInv'
  OBVIOUS
<1>1. /\ mpc = "wait" /\ queue # <<>> /\ out' = IntBytes(Head(queue)) /\ mpc' = "send"
      /\ UNCHANGED <<prog, acc, queue, took, host, asked, got, cnt, tests>>
      /\ UNCHANGED <<wire_in, rx, tx, tsr, due, inbox, overrun>>
  BY DEF SendNext, hostVars, uartVars
<1>2. MeasureTypeOK /\ UartTypeOK /\ Kept /\ Phases
  BY DEF MeasureInv, MeasureTypeOK
<1>3. UartTypeOK' /\ Kept'
  BY <1>1, <1>2 DEF UartTypeOK, Kept
<1>4. PICK k \in Nat : k <= Last + 1 /\ Answering(k)
  BY <1>1, <1>2, PhaseFacts
<1>5. queue = Rest(k) /\ due = Unread(k) /\ out = <<>>
  BY <1>1, <1>4 DEF Answering
<1>6. k <= Last /\ Head(queue) = Answer(k + 1)
  <2>1. Last \in Nat /\ Len(Rest(k)) = Last + 1 - k /\ Rest(k) \in Seq(Nat)
    BY <1>2, <1>4, AnswerFacts, RestFacts
  <2>2. Len(Rest(k)) # 0
    BY <1>1, <1>5, <2>1
  <2>3. k <= Last
    BY <1>4, <2>1, <2>2
  <2>. QED  BY <1>2, <1>4, <1>5, <2>3, RestFacts
<1>7. out' = IntBytes(Answer(k + 1)) /\ out' \in Seq(Nat)
  <2>1. k + 1 \in Nat
    OBVIOUS
  <2>2. Answer(k + 1) \in Ints
    BY <1>2, <2>1, AnswerFacts
  <2>. QED  BY <1>1, <1>6, <2>2, IntBytesFacts
<1>8. MeasureTypeOK'
  BY <1>1, <1>2, <1>3, <1>7 DEF MeasureTypeOK
<1>9. Answering(k)'
  <2>1. /\ Last' = Last /\ Rest(k)' = Rest(k) /\ Heard(k)' = Heard(k)
        /\ Unread(k)' = Unread(k)
    BY <1>1, AnswerStays
  <2>2. Answer(k + 1)' = Answer(k + 1)
    BY <1>1 DEF Answer, Last
  <2>3. IntBytes(Answer(k + 1))' = IntBytes(Answer(k + 1))
    BY <2>2 DEF IntBytes
  <2>4. In' = In
    BY <1>1 DEF In
  <2>5. due' \o out' = Unread(k)' \o IntBytes(Answer(k + 1))'
    BY <1>1, <1>5, <1>7, <2>1, <2>3
  <2>6. /\ host' = "results" /\ got' = Heard(k)' /\ queue' = Rest(k)' /\ In' = <<>>
        /\ inbox' = <<>> /\ tsr' = <<>>
    BY <1>1, <1>4, <2>1, <2>4 DEF Answering
  <2>. QED  BY <1>1, <1>6, <2>1, <2>5, <2>6 DEF Answering
<1>10. Phases'
  <2>1. Last' = Last
    BY <1>1, AnswerStays
  <2>. QED  BY <1>4, <1>9, <2>1 DEF Phases
<1>. QED  BY <1>3, <1>8, <1>10 DEF MeasureInv

LEMMA SendIntInv == MeasureInv /\ send_int => MeasureInv'
<1>. SUFFICES ASSUME MeasureInv, send_int  PROVE MeasureInv'
  OBVIOUS
<1>1. /\ mpc = "send" /\ out # <<>> /\ uart_put(Head(out)) /\ out' = Tail(out)
      /\ UNCHANGED <<prog, mpc, acc, queue, took, host, asked, got, cnt, tests>>
  BY DEF send_int, hostVars
<1>2. /\ MeasureTypeOK /\ UartTypeOK /\ Kept /\ Phases
      /\ out \in Seq(Nat) /\ due \in Seq(Nat)
  BY DEF MeasureInv, MeasureTypeOK, UartTypeOK
<1>3. PICK k \in Nat : k <= Last + 1 /\ Answering(k)
  BY <1>1, <1>2, PhaseFacts
<1>4. /\ host = "results" /\ k <= Last /\ due \o out = Unread(k) \o IntBytes(Answer(k + 1))
      /\ inbox = <<>> /\ tsr = <<>> /\ In = <<>>
  BY <1>1, <1>3 DEF Answering
<1>5. Head(out) \in Nat /\ out' \in Seq(Nat) /\ out = <<Head(out)>> \o out' /\ Len(out) >= 1
  BY <1>1, <1>2, TailFacts
<1>6. Len(tx) < FifoDepth
  <2>1. tx = due
    BY <1>2, <1>4, LineStands
  <2>2. Answer(k + 1) \in Ints
    <3>1. k + 1 \in Nat
      OBVIOUS
    <3>. QED  BY <1>2, <3>1, AnswerFacts
  <2>3. IntBytes(Answer(k + 1)) \in Seq(Nat) /\ Len(IntBytes(Answer(k + 1))) = 4
    BY <2>2, IntBytesFacts
  <2>4. Unread(k) \in Seq(Nat) /\ Len(Unread(k)) <= 4
    BY <1>2, <1>3, <1>4, UnreadFacts
  <2>5. Len(due \o out) = Len(due) + Len(out) /\ Len(due) \in Nat /\ Len(out) \in Nat
    BY <1>2, LenConcat
  <2>6. Len(Unread(k) \o IntBytes(Answer(k + 1))) = Len(Unread(k)) + 4 /\ Len(Unread(k)) \in Nat
    BY <2>3, <2>4, LenConcat
  <2>7. Len(due) <= 7
    BY <1>4, <1>5, <2>4, <2>5, <2>6
  <2>. QED  BY <2>1, <2>5, <2>7, MeasureConstants
<1>7. UartTypeOK' /\ Kept' /\ wire_in' = wire_in /\ rx' = rx
  BY <1>1, <1>2, <1>5, <1>6, PutKeeps
<1>8. due' = Append(due, Head(out)) /\ inbox' = inbox /\ tsr' = tsr
  BY <1>1 DEF uart_put
<1>9. due' \o out' = due \o out
  <2>. DEFINE u == out'
              h == Head(out)
  <2>1. u \in Seq(Nat) /\ h \in Nat /\ out = <<h>> \o u
    BY <1>5
  <2>. HIDE DEF u, h
  <2>2. Append(due, h) \o u = due \o out
    BY <1>2, <2>1, AppendFront
  <2>. QED  BY <1>8, <2>2 DEF u, h
<1>10. MeasureTypeOK'
  BY <1>1, <1>2, <1>5, <1>7 DEF MeasureTypeOK
<1>11. Answering(k)'
  <2>1. /\ Last' = Last /\ Rest(k)' = Rest(k) /\ Heard(k)' = Heard(k)
        /\ Unread(k)' = Unread(k)
    BY <1>1, AnswerStays
  <2>2. Answer(k + 1)' = Answer(k + 1)
    BY <1>1 DEF Answer, Last
  <2>3. IntBytes(Answer(k + 1))' = IntBytes(Answer(k + 1))
    BY <2>2 DEF IntBytes
  <2>4. In' = In
    BY <1>7 DEF In
  <2>5. due' \o out' = Unread(k)' \o IntBytes(Answer(k + 1))'
    BY <1>4, <1>9, <2>1, <2>3
  <2>6. /\ host' = "results" /\ got' = Heard(k)' /\ queue' = Rest(k)' /\ In' = <<>>
        /\ inbox' = <<>> /\ tsr' = <<>>
    BY <1>1, <1>3, <1>8, <2>1, <2>4 DEF Answering
  <2>. QED  BY <1>1, <1>4, <2>1, <2>5, <2>6 DEF Answering
<1>12. Phases'
  <2>1. Last' = Last
    BY <1>1, AnswerStays
  <2>. QED  BY <1>3, <1>11, <2>1 DEF Phases
<1>. QED  BY <1>7, <1>10, <1>12 DEF MeasureInv

LEMMA SentInv == MeasureInv /\ Sent => MeasureInv'
<1>. SUFFICES ASSUME MeasureInv, Sent  PROVE MeasureInv'
  OBVIOUS
<1>1. /\ mpc = "send" /\ out = <<>> /\ mpc' = IF Acked THEN "ack" ELSE "wait"
      /\ queue' = Tail(queue)
      /\ UNCHANGED <<prog, acc, out, took, host, asked, got, cnt, tests>>
      /\ UNCHANGED <<wire_in, rx, tx, tsr, due, inbox, overrun>>
  BY DEF Sent, hostVars, uartVars
<1>2. MeasureTypeOK /\ UartTypeOK /\ Kept /\ Phases /\ due \in Seq(Nat)
  BY DEF MeasureInv, MeasureTypeOK, UartTypeOK
<1>3. UartTypeOK' /\ Kept'
  BY <1>1, <1>2 DEF UartTypeOK, Kept
<1>4. PICK k \in Nat : k <= Last + 1 /\ Answering(k)
  BY <1>1, <1>2, PhaseFacts
<1>5. /\ host = "results" /\ k <= Last /\ due = Unread(k) \o IntBytes(Answer(k + 1))
      /\ inbox = <<>> /\ tsr = <<>> /\ In = <<>> /\ queue = Rest(k) /\ got = Heard(k)
  <2>1. due \o <<>> = due
    BY <1>2
  <2>. QED  BY <1>1, <1>4, <2>1 DEF Answering
<1>6. /\ Last \in Nat /\ Last >= 1 /\ Answer(k + 1) \in Ints /\ k + 1 \in Nat
  <2>1. k + 1 \in Nat
    OBVIOUS
  <2>. QED  BY <1>2, <1>5, <2>1, AnswerFacts
<1>7. queue' = Rest(k + 1) /\ Len(queue) = Last + 1 - k
  BY <1>1, <1>2, <1>4, <1>5, RestFacts
<1>8. queue' \in Seq(Nat)
  <2>1. k + 1 <= Last + 1
    BY <1>5, <1>6
  <2>. QED  BY <1>2, <1>6, <1>7, <2>1, RestFacts
<1>9. MeasureTypeOK'
  BY <1>1, <1>2, <1>3, <1>8 DEF MeasureTypeOK
<1>. DEFINE n == k + 1
<1>10. /\ n \in Nat \ {0} /\ n = k + 1 /\ k = n - 1
       /\ Last' = Last /\ Rest(n)' = Rest(n) /\ Heard(n)' = Heard(n) /\ Unread(n)' = Unread(n)
  <2>1. n \in Nat \ {0} /\ k = n - 1
    OBVIOUS
  <2>2. UNCHANGED <<prog, asked, took>>
    BY <1>1
  <2>. HIDE DEF n
  <2>3. Last' = Last /\ Rest(n)' = Rest(n) /\ Heard(n)' = Heard(n) /\ Unread(n)' = Unread(n)
    BY <2>2, AnswerStays
  <2>. QED  BY <2>1, <2>3 DEF n
<1>. HIDE DEF n
<1>11. In' = <<>>
  BY <1>1, <1>5 DEF In
<1>12. Acked <=> prog = "sort" /\ k < Last
  BY <1>6, <1>7 DEF Acked
<1>13. CASE Acked
  <2>1. prog = "sort" /\ k < Last /\ n <= Last
    BY <1>6, <1>10, <1>12, <1>13
  <2>2. due = IntBytes(n)
    <3>1. Unread(k) = <<>>
      BY <1>2, <1>4, <1>5, <2>1, UnreadFacts
    <3>2. Answer(n) = n /\ n = k + 1
      <4>1. ~(n > Last)
        BY <1>6, <1>10, <2>1
      <4>. QED  BY <4>1, <2>1, <1>10 DEF Answer
    <3>3. IntBytes(n) \in Seq(Nat)
      BY <1>6, <1>10, <3>2, IntBytesFacts
    <3>4. <<>> \o IntBytes(n) = IntBytes(n)
      BY <3>3
    <3>. QED  BY <1>5, <3>1, <3>2, <3>4
  <2>3. got = Upto(n - 1)
    <3>1. ~(k > Last)
      BY <1>6, <2>1
    <3>2. Heard(k) = Upto(k)
      BY <2>1, <3>1 DEF Heard
    <3>. QED  BY <1>5, <1>10, <3>2
  <2>4. IntBytes(n)' = IntBytes(n) /\ Upto(n - 1)' = Upto(n - 1)
    BY DEF IntBytes, Upto
  <2>5. mpc' = "ack"
    BY <1>1, <1>13
  <2>6. Acknowledging(n)'
    BY <1>1, <1>5, <1>7, <1>10, <1>11, <2>1, <2>2, <2>3, <2>4, <2>5 DEF Acknowledging
  <2>7. Phases'
    BY <1>10, <2>1, <2>6 DEF Phases
  <2>. QED  BY <1>3, <1>9, <2>7 DEF MeasureInv
<1>14. CASE ~Acked
  <2>1. due = Unread(n)
    BY <1>2, <1>4, <1>5, <1>10, <1>12, <1>14, UnreadFacts
  <2>2. Heard(n) = Heard(k)
    <3>1. CASE prog = "sort"
      <4>1. k = Last /\ n > Last /\ ~(k > Last)
        BY <1>5, <1>6, <1>10, <1>12, <1>14, <3>1
      <4>. QED  BY <3>1, <4>1 DEF Heard
    <3>2. CASE prog # "sort"
      BY <3>2 DEF Heard
    <3>. QED  BY <3>1, <3>2
  <2>3. mpc' = "wait"
    BY <1>1, <1>14
  <2>4. Answering(n)'
    BY <1>1, <1>5, <1>7, <1>10, <1>11, <2>1, <2>2, <2>3 DEF Answering
  <2>5. n <= Last' + 1 /\ n \in Nat
    BY <1>5, <1>6, <1>10
  <2>6. Phases'
    BY <2>4, <2>5 DEF Phases
  <2>. QED  BY <1>3, <1>9, <2>6 DEF MeasureInv
<1>. QED  BY <1>13, <1>14

LEMMA AckInv == MeasureInv /\ Ack => MeasureInv'
<1>. SUFFICES ASSUME MeasureInv, Ack  PROVE MeasureInv'
  OBVIOUS
<1>1. /\ mpc = "ack" /\ uart_read_blocking /\ mpc' = "wait"
      /\ UNCHANGED <<prog, acc, queue, out, took, host, asked, got, cnt, tests>>
      /\ UNCHANGED <<tsr, due, inbox>>
  BY DEF Ack, hostVars, uart_read_blocking
<1>2. MeasureTypeOK /\ UartTypeOK /\ Kept /\ Phases
  BY DEF MeasureInv, MeasureTypeOK
<1>3. UartTypeOK' /\ Kept'
  BY <1>1, <1>2, ReadKeeps
<1>4. In' \in Seq(Nat) /\ Len(In) = 1 + Len(In') /\ In # <<>>
  BY <1>1, <1>2, ReadIn
<1>5. PICK k \in Nat \ {0} : k <= Last /\ Acknowledging(k)
  BY <1>1, <1>2, PhaseFacts
<1>6. /\ prog = "sort" /\ host = "results" /\ queue = Rest(k) /\ out = <<>>
      /\ got = Upto(k) /\ due = <<>> /\ In = <<0>>
  BY <1>4, <1>5 DEF Acknowledging
<1>7. In' = <<>>
  <2>. DEFINE v == In'
  <2>1. v \in Seq(Nat) /\ 1 = 1 + Len(v)
    BY <1>4, <1>6
  <2>. HIDE DEF v
  <2>2. v = <<>>
    BY <2>1
  <2>. QED  BY <2>2 DEF v
<1>8. /\ Last' = Last /\ Rest(k)' = Rest(k) /\ Heard(k)' = Heard(k) /\ Unread(k)' = Unread(k)
  BY <1>1, AnswerStays
<1>9. Last \in Nat /\ ~(k > Last) /\ k <= Last + 1
  <2>1. Last \in Nat
    BY <1>2, AnswerFacts
  <2>. QED  BY <1>5, <2>1
<1>10. Heard(k) = Upto(k) /\ Unread(k) = <<>>
  BY <1>6, <1>9 DEF Heard, Unread
<1>11. inbox = <<>> /\ tsr = <<>>
  BY <1>2, <1>6, LineEmpty
<1>12. Answering(k)'
  BY <1>1, <1>6, <1>7, <1>8, <1>10, <1>11 DEF Answering
<1>13. Phases'
  BY <1>8, <1>9, <1>12 DEF Phases
<1>14. MeasureTypeOK'
  BY <1>1, <1>2, <1>3 DEF MeasureTypeOK
<1>. QED  BY <1>3, <1>13, <1>14 DEF MeasureInv

LEMMA AgainInv == MeasureInv /\ Again => MeasureInv'
<1>. SUFFICES ASSUME MeasureInv, Again  PROVE MeasureInv'
  OBVIOUS
<1>1. /\ mpc = "wait" /\ queue = <<>> /\ mpc' = "en"
      /\ UNCHANGED <<prog, acc, queue, out, took, host, asked, got, cnt, tests>>
      /\ UNCHANGED <<wire_in, rx, tx, tsr, due, inbox, overrun>>
  BY DEF Again, hostVars, uartVars
<1>2. MeasureTypeOK /\ UartTypeOK /\ Kept /\ Phases /\ prog \in {"sort", "fact"}
  BY DEF MeasureInv, MeasureTypeOK
<1>3. UartTypeOK' /\ Kept'
  BY <1>1, <1>2 DEF UartTypeOK, Kept
<1>4. PICK k \in Nat : k <= Last + 1 /\ Answering(k)
  BY <1>1, <1>2, PhaseFacts
<1>5. /\ host = "results" /\ due = Unread(k) /\ In = <<>> /\ queue = Rest(k) /\ got = Heard(k)
      /\ out = <<>>
  BY <1>1, <1>4 DEF Answering
<1>6. k = Last + 1 /\ k > Last /\ Last \in Nat
  <2>1. k = Last + 1
    BY <1>1, <1>2, <1>4, <1>5, RestFacts
  <2>2. Last \in Nat
    BY <1>2, AnswerFacts
  <2>. QED  BY <2>1, <2>2
<1>7. /\ Answer(1)' = Answer(1) /\ IntBytes(took)' = IntBytes(took)
      /\ Results(asked)' = Results(asked)
  BY <1>1, AnswerStays
<1>8. IntBytes(Answer(1))' = IntBytes(Answer(1))
  BY <1>7 DEF IntBytes
<1>9. In' = <<>>
  BY <1>1, <1>5 DEF In
<1>10. Ending'
  <2>1. CASE prog = "sort"
    <3>1. Heard(k) = Upto(Last) /\ Unread(k) = IntBytes(took)
      BY <1>6, <2>1 DEF Heard, Unread
    <3>2. Results(asked) = Upto(Last)
      BY <1>2, <2>1, ResultsFacts
    <3>. QED  BY <1>1, <1>5, <1>7, <1>9, <3>1, <3>2 DEF Ending
  <2>2. CASE prog = "fact"
    <3>1. Last = 1
      BY <1>2, <2>2, ResultsFacts
    <3>2. k = 2 /\ k # 0 /\ k # 1 /\ prog # "sort"
      BY <1>6, <2>2, <3>1
    <3>3. Heard(k) = <<>> /\ Unread(k) = IntBytes(Answer(1)) \o IntBytes(took)
      BY <3>2 DEF Heard, Unread
    <3>. QED  BY <1>1, <1>5, <1>7, <1>8, <1>9, <2>2, <3>3 DEF Ending
  <2>. QED  BY <1>2, <2>1, <2>2
<1>11. MeasureTypeOK'
  BY <1>1, <1>2, <1>3 DEF MeasureTypeOK
<1>. QED  BY <1>3, <1>10, <1>11 DEF MeasureInv, Phases

LEMMA StartTestInv ==
  ASSUME MeasureInv, NEW n \in 1 .. MaxLen, StartTest(n)
  PROVE  MeasureInv'
<1>. DEFINE bytes == <<tests % 2>> \o IntBytes(n)
<1>1. /\ host = "idle" /\ HostWrite(bytes) /\ host' = "results" /\ asked' = n /\ got' = <<>>
      /\ tests' = tests + 1
      /\ UNCHANGED <<prog, mpc, acc, queue, out, took, cnt>>
  BY DEF StartTest, boardVars
<1>2. MeasureTypeOK /\ UartTypeOK /\ Kept /\ Phases
  BY DEF MeasureInv, MeasureTypeOK
<1>3. mpc = "en" /\ queue = <<>> /\ out = <<>> /\ In = <<>> /\ due = <<>>
  <2>1. Resting
    BY <1>1, <1>2, PhaseFacts
  <2>. QED  BY <2>1 DEF Resting
<1>4. n \in Nat /\ n >= 1 /\ n < 65536 /\ n \in Ints
  BY MeasureConstants, SmallInts
<1>5. IntBytes(n) \in Seq(Nat)
  BY <1>4, IntBytesFacts
<1>6. PICK e \in Nat : bytes = <<e>> \o IntBytes(n)
  <2>1. tests % 2 \in Nat
    BY <1>2 DEF MeasureTypeOK
  <2>. QED  BY <2>1
<1>7. bytes \in Seq(Nat)
  <2>1. <<e>> \in Seq(Nat)
    OBVIOUS
  <2>. QED  BY <1>5, <1>6, <2>1
<1>. HIDE DEF bytes
<1>8. UartTypeOK' /\ Kept' /\ wire_in' = wire_in \o bytes /\ rx' = rx
  BY <1>1, <1>2, <1>7, HostWriteKeeps
<1>9. In' = bytes
  <2>1. rx = <<>> /\ wire_in = <<>>
    BY <1>2, <1>3, EmptyIn
  <2>2. <<>> \o bytes = bytes
    BY <1>7
  <2>. QED  BY <1>8, <2>1, <2>2 DEF In
<1>10. IntBytes(asked)' = IntBytes(n)
  BY <1>1 DEF IntBytes
<1>11. due' = due
  BY <1>1 DEF HostWrite
<1>12. Requested'
  BY <1>1, <1>3, <1>6, <1>9, <1>10, <1>11 DEF Requested
<1>13. MeasureTypeOK'
  BY <1>1, <1>2, <1>4, <1>8 DEF MeasureTypeOK
<1>. QED  BY <1>8, <1>12, <1>13 DEF MeasureInv, Phases

\* A number the host reads is the one that was sent first.
LEMMA HostReads ==
  ASSUME UartTypeOK, Kept, Len(inbox) >= 4, NEW a \in Ints, NEW t \in Seq(Nat),
         due = IntBytes(a) \o t,
         inbox' = SubSeq(inbox, 5, Len(inbox)), due' = SubSeq(due, 5, Len(due)),
         UNCHANGED <<rx, tx, tsr, overrun>>, wire_in' \in Seq(Nat)
  PROVE  UartTypeOK' /\ Kept' /\ ToInt(inbox) = a /\ due' = t
<1>1. 4 \in Nat /\ 4 + 1 = 5
  OBVIOUS
<1>2. inbox' = SubSeq(inbox, 4 + 1, Len(inbox)) /\ due' = SubSeq(due, 4 + 1, Len(due))
  BY <1>1
<1>3. UartTypeOK' /\ Kept'
  BY <1>1, <1>2, HostTakes
<1>4. PICK r \in Seq(Nat) : due = inbox \o r
  BY DueLong
<1>5. inbox \in Seq(Nat) /\ due \in Seq(Nat)
  BY DEF UartTypeOK
<1>6. ToInt(inbox) = a /\ SubSeq(due, 5, Len(due)) = t
  <2>1. Len(inbox) >= 4 /\ due = IntBytes(a) \o t /\ due = inbox \o r
    BY <1>4
  <2>2. ToInt(inbox) = a
    BY <1>5, <2>1, FirstInt, Zenon
  <2>3. SubSeq(due, 5, Len(due)) = t
    BY <1>5, <2>1, DropInt
  <2>. QED  BY <2>2, <2>3
<1>. QED  BY <1>3, <1>6

LEMMA HostResultInv == MeasureInv /\ HostResult => MeasureInv'
<1>. SUFFICES ASSUME MeasureInv, HostResult  PROVE MeasureInv'
  OBVIOUS
<1>1. /\ host = "results" /\ ~Complete /\ Len(inbox) >= 4
      /\ inbox' = SubSeq(inbox, 5, Len(inbox)) /\ due' = SubSeq(due, 5, Len(due))
      /\ wire_in' = IF prog = "sort" THEN Append(wire_in, 0) ELSE wire_in
      /\ got' = Append(got, ToInt(inbox))
      /\ UNCHANGED <<rx, tx, tsr, overrun, prog, mpc, acc, queue, out, took, host, asked, cnt, tests>>
  BY DEF HostResult, boardVars
<1>2. /\ MeasureTypeOK /\ UartTypeOK /\ Kept /\ Phases /\ wire_in \in Seq(Nat)
      /\ prog \in {"sort", "fact"} /\ took \in Ints /\ inbox \in Seq(Nat)
  BY DEF MeasureInv, MeasureTypeOK, UartTypeOK
<1>3. due # <<>> /\ inbox # <<>>
  <2>1. Len(due) >= 4 /\ Len(due) \in Nat
    BY <1>1, <1>2, DueLong
  <2>. QED  BY <2>1, <1>1
<1>4. wire_in' \in Seq(Nat)
  BY <1>1, <1>2
<1>5. /\ \A j \in Nat : Last \in Nat /\ Answer(j) \in Ints
      /\ 1 \in Nat
  BY <1>2, AnswerFacts
<1>6. /\ UNCHANGED <<prog, asked, took>> /\ Last' = Last /\ Results(asked)' = Results(asked)
      /\ IntBytes(took)' = IntBytes(took)
  BY <1>1, AnswerStays
<1>7. CASE \E k \in Nat \ {0} : k <= Last /\ Acknowledging(k)
  <2>1. PICK k \in Nat \ {0} : k <= Last /\ Acknowledging(k)
    BY <1>7
  <2>2. /\ prog = "sort" /\ mpc = "ack" /\ queue = Rest(k) /\ out = <<>>
        /\ got = Upto(k - 1) /\ due = IntBytes(k) /\ In = <<>>
    BY <1>3, <2>1 DEF Acknowledging
  <2>3. k \in Ints
    <3>1. Last < 65536 /\ Last \in Nat
      BY <1>2, <2>1, AnswerFacts
    <3>. QED  BY <2>1, <3>1, SmallInts
  <2>4. IntBytes(k) \in Seq(Nat) /\ <<>> \in Seq(Nat)
    BY <2>3, IntBytesFacts
  <2>5. due = IntBytes(k) \o <<>>
    BY <2>2, <2>4
  <2>6. UartTypeOK' /\ Kept' /\ ToInt(inbox) = k /\ due' = <<>>
    BY <1>1, <1>2, <1>4, <2>3, <2>4, <2>5, HostReads
  <2>7. got' = Upto(k)
    <3>1. k - 1 \in Nat /\ (k - 1) + 1 = k
      BY <2>1
    <3>2. Append(Upto(k - 1), k) = Upto(k)
      BY <3>1, UptoFacts
    <3>. QED  BY <1>1, <2>2, <2>6, <3>2
  <2>8. In' = <<0>>
    <3>1. rx = <<>> /\ wire_in = <<>>
      BY <1>2, <2>2, EmptyIn
    <3>2. rx' = <<>> /\ wire_in' = <<0>>
      BY <1>1, <2>2, <3>1
    <3>. QED  BY <3>2 DEF In
  <2>9. Rest(k)' = Rest(k) /\ Upto(k)' = Upto(k)
    BY <1>6, AnswerStays DEF Upto
  <2>10. Acknowledging(k)'
    BY <1>1, <2>2, <2>6, <2>7, <2>8, <2>9 DEF Acknowledging
  <2>11. Phases'
    BY <1>6, <2>1, <2>10 DEF Phases
  <2>12. MeasureTypeOK'
    BY <1>1, <1>2, <2>6 DEF MeasureTypeOK
  <2>. QED  BY <2>6, <2>11, <2>12 DEF MeasureInv
<1>8. CASE Ending
  <2>1. got # Results(asked)
    BY <1>1 DEF Complete
  <2>2. /\ prog = "fact" /\ mpc = "en" /\ queue = <<>> /\ out = <<>> /\ In = <<>>
        /\ got = <<>> /\ due = IntBytes(Answer(1)) \o IntBytes(took)
    BY <1>8, <2>1 DEF Ending
  <2>3. IntBytes(took) \in Seq(Nat) /\ Answer(1) \in Ints
    BY <1>2, <1>5, IntBytesFacts
  <2>4. UartTypeOK' /\ Kept' /\ ToInt(inbox) = Answer(1) /\ due' = IntBytes(took)
    BY <1>1, <1>2, <1>4, <2>2, <2>3, HostReads
  <2>5. got' = Results(asked)
    <3>1. Results(asked) = <<Answer(1)>>
      BY <1>2, <2>2, ResultsFacts
    <3>. QED  BY <1>1, <2>2, <2>4, <3>1
  <2>6. In' = <<>>
    <3>1. rx' = rx /\ wire_in' = wire_in
      BY <1>1, <2>2
    <3>. QED  BY <2>2, <3>1 DEF In
  <2>7. Ending'
    BY <1>1, <1>6, <2>2, <2>4, <2>5, <2>6 DEF Ending
  <2>8. MeasureTypeOK'
    BY <1>1, <1>2, <2>4 DEF MeasureTypeOK
  <2>. QED  BY <2>4, <2>7, <2>8 DEF MeasureInv, Phases
<1>. QED  BY <1>1, <1>2, <1>3, <1>7, <1>8 DEF Phases, Resting, Requested, Answering

LEMMA HostTimeInv == MeasureInv /\ HostTime => MeasureInv'
<1>. SUFFICES ASSUME MeasureInv, HostTime  PROVE MeasureInv'
  OBVIOUS
<1>1. /\ host = "results" /\ Complete /\ Len(inbox) >= 4
      /\ inbox' = SubSeq(inbox, 5, Len(inbox)) /\ due' = SubSeq(due, 5, Len(due))
      /\ cnt' = ToInt(inbox) /\ host' = "idle"
      /\ UNCHANGED <<wire_in, rx, tx, tsr, overrun>>
      /\ UNCHANGED <<prog, mpc, acc, queue, out, took, asked, got, tests>>
  <2>1. 4 + 1 = 5
    OBVIOUS
  <2>. QED  BY <2>1 DEF HostTime, HostRead, boardVars
<1>2. /\ MeasureTypeOK /\ UartTypeOK /\ Kept /\ Phases /\ wire_in \in Seq(Nat)
      /\ prog \in {"sort", "fact"} /\ took \in Ints /\ inbox \in Seq(Nat)
  BY DEF MeasureInv, MeasureTypeOK, UartTypeOK
<1>3. due # <<>> /\ inbox # <<>>
  <2>1. Len(due) >= 4 /\ Len(due) \in Nat
    BY <1>1, <1>2, DueLong
  <2>. QED  BY <2>1, <1>1
<1>4. ~\E k \in Nat \ {0} : k <= Last /\ Acknowledging(k)
  <2>. SUFFICES ASSUME NEW k \in Nat \ {0}, k <= Last, Acknowledging(k)  PROVE FALSE
    OBVIOUS
  <2>1. prog = "sort" /\ got = Upto(k - 1)
    BY <1>3 DEF Acknowledging
  <2>2. Len(Results(asked)) = Last /\ Last \in Nat
    BY <1>2, <2>1, ResultsFacts, AnswerFacts
  <2>3. k - 1 \in Nat /\ Len(Upto(k - 1)) = k - 1
    <3>1. k - 1 \in Nat
      OBVIOUS
    <3>. QED  BY <3>1, UptoFacts
  <2>. QED  BY <1>1, <2>1, <2>2, <2>3 DEF Complete
<1>5. Ending
  BY <1>1, <1>2, <1>3, <1>4 DEF Phases, Resting, Requested, Answering
<1>6. /\ mpc = "en" /\ queue = <<>> /\ out = <<>> /\ In = <<>>
      /\ got = Results(asked) /\ due = IntBytes(took)
  <2>1. ~(prog = "fact" /\ got = <<>>)
    <3>. SUFFICES ASSUME prog = "fact", got = <<>>  PROVE FALSE
      OBVIOUS
    <3>1. Len(Results(asked)) = 1
      BY <1>2, ResultsFacts
    <3>2. Len(got) = 0
      OBVIOUS
    <3>. QED  BY <1>1, <3>1, <3>2 DEF Complete
  <2>. QED  BY <1>5, <2>1 DEF Ending
<1>7. IntBytes(took) \in Seq(Nat) /\ <<>> \in Seq(Nat)
  BY <1>2, IntBytesFacts
<1>8. due = IntBytes(took) \o <<>> /\ wire_in' \in Seq(Nat)
  BY <1>1, <1>2, <1>6, <1>7
<1>9. UartTypeOK' /\ Kept' /\ ToInt(inbox) = took /\ due' = <<>>
  BY <1>1, <1>2, <1>7, <1>8, HostReads
<1>10. Results(asked)' = Results(asked) /\ In' = In
  BY <1>1 DEF Results, In
<1>11. Resting'
  BY <1>1, <1>6, <1>9, <1>10 DEF Resting
<1>12. MeasureTypeOK'
  BY <1>1, <1>2, <1>9 DEF MeasureTypeOK
<1>. QED  BY <1>9, <1>11, <1>12 DEF MeasureInv, Phases

\* Time passes only where the program looks at its receive FIFO, or while
\* nothing is on its way.
LEMMA MeasureTickInv == MeasureInv /\ MeasureTick => MeasureInv'
<1>. SUFFICES ASSUME MeasureInv, MeasureTick  PROVE MeasureInv'
  OBVIOUS
<1>1. /\ Tick /\ due' = due
      /\ UNCHANGED <<prog, mpc, acc, queue, out, took, host, asked, got, cnt, tests>>
  BY DEF MeasureTick, Tick, boardVars, hostVars
<1>2. /\ MeasureTypeOK /\ UartTypeOK /\ Kept /\ Phases
      /\ rx \in Seq(Nat) /\ wire_in \in Seq(Nat)
  BY DEF MeasureInv, MeasureTypeOK, UartTypeOK
<1>3. mpc \notin {"wait", "send"}
  <2>. SUFFICES ASSUME mpc \in {"wait", "send"}  PROVE FALSE
    OBVIOUS
  <2>1. mpc = "wait" /\ Acked /\ ~RoomToSend
    BY DEF MeasureTick
  <2>2. PICK k \in Nat : k <= Last + 1 /\ Answering(k)
    BY <1>2, <2>1, PhaseFacts
  <2>3. /\ host = "results" /\ queue = Rest(k) /\ due = Unread(k) /\ inbox = <<>> /\ tsr = <<>>
    BY <2>1, <2>2 DEF Answering
  <2>4. prog = "sort" /\ Len(Rest(k)) > 1
    BY <2>1, <2>3 DEF Acked
  <2>5. k <= Last
    <3>1. Len(Rest(k)) = Last + 1 - k /\ Last \in Nat
      BY <1>2, <2>2, RestFacts, AnswerFacts
    <3>. QED  BY <2>4, <3>1
  <2>6. Unread(k) = <<>>
    BY <1>2, <2>2, <2>3, <2>4, <2>5, UnreadFacts
  <2>7. tx = <<>>
    BY <1>2, <2>3, <2>6, LineStands
  <2>. QED  BY <2>1, <2>7 DEF RoomToSend
<1>4. wire_in = <<>> \/ Len(rx) < FifoDepth
  <2>1. CASE mpc \in {"en", "number", "ack"}
    <3>1. rx = <<>>
      BY <1>3, <2>1 DEF MeasureTick, DataReady
    <3>2. Len(rx) = 0
      BY <3>1
    <3>. QED  BY <3>2, MeasureConstants
  <2>2. CASE mpc = "work"
    <3>1. In = <<>>
      BY <1>2, <2>2, PhaseFacts DEF Requested
    <3>. QED  BY <1>2, <3>1, EmptyIn
  <2>. QED  BY <1>2, <1>3, <2>1, <2>2 DEF MeasureTypeOK
<1>5. UartTypeOK' /\ Kept' /\ rx' \o wire_in' = rx \o wire_in
  BY <1>1, <1>2, <1>4, TickKeeps
<1>6. In' = In
  BY <1>5 DEF In
<1>7. MeasureTypeOK'
  BY <1>1, <1>2, <1>5 DEF MeasureTypeOK
<1>8. /\ Last' = Last /\ Answer(1)' = Answer(1) /\ Results(asked)' = Results(asked)
      /\ IntBytes(asked)' = IntBytes(asked) /\ IntBytes(took)' = IntBytes(took)
  BY <1>1, AnswerStays
<1>9. IntBytes(Answer(1))' = IntBytes(Answer(1))
  BY <1>8 DEF IntBytes
<1>10. CASE Resting
  <2>1. Resting'
    BY <1>1, <1>6, <1>8, <1>10 DEF Resting
  <2>. QED  BY <1>5, <1>7, <2>1 DEF MeasureInv, Phases
<1>11. CASE Requested
  <2>1. Requested'
    BY <1>1, <1>6, <1>8, <1>11 DEF Requested
  <2>. QED  BY <1>5, <1>7, <2>1 DEF MeasureInv, Phases
<1>12. CASE \E k \in Nat \ {0} : k <= Last /\ Acknowledging(k)
  <2>1. PICK k \in Nat \ {0} : k <= Last /\ Acknowledging(k)
    BY <1>12
  <2>2. /\ Rest(k)' = Rest(k) /\ IntBytes(k)' = IntBytes(k)
        /\ Upto(k)' = Upto(k) /\ Upto(k - 1)' = Upto(k - 1)
    BY <1>1, AnswerStays DEF IntBytes, Upto
  <2>3. Acknowledging(k)'
    BY <1>1, <1>6, <2>1, <2>2 DEF Acknowledging
  <2>4. Phases'
    BY <1>8, <2>1, <2>3 DEF Phases
  <2>. QED  BY <1>5, <1>7, <2>4 DEF MeasureInv
<1>13. CASE Ending
  <2>1. Ending'
    BY <1>1, <1>6, <1>8, <1>9, <1>13 DEF Ending
  <2>. QED  BY <1>5, <1>7, <2>1 DEF MeasureInv, Phases
<1>. QED  BY <1>2, <1>3, <1>10, <1>11, <1>12, <1>13 DEF Phases, Answering

LEMMA MeasureStutterInv == MeasureInv /\ UNCHANGED measureVars => MeasureInv'
<1>. SUFFICES ASSUME MeasureInv, UNCHANGED measureVars  PROVE MeasureInv'
  OBVIOUS
<1>1. /\ UNCHANGED <<wire_in, rx, tx, tsr, due, inbox, overrun>>
      /\ UNCHANGED <<prog, mpc, acc, queue, out, took, host, asked, got, cnt, tests>>
  BY DEF measureVars, uartVars
<1>2. MeasureTypeOK' /\ Kept'
  BY <1>1 DEF MeasureInv, MeasureTypeOK, UartTypeOK, Kept
<1>3. Resting => Resting'
  BY <1>1 DEF Resting, In, Results
<1>4. Requested => Requested'
  BY <1>1, SMTT(60) DEF Requested, In, IntBytes
<1>5. ASSUME NEW k \in Nat, k <= Last + 1, Answering(k)  PROVE Phases'
  <2>1. /\ Last' = Last /\ Rest(k)' = Rest(k) /\ Heard(k)' = Heard(k) /\ Unread(k)' = Unread(k)
    BY <1>1, AnswerStays
  <2>2. Answer(k + 1)' = Answer(k + 1)
    BY <1>1 DEF Answer, Last
  <2>3. IntBytes(Answer(k + 1))' = IntBytes(Answer(k + 1)) /\ In' = In
    BY <1>1, <2>2 DEF IntBytes, In
  <2>4. Answering(k)'
    BY <1>1, <1>5, <2>1, <2>3 DEF Answering
  <2>. QED  BY <1>5, <2>1, <2>4 DEF Phases
<1>6. ASSUME NEW k \in Nat \ {0}, k <= Last, Acknowledging(k)  PROVE Phases'
  <2>1. /\ Last' = Last /\ Rest(k)' = Rest(k)
    BY <1>1, AnswerStays
  <2>2. IntBytes(k)' = IntBytes(k) /\ Upto(k)' = Upto(k) /\ Upto(k - 1)' = Upto(k - 1) /\ In' = In
    BY <1>1 DEF IntBytes, Upto, In
  <2>3. Acknowledging(k)'
    BY <1>1, <1>6, <2>1, <2>2 DEF Acknowledging
  <2>. QED  BY <1>6, <2>1, <2>3 DEF Phases
<1>7. Ending => Ending'
  <2>1. Answer(1)' = Answer(1)
    BY <1>1 DEF Answer, Last
  <2>2. /\ IntBytes(Answer(1))' = IntBytes(Answer(1)) /\ IntBytes(took)' = IntBytes(took)
        /\ Results(asked)' = Results(asked) /\ In' = In
    BY <1>1, <2>1 DEF IntBytes, In, Results
  <2>. QED  BY <1>1, <2>2 DEF Ending
<1>8. Phases'
  <2>1. Phases
    BY DEF MeasureInv
  <2>. QED  BY <1>3, <1>4, <1>5, <1>6, <1>7, <2>1 DEF Phases
<1>. QED  BY <1>2, <1>8 DEF MeasureInv

LEMMA MeasureStepInv == MeasureInv /\ [MeasureNext]_measureVars => MeasureInv'
<1>. SUFFICES ASSUME MeasureInv, [MeasureNext]_measureVars  PROVE MeasureInv'
  OBVIOUS
<1>1. CASE Board
  BY <1>1, ReadEnableInv, RecvIntInv, WorkInv, SendNextInv, SendIntInv, SentInv, AckInv, AgainInv
    DEF Board
<1>2. CASE Host
  BY <1>2, HostResultInv, HostTimeInv DEF Host
<1>3. CASE MeasureTick
  BY <1>3, MeasureTickInv
<1>4. CASE \E n \in 1 .. MaxLen : StartTest(n)
  BY <1>4, StartTestInv
<1>5. CASE UNCHANGED measureVars
  BY <1>5, MeasureStutterInv
<1>. QED  BY <1>1, <1>2, <1>3, <1>4, <1>5 DEF MeasureNext

------------------------------------------------------------------------------
(* The theorems. *)

\* The two ends go through one test in the same phases.
THEOREM MeasureInvariant == MeasureSpec => []MeasureInv
<1>. QED  BY MeasureInitInv, MeasureStepInv, PTL DEF MeasureSpec

\* When the host calls a test finished it has every number the board sent for
\* it, in order, and the board has read every answer.
THEOREM InStepAlways == MeasureSpec => []InStep
<1>1. MeasureInv => InStep
  <2>. SUFFICES ASSUME MeasureInv, host = "idle", tests > 0  PROVE InStep
    BY DEF InStep
  <2>1. UartTypeOK /\ Kept /\ Resting
    BY PhaseFacts DEF MeasureInv, MeasureTypeOK
  <2>2. /\ mpc = "en" /\ queue = <<>> /\ out = <<>> /\ In = <<>> /\ due = <<>>
        /\ got = Results(asked) /\ cnt = took
    BY <2>1 DEF Resting
  <2>3. rx = <<>> /\ wire_in = <<>> /\ inbox = <<>> /\ tsr = <<>> /\ tx = <<>>
    BY <2>1, <2>2, EmptyIn, LineEmpty
  <2>. QED  BY <2>2, <2>3 DEF InStep
<1>. QED  BY <1>1, MeasureInvariant, PTL

\* No byte is lost either way, although the board puts a number into the
\* transmit FIFO, or two in a row, without looking whether there is room.
THEOREM MeasureNothingLost == MeasureSpec => []NothingLost /\ []Kept
<1>1. MeasureInv => NothingLost /\ Kept
  BY DEF MeasureInv, NothingLost
<1>. QED  BY <1>1, MeasureInvariant, PTL
=============================================================================
