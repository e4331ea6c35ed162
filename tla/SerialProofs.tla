---------------------------- MODULE SerialProofs ----------------------------
(***************************************************************************)
(* What each step at the serial line does to the bytes on the way, for     *)
(* every FIFO depth, and proofs about readline and about the loader, for   *)
(* every buffer, alphabet, image and text of the messages that fits.       *)
(***************************************************************************)
EXTENDS Loader, Readline, SequenceTheorems, FiniteSets, FiniteSetTheorems, FunctionTheorems, TLAPS

UartTypeOK ==
  /\ wire_in \in Seq(Nat) /\ rx \in Seq(Nat) /\ tx \in Seq(Nat) /\ tsr \in Seq(Nat)
  /\ due \in Seq(Nat) /\ inbox \in Seq(Nat) /\ overrun \in BOOLEAN

------------------------------------------------------------------------------
(* Sequences. *)

LEMMA TailFacts ==
  ASSUME NEW s \in Seq(Nat), s # <<>>
  PROVE  /\ Tail(s) \in Seq(Nat) /\ Head(s) \in Nat /\ Len(s) \in Nat /\ Len(s) >= 1
         /\ Len(Tail(s)) = Len(s) - 1 /\ s = <<Head(s)>> \o Tail(s)
<1>1. Len(s) \in Nat /\ Len(s) >= 1 /\ Head(s) = s[1] /\ Head(s) \in Nat
  OBVIOUS
<1>2. Tail(s) \in Seq(Nat) /\ Len(Tail(s)) = Len(s) - 1
  BY <1>1
<1>3. \A k \in 1 .. Len(s) : (<<Head(s)>> \o Tail(s))[k] = s[k]
  BY <1>1, <1>2
<1>4. Len(<<Head(s)>> \o Tail(s)) = Len(s) /\ <<Head(s)>> \o Tail(s) \in Seq(Nat)
  BY <1>1, <1>2
<1>. QED  BY <1>1, <1>2, <1>3, <1>4

LEMMA Assoc ==
  ASSUME NEW a \in Seq(Nat), NEW b \in Seq(Nat), NEW d \in Seq(Nat)
  PROVE  (a \o b) \o d = a \o (b \o d)
BY ConcatAssociative, Z3

LEMMA AppendConcat ==
  ASSUME NEW a \in Seq(Nat), NEW b \in Seq(Nat), NEW x \in Nat
  PROVE  Append(a \o b, x) = a \o Append(b, x)
<1>1. a \o b \in Seq(Nat) /\ <<x>> \in Seq(Nat)
  OBVIOUS
<1>2. Append(a \o b, x) = (a \o b) \o <<x>> /\ Append(b, x) = b \o <<x>>
  BY <1>1, AppendIsConcat
<1>. QED  BY <1>1, <1>2, ConcatAssociative

\* Moving the first element of one string to the end of another.
LEMMA AppendFront ==
  ASSUME NEW a \in Seq(Nat), NEW x \in Nat, NEW u \in Seq(Nat), NEW b, b = <<x>> \o u
  PROVE  Append(a, x) \o u = a \o b
<1>. DEFINE e == <<x>>
<1>1. e \in Seq(Nat)
  OBVIOUS
<1>2. Append(a, x) = a \o e
  BY AppendIsConcat
<1>3. b = e \o u
  OBVIOUS
<1>. HIDE DEF e
<1>4. (a \o e) \o u = a \o (e \o u)
  BY ONLY <1>1, a \in Seq(Nat), u \in Seq(Nat), ConcatAssociative, SMTT(60)
<1>. QED  BY <1>2, <1>3, <1>4

\* What is left of a sequence when its first n elements are taken off.
LEMMA DropFacts ==
  ASSUME NEW a \in Seq(Nat), NEW n \in Nat, Len(a) >= n
  PROVE  /\ SubSeq(a, n + 1, Len(a)) \in Seq(Nat)
         /\ Len(SubSeq(a, n + 1, Len(a))) = Len(a) - n
         /\ \A k \in 1 .. Len(a) - n : SubSeq(a, n + 1, Len(a))[k] = a[n + k]
<1>. DEFINE l == Len(a)
            m == n + 1
            s == SubSeq(a, m, l)
<1>1. l \in Nat /\ l \in Int /\ m \in Int /\ l >= n /\ \A k \in m .. l : a[k] \in Nat
  OBVIOUS
<1>2. m = n + 1
  OBVIOUS
<1>. HIDE DEF l, m
<1>3. /\ s \in Seq(Nat) /\ Len(s) = IF m <= l THEN l - m + 1 ELSE 0
      /\ \A k \in 1 .. l - m + 1 : s[k] = a[m + k - 1]
  BY ONLY <1>1, SubSeqProperties DEF s
<1>. HIDE DEF s
<1>4. Len(s) = l - n
  BY <1>1, <1>2, <1>3
<1>5. \A k \in 1 .. l - n : s[k] = a[n + k]
  <2>. SUFFICES ASSUME NEW k \in 1 .. l - n  PROVE s[k] = a[n + k]
    OBVIOUS
  <2>1. k \in 1 .. l - m + 1 /\ m + k - 1 = n + k
    BY <1>1, <1>2
  <2>. QED  BY <1>3, <2>1
<1>. QED  BY <1>2, <1>3, <1>4, <1>5 DEF s, m, l

LEMMA DropTyped ==
  ASSUME NEW a \in Seq(Nat), NEW n \in Nat, Len(a) >= n
  PROVE  SubSeq(a, n + 1, Len(a)) \in Seq(Nat)
BY DropFacts

\* Taking the front of a concatenation off is taking it off its first part.
LEMMA DropFront ==
  ASSUME NEW a \in Seq(Nat), NEW b \in Seq(Nat), NEW n \in Nat, Len(a) >= n,
         NEW d \in Seq(Nat), d = a \o b
  PROVE  SubSeq(d, n + 1, Len(d)) = SubSeq(a, n + 1, Len(a)) \o b
<1>1. /\ Len(a) \in Nat /\ Len(b) \in Nat /\ d \in Seq(Nat) /\ Len(d) = Len(a) + Len(b)
      /\ \A k \in 1 .. Len(a) + Len(b) : d[k] = IF k <= Len(a) THEN a[k] ELSE b[k - Len(a)]
  BY ConcatProperties
<1>. DEFINE u == SubSeq(a, n + 1, Len(a))
            v == SubSeq(d, n + 1, Len(d))
            w == u \o b
<1>2. /\ u \in Seq(Nat) /\ Len(u) = Len(a) - n /\ \A k \in 1 .. Len(u) : u[k] = a[n + k]
  BY DropFacts
<1>3. /\ v \in Seq(Nat) /\ Len(v) = Len(d) - n /\ \A k \in 1 .. Len(v) : v[k] = d[n + k]
  <2>1. Len(d) >= n
    BY <1>1
  <2>. QED  BY <1>1, <2>1, DropFacts, SMTT(60)
<1>. HIDE DEF u, v
<1>4. /\ w \in Seq(Nat) /\ Len(w) = Len(u) + Len(b)
      /\ \A k \in 1 .. Len(u) + Len(b) : w[k] = IF k <= Len(u) THEN u[k] ELSE b[k - Len(u)]
  BY <1>2, ConcatProperties
<1>. HIDE DEF w
<1>5. Len(v) = Len(w)
  BY <1>1, <1>2, <1>3, <1>4
<1>6. \A k \in 1 .. Len(v) : v[k] = w[k]
  <2>. SUFFICES ASSUME NEW k \in 1 .. Len(v)  PROVE v[k] = w[k]
    OBVIOUS
  <2>1. k \in Nat /\ k >= 1 /\ n + k <= Len(a) + Len(b) /\ v[k] = d[n + k]
    BY <1>1, <1>3
  <2>2. CASE n + k <= Len(a)
    <3>1. d[n + k] = a[n + k] /\ w[k] = u[k] /\ u[k] = a[n + k]
      BY <2>1, <2>2, <1>1, <1>2, <1>4
    <3>. QED  BY <3>1, <2>1
  <2>3. CASE n + k > Len(a)
    <3>1. n + k \in 1 .. Len(a) + Len(b) /\ ~(n + k <= Len(a))
      BY <2>1, <2>3, <1>1
    <3>2. k \in 1 .. Len(u) + Len(b) /\ ~(k <= Len(u))
      BY <2>1, <2>3, <1>1, <1>2
    <3>3. d[n + k] = b[(n + k) - Len(a)] /\ w[k] = b[k - Len(u)]
      BY <3>1, <3>2, <1>1, <1>4
    <3>4. (n + k) - Len(a) = k - Len(u)
      BY <2>1, <1>1, <1>2
    <3>. QED  BY <3>3, <3>4, <2>1
  <2>. QED  BY <2>1, <2>2, <2>3, <1>1
<1>7. v = w
  BY <1>3, <1>4, <1>5, <1>6, SeqEqual
<1>. QED  BY <1>7 DEF u, v, w

------------------------------------------------------------------------------
(* The steps. *)

LEMMA UartInitFacts == UartInit => UartTypeOK /\ Kept
<1>. SUFFICES ASSUME UartInit  PROVE UartTypeOK /\ Kept
  OBVIOUS
<1>1. /\ wire_in = <<>> /\ rx = <<>> /\ tx = <<>> /\ tsr = <<>> /\ due = <<>> /\ inbox = <<>>
      /\ overrun = FALSE
  BY DEF UartInit
<1>2. <<>> \in Seq(Nat) /\ (<<>> \o <<>>) \o <<>> = <<>>
  OBVIOUS
<1>. QED  BY <1>1, <1>2 DEF UartTypeOK, Kept

\* The store of one character when there is room.
LEMMA PutKeeps ==
  ASSUME UartTypeOK, Kept, NEW k \in Nat, uart_put(k), Len(tx) < FifoDepth
  PROVE  /\ UartTypeOK' /\ Kept' /\ Len(tx') = Len(tx) + 1
         /\ UNCHANGED <<wire_in, rx>>
<1>1. /\ tx' = Append(tx, k) /\ overrun' = overrun /\ due' = Append(due, k)
      /\ UNCHANGED <<wire_in, rx, tsr, inbox>>
  BY DEF uart_put
<1>2. /\ inbox \in Seq(Nat) /\ tsr \in Seq(Nat) /\ tx \in Seq(Nat) /\ due \in Seq(Nat)
      /\ ~overrun /\ (inbox \o tsr) \o tx = due
  BY DEF UartTypeOK, Kept
<1>. DEFINE a == inbox \o tsr
<1>3. a \in Seq(Nat)
  BY <1>2
<1>. HIDE DEF a
<1>4. a \o Append(tx, k) = Append(a \o tx, k)
  BY <1>2, <1>3, AppendConcat
<1>5. (inbox' \o tsr') \o tx' = due'
  BY <1>1, <1>2, <1>4 DEF a
<1>6. tx' \in Seq(Nat) /\ due' \in Seq(Nat) /\ Len(tx') = Len(tx) + 1
  BY <1>1, <1>2
<1>7. UartTypeOK'
  BY <1>1, <1>6 DEF UartTypeOK
<1>. QED  BY <1>1, <1>2, <1>5, <1>6, <1>7 DEF Kept

\* A byte time loses nothing while the receive FIFO has room.
LEMMA TickKeeps ==
  ASSUME UartTypeOK, Kept, Tick, wire_in = <<>> \/ Len(rx) < FifoDepth
  PROVE  /\ UartTypeOK' /\ Kept'
         /\ rx' \o wire_in' = rx \o wire_in
         /\ \/ rx' = rx /\ wire_in' = wire_in
            \/ wire_in # <<>> /\ Len(rx') = Len(rx) + 1
         /\ tx' = <<>> \/ Len(tx') = Len(tx) - 1
         /\ tx # <<>> => Len(tx') = Len(tx) - 1
<1>1. /\ wire_in \in Seq(Nat) /\ rx \in Seq(Nat) /\ tx \in Seq(Nat) /\ tsr \in Seq(Nat)
      /\ inbox \in Seq(Nat) /\ due \in Seq(Nat) /\ ~overrun /\ (inbox \o tsr) \o tx = due
  BY DEF UartTypeOK, Kept
<1>2. /\ overrun' = overrun /\ wire_in' \in Seq(Nat) /\ rx' \in Seq(Nat)
      /\ rx' \o wire_in' = rx \o wire_in
      /\ \/ rx' = rx /\ wire_in' = wire_in
         \/ wire_in # <<>> /\ Len(rx') = Len(rx) + 1
  <2>1. CASE wire_in' = wire_in /\ rx' = rx /\ overrun' = overrun
    BY <2>1, <1>1
  <2>2. CASE wire_in # <<>> /\ wire_in' = Tail(wire_in) /\ rx' = Append(rx, Head(wire_in))
             /\ overrun' = overrun
    <3>. DEFINE h == Head(wire_in)
                u == Tail(wire_in)
    <3>1. u \in Seq(Nat) /\ h \in Nat /\ wire_in = <<h>> \o u
      BY <2>2, <1>1, TailFacts
    <3>. HIDE DEF h, u
    <3>2. Append(rx, h) \in Seq(Nat) /\ Len(Append(rx, h)) = Len(rx) + 1
      BY <1>1, <3>1
    <3>3. Append(rx, h) \o u = rx \o wire_in
      BY <1>1, <3>1, AppendFront, SMTT(60)
    <3>. QED  BY <3>1, <3>2, <3>3, <2>2 DEF h, u
  <2>. QED  BY <2>1, <2>2 DEF Tick
<1>3. /\ inbox' = inbox \o tsr /\ inbox' \in Seq(Nat) /\ due' = due
      /\ tsr' \in Seq(Nat) /\ tx' \in Seq(Nat) /\ tsr' \o tx' = tx
      /\ tx' = <<>> \/ Len(tx') = Len(tx) - 1
      /\ tx # <<>> => Len(tx') = Len(tx) - 1
  <2>1. inbox' = inbox \o tsr /\ inbox' \in Seq(Nat) /\ due' = due
    BY <1>1 DEF Tick
  <2>2. CASE tx = <<>>
    <3>1. tsr' = <<>> /\ tx' = <<>>
      BY <2>2 DEF Tick
    <3>. QED  BY <3>1, <2>1, <2>2
  <2>3. CASE tx # <<>>
    <3>1. tsr' = <<Head(tx)>> /\ tx' = Tail(tx)
      BY <2>3 DEF Tick
    <3>. QED  BY <3>1, <2>1, <2>3, <1>1, TailFacts
  <2>. QED  BY <2>2, <2>3
<1>4. Kept'
  <2>. DEFINE a == inbox'
              b == tsr'
              d == tx'
  <2>1. a \in Seq(Nat) /\ b \in Seq(Nat) /\ d \in Seq(Nat) /\ b \o d = tx /\ a = inbox \o tsr
    BY <1>3
  <2>. HIDE DEF a, b, d
  <2>2. (a \o b) \o d = a \o (b \o d)
    BY <2>1, Assoc
  <2>3. (a \o b) \o d = due
    BY <2>1, <2>2, <1>1
  <2>. QED  BY <2>3, <1>1, <1>2, <1>3 DEF Kept, a, b, d
<1>5. UartTypeOK'
  BY <1>1, <1>2, <1>3 DEF UartTypeOK
<1>. QED  BY <1>2, <1>3, <1>4, <1>5

\* Taking a byte from the receive FIFO.
LEMMA ReadKeeps ==
  ASSUME UartTypeOK, Kept, uart_read_blocking
  PROVE  /\ UartTypeOK' /\ Kept' /\ UNCHANGED <<wire_in, tx>>
         /\ Head(rx) \in Nat /\ rx = <<Head(rx)>> \o rx' /\ Len(rx') = Len(rx) - 1
<1>1. /\ rx # <<>> /\ rx' = Tail(rx) /\ UNCHANGED <<wire_in, tx, tsr, due, inbox, overrun>>
  BY DEF uart_read_blocking, DataReady
<1>2. rx' \in Seq(Nat) /\ Head(rx) \in Nat /\ rx = <<Head(rx)>> \o rx' /\ Len(rx') = Len(rx) - 1
  BY <1>1, TailFacts DEF UartTypeOK
<1>. QED  BY <1>1, <1>2 DEF UartTypeOK, Kept

\* The host takes bytes.
LEMMA HostTakes ==
  ASSUME UartTypeOK, Kept, NEW n \in Nat, Len(inbox) >= n,
         inbox' = SubSeq(inbox, n + 1, Len(inbox)), due' = SubSeq(due, n + 1, Len(due)),
         UNCHANGED <<rx, tx, tsr, overrun>>, wire_in' \in Seq(Nat)
  PROVE  UartTypeOK' /\ Kept'
<1>1. /\ inbox \in Seq(Nat) /\ tsr \in Seq(Nat) /\ tx \in Seq(Nat) /\ due \in Seq(Nat)
      /\ ~overrun /\ (inbox \o tsr) \o tx = due
  BY DEF UartTypeOK, Kept
<1>. DEFINE b == tsr \o tx
<1>2. b \in Seq(Nat) /\ due = inbox \o b
  <2>1. (inbox \o tsr) \o tx = inbox \o (tsr \o tx)
    <3>1. inbox \in Seq(Nat) /\ tsr \in Seq(Nat) /\ tx \in Seq(Nat)
      BY <1>1
    <3>. QED  BY ONLY <3>1, Assoc
  <2>. QED  BY <2>1, <1>1
<1>. HIDE DEF b
<1>3. inbox' \in Seq(Nat) /\ due' = inbox' \o b
  <2>1. /\ SubSeq(inbox, n + 1, Len(inbox)) \in Seq(Nat)
        /\ SubSeq(due, n + 1, Len(due)) = SubSeq(inbox, n + 1, Len(inbox)) \o b
    <3>1. inbox \in Seq(Nat) /\ due \in Seq(Nat) /\ Len(inbox) >= n
      BY <1>1
    <3>2. b \in Seq(Nat) /\ due = inbox \o b
      BY <1>2
    <3>3. SubSeq(inbox, n + 1, Len(inbox)) \in Seq(Nat)
      BY <3>1, DropTyped, Zenon
    <3>4. SubSeq(due, n + 1, Len(due)) = SubSeq(inbox, n + 1, Len(inbox)) \o b
      BY <3>1, <3>2, DropFront, Zenon
    <3>. QED  BY <3>3, <3>4
  <2>. QED
    BY ONLY <2>1, inbox' = SubSeq(inbox, n + 1, Len(inbox)), due' = SubSeq(due, n + 1, Len(due))
<1>4. due' = (inbox' \o tsr) \o tx
  <2>. DEFINE a == inbox'
  <2>1. a \in Seq(Nat)
    BY <1>3
  <2>. HIDE DEF a
  <2>2. (a \o tsr) \o tx = a \o (tsr \o tx)
    BY ONLY <1>1, <2>1, Assoc
  <2>. QED  BY <1>3, <2>2 DEF a, b
<1>5. due' \in Seq(Nat)
  BY <1>2, <1>3, SMTT(60)
<1>6. Kept'
  BY <1>1, <1>4 DEF Kept
<1>. QED  BY <1>3, <1>5, <1>6 DEF UartTypeOK

LEMMA HostReadKeeps ==
  ASSUME UartTypeOK, Kept, HostRead(1)
  PROVE  UartTypeOK' /\ Kept' /\ UNCHANGED <<wire_in, rx, tx>>
<1>1. /\ Len(inbox) >= 1 /\ inbox' = SubSeq(inbox, 1 + 1, Len(inbox))
      /\ due' = SubSeq(due, 1 + 1, Len(due)) /\ UNCHANGED <<wire_in, rx, tx, tsr, overrun>>
  BY DEF HostRead
<1>2. wire_in' \in Seq(Nat)
  BY <1>1 DEF UartTypeOK
<1>. QED  BY <1>1, <1>2, HostTakes

\* The host writes.
LEMMA HostWriteKeeps ==
  ASSUME UartTypeOK, Kept, NEW bytes \in Seq(Nat), HostWrite(bytes)
  PROVE  /\ UartTypeOK' /\ Kept' /\ wire_in' = wire_in \o bytes
         /\ UNCHANGED <<rx, tx, tsr, inbox>>
<1>1. wire_in' = wire_in \o bytes /\ UNCHANGED <<rx, tx, tsr, due, inbox, overrun>>
  BY DEF HostWrite
<1>2. wire_in' \in Seq(Nat)
  BY <1>1 DEF UartTypeOK
<1>. QED  BY <1>1, <1>2 DEF UartTypeOK, Kept

------------------------------------------------------------------------------
(* The CRs in a sequence. *)

CRPlaces(s) == {k \in 1 .. Len(s) : s[k] = CR}
CRsIn(s) == Cardinality(CRPlaces(s))
OneIf(b) == IF b THEN 1 ELSE 0

LEMMA CRsFinite ==
  ASSUME NEW s \in Seq(Nat)
  PROVE  IsFiniteSet(CRPlaces(s)) /\ CRsIn(s) \in Nat
<1>1. IsFiniteSet(1 .. Len(s))
  <2>1. Len(s) \in Nat
    OBVIOUS
  <2>. QED  BY <2>1, FS_Interval
<1>2. CRPlaces(s) \subseteq 1 .. Len(s)
  BY DEF CRPlaces
<1>3. IsFiniteSet(CRPlaces(s))
  BY <1>1, <1>2, FS_Subset, Zenon
<1>. QED  BY <1>3, FS_CardinalityType, Zenon DEF CRsIn

LEMMA CRsEmpty == CRsIn(<<>>) = 0
<1>1. CRPlaces(<<>>) = {}
  BY DEF CRPlaces
<1>. QED  BY <1>1, FS_EmptySet DEF CRsIn

LEMMA CRsAppend ==
  ASSUME NEW s \in Seq(Nat), NEW x \in Nat
  PROVE  CRsIn(Append(s, x)) = CRsIn(s) + OneIf(x = CR)
<1>. DEFINE t == Append(s, x)
            n == Len(s) + 1
<1>1. /\ Len(s) \in Nat /\ Len(t) = n /\ t[n] = x
      /\ \A k \in 1 .. Len(s) : t[k] = s[k]
  BY AppendProperties
<1>2. n \notin CRPlaces(s)
  BY <1>1 DEF CRPlaces
<1>3. \A k : k \in 1 .. n <=> k \in 1 .. Len(s) \/ k = n
  BY <1>1
<1>. HIDE DEF t, n
<1>4. CASE x = CR
  <2>1. CRPlaces(t) = CRPlaces(s) \cup {n}
    BY <1>1, <1>3, <1>4, Zenon DEF CRPlaces
  <2>2. CRsIn(t) = CRsIn(s) + 1
    BY <2>1, <1>2, CRsFinite, FS_AddElement DEF CRsIn
  <2>. QED  BY <2>2, <1>4 DEF OneIf, t
<1>5. CASE x # CR
  <2>1. CRPlaces(t) = CRPlaces(s)
    BY <1>1, <1>3, <1>5, Zenon DEF CRPlaces
  <2>2. CRsIn(t) = CRsIn(s) /\ CRsIn(s) \in Nat
    BY <2>1, CRsFinite DEF CRsIn
  <2>. QED  BY <2>2, <1>5 DEF OneIf, t
<1>. QED  BY <1>4, <1>5

\* The places of the CRs move down by one when the first element goes.
LEMMA CRsTail ==
  ASSUME NEW s \in Seq(Nat), s # <<>>
  PROVE  CRsIn(s) = CRsIn(Tail(s)) + OneIf(Head(s) = CR)
<1>. DEFINE t == Tail(s)
            P == CRPlaces(s) \ {1}
            f == [k \in CRPlaces(t) |-> k + 1]
<1>1. /\ t \in Seq(Nat) /\ Len(s) \in Nat /\ Len(s) >= 1 /\ Len(t) = Len(s) - 1
      /\ Head(s) = s[1] /\ \A k \in 1 .. Len(t) : t[k] = s[k + 1]
  BY TailFacts, HeadTailProperties
<1>. HIDE DEF t
<1>2. f \in Bijection(CRPlaces(t), P)
  <2>1. \A k \in CRPlaces(t) : k \in Nat /\ k + 1 \in P
    BY <1>1 DEF CRPlaces
  <2>2. f \in [CRPlaces(t) -> P]
    BY <2>1
  <2>3. \A a, b \in CRPlaces(t) : f[a] = f[b] => a = b
    BY <2>1
  <2>4. \A k \in P : k - 1 \in CRPlaces(t) /\ f[k - 1] = k
    BY <1>1 DEF CRPlaces
  <2>5. \A k \in P : \E a \in CRPlaces(t) : f[a] = k
    BY <2>4
  <2>. HIDE DEF P, f
  <2>. QED  BY <2>2, <2>3, <2>5, Fun_IsBij
<1>3. IsFiniteSet(CRPlaces(t)) /\ CRsIn(t) \in Nat /\ IsFiniteSet(CRPlaces(s)) /\ CRsIn(s) \in Nat
  BY <1>1, CRsFinite
<1>. HIDE DEF f
<1>4. IsFiniteSet(P) /\ Cardinality(P) = CRsIn(t)
  BY <1>2, <1>3, FS_Bijection, Zenon DEF CRsIn, ExistsBijection
<1>5. 1 \in CRPlaces(s) <=> Head(s) = CR
  BY <1>1 DEF CRPlaces
<1>6. Cardinality(P) = CRsIn(s) - OneIf(Head(s) = CR)
  <2>1. Cardinality(P) = IF 1 \in CRPlaces(s) THEN CRsIn(s) - 1 ELSE CRsIn(s)
    BY <1>3, FS_RemoveElement DEF CRsIn
  <2>. QED  BY <2>1, <1>3, <1>5 DEF OneIf
<1>. HIDE DEF P
<1>7. OneIf(Head(s) = CR) \in Nat
  BY DEF OneIf
<1>. QED  BY <1>3, <1>4, <1>6, <1>7 DEF t

------------------------------------------------------------------------------
(* Readline. *)

LineTypeOK ==
  /\ wire_in \in Seq(Nat) /\ rx \in Seq(Nat) /\ tx \in Seq(Nat) /\ tsr \in Seq(Nat)
  /\ due \in Seq(Nat) /\ inbox \in Seq(Nat) /\ overrun \in BOOLEAN
  /\ c \in [0 .. LineLen - 1 -> Nat] /\ i \in Nat /\ line \in Seq(Nat)
  /\ rpc \in {"read", "newline", "done"} /\ crs \in 0 .. MaxCRs

\* The buffer holds the line read so far; behind a CR it is cleared.
Buffered ==
  /\ i = Len(line)
  /\ rpc = "read" => i < LineLen
  /\ \A k \in 0 .. LineLen - 1 : k < i => c[k] = line[k + 1]
  /\ rpc # "read" => \A k \in 0 .. LineLen - 1 : k >= i => c[k] = 0

Owed == IF rpc = "newline" THEN 1 ELSE 0

\* CRs on their way in.
Coming == CRsIn(rx) + CRsIn(wire_in)

\* One character goes out for each that comes in: only the second one for each
\* CR since the echo last caught up adds up.
Room ==
  /\ Len(rx) <= 1
  /\ Coming <= crs
  /\ Len(tx) + Owed + Len(rx) + Coming <= crs + 1

LineInv == LineTypeOK /\ Buffered /\ Room /\ Kept

LEMMA LineNumbers ==
  ASSUME LineTypeOK
  PROVE  /\ FifoDepth \in Nat /\ FifoDepth > 0 /\ MaxCRs \in Nat /\ MaxCRs <= FifoDepth - 1
         /\ Len(tx) \in Nat /\ Len(rx) \in Nat /\ Len(wire_in) \in Nat /\ Owed \in {0, 1}
         /\ CRsIn(rx) \in Nat /\ CRsIn(wire_in) \in Nat /\ Coming \in Nat
         /\ crs \in Nat /\ crs <= MaxCRs
<1>1. /\ wire_in \in Seq(Nat) /\ rx \in Seq(Nat) /\ tx \in Seq(Nat) /\ crs \in 0 .. MaxCRs
  BY DEF LineTypeOK
<1>2. CRsIn(rx) \in Nat /\ CRsIn(wire_in) \in Nat
  BY <1>1, CRsFinite, Zenon
<1>3. FifoDepth \in Nat /\ FifoDepth > 0 /\ MaxCRs \in Nat /\ MaxCRs <= FifoDepth - 1
  BY ReadlineAssumption, UartAssumption
<1>4. Len(tx) \in Nat /\ Len(rx) \in Nat /\ Len(wire_in) \in Nat /\ crs \in Nat /\ crs <= MaxCRs
  BY <1>1, <1>3
<1>5. Coming \in Nat /\ Owed \in {0, 1}
  BY <1>2 DEF Coming, Owed
<1>. QED  BY <1>2, <1>3, <1>4, <1>5

------------------------------------------------------------------------------
(* Each step preserves the invariant. *)

LEMMA LineInitInv == ReadlineInit => LineInv
<1>. SUFFICES ASSUME ReadlineInit  PROVE LineInv
  OBVIOUS
<1>1. /\ wire_in = <<>> /\ rx = <<>> /\ tx = <<>> /\ tsr = <<>> /\ due = <<>> /\ inbox = <<>>
      /\ overrun = FALSE /\ c = [k \in 0 .. LineLen - 1 |-> 0]
      /\ i = 0 /\ rpc = "read" /\ line = <<>> /\ crs = 0
  BY DEF ReadlineInit, UartInit
<1>2. LineLen \in Nat \ {0} /\ MaxCRs \in Nat
  BY ReadlineAssumption, UartAssumption
<1>3. LineTypeOK
  <2>1. c \in [0 .. LineLen - 1 -> Nat]
    BY <1>1
  <2>2. /\ wire_in \in Seq(Nat) /\ rx \in Seq(Nat) /\ tx \in Seq(Nat) /\ tsr \in Seq(Nat)
        /\ due \in Seq(Nat) /\ inbox \in Seq(Nat) /\ line \in Seq(Nat)
    BY <1>1
  <2>3. i \in Nat /\ rpc \in {"read", "newline", "done"} /\ crs \in 0 .. MaxCRs
    BY <1>1, <1>2
  <2>4. overrun \in BOOLEAN
    BY <1>1
  <2>. QED  BY <2>1, <2>2, <2>3, <2>4 DEF LineTypeOK
<1>4. Buffered
  BY <1>1, <1>2 DEF Buffered
<1>5. Room
  <2>1. CRsIn(rx) = 0 /\ CRsIn(wire_in) = 0
    BY <1>1, CRsEmpty
  <2>2. Len(rx) = 0 /\ Len(tx) = 0 /\ Owed = 0
    BY <1>1 DEF Owed
  <2>. QED  BY <2>1, <2>2, <1>1 DEF Room, Coming
<1>6. Kept
  BY <1>1 DEF Kept
<1>. QED  BY <1>3, <1>4, <1>5, <1>6 DEF LineInv

\* The store of one character when there is room.
LEMMA PutFacts ==
  ASSUME LineInv, NEW k \in Nat, Len(tx) < FifoDepth,
         tx' = Append(tx, k), due' = Append(due, k), overrun' = overrun,
         tsr' = tsr, inbox' = inbox
  PROVE  /\ Kept' /\ Len(tx') = Len(tx) + 1
         /\ tx' \in Seq(Nat) /\ due' \in Seq(Nat)
<1>1. /\ inbox \in Seq(Nat) /\ tsr \in Seq(Nat) /\ tx \in Seq(Nat) /\ due \in Seq(Nat)
      /\ ~overrun /\ (inbox \o tsr) \o tx = due
  BY DEF LineInv, LineTypeOK, Kept
<1>. DEFINE a == inbox \o tsr
<1>2. a \in Seq(Nat)
  BY <1>1
<1>. HIDE DEF a
<1>3. a \o Append(tx, k) = Append(a \o tx, k)
  BY <1>1, <1>2, AppendConcat
<1>4. (inbox' \o tsr') \o tx' = due'
  BY <1>1, <1>3 DEF a
<1>. QED  BY <1>1, <1>4 DEF Kept

\* The transmit FIFO has room whenever a character is read or owed.
LEMMA PutHasRoom ==
  ASSUME LineInv
  PROVE  /\ rx # <<>> => Len(tx) < FifoDepth
         /\ rpc = "newline" => Len(tx) < FifoDepth
<1>1. /\ FifoDepth \in Nat /\ MaxCRs \in Nat /\ MaxCRs <= FifoDepth - 1
      /\ Len(tx) \in Nat /\ Len(rx) \in Nat /\ Coming \in Nat /\ crs \in Nat /\ crs <= MaxCRs
  BY LineNumbers DEF LineInv
<1>2. rx # <<>> => Len(rx) >= 1
  BY DEF LineInv, LineTypeOK
<1>3. Len(tx) + Owed + Len(rx) + Coming <= crs + 1
  BY DEF LineInv, Room
<1>4. Owed \in Nat /\ (rpc = "newline" => Owed = 1)
  BY DEF Owed
<1>. QED  BY <1>1, <1>2, <1>3, <1>4

\* Taking a character from the receive FIFO and echoing it.
LEMMA EchoFacts ==
  ASSUME LineInv, rpc = "read", NEW k \in Nat, k = Head(rx), Echo(k), crs' = crs,
         Owed' = OneIf(k = CR)
  PROVE  /\ Kept' /\ Room'
         /\ wire_in' \in Seq(Nat) /\ rx' \in Seq(Nat) /\ tx' \in Seq(Nat) /\ tsr' \in Seq(Nat)
         /\ due' \in Seq(Nat) /\ inbox' \in Seq(Nat) /\ overrun' \in BOOLEAN
<1>1. rx # <<>> /\ rx' = Tail(rx) /\ wire_in' = wire_in /\ tsr' = tsr /\ inbox' = inbox
  BY DEF Echo, DataReady
<1>2. Len(tx) < FifoDepth
  BY <1>1, PutHasRoom
<1>3. tx' = Append(tx, k) /\ due' = Append(due, k) /\ overrun' = overrun
  BY <1>2 DEF Echo
<1>4. Kept' /\ Len(tx') = Len(tx) + 1 /\ tx' \in Seq(Nat) /\ due' \in Seq(Nat)
  BY <1>1, <1>2, <1>3, PutFacts
<1>5. /\ wire_in \in Seq(Nat) /\ rx \in Seq(Nat) /\ tsr \in Seq(Nat) /\ inbox \in Seq(Nat)
      /\ tx \in Seq(Nat) /\ overrun \in BOOLEAN
  BY DEF LineInv, LineTypeOK
<1>6. rx' \in Seq(Nat) /\ Len(rx') = Len(rx) - 1 /\ Len(rx) >= 1 /\ Len(rx) \in Nat
  BY <1>1, <1>5, TailFacts
<1>7. CRsIn(rx) = CRsIn(rx') + OneIf(k = CR) /\ CRsIn(rx') \in Nat
  BY <1>1, <1>5, <1>6, CRsTail, CRsFinite
<1>8. Room'
  <2>1. /\ Len(tx) \in Nat /\ CRsIn(rx) \in Nat /\ CRsIn(wire_in) \in Nat /\ crs \in Nat
        /\ OneIf(k = CR) \in {0, 1} /\ Owed = 0
    BY LineNumbers DEF LineInv, OneIf, Owed
  <2>2. Coming' = Coming - OneIf(k = CR) /\ Coming \in Nat
    BY <2>1, <1>1, <1>7 DEF Coming
  <2>3. Len(rx) <= 1 /\ Coming <= crs /\ Len(tx) + Owed + Len(rx) + Coming <= crs + 1
    BY DEF LineInv, Room
  <2>. QED  BY <2>1, <2>2, <2>3, <1>4, <1>6 DEF Room
<1>. QED  BY <1>1, <1>3, <1>4, <1>5, <1>6, <1>8

LEMMA ReadCharInv == ASSUME LineInv, ReadChar  PROVE LineInv'
<1>. DEFINE k == Head(rx)
<1>1. /\ rpc = "read" /\ rx # <<>> /\ Echo(k) /\ c' = [c EXCEPT ![i] = k] /\ i' = i + 1
      /\ rpc' = (IF i + 1 < LineLen THEN "read" ELSE "done")
      /\ line' = Append(line, k) /\ crs' = crs /\ k # CR
  BY DEF ReadChar, DataReady
<1>2. /\ rx \in Seq(Nat) /\ c \in [0 .. LineLen - 1 -> Nat] /\ i \in Nat /\ line \in Seq(Nat)
      /\ crs \in 0 .. MaxCRs /\ i = Len(line) /\ i < LineLen /\ LineLen \in Nat
      /\ \A j \in 0 .. LineLen - 1 : j < i => c[j] = line[j + 1]
  BY <1>1, ReadlineAssumption DEF LineInv, LineTypeOK, Buffered
<1>3. k \in Nat /\ k = Head(rx) /\ Owed' = OneIf(k = CR)
  BY <1>1, <1>2, TailFacts DEF Owed, OneIf
<1>. HIDE DEF k
<1>4. /\ Kept' /\ Room'
      /\ wire_in' \in Seq(Nat) /\ rx' \in Seq(Nat) /\ tx' \in Seq(Nat) /\ tsr' \in Seq(Nat)
      /\ due' \in Seq(Nat) /\ inbox' \in Seq(Nat) /\ overrun' \in BOOLEAN
  BY <1>1, <1>3, EchoFacts
<1>5. /\ line' \in Seq(Nat) /\ Len(line') = Len(line) + 1 /\ line'[Len(line) + 1] = k
      /\ \A j \in 1 .. Len(line) : line'[j] = line[j]
  BY <1>1, <1>2, <1>3, AppendProperties
<1>6. /\ c' \in [0 .. LineLen - 1 -> Nat] /\ c'[i] = k
      /\ \A j \in 0 .. LineLen - 1 : j # i => c'[j] = c[j]
  <2>1. /\ c' = [c EXCEPT ![i] = k] /\ c \in [0 .. LineLen - 1 -> Nat]
        /\ i \in 0 .. LineLen - 1 /\ k \in Nat
    BY <1>1, <1>2, <1>3
  <2>. QED  BY ONLY <2>1
<1>7. LineTypeOK'
  <2>1. i' \in Nat /\ rpc' \in {"read", "newline", "done"} /\ crs' \in 0 .. MaxCRs
    BY <1>1, <1>2
  <2>. QED  BY <2>1, <1>4, <1>5, <1>6 DEF LineTypeOK
<1>8. \A j \in 0 .. LineLen - 1 : j < i' => c'[j] = line'[j + 1]
  <2>. SUFFICES ASSUME NEW j \in 0 .. LineLen - 1, j < i + 1  PROVE c'[j] = line'[j + 1]
    BY <1>1
  <2>1. CASE j = i
    BY <2>1, <1>2, <1>5, <1>6
  <2>2. CASE j < i
    <3>1. j + 1 \in 1 .. Len(line)
      BY <2>2, <1>2
    <3>. QED  BY <3>1, <2>2, <1>2, <1>5, <1>6
  <2>. QED  BY <2>1, <2>2, <1>2
<1>9. Buffered'
  <2>1. i' = Len(line') /\ (rpc' = "read" => i' < LineLen)
    BY <1>1, <1>2, <1>5
  <2>2. rpc' # "read" => \A j \in 0 .. LineLen - 1 : ~(j >= i')
    BY <1>1, <1>2
  <2>. QED  BY <2>1, <2>2, <1>8 DEF Buffered
<1>. QED  BY <1>4, <1>7, <1>9 DEF LineInv

LEMMA ReadCRInv == ASSUME LineInv, ReadCR  PROVE LineInv'
<1>1. /\ rpc = "read" /\ rx # <<>> /\ Echo(CR) /\ c' = [j \in DOMAIN c |-> IF j >= i THEN 0 ELSE c[j]]
      /\ rpc' = "newline" /\ i' = i /\ line' = line /\ crs' = crs /\ CR \in Nat
      /\ Head(rx) = CR /\ Owed' = OneIf(CR = CR)
  BY DEF ReadCR, DataReady, CR, Owed, OneIf
<1>2. /\ Kept' /\ Room'
      /\ wire_in' \in Seq(Nat) /\ rx' \in Seq(Nat) /\ tx' \in Seq(Nat) /\ tsr' \in Seq(Nat)
      /\ due' \in Seq(Nat) /\ inbox' \in Seq(Nat) /\ overrun' \in BOOLEAN
  BY <1>1, EchoFacts
<1>3. /\ c \in [0 .. LineLen - 1 -> Nat] /\ i \in Nat /\ line \in Seq(Nat)
      /\ crs \in 0 .. MaxCRs /\ i = Len(line)
      /\ \A j \in 0 .. LineLen - 1 : j < i => c[j] = line[j + 1]
  BY DEF LineInv, LineTypeOK, Buffered
<1>4. /\ c' \in [0 .. LineLen - 1 -> Nat]
      /\ \A j \in 0 .. LineLen - 1 : c'[j] = IF j >= i THEN 0 ELSE c[j]
  BY <1>1, <1>3
<1>5. LineTypeOK'
  BY <1>1, <1>2, <1>3, <1>4 DEF LineTypeOK
<1>6. Buffered'
  <2>1. \A j \in 0 .. LineLen - 1 : j < i => c'[j] = line[j + 1]
    BY <1>3, <1>4
  <2>. QED  BY <2>1, <1>1, <1>3, <1>4 DEF Buffered
<1>. QED  BY <1>2, <1>5, <1>6 DEF LineInv

LEMMA NewlineInv == ASSUME LineInv, Newline  PROVE LineInv'
<1>1. /\ rpc = "newline" /\ rpc' = "done" /\ UNCHANGED <<c, i, line, crs>> /\ LF \in Nat
      /\ UNCHANGED <<wire_in, rx, tsr, inbox>>
  BY DEF Newline, uart_put, LF
<1>2. tx' = Append(tx, LF) /\ due' = Append(due, LF) /\ overrun' = overrun /\ Len(tx) < FifoDepth
  BY <1>1, PutHasRoom DEF Newline, uart_put
<1>3. Kept' /\ Len(tx') = Len(tx) + 1 /\ tx' \in Seq(Nat) /\ due' \in Seq(Nat)
  BY <1>1, <1>2, PutFacts
<1>4. LineTypeOK'
  BY <1>1, <1>2, <1>3 DEF LineInv, LineTypeOK
<1>5. Buffered'
  BY <1>1 DEF LineInv, Buffered
<1>6. Room'
  <2>1. Len(tx) \in Nat /\ Len(rx) \in Nat /\ Coming \in Nat /\ crs \in Nat /\ Coming' = Coming
    BY <1>1, LineNumbers DEF LineInv, Coming
  <2>2. Owed = 1 /\ Owed' = 0
    BY <1>1 DEF Owed
  <2>. QED  BY <2>1, <2>2, <1>1, <1>3 DEF LineInv, Room
<1>. QED  BY <1>3, <1>4, <1>5, <1>6 DEF LineInv

LEMMA NextLineInv == ASSUME LineInv, NextLine  PROVE LineInv'
<1>1. /\ i' = 0 /\ rpc = "done" /\ rpc' = "read" /\ line' = <<>>
      /\ UNCHANGED <<wire_in, rx, tx, tsr, due, inbox, overrun, c, crs>>
      /\ LineLen \in Nat \ {0}
  BY ReadlineAssumption DEF NextLine, uartVars
<1>2. LineTypeOK' /\ Kept'
  BY <1>1, Z3 DEF LineInv, LineTypeOK, Kept
<1>3. Buffered'
  BY <1>1 DEF Buffered
<1>4. Room'
  BY <1>1 DEF LineInv, Room, Coming, Owed
<1>. QED  BY <1>2, <1>3, <1>4 DEF LineInv

LEMMA PressInv == ASSUME LineInv, NEW k \in Chars \cup {CR}, Press(k)  PROVE LineInv'
<1>. DEFINE one == OneIf(k = CR)
<1>1. /\ wire_in' = wire_in \o <<k>> /\ crs' <= MaxCRs
      /\ crs' = (IF CaughtUp THEN 0 ELSE crs) + one
      /\ UNCHANGED <<rx, tx, tsr, due, inbox, overrun, c, i, rpc, line>>
  BY DEF Press, HostWrite, OneIf
<1>2. k \in Nat
  BY ReadlineAssumption DEF CR
<1>3. /\ wire_in \in Seq(Nat) /\ Len(tx) \in Nat /\ Len(rx) \in Nat /\ Owed \in {0, 1}
      /\ CRsIn(rx) \in Nat /\ CRsIn(wire_in) \in Nat /\ crs \in Nat /\ one \in {0, 1}
      /\ MaxCRs \in Nat
  BY LineNumbers DEF LineInv, LineTypeOK, OneIf
<1>. HIDE DEF one
<1>4. wire_in' \in Seq(Nat) /\ CRsIn(wire_in') = CRsIn(wire_in) + one
  <2>1. wire_in' = Append(wire_in, k) /\ Append(wire_in, k) \in Seq(Nat)
    BY <1>1, <1>2, <1>3, AppendIsConcat
  <2>. QED  BY <2>1, <1>2, <1>3, CRsAppend DEF one
<1>5. LineTypeOK'
  <2>1. crs' \in 0 .. MaxCRs
    BY <1>1, <1>3
  <2>. QED  BY <2>1, <1>1, <1>4 DEF LineInv, LineTypeOK
<1>6. Buffered' /\ Kept' /\ Owed' = Owed
  BY <1>1 DEF LineInv, Buffered, Kept, Owed
<1>7. Coming' = Coming + one
  BY <1>1, <1>3, <1>4 DEF Coming
<1>8. Room'
  <2>1. CASE CaughtUp
    <3>1. Len(rx) = 0 /\ Len(tx) = 0 /\ CRsIn(rx) = 0 /\ CRsIn(wire_in) = 0
      BY <2>1, CRsEmpty DEF CaughtUp
    <3>2. Coming = 0 /\ crs' = one
      BY <3>1, <2>1, <1>1, <1>3 DEF Coming
    <3>. QED  BY <3>1, <3>2, <1>1, <1>3, <1>6, <1>7 DEF Room
  <2>2. CASE ~CaughtUp
    <3>1. crs' = crs + one /\ Coming \in Nat
      BY <2>2, <1>1, <1>3 DEF Coming
    <3>. QED  BY <3>1, <1>1, <1>3, <1>6, <1>7 DEF LineInv, Room
  <2>. QED  BY <2>1, <2>2
<1>. QED  BY <1>5, <1>6, <1>8 DEF LineInv

LEMMA SeeEchoInv == ASSUME LineInv, SeeEcho  PROVE LineInv'
<1>1. /\ Len(inbox) >= 1 /\ inbox' = SubSeq(inbox, 2, Len(inbox)) /\ due' = SubSeq(due, 2, Len(due))
      /\ UNCHANGED <<wire_in, rx, tx, tsr, overrun, c, i, rpc, line, crs>>
  BY DEF SeeEcho, HostRead
<1>2. UartTypeOK' /\ Kept'
  BY HostReadKeeps DEF SeeEcho, LineInv, LineTypeOK, UartTypeOK
<1>3. LineTypeOK'
  BY <1>1, <1>2 DEF LineInv, LineTypeOK, UartTypeOK
<1>4. Buffered' /\ Room'
  BY <1>1 DEF LineInv, Buffered, Room, Coming, Owed
<1>. QED  BY <1>2, <1>3, <1>4 DEF LineInv

LEMMA TickInv == ASSUME LineInv, ReadlineTick  PROVE LineInv'
<1>1. /\ rpc = "read" /\ rx = <<>> /\ UNCHANGED <<c, i, rpc, line, crs>> /\ Tick
  BY DEF ReadlineTick, DataReady
<1>2. /\ UartTypeOK /\ Kept /\ Len(rx) = 0 /\ FifoDepth \in Nat /\ FifoDepth > 0
      /\ Len(tx) \in Nat /\ crs \in Nat /\ CRsIn(wire_in) \in Nat
  BY <1>1, LineNumbers DEF LineInv, LineTypeOK, UartTypeOK
<1>3. UartTypeOK' /\ Kept' /\ (tx' = <<>> \/ Len(tx') = Len(tx) - 1)
  BY <1>1, <1>2, TickKeeps
<1>4. LineTypeOK'
  BY <1>1, <1>3 DEF LineInv, LineTypeOK, UartTypeOK
<1>5. Buffered'
  BY <1>1 DEF LineInv, Buffered
<1>6. Coming' = Coming /\ Len(rx') \in {0, 1}
  <2>1. CASE wire_in' = wire_in /\ rx' = rx
    BY <2>1, <1>2 DEF Coming
  <2>2. CASE wire_in # <<>> /\ wire_in' = Tail(wire_in) /\ rx' = Append(rx, Head(wire_in))
    <3>. DEFINE h == Head(wire_in)
    <3>1. wire_in \in Seq(Nat) /\ rx \in Seq(Nat) /\ h \in Nat
      BY <2>2, <1>2, TailFacts DEF UartTypeOK
    <3>2. CRsIn(wire_in) = CRsIn(wire_in') + OneIf(h = CR)
      BY <3>1, <2>2, CRsTail
    <3>3. CRsIn(rx') = CRsIn(rx) + OneIf(h = CR) /\ Len(rx') = Len(rx) + 1
      BY <3>1, <2>2, CRsAppend
    <3>4. CRsIn(rx) = 0 /\ OneIf(h = CR) \in Nat /\ CRsIn(wire_in') \in Nat
      <4>1. wire_in' \in Seq(Nat)
        BY <1>3 DEF UartTypeOK
      <4>. QED  BY <4>1, <1>1, CRsEmpty, CRsFinite DEF OneIf
    <3>. HIDE DEF h
    <3>. QED  BY <3>2, <3>3, <3>4, <1>2 DEF Coming
  <2>. QED  BY <2>1, <2>2, <1>1, <1>2 DEF Tick
<1>7. Room'
  <2>1. Coming <= crs /\ Len(tx) + Coming <= crs + 1 /\ Coming \in Nat /\ Owed' = 0
    <3>1. Owed = 0 /\ Owed' = 0 /\ Coming \in Nat
      BY <1>1, LineNumbers DEF LineInv, Owed
    <3>. QED  BY <3>1, <1>2 DEF LineInv, Room
  <2>2. tx' = <<>> => Len(tx') = 0
    OBVIOUS
  <2>3. Len(tx') = 0 \/ Len(tx') = Len(tx) - 1
    BY <2>2, <1>3
  <2>. DEFINE m == Len(rx')
  <2>4. m \in {0, 1} /\ Coming' = Coming /\ crs' = crs
    BY <1>1, <1>6
  <2>. HIDE DEF m
  <2>5. Len(tx') + Owed' + m + Coming' <= crs' + 1
    BY <2>1, <2>3, <2>4, <1>2
  <2>6. m <= 1 /\ Coming' <= crs'
    BY <2>1, <2>4
  <2>. QED  BY <2>5, <2>6 DEF Room, m
<1>. QED  BY <1>3, <1>4, <1>5, <1>7 DEF LineInv

LEMMA LineStepInv == LineInv /\ [ReadlineNext]_readlineVars => LineInv'
<1>. SUFFICES ASSUME LineInv, [ReadlineNext]_readlineVars  PROVE LineInv'
  OBVIOUS
<1>1. CASE ReadlineNext
  BY <1>1, ReadCharInv, ReadCRInv, NewlineInv, NextLineInv, TickInv, SeeEchoInv, PressInv
  DEF ReadlineNext
<1>2. CASE UNCHANGED readlineVars
  BY <1>2 DEF readlineVars, uartVars, LineInv, LineTypeOK, Buffered, Room, Coming, Owed, Kept
<1>. QED  BY <1>1, <1>2

------------------------------------------------------------------------------
(* What follows for every run. *)

\* The invariant of the echo and the buffer.
THEOREM LineInvariant == ReadlineSpec => []LineInv
<1>. QED  BY LineInitInv, LineStepInv, PTL DEF ReadlineSpec

\* readline returns the line that was typed, with nothing of earlier lines
\* behind it, however fast the keys come.
THEOREM LineIsReturned == ReadlineSpec => []LineReturned
<1>1. LineInv => LineReturned
  <2>. SUFFICES ASSUME LineInv, rpc = "done"
                PROVE  c = [k \in 0 .. LineLen - 1 |-> IF k < Len(line) THEN line[k + 1] ELSE 0]
    BY DEF LineReturned
  <2>1. c \in [0 .. LineLen - 1 -> Nat] /\ i = Len(line) /\ i \in Nat
    BY DEF LineInv, LineTypeOK, Buffered
  <2>2. \A k \in 0 .. LineLen - 1 : c[k] = IF k < Len(line) THEN line[k + 1] ELSE 0
    BY <2>1 DEF LineInv, Buffered
  <2>. QED  BY <2>1, <2>2
<1>. QED  BY <1>1, LineInvariant, PTL

\* The echo asks for no room, and yet what is echoed is what the terminal
\* gets, however long and fast one types: only the CRs must let the echo catch
\* up now and then.
THEOREM LineNothingLost == ReadlineSpec => []NothingLost /\ []Kept
<1>1. LineInv => NothingLost /\ Kept
  BY DEF LineInv, NothingLost
<1>. QED  BY <1>1, LineInvariant, PTL

------------------------------------------------------------------------------
(* The loader: the program that is started is the one that was sent, and   *)
(* no byte is lost either way although nothing holds the host back.        *)

\* The bytes of the download the kernel has not made a word of yet, and the
\* m-th word of a string of bytes.
Pending == buf \o (rx \o wire_in)
Nth(s, m) == [j \in 1 .. 4 |-> s[4 * (m - 1) + j]]

LoaderTypeOK ==
  /\ UartTypeOK
  /\ kpc \in {"print", "word", "running"} /\ offset \in 1 .. Len(message) + 1
  /\ buf \in Seq(Nat) /\ Len(buf) <= 4 /\ opened \in BOOLEAN
  /\ image \in Seq(Words) /\ Len(image) <= MaxImage

\* A whole download is pending, behind e words of something else.
Awaits(e) ==
  /\ Len(Pending) = 4 * (Len(image) + 2 + e)
  /\ e = 1 => Nth(Pending, 1) \in Words
  /\ Nth(Pending, e + 1) = Magic
  /\ \A m \in 1 .. Len(image) : Nth(Pending, e + 1 + m) = image[m]
  /\ Nth(Pending, e + Len(image) + 2) = Magic

\* Before the magic word.
Closed ==
  /\ ~opened /\ kpc \in {"print", "word"}
  /\ \/ message = Greeting /\ next = "word"
     \/ message = Sad /\ next = "restart" /\ kpc = "print" /\ Awaits(0)
  /\ Pending = <<>> \/ Awaits(0) \/ Awaits(1)

\* Between the magic words: what is stored and what is pending make the image.
Loads ==
  /\ opened /\ kpc = "word" /\ next = "word"
  /\ ram \in Seq(Words) /\ Len(ram) <= Len(image)
  /\ \A m \in 1 .. Len(ram) : ram[m] = image[m]
  /\ Len(Pending) = 4 * (Len(image) - Len(ram) + 1)
  /\ \A m \in 1 .. Len(image) - Len(ram) : Nth(Pending, m) = image[Len(ram) + m]
  /\ Nth(Pending, Len(image) - Len(ram) + 1) = Magic

\* After the last one.
Runs ==
  /\ opened /\ kpc \in {"print", "running"} /\ message = Loaded /\ next = "running"
  /\ ram = image /\ Pending = <<>>

Junk == ~opened /\ Len(Pending) = 4 * (Len(image) + 3)

\* For each byte that has arrived of a word that is not the magic one, one of
\* the greeting has gone out: that is how long it takes for Sad to be printed.
Hears ==
  kpc = "word" =>
    /\ Len(tx) <= Len(Greeting)
    /\ Junk => /\ Len(buf) + Len(rx) <= 4
               /\ tx = <<>> \/ Len(tx) + Len(buf) + Len(rx) <= Len(Greeting)

\* While the kernel waits for the transmit FIFO to drain, a byte arrives for
\* each that goes out.
Prints ==
  kpc = "print" =>
    /\ buf = <<>>
    /\ offset > 1 => Len(tx) = offset - 1
    /\ next = "word" =>
         /\ Junk => rx = <<>>
         /\ offset = 1 => \/ tx = <<>> /\ rx = <<>>
                          \/ Awaits(0) /\ Len(rx) + Len(tx) <= Len(Greeting) - 4 + Len(Sad)
    /\ next = "restart" =>
         /\ Len(rx) <= Len(Greeting) - 4
         /\ offset = 1 => Len(rx) + Len(tx) <= Len(Greeting) - 4

TidyInv == LoaderTypeOK /\ Kept /\ (Closed \/ Loads \/ Runs) /\ Hears /\ Prints

\* What remains true when a reset has cut a download in two.
Outgoing ==
  /\ inbox \in Seq(Nat) /\ tsr \in Seq(Nat) /\ tx \in Seq(Nat)
  /\ message \in Seq(Nat) /\ offset \in Nat \ {0}
  /\ image \in Seq(Words) /\ Len(image) <= MaxImage

\* The next reset on a quiet line finds enough in it to put all in order.
LoaderInv == Outgoing /\ (cut \/ TidyInv)

------------------------------------------------------------------------------
(* Words and bytes. *)

LEMMA MessageFacts ==
  /\ Greeting \in Seq(Nat) /\ Loaded \in Seq(Nat) /\ Sad \in Seq(Nat)
  /\ FifoDepth \in Nat /\ Len(Greeting) \in Nat /\ Len(Loaded) \in Nat /\ Len(Sad) \in Nat
  /\ Len(Greeting) >= 4 /\ Len(Greeting) <= FifoDepth
  /\ Len(Loaded) >= 1 /\ Len(Loaded) <= FifoDepth
  /\ Len(Sad) >= 1 /\ Len(Sad) <= FifoDepth /\ Len(Greeting) - 4 + Len(Sad) <= FifoDepth
<1>1. Greeting \in Seq(Nat) /\ Loaded \in Seq(Nat) /\ Sad \in Seq(Nat) /\ FifoDepth \in Nat
  BY LoaderAssumption, UartAssumption
<1>2. Len(Greeting) \in Nat /\ Len(Loaded) \in Nat /\ Len(Sad) \in Nat
  BY <1>1
<1>. QED  BY <1>1, <1>2, LoaderAssumption

LEMMA FunIsSeq ==
  ASSUME NEW n \in Nat, NEW f \in [1 .. n -> Nat]
  PROVE  f \in Seq(Nat) /\ Len(f) = n
<1>1. f \in Seq(Nat)
  BY SeqDef
<1>. QED  BY <1>1, LenProperties

\* A word is four bytes, and the magic one is none of an image.
LEMMA WordFacts ==
  /\ Len(Magic) = 4 /\ Magic \in Seq(Nat) /\ Magic \notin Words
  /\ \A x \in Words \cup {Magic} : x \in [1 .. 4 -> 0 .. 255]
<1>1. Magic \in [1 .. 4 -> 0 .. 255] /\ Words \subseteq [1 .. 4 -> 0 .. 255] \ {Magic}
  BY LoaderAssumption
<1>2. Magic \in Seq(Nat) /\ Len(Magic) = 4
  <2>1. Magic \in [1 .. 4 -> Nat]
    BY <1>1
  <2>. QED  BY <2>1, FunIsSeq
<1>. QED  BY <1>1, <1>2

LEMMA ConcatFacts ==
  ASSUME NEW a \in Seq(Nat), NEW b \in Seq(Nat), NEW d, d = a \o b
  PROVE  /\ d \in Seq(Nat) /\ Len(d) = Len(a) + Len(b) /\ Len(a) \in Nat /\ Len(b) \in Nat
         /\ \A k \in 1 .. Len(a) + Len(b) : d[k] = IF k <= Len(a) THEN a[k] ELSE b[k - Len(a)]
BY ConcatProperties

\* The first word taken off, the others move up.
LEMMA NthFirst ==
  ASSUME NEW b \in Seq(Nat), NEW r \in Seq(Nat), Len(b) = 4, NEW s, s = b \o r
  PROVE  Len(s) = Len(r) + 4 /\ Nth(s, 1) = b
<1>1. /\ Len(s) = Len(b) + Len(r) /\ Len(r) \in Nat
      /\ \A k \in 1 .. Len(b) + Len(r) : s[k] = IF k <= Len(b) THEN b[k] ELSE r[k - Len(b)]
  BY ConcatFacts
<1>2. \A j \in 1 .. 4 : s[4 * (1 - 1) + j] = b[j]
  BY <1>1
<1>3. b = [j \in 1 .. 4 |-> b[j]]
  OBVIOUS
<1>. QED  BY <1>1, <1>2, <1>3 DEF Nth

\* The words of r are those of s, but for the first.
MovedUp(r, s) == \A m \in Nat : m >= 1 /\ 4 * m <= Len(r) => Nth(r, m) = Nth(s, m + 1)

LEMMA NthMoves ==
  ASSUME NEW b \in Seq(Nat), NEW r \in Seq(Nat), Len(b) = 4, NEW s, s = b \o r
  PROVE  MovedUp(r, s)
<1>. SUFFICES ASSUME NEW m \in Nat, m >= 1, 4 * m <= Len(r)
              PROVE  Nth(r, m) = Nth(s, m + 1)
  BY DEF MovedUp
<1>1. /\ Len(r) \in Nat
      /\ \A k \in 1 .. Len(b) + Len(r) : s[k] = IF k <= Len(b) THEN b[k] ELSE r[k - Len(b)]
  BY ConcatFacts
<1>2. \A j \in 1 .. 4 : s[4 * ((m + 1) - 1) + j] = r[4 * (m - 1) + j]
  <2>. SUFFICES ASSUME NEW j \in 1 .. 4
                PROVE  s[4 * ((m + 1) - 1) + j] = r[4 * (m - 1) + j]
    OBVIOUS
  <2>. DEFINE k == 4 * ((m + 1) - 1) + j
  <2>1. k \in 1 .. Len(b) + Len(r) /\ ~(k <= Len(b)) /\ k - Len(b) = 4 * (m - 1) + j
    BY <1>1
  <2>. HIDE DEF k
  <2>2. s[k] = r[k - Len(b)]
    BY <2>1, <1>1
  <2>. QED  BY <2>1, <2>2 DEF k
<1>. QED  BY <1>2 DEF Nth

LEMMA Quarter ==
  ASSUME NEW q \in Nat, NEW d \in 0 .. 3
  PROVE  (4 * q + d) \div 4 = q /\ (4 * q + d) % 4 = d
OBVIOUS

\* Bytes makes a string of bytes of the words that Nth finds in it again.
LEMMA BytesFacts ==
  ASSUME NEW ws \in Seq([1 .. 4 -> 0 .. 255])
  PROVE  /\ Bytes(ws) \in Seq(Nat) /\ Len(Bytes(ws)) = 4 * Len(ws)
         /\ \A m \in 1 .. Len(ws) : Nth(Bytes(ws), m) = ws[m]
<1>. DEFINE n == Len(ws)
            f == [k \in 1 .. n * 4 |-> ws[((k - 1) \div 4) + 1][((k - 1) % 4) + 1]]
<1>1. n \in Nat /\ \A m \in 1 .. n : ws[m] \in [1 .. 4 -> 0 .. 255]
  OBVIOUS
<1>2. Bytes(ws) = f
  BY WordFacts DEF Bytes
<1>. HIDE DEF n
<1>3. \A k \in 1 .. n * 4 : ((k - 1) \div 4) + 1 \in 1 .. n /\ ((k - 1) % 4) + 1 \in 1 .. 4
  BY <1>1
<1>4. ASSUME NEW k \in 1 .. n * 4
      PROVE  ws[((k - 1) \div 4) + 1][((k - 1) % 4) + 1] \in Nat
  <2>. DEFINE q == ((k - 1) \div 4) + 1
              d == ((k - 1) % 4) + 1
  <2>1. q \in 1 .. n /\ d \in 1 .. 4
    BY <1>3
  <2>. HIDE DEF q, d
  <2>2. ws[q][d] \in Nat
    <3>1. ws[q][d] \in 0 .. 255
      BY <2>1, <1>1
    <3>2. \A x \in 0 .. 255 : x \in Nat
      OBVIOUS
    <3>. QED  BY ONLY <3>1, <3>2
  <2>. QED  BY <2>2 DEF q, d
<1>5. f \in [1 .. n * 4 -> Nat]
  BY <1>4
<1>6. f \in Seq(Nat) /\ Len(f) = 4 * n
  <2>. HIDE DEF f
  <2>1. n * 4 \in Nat /\ n * 4 = 4 * n
    BY <1>1
  <2>. QED  BY <2>1, <1>5, FunIsSeq
<1>7. ASSUME NEW m \in 1 .. n  PROVE Nth(f, m) = ws[m]
  <2>1. ASSUME NEW j \in 1 .. 4
        PROVE  f[4 * (m - 1) + j] = ws[m][j]
    <3>. DEFINE k == 4 * (m - 1) + j
    <3>1. m \in Nat /\ m >= 1 /\ m <= n
      BY <1>1
    <3>2. k \in 1 .. n * 4 /\ (k - 1) \div 4 = m - 1 /\ (k - 1) % 4 = j - 1
      <4>1. m - 1 \in Nat /\ j - 1 \in 0 .. 3 /\ k - 1 = 4 * (m - 1) + (j - 1)
        BY <3>1
      <4>2. (k - 1) \div 4 = m - 1 /\ (k - 1) % 4 = j - 1
        BY <4>1, Quarter
      <4>. QED  BY <4>2, <3>1, <1>1
    <3>. HIDE DEF k
    <3>3. f[k] = ws[((k - 1) \div 4) + 1][((k - 1) % 4) + 1]
      BY <3>2
    <3>4. ((k - 1) \div 4) + 1 = m /\ ((k - 1) % 4) + 1 = j
      BY <3>1, <3>2
    <3>. QED  BY <3>3, <3>4 DEF k
  <2>. HIDE DEF f
  <2>2. ws[m] = [j \in 1 .. 4 |-> ws[m][j]]
    BY <1>1
  <2>. QED  BY <2>1, <2>2 DEF Nth
<1>. QED  BY <1>2, <1>6, <1>7 DEF n

------------------------------------------------------------------------------
(* The steps of the kernel. *)

\* What a step that changes neither the pending bytes nor the image keeps.
LEMMA StagesKeep ==
  ASSUME Pending' = Pending, image' = image
  PROVE  /\ (Awaits(0)' <=> Awaits(0)) /\ (Awaits(1)' <=> Awaits(1))
         /\ opened' = opened => (Junk' <=> Junk)
BY DEF Awaits, Junk

LEMMA PendingFacts ==
  ASSUME LoaderTypeOK
  PROVE  /\ rx \o wire_in \in Seq(Nat) /\ Pending \in Seq(Nat)
         /\ Len(rx) \in Nat /\ Len(tx) \in Nat /\ Len(buf) \in Nat /\ Len(wire_in) \in Nat
         /\ Len(rx \o wire_in) = Len(rx) + Len(wire_in)
         /\ Len(Pending) = Len(buf) + Len(rx) + Len(wire_in)
         /\ Len(image) \in Nat
<1>1. /\ rx \in Seq(Nat) /\ wire_in \in Seq(Nat) /\ buf \in Seq(Nat) /\ tx \in Seq(Nat)
      /\ image \in Seq(Words)
  BY DEF LoaderTypeOK, UartTypeOK
<1>. DEFINE a == rx \o wire_in
<1>2. a \in Seq(Nat) /\ Len(a) = Len(rx) + Len(wire_in)
  BY <1>1
<1>. HIDE DEF a
<1>3. buf \o a \in Seq(Nat) /\ Len(buf \o a) = Len(buf) + Len(a)
  BY <1>1, <1>2, ConcatProperties
<1>. QED  BY <1>1, <1>2, <1>3 DEF Pending, a

LEMMA LoaderInitInv == LoaderInit => LoaderInv
<1>. SUFFICES ASSUME LoaderInit  PROVE LoaderInv
  OBVIOUS
<1>1. /\ UartInit /\ rx = <<>> /\ wire_in = <<>> /\ tx = <<>>
      /\ kpc = "print" /\ message = Greeting /\ offset = 1 /\ next = "word"
      /\ buf = <<>> /\ opened = FALSE /\ ram = <<>> /\ image = <<>>
  BY DEF LoaderInit, UartInit
<1>2. UartTypeOK /\ Kept
  BY <1>1, UartInitFacts
<1>3. LoaderTypeOK
  <2>1. buf \in Seq(Nat) /\ Len(buf) <= 4
    BY <1>1
  <2>2. image \in Seq(Words) /\ Len(image) = 0
    BY <1>1
  <2>3. Len(image) <= MaxImage
    BY <2>2, LoaderAssumption
  <2>4. offset \in 1 .. Len(message) + 1
    BY <1>1, MessageFacts
  <2>. QED  BY <2>1, <2>2, <2>3, <2>4, <1>1, <1>2 DEF LoaderTypeOK
<1>4. Pending = <<>> /\ Closed
  BY <1>1 DEF Pending, Closed
<1>5. Hears /\ Prints
  <2>1. ~Junk
    BY <1>1, <1>4 DEF Junk
  <2>. QED  BY <2>1, <1>1 DEF Hears, Prints
<1>6. Outgoing
  BY <1>1, <1>2, <1>3, MessageFacts DEF Outgoing, LoaderTypeOK, UartTypeOK
<1>. QED  BY <1>2, <1>3, <1>4, <1>5, <1>6 DEF LoaderInv, TidyInv

LEMMA ReturnInv == ASSUME TidyInv, Return  PROVE TidyInv'
<1>. USE DEF TidyInv
<1>1. /\ kpc = "print" /\ offset > Len(message) /\ buf = <<>>
      /\ UNCHANGED <<wire_in, rx, tx, tsr, due, inbox, overrun, ram, image>>
  BY DEF Return, Prints, uartVars, download
<1>2. UartTypeOK' /\ Kept'
  BY <1>1 DEF LoaderTypeOK, UartTypeOK, Kept
<1>3. Closed \/ Runs
  BY <1>1 DEF Loads
<1>4. message \in {Greeting, Sad, Loaded} /\ Len(message) \in Nat /\ Len(message) >= 1
  BY <1>3, MessageFacts DEF Closed, Runs
<1>5. offset = Len(message) + 1 /\ offset > 1 /\ Len(tx) = Len(message)
  BY <1>1, <1>4 DEF LoaderTypeOK, Prints
<1>6. CASE next = "restart"
  <2>1. /\ kpc' = "print" /\ message' = Greeting /\ offset' = 1 /\ next' = "word"
        /\ buf' = <<>> /\ opened' = FALSE
    BY <1>6 DEF Return, Start, uart_print
  <2>2. message = Sad /\ ~opened /\ Awaits(0)
    BY <1>3, <1>6 DEF Closed, Runs
  <2>3. Pending' = Pending
    BY <1>1, <2>1 DEF Pending
  <2>4. Awaits(0)' /\ ~Junk'
    BY <2>2, <2>3, <1>1, StagesKeep, PendingFacts DEF Awaits, Junk
  <2>5. LoaderTypeOK'
    <3>1. offset' \in 1 .. Len(message') + 1
      BY <2>1, MessageFacts
    <3>2. buf' \in Seq(Nat) /\ Len(buf') <= 4
      BY <2>1
    <3>. QED  BY <3>1, <3>2, <1>1, <1>2, <2>1 DEF LoaderTypeOK
  <2>6. Closed' /\ Hears'
    BY <2>1, <2>4 DEF Closed, Hears
  <2>7. Prints'
    <3>1. Len(rx) <= Len(Greeting) - 4 /\ Len(tx) = Len(Sad) /\ Len(rx) \in Nat
      BY <1>1, <1>5, <1>6, <2>2, PendingFacts DEF Prints
    <3>2. Len(rx) + Len(tx) <= Len(Greeting) - 4 + Len(Sad)
      BY <3>1, MessageFacts
    <3>. QED  BY <3>2, <2>1, <2>4, <1>1 DEF Prints
  <2>. QED  BY <1>2, <2>5, <2>6, <2>7
<1>7. CASE next # "restart"
  <2>1. kpc' = next /\ UNCHANGED <<message, offset, next, buf, opened>>
    BY <1>7 DEF Return
  <2>2. Pending' = Pending
    BY <1>1, <2>1 DEF Pending
  <2>3. (Awaits(0)' <=> Awaits(0)) /\ (Awaits(1)' <=> Awaits(1)) /\ (Junk' <=> Junk)
    BY <2>1, <2>2, <1>1, StagesKeep
  <2>4. LoaderTypeOK'
    BY <1>1, <1>2, <1>3, <1>7, <2>1 DEF LoaderTypeOK, Closed, Runs
  <2>5. CASE Closed
    <3>1. next = "word" /\ message = Greeting
      BY <2>5, <1>7 DEF Closed
    <3>2. Closed'
      BY <3>1, <2>1, <2>2, <2>3, <2>5 DEF Closed
    <3>3. Hears'
      <4>1. Len(tx) = Len(Greeting) /\ Len(Greeting) \in Nat /\ (Junk => rx = <<>>) /\ buf = <<>>
        BY <3>1, <1>1, <1>5, MessageFacts DEF Prints
      <4>2. Len(tx) <= Len(Greeting)
        BY <4>1
      <4>3. Junk => Len(buf) + Len(rx) <= 4 /\ Len(tx) + Len(buf) + Len(rx) <= Len(Greeting)
        BY <4>1
      <4>. QED  BY <4>2, <4>3, <2>1, <2>3, <1>1 DEF Hears
    <3>4. Prints'
      BY <3>1, <2>1 DEF Prints
    <3>. QED  BY <1>2, <2>4, <3>2, <3>3, <3>4
  <2>6. CASE Runs
    <3>1. kpc' = "running" /\ Runs'
      BY <2>1, <2>2, <2>6, <1>1 DEF Runs
    <3>2. Hears' /\ Prints'
      BY <3>1 DEF Hears, Prints
    <3>. QED  BY <1>2, <2>4, <3>1, <3>2
  <2>. QED  BY <2>5, <2>6, <1>3
<1>. QED  BY <1>6, <1>7

LEMMA PrintCharInv == ASSUME TidyInv, PrintChar  PROVE TidyInv'
<1>. USE DEF TidyInv
<1>. DEFINE k == message[offset]
<1>1. /\ kpc = "print" /\ offset <= Len(message) /\ buf = <<>> /\ offset' = offset + 1
      /\ UNCHANGED <<kpc, message, next, buf, opened, ram, image>>
      /\ uart_put(k) /\ (offset = 1 => tx = <<>>)
  BY DEF PrintChar, Prints, uart_put_blocking, RoomToSend, download
<1>2. Closed \/ Runs
  BY <1>1 DEF Loads
<1>3. message \in Seq(Nat) /\ Len(message) \in Nat /\ Len(message) <= FifoDepth
  <2>1. message = Greeting \/ message = Sad \/ message = Loaded
    BY <1>2 DEF Closed, Runs
  <2>. QED  BY ONLY <2>1, MessageFacts
<1>4. offset \in 1 .. Len(message) /\ offset \in Nat
  BY <1>1, <1>3 DEF LoaderTypeOK
<1>5. k \in Nat
  BY <1>3, <1>4
<1>6. Len(tx) = offset - 1
  <2>1. tx = <<>> => Len(tx) = 0
    OBVIOUS
  <2>. QED  BY <2>1, <1>1, <1>4 DEF Prints
<1>. HIDE DEF k
<1>7. Len(tx) < FifoDepth
  BY <1>3, <1>4, <1>6, MessageFacts
<1>8. UartTypeOK' /\ Kept' /\ Len(tx') = Len(tx) + 1 /\ UNCHANGED <<wire_in, rx>>
  BY <1>1, <1>5, <1>7, PutKeeps DEF LoaderTypeOK
<1>9. Pending' = Pending
  BY <1>1, <1>8 DEF Pending
<1>10. (Awaits(0)' <=> Awaits(0)) /\ (Awaits(1)' <=> Awaits(1)) /\ (Junk' <=> Junk)
  BY <1>1, <1>9, StagesKeep
<1>11. LoaderTypeOK'
  <2>1. offset' \in 1 .. Len(message') + 1
    BY <1>1, <1>3, <1>4
  <2>. QED  BY <2>1, <1>1, <1>8 DEF LoaderTypeOK
<1>12. Closed' \/ Runs'
  BY <1>1, <1>2, <1>9, <1>10 DEF Closed, Runs
<1>13. Hears'
  BY <1>1 DEF Hears
<1>14. Prints'
  <2>1. offset' > 1 /\ offset' # 1 /\ Len(tx') = offset' - 1
    BY <1>1, <1>4, <1>6, <1>8
  <2>. QED  BY <2>1, <1>1, <1>8, <1>10 DEF Prints
<1>. QED  BY <1>8, <1>11, <1>12, <1>13, <1>14

LEMMA ReadWordInv == ASSUME TidyInv, uart_read_word  PROVE TidyInv'
<1>. USE DEF TidyInv
<1>. DEFINE h == Head(rx)
            r == rx'
<1>1. /\ kpc = "word" /\ Len(buf) < 4 /\ uart_read_blocking /\ buf' = Append(buf, h)
      /\ UNCHANGED <<kpc, message, offset, next, opened, ram, image>>
  BY WordFacts DEF uart_read_word, download
<1>2. /\ UartTypeOK' /\ Kept' /\ UNCHANGED <<wire_in, tx>>
      /\ h \in Nat /\ rx = <<h>> \o r /\ Len(r) = Len(rx) - 1
  BY <1>1, ReadKeeps DEF LoaderTypeOK
<1>3. r \in Seq(Nat) /\ wire_in \in Seq(Nat) /\ buf \in Seq(Nat) /\ rx \in Seq(Nat)
  BY <1>2 DEF LoaderTypeOK, UartTypeOK
<1>. HIDE DEF h
<1>4. buf' \in Seq(Nat) /\ Len(buf') = Len(buf) + 1 /\ buf' = buf \o <<h>>
  <2>1. Append(buf, h) = buf \o <<h>> /\ Append(buf, h) \in Seq(Nat) /\ Len(Append(buf, h)) = Len(buf) + 1
    BY <1>2, <1>3, AppendIsConcat, AppendProperties
  <2>. QED  BY <2>1, <1>1
<1>5. Pending' = Pending
  <2>1. buf' \o (r \o wire_in') = (buf \o <<h>>) \o (r \o wire_in)
    BY <1>2, <1>4
  <2>. DEFINE b == buf
              a == <<h>>
              w == wire_in
              u == r \o w
  <2>2. a \in Seq(Nat) /\ b \in Seq(Nat) /\ w \in Seq(Nat) /\ u \in Seq(Nat) /\ r \in Seq(Nat)
    BY <1>2, <1>3
  <2>. HIDE DEF r, a, b, w, u
  <2>3. (b \o a) \o u = b \o (a \o u)
    BY <2>2, Assoc, SMTT(60)
  <2>4. (a \o r) \o w = a \o (r \o w)
    BY ONLY <2>2, Assoc, SMTT(60)
  <2>. QED  BY <2>1, <2>3, <2>4, <1>2 DEF Pending, a, b, w, u, r
<1>6. (Awaits(0)' <=> Awaits(0)) /\ (Awaits(1)' <=> Awaits(1)) /\ (Junk' <=> Junk)
  BY <1>1, <1>5, StagesKeep
<1>7. LoaderTypeOK'
  <2>1. Len(buf') <= 4
    BY <1>1, <1>3, <1>4
  <2>. QED  BY <2>1, <1>1, <1>2, <1>4 DEF LoaderTypeOK
<1>8. Closed' \/ Loads'
  BY <1>1, <1>5, <1>6 DEF Closed, Loads, Runs
<1>9. Hears'
  <2>1. Len(buf') + Len(rx') = Len(buf) + Len(rx) /\ Len(buf') \in Nat /\ Len(rx') \in Nat
    BY <1>2, <1>3, <1>4
  <2>2. Len(tx) + Len(buf') + Len(rx') = Len(tx) + Len(buf) + Len(rx)
    <3>1. Len(tx) \in Nat /\ Len(buf) \in Nat /\ Len(rx) \in Nat
      BY PendingFacts
    <3>. QED  BY <2>1, <3>1
  <2>. QED  BY <2>1, <2>2, <1>1, <1>2, <1>6 DEF Hears
<1>10. Prints'
  BY <1>1 DEF Prints
<1>. QED  BY <1>2, <1>7, <1>8, <1>9, <1>10

\* A complete word is the first of the pending ones; taking it moves up the
\* others.
LEMMA WordTaken ==
  ASSUME LoaderTypeOK, Len(buf) = 4, buf' = <<>>, UNCHANGED <<uartVars, image>>
  PROVE  /\ Len(Pending) = Len(Pending') + 4 /\ Len(Pending') \in Nat
         /\ Len(Pending') = Len(rx) + Len(wire_in)
         /\ Pending' \in Seq(Nat)
         /\ Nth(Pending, 1) = buf /\ MovedUp(Pending', Pending)
         /\ LoaderTypeOK' <=> LoaderTypeOK /\ offset' \in 1 .. Len(message') + 1
                              /\ kpc' \in {"print", "word", "running"} /\ opened' \in BOOLEAN
         /\ Kept' <=> Kept
<1>1. UNCHANGED <<wire_in, rx, tx, tsr, due, inbox, overrun>>
  BY DEF uartVars
<1>. DEFINE a == rx \o wire_in
            p == Pending'
            s == Pending
<1>2. a \in Seq(Nat) /\ buf \in Seq(Nat) /\ Len(a) = Len(rx) + Len(wire_in) /\ Len(a) \in Nat
  BY PendingFacts DEF LoaderTypeOK
<1>3. s = buf \o a
  BY DEF Pending
<1>4. p = a
  <2>1. p = <<>> \o (rx' \o wire_in')
    BY DEF Pending
  <2>2. p = <<>> \o a
    BY <2>1, <1>1
  <2>. HIDE DEF a, p
  <2>. QED  BY <2>2, <1>2, ConcatEmptySeq
<1>. HIDE DEF s, p, a
<1>5. Len(s) = Len(a) + 4 /\ Nth(s, 1) = buf /\ MovedUp(a, s)
  <2>. DEFINE b == buf
  <2>1. b \in Seq(Nat) /\ Len(b) = 4 /\ s = b \o a
    BY <1>2, <1>3
  <2>. HIDE DEF b
  <2>2. Len(s) = Len(a) + 4 /\ Nth(s, 1) = b
    BY ONLY <1>2, <2>1, NthFirst
  <2>3. MovedUp(a, s)
    BY ONLY <1>2, <2>1, NthMoves
  <2>. QED  BY <2>2, <2>3 DEF b
<1>6. /\ LoaderTypeOK' <=> LoaderTypeOK /\ offset' \in 1 .. Len(message') + 1
                           /\ kpc' \in {"print", "word", "running"} /\ opened' \in BOOLEAN
      /\ Kept' <=> Kept
  <2>1. buf' \in Seq(Nat) /\ Len(buf') <= 4
    OBVIOUS
  <2>. QED  BY <2>1, <1>1 DEF LoaderTypeOK, UartTypeOK, Kept
<1>. QED  BY <1>2, <1>4, <1>5, <1>6 DEF s, p

LEMMA FirstMagicInv == ASSUME TidyInv, FirstMagic  PROVE TidyInv'
<1>. USE DEF TidyInv
<1>. DEFINE n == Len(image)
            p == Pending'
<1>1. /\ ~opened /\ kpc = "word" /\ buf = Magic /\ buf' = <<>> /\ opened' = TRUE /\ ram' = <<>>
      /\ UNCHANGED <<uartVars, kpc, message, offset, next, image>> /\ tx' = tx
  BY DEF FirstMagic, Word, uartVars, download
<1>2. Len(buf) = 4
  BY <1>1, WordFacts
<1>3. /\ Len(Pending) = Len(p) + 4 /\ Len(p) \in Nat /\ Nth(Pending, 1) = buf
      /\ MovedUp(p, Pending) /\ LoaderTypeOK' /\ Kept'
  <2>1. offset' \in 1 .. Len(message') + 1 /\ kpc' \in {"print", "word", "running"} /\ opened' \in BOOLEAN
    BY <1>1 DEF LoaderTypeOK
  <2>. QED  BY <1>1, <1>2, <2>1, WordTaken
<1>4. Awaits(0) /\ next = "word" /\ n \in Nat
  <2>1. Pending # <<>>
    BY <1>3
  <2>2. ~Awaits(1)
    BY <1>1, <1>3, WordFacts DEF Awaits
  <2>. QED  BY <2>1, <2>2, <1>1, PendingFacts DEF Closed, Loads, Runs
<1>. HIDE DEF p
<1>5. Len(p) = 4 * (n + 1)
  BY <1>3, <1>4 DEF Awaits
<1>6. \A m \in 1 .. n + 1 : Nth(p, m) = Nth(Pending, m + 1)
  BY <1>4, <1>5, <1>3 DEF MovedUp
<1>7. Loads'
  <2>1. ASSUME NEW m \in 1 .. n  PROVE Nth(p, m) = image[m]
    <3>1. m \in 1 .. n + 1 /\ m + 1 = 0 + 1 + m
      BY <1>4
    <3>2. Nth(Pending, 0 + 1 + m) = image[m]
      BY <1>4 DEF Awaits
    <3>. QED  BY <3>1, <3>2, <1>6
  <2>2. Nth(p, n + 1) = Magic
    <3>1. n + 1 \in 1 .. n + 1 /\ (n + 1) + 1 = 0 + n + 2
      BY <1>4
    <3>2. Nth(Pending, 0 + n + 2) = Magic
      BY <1>4 DEF Awaits
    <3>. QED  BY <3>1, <3>2, <1>6
  <2>3. Len(ram') = 0 /\ n - Len(ram') = n /\ \A m \in 1 .. n : Len(ram') + m = m
    BY <1>1, <1>4
  <2>. QED  BY <2>1, <2>2, <2>3, <1>1, <1>4, <1>5 DEF Loads, p
<1>8. Hears' /\ Prints'
  BY <1>1 DEF Hears, Prints, Junk
<1>. QED  BY <1>3, <1>7, <1>8

LEMMA NoMagicInv == ASSUME TidyInv, NoMagic  PROVE TidyInv'
<1>. USE DEF TidyInv
<1>. DEFINE n == Len(image)
            p == Pending'
<1>1. /\ ~opened /\ kpc = "word" /\ buf # Magic /\ Len(buf) = 4 /\ buf' = <<>>
      /\ kpc' = "print" /\ message' = Sad /\ offset' = 1 /\ next' = "restart"
      /\ UNCHANGED <<uartVars, opened, ram, image>> /\ tx' = tx /\ rx' = rx
  BY WordFacts DEF NoMagic, Word, uart_print, uartVars, download
<1>2. /\ Len(Pending) = Len(p) + 4 /\ Len(p) \in Nat /\ Nth(Pending, 1) = buf
      /\ MovedUp(p, Pending) /\ LoaderTypeOK' /\ Kept'
  <2>1. offset' \in 1 .. Len(message') + 1 /\ kpc' \in {"print", "word", "running"}
    BY <1>1, MessageFacts
  <2>2. opened' \in BOOLEAN
    BY <1>1 DEF LoaderTypeOK
  <2>. QED  BY <1>1, <2>1, <2>2, WordTaken
<1>3. Awaits(1) /\ n \in Nat
  <2>1. Pending # <<>>
    BY <1>2
  <2>2. ~Awaits(0)
    BY <1>1, <1>2 DEF Awaits
  <2>. QED  BY <2>1, <2>2, <1>1, PendingFacts DEF Closed, Loads, Runs
<1>4. Junk
  BY <1>1, <1>3 DEF Awaits, Junk
<1>. HIDE DEF p
<1>5. Len(p) = 4 * (n + 2)
  BY <1>2, <1>3 DEF Awaits
<1>6. \A m \in 1 .. n + 2 : Nth(p, m) = Nth(Pending, m + 1)
  BY <1>2, <1>3, <1>5 DEF MovedUp
<1>7. Awaits(0)'
  <2>1. ASSUME NEW m \in 1 .. n  PROVE Nth(p, 0 + 1 + m) = image[m]
    <3>1. 0 + 1 + m \in 1 .. n + 2 /\ (0 + 1 + m) + 1 = 1 + 1 + m
      BY <1>3
    <3>2. Nth(Pending, 1 + 1 + m) = image[m]
      BY <1>3 DEF Awaits
    <3>. QED  BY <3>1, <3>2, <1>6
  <2>2. Nth(p, 0 + n + 2) = Magic
    <3>1. 0 + n + 2 \in 1 .. n + 2 /\ (0 + n + 2) + 1 = 1 + n + 2
      BY <1>3
    <3>2. Nth(Pending, 1 + n + 2) = Magic
      BY <1>3 DEF Awaits
    <3>. QED  BY <3>1, <3>2, <1>6
  <2>3. Nth(p, 0 + 1) = Magic
    <3>1. 0 + 1 \in 1 .. n + 2 /\ (0 + 1) + 1 = 1 + 1
      BY <1>3
    <3>2. Nth(Pending, 1 + 1) = Magic
      BY <1>3 DEF Awaits
    <3>. QED  BY <3>1, <3>2, <1>6
  <2>4. Len(p) = 4 * (n + 2 + 0)
    BY <1>3, <1>5
  <2>. QED  BY <2>1, <2>2, <2>3, <2>4, <1>1 DEF Awaits, p
<1>8. Closed'
  BY <1>1, <1>7 DEF Closed
<1>9. Hears'
  BY <1>1 DEF Hears
<1>10. Prints'
  <2>1. /\ Len(tx) \in Nat /\ Len(rx) \in Nat /\ Len(buf) + Len(rx) <= 4
        /\ tx = <<>> \/ Len(tx) + Len(buf) + Len(rx) <= Len(Greeting)
    BY <1>1, <1>4, PendingFacts DEF Hears
  <2>2. Len(rx) = 0 /\ Len(tx) <= Len(Greeting) - 4
    <3>1. tx = <<>> => Len(tx) = 0
      OBVIOUS
    <3>. QED  BY <2>1, <3>1, <1>1, MessageFacts
  <2>3. Len(rx) <= Len(Greeting) - 4 /\ Len(rx) + Len(tx) <= Len(Greeting) - 4
    BY <2>1, <2>2, MessageFacts
  <2>. QED  BY <2>3, <1>1 DEF Prints
<1>. QED  BY <1>2, <1>8, <1>9, <1>10

LEMMA LastMagicInv == ASSUME TidyInv, LastMagic  PROVE TidyInv'
<1>. USE DEF TidyInv
<1>. DEFINE n == Len(image) - Len(ram)
            p == Pending'
<1>1. /\ opened /\ kpc = "word" /\ buf = Magic /\ buf' = <<>>
      /\ kpc' = "print" /\ message' = Loaded /\ offset' = 1 /\ next' = "running"
      /\ UNCHANGED <<uartVars, opened, ram, image>>
  BY DEF LastMagic, Word, uart_print, download
<1>2. Len(buf) = 4
  BY <1>1, WordFacts
<1>3. /\ Len(Pending) = Len(p) + 4 /\ Len(p) \in Nat /\ Nth(Pending, 1) = buf
      /\ LoaderTypeOK' /\ Kept'
  <2>1. offset' \in 1 .. Len(message') + 1 /\ kpc' \in {"print", "word", "running"}
    BY <1>1, MessageFacts
  <2>2. opened' \in BOOLEAN
    BY <1>1 DEF LoaderTypeOK
  <2>. QED  BY <1>1, <1>2, <2>1, <2>2, WordTaken
<1>4. Loads /\ n \in Nat /\ Len(ram) \in Nat
  BY <1>1, PendingFacts DEF Closed, Runs, Loads
<1>5. n = 0
  <2>. SUFFICES ASSUME n >= 1  PROVE FALSE
    BY <1>4
  <2>1. Nth(Pending, 1) = image[Len(ram) + 1]
    BY <1>4 DEF Loads
  <2>2. image[Len(ram) + 1] \in Words
    BY <1>4, PendingFacts DEF LoaderTypeOK
  <2>. QED  BY <2>1, <2>2, <1>1, <1>3, WordFacts
<1>6. ram = image
  <2>1. ram \in Seq(Words) /\ image \in Seq(Words) /\ Len(ram) = Len(image)
    BY <1>4, <1>5, PendingFacts DEF LoaderTypeOK, Loads
  <2>. QED  BY <2>1, <1>4, SeqEqual DEF Loads
<1>7. p = <<>>
  <2>1. Len(p) = 0
    BY <1>3, <1>4, <1>5 DEF Loads
  <2>2. p \in Seq(Nat)
    BY <1>1, <1>2, WordTaken
  <2>. HIDE DEF p
  <2>. QED  BY <2>1, <2>2
<1>8. Runs'
  BY <1>1, <1>6, <1>7 DEF Runs
<1>9. Hears' /\ Prints'
  BY <1>1 DEF Hears, Prints
<1>. QED  BY <1>3, <1>8, <1>9

LEMMA StoreInv == ASSUME TidyInv, Store  PROVE TidyInv'
<1>. USE DEF TidyInv
<1>. DEFINE n == Len(image) - Len(ram)
            p == Pending'
<1>1. /\ opened /\ kpc = "word" /\ buf # Magic /\ Len(buf) = 4 /\ buf' = <<>>
      /\ ram' = Append(ram, buf) /\ UNCHANGED <<uartVars, opened, image>> /\ tx' = tx
  BY WordFacts DEF Store, Word, uartVars, download
<1>2. Loads /\ n \in Nat /\ Len(ram) \in Nat /\ Len(image) \in Nat
  BY <1>1, PendingFacts DEF Closed, Runs, Loads
<1>3. Nth(Pending, 1) = buf
  BY <1>1, WordTaken
<1>4. n >= 1
  <2>. SUFFICES ASSUME n = 0  PROVE FALSE
    BY <1>2
  <2>1. Nth(Pending, n + 1) = Magic
    BY <1>2 DEF Loads
  <2>. QED  BY <2>1, <1>1, <1>3
<1>5. buf = image[Len(ram) + 1] /\ buf \in Words
  <2>1. Nth(Pending, 1) = image[Len(ram) + 1]
    BY <1>2, <1>4 DEF Loads
  <2>2. image[Len(ram) + 1] \in Words
    BY <1>2, <1>4 DEF LoaderTypeOK
  <2>. QED  BY <2>1, <2>2, <1>3
<1>6. /\ ram' \in Seq(Words) /\ Len(ram') = Len(ram) + 1 /\ ram'[Len(ram) + 1] = buf
      /\ \A m \in 1 .. Len(ram) : ram'[m] = ram[m]
  <2>1. ram \in Seq(Words)
    BY <1>2 DEF Loads
  <2>. QED  BY <2>1, <1>1, <1>5, AppendProperties
<1>7. UNCHANGED <<kpc, message, offset, next>>
  <2>1. Len(ram') < MemWords
    BY <1>2, <1>4, <1>6, LoaderAssumption DEF LoaderTypeOK
  <2>. QED  BY <2>1 DEF Store
<1>8. /\ Len(Pending) = Len(p) + 4 /\ Len(p) \in Nat /\ MovedUp(p, Pending)
      /\ LoaderTypeOK' /\ Kept'
  <2>1. offset' \in 1 .. Len(message') + 1 /\ kpc' \in {"print", "word", "running"} /\ opened' \in BOOLEAN
    BY <1>1, <1>7 DEF LoaderTypeOK
  <2>. QED  BY <1>1, <2>1, <1>6, WordTaken
<1>. HIDE DEF p
<1>9. Len(p) = 4 * n
  BY <1>2, <1>8 DEF Loads
<1>10. \A m \in 1 .. n : Nth(p, m) = Nth(Pending, m + 1)
  BY <1>2, <1>8, <1>9 DEF MovedUp
<1>11. Loads'
  <2>1. Len(ram') <= Len(image) /\ Len(image) - Len(ram') + 1 = n /\ Len(image) - Len(ram') = n - 1
    BY <1>2, <1>4, <1>6
  <2>2. \A m \in 1 .. Len(ram') : ram'[m] = image[m]
    <3>1. \A m \in 1 .. Len(ram) : ram[m] = image[m]
      BY <1>2 DEF Loads
    <3>2. \A m \in 1 .. Len(ram') : m \in 1 .. Len(ram) \/ m = Len(ram) + 1
      BY <1>2, <1>6
    <3>. QED  BY <3>1, <3>2, <1>5, <1>6
  <2>3. ASSUME NEW m \in 1 .. n - 1  PROVE Nth(p, m) = image[Len(ram') + m]
    <3>1. m \in 1 .. n /\ m + 1 \in 1 .. n /\ Len(ram) + (m + 1) = Len(ram') + m
      BY <1>2, <1>6
    <3>2. Nth(Pending, m + 1) = image[Len(ram) + (m + 1)]
      BY <3>1, <1>2 DEF Loads
    <3>. QED  BY <3>1, <3>2, <1>10
  <2>4. Nth(p, n) = Magic
    <3>1. Nth(Pending, n + 1) = Magic
      BY <1>2 DEF Loads
    <3>. QED  BY <3>1, <1>2, <1>4, <1>10
  <2>5. opened' /\ kpc' = "word" /\ next' = "word" /\ image' = image /\ ram' \in Seq(Words)
    BY <1>6, <1>1, <1>2, <1>7 DEF Loads
  <2>. QED  BY <2>1, <2>2, <2>3, <2>4, <2>5, <1>9 DEF Loads, p
<1>12. Hears' /\ Prints'
  BY <1>1, <1>7 DEF Hears, Prints, Junk
<1>. QED  BY <1>8, <1>11, <1>12

LEMMA NothingPending ==
  ASSUME LoaderTypeOK, Pending = <<>>
  PROVE  buf = <<>> /\ rx = <<>> /\ wire_in = <<>>
<1>1. Len(buf) = 0 /\ Len(rx) = 0 /\ Len(wire_in) = 0
  <2>1. Len(Pending) = 0
    OBVIOUS
  <2>. QED  BY <2>1, PendingFacts
<1>2. buf \in Seq(Nat) /\ rx \in Seq(Nat) /\ wire_in \in Seq(Nat)
  BY DEF LoaderTypeOK, UartTypeOK
<1>. QED  BY <1>1, <1>2

\* Reset on a quiet line puts everything in order, reset on one that is not
\* leaves what goes out in order.
LEMMA ResetInv == ASSUME Outgoing, ResetButton  PROVE LoaderInv'
<1>1. /\ kpc' = "print" /\ message' = Greeting /\ offset' = 1 /\ next' = "word"
      /\ buf' = <<>> /\ opened' = FALSE
      /\ rx' = <<>> /\ tx' = <<>> /\ tsr' = <<>> /\ overrun' = FALSE /\ due' = inbox
      /\ cut' = (wire_in # <<>>) /\ UNCHANGED <<inbox, image>>
  BY DEF ResetButton, UartReset, Start, uart_print
<1>2. /\ inbox \in Seq(Nat) /\ image \in Seq(Words) /\ Len(image) <= MaxImage
      /\ rx' \in Seq(Nat) /\ tx' \in Seq(Nat) /\ tsr' \in Seq(Nat) /\ buf' \in Seq(Nat)
      /\ Len(buf') <= 4
  BY <1>1 DEF Outgoing
<1>3. Outgoing'
  BY <1>1, <1>2, MessageFacts DEF Outgoing
<1>4. CASE wire_in # <<>>
  BY <1>1, <1>3, <1>4 DEF LoaderInv
<1>5. CASE wire_in = <<>>
  <2>1. wire_in' = <<>>
    BY <1>5 DEF ResetButton, UartReset
  <2>2. Kept'
    <3>1. (inbox \o <<>>) \o <<>> = inbox
      BY <1>2, ConcatEmptySeq
    <3>. QED  BY <3>1, <1>1 DEF Kept
  <2>3. LoaderTypeOK'
    <3>1. offset' \in 1 .. Len(message') + 1
      BY <1>1, MessageFacts
    <3>2. wire_in' \in Seq(Nat) /\ due' \in Seq(Nat) /\ overrun' \in BOOLEAN /\ opened' \in BOOLEAN
      BY <2>1, <1>1, <1>2
    <3>. QED  BY <3>1, <3>2, <1>1, <1>2 DEF LoaderTypeOK, UartTypeOK
  <2>4. Pending' = <<>>
    BY <2>1, <1>1 DEF Pending
  <2>5. Closed' /\ Hears' /\ Prints'
    BY <2>4, <1>1 DEF Closed, Hears, Prints
  <2>. QED  BY <2>2, <2>3, <2>5, <1>3 DEF LoaderInv, TidyInv
<1>. QED  BY <1>4, <1>5

------------------------------------------------------------------------------
(* The steps of the host, and time. *)

\* The words of a download, e of something else first.
IsDownload(ws, prog, e) ==
  /\ ws \in Seq([1 .. 4 -> 0 .. 255]) /\ Len(ws) = Len(prog) + 2 + e
  /\ e = 1 => ws[1] \in Words
  /\ ws[e + 1] = Magic
  /\ \A m \in 1 .. Len(prog) : ws[e + 1 + m] = prog[m]
  /\ ws[e + Len(prog) + 2] = Magic

LEMMA DownloadFacts ==
  ASSUME NEW junk, NEW e \in {0, 1},
         (e = 0 /\ junk = <<>>) \/ (e = 1 /\ \E x \in Words : junk = <<x>>),
         NEW prog \in Seq(Words),
         NEW ws, ws = junk \o <<Magic>> \o prog \o <<Magic>>
  PROVE  IsDownload(ws, prog, e)
<1>. DEFINE W == [1 .. 4 -> 0 .. 255]
<1>1. Magic \in W /\ Words \subseteq W
  BY WordFacts
<1>. HIDE DEF W
<1>2. prog \in Seq(W) /\ Len(prog) \in Nat /\ <<Magic>> \in Seq(W) /\ Len(<<Magic>>) = 1
  BY <1>1, SeqMonotonic
<1>3. junk \in Seq(W) /\ Len(junk) = e /\ (e = 1 => junk[1] \in Words) /\ e \in Nat
  <2>1. CASE e = 0 /\ junk = <<>>
    BY <2>1
  <2>2. CASE e = 1 /\ \E x \in Words : junk = <<x>>
    <3>1. PICK x \in Words : junk = <<x>>
      BY <2>2
    <3>2. <<x>> \in Seq(W) /\ Len(<<x>>) = 1 /\ <<x>>[1] = x
      BY <1>1
    <3>. QED  BY <3>1, <3>2, <2>2
  <2>. QED  BY <2>1, <2>2
<1>. DEFINE a == junk \o <<Magic>>
<1>4. /\ a \in Seq(W) /\ Len(a) = e + 1 /\ a[e + 1] = Magic
      /\ \A k \in 1 .. e : a[k] = junk[k]
  BY <1>1, <1>2, <1>3
<1>. HIDE DEF a
<1>. DEFINE b == a \o prog
<1>5. /\ b \in Seq(W) /\ Len(b) = e + 1 + Len(prog)
      /\ \A k \in 1 .. e + 1 : b[k] = a[k]
      /\ \A m \in 1 .. Len(prog) : b[e + 1 + m] = prog[m]
  BY <1>2, <1>3, <1>4
<1>. HIDE DEF b
<1>6. ws = b \o <<Magic>>
  BY DEF a, b
<1>7. /\ ws \in Seq(W) /\ Len(ws) = e + Len(prog) + 2
      /\ \A k \in 1 .. e + 1 + Len(prog) : ws[k] = b[k]
      /\ ws[e + Len(prog) + 2] = Magic
  <2>1. ws = Append(b, Magic)
    BY <1>1, <1>5, <1>6, AppendIsConcat
  <2>2. /\ ws \in Seq(W) /\ Len(ws) = Len(b) + 1 /\ ws[Len(b) + 1] = Magic
        /\ \A k \in 1 .. Len(b) : ws[k] = b[k]
    <3>. DEFINE whole == Append(b, Magic)
    <3>1. b \in Seq(W) /\ Magic \in W
      BY <1>1, <1>5
    <3>2. /\ whole \in Seq(W) /\ Len(whole) = Len(b) + 1 /\ whole[Len(b) + 1] = Magic
          /\ \A k \in 1 .. Len(b) : whole[k] = b[k]
      BY ONLY <3>1, AppendProperties
    <3>. HIDE DEF whole
    <3>3. ws = whole
      BY <2>1 DEF whole
    <3>. QED  BY <3>2, <3>3
  <2>3. Len(b) + 1 = e + Len(prog) + 2
    BY <1>2, <1>3, <1>5
  <2>. QED  BY <2>2, <2>3, <1>5
<1>8. e = 1 => ws[1] \in Words
  BY <1>2, <1>3, <1>4, <1>5, <1>7
<1>9. ws[e + 1] = Magic
  BY <1>2, <1>3, <1>4, <1>5, <1>7
<1>10. \A m \in 1 .. Len(prog) : ws[e + 1 + m] = prog[m]
  BY <1>2, <1>3, <1>5, <1>7
<1>11. Len(ws) = Len(prog) + 2 + e /\ ws \in Seq(W)
  BY <1>2, <1>3, <1>7
<1>12. ws[e + Len(prog) + 2] = Magic
  BY <1>7
<1>. QED  BY <1>8, <1>9, <1>10, <1>11, <1>12, Zenon DEF W, IsDownload

LEMMA ImageFacts ==
  ASSUME NEW prog \in Images
  PROVE  prog \in Seq(Words) /\ Len(prog) \in Nat /\ Len(prog) <= MaxImage
<1>1. PICK n \in 0 .. MaxImage : prog \in [1 .. n -> Words]
  BY DEF Images
<1>2. prog \in Seq(Words)
  BY <1>1, SeqDef
<1>. QED  BY <1>1, <1>2, LenProperties

\* When nothing more is to be seen on the line, none of a download is pending.
LEMMA IdleFacts ==
  ASSUME TidyInv, Idle
  PROVE  ~opened /\ kpc # "running" /\ buf = <<>>
<1>. USE DEF TidyInv
<1>1. /\ rx = <<>> /\ wire_in = <<>> /\ next # "running" /\ buf \in Seq(Nat)
      /\ kpc = "word" => Len(buf) < 4
  BY WordFacts DEF Idle, LoaderTypeOK
<1>2. Len(Pending) = Len(buf) /\ Len(buf) \in Nat /\ Len(image) \in Nat
  <2>1. Len(rx) = 0 /\ Len(wire_in) = 0
    BY <1>1
  <2>. QED  BY <2>1, PendingFacts
<1>3. Closed
  <2>1. ~Loads
    <3>. SUFFICES ASSUME Loads  PROVE FALSE
      OBVIOUS
    <3>1. Len(ram) \in Nat /\ Len(ram) <= Len(image) /\ Len(buf) < 4
          /\ Len(buf) = 4 * (Len(image) - Len(ram) + 1)
      BY <1>1, <1>2 DEF Loads
    <3>. QED  BY <3>1, <1>2
  <2>. QED  BY <2>1, <1>1 DEF Runs
<1>4. Len(buf) < 4
  <2>1. buf = <<>> => Len(buf) = 0
    OBVIOUS
  <2>. QED  BY <2>1, <1>1, <1>3 DEF Closed, Prints
<1>5. ~Awaits(0) /\ ~Awaits(1)
  BY <1>2, <1>4 DEF Awaits
<1>6. Pending = <<>>
  BY <1>3, <1>5 DEF Closed
<1>. QED  BY <1>3, <1>6, NothingPending DEF Closed

LEMMA DownloadInv ==
  ASSUME TidyInv, NEW junk \in {<<>>} \cup {<<x>> : x \in Words}, NEW prog \in Images,
         Download(junk, prog)
  PROVE  TidyInv'
<1>. USE DEF TidyInv
<1>. DEFINE ws == junk \o <<Magic>> \o prog \o <<Magic>>
<1>1. /\ ~opened /\ kpc # "running" /\ wire_in = <<>> /\ rx = <<>> /\ buf = <<>>
      /\ HostWrite(Bytes(ws)) /\ image' = prog
      /\ UNCHANGED <<kpc, message, offset, next, buf, opened, ram>>
  BY IdleFacts DEF Download, Idle, kernelVars
<1>2. prog \in Seq(Words) /\ Len(prog) \in Nat /\ Len(prog) <= MaxImage
  BY ImageFacts
<1>3. PICK e \in {0, 1} : (e = 0 /\ junk = <<>>) \/ (e = 1 /\ \E x \in Words : junk = <<x>>)
  OBVIOUS
<1>4. /\ ws \in Seq([1 .. 4 -> 0 .. 255]) /\ Len(ws) = Len(prog) + 2 + e
      /\ e = 1 => ws[1] \in Words
      /\ ws[e + 1] = Magic
      /\ \A m \in 1 .. Len(prog) : ws[e + 1 + m] = prog[m]
      /\ ws[e + Len(prog) + 2] = Magic
  <2>. DEFINE w == ws
  <2>1. w = junk \o <<Magic>> \o prog \o <<Magic>>
    OBVIOUS
  <2>. HIDE DEF w
  <2>2. IsDownload(w, prog, e)
    BY ONLY <2>1, <1>2, <1>3, DownloadFacts
  <2>. QED  BY <2>2 DEF w, IsDownload
<1>. DEFINE p == Bytes(ws)
<1>. HIDE DEF ws
<1>5. p \in Seq(Nat) /\ Len(p) = 4 * Len(ws) /\ \A m \in 1 .. Len(ws) : Nth(p, m) = ws[m]
  BY <1>4, BytesFacts
<1>. HIDE DEF p
<1>6. UartTypeOK' /\ Kept' /\ wire_in' = wire_in \o p /\ rx' = rx /\ tx' = tx
  BY <1>1, <1>5, HostWriteKeeps DEF LoaderTypeOK, p
<1>7. Pending' = p
  <2>1. Pending' = <<>> \o (<<>> \o (<<>> \o p))
    BY <1>1, <1>6 DEF Pending
  <2>. QED  BY <2>1, <1>5, ConcatEmptySeq
<1>8. e = 0 => Awaits(0)'
  <2>. SUFFICES ASSUME e = 0  PROVE Awaits(0)'
    OBVIOUS
  <2>1. \A m \in 1 .. Len(prog) : Nth(p, 0 + 1 + m) = prog[m]
    BY <1>2, <1>4, <1>5, SMTT(60)
  <2>2. Nth(p, 0 + 1) = Magic /\ Nth(p, 0 + Len(prog) + 2) = Magic /\ Len(p) = 4 * (Len(prog) + 2 + 0)
    BY <1>2, <1>4, <1>5
  <2>. QED  BY <2>1, <2>2, <1>1, <1>7 DEF Awaits
<1>9. e = 1 => Awaits(1)'
  <2>. SUFFICES ASSUME e = 1  PROVE Awaits(1)'
    OBVIOUS
  <2>1. \A m \in 1 .. Len(prog) : Nth(p, 1 + 1 + m) = prog[m]
    BY <1>2, <1>4, <1>5, SMTT(60)
  <2>2. /\ Nth(p, 1 + 1) = Magic /\ Nth(p, 1 + Len(prog) + 2) = Magic /\ Len(p) = 4 * (Len(prog) + 2 + 1)
        /\ Nth(p, 1) \in Words
    BY <1>2, <1>4, <1>5
  <2>. QED  BY <2>1, <2>2, <1>1, <1>7 DEF Awaits
<1>10. LoaderTypeOK'
  BY <1>1, <1>2, <1>6 DEF LoaderTypeOK
<1>11. Pending = <<>> /\ ~Awaits(0)
  <2>1. Pending = <<>>
    BY <1>1 DEF Pending
  <2>2. Len(image) \in Nat
    BY PendingFacts
  <2>. QED  BY <2>1, <2>2 DEF Awaits
<1>12. Closed' /\ next = "word"
  BY <1>1, <1>3, <1>8, <1>9, <1>11 DEF Closed, Loads, Runs
<1>13. Hears'
  <2>1. Len(buf) = 0 /\ Len(rx) = 0 /\ Len(tx) \in Nat
    BY <1>1, PendingFacts
  <2>. QED  BY <2>1, <1>1, <1>6 DEF Hears
<1>14. Prints'
  BY <1>1, <1>6, <1>11, <1>12 DEF Prints
<1>. QED  BY <1>6, <1>10, <1>12, <1>13, <1>14

LEMMA HostHearsInv == ASSUME TidyInv, HostHears  PROVE TidyInv'
<1>. USE DEF TidyInv
<1>1. HostRead(1) /\ UNCHANGED <<kpc, message, offset, next, buf, opened, ram, image>>
  BY DEF HostHears, kernelVars, download
<1>2. UartTypeOK' /\ Kept' /\ UNCHANGED <<wire_in, rx, tx>>
  BY <1>1, HostReadKeeps DEF LoaderTypeOK
<1>3. Pending' = Pending
  BY <1>1, <1>2 DEF Pending
<1>4. (Awaits(0)' <=> Awaits(0)) /\ (Awaits(1)' <=> Awaits(1)) /\ (Junk' <=> Junk)
  BY <1>1, <1>3, StagesKeep
<1>5. LoaderTypeOK'
  BY <1>1, <1>2 DEF LoaderTypeOK
<1>6. Closed' \/ Loads' \/ Runs'
  BY <1>1, <1>3, <1>4 DEF Closed, Loads, Runs
<1>7. Hears' /\ Prints'
  BY <1>1, <1>2, <1>4 DEF Hears, Prints
<1>. QED  BY <1>2, <1>5, <1>6, <1>7

LEMMA ByteTimeInv == ASSUME TidyInv, ByteTime  PROVE TidyInv'
<1>. USE DEF TidyInv
<1>1. Polls /\ Tick /\ UNCHANGED <<kpc, message, offset, next, buf, opened, ram, image>>
  BY DEF ByteTime, kernelVars, download
<1>2. /\ Len(rx) \in Nat /\ Len(tx) \in Nat /\ Len(buf) \in Nat
      /\ rx = <<>> => Len(rx) = 0
      /\ tx # <<>> => Len(tx) >= 1
  BY PendingFacts DEF LoaderTypeOK, UartTypeOK
<1>3. \/ kpc = "word" /\ Len(buf) < 4 /\ rx = <<>>
      \/ kpc = "print" /\ offset = 1 /\ tx # <<>>
      \/ kpc = "running"
  BY <1>1, WordFacts DEF Polls, DataReady, RoomToSend
<1>4. kpc = "running" \/ next = "running" => wire_in = <<>>
  BY NothingPending DEF Closed, Loads, Runs
<1>5. kpc = "print" /\ offset = 1 /\ tx # <<>> /\ next = "word"
        => Awaits(0) /\ Len(rx) + Len(tx) <= Len(Greeting) - 4 + Len(Sad)
  BY DEF Prints
<1>6. kpc = "print" /\ offset = 1 /\ next = "restart" => Len(rx) + Len(tx) <= Len(Greeting) - 4
  BY DEF Prints
<1>7. kpc = "print" => next \in {"word", "restart", "running"}
  BY DEF Closed, Loads, Runs
<1>8. wire_in = <<>> \/ Len(rx) < FifoDepth
  <2>1. CASE kpc = "word"
    BY <2>1, <1>2, <1>3, MessageFacts
  <2>2. CASE kpc = "print" /\ next = "word"
    BY <2>2, <1>2, <1>3, <1>5, MessageFacts
  <2>3. CASE kpc = "print" /\ next = "restart"
    BY <2>3, <1>2, <1>3, <1>6, MessageFacts
  <2>. QED  BY <2>1, <2>2, <2>3, <1>3, <1>4, <1>7
<1>9. /\ UartTypeOK' /\ Kept' /\ rx' \o wire_in' = rx \o wire_in
      /\ rx' = rx \/ Len(rx') = Len(rx) + 1
      /\ tx' = <<>> \/ Len(tx') = Len(tx) - 1
      /\ tx # <<>> => Len(tx') = Len(tx) - 1
  BY <1>1, <1>8, TickKeeps DEF LoaderTypeOK
<1>10. Pending' = Pending
  BY <1>1, <1>9 DEF Pending
<1>11. (Awaits(0)' <=> Awaits(0)) /\ (Awaits(1)' <=> Awaits(1)) /\ (Junk' <=> Junk)
  BY <1>1, <1>10, StagesKeep
<1>12. LoaderTypeOK'
  BY <1>1, <1>9 DEF LoaderTypeOK
<1>13. Closed' \/ Loads' \/ Runs'
  BY <1>1, <1>10, <1>11 DEF Closed, Loads, Runs
<1>14. Len(rx') \in Nat /\ Len(rx') <= Len(rx) + 1 /\ Len(tx') \in Nat
  BY <1>2, <1>9 DEF UartTypeOK
<1>15. Hears'
  <2>. SUFFICES ASSUME kpc = "word"
                PROVE  /\ Len(tx') <= Len(Greeting)
                       /\ Junk => /\ Len(buf) + Len(rx') <= 4
                                  /\ tx' = <<>> \/ Len(tx') + Len(buf) + Len(rx') <= Len(Greeting)
    BY <1>1, <1>11 DEF Hears
  <2>1. Len(tx) <= Len(Greeting) /\ Len(rx) = 0 /\ Len(buf) < 4 /\ Len(Greeting) \in Nat
        /\ Len(Greeting) >= 4
    BY <1>2, <1>3, MessageFacts DEF Hears
  <2>2. tx' = <<>> => Len(tx') = 0
    OBVIOUS
  <2>3. Len(tx') <= Len(Greeting)
    BY <2>1, <2>2, <1>2, <1>9
  <2>4. Junk /\ tx' # <<>> => Len(tx') + Len(buf) + Len(rx') <= Len(Greeting)
    <3>. SUFFICES ASSUME Junk, tx' # <<>>  PROVE Len(tx') + Len(buf) + Len(rx') <= Len(Greeting)
      OBVIOUS
    <3>1. Len(tx') = Len(tx) - 1
      BY <1>9
    <3>2. tx # <<>>
      <4>1. tx = <<>> => Len(tx) = 0
        OBVIOUS
      <4>. QED  BY <4>1, <3>1, <1>14
    <3>3. Len(tx) + Len(buf) + Len(rx) <= Len(Greeting)
      BY <3>2 DEF Hears
    <3>. QED  BY <3>1, <3>3, <2>1, <1>2, <1>14
  <2>5. Len(buf) + Len(rx') <= 4
    BY <2>1, <1>2, <1>14
  <2>. QED  BY <2>3, <2>4, <2>5
<1>16. Prints'
  <2>. SUFFICES ASSUME kpc = "print"  PROVE Prints'
    BY <1>1 DEF Prints
  <2>1. offset = 1 /\ tx # <<>> /\ buf = <<>> /\ Len(tx') = Len(tx) - 1 /\ Len(tx) >= 1
    BY <1>2, <1>3, <1>9 DEF Prints
  <2>2. Len(rx') + Len(tx') <= Len(rx) + Len(tx)
    BY <2>1, <1>2, <1>14
  <2>3. next = "word" => /\ ~Junk /\ Awaits(0)
                         /\ Len(rx') + Len(tx') <= Len(Greeting) - 4 + Len(Sad)
    <3>1. Awaits(0) => ~Junk
      BY PendingFacts DEF Awaits, Junk
    <3>. QED  BY <3>1, <2>1, <2>2, <1>2, <1>5, <1>14, MessageFacts
  <2>4. next = "restart" => /\ Len(rx') <= Len(Greeting) - 4
                            /\ Len(rx') + Len(tx') <= Len(Greeting) - 4
    <3>. SUFFICES ASSUME next = "restart"
                  PROVE  Len(rx') <= Len(Greeting) - 4 /\ Len(rx') + Len(tx') <= Len(Greeting) - 4
      OBVIOUS
    <3>1. Len(rx) + Len(tx) <= Len(Greeting) - 4 /\ Len(Greeting) \in Nat
      BY <2>1, <1>6, MessageFacts
    <3>. QED  BY <3>1, <2>2, <1>2, <1>14
  <2>. QED  BY <2>1, <2>3, <2>4, <1>1, <1>11 DEF Prints
<1>. QED  BY <1>9, <1>12, <1>13, <1>15, <1>16

\* What holds of the bytes going out, whatever comes in.
LEMMA OutgoingStep ==
  ASSUME Outgoing, LoaderNext \/ UNCHANGED loaderVars  PROVE ResetButton \/ Outgoing'
<1>. USE DEF Outgoing
<1>1. ASSUME UNCHANGED <<inbox, tsr, tx, message, offset, image>>  PROVE Outgoing'
  BY <1>1
<1>2. ASSUME NEW m, m \in {Greeting, Loaded, Sad, TooLarge}, message' = m, offset' = 1,
             UNCHANGED <<inbox, tsr, tx, image>>
      PROVE  Outgoing'
  <2>1. m \in Seq(Nat)
    BY <1>2, LoaderAssumption
  <2>. QED  BY <2>1, <1>2
<1>3. CASE Return
  <2>1. CASE next = "restart"
    <3>1. message' = Greeting /\ offset' = 1 /\ UNCHANGED <<uartVars, download>>
      BY <2>1, <1>3 DEF Return, Start, uart_print
    <3>. QED  BY <3>1, <1>2 DEF uartVars, download
  <2>2. CASE next # "restart"
    <3>1. UNCHANGED <<uartVars, download, message, offset>>
      BY <2>2, <1>3 DEF Return
    <3>. QED  BY <3>1, <1>1 DEF uartVars, download
  <2>. QED  BY <2>1, <2>2
<1>4. CASE PrintChar
  <2>. DEFINE k == message[offset]
  <2>1. /\ offset <= Len(message) /\ uart_put(k) /\ offset' = offset + 1
        /\ UNCHANGED <<message, image>>
    BY <1>4 DEF PrintChar, uart_put_blocking, download
  <2>2. k \in Nat
    BY <2>1
  <2>. HIDE DEF k
  <2>3. tx' \in {tx, Append(tx, k)} /\ UNCHANGED <<tsr, inbox>>
    BY <2>1, Zenon DEF uart_put
  <2>4. Append(tx, k) \in Seq(Nat)
    BY <2>2
  <2>5. tx' \in Seq(Nat) /\ offset' \in Nat \ {0}
    <3>1. tx' \in Seq(Nat)
      BY ONLY <2>3, <2>4, tx \in Seq(Nat)
    <3>2. offset' = offset + 1 /\ offset \in Nat \ {0}
      BY <2>1
    <3>3. offset' \in Nat \ {0}
      BY ONLY <3>2
    <3>. QED  BY ONLY <3>1, <3>3
  <2>6. UNCHANGED <<inbox, tsr, message, image>>
    BY <2>1, <2>3
  <2>. QED  BY <2>5, <2>6
<1>5. CASE uart_read_word
  BY <1>1, <1>5 DEF uart_read_word, uart_read_blocking, download
<1>6. CASE FirstMagic
  BY <1>1, <1>6 DEF FirstMagic, Word, uartVars, download
<1>7. CASE NoMagic
  BY <1>2, <1>7 DEF NoMagic, Word, uart_print, uartVars, download
<1>8. CASE LastMagic
  BY <1>2, <1>8 DEF LastMagic, Word, uart_print, uartVars, download
<1>9. CASE Store
  <2>1. UNCHANGED <<inbox, tsr, tx, image>>
    BY <1>9 DEF Store, Word, uartVars, download
  <2>2. CASE Len(ram') < MemWords
    BY <2>1, <2>2, <1>1, <1>9 DEF Store
  <2>3. CASE ~(Len(ram') < MemWords)
    BY <2>1, <2>3, <1>2, <1>9 DEF Store, uart_print
  <2>. QED  BY <2>2, <2>3
<1>10. CASE ByteTime
  <2>1. inbox' = inbox \o tsr /\ UNCHANGED <<message, offset, image>> /\ Tick
    BY <1>10 DEF ByteTime, Tick, kernelVars, download
  <2>2. inbox' \in Seq(Nat)
    BY <2>1
  <2>3. tsr' \in Seq(Nat) /\ tx' \in Seq(Nat)
    <3>1. CASE tx = <<>>
      BY <3>1, <2>1 DEF Tick
    <3>2. CASE tx # <<>>
      <4>1. tsr' = <<Head(tx)>> /\ tx' = Tail(tx)
        BY <3>2, <2>1 DEF Tick
      <4>. QED  BY <4>1, <3>2, TailFacts
    <3>. QED  BY <3>1, <3>2
  <2>. QED  BY <2>1, <2>2, <2>3
<1>11. CASE HostHears
  <2>1. /\ Len(inbox) >= 1 /\ inbox' = SubSeq(inbox, 1 + 1, Len(inbox))
        /\ UNCHANGED <<tsr, tx, message, offset, image>>
    BY <1>11 DEF HostHears, HostRead, kernelVars, download
  <2>2. inbox' \in Seq(Nat)
    BY <2>1, DropTyped
  <2>. QED  BY <2>1, <2>2
<1>12. ASSUME NEW junk \in {<<>>} \cup {<<x>> : x \in Words}, NEW prog \in Images,
              Download(junk, prog)
       PROVE  Outgoing'
  BY <1>12, ImageFacts DEF Download, HostWrite, kernelVars
<1>13. CASE UNCHANGED loaderVars
  BY <1>1, <1>13 DEF loaderVars, uartVars, kernelVars, download
<1>. QED
  BY <1>3, <1>4, <1>5, <1>6, <1>7, <1>8, <1>9, <1>10, <1>11, <1>12, <1>13
  DEF LoaderNext, Kernel, load_program

\* Only reset among bytes on their way cuts, and only reset mends.
LEMMA CutStays ==
  ASSUME LoaderNext \/ UNCHANGED loaderVars  PROVE ResetButton \/ cut' = cut
BY DEF LoaderNext, Kernel, load_program, Return, PrintChar, uart_put_blocking, uart_put,
       uart_read_word, uart_read_blocking, FirstMagic, NoMagic, LastMagic, Store, Word,
       ByteTime, Tick, HostHears, HostRead, Download, HostWrite, loaderVars, uartVars

LEMMA TidyStep ==
  ASSUME TidyInv, LoaderNext \/ UNCHANGED loaderVars  PROVE ResetButton \/ TidyInv'
<1>1. CASE Kernel
  BY <1>1, ReturnInv, PrintCharInv, ReadWordInv, FirstMagicInv, NoMagicInv, LastMagicInv, StoreInv
  DEF Kernel, load_program
<1>2. CASE ByteTime
  BY <1>2, ByteTimeInv
<1>3. CASE HostHears
  BY <1>3, HostHearsInv
<1>5. CASE \E junk \in {<<>>} \cup {<<x>> : x \in Words}, prog \in Images : Download(junk, prog)
  BY <1>5, DownloadInv
<1>6. CASE UNCHANGED loaderVars
  <2>1. /\ UNCHANGED <<wire_in, rx, tx, tsr, due, inbox, overrun>>
        /\ UNCHANGED <<kpc, message, offset, next, buf, opened, ram, image>>
    BY <1>6 DEF loaderVars, kernelVars, uartVars, download
  <2>2. Pending' = Pending
    BY <2>1 DEF Pending
  <2>3. (Awaits(0)' <=> Awaits(0)) /\ (Awaits(1)' <=> Awaits(1)) /\ (Junk' <=> Junk)
    BY <2>1, <2>2, StagesKeep
  <2>4. LoaderTypeOK' /\ Kept'
    BY <2>1 DEF TidyInv, LoaderTypeOK, UartTypeOK, Kept
  <2>5. Closed' \/ Loads' \/ Runs'
    BY <2>1, <2>2, <2>3 DEF TidyInv, Closed, Loads, Runs
  <2>6. Hears' /\ Prints'
    BY <2>1, <2>3 DEF TidyInv, Hears, Prints
  <2>. QED  BY <2>4, <2>5, <2>6 DEF TidyInv
<1>. QED  BY <1>1, <1>2, <1>3, <1>5, <1>6 DEF LoaderNext

LEMMA LoaderStepInv == LoaderInv /\ [LoaderNext]_loaderVars => LoaderInv'
<1>. SUFFICES ASSUME LoaderInv, [LoaderNext]_loaderVars, ~ResetButton  PROVE LoaderInv'
  BY ResetInv DEF LoaderInv
<1>. QED  BY OutgoingStep, CutStays, TidyStep DEF LoaderInv

------------------------------------------------------------------------------
(* What follows for every run. *)

\* The invariant of the kernel and the bytes on their way to it.
THEOREM LoaderInvariant == LoaderSpec => []LoaderInv
<1>. QED  BY LoaderInitInv, LoaderStepInv, PTL DEF LoaderSpec

\* Wherever the reset button is pressed: once there has been a reset on a quiet
\* line, and until the next in the middle of a download, the program the kernel
\* starts is the one that was sent, whatever was loaded or sent before it.
THEOREM LoaderRuns == LoaderSpec => []RunsWhatWasSent
<1>1. LoaderInv => RunsWhatWasSent
  BY DEF LoaderInv, TidyInv, RunsWhatWasSent, Closed, Loads, Runs
<1>. QED  BY <1>1, LoaderInvariant, PTL

\* Nothing holds the host back while the kernel prints, and yet no byte is
\* dropped at either FIFO, as long as the messages fit as LoaderAssumption says
\* and no reset has cut a download in two.
THEOREM LoaderNothingLost == LoaderSpec => []NothingLost
<1>1. LoaderInv => NothingLost
  BY DEF LoaderInv, TidyInv, NothingLost
<1>. QED  BY <1>1, LoaderInvariant, PTL
=============================================================================
