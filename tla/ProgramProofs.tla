---------------------------- MODULE ProgramProofs ----------------------------
(***************************************************************************)
(* Proofs about the library functions and the programs that run by         *)
(* themselves: formatted output, the two sorts, arithmetic in software.    *)
(***************************************************************************)
EXTENDS Printf, Qsort, Rsort, Division,
        FiniteSetTheorems, SequenceTheorems, WellFoundedInduction, NaturalsInduction, TLAPS

------------------------------------------------------------------------------
(* Induction, over a set, and the powers of two. *)

LEMMA LeastOf ==
  ASSUME NEW T \in SUBSET Nat, NEW z \in T
  PROVE  \E m \in T : \A k \in T : m <= k
<1>. DEFINE R == OpToRel(<, Nat)
<1>1. T \subseteq Nat /\ T # {}
  OBVIOUS
<1>2. \E u \in T : \A v \in T : ~(<<v, u>> \in R)
  BY <1>1, NatLessThanWellFounded, WFMin, Zenon
<1>3. \A u, v \in Nat : v < u => <<v, u>> \in R
  BY DEF OpToRel
<1>. HIDE DEF R
<1>4. PICK m \in T : \A v \in T : ~(<<v, m>> \in R)
  BY <1>2
<1>5. \A k \in T : ~(k < m)
  BY <1>3, <1>4
<1>. QED  BY <1>4, <1>5

LEMMA InductionOver ==
  ASSUME NEW S, 0 \in S, \A k \in Nat : k \in S => k + 1 \in S
  PROVE  Nat \subseteq S
<1>. SUFFICES ASSUME NEW z \in Nat, z \notin S  PROVE FALSE
  OBVIOUS
<1>1. PICK m \in Nat \ S : \A k \in Nat \ S : m <= k
  BY LeastOf
<1>2. m # 0 /\ m - 1 \in Nat
  BY <1>1
<1>3. m - 1 \in S
  BY <1>1, <1>2
<1>4. (m - 1) + 1 \in S
  BY <1>2, <1>3
<1>. QED  BY <1>1, <1>4

\* Tables of the first n + 1 powers.
Tables(z, n) == {f \in [0 .. n -> Nat] : f[0] = 1 /\ \A k \in 0 .. n - 1 : f[k + 1] = z * f[k]}

LEMMA TableExists ==
  ASSUME NEW z \in Nat, NEW n \in Nat
  PROVE  \E f : f \in Tables(z, n)
<1>. DEFINE S == {m \in Nat : \E f : f \in Tables(z, m)}
<1>1. 0 \in S
  <2>1. [k \in 0 .. 0 |-> 1] \in Tables(z, 0)
    BY DEF Tables
  <2>. QED  BY <2>1
<1>2. ASSUME NEW m \in Nat, m \in S  PROVE m + 1 \in S
  <2>1. PICK f : f \in Tables(z, m)
    BY <1>2
  <2>2. f \in [0 .. m -> Nat] /\ f[0] = 1 /\ \A k \in 0 .. m - 1 : f[k + 1] = z * f[k]
    BY <2>1 DEF Tables
  <2>3. PICK next \in Nat : next = z * f[m]
    BY <2>2
  <2>. DEFINE g == [k \in 0 .. m + 1 |-> IF k = m + 1 THEN next ELSE f[k]]
  <2>4. g \in [0 .. m + 1 -> Nat] /\ g[0] = 1
    BY <2>2
  <2>5. ASSUME NEW k \in 0 .. (m + 1) - 1  PROVE g[k + 1] = z * g[k]
    <3>1. CASE k = m
      BY <3>1, <2>3
    <3>2. CASE k # m
      <4>1. k \in 0 .. m - 1
        BY <3>2
      <4>. QED  BY <2>2, <4>1
    <3>. QED  BY <3>1, <3>2
  <2>6. g \in Tables(z, m + 1)
    BY <2>4, <2>5 DEF Tables
  <2>. QED  BY <2>6
<1>. HIDE DEF S
<1>3. n \in S
  BY <1>1, <1>2, InductionOver
<1>. QED  BY <1>3 DEF S

LEMMA TableUnique ==
  ASSUME NEW z \in Nat, NEW n \in Nat, NEW m \in Nat, NEW f \in Tables(z, n), NEW g \in Tables(z, m),
         NEW j \in Nat, j <= n, j <= m
  PROVE  f[j] = g[j]
<1>1. /\ f[0] = 1 /\ \A k \in 0 .. n - 1 : f[k + 1] = z * f[k]
      /\ g[0] = 1 /\ \A k \in 0 .. m - 1 : g[k + 1] = z * g[k]
  BY DEF Tables
<1>. DEFINE S == {k \in Nat : k <= n /\ k <= m => f[k] = g[k]}
<1>2. 0 \in S
  BY <1>1
<1>3. ASSUME NEW k \in Nat, k \in S  PROVE k + 1 \in S
  <2>1. ASSUME k + 1 <= n, k + 1 <= m  PROVE f[k + 1] = g[k + 1]
    <3>1. k \in 0 .. n - 1 /\ k \in 0 .. m - 1 /\ f[k] = g[k]
      BY <1>3, <2>1
    <3>2. f[k + 1] = z * f[k] /\ g[k + 1] = z * g[k]
      BY <1>1, <3>1
    <3>. QED  BY <3>1, <3>2
  <2>. QED  BY <2>1
<1>. HIDE DEF S
<1>4. j \in S
  BY <1>2, <1>3, InductionOver
<1>. QED  BY <1>4 DEF S

LEMMA PowerFacts ==
  ASSUME NEW z \in Nat, z >= 1
  PROVE  /\ Power(z)[0] = 1
         /\ \A k \in Nat : Power(z)[k] \in Nat /\ Power(z)[k] >= 1 /\ Power(z)[k + 1] = z * Power(z)[k]
<1>. DEFINE h == [k \in Nat |-> CHOOSE f : f \in Tables(z, k)]
            tab == [k \in Nat |-> h[k][k]]
            pw == Power(z)
<1>1. \A k \in Nat : h[k] \in Tables(z, k)
  BY TableExists
<1>. HIDE DEF h
<1>2. \A k \in Nat : tab[k] = h[k][k]
  OBVIOUS
<1>3. tab[0] = 1
  BY <1>1, <1>2 DEF Tables
<1>4. ASSUME NEW k \in Nat  PROVE tab[k + 1] = z * tab[k]
  <2>1. h[k + 1][k + 1] = z * h[k + 1][k]
    <3>1. h[k + 1] \in Tables(z, k + 1)
      BY <1>1
    <3>. QED  BY <3>1 DEF Tables
  <2>2. h[k + 1][k] = h[k][k]
    BY <1>1, TableUnique
  <2>. QED  BY <1>2, <2>1, <2>2
<1>5. \A k \in Nat : tab[k] = IF k = 0 THEN 1 ELSE z * tab[k - 1]
  <2>1. ASSUME NEW k \in Nat, k # 0  PROVE tab[k] = z * tab[k - 1]
    <3>1. k - 1 \in Nat /\ (k - 1) + 1 = k
      BY <2>1
    <3>. HIDE DEF tab
    <3>2. tab[(k - 1) + 1] = z * tab[k - 1]
      BY <1>4, <3>1
    <3>. QED  BY <3>1, <3>2
  <2>. QED  BY <1>3, <2>1
<1>6. tab = [k \in Nat |-> IF k = 0 THEN 1 ELSE z * tab[k - 1]]
  BY <1>5
<1>. HIDE DEF tab
<1>7. pw = [k \in Nat |-> IF k = 0 THEN 1 ELSE z * pw[k - 1]]
  BY <1>6, Zenon DEF Power
<1>8. \A k \in Nat : pw[k] = IF k = 0 THEN 1 ELSE z * pw[k - 1]
  <2>. HIDE DEF pw
  <2>. QED  BY <1>7, Zenon
<1>9. pw[0] = 1 /\ \A k \in Nat : pw[k + 1] = z * pw[k]
  <2>. HIDE DEF pw
  <2>. QED  BY <1>8
<1>. HIDE DEF pw
<1>. DEFINE S == {k \in Nat : pw[k] \in Nat /\ pw[k] >= 1}
<1>10. 0 \in S
  BY <1>9
<1>11. ASSUME NEW k \in Nat, k \in S  PROVE k + 1 \in S
  <2>1. pw[k] \in Nat /\ pw[k] >= 1 /\ pw[k + 1] = z * pw[k]
    BY <1>9, <1>11
  <2>2. z * pw[k] \in Nat /\ z * pw[k] >= 1
    BY <2>1
  <2>. QED  BY <2>1, <2>2
<1>. HIDE DEF S
<1>12. \A k \in Nat : k \in S
  BY <1>10, <1>11, InductionOver
<1>13. \A k \in Nat : pw[k] \in Nat /\ pw[k] >= 1 /\ pw[k + 1] = z * pw[k]
  BY <1>9, <1>12 DEF S
<1>. QED  BY <1>9, <1>13 DEF pw

LEMMA Pow2Facts ==
  /\ Pow2[0] = 1
  /\ \A k \in Nat : Pow2[k] \in Nat /\ Pow2[k] >= 1 /\ Pow2[k + 1] = 2 * Pow2[k]
<1>1. 2 \in Nat /\ 2 >= 1
  OBVIOUS
<1>. QED  BY <1>1, PowerFacts, Zenon DEF Pow2

LEMMA Pow2Sum == \A m, n \in Nat : Pow2[m + n] = Pow2[m] * Pow2[n]
<1>. SUFFICES ASSUME NEW m \in Nat, NEW n \in Nat  PROVE Pow2[m + n] = Pow2[m] * Pow2[n]
  OBVIOUS
<1>. DEFINE S == {k \in Nat : Pow2[m + k] = Pow2[m] * Pow2[k]}
<1>1. 0 \in S
  <2>1. m + 0 = m /\ Pow2[m] \in Nat
    BY Pow2Facts
  <2>. QED  BY <2>1, Pow2Facts
<1>2. ASSUME NEW k \in Nat, k \in S  PROVE k + 1 \in S
  <2>1. Pow2[m + k] = Pow2[m] * Pow2[k]
    BY <1>2
  <2>2. /\ m + k \in Nat /\ m + (k + 1) = (m + k) + 1
        /\ Pow2[m] \in Nat /\ Pow2[k] \in Nat /\ Pow2[k + 1] = 2 * Pow2[k]
    BY Pow2Facts
  <2>3. Pow2[(m + k) + 1] = 2 * Pow2[m + k]
    BY <2>2, Pow2Facts
  <2>4. Pow2[m] * (2 * Pow2[k]) = 2 * (Pow2[m] * Pow2[k])
    BY <2>2
  <2>5. Pow2[m + (k + 1)] = Pow2[m] * Pow2[k + 1]
    BY <2>1, <2>2, <2>3, <2>4
  <2>. QED  BY <2>5
<1>. HIDE DEF S
<1>3. n \in S
  BY <1>1, <1>2, InductionOver
<1>. QED  BY <1>3 DEF S

LEMMA NatParts ==
  ASSUME NEW m \in Nat \ {0}, NEW v \in Nat
  PROVE  v % m \in 0 .. m - 1 /\ v \div m \in Nat /\ v = (v % m) + (v \div m) * m
BY SMT

LEMMA ModParts ==
  ASSUME NEW m \in Nat \ {0}, NEW v \in Int
  PROVE  v % m \in 0 .. m - 1 /\ v \div m \in Int /\ v = (v % m) + (v \div m) * m
BY SMT

LEMMA ModUnique ==
  ASSUME NEW m \in Nat \ {0}, NEW u \in 0 .. m - 1, NEW w \in 0 .. m - 1, NEW z \in Int, NEW t \in Int,
         u + z * m = w + t * m
  PROVE  u = w
<1>1. CASE z = t
  BY <1>1
<1>2. CASE z > t
  <2>1. (z - t) * m >= m
    BY <1>2
  <2>2. w - u = (z - t) * m
    OBVIOUS
  <2>. QED  BY <2>1, <2>2
<1>3. CASE z < t
  <2>1. (t - z) * m >= m
    BY <1>3
  <2>2. u - w = (t - z) * m
    OBVIOUS
  <2>. QED  BY <2>1, <2>2
<1>. QED  BY <1>1, <1>2, <1>3

------------------------------------------------------------------------------
(* Formatted output. *)

\* What a conversion puts out is a sequence; of what does not matter.
IsText(s) == \E S : s \in Seq(S)

\* What the buffer holds of s before the terminating 0.
Held(s) == [k \in 0 .. maxlen |-> IF k < Len(s) /\ k < maxlen THEN s[k + 1] ELSE Untouched]

------------------------------------------------------------------------------
(* Formatted output: sequences. *)

LEMMA TextLength ==
  ASSUME NEW s, IsText(s)
  PROVE  Len(s) \in Nat /\ s = [k \in 1 .. Len(s) |-> s[k]]
<1>1. PICK S : s \in Seq(S)
  BY DEF IsText
<1>. QED  BY <1>1

LEMMA FunctionText ==
  ASSUME NEW n \in Nat, NEW f, f = [k \in 1 .. n |-> f[k]]
  PROVE  IsText(f) /\ Len(f) = n
<1>1. f \in Seq({f[k] : k \in 1 .. n})
  OBVIOUS
<1>2. Len(f) = n
  BY <1>1
<1>. QED  BY <1>1, <1>2 DEF IsText

LEMMA EmptyText == IsText(<<>>)
<1>1. <<>> \in Seq({})
  OBVIOUS
<1>. QED  BY <1>1 DEF IsText

LEMMA OneText ==
  ASSUME NEW c
  PROVE  IsText(<<c>>) /\ Len(<<c>>) = 1
<1>1. <<c>> \in Seq({c})
  OBVIOUS
<1>. QED  BY <1>1 DEF IsText

LEMMA CatText ==
  ASSUME NEW s, NEW t, IsText(s), IsText(t)
  PROVE  /\ IsText(s \o t) /\ Len(s \o t) = Len(s) + Len(t)
         /\ \A k \in 1 .. Len(s) : (s \o t)[k] = s[k]
         /\ \A k \in Len(s) + 1 .. Len(s) + Len(t) : (s \o t)[k] = t[k - Len(s)]
<1>1. PICK S : s \in Seq(S)
  BY DEF IsText
<1>2. PICK T : t \in Seq(T)
  BY DEF IsText
<1>3. s \in Seq(S \cup T) /\ t \in Seq(S \cup T)
  BY <1>1, <1>2
<1>4. s \o t \in Seq(S \cup T)
  BY <1>3
<1>5. IsText(s \o t)
  BY <1>4 DEF IsText
<1>. QED  BY <1>3, <1>5

LEMMA FillText ==
  ASSUME NEW c, NEW n \in Int
  PROVE  IsText(Fill(c, n))
<1>1. CASE n >= 0
  <2>. DEFINE f == Fill(c, n)
  <2>1. f = [k \in 1 .. n |-> f[k]]
    BY DEF Fill
  <2>. HIDE DEF f
  <2>. QED  BY <1>1, <2>1, FunctionText DEF f
<1>2. CASE n < 0
  <2>1. Fill(c, n) = <<>>
    BY <1>2 DEF Fill
  <2>. QED  BY <2>1, EmptyText
<1>. QED  BY <1>1, <1>2

LEMMA CutText ==
  ASSUME NEW s, IsText(s), NEW n \in 0 .. Len(s)
  PROVE  IsText(SubSeq(s, 1, n))
<1>1. PICK S : s \in Seq(S)
  BY DEF IsText
<1>2. SubSeq(s, 1, n) \in Seq(S)
  BY <1>1, SubSeqProperties
<1>. QED  BY <1>2 DEF IsText

------------------------------------------------------------------------------
(* Formatted output: each function returns a sequence. *)

LEMMA PutText ==
  ASSUME NEW buf, NEW c, IsText(buf)
  PROVE  IsText(Put(buf, c))
<1>1. PICK S : buf \in Seq(S)
  BY DEF IsText
<1>2. Append(buf, c) \in Seq(S \cup {c})
  BY <1>1
<1>3. IsText(Append(buf, c))
  BY <1>2 DEF IsText
<1>. QED  BY <1>3 DEF Put

LEMMA PutZerosText ==
  ASSUME NEW buf, IsText(buf), NEW n \in Int
  PROVE  IsText(PutZeros(buf, n))
<1>1. Smaller(n, BufferSize) - Len(buf) \in Int
  <2>1. Len(buf) \in Nat
    BY TextLength
  <2>2. BufferSize \in Nat
    <3>1. BufferSize \in Nat \ {0}
      BY PrintfAssumption, Zenon
    <3>. QED  BY <3>1
  <2>. QED  BY <2>1, <2>2 DEF Smaller
<1>2. IsText(Fill("0", Smaller(n, BufferSize) - Len(buf)))
  BY <1>1, FillText
<1>. QED  BY <1>2, CatText DEF PutZeros

LEMMA LeadingZerosText ==
  ASSUME NEW buf, IsText(buf), NEW prec \in Int, NEW w \in Int, NEW f
  PROVE  IsText(LeadingZeros(buf, prec, w, f))
<1>1. IsText(PutZeros(buf, prec))
  BY PutZerosText
<1>2. IsText(PutZeros(PutZeros(buf, prec), w))
  BY <1>1, PutZerosText
<1>. QED  BY <1>1, <1>2 DEF LeadingZeros

LEMMA PrefixText ==
  ASSUME NEW buf, IsText(buf), NEW base, NEW prec, NEW w, NEW f
  PROVE  IsText(Prefix(buf, base, prec, w, f))
<1>. DEFINE n == Len(buf)
            cut == IF "precision" \notin f /\ n > 0 /\ n \in {prec, w}
                   THEN IF n > 1 /\ base = 16 THEN 2 ELSE 1
                   ELSE 0
            rest == SubSeq(buf, 1, n - cut)
            marked == CASE base = 16 /\ "uppercase" \notin f -> Put(rest, "x")
                        [] base = 16 /\ "uppercase" \in f -> Put(rest, "X")
                        [] base = 2 -> Put(rest, "b")
                        [] OTHER -> rest
<1>1. n \in Nat
  BY TextLength
<1>2. n - cut \in 0 .. Len(buf)
  BY <1>1
<1>3. IsText(rest)
  BY <1>2, CutText
<1>4. IsText(Put(rest, "x")) /\ IsText(Put(rest, "X")) /\ IsText(Put(rest, "b"))
  BY <1>3, PutText
<1>5. marked \in {rest, Put(rest, "x"), Put(rest, "X"), Put(rest, "b")}
  <2>. HIDE DEF rest
  <2>. QED  BY DEF marked
<1>6. IsText(marked)
  <2>. HIDE DEF marked, rest
  <2>. QED  BY <1>3, <1>4, <1>5
<1>7. IsText(Put(marked, "0"))
  <2>. HIDE DEF marked
  <2>. QED  BY <1>6, PutText
<1>8. Prefix(buf, base, prec, w, f) = Put(marked, "0")
  BY DEF Prefix
<1>. HIDE DEF marked
<1>. QED  BY <1>7, <1>8

LEMMA SignText ==
  ASSUME NEW buf, IsText(buf), NEW negative \in BOOLEAN, NEW f
  PROVE  IsText(Sign(buf, negative, f))
<1>1. IsText(Put(buf, "-")) /\ IsText(Put(buf, "+")) /\ IsText(Put(buf, " "))
  BY PutText
<1>2. Sign(buf, negative, f) \in {buf, Put(buf, "-"), Put(buf, "+"), Put(buf, " ")}
  BY DEF Sign
<1>. QED  BY <1>1, <1>2

LEMMA OutRevText ==
  ASSUME NEW buf, IsText(buf), NEW w \in Int, NEW f
  PROVE  IsText(_out_rev(buf, w, f))
<1>. DEFINE blanks == Fill(" ", w - Len(buf))
            text == [k \in 1 .. Len(buf) |-> buf[Len(buf) + 1 - k]]
            before == IF f \cap {"left", "zeropad"} = {} THEN blanks ELSE <<>>
            behind == IF "left" \in f THEN blanks ELSE <<>>
<1>1. Len(buf) \in Nat
  BY TextLength
<1>2. IsText(blanks)
  <2>1. w - Len(buf) \in Int
    BY <1>1
  <2>. QED  BY <2>1, FillText
<1>3. text = [k \in 1 .. Len(buf) |-> text[k]]
  OBVIOUS
<1>4. IsText(text)
  <2>. HIDE DEF text
  <2>. QED  BY <1>1, <1>3, FunctionText
<1>5. IsText(before) /\ IsText(behind)
  <2>. HIDE DEF blanks
  <2>. QED  BY <1>2, EmptyText
<1>6. IsText(before \o text \o behind)
  <2>. HIDE DEF before, text, behind
  <2>. QED  BY <1>4, <1>5, CatText
<1>7. _out_rev(buf, w, f) = before \o text \o behind
  BY DEF _out_rev
<1>. HIDE DEF before, text, behind
<1>. QED  BY <1>6, <1>7

LEMMA FormatText ==
  ASSUME NEW buf, IsText(buf), NEW negative \in BOOLEAN, NEW base,
         NEW prec \in Int, NEW w \in Int, NEW f
  PROVE  IsText(_ntoa_format(buf, negative, base, prec, w, f))
<1>. DEFINE pw == PadWidth(negative, w, f)
            zeros == LeadingZeros(buf, prec, pw, f)
            hashed == IF "hash" \in f THEN Prefix(zeros, base, prec, pw, f) ELSE zeros
            signed == Sign(hashed, negative, f)
<1>1. pw \in Int
  BY DEF PadWidth
<1>. HIDE DEF pw
<1>2. IsText(zeros)
  BY <1>1, LeadingZerosText
<1>. HIDE DEF zeros
<1>3. IsText(hashed)
  BY <1>2, PrefixText
<1>. HIDE DEF hashed
<1>4. IsText(signed)
  BY <1>3, SignText
<1>. HIDE DEF signed
<1>5. IsText(_out_rev(signed, pw, f))
  BY <1>1, <1>4, OutRevText
<1>6. _ntoa_format(buf, negative, base, prec, w, f) = _out_rev(signed, pw, f)
  BY DEF _ntoa_format, signed, hashed, zeros, pw
<1>. QED  BY <1>5, <1>6

LEMMA PlacesNat ==
  ASSUME NEW v, NEW base
  PROVE  /\ Places(v, base) \in 1 .. 64
         /\ v = 0 /\ base \in Nat /\ base >= 2 => Places(v, base) = 1
<1>. DEFINE Enough(n) == n = 64 \/ v < Power(base)[n]
            Right(n) == Enough(n) /\ \A k \in 1 .. n - 1 : ~Enough(k)
            T == {n \in 1 .. 64 : Enough(n)}
<1>1. T \in SUBSET Nat /\ 64 \in T
  OBVIOUS
<1>. HIDE DEF Enough
<1>2. PICK m \in T : \A k \in T : m <= k
  <2>. HIDE DEF T
  <2>. QED  BY <1>1, LeastOf
<1>3. m \in 1 .. 64 /\ Right(m)
  BY <1>2
<1>. HIDE DEF Right
<1>4. Places(v, base) = CHOOSE n \in 1 .. 64 : Right(n)
  BY DEF Places, Right, Enough
<1>5. Places(v, base) \in 1 .. 64 /\ Right(Places(v, base))
  BY <1>3, <1>4, Zenon
<1>6. ASSUME v = 0, base \in Nat, base >= 2  PROVE Places(v, base) = 1
  <2>1. 0 \in Nat /\ 0 + 1 = 1 /\ base >= 1
    BY <1>6
  <2>2. Power(base)[0] = 1 /\ Power(base)[0 + 1] = base * Power(base)[0]
    BY <1>6, <2>1, PowerFacts
  <2>3. v < Power(base)[1]
    BY <1>6, <2>1, <2>2
  <2>4. Enough(1)
    BY <2>3 DEF Enough
  <2>5. CASE Places(v, base) # 1
    <3>1. 1 \in 1 .. Places(v, base) - 1
      BY <1>5, <2>5
    <3>. QED  BY <1>5, <2>4, <3>1 DEF Right
  <2>. QED  BY <2>5
<1>. QED  BY <1>5, <1>6

LEMMA BufferNat == BufferSize \in Nat /\ BufferSize >= 1
<1>1. BufferSize \in Nat \ {0}
  BY PrintfAssumption, Zenon
<1>. QED  BY <1>1

LEMMA DigitsText ==
  ASSUME NEW v, NEW base, NEW upper
  PROVE  IsText(DigitsOf(v, base, upper))
<1>. DEFINE n == Smaller(Places(v, base), BufferSize)
            d == DigitsOf(v, base, upper)
<1>1. n \in Nat
  <2>1. Places(v, base) \in 1 .. 64
    BY PlacesNat
  <2>. QED  BY ONLY <2>1, BufferNat DEF Smaller
<1>2. d = [k \in 1 .. n |-> d[k]]
  BY DEF DigitsOf
<1>. HIDE DEF n, d
<1>3. IsText(d)
  BY <1>1, <1>2, FunctionText
<1>. QED  BY <1>3 DEF d

LEMMA LongText ==
  ASSUME NEW v, NEW negative \in BOOLEAN, NEW base, NEW prec \in Int, NEW w \in Int, NEW f
  PROVE  IsText(_ntoa_long(v, negative, base, prec, w, f))
<1>. DEFINE g == IF v = 0 THEN f \ {"hash"} ELSE f
            buf == IF "precision" \in g /\ v = 0 THEN <<>>
                   ELSE DigitsOf(v, base, "uppercase" \in g)
<1>1. IsText(buf)
  <2>. HIDE DEF g
  <2>. QED  BY DigitsText, EmptyText
<1>. HIDE DEF buf, g
<1>2. IsText(_ntoa_format(buf, negative, base, prec, w, g))
  BY <1>1, FormatText
<1>3. _ntoa_long(v, negative, base, prec, w, f) = _ntoa_format(buf, negative, base, prec, w, g)
  BY DEF _ntoa_long, buf, g
<1>. QED  BY <1>2, <1>3

LEMMA PaddedText ==
  ASSUME NEW s, IsText(s), NEW n \in Int, width \in Nat
  PROVE  IsText(Padded(s, n))
<1>1. width - n \in Int
  OBVIOUS
<1>2. IsText(Fill(" ", width - n))
  BY <1>1, FillText
<1>. QED  BY <1>2, CatText DEF Padded

LEMMA DigitsNat == \A d \in Digits : d \in Nat
<1>1. Digits \subseteq 0 .. 9
  BY PrintfAssumption, Zenon
<1>. QED  BY <1>1

------------------------------------------------------------------------------
(* Formatted output: the invariant. *)

PrintfInvariant ==
  /\ maxlen \in Nat /\ width \in Nat /\ precision \in Nat
  /\ IsText(full) /\ idx = Len(full)
  /\ pc # "done" => buffer = Held(full)
  /\ Truncates

LEMMA StartText ==
  Init => PrintfInvariant
<1>. SUFFICES ASSUME Init PROVE PrintfInvariant
  OBVIOUS
<1>1. maxlen \in Nat /\ width \in Nat /\ precision \in Nat /\ idx = 0 /\ pc = "text"
  BY PrintfAssumption DEF Init
<1>2. IsText(full) /\ Len(full) = 0
  BY EmptyText DEF Init
<1>3. buffer = Held(full)
  BY <1>1, <1>2 DEF Init, Held
<1>. QED  BY <1>1, <1>2, <1>3 DEF PrintfInvariant, Truncates

\* What is put out behind what the buffer holds is held, as far as it fits.
LEMMA OutHolds ==
  ASSUME PrintfInvariant, pc # "done", NEW s, IsText(s), out(s)
  PROVE  /\ maxlen' = maxlen /\ IsText(full') /\ idx' = Len(full') /\ buffer' = Held(full)'
<1>1. maxlen' = maxlen /\ maxlen \in Nat /\ full' = full \o s
  BY DEF out, PrintfInvariant
<1>2. Len(full) \in Nat /\ Len(s) \in Nat
  BY TextLength DEF PrintfInvariant
<1>3. IsText(full') /\ Len(full') = Len(full) + Len(s)
  BY <1>1, CatText DEF PrintfInvariant
<1>4. idx' = Len(full')
  BY <1>3 DEF out, PrintfInvariant
<1>5. buffer' = [k \in 0 .. maxlen |->
                  IF k \in Len(full) .. Len(full) + Len(s) - 1 /\ k < maxlen
                  THEN s[k - Len(full) + 1]
                  ELSE IF k < Len(full) /\ k < maxlen THEN full[k + 1] ELSE Untouched]
  BY <1>1 DEF out, _out_buffer, PrintfInvariant, Held
<1>6. Held(full)' = [k \in 0 .. maxlen |->
                      IF k < Len(full') /\ k < maxlen THEN full'[k + 1] ELSE Untouched]
  BY <1>1 DEF Held
<1>7. ASSUME NEW k \in 0 .. maxlen
      PROVE  (IF k \in Len(full) .. Len(full) + Len(s) - 1 /\ k < maxlen
              THEN s[k - Len(full) + 1]
              ELSE IF k < Len(full) /\ k < maxlen THEN full[k + 1] ELSE Untouched)
             = IF k < Len(full') /\ k < maxlen THEN full'[k + 1] ELSE Untouched
  <2>1. CASE k < Len(full)
    <3>1. k + 1 \in 1 .. Len(full)
      BY <1>2, <2>1
    <3>2. full'[k + 1] = full[k + 1]
      BY <1>1, <3>1, CatText DEF PrintfInvariant
    <3>. QED  BY <1>1, <1>2, <1>3, <2>1, <3>2
  <2>2. CASE k >= Len(full) /\ k < Len(full) + Len(s)
    <3>1. k + 1 \in Len(full) + 1 .. Len(full) + Len(s) /\ k + 1 - Len(full) = k - Len(full) + 1
      BY <1>2, <2>2
    <3>2. full'[k + 1] = s[k + 1 - Len(full)]
      BY <1>1, <3>1, CatText DEF PrintfInvariant
    <3>. QED  BY <1>1, <1>2, <1>3, <2>2, <3>1, <3>2
  <2>3. CASE k >= Len(full) + Len(s)
    BY <1>1, <1>2, <1>3, <2>3
  <2>. QED  BY <1>2, <2>1, <2>2, <2>3
<1>8. buffer' = Held(full)'
  BY <1>5, <1>6, <1>7, Zenon
<1>. QED  BY <1>1, <1>3, <1>4, <1>8

LEMMA ConvertedKeeps ==
  ASSUME PrintfInvariant, NEW spec, NEW arg, NEW s, IsText(s), Converted(spec, arg, s)
  PROVE  PrintfInvariant'
<1>1. pc # "done" /\ pc' = "text" /\ width' = width /\ precision' = precision /\ out(s)
  BY DEF Converted, InConversion
<1>2. maxlen' = maxlen /\ IsText(full') /\ idx' = Len(full') /\ buffer' = Held(full)'
  BY <1>1, OutHolds
<1>. QED  BY <1>1, <1>2 DEF PrintfInvariant, Truncates

\* The steps that put nothing out.
LEMMA FieldKeeps ==
  ASSUME PrintfInvariant, pc # "done", pc' # "done", width' \in Nat, precision' \in Nat,
         UNCHANGED <<buffer, maxlen, idx, full>>
  PROVE  PrintfInvariant'
<1>1. Held(full)' = Held(full)
  BY DEF Held
<1>2. IsText(full')
  BY DEF PrintfInvariant
<1>. QED  BY <1>1, <1>2 DEF PrintfInvariant, Truncates

LEMMA TerminateTruncates ==
  ASSUME PrintfInvariant, Terminate
  PROVE  PrintfInvariant'
<1>. DEFINE n == Smaller(Len(full), maxlen - 1)
<1>1. Len(full) \in Nat /\ maxlen \in Nat /\ idx = Len(full) /\ pc = "text"
  BY TextLength DEF PrintfInvariant, Terminate
<1>2. UNCHANGED <<maxlen, idx, full, width, precision>> /\ pc' = "done"
  BY DEF Terminate
<1>3. buffer = Held(full)
  BY <1>1 DEF PrintfInvariant
<1>4. n \in Int /\ n <= Len(full) /\ n < maxlen /\ (n = Len(full) \/ n = maxlen - 1)
  BY <1>1 DEF Smaller
<1>5. Len(<<Nul>>) = 1 /\ <<Nul>>[1] = Nul
  OBVIOUS
<1>6. buffer' = [k \in 0 .. maxlen |-> IF k \in n .. n /\ k < maxlen THEN <<Nul>>[k - n + 1]
                                      ELSE IF k < Len(full) /\ k < maxlen THEN full[k + 1]
                                      ELSE Untouched]
  <2>1. buffer' = _out_buffer(buffer, <<Nul>>, n)
    BY <1>1 DEF Terminate
  <2>2. n + 1 - 1 = n
    BY <1>4
  <2>. HIDE DEF n
  <2>. QED  BY <1>3, <1>5, <2>1, <2>2 DEF _out_buffer, Held
<1>. HIDE DEF n
<1>7. ASSUME NEW k \in 0 .. maxlen
      PROVE  (IF k \in n .. n /\ k < maxlen THEN <<Nul>>[k - n + 1]
              ELSE IF k < Len(full) /\ k < maxlen THEN full[k + 1] ELSE Untouched)
             = IF k < n THEN full[k + 1] ELSE IF k = n THEN Nul ELSE Untouched
  BY <1>1, <1>4, <1>5
<1>8. buffer' = [k \in 0 .. maxlen |-> IF k < n THEN full[k + 1]
                                      ELSE IF k = n THEN Nul ELSE Untouched]
  BY <1>6, <1>7, Zenon
<1>9. Truncates'
  BY <1>1, <1>2, <1>8 DEF Truncates, n
<1>. QED  BY <1>2, <1>9 DEF PrintfInvariant

LEMMA StringKeeps ==
  ASSUME PrintfInvariant, NEW s \in Strings, String(s)
  PROVE  PrintfInvariant'
<1>. DEFINE m == IF precision > 0 THEN _strnlen_s(s, precision) ELSE Len(s)
            kept == IF "precision" \in flags THEN Smaller(m, precision) ELSE m
            shown == IF "precision" \in flags THEN SubSeq(s, 1, Smaller(Len(s), precision)) ELSE s
<1>1. IsText(s)
  BY PrintfAssumption DEF IsText
<1>2. Len(s) \in Nat /\ precision \in Nat /\ width \in Nat
  BY <1>1, TextLength DEF PrintfInvariant
<1>3. kept \in Int
  BY <1>2 DEF _strnlen_s, Smaller
<1>4. Smaller(Len(s), precision) \in 0 .. Len(s)
  BY <1>2 DEF Smaller
<1>5. IsText(shown)
  BY <1>1, <1>4, CutText
<1>6. Converted("s", s, Padded(shown, kept))
  BY DEF String
<1>. HIDE DEF shown, kept
<1>7. IsText(Padded(shown, kept))
  BY <1>2, <1>3, <1>5, PaddedText
<1>. QED  BY <1>6, <1>7, ConvertedKeeps

LEMMA NumberKeeps ==
  ASSUME PrintfInvariant, NEW v, NEW spec, Number(spec, v)
  PROVE  PrintfInvariant'
<1>. DEFINE value == IF spec \in {"d", "i"} THEN Narrowed(v) ELSE Unsigned(v, Bits[size])
            magnitude == IF value > 0 THEN value ELSE -value
            s == _ntoa_long(magnitude, value < 0, Base(spec), precision, width, Heeded(spec))
<1>1. precision \in Int /\ width \in Int
  BY DEF PrintfInvariant
<1>2. (value < 0) \in BOOLEAN
  OBVIOUS
<1>3. IsText(s)
  <2>. HIDE DEF magnitude, value
  <2>. QED  BY <1>1, <1>2, LongText
<1>4. Converted(spec, v, s)
  BY DEF Number
<1>. HIDE DEF s
<1>. QED  BY <1>3, <1>4, ConvertedKeeps

LEMMA StepText ==
  PrintfInvariant /\ [_vsnprintf]_vars => PrintfInvariant'
<1>. SUFFICES ASSUME PrintfInvariant, [_vsnprintf]_vars PROVE PrintfInvariant'
  OBVIOUS
<1>1. width \in Nat /\ precision \in Nat /\ width \in Int /\ precision \in Int
  BY DEF PrintfInvariant
<1>2. CASE PlainChar
  <2>1. pc # "done" /\ pc' = pc /\ width' = width /\ precision' = precision /\ out(<<"t">>)
    BY <1>2 DEF PlainChar
  <2>2. maxlen' = maxlen /\ IsText(full') /\ idx' = Len(full') /\ buffer' = Held(full)'
    BY <2>1, OutHolds, OneText
  <2>. QED  BY <2>1, <2>2 DEF PrintfInvariant, Truncates
<1>3. CASE Percent
  BY <1>3, FieldKeeps DEF Percent
<1>4. ASSUME NEW flag, Flag(flag) PROVE PrintfInvariant'
  BY <1>1, <1>4, FieldKeeps DEF Flag
<1>5. ASSUME NEW d \in Digits, WidthDigit(d) PROVE PrintfInvariant'
  <2>1. d \in Nat
    BY DigitsNat
  <2>. QED  BY <1>1, <1>5, <2>1, FieldKeeps DEF WidthDigit
<1>6. ASSUME NEW d \in Digits, PrecisionDigit(d) PROVE PrintfInvariant'
  <2>1. d \in Nat
    BY DigitsNat
  <2>. QED  BY <1>1, <1>6, <2>1, FieldKeeps DEF PrecisionDigit
<1>7. ASSUME NEW w \in {-3, 3}, WidthStar(w) PROVE PrintfInvariant'
  <2>1. w = -3 \/ w = 3
    OBVIOUS
  <2>2. width' = IF w < 0 THEN -w ELSE w
    BY <1>7 DEF WidthStar
  <2>3. width' \in Nat
    <3>1. w \in Int
      BY <2>1
    <3>. QED  BY <2>2, <3>1
  <2>. QED  BY <1>1, <1>7, <2>3, FieldKeeps DEF WidthStar
<1>8. CASE Point
  BY <1>1, <1>8, FieldKeeps DEF Point
<1>9. ASSUME NEW v \in {-3, 3}, PrecisionStar(v) PROVE PrintfInvariant'
  BY <1>1, <1>9, FieldKeeps DEF PrecisionStar, Larger
<1>10. ASSUME NEW s, LengthField(s) PROVE PrintfInvariant'
  BY <1>1, <1>10, FieldKeeps DEF LengthField
<1>11. ASSUME NEW v, NEW spec, Number(spec, v) PROVE PrintfInvariant'
  BY <1>11, NumberKeeps
<1>12. ASSUME NEW c, Character(c) PROVE PrintfInvariant'
  <2>1. IsText(Padded(<<c>>, 1))
    BY <1>1, OneText, PaddedText
  <2>. QED  BY <1>12, <2>1, ConvertedKeeps DEF Character
<1>13. ASSUME NEW s \in Strings, String(s) PROVE PrintfInvariant'
  BY <1>13, StringKeeps
<1>14. ASSUME NEW v, Pointer(v) PROVE PrintfInvariant'
  <2>. DEFINE s == _ntoa_long(v, FALSE, 16, precision, 8, flags \cup {"zeropad", "uppercase"})
  <2>1. FALSE \in BOOLEAN /\ 8 \in Int
    OBVIOUS
  <2>2. IsText(s)
    BY <1>1, <2>1, LongText
  <2>3. Converted("p", v, s)
    BY <1>14 DEF Pointer
  <2>. HIDE DEF s
  <2>. QED  BY <2>2, <2>3, ConvertedKeeps
<1>15. CASE Itself
  BY <1>15, OneText, ConvertedKeeps DEF Itself
<1>16. CASE Terminate
  BY <1>16, TerminateTruncates
<1>17. CASE UNCHANGED vars
  <2>1. IsText(full') /\ Held(full)' = Held(full)
    BY <1>17 DEF vars, PrintfInvariant, Held
  <2>. QED  BY <1>17, <2>1 DEF vars, PrintfInvariant, Truncates
<1>. QED
  BY <1>2, <1>3, <1>4, <1>5, <1>6, <1>7, <1>8, <1>9, <1>10, <1>11, <1>12, <1>13, <1>14,
     <1>15, <1>16, <1>17, Zenon DEF _vsnprintf

\* While the scan runs, the buffer holds what fits of the characters put out
\* so far and is otherwise as it was (_out_buffer), and idx counts them all.
THEOREM BufferInvariant == Spec => []PrintfInvariant
<1>1. Init => PrintfInvariant
  BY StartText
<1>2. PrintfInvariant /\ [_vsnprintf]_vars => PrintfInvariant'
  BY StepText
<1>. QED  BY <1>1, <1>2, PTL DEF Spec

\* snprintf (_vsnprintf, _out_buffer) leaves in the buffer as much of the
\* output as fits, one terminating 0, and every other byte as it was, and
\* returns the length of the whole output, for every size of the buffer, 0
\* included, every format and all arguments.
THEOREM OutputTruncates == Spec => []Truncates
<1>1. PrintfInvariant => Truncates
  BY DEF PrintfInvariant
<1>. QED  BY <1>1, BufferInvariant, PTL

------------------------------------------------------------------------------
(* Texts turned round, filled and cut. *)

Rev(s) == [k \in 1 .. Len(s) |-> s[Len(s) + 1 - k]]

LEMMA SameText ==
  ASSUME NEW s, NEW t, IsText(s), IsText(t), Len(s) = Len(t), \A k \in 1 .. Len(s) : s[k] = t[k]
  PROVE  s = t
<1>1. s = [k \in 1 .. Len(s) |-> s[k]] /\ t = [k \in 1 .. Len(t) |-> t[k]]
  BY TextLength
<1>2. [k \in 1 .. Len(s) |-> s[k]] = [k \in 1 .. Len(t) |-> t[k]]
  OBVIOUS
<1>. QED  BY <1>1, <1>2

LEMMA CatEmpty ==
  ASSUME NEW s, IsText(s)
  PROVE  s \o <<>> = s /\ <<>> \o s = s
<1>1. PICK S : s \in Seq(S)
  BY DEF IsText
<1>. QED  BY <1>1

LEMMA CatAssoc ==
  ASSUME NEW s, NEW t, NEW u, IsText(s), IsText(t), IsText(u)
  PROVE  (s \o t) \o u = s \o (t \o u)
<1>1. /\ IsText(s \o t) /\ IsText(t \o u) /\ IsText((s \o t) \o u) /\ IsText(s \o (t \o u))
      /\ Len(s \o t) = Len(s) + Len(t) /\ Len(t \o u) = Len(t) + Len(u)
      /\ Len((s \o t) \o u) = (Len(s) + Len(t)) + Len(u)
      /\ Len(s \o (t \o u)) = Len(s) + (Len(t) + Len(u))
      /\ Len(s) \in Nat /\ Len(t) \in Nat /\ Len(u) \in Nat
  BY CatText, TextLength
<1>2. ASSUME NEW k \in 1 .. Len((s \o t) \o u)
      PROVE  ((s \o t) \o u)[k] = (s \o (t \o u))[k]
  <2>1. CASE k <= Len(s)
    <3>1. k \in 1 .. Len(s) /\ k \in 1 .. Len(s \o t)
      BY <1>1, <2>1
    <3>2. ((s \o t) \o u)[k] = (s \o t)[k]
      BY <1>1, <3>1, CatText
    <3>3. (s \o t)[k] = s[k] /\ (s \o (t \o u))[k] = s[k]
      BY <1>1, <3>1, CatText
    <3>. QED  BY <3>2, <3>3
  <2>2. CASE k > Len(s) /\ k <= Len(s) + Len(t)
    <3>1. k \in 1 .. Len(s \o t) /\ k \in Len(s) + 1 .. Len(s) + Len(t)
          /\ k \in Len(s) + 1 .. Len(s) + Len(t \o u) /\ k - Len(s) \in 1 .. Len(t)
      BY <1>1, <2>2
    <3>2. ((s \o t) \o u)[k] = (s \o t)[k]
      BY <1>1, <3>1, CatText
    <3>3. (s \o t)[k] = t[k - Len(s)]
      BY <3>1, CatText
    <3>4. (s \o (t \o u))[k] = (t \o u)[k - Len(s)]
      BY <1>1, <3>1, CatText
    <3>5. (t \o u)[k - Len(s)] = t[k - Len(s)]
      BY <3>1, CatText
    <3>. QED  BY <3>2, <3>3, <3>4, <3>5
  <2>3. CASE k > Len(s) + Len(t)
    <3>1. /\ k \in Len(s \o t) + 1 .. Len(s \o t) + Len(u)
          /\ k \in Len(s) + 1 .. Len(s) + Len(t \o u)
          /\ k - Len(s) \in Len(t) + 1 .. Len(t) + Len(u)
          /\ k - Len(s \o t) = (k - Len(s)) - Len(t)
      BY <1>1, <2>3
    <3>2. ((s \o t) \o u)[k] = u[k - Len(s \o t)]
      BY <1>1, <3>1, CatText
    <3>3. (s \o (t \o u))[k] = (t \o u)[k - Len(s)]
      BY <1>1, <3>1, CatText
    <3>4. (t \o u)[k - Len(s)] = u[(k - Len(s)) - Len(t)]
      BY <3>1, CatText
    <3>. QED  BY <3>1, <3>2, <3>3, <3>4
  <2>. QED  BY <1>1, <2>1, <2>2, <2>3
<1>. QED  BY <1>1, <1>2, SameText

LEMMA RevText ==
  ASSUME NEW s, IsText(s)
  PROVE  /\ IsText(Rev(s)) /\ Len(Rev(s)) = Len(s)
         /\ \A k \in 1 .. Len(s) : Rev(s)[k] = s[Len(s) + 1 - k]
<1>1. Len(s) \in Nat
  BY TextLength
<1>. DEFINE r == Rev(s)
<1>2. r = [k \in 1 .. Len(s) |-> r[k]] /\ \A k \in 1 .. Len(s) : r[k] = s[Len(s) + 1 - k]
  BY DEF Rev
<1>. HIDE DEF r
<1>3. IsText(r) /\ Len(r) = Len(s)
  BY <1>1, <1>2, FunctionText
<1>. QED  BY <1>2, <1>3 DEF r

LEMMA RevCat ==
  ASSUME NEW s, NEW t, IsText(s), IsText(t)
  PROVE  Rev(s \o t) = Rev(t) \o Rev(s)
<1>. DEFINE l1 == Rev(s \o t)
            l2 == Rev(t) \o Rev(s)
<1>1. Len(s) \in Nat /\ Len(t) \in Nat /\ IsText(s \o t) /\ Len(s \o t) = Len(s) + Len(t)
  BY TextLength, CatText
<1>2. IsText(Rev(s)) /\ IsText(Rev(t)) /\ Len(Rev(s)) = Len(s) /\ Len(Rev(t)) = Len(t)
  BY RevText
<1>3. IsText(l1) /\ Len(l1) = Len(s) + Len(t)
  BY <1>1, RevText
<1>4. IsText(l2) /\ Len(l2) = Len(t) + Len(s)
  BY <1>2, CatText
<1>5. ASSUME NEW k \in 1 .. Len(l1)  PROVE l1[k] = l2[k]
  <2>. DEFINE q == (Len(s) + Len(t)) + 1 - k
  <2>1. k \in 1 .. Len(s \o t) /\ k \in Int /\ q \in Int
    BY <1>1, <1>3
  <2>2. l1[k] = (s \o t)[Len(s \o t) + 1 - k]
    BY <1>1, <2>1, RevText
  <2>3. l1[k] = (s \o t)[q]
    BY <1>1, <2>2
  <2>. HIDE DEF l1
  <2>4. CASE k <= Len(t)
    <3>1. k \in 1 .. Len(Rev(t)) /\ k \in 1 .. Len(t) /\ q \in Len(s) + 1 .. Len(s) + Len(t)
          /\ q - Len(s) = Len(t) + 1 - k
      BY <1>1, <1>2, <2>1, <2>4
    <3>2. (s \o t)[q] = t[q - Len(s)]
      BY <3>1, CatText
    <3>3. l2[k] = Rev(t)[k]
      BY <1>2, <3>1, CatText
    <3>4. Rev(t)[k] = t[Len(t) + 1 - k]
      BY <3>1, RevText
    <3>. QED  BY <2>3, <3>1, <3>2, <3>3, <3>4
  <2>5. CASE k > Len(t)
    <3>1. k \in Len(Rev(t)) + 1 .. Len(Rev(t)) + Len(Rev(s)) /\ k - Len(t) \in 1 .. Len(s)
          /\ q \in 1 .. Len(s) /\ q = Len(s) + 1 - (k - Len(t))
      BY <1>1, <1>2, <1>3, <2>1, <2>5
    <3>2. (s \o t)[q] = s[q]
      BY <3>1, CatText
    <3>3. l2[k] = Rev(s)[k - Len(Rev(t))]
      BY <1>2, <3>1, CatText
    <3>4. Rev(s)[k - Len(t)] = s[Len(s) + 1 - (k - Len(t))]
      BY <3>1, RevText
    <3>. QED  BY <1>2, <2>3, <3>1, <3>2, <3>3, <3>4
  <2>6. k <= Len(t) \/ k > Len(t)
    BY <1>1, <2>1
  <2>. QED  BY <2>4, <2>5, <2>6, Zenon
<1>6. \A k \in 1 .. Len(l1) : l1[k] = l2[k]
  BY <1>5
<1>7. Len(l1) = Len(l2)
  BY <1>1, <1>3, <1>4
<1>. HIDE DEF l1, l2
<1>8. l1 = l2
  BY <1>3, <1>4, <1>6, <1>7, SameText
<1>. QED  BY <1>8 DEF l1, l2

LEMMA FillFacts ==
  ASSUME NEW c, NEW n \in Int
  PROVE  /\ IsText(Fill(c, n)) /\ Len(Fill(c, n)) = (IF n > 0 THEN n ELSE 0)
         /\ \A k \in 1 .. n : Fill(c, n)[k] = c
         /\ n <= 0 => Fill(c, n) = <<>>
<1>1. CASE n > 0
  <2>. DEFINE f == Fill(c, n)
  <2>1. f = [k \in 1 .. n |-> f[k]] /\ \A k \in 1 .. n : f[k] = c
    BY DEF Fill
  <2>. HIDE DEF f
  <2>2. IsText(f) /\ Len(f) = n
    BY <1>1, <2>1, FunctionText
  <2>. QED  BY <1>1, <2>1, <2>2 DEF f
<1>2. CASE n <= 0
  <2>1. Fill(c, n) = <<>>
    BY <1>2 DEF Fill
  <2>2. 1 .. n = {} /\ Len(<<>>) = 0
    BY <1>2
  <2>. QED  BY <1>2, <2>1, <2>2, EmptyText
<1>. QED  BY <1>1, <1>2

LEMMA RevFill ==
  ASSUME NEW c, NEW n \in Int
  PROVE  Rev(Fill(c, n)) = Fill(c, n)
<1>. DEFINE f == Fill(c, n)
            m == IF n > 0 THEN n ELSE 0
<1>1. IsText(f) /\ Len(f) = m /\ \A k \in 1 .. n : f[k] = c
  BY FillFacts
<1>2. m \in Nat /\ \A k \in 1 .. m : k \in 1 .. n /\ m + 1 - k \in 1 .. n
  OBVIOUS
<1>. HIDE DEF f, m
<1>3. IsText(Rev(f)) /\ Len(Rev(f)) = m /\ \A k \in 1 .. m : Rev(f)[k] = f[m + 1 - k]
  BY <1>1, RevText
<1>4. \A k \in 1 .. Len(Rev(f)) : Rev(f)[k] = f[k]
  BY <1>1, <1>2, <1>3
<1>5. Rev(f) = f
  BY <1>1, <1>3, <1>4, SameText
<1>. QED  BY <1>5 DEF f

LEMMA RevShort ==
  ASSUME NEW c
  PROVE  Rev(<<c>>) = <<c>> /\ Rev(<<>>) = <<>>
<1>1. IsText(<<c>>) /\ Len(<<c>>) = 1 /\ <<c>>[1] = c /\ IsText(<<>>) /\ Len(<<>>) = 0
  BY OneText, EmptyText
<1>2. IsText(Rev(<<c>>)) /\ Len(Rev(<<c>>)) = 1 /\ Rev(<<c>>)[1] = <<c>>[Len(<<c>>) + 1 - 1]
  BY <1>1, RevText
<1>3. Rev(<<c>>)[1] = <<c>>[1]
  BY <1>1, <1>2
<1>4. \A k \in 1 .. Len(Rev(<<c>>)) : Rev(<<c>>)[k] = <<c>>[k]
  BY <1>2, <1>3
<1>5. Rev(<<c>>) = <<c>>
  BY <1>1, <1>2, <1>4, SameText
<1>6. IsText(Rev(<<>>)) /\ Len(Rev(<<>>)) = 0
  BY <1>1, RevText
<1>7. \A k \in 1 .. Len(Rev(<<>>)) : Rev(<<>>)[k] = <<>>[k]
  BY <1>6
<1>8. Rev(<<>>) = <<>>
  BY <1>1, <1>6, <1>7, SameText
<1>. QED  BY <1>5, <1>8

\* Zeros behind zeros.
LEMMA FillMore ==
  ASSUME NEW c, NEW m \in Nat
  PROVE  Fill(c, m) \o <<c>> = Fill(c, m + 1)
<1>. DEFINE f == Fill(c, m)
            g == Fill(c, m + 1)
<1>1. IsText(f) /\ Len(f) = m /\ \A k \in 1 .. m : f[k] = c
  BY FillFacts
<1>2. IsText(g) /\ Len(g) = m + 1 /\ \A k \in 1 .. m + 1 : g[k] = c
  BY FillFacts
<1>. HIDE DEF f, g
<1>3. IsText(<<c>>) /\ Len(<<c>>) = 1 /\ <<c>>[1] = c
  BY OneText
<1>4. /\ IsText(f \o <<c>>) /\ Len(f \o <<c>>) = m + 1
      /\ \A k \in 1 .. m : (f \o <<c>>)[k] = f[k]
      /\ \A k \in m + 1 .. m + 1 : (f \o <<c>>)[k] = <<c>>[k - m]
  BY <1>1, <1>3, CatText
<1>5. (f \o <<c>>)[m + 1] = <<c>>[(m + 1) - m] /\ (m + 1) - m = 1
  BY <1>4
<1>6. \A k \in 1 .. Len(f \o <<c>>) : (f \o <<c>>)[k] = g[k]
  <2>1. ASSUME NEW k \in 1 .. m + 1  PROVE (f \o <<c>>)[k] = c
    <3>1. CASE k = m + 1
      BY <1>3, <1>5, <3>1
    <3>2. CASE k # m + 1
      BY <1>1, <1>4, <3>2
    <3>. QED  BY <3>1, <3>2
  <2>. QED  BY <1>2, <1>4, <2>1
<1>7. f \o <<c>> = g
  BY <1>2, <1>4, <1>6, SameText
<1>. QED  BY <1>7 DEF f, g

\* What is cut off is cut off the zeros.
LEMMA CutZeros ==
  ASSUME NEW s, IsText(s), NEW n \in Nat, NEW m \in Nat, m <= n
  PROVE  SubSeq(s \o Fill("0", n), 1, Len(s) + m) = s \o Fill("0", m)
<1>. DEFINE f == Fill("0", n)
            g == Fill("0", m)
            c == SubSeq(s \o f, 1, Len(s) + m)
<1>1. IsText(f) /\ Len(f) = n /\ \A k \in 1 .. n : f[k] = "0"
  BY FillFacts
<1>2. IsText(g) /\ Len(g) = m /\ \A k \in 1 .. m : g[k] = "0"
  BY FillFacts
<1>. HIDE DEF f, g
<1>3. /\ Len(s) \in Nat /\ IsText(s \o f) /\ Len(s \o f) = Len(s) + n
      /\ \A k \in 1 .. Len(s) : (s \o f)[k] = s[k]
      /\ \A k \in Len(s) + 1 .. Len(s) + n : (s \o f)[k] = f[k - Len(s)]
  BY <1>1, TextLength, CatText
<1>4. /\ IsText(s \o g) /\ Len(s \o g) = Len(s) + m
      /\ \A k \in 1 .. Len(s) : (s \o g)[k] = s[k]
      /\ \A k \in Len(s) + 1 .. Len(s) + m : (s \o g)[k] = g[k - Len(s)]
  BY <1>2, <1>3, CatText
<1>5. Len(s) + m \in 0 .. Len(s \o f)
  BY <1>3
<1>6. IsText(c)
  BY <1>3, <1>5, CutText
<1>7. Len(c) = Len(s) + m /\ \A k \in 1 .. Len(s) + m : c[k] = (s \o f)[k]
  <2>1. PICK S : s \o f \in Seq(S)
    BY <1>3 DEF IsText
  <2>2. 1 \in 1 .. (Len(s) + m) + 1
    BY <1>3
  <2>. DEFINE u == s \o f
              n1 == Len(s) + m
  <2>3. u \in Seq(S) /\ n1 \in 0 .. Len(u) /\ c = SubSeq(u, 1, n1)
    BY <1>5, <2>1
  <2>. HIDE DEF u, n1, c
  <2>4. Len(c) = n1 /\ \A k \in 1 .. n1 : c[k] = u[k]
    BY <2>3
  <2>. QED  BY <2>4 DEF u, n1
<1>. HIDE DEF c
<1>8. ASSUME NEW k \in 1 .. Len(c)  PROVE c[k] = (s \o g)[k]
  <2>1. CASE k <= Len(s)
    BY <1>3, <1>4, <1>7, <2>1
  <2>2. CASE k > Len(s)
    <3>1. k \in Len(s) + 1 .. Len(s) + n /\ k \in Len(s) + 1 .. Len(s) + m
          /\ k - Len(s) \in 1 .. m /\ k - Len(s) \in 1 .. n /\ k \in 1 .. Len(s) + m
      BY <1>3, <1>7, <2>2
    <3>. QED  BY <1>1, <1>2, <1>3, <1>4, <1>7, <3>1
  <2>3. k \in Int /\ (k <= Len(s) \/ k > Len(s))
    BY <1>3, <1>7
  <2>. QED  BY <2>1, <2>2, <2>3, Zenon
<1>9. c = s \o g
  BY <1>4, <1>6, <1>7, <1>8, SameText
<1>. QED  BY <1>9 DEF c, f, g

LEMMA TailText ==
  ASSUME NEW s, NEW t, IsText(s), IsText(t)
  PROVE  SubSeq(s \o t, Len(s) + 1, Len(s) + Len(t)) = t
<1>1. PICK S : s \in Seq(S)
  BY DEF IsText
<1>2. PICK T : t \in Seq(T)
  BY DEF IsText
<1>3. s \in Seq(S \cup T) /\ t \in Seq(S \cup T)
  BY <1>1, <1>2
<1>. QED  BY <1>3

LEMMA HeadText ==
  ASSUME NEW s, NEW t, IsText(s), IsText(t), NEW lo \in Nat, NEW hi \in Nat, lo >= 1, hi <= Len(s)
  PROVE  SubSeq(s \o t, lo, hi) = SubSeq(s, lo, hi)
<1>1. PICK S : s \in Seq(S)
  BY DEF IsText
<1>2. PICK T : t \in Seq(T)
  BY DEF IsText
<1>3. s \in Seq(S \cup T) /\ t \in Seq(S \cup T)
  BY <1>1, <1>2
<1>. QED  BY <1>3

------------------------------------------------------------------------------
(* A number, from its last digit to its sign. *)

\* s with zeros behind it up to a length of k.
ZerosTo(s, k) == s \o Fill("0", k - Len(s))

LEMMA ZerosToFacts ==
  ASSUME NEW s, IsText(s), NEW k \in Int
  PROVE  /\ IsText(ZerosTo(s, k)) /\ Len(ZerosTo(s, k)) = Larger(Len(s), k)
         /\ k <= Len(s) => ZerosTo(s, k) = s
<1>1. Len(s) \in Nat
  BY TextLength
<1>. DEFINE d == k - Len(s)
            f == Fill("0", d)
<1>2. d \in Int
  BY <1>1
<1>3. IsText(f) /\ Len(f) = (IF d > 0 THEN d ELSE 0) /\ (d <= 0 => f = <<>>)
  <2>. HIDE DEF d
  <2>. QED  BY <1>2, FillFacts
<1>4. ZerosTo(s, k) = s \o f
  BY DEF ZerosTo
<1>. HIDE DEF f
<1>5. IsText(s \o f) /\ Len(s \o f) = Len(s) + Len(f)
  BY <1>3, CatText
<1>6. s \o <<>> = s
  BY CatEmpty
<1>7. Len(s \o f) = Larger(Len(s), k)
  <2>1. Len(f) = IF k - Len(s) > 0 THEN k - Len(s) ELSE 0
    BY <1>3
  <2>. QED  BY <1>1, <1>5, <2>1 DEF Larger
<1>8. k <= Len(s) => s \o f = s
  <2>1. k <= Len(s) => d <= 0
    BY <1>1
  <2>. QED  BY <2>1, <1>3, <1>6
<1>. HIDE DEF d
<1>. QED  BY <1>4, <1>5, <1>7, <1>8

LEMMA RevZeros ==
  ASSUME NEW s, IsText(s), NEW k \in Int
  PROVE  Rev(ZerosTo(s, k)) = Fill("0", k - Len(s)) \o Rev(s)
<1>1. k - Len(s) \in Int
  BY TextLength
<1>2. IsText(Fill("0", k - Len(s)))
  BY <1>1, FillFacts
<1>3. Rev(s \o Fill("0", k - Len(s))) = Rev(Fill("0", k - Len(s))) \o Rev(s)
  BY <1>2, RevCat
<1>4. Rev(Fill("0", k - Len(s))) = Fill("0", k - Len(s))
  BY <1>1, RevFill
<1>. QED  BY <1>3, <1>4 DEF ZerosTo

LEMMA PutFacts ==
  ASSUME NEW buf, NEW c, IsText(buf), Len(buf) < BufferSize
  PROVE  Put(buf, c) = buf \o <<c>> /\ IsText(buf \o <<c>>) /\ Len(buf \o <<c>>) = Len(buf) + 1
<1>1. Put(buf, c) = Append(buf, c)
  BY DEF Put, HasRoom
<1>2. PICK S : buf \in Seq(S)
  BY DEF IsText
<1>3. buf \in Seq(S \cup {c}) /\ c \in S \cup {c}
  BY <1>2
<1>4. Append(buf, c) = buf \o <<c>>
  BY <1>3
<1>5. IsText(<<c>>) /\ Len(<<c>>) = 1
  BY OneText
<1>. QED  BY <1>1, <1>4, <1>5, CatText

LEMMA PutZerosFacts ==
  ASSUME NEW buf, NEW n \in Int, n <= BufferSize
  PROVE  PutZeros(buf, n) = ZerosTo(buf, n)
<1>1. Smaller(n, BufferSize) = n
  BY BufferNat DEF Smaller
<1>. QED  BY <1>1 DEF PutZeros, ZerosTo

\* How far the zeros reach.
Reach(prec, w, f) == IF "left" \in f THEN 0 ELSE IF "zeropad" \in f THEN w ELSE prec

LEMMA LeadingZerosFacts ==
  ASSUME NEW buf, IsText(buf), NEW prec \in Nat, NEW w \in Nat, NEW f,
         "zeropad" \in f => prec = 0, Reach(prec, w, f) <= BufferSize
  PROVE  LeadingZeros(buf, prec, w, f) = ZerosTo(buf, Reach(prec, w, f))
<1>0. Len(buf) \in Nat
  BY TextLength
<1>1. ZerosTo(buf, 0) = buf
  BY <1>0, ZerosToFacts
<1>2. CASE "left" \in f
  BY <1>1, <1>2 DEF LeadingZeros, Reach
<1>3. CASE "left" \notin f /\ "zeropad" \in f
  <2>1. PutZeros(buf, prec) = buf
    BY <1>1, <1>3, BufferNat, PutZerosFacts
  <2>2. PutZeros(buf, w) = ZerosTo(buf, w)
    BY <1>3, PutZerosFacts DEF Reach
  <2>. QED  BY <1>3, <2>1, <2>2 DEF LeadingZeros, Reach
<1>4. CASE "left" \notin f /\ "zeropad" \notin f
  <2>1. PutZeros(buf, prec) = ZerosTo(buf, prec)
    BY <1>4, PutZerosFacts DEF Reach
  <2>. QED  BY <1>4, <2>1 DEF LeadingZeros, Reach
<1>. QED  BY <1>2, <1>3, <1>4

\* What # adds, before the 0.
HashMark(base, f) ==
  IF base = 16 THEN (IF "uppercase" \in f THEN <<"X">> ELSE <<"x">>)
  ELSE IF base = 2 THEN <<"b">> ELSE <<>>

Cut(n, base, prec, w, f) ==
  IF "precision" \notin f /\ n > 0 /\ n \in {prec, w}
  THEN IF n > 1 /\ base = 16 THEN 2 ELSE 1
  ELSE 0

Kept(buf, base, prec, w, f) == SubSeq(buf, 1, Len(buf) - Cut(Len(buf), base, prec, w, f))

LEMMA PrefixFacts ==
  ASSUME NEW buf, NEW base, NEW prec, NEW w, NEW f, IsText(Kept(buf, base, prec, w, f)),
         Len(Kept(buf, base, prec, w, f)) + Len(HashMark(base, f)) + 1 <= BufferSize
  PROVE  Prefix(buf, base, prec, w, f) = (Kept(buf, base, prec, w, f) \o HashMark(base, f)) \o <<"0">>
<1>. DEFINE rest == Kept(buf, base, prec, w, f)
            marked == CASE base = 16 /\ "uppercase" \notin f -> Put(rest, "x")
                        [] base = 16 /\ "uppercase" \in f -> Put(rest, "X")
                        [] base = 2 -> Put(rest, "b")
                        [] OTHER -> rest
            hm == HashMark(base, f)
<1>1. Prefix(buf, base, prec, w, f) = Put(marked, "0")
  BY DEF Prefix, Kept, Cut
<1>2. IsText(rest) /\ Len(rest) + Len(hm) + 1 <= BufferSize
  OBVIOUS
<1>. HIDE DEF rest
<1>3. Len(rest) \in Nat /\ rest \o <<>> = rest
  BY <1>2, TextLength, CatEmpty
<1>4. /\ Len(<<"x">>) = 1 /\ Len(<<"X">>) = 1 /\ Len(<<"b">>) = 1 /\ Len(<<>>) = 0
      /\ IsText(<<"x">>) /\ IsText(<<"X">>) /\ IsText(<<"b">>) /\ IsText(<<>>)
  BY OneText, EmptyText
<1>5. IsText(hm) /\ (Len(hm) = 1 \/ (Len(hm) = 0 /\ hm = <<>>))
  <2>1. hm = <<"x">> \/ hm = <<"X">> \/ hm = <<"b">> \/ hm = <<>>
    BY DEF HashMark
  <2>. HIDE DEF hm
  <2>. QED  BY <1>4, <2>1, Zenon
<1>6. hm # <<>> => \A c : Put(rest, c) = rest \o <<c>>
  <2>1. hm # <<>> => Len(rest) < BufferSize
    <3>1. Len(rest) + Len(hm) + 1 <= BufferSize
      BY <1>2
    <3>. HIDE DEF hm
    <3>2. Len(hm) \in Nat
      BY <1>5
    <3>3. Len(rest) < BufferSize
      BY ONLY <3>1, <3>2, <1>3, BufferNat
    <3>. QED  BY <3>3
  <2>. QED  BY <1>2, <2>1, PutFacts
<1>7. <<"x">> # <<>> /\ <<"X">> # <<>> /\ <<"b">> # <<>>
  OBVIOUS
<1>8. marked = rest \o hm
  <2>1. CASE base = 16 /\ "uppercase" \notin f
    <3>1. hm = <<"x">> /\ marked = Put(rest, "x")
      BY <2>1 DEF HashMark
    <3>. HIDE DEF hm, marked
    <3>. QED  BY <3>1, <1>6, <1>7
  <2>2. CASE base = 16 /\ "uppercase" \in f
    <3>1. hm = <<"X">> /\ marked = Put(rest, "X")
      BY <2>2 DEF HashMark
    <3>. HIDE DEF hm, marked
    <3>. QED  BY <3>1, <1>6, <1>7
  <2>3. CASE base = 2
    <3>1. hm = <<"b">> /\ marked = Put(rest, "b")
      BY <2>3 DEF HashMark
    <3>. HIDE DEF hm, marked
    <3>. QED  BY <3>1, <1>6, <1>7
  <2>4. CASE base # 16 /\ base # 2
    <3>1. hm = <<>> /\ marked = rest
      BY <2>4 DEF HashMark
    <3>. HIDE DEF hm, marked
    <3>. QED  BY <3>1, <1>3
  <2>. HIDE DEF hm, marked
  <2>. QED  BY <2>1, <2>2, <2>3, <2>4
<1>9. IsText(rest \o hm) /\ Len(rest \o hm) = Len(rest) + Len(hm)
  <2>. HIDE DEF hm
  <2>. QED  BY <1>2, <1>5, CatText
<1>10. Len(rest \o hm) < BufferSize
  <2>1. Len(rest) + Len(hm) + 1 <= BufferSize
    BY <1>2
  <2>. HIDE DEF hm
  <2>2. Len(hm) \in Nat
    BY <1>5
  <2>3. Len(rest \o hm) = Len(rest) + Len(hm)
    BY <1>9
  <2>. QED  BY ONLY <2>1, <2>2, <2>3, <1>3, BufferNat
<1>11. Put(rest \o hm, "0") = (rest \o hm) \o <<"0">>
  <2>. HIDE DEF hm
  <2>. QED  BY <1>9, <1>10, PutFacts
<1>. HIDE DEF marked
<1>. QED  BY <1>1, <1>8, <1>11 DEF rest

\* The sign, as Marks has it.
SignMark(negative, f) ==
  IF negative THEN <<"-">> ELSE IF "plus" \in f THEN <<"+">> ELSE IF "space" \in f THEN <<" ">> ELSE <<>>

LEMMA SignMarkFacts ==
  ASSUME NEW negative \in BOOLEAN, NEW f
  PROVE  LET sm == SignMark(negative, f) IN
         /\ IsText(sm) /\ Len(sm) \in 0 .. 1 /\ Rev(sm) = sm
         /\ Len(sm) = 0 <=> (~negative /\ f \cap {"plus", "space"} = {})
         /\ Len(sm) = 0 => sm = <<>>
<1>. DEFINE sm == SignMark(negative, f)
<1>1. sm = <<"-">> \/ sm = <<"+">> \/ sm = <<" ">> \/ sm = <<>>
  BY DEF SignMark
<1>2. sm = <<>> <=> (~negative /\ f \cap {"plus", "space"} = {})
  BY DEF SignMark
<1>. HIDE DEF sm
<1>3. /\ IsText(<<"-">>) /\ Len(<<"-">>) = 1 /\ Rev(<<"-">>) = <<"-">>
      /\ IsText(<<"+">>) /\ Len(<<"+">>) = 1 /\ Rev(<<"+">>) = <<"+">>
      /\ IsText(<<" ">>) /\ Len(<<" ">>) = 1 /\ Rev(<<" ">>) = <<" ">>
      /\ IsText(<<>>) /\ Len(<<>>) = 0 /\ Rev(<<>>) = <<>>
  BY OneText, EmptyText, RevShort
<1>4. IsText(sm) /\ Rev(sm) = sm /\ (Len(sm) = 1 \/ Len(sm) = 0)
  BY <1>1, <1>3, Zenon
<1>5. Len(sm) = 0 <=> sm = <<>>
  <2>1. 1 # 0
    OBVIOUS
  <2>. QED  BY <1>1, <1>3, <2>1, Zenon
<1>6. Len(sm) \in 0 .. 1
  BY <1>4
<1>. QED  BY <1>2, <1>4, <1>5, <1>6 DEF sm

LEMMA SignFacts ==
  ASSUME NEW buf, IsText(buf), NEW negative \in BOOLEAN, NEW f,
         Len(buf) + Len(SignMark(negative, f)) <= BufferSize
  PROVE  Sign(buf, negative, f) = buf \o SignMark(negative, f)
<1>. DEFINE sm == SignMark(negative, f)
<1>1. Len(buf) \in Nat /\ buf \o <<>> = buf
  BY TextLength, CatEmpty
<1>2. <<"-">> # <<>> /\ <<"+">> # <<>> /\ <<" ">> # <<>>
  OBVIOUS
<1>3. Len(sm) \in 0 .. 1 /\ (Len(sm) = 0 => sm = <<>>)
  BY SignMarkFacts
<1>4. sm # <<>> => \A c : Put(buf, c) = buf \o <<c>>
  <2>1. Len(buf) + Len(sm) <= BufferSize
    OBVIOUS
  <2>. HIDE DEF sm
  <2>2. Len(sm) # 0 => Len(buf) < BufferSize
    <3>1. Len(sm) # 0 => Len(sm) = 1
      BY <1>3
    <3>. QED  BY <3>1, <1>1, <2>1, BufferNat
  <2>. QED  BY <1>3, <2>2, PutFacts
<1>5. CASE negative
  <2>1. sm = <<"-">> /\ Sign(buf, negative, f) = Put(buf, "-")
    BY <1>5 DEF SignMark, Sign
  <2>. HIDE DEF sm
  <2>2. Sign(buf, negative, f) = buf \o sm
    BY <1>2, <1>4, <2>1
  <2>. QED  BY <2>2 DEF sm
<1>6. CASE ~negative /\ "plus" \in f
  <2>1. sm = <<"+">> /\ Sign(buf, negative, f) = Put(buf, "+")
    BY <1>6 DEF SignMark, Sign
  <2>. HIDE DEF sm
  <2>2. Sign(buf, negative, f) = buf \o sm
    BY <1>2, <1>4, <2>1
  <2>. QED  BY <2>2 DEF sm
<1>7. CASE ~negative /\ "plus" \notin f /\ "space" \in f
  <2>1. sm = <<" ">> /\ Sign(buf, negative, f) = Put(buf, " ")
    BY <1>7 DEF SignMark, Sign
  <2>. HIDE DEF sm
  <2>2. Sign(buf, negative, f) = buf \o sm
    BY <1>2, <1>4, <2>1
  <2>. QED  BY <2>2 DEF sm
<1>8. CASE ~negative /\ "plus" \notin f /\ "space" \notin f
  <2>1. sm = <<>> /\ Sign(buf, negative, f) = buf
    BY <1>8 DEF SignMark, Sign
  <2>. HIDE DEF sm
  <2>2. Sign(buf, negative, f) = buf \o sm
    BY <1>1, <2>1
  <2>. QED  BY <2>2 DEF sm
<1>. QED  BY <1>5, <1>6, <1>7, <1>8, Zenon

\* The field, unless zeros fill it already.
LEMMA OutRevFacts ==
  ASSUME NEW buf, IsText(buf), NEW w \in Nat, NEW f
  PROVE  LET blanks == Fill(" ", w - Len(buf)) IN
         /\ "left" \in f => _out_rev(buf, w, f) = Rev(buf) \o blanks
         /\ f \cap {"left", "zeropad"} = {} => _out_rev(buf, w, f) = blanks \o Rev(buf)
         /\ "left" \notin f /\ "zeropad" \in f => _out_rev(buf, w, f) = Rev(buf)
<1>. DEFINE blanks == Fill(" ", w - Len(buf))
<1>1. w - Len(buf) \in Int
  BY TextLength
<1>2. IsText(blanks)
  <2>. QED  BY <1>1, FillFacts
<1>3. IsText(Rev(buf))
  BY RevText
<1>4. _out_rev(buf, w, f) =
        ((IF f \cap {"left", "zeropad"} = {} THEN blanks ELSE <<>>) \o Rev(buf))
        \o (IF "left" \in f THEN blanks ELSE <<>>)
  BY DEF _out_rev, Rev
<1>. HIDE DEF blanks
<1>5. IsText(blanks \o Rev(buf))
  BY <1>2, <1>3, CatText
<1>6. <<>> \o Rev(buf) = Rev(buf) /\ Rev(buf) \o <<>> = Rev(buf)
      /\ (blanks \o Rev(buf)) \o <<>> = blanks \o Rev(buf)
  BY <1>3, <1>5, CatEmpty
<1>7. "left" \in f => _out_rev(buf, w, f) = Rev(buf) \o blanks
  BY <1>4, <1>6
<1>8. f \cap {"left", "zeropad"} = {} => _out_rev(buf, w, f) = blanks \o Rev(buf)
  BY <1>4, <1>6
<1>9. "left" \notin f /\ "zeropad" \in f => _out_rev(buf, w, f) = Rev(buf)
  BY <1>4, <1>6
<1>. QED  BY <1>7, <1>8, <1>9 DEF blanks

------------------------------------------------------------------------------
(* What the scan has read, and the number it stands for. *)

Numeric == {"d", "u", "x", "X", "o", "b"}

\* What the scan has made of the conversion written in g.
Agrees(g) ==
  /\ width \in Nat /\ precision \in Nat /\ g.width \in Int /\ width = FieldWidth(g)
  /\ g.size = size /\ size \in {"char", "short", "int", "long", "long long"}
  /\ "left" \in flags <=> ToLeft(g)
  /\ \A t \in {"zeropad", "plus", "space", "hash"} : t \in flags <=> t \in g.flags
  /\ "uppercase" \notin flags
  /\ "precision" \notin flags => g.precision = None /\ precision = 0
  /\ "precision" \in flags => g.precision = precision \/ g.precision = None

NumberIn(g) == Agrees(g) /\ g.spec \in Numeric /\ g.arg \in Int

LEMMA BaseFacts ==
  ASSUME NEW g, g.spec \in Numeric
  PROVE  /\ Base(g.spec) \in {2, 8, 10, 16} /\ Base(g.spec) \in Nat /\ Base(g.spec) >= 2
         /\ Base(g.spec) = 16 <=> g.spec \in {"x", "X"}
         /\ Base(g.spec) = 8 <=> g.spec = "o"
         /\ Base(g.spec) = 2 <=> g.spec = "b"
         /\ Base(g.spec) = 10 <=> g.spec \in {"d", "u"}
         /\ IsSigned(g) <=> g.spec = "d"
<1>1. g.spec \in {"d", "u", "x", "X", "o", "b"}
  BY DEF Numeric
<1>. QED  BY <1>1 DEF Base, IsSigned

LEMMA NatBefore == \A n \in 1 .. 64 : n \in Nat /\ n - 1 \in Nat
OBVIOUS

LEMMA BitsFacts ==
  ASSUME NEW s \in {"char", "short", "int", "long", "long long"}
  PROVE  /\ Bits[s] \in Nat /\ Pow2[Bits[s]] \in Nat /\ Pow2[Bits[s]] >= 1
         /\ Pow2[Bits[s] - 1] \in Nat
<1>1. \A t \in {"char", "short", "int", "long", "long long"} : Bits[t] \in 1 .. 64
  BY PrintfAssumption, Zenon
<1>. DEFINE w == Bits[s]
<1>2. w \in 1 .. 64
  BY <1>1, Zenon
<1>. HIDE DEF w
<1>3. w \in Nat /\ w - 1 \in Nat
  BY <1>2, NatBefore, Zenon
<1>4. Pow2[w] \in Nat /\ Pow2[w] >= 1 /\ Pow2[w - 1] \in Nat
  BY ONLY <1>3, Pow2Facts
<1>. QED  BY <1>3, <1>4 DEF w

LEMMA ValueFacts ==
  ASSUME NEW g, NumberIn(g), ~(IsSigned(g) /\ g.size = "char" /\ ArgOf(g) < 0)
  PROVE  /\ (IF g.spec \in {"d", "i"} THEN Narrowed(g.arg) ELSE Unsigned(g.arg, Bits[size])) = ArgOf(g)
         /\ ArgOf(g) \in Int /\ Magnitude(g) \in Nat
         /\ Magnitude(g) = (IF ArgOf(g) > 0 THEN ArgOf(g) ELSE -ArgOf(g))
         /\ ~IsSigned(g) => ArgOf(g) >= 0
<1>. DEFINE p2 == Pow2[Bits[size]]
            h2 == Pow2[Bits[size] - 1]
            uns == g.arg % p2
<1>1. g.size = size /\ size \in {"char", "short", "int", "long", "long long"} /\ g.arg \in Int
  BY DEF NumberIn, Agrees
<1>2. p2 \in Nat /\ p2 >= 1 /\ h2 \in Nat
  BY <1>1, BitsFacts
<1>3. uns \in Int /\ uns >= 0 /\ uns < p2
  <2>. HIDE DEF p2
  <2>1. p2 \in Nat \ {0}
    BY <1>2
  <2>2. uns \in 0 .. p2 - 1
    BY <1>1, <2>1, ModParts
  <2>. HIDE DEF uns
  <2>. QED  BY <1>2, <2>2
<1>4. /\ Unsigned(g.arg, Bits[size]) = uns
      /\ Signed(g.arg, Bits[size]) = (IF uns < h2 THEN uns ELSE uns - p2)
  BY DEF Unsigned, Signed
<1>. HIDE DEF uns, p2, h2
<1>5. ArgOf(g) = IF IsSigned(g) THEN (IF uns < h2 THEN uns ELSE uns - p2) ELSE uns
  BY <1>1, <1>4 DEF ArgOf
<1>6. ArgOf(g) \in Int /\ (~IsSigned(g) => ArgOf(g) >= 0)
  BY <1>2, <1>3, <1>5
<1>7. Narrowed(g.arg) = IF size = "char" THEN uns ELSE (IF uns < h2 THEN uns ELSE uns - p2)
  BY <1>4 DEF Narrowed
<1>8. IsSigned(g) /\ size = "char" => ArgOf(g) = uns
  BY <1>1, <1>2, <1>3, <1>5, <1>6
<1>9. (IF g.spec \in {"d", "i"} THEN Narrowed(g.arg) ELSE Unsigned(g.arg, Bits[size])) = ArgOf(g)
  <2>1. CASE IsSigned(g)
    BY <1>5, <1>7, <1>8, <2>1 DEF IsSigned
  <2>2. CASE ~IsSigned(g)
    BY <1>4, <1>5, <2>2 DEF IsSigned
  <2>. QED  BY <2>1, <2>2
<1>10. Magnitude(g) = (IF ArgOf(g) < 0 THEN -ArgOf(g) ELSE ArgOf(g))
  BY DEF Magnitude
<1>11. Magnitude(g) \in Nat /\ Magnitude(g) = (IF ArgOf(g) > 0 THEN ArgOf(g) ELSE -ArgOf(g))
  BY <1>6, <1>10
<1>. QED  BY <1>6, <1>9, <1>11

\* The flags as _ntoa_format gets them.
FormatFlags(g) == IF Magnitude(g) = 0 THEN Heeded(g.spec) \ {"hash"} ELSE Heeded(g.spec)

LEMMA FlagFacts ==
  ASSUME NEW g, NumberIn(g), ~NoPrecision(g)
  PROVE  LET h == FormatFlags(g) IN
         /\ "left" \in h <=> ToLeft(g)
         /\ "zeropad" \in h <=> "zeropad" \in g.flags /\ g.precision = None
         /\ "precision" \in h <=> g.precision # None
         /\ "hash" \in h <=> HasHash(g)
         /\ "plus" \in h <=> IsSigned(g) /\ "plus" \in g.flags
         /\ "space" \in h <=> IsSigned(g) /\ "space" \in g.flags
         /\ "uppercase" \in h <=> g.spec = "X"
         /\ "uppercase" \in Heeded(g.spec) <=> g.spec = "X"
         /\ "precision" \in Heeded(g.spec) <=> g.precision # None
         /\ g.precision = None \/ g.precision = precision
         /\ g.precision = None => precision = 0
<1>. DEFINE h == FormatFlags(g)
            e == Heeded(g.spec)
<1>1. /\ "left" \in flags <=> ToLeft(g)
      /\ "zeropad" \in flags <=> "zeropad" \in g.flags
      /\ "plus" \in flags <=> "plus" \in g.flags
      /\ "space" \in flags <=> "space" \in g.flags
      /\ "hash" \in flags <=> "hash" \in g.flags
      /\ "uppercase" \notin flags
      /\ precision \in Nat
  BY DEF NumberIn, Agrees
<1>2. "precision" \in flags <=> g.precision # None
  BY DEF NumberIn, Agrees, NoPrecision, None
<1>3. (g.precision = None \/ g.precision = precision) /\ (g.precision = None => precision = 0)
  BY <1>2 DEF NumberIn, Agrees
<1>4. g.spec \in {"d", "i"} <=> IsSigned(g)
  BY DEF IsSigned
<1>5. /\ "left" \in e <=> "left" \in flags
      /\ "zeropad" \in e <=> "zeropad" \in flags /\ "precision" \notin flags
      /\ "precision" \in e <=> "precision" \in flags
      /\ "hash" \in e <=> "hash" \in flags /\ Base(g.spec) # 10
      /\ "plus" \in e <=> "plus" \in flags /\ IsSigned(g)
      /\ "space" \in e <=> "space" \in flags /\ IsSigned(g)
      /\ "uppercase" \in e <=> "uppercase" \in flags \/ g.spec = "X"
  BY <1>4 DEF Heeded
<1>. HIDE DEF e
<1>6. h = IF Magnitude(g) = 0 THEN e \ {"hash"} ELSE e
  BY DEF FormatFlags, e
<1>. HIDE DEF h
<1>7. /\ "left" \in h <=> "left" \in e
      /\ "zeropad" \in h <=> "zeropad" \in e
      /\ "precision" \in h <=> "precision" \in e
      /\ "hash" \in h <=> "hash" \in e /\ Magnitude(g) # 0
      /\ "plus" \in h <=> "plus" \in e
      /\ "space" \in h <=> "space" \in e
      /\ "uppercase" \in h <=> "uppercase" \in e
  BY <1>6
<1>8. "hash" \in h <=> HasHash(g)
  BY <1>1, <1>5, <1>7 DEF HasHash
<1>9. /\ "left" \in h <=> ToLeft(g)
      /\ "zeropad" \in h <=> "zeropad" \in g.flags /\ g.precision = None
      /\ "precision" \in h <=> g.precision # None
      /\ "plus" \in h <=> IsSigned(g) /\ "plus" \in g.flags
      /\ "space" \in h <=> IsSigned(g) /\ "space" \in g.flags
      /\ "uppercase" \in h <=> g.spec = "X"
      /\ "uppercase" \in e <=> g.spec = "X"
      /\ "precision" \in e <=> g.precision # None
  BY <1>1, <1>2, <1>5, <1>7, Zenon
<1>. QED  BY <1>3, <1>8, <1>9 DEF h, e

LEMMA MarksFacts ==
  ASSUME NEW g, NumberIn(g), ~NoPrecision(g), ArgOf(g) \in Int, ~IsSigned(g) => ArgOf(g) >= 0
  PROVE  /\ HasHash(g) /\ g.spec # "o" => Marks(g) = <<"0", g.spec>>
         /\ HasHash(g) /\ g.spec = "o" => Marks(g) = <<>>
         /\ ~HasHash(g) => Marks(g) = SignMark(ArgOf(g) < 0, FormatFlags(g))
         /\ HasHash(g) => SignMark(ArgOf(g) < 0, FormatFlags(g)) = <<>>
<1>. DEFINE h == FormatFlags(g)
<1>1. /\ "plus" \in h <=> IsSigned(g) /\ "plus" \in g.flags
      /\ "space" \in h <=> IsSigned(g) /\ "space" \in g.flags
  BY FlagFacts
<1>. HIDE DEF h
<1>2. HasHash(g) => ~IsSigned(g) /\ g.spec \in {"x", "X", "o", "b"}
  BY BaseFacts DEF HasHash, NumberIn, Numeric
<1>3. HasHash(g) /\ g.spec # "o" => Marks(g) = <<"0", g.spec>>
  BY <1>2 DEF Marks
<1>4. HasHash(g) /\ g.spec = "o" => Marks(g) = <<>>
  BY <1>2 DEF Marks
<1>5. HasHash(g) => SignMark(ArgOf(g) < 0, h) = <<>>
  <2>1. HasHash(g) => ~(ArgOf(g) < 0)
    BY <1>2
  <2>. QED  BY <1>1, <1>2, <2>1 DEF SignMark
<1>6. ASSUME ~HasHash(g)  PROVE Marks(g) = SignMark(ArgOf(g) < 0, h)
  <2>1. CASE IsSigned(g) /\ ArgOf(g) < 0
    <3>1. ~HasHash(g) /\ IsSigned(g) /\ ArgOf(g) < 0 /\ ~(ArgOf(g) >= 0)
      BY <1>6, <2>1
    <3>2. Marks(g) = <<"-">>
      BY <3>1 DEF Marks
    <3>. QED  BY <3>1, <3>2 DEF SignMark
  <2>2. CASE IsSigned(g) /\ ~(ArgOf(g) < 0)
    <3>1. ArgOf(g) >= 0
      BY <2>2
    <3>. QED  BY <1>1, <1>6, <2>2, <3>1 DEF Marks, SignMark
  <2>3. CASE ~IsSigned(g)
    <3>1. ~(ArgOf(g) < 0)
      BY <2>3
    <3>. QED  BY <1>1, <1>6, <2>3, <3>1 DEF Marks, SignMark
  <2>. QED  BY <2>1, <2>2, <2>3
<1>. QED  BY <1>3, <1>4, <1>5, <1>6 DEF h

WrittenDigit(g, e) == Numeral((Magnitude(g) \div Power(Base(g.spec))[e]) % Base(g.spec), g.spec = "X")
PlacesIn(g) == Places(Magnitude(g), Base(g.spec))

LEMMA WrittenText ==
  ASSUME NEW g, NEW n \in Nat
  PROVE  /\ IsText(Written(g, n)) /\ Len(Written(g, n)) = n
<1>. DEFINE pl == Smaller(n, PlacesIn(g))
            f == [k \in 1 .. pl |-> WrittenDigit(g, pl - k)]
<1>1. PlacesIn(g) \in 1 .. 64
  BY PlacesNat DEF PlacesIn
<1>2. pl \in Nat /\ n - pl \in Int /\ n - pl >= 0
  BY <1>1 DEF Smaller
<1>3. Written(g, n) = Fill("0", n - pl) \o f
  BY DEF Written, WrittenDigit, PlacesIn
<1>. HIDE DEF pl
<1>4. f = [k \in 1 .. pl |-> f[k]]
  OBVIOUS
<1>. HIDE DEF f
<1>5. IsText(f) /\ Len(f) = pl
  BY <1>2, <1>4, FunctionText
<1>6. IsText(Fill("0", n - pl)) /\ Len(Fill("0", n - pl)) = n - pl
  <2>1. Len(Fill("0", n - pl)) = (IF n - pl > 0 THEN n - pl ELSE 0) /\ IsText(Fill("0", n - pl))
    BY <1>2, FillFacts
  <2>. QED  BY <1>2, <2>1
<1>7. IsText(Fill("0", n - pl) \o f) /\ Len(Fill("0", n - pl) \o f) = (n - pl) + pl
  BY <1>5, <1>6, CatText
<1>. QED  BY <1>2, <1>3, <1>7

\* The digits _ntoa_long hands to _ntoa_format.
Digs(g) == IF g.precision # None /\ Magnitude(g) = 0 THEN <<>>
           ELSE DigitsOf(Magnitude(g), Base(g.spec), g.spec = "X")

NoDigits(g) == g.precision # None /\ Magnitude(g) = 0

LEMMA DigsFacts ==
  ASSUME NEW g, NoDigits(g) \/ PlacesIn(g) <= BufferSize
  PROVE  /\ IsText(Digs(g)) /\ Len(Digs(g)) = (IF NoDigits(g) THEN 0 ELSE PlacesIn(g))
         /\ NoDigits(g) => Digs(g) = <<>>
         /\ ~NoDigits(g) => \A k \in 1 .. PlacesIn(g) : Digs(g)[k] = WrittenDigit(g, k - 1)
<1>1. CASE NoDigits(g)
  <2>1. Digs(g) = <<>>
    BY <1>1 DEF NoDigits, Digs
  <2>2. IsText(<<>>) /\ Len(<<>>) = 0
    BY EmptyText
  <2>. QED  BY <1>1, <2>1, <2>2
<1>2. CASE ~NoDigits(g)
  <2>. DEFINE n == PlacesIn(g)
              d == Digs(g)
  <2>1. n \in 1 .. 64 /\ n <= BufferSize
    BY <1>2, PlacesNat DEF PlacesIn
  <2>2. Smaller(n, BufferSize) = n
    BY <2>1, BufferNat DEF Smaller
  <2>3. d = [k \in 1 .. Smaller(n, BufferSize) |-> WrittenDigit(g, k - 1)]
    BY <1>2 DEF NoDigits, Digs, DigitsOf, WrittenDigit, PlacesIn
  <2>. HIDE DEF n, d
  <2>4. d = [k \in 1 .. n |-> d[k]] /\ \A k \in 1 .. n : d[k] = WrittenDigit(g, k - 1)
    BY <2>2, <2>3
  <2>5. IsText(d) /\ Len(d) = n
    <3>1. n \in Nat
      BY <2>1
    <3>. QED  BY <2>4, <3>1, FunctionText
  <2>. QED  BY <1>2, <2>4, <2>5 DEF n, d
<1>. QED  BY <1>1, <1>2

\* What the standard wants written, last digit first.
LEMMA WrittenFacts ==
  ASSUME NEW g, NumberIn(g), Magnitude(g) \in Nat, NEW n \in Nat,
         NoDigits(g) \/ (PlacesIn(g) <= n /\ PlacesIn(g) <= BufferSize)
  PROVE  Written(g, n) = Rev(ZerosTo(Digs(g), n))
<1>. DEFINE pl == Smaller(n, PlacesIn(g))
            f == [k \in 1 .. pl |-> WrittenDigit(g, pl - k)]
<1>1. PlacesIn(g) \in 1 .. 64
  BY PlacesNat DEF PlacesIn
<1>2. pl \in Nat
  BY <1>1 DEF Smaller
<1>3. Written(g, n) = Fill("0", n - pl) \o f
  BY DEF Written, WrittenDigit, PlacesIn
<1>4. IsText(Digs(g)) /\ Len(Digs(g)) = (IF NoDigits(g) THEN 0 ELSE PlacesIn(g))
  BY DigsFacts
<1>5. Rev(ZerosTo(Digs(g), n)) = Fill("0", n - Len(Digs(g))) \o Rev(Digs(g))
  <2>1. n \in Int /\ IsText(Digs(g))
    BY <1>4
  <2>. QED  BY ONLY <2>1, RevZeros
<1>6. CASE NoDigits(g)
  <2>1. Digs(g) = <<>> /\ Rev(Digs(g)) = <<>> /\ Len(Digs(g)) = 0
    BY <1>4, <1>6, DigsFacts, RevShort
  <2>2. IsText(Fill("0", n))
    BY FillFacts
  <2>3. Rev(ZerosTo(Digs(g), n)) = Fill("0", n)
    <3>1. Fill("0", n) \o <<>> = Fill("0", n)
      BY <2>2, CatEmpty
    <3>2. n - 0 = n
      OBVIOUS
    <3>. QED  BY <1>5, <2>1, <3>1, <3>2
  <2>4. CASE n = 0
    <3>1. pl = 0
      BY <1>1, <2>4 DEF Smaller
    <3>2. f = <<>>
      <4>. HIDE DEF pl
      <4>. QED  BY <3>1
    <3>3. Fill("0", 0) = <<>> /\ <<>> \o <<>> = <<>>
      BY FillFacts, EmptyText, CatEmpty
    <3>4. n - pl = 0
      BY <2>4, <3>1
    <3>. QED  BY <1>3, <2>3, <2>4, <3>2, <3>3, <3>4
  <2>5. CASE n # 0
    <3>0. Base(g.spec) \in Nat /\ Base(g.spec) >= 2 /\ Magnitude(g) = 0
      BY <1>6, BaseFacts DEF NumberIn, NoDigits
    <3>1. PlacesIn(g) = 1
      BY <3>0, PlacesNat DEF PlacesIn
    <3>2. pl = 1
      BY <2>5, <3>1 DEF Smaller
    <3>3. WrittenDigit(g, 0) = "0"
      <4>1. Power(Base(g.spec))[0] = 1
        BY <3>0, PowerFacts
      <4>2. (0 \div 1) % Base(g.spec) = 0
        BY <3>0
      <4>3. Numeral(0, TRUE) = "0" /\ Numeral(0, FALSE) = "0"
        BY DEF Numeral, Numerals, Capitals
      <4>. QED  BY <3>0, <4>1, <4>2, <4>3 DEF WrittenDigit
    <3>4. f = <<"0">>
      <4>. HIDE DEF pl
      <4>1. f = [k \in 1 .. 1 |-> WrittenDigit(g, 1 - k)]
        BY <3>2
      <4>2. f[1] = "0" /\ f = [k \in 1 .. 1 |-> f[k]]
        <5>1. 1 - 1 = 0 /\ 1 \in 1 .. 1
          OBVIOUS
        <5>2. f[1] = WrittenDigit(g, 1 - 1)
          BY <4>1, <5>1, Zenon
        <5>. QED  BY <3>3, <4>1, <5>1, <5>2
      <4>. HIDE DEF f
      <4>3. IsText(f) /\ Len(f) = 1
        <5>1. 1 \in Nat
          OBVIOUS
        <5>. QED  BY <4>2, <5>1, FunctionText
      <4>4. IsText(<<"0">>) /\ Len(<<"0">>) = 1 /\ <<"0">>[1] = "0"
        BY OneText
      <4>5. \A k \in 1 .. Len(f) : f[k] = <<"0">>[k]
        BY <4>2, <4>3, <4>4
      <4>. QED  BY <4>3, <4>4, <4>5, SameText
    <3>5. n - 1 \in Nat /\ (n - 1) + 1 = n
      BY <2>5
    <3>6. Fill("0", n - 1) \o <<"0">> = Fill("0", (n - 1) + 1)
      BY <3>5, FillMore
    <3>. HIDE DEF f, pl
    <3>. QED  BY <1>3, <2>3, <3>2, <3>4, <3>5, <3>6
  <2>. QED  BY <2>4, <2>5
<1>7. CASE ~NoDigits(g)
  <2>1. pl = PlacesIn(g) /\ Len(Digs(g)) = pl
    BY <1>1, <1>4, <1>7 DEF Smaller
  <2>. HIDE DEF pl
  <2>2. f = [k \in 1 .. pl |-> f[k]] /\ \A k \in 1 .. pl : f[k] = WrittenDigit(g, pl - k)
    OBVIOUS
  <2>. HIDE DEF f
  <2>3. IsText(f) /\ Len(f) = pl
    BY <1>2, <2>2, FunctionText
  <2>4. /\ IsText(Rev(Digs(g))) /\ Len(Rev(Digs(g))) = pl
        /\ \A k \in 1 .. pl : Rev(Digs(g))[k] = Digs(g)[pl + 1 - k]
    BY <1>4, <2>1, RevText
  <2>5. \A k \in 1 .. pl : Digs(g)[k] = WrittenDigit(g, k - 1)
    BY <1>7, <2>1, DigsFacts
  <2>6. ASSUME NEW k \in 1 .. pl  PROVE f[k] = Rev(Digs(g))[k]
    <3>1. pl + 1 - k \in 1 .. pl /\ (pl + 1 - k) - 1 = pl - k
      BY <1>2
    <3>2. Digs(g)[pl + 1 - k] = WrittenDigit(g, (pl + 1 - k) - 1)
      BY <2>5, <3>1
    <3>. QED  BY <2>2, <2>4, <3>1, <3>2
  <2>7. f = Rev(Digs(g))
    BY <2>3, <2>4, <2>6, SameText
  <2>. QED  BY <1>3, <1>5, <2>1, <2>7
<1>. QED  BY <1>6, <1>7

------------------------------------------------------------------------------
(* Where the standard is met: how many figures there are. *)

\* Padded with zeros to its field.
Zeroed(g) == "zeropad" \in g.flags /\ ~ToLeft(g) /\ g.precision = None

LEMMA Obeys ==
  ASSUME NEW g, ~Deviates(g)
  PROVE  /\ ~NoPrecision(g)
         /\ ~(Len(Figures(g)) > BufferSize)
         /\ ~(ToLeft(g) /\ g.precision > (IF Magnitude(g) = 0 THEN 0 ELSE Needed(g)))
         /\ ~(IsSigned(g) /\ g.size = "char" /\ ArgOf(g) < 0)
         /\ ~(HasHash(g) /\ g.spec = "o" /\ g.precision > Needed(g))
         /\ ~("hash" \in g.flags /\ g.spec = "o" /\ g.precision = 0 /\ Magnitude(g) = 0)
         /\ ~(HasHash(g) /\ g.precision = None /\ FieldWidth(g) = Needed(g))
         /\ ~(HasHash(g) /\ Zeroed(g) /\ FieldWidth(g) = Needed(g) + 1 /\ g.spec \in {"x", "X"})
         /\ ~(HasHash(g) /\ Zeroed(g) /\ FieldWidth(g) > Needed(g) /\ g.spec = "b")
BY Zenon DEF Deviates, ZeroFilled, Zeroed

LEMMA MarksText ==
  ASSUME NEW g, NumberIn(g), ~NoPrecision(g), ArgOf(g) \in Int, ~IsSigned(g) => ArgOf(g) >= 0
  PROVE  /\ IsText(Marks(g)) /\ Len(Marks(g)) \in Nat
         /\ HasHash(g) /\ g.spec # "o" => Len(Marks(g)) = 2
         /\ HasHash(g) /\ g.spec = "o" => Len(Marks(g)) = 0
         /\ ~HasHash(g) => Len(Marks(g)) \in 0 .. 1
<1>. DEFINE n == ArgOf(g) < 0
            sm == SignMark(n, FormatFlags(g))
<1>1. n \in BOOLEAN
  OBVIOUS
<1>2. IsText(sm) /\ Len(sm) \in 0 .. 1
  <2>. HIDE DEF n
  <2>. QED  BY <1>1, SignMarkFacts
<1>3. /\ HasHash(g) /\ g.spec # "o" => Marks(g) = <<"0", g.spec>>
      /\ HasHash(g) /\ g.spec = "o" => Marks(g) = <<>>
      /\ ~HasHash(g) => Marks(g) = sm
  BY MarksFacts
<1>. HIDE DEF sm
<1>4. IsText(<<>>) /\ Len(<<>>) = 0
  BY EmptyText
<1>5. IsText(<<"0", g.spec>>) /\ Len(<<"0", g.spec>>) = 2
  <2>1. <<"0", g.spec>> \in Seq({"0", g.spec})
    OBVIOUS
  <2>. QED  BY <2>1 DEF IsText
<1>6. 0 \in Nat /\ 2 \in Nat /\ \A k \in 0 .. 1 : k \in Nat
  OBVIOUS
<1>7. HasHash(g) /\ g.spec # "o" => IsText(Marks(g)) /\ Len(Marks(g)) = 2
  BY <1>3, <1>5, Zenon
<1>8. HasHash(g) /\ g.spec = "o" => IsText(Marks(g)) /\ Len(Marks(g)) = 0
  BY <1>3, <1>4, Zenon
<1>9. ~HasHash(g) => IsText(Marks(g)) /\ Len(Marks(g)) \in 0 .. 1
  BY <1>2, <1>3, Zenon
<1>. QED  BY <1>6, <1>7, <1>8, <1>9, Zenon

\* Where the standard is met, # adds a 0 to no octal number but those other
\* than 0.
LEMMA BegunFacts ==
  ASSUME NEW g, NumberIn(g), ~Deviates(g), Magnitude(g) \in Nat
  PROVE  Begun(g) = IF HasHash(g) /\ g.spec = "o" THEN Larger(Least(g), Needed(g) + 1) ELSE Least(g)
<1>1. g.spec = "o" => Base(g.spec) = 8
  BY DEF Base
<1>2. HasHash(g) <=> "hash" \in g.flags /\ Base(g.spec) # 10 /\ Magnitude(g) # 0
  BY DEF HasHash
<1>3. CASE "hash" \in g.flags /\ g.spec = "o" /\ Magnitude(g) = 0
  <2>. DEFINE P == g.precision
  <2>1. P # 0 /\ ~NoPrecision(g)
    <3>1. ~("hash" \in g.flags /\ g.spec = "o" /\ P = 0 /\ Magnitude(g) = 0) /\ ~NoPrecision(g)
      BY ONLY ~Deviates(g), Obeys
    <3>. QED  BY ONLY <3>1, <1>3
  <2>2. P = -1 \/ P \in Nat
    <3>1. precision \in Nat /\ (P = None \/ P = precision) /\ None = -1
      BY <2>1, FlagFacts DEF NumberIn, Agrees, None
    <3>. QED  BY ONLY <3>1
  <2>3. Needed(g) = 1
    <3>1. Places(Magnitude(g), Base(g.spec)) = 1
      BY <1>1, <1>3, PlacesNat
    <3>. QED  BY <2>1, <3>1 DEF Needed
  <2>4. Least(g) = Larger(1, P)
    BY <2>3 DEF Least
  <2>. HIDE DEF P
  <2>5. Larger(Larger(1, P), 1) = Larger(1, P)
    <3>1. \A q \in Int : Larger(Larger(1, q), 1) = Larger(1, q)
      BY DEF Larger
    <3>2. P \in Int
      BY ONLY <2>2
    <3>. QED  BY ONLY <3>1, <3>2
  <2>6. Begun(g) = Larger(Least(g), 1)
    BY <1>3 DEF Begun
  <2>. QED  BY <1>2, <1>3, <2>4, <2>5, <2>6
<1>4. CASE "hash" \in g.flags /\ g.spec = "o" /\ Magnitude(g) # 0
  BY <1>1, <1>2, <1>4 DEF Begun
<1>5. CASE ~("hash" \in g.flags /\ g.spec = "o")
  BY <1>2, <1>5 DEF Begun
<1>. QED  BY <1>3, <1>4, <1>5

\* How many places there are, and how many zeros, where the standard is met.
LEMMA NumberFacts ==
  ASSUME NEW g, NumberIn(g), ~Deviates(g)
  PROVE  /\ width \in Nat /\ precision \in Nat /\ width = FieldWidth(g)
         /\ Magnitude(g) \in Nat /\ ArgOf(g) \in Int /\ (~IsSigned(g) => ArgOf(g) >= 0)
         /\ Needed(g) \in Nat /\ Filled(g) \in Nat
         /\ Len(Marks(g)) + Filled(g) <= BufferSize /\ Len(Figures(g)) = Len(Marks(g)) + Filled(g)
         /\ NoDigits(g) \/ (PlacesIn(g) <= Filled(g) /\ PlacesIn(g) <= BufferSize)
         /\ IsText(Digs(g)) /\ Len(Digs(g)) \in Nat /\ Len(Digs(g)) <= Filled(g)
         /\ Magnitude(g) # 0 => Len(Digs(g)) = Needed(g) /\ Needed(g) >= 1
         /\ g.precision = None => Len(Digs(g)) = Needed(g) /\ Needed(g) >= 1
         /\ Least(g) = Larger(Len(Digs(g)), precision)
         /\ ToLeft(g) => precision <= Len(Digs(g))
<1>1. width \in Nat /\ precision \in Nat /\ width = FieldWidth(g)
  BY DEF NumberIn, Agrees
<1>2. ~NoPrecision(g) /\ ~(IsSigned(g) /\ g.size = "char" /\ ArgOf(g) < 0)
  BY ONLY ~Deviates(g), Obeys
<1>3. Magnitude(g) \in Nat /\ ArgOf(g) \in Int /\ (~IsSigned(g) => ArgOf(g) >= 0)
  BY <1>2, ValueFacts, Zenon
<1>4. (g.precision = None \/ g.precision = precision) /\ (g.precision = None => precision = 0)
  BY <1>2, FlagFacts, Zenon
<1>5. PlacesIn(g) \in 1 .. 64
  BY PlacesNat DEF PlacesIn
<1>6. Needed(g) = IF g.precision = 0 /\ Magnitude(g) = 0 THEN 0 ELSE PlacesIn(g)
  BY DEF Needed, PlacesIn
<1>7. Least(g) = Larger(Needed(g), g.precision)
  BY DEF Least
<1>8. None = -1
  BY DEF None
<1>. DEFINE prec == g.precision
            n == IF NoDigits(g) THEN 0 ELSE PlacesIn(g)
<1>9. NoDigits(g) <=> prec # None /\ Magnitude(g) = 0
  BY DEF NoDigits
<1>. HIDE DEF prec
<1>10. /\ Needed(g) \in Nat /\ n \in Nat /\ Least(g) = Larger(n, precision)
       /\ Magnitude(g) # 0 => n = Needed(g) /\ Needed(g) >= 1
       /\ prec = None => n = Needed(g) /\ Needed(g) >= 1
  <2>1. prec = -1 \/ (prec = precision /\ prec >= 0)
    BY ONLY <1>1, <1>4, <1>8 DEF prec
  <2>2. Needed(g) = (IF prec = 0 /\ Magnitude(g) = 0 THEN 0 ELSE PlacesIn(g)) /\ Least(g) = Larger(Needed(g), prec)
    BY <1>6, <1>7 DEF prec
  <2>3. prec = -1 => precision = 0
    BY ONLY <1>4, <1>8 DEF prec
  <2>. HIDE DEF n
  <2>4. n = IF prec # -1 /\ Magnitude(g) = 0 THEN 0 ELSE PlacesIn(g)
    BY ONLY <1>8, <1>9 DEF n
  <2>5. Magnitude(g) = 0 => PlacesIn(g) = 1
    <3>1. Base(g.spec) \in Nat /\ Base(g.spec) >= 2
      BY BaseFacts, Zenon DEF NumberIn
    <3>. QED  BY <3>1, PlacesNat DEF PlacesIn
  <2>. QED  BY ONLY <1>1, <1>5, <1>8, <2>1, <2>2, <2>3, <2>4, <2>5 DEF Larger
<1>11. /\ IsText(Marks(g)) /\ Len(Marks(g)) \in Nat
  BY <1>2, <1>3, MarksText
<1>12. Filled(g) \in Nat /\ Filled(g) >= Least(g)
  <2>. DEFINE least == IF HasHash(g) /\ g.spec = "o" THEN Larger(Least(g), Needed(g) + 1) ELSE Least(g)
              z == "zeropad" \in g.flags /\ ~ToLeft(g) /\ g.precision = None
  <2>1. Filled(g) = IF z THEN Larger(least, FieldWidth(g) - Len(Marks(g))) ELSE least
    BY <1>3, BegunFacts DEF Filled
  <2>. HIDE DEF z, n
  <2>2. Least(g) \in Nat
    BY ONLY <1>1, <1>10 DEF Larger
  <2>3. least \in Nat /\ least >= Least(g)
    BY ONLY <1>10, <2>2 DEF Larger
  <2>. HIDE DEF least
  <2>4. FieldWidth(g) \in Nat
    BY ONLY <1>1
  <2>. QED  BY ONLY <1>11, <2>1, <2>2, <2>3, <2>4 DEF Larger
<1>13. Len(Figures(g)) = Len(Marks(g)) + Filled(g) /\ Len(Marks(g)) + Filled(g) <= BufferSize
  <2>1. IsText(Written(g, Filled(g))) /\ Len(Written(g, Filled(g))) = Filled(g)
    BY ONLY <1>12, WrittenText
  <2>2. Len(Figures(g)) = Len(Marks(g)) + Len(Written(g, Filled(g)))
    BY ONLY <1>11, <2>1, CatText DEF Figures
  <2>3. ~(Len(Figures(g)) > BufferSize)
    BY ONLY ~Deviates(g), Obeys
  <2>. QED  BY ONLY <1>11, <1>12, <2>1, <2>2, <2>3, BufferNat
<1>14. n <= Filled(g) /\ n <= BufferSize
  <2>. HIDE DEF n
  <2>. QED  BY ONLY <1>1, <1>10, <1>11, <1>12, <1>13, BufferNat DEF Larger
<1>15. NoDigits(g) \/ (PlacesIn(g) <= Filled(g) /\ PlacesIn(g) <= BufferSize)
  BY ONLY <1>14
<1>16. IsText(Digs(g)) /\ Len(Digs(g)) = n
  BY ONLY <1>15, DigsFacts
<1>17. ToLeft(g) => precision <= n
  <2>1. ToLeft(g) => ~(prec > (IF Magnitude(g) = 0 THEN 0 ELSE Needed(g)))
    BY ONLY ~Deviates(g), Obeys DEF prec
  <2>2. prec = -1 \/ (prec = precision /\ prec >= 0)
    BY ONLY <1>1, <1>4, <1>8 DEF prec
  <2>3. prec = -1 => precision = 0
    BY ONLY <1>4, <1>8 DEF prec
  <2>. HIDE DEF n
  <2>. QED  BY ONLY <1>1, <1>10, <2>1, <2>2, <2>3
<1>. HIDE DEF n
<1>18. IsText(Digs(g)) /\ Len(Digs(g)) \in Nat /\ Len(Digs(g)) <= Filled(g)
  BY ONLY <1>10, <1>14, <1>16
<1>19. /\ Magnitude(g) # 0 => Len(Digs(g)) = Needed(g) /\ Needed(g) >= 1
       /\ g.precision = None => Len(Digs(g)) = Needed(g) /\ Needed(g) >= 1
       /\ Least(g) = Larger(Len(Digs(g)), precision)
       /\ ToLeft(g) => precision <= Len(Digs(g))
  BY ONLY <1>10, <1>16, <1>17 DEF prec
<1>. QED  BY <1>1, <1>3, <1>10, <1>12, <1>13, <1>15, <1>18, <1>19, Zenon

LEMMA ZerosSame ==
  ASSUME NEW s, IsText(s), NEW k \in Int, NEW j \in Int, Larger(Len(s), k) = Larger(Len(s), j)
  PROVE  ZerosTo(s, k) = ZerosTo(s, j)
<1>1. Len(s) \in Nat
  BY TextLength
<1>2. CASE k <= Len(s)
  <2>1. j <= Len(s)
    BY <1>1, <1>2 DEF Larger
  <2>2. ZerosTo(s, k) = s /\ ZerosTo(s, j) = s
    BY <1>2, <2>1, ZerosToFacts
  <2>. QED  BY <2>2
<1>3. CASE k > Len(s)
  <2>1. j = k
    BY <1>1, <1>3 DEF Larger
  <2>. QED  BY <2>1
<1>. QED  BY <1>1, <1>2, <1>3

\* The digits, the zeros and the marks, turned round, in their field.
LEMMA InField ==
  ASSUME NEW g, NumberIn(g), ~NoPrecision(g), NEW buf, IsText(buf), IsText(Figures(g)),
         Rev(buf) = Figures(g), NEW pw \in Nat, width = FieldWidth(g), width \in Nat,
         ~Zeroed(g) => pw = width, Zeroed(g) => width <= Len(Figures(g))
  PROVE  _out_rev(buf, pw, FormatFlags(g)) = Field(g, Figures(g))
<1>. DEFINE h == FormatFlags(g)
            s == Figures(g)
            blanks == Fill(" ", width - Len(s))
<1>1. ("left" \in h <=> ToLeft(g)) /\ ("zeropad" \in h <=> "zeropad" \in g.flags /\ g.precision = None)
  BY FlagFacts, Zenon
<1>2. Zeroed(g) <=> "zeropad" \in h /\ "left" \notin h
  BY <1>1, Zenon DEF Zeroed
<1>3. Len(s) = Len(buf) /\ Len(s) \in Nat
  BY RevText, TextLength, Zenon
<1>4. Field(g, s) = IF ToLeft(g) THEN s \o Fill(" ", width - Len(s)) ELSE Fill(" ", width - Len(s)) \o s
  BY DEF Field
<1>5. IsText(buf) /\ IsText(s) /\ Rev(buf) = s /\ pw \in Nat /\ width \in Nat
  OBVIOUS
<1>6. (~Zeroed(g) => pw = width) /\ (Zeroed(g) => width <= Len(s))
  OBVIOUS
<1>. HIDE DEF h, s
<1>7. /\ "left" \in h => _out_rev(buf, pw, h) = Rev(buf) \o Fill(" ", pw - Len(buf))
      /\ h \cap {"left", "zeropad"} = {} => _out_rev(buf, pw, h) = Fill(" ", pw - Len(buf)) \o Rev(buf)
      /\ "left" \notin h /\ "zeropad" \in h => _out_rev(buf, pw, h) = Rev(buf)
  BY ONLY <1>5, OutRevFacts
<1>8. CASE "left" \in h
  <2>1. pw = width /\ ToLeft(g)
    BY ONLY <1>1, <1>2, <1>6, <1>8
  <2>2. _out_rev(buf, pw, h) = s \o Fill(" ", width - Len(s))
    BY ONLY <1>3, <1>5, <1>7, <1>8, <2>1
  <2>. QED  BY ONLY <1>4, <2>1, <2>2 DEF h, s
<1>9. CASE "left" \notin h /\ "zeropad" \notin h
  <2>1. pw = width /\ ~ToLeft(g)
    BY ONLY <1>1, <1>2, <1>6, <1>9
  <2>2. h \cap {"left", "zeropad"} = {}
    BY ONLY <1>9
  <2>3. _out_rev(buf, pw, h) = Fill(" ", width - Len(s)) \o s
    BY ONLY <1>3, <1>5, <1>7, <2>1, <2>2
  <2>. QED  BY ONLY <1>4, <2>1, <2>3 DEF h, s
<1>10. CASE "left" \notin h /\ "zeropad" \in h
  <2>. DEFINE d == width - Len(s)
  <2>1. width <= Len(s) /\ ~ToLeft(g)
    BY ONLY <1>1, <1>2, <1>6, <1>10
  <2>2. d \in Int /\ d <= 0
    BY ONLY <1>3, <1>5, <2>1
  <2>3. Fill(" ", d) = <<>>
    <3>. HIDE DEF d
    <3>. QED  BY ONLY <2>2, FillFacts
  <2>4. <<>> \o s = s
    BY ONLY <1>5, CatEmpty
  <2>5. _out_rev(buf, pw, h) = s
    BY ONLY <1>5, <1>7, <1>10
  <2>. QED  BY ONLY <1>4, <2>1, <2>3, <2>4, <2>5 DEF h, s
<1>. QED  BY ONLY <1>8, <1>9, <1>10, Zenon

------------------------------------------------------------------------------
(* Numbers without a prefix, and with one. *)

\* Where the padding with zeros ends.
LEMMA PadFacts ==
  ASSUME NEW g, NumberIn(g), ~Deviates(g)
  PROVE  LET h == FormatFlags(g)
             pw == PadWidth(ArgOf(g) < 0, width, h)
             m == Len(SignMark(ArgOf(g) < 0, h))
         IN /\ pw \in Nat /\ m \in 0 .. 1
            /\ pw = (IF Zeroed(g) /\ width > 0 THEN width - m ELSE width)
            /\ Zeroed(g) <=> "left" \notin h /\ "zeropad" \in h
            /\ ToLeft(g) <=> "left" \in h
            /\ HasHash(g) <=> "hash" \in h
            /\ Reach(precision, pw, h) = (IF ToLeft(g) THEN 0 ELSE IF Zeroed(g) THEN pw ELSE precision)
            /\ "zeropad" \in h => precision = 0
            /\ "precision" \in h <=> g.precision # None
            /\ g.precision = None => precision = 0
            /\ "uppercase" \in h <=> g.spec = "X"
<1>. DEFINE h == FormatFlags(g)
            neg == ArgOf(g) < 0
            pw == PadWidth(neg, width, h)
            m == Len(SignMark(neg, h))
<1>1. ~NoPrecision(g)
  BY ONLY ~Deviates(g), Obeys
<1>2. /\ "left" \in h <=> ToLeft(g)
      /\ "zeropad" \in h <=> "zeropad" \in g.flags /\ g.precision = None
      /\ "precision" \in h <=> g.precision # None
      /\ g.precision = None => precision = 0
      /\ "uppercase" \in h <=> g.spec = "X"
      /\ HasHash(g) <=> "hash" \in h
  BY <1>1, FlagFacts, Zenon
<1>3. width \in Nat /\ precision \in Nat
  BY NumberFacts, Zenon
<1>4. neg \in BOOLEAN
  OBVIOUS
<1>. HIDE DEF h, neg
<1>5. m \in 0 .. 1 /\ (m = 0 <=> (~neg /\ h \cap {"plus", "space"} = {}))
  BY ONLY <1>4, SignMarkFacts
<1>6. pw = IF "left" \notin h /\ "zeropad" \in h /\ width > 0 /\ (neg \/ h \cap {"plus", "space"} # {})
           THEN width - 1 ELSE width
  BY DEF PadWidth
<1>7. Zeroed(g) <=> "left" \notin h /\ "zeropad" \in h
  BY <1>2, Zenon DEF Zeroed
<1>8. Reach(precision, pw, h) = IF ToLeft(g) THEN 0 ELSE IF Zeroed(g) THEN pw ELSE precision
  BY <1>2, <1>7, Zenon DEF Reach
<1>9. "zeropad" \in h => precision = 0
  BY <1>2, Zenon
<1>. HIDE DEF pw, m
<1>10. pw \in Nat /\ pw = (IF Zeroed(g) /\ width > 0 THEN width - m ELSE width)
  <2>1. m = 0 \/ m = 1
    BY ONLY <1>5
  <2>2. CASE m = 0
    <3>1. pw = width
      BY ONLY <1>5, <1>6, <2>2
    <3>. QED  BY ONLY <1>3, <2>2, <3>1
  <2>3. CASE m = 1
    <3>1. neg \/ h \cap {"plus", "space"} # {}
      BY ONLY <1>5, <2>3
    <3>2. pw = IF Zeroed(g) /\ width > 0 THEN width - 1 ELSE width
      BY ONLY <1>6, <1>7, <3>1
    <3>. QED  BY ONLY <1>3, <2>3, <3>2
  <2>. QED  BY ONLY <2>1, <2>2, <2>3
<1>. QED  BY <1>2, <1>5, <1>7, <1>8, <1>9, <1>10, Zenon DEF h, neg, pw, m

LEMMA PlainNumber ==
  ASSUME NEW g, NumberIn(g), ~Deviates(g), ~HasHash(g)
  PROVE  _ntoa_format(Digs(g), ArgOf(g) < 0, Base(g.spec), precision, width, FormatFlags(g))
           = Field(g, Figures(g))
<1>. DEFINE h == FormatFlags(g)
            neg == ArgOf(g) < 0
            pw == PadWidth(neg, width, h)
            sm == SignMark(neg, h)
            m == Len(sm)
            n == Len(Digs(g))
            k == Reach(precision, pw, h)
            zeros == ZerosTo(Digs(g), k)
<1>1. ~NoPrecision(g)
  BY ONLY ~Deviates(g), Obeys
<1>2. /\ width \in Nat /\ precision \in Nat /\ width = FieldWidth(g)
      /\ Magnitude(g) \in Nat /\ ArgOf(g) \in Int /\ (~IsSigned(g) => ArgOf(g) >= 0)
      /\ Filled(g) \in Nat /\ Len(Figures(g)) = Len(Marks(g)) + Filled(g)
      /\ Len(Marks(g)) + Filled(g) <= BufferSize
      /\ NoDigits(g) \/ (PlacesIn(g) <= Filled(g) /\ PlacesIn(g) <= BufferSize)
      /\ IsText(Digs(g)) /\ n \in Nat /\ n <= Filled(g)
      /\ Least(g) = Larger(n, precision)
      /\ ToLeft(g) => precision <= n
  BY NumberFacts, Zenon
<1>3. /\ pw \in Nat /\ m \in 0 .. 1
      /\ pw = (IF Zeroed(g) /\ width > 0 THEN width - m ELSE width)
      /\ Zeroed(g) <=> "left" \notin h /\ "zeropad" \in h
      /\ "hash" \notin h
      /\ k = (IF ToLeft(g) THEN 0 ELSE IF Zeroed(g) THEN pw ELSE precision)
      /\ "zeropad" \in h => precision = 0
      /\ Zeroed(g) => precision = 0
  BY PadFacts, Zenon DEF Zeroed
<1>4. Marks(g) = sm
  BY ONLY <1>1, <1>2, NumberIn(g), ~HasHash(g), MarksFacts DEF sm, h, neg
<1>5. neg \in BOOLEAN
  OBVIOUS
<1>6. _ntoa_format(Digs(g), neg, Base(g.spec), precision, width, h)
        = LET lz == LeadingZeros(Digs(g), precision, pw, h)
          IN _out_rev(Sign(IF "hash" \in h THEN Prefix(lz, Base(g.spec), precision, pw, h) ELSE lz, neg, h), pw, h)
  BY DEF _ntoa_format
<1>. HIDE DEF h, neg, pw, k, n
<1>7. IsText(sm) /\ Rev(sm) = sm
  BY ONLY <1>5, SignMarkFacts DEF sm
<1>8. Filled(g) = IF Zeroed(g) THEN Larger(Least(g), FieldWidth(g) - Len(Marks(g))) ELSE Least(g)
  <2>1. Begun(g) = Least(g)
    BY <1>2, BegunFacts
  <2>. QED  BY <2>1 DEF Filled, Zeroed
<1>9. /\ k \in Nat /\ Larger(n, k) = Filled(g) /\ k <= BufferSize
      /\ Zeroed(g) => width <= m + Filled(g)
      /\ Larger(n, Filled(g)) = Filled(g)
  <2>1. Filled(g) = IF Zeroed(g) THEN Larger(Least(g), width - m) ELSE Least(g)
    BY ONLY <1>2, <1>4, <1>8 DEF m
  <2>2. m + Filled(g) <= BufferSize
    BY ONLY <1>2, <1>4 DEF m
  <2>3. Zeroed(g) => ~ToLeft(g)
    BY ONLY TRUE DEF Zeroed
  <2>. HIDE DEF m
  <2>4. /\ n \in Nat /\ precision \in Nat /\ width \in Nat /\ pw \in Nat /\ m \in 0 .. 1
        /\ Filled(g) \in Nat /\ Least(g) = Larger(n, precision) /\ (ToLeft(g) => precision <= n)
        /\ (Zeroed(g) => precision = 0)
        /\ pw = (IF Zeroed(g) /\ width > 0 THEN width - m ELSE width)
        /\ k = (IF ToLeft(g) THEN 0 ELSE IF Zeroed(g) THEN pw ELSE precision)
    BY ONLY <1>2, <1>3, Zenon
  <2>5. k \in Nat /\ Larger(n, k) = Filled(g) /\ k <= Filled(g)
    <3>1. CASE Zeroed(g)
      <4>1. k = pw /\ pw = (IF width > 0 THEN width - m ELSE width) /\ precision = 0
        BY ONLY <2>3, <2>4, <3>1
      <4>2. Filled(g) = Larger(Larger(n, 0), width - m)
        BY ONLY <2>1, <2>4, <3>1, <4>1
      <4>. QED  BY ONLY <2>4, <4>1, <4>2 DEF Larger
    <3>2. CASE ~Zeroed(g)
      <4>1. Filled(g) = Larger(n, precision) /\ k = (IF ToLeft(g) THEN 0 ELSE precision)
        BY ONLY <2>1, <2>4, <3>2
      <4>. QED  BY ONLY <2>4, <4>1 DEF Larger
    <3>. QED  BY ONLY <3>1, <3>2, Zenon
  <2>8. k <= BufferSize
    BY ONLY <2>2, <2>4, <2>5, BufferNat
  <2>6. Zeroed(g) => width <= m + Filled(g)
    BY ONLY <1>2, <1>3, <2>1 DEF Larger
  <2>7. Larger(n, Filled(g)) = Filled(g)
    BY ONLY <1>2 DEF Larger
  <2>. QED  BY ONLY <2>5, <2>6, <2>7, <2>8, Zenon
<1>10. LeadingZeros(Digs(g), precision, pw, h) = zeros
  BY ONLY <1>2, <1>3, <1>9, LeadingZerosFacts DEF k
<1>11. zeros = ZerosTo(Digs(g), Filled(g))
  <2>1. k \in Int /\ Filled(g) \in Int /\ Larger(n, k) = Larger(n, Filled(g))
    BY ONLY <1>2, <1>9
  <2>. QED  BY ONLY <1>2, <2>1, ZerosSame DEF n
<1>12. IsText(zeros) /\ Len(zeros) = Filled(g)
  <2>1. k \in Int
    BY ONLY <1>9
  <2>2. IsText(zeros) /\ Len(zeros) = Larger(n, k)
    BY ONLY <1>2, <2>1, ZerosToFacts DEF n
  <2>. QED  BY ONLY <1>9, <2>2
<1>13. Rev(zeros) = Written(g, Filled(g))
  BY ONLY <1>2, <1>11, NumberIn(g), WrittenFacts
<1>. HIDE DEF zeros
<1>14. Sign(zeros, neg, h) = zeros \o sm
  <2>1. Len(zeros) + Len(SignMark(neg, h)) <= BufferSize
    BY ONLY <1>2, <1>3, <1>4, <1>12 DEF m, sm
  <2>. QED  BY ONLY <1>5, <1>12, <2>1, SignFacts DEF sm
<1>15. Rev(zeros \o sm) = Figures(g) /\ IsText(zeros \o sm)
  <2>1. Rev(zeros \o sm) = Rev(sm) \o Rev(zeros)
    BY ONLY <1>7, <1>12, RevCat
  <2>2. IsText(zeros \o sm)
    BY ONLY <1>7, <1>12, CatText
  <2>. QED  BY ONLY <1>4, <1>7, <1>13, <2>1, <2>2 DEF Figures
<1>16. IsText(Figures(g))
  BY ONLY <1>15, RevText
<1>17. _out_rev(zeros \o sm, pw, h) = Field(g, Figures(g))
  <2>1. ~Zeroed(g) => pw = width
    BY ONLY <1>3
  <2>2. Zeroed(g) => width <= Len(Figures(g))
    BY ONLY <1>2, <1>4, <1>9 DEF m
  <2>. QED  BY ONLY <1>1, <1>2, <1>3, <1>15, <1>16, <2>1, <2>2, NumberIn(g), InField DEF h
<1>18. _ntoa_format(Digs(g), neg, Base(g.spec), precision, width, h) = Field(g, Figures(g))
  BY ONLY <1>3, <1>6, <1>10, <1>14, <1>17
<1>. QED  BY ONLY <1>18 DEF h, neg

\* What is left of s and its zeros when the prefix has cut them.
LEMMA ZerosCut ==
  ASSUME NEW s, IsText(s), NEW k \in Nat, NEW c \in Nat, c <= Larger(Len(s), k),
         c = 0 \/ (k >= Len(s) + c)
  PROVE  SubSeq(ZerosTo(s, k), 1, Len(ZerosTo(s, k)) - c) = ZerosTo(s, k - c)
<1>1. Len(s) \in Nat
  BY TextLength
<1>2. IsText(ZerosTo(s, k)) /\ Len(ZerosTo(s, k)) = Larger(Len(s), k)
  BY ZerosToFacts
<1>3. CASE c = 0
  <2>. DEFINE z == ZerosTo(s, k)
  <2>1. k - c = k /\ Len(z) - c = Len(z)
    <3>1. Len(z) \in Nat
      BY <1>2, TextLength
    <3>. HIDE DEF z
    <3>. QED  BY <1>3, <3>1
  <2>2. SubSeq(z, 1, Len(z)) = z
    <3>1. PICK S : z \in Seq(S)
      BY <1>2 DEF IsText
    <3>. HIDE DEF z
    <3>. QED  BY <3>1
  <2>. QED  BY <2>1, <2>2
<1>4. CASE c # 0
  <2>. DEFINE n == k - Len(s)
  <2>1. n \in Nat /\ n - c \in Nat /\ n - c <= n /\ Larger(Len(s), k) - c = Len(s) + (n - c)
        /\ (k - c) - Len(s) = n - c
    BY <1>1, <1>4 DEF Larger
  <2>. HIDE DEF n
  <2>2. ZerosTo(s, k) = s \o Fill("0", n)
    BY DEF ZerosTo, n
  <2>3. ZerosTo(s, k - c) = s \o Fill("0", n - c)
    BY <2>1 DEF ZerosTo
  <2>4. SubSeq(s \o Fill("0", n), 1, Len(s) + (n - c)) = s \o Fill("0", n - c)
    <3>. DEFINE j == n - c
    <3>1. j \in Nat /\ j <= n
      BY <2>1
    <3>. HIDE DEF j
    <3>2. SubSeq(s \o Fill("0", n), 1, Len(s) + j) = s \o Fill("0", j)
      BY ONLY <2>1, <3>1, IsText(s), CutZeros
    <3>. QED  BY <3>2 DEF j
  <2>. QED  BY <1>2, <2>1, <2>2, <2>3, <2>4
<1>5. c = 0 \/ c # 0
  OBVIOUS
<1>. QED  BY ONLY <1>3, <1>4, <1>5, Zenon

\* How many digits and zeros the prefix leaves, and that it takes only zeros.
LEMMA HashPlaces ==
  ASSUME NEW g, NumberIn(g), ~Deviates(g), HasHash(g)
  PROVE  LET h == FormatFlags(g)
             pw == PadWidth(ArgOf(g) < 0, width, h)
             k == Reach(precision, pw, h)
             n == Len(Digs(g))
             c == Cut(Larger(n, k), Base(g.spec), precision, pw, h)
         IN /\ pw = width /\ k \in Nat /\ k <= BufferSize
            /\ c \in Nat /\ c <= Larger(n, k) /\ (c = 0 \/ k >= n + c)
            /\ Larger(n, k - c) = (IF g.spec = "o" THEN Filled(g) - 1 ELSE Filled(g))
            /\ n <= (IF g.spec = "o" THEN Filled(g) - 1 ELSE Filled(g))
            /\ (IF g.spec = "o" THEN Filled(g) - 1 ELSE Filled(g)) \in Nat
            /\ Zeroed(g) => width <= Len(Marks(g)) + Filled(g)
<1>. DEFINE h == FormatFlags(g)
            neg == ArgOf(g) < 0
            sm == SignMark(neg, h)
            pw == PadWidth(neg, width, h)
            k == Reach(precision, pw, h)
            n == Len(Digs(g))
            base == Base(g.spec)
            c == Cut(Larger(n, k), base, precision, pw, h)
            m == Len(Marks(g))
            zd == Zeroed(g)
            P == g.precision
            oct == g.spec = "o"
            hex == g.spec \in {"x", "X"}
            bin == g.spec = "b"
            W == width
            F == Filled(g)
            B == BufferSize
            lf == ToLeft(g)
<1>1. ~NoPrecision(g)
  BY ONLY ~Deviates(g), Obeys
<1>2. /\ W \in Nat /\ precision \in Nat /\ W = FieldWidth(g)
      /\ Magnitude(g) \in Nat /\ ArgOf(g) \in Int /\ (~IsSigned(g) => ArgOf(g) >= 0)
      /\ F \in Nat /\ m + F <= B
      /\ IsText(Digs(g)) /\ n \in Nat /\ n <= F
      /\ Least(g) = Larger(n, precision)
      /\ lf => precision <= n
      /\ Magnitude(g) # 0 => n = Needed(g) /\ Needed(g) >= 1
  BY NumberFacts, Zenon
<1>3. /\ Len(sm) \in 0 .. 1
      /\ pw = (IF zd /\ W > 0 THEN W - Len(sm) ELSE W)
      /\ k = (IF lf THEN 0 ELSE IF zd THEN pw ELSE precision)
      /\ "precision" \in h <=> P # None
      /\ P = None => precision = 0
  BY PadFacts, Zenon
<1>4. sm = <<>> /\ Len(<<>>) = 0
  BY ONLY <1>1, <1>2, NumberIn(g), HasHash(g), MarksFacts, EmptyText
<1>5. n = Needed(g) /\ n >= 1
  BY ONLY <1>2, HasHash(g) DEF HasHash
<1>6. (oct => m = 0) /\ (~oct => m = 2)
  BY ONLY <1>1, <1>2, NumberIn(g), HasHash(g), MarksText
<1>7. (hex \/ bin \/ oct) /\ (base = 16 <=> hex) /\ ~(hex /\ bin) /\ ~(hex /\ oct) /\ ~(bin /\ oct)
  <2>1. g.spec \in Numeric /\ base # 10
    BY ONLY NumberIn(g), HasHash(g) DEF NumberIn, HasHash
  <2>. QED  BY ONLY <2>1, BaseFacts DEF Numeric
<1>8. F = LET least == IF oct THEN Larger(Least(g), Needed(g) + 1) ELSE Least(g)
          IN IF zd THEN Larger(least, FieldWidth(g) - m) ELSE least
  BY <1>2, BegunFacts DEF Filled, Zeroed
<1>9. c = IF "precision" \notin h /\ Larger(n, k) > 0 /\ Larger(n, k) \in {precision, pw}
          THEN IF Larger(n, k) > 1 /\ base = 16 THEN 2 ELSE 1 ELSE 0
  BY DEF Cut
<1>10. (zd => P = None) /\ (zd => ~lf)
  BY DEF Zeroed
<1>11. /\ ~(oct /\ P > n)
       /\ ~(P = None /\ W = n)
       /\ ~(zd /\ W = n + 1 /\ hex)
       /\ ~(zd /\ W > n /\ bin)
  BY ONLY <1>2, <1>5, ~Deviates(g), HasHash(g), Obeys
<1>12. P = None \/ P = precision
  BY <1>1, FlagFacts, Zenon
<1>. HIDE DEF h, neg, sm, base, m, zd, P, oct, hex, bin, lf, n, F
<1>13. pw = W
  BY ONLY <1>2, <1>3, <1>4
<1>. HIDE DEF pw, k, c
<1>14. F = LET least == IF oct THEN Larger(Larger(n, precision), n + 1) ELSE Larger(n, precision)
           IN IF zd THEN Larger(least, W - m) ELSE least
  BY ONLY <1>2, <1>5, <1>8
<1>15. ("precision" \notin h) = (P = None)
  BY ONLY <1>3
<1>16. oct /\ P # None => precision <= n
  BY ONLY <1>2, <1>11, <1>12
<1>. DEFINE r == IF oct THEN F - 1 ELSE F
<1>17. CASE zd /\ W > n
  <2>1. k = W /\ P = None /\ precision = 0 /\ Larger(n, k) = W /\ (hex \/ oct)
    BY ONLY <1>2, <1>3, <1>7, <1>10, <1>11, <1>13, <1>17 DEF Larger
  <2>2. c = IF hex THEN 2 ELSE 1
    BY ONLY <1>2, <1>5, <1>7, <1>9, <1>13, <1>15, <1>17, <2>1
  <2>3. hex => W >= n + 2
    BY ONLY <1>2, <1>11, <1>17
  <2>4. F = IF hex THEN W - 2 ELSE W
    BY ONLY <1>2, <1>5, <1>6, <1>7, <1>14, <1>17, <2>1, <2>3 DEF Larger
  <2>5. /\ k \in Nat /\ k <= B /\ c \in Nat /\ c <= Larger(n, k) /\ (c = 0 \/ k >= n + c)
        /\ Larger(n, k - c) = r /\ n <= r /\ r \in Nat /\ (zd => W <= m + F)
    BY ONLY <1>2, <1>5, <1>6, <1>7, <1>17, <2>1, <2>2, <2>3, <2>4, BufferNat DEF Larger
  <2>. QED  BY <1>13, <2>5 DEF h, neg, pw, k, n, base, c, zd, oct, F, m
<1>18. CASE ~(zd /\ W > n)
  <2>1. zd => W < n
    BY ONLY <1>2, <1>10, <1>11, <1>18
  <2>2. Larger(n, k) = (IF zd \/ lf THEN n ELSE Larger(n, precision)) /\ k \in Nat
    BY ONLY <1>2, <1>3, <1>10, <1>13, <2>1 DEF Larger
  <2>3. P = None => Larger(n, k) = n /\ precision = 0 /\ n # W
    BY ONLY <1>2, <1>3, <1>11, <2>2 DEF Larger
  <2>4. c = 0
    BY ONLY <1>2, <1>5, <1>9, <1>13, <1>15, <2>3
  <2>5. Larger(n, k) = r
    BY ONLY <1>2, <1>3, <1>5, <1>6, <1>10, <1>14, <1>16, <2>1, <2>2 DEF Larger
  <2>6. /\ k <= B /\ c \in Nat /\ c <= Larger(n, k)
        /\ Larger(n, k - c) = r /\ n <= r /\ r \in Nat /\ (zd => W <= m + F)
    <3>1. k - c = k
      BY ONLY <2>2, <2>4
    <3>2. n <= r /\ r \in Nat /\ k <= r
      BY ONLY <1>2, <2>2, <2>5 DEF Larger
    <3>3. r <= B
      BY ONLY <1>2, <1>6, BufferNat
    <3>4. zd => W <= m + F
      BY ONLY <1>2, <1>6, <2>1
    <3>. HIDE DEF r
    <3>. QED  BY ONLY <1>2, <2>2, <2>4, <2>5, <3>1, <3>2, <3>3, <3>4, BufferNat
  <2>. QED  BY <1>13, <2>2, <2>4, <2>6 DEF h, neg, pw, k, n, base, c, zd, oct, F, m
<1>. QED  BY ONLY <1>17, <1>18, Zenon

LEMMA PairText ==
  ASSUME NEW s, NEW t
  PROVE  <<s>> \o <<t>> = <<s, t>>
<1>1. <<s, t>> \in Seq({s, t}) /\ Len(<<s, t>>) = 2 /\ <<s, t>>[1] = s /\ <<s, t>>[2] = t
  OBVIOUS
<1>2. IsText(<<s>>) /\ Len(<<s>>) = 1 /\ IsText(<<t>>) /\ Len(<<t>>) = 1
  BY OneText
<1>3. <<s>>[1] = s /\ <<t>>[1] = t
  OBVIOUS
<1>. DEFINE cat == <<s>> \o <<t>>
            u == <<s, t>>
<1>4. /\ IsText(cat) /\ Len(cat) = Len(<<s>>) + Len(<<t>>)
      /\ \A k \in 1 .. Len(<<s>>) : cat[k] = <<s>>[k]
      /\ \A k \in Len(<<s>>) + 1 .. Len(<<s>>) + Len(<<t>>) : cat[k] = <<t>>[k - Len(<<s>>)]
  BY <1>2, CatText
<1>5. IsText(u)
  BY <1>1 DEF IsText
<1>6. 1 \in 1 .. 1 /\ 2 \in 1 + 1 .. 1 + 1 /\ 2 - 1 = 1 /\ 1 + 1 = 2
  OBVIOUS
<1>. HIDE DEF cat
<1>7. Len(cat) = 2 /\ cat[1] = s /\ cat[2] = t
  BY <1>2, <1>3, <1>4, <1>6, Zenon
<1>8. \A k \in 1 .. 2 : k = 1 \/ k = 2
  OBVIOUS
<1>9. Len(cat) = Len(u) /\ \A k \in 1 .. Len(cat) : cat[k] = u[k]
  BY <1>1, <1>7, <1>8, Zenon
<1>10. cat = u
  BY ONLY <1>4, <1>5, <1>9, SameText
<1>. QED  BY <1>10 DEF cat

LEMMA HashNumber ==
  ASSUME NEW g, NumberIn(g), ~Deviates(g), HasHash(g)
  PROVE  _ntoa_format(Digs(g), ArgOf(g) < 0, Base(g.spec), precision, width, FormatFlags(g))
           = Field(g, Figures(g))
<1>. DEFINE h == FormatFlags(g)
            neg == ArgOf(g) < 0
            pw == PadWidth(neg, width, h)
            k == Reach(precision, pw, h)
            n == Len(Digs(g))
            base == Base(g.spec)
            c == Cut(Larger(n, k), base, precision, pw, h)
            F == Filled(g)
            oct == g.spec = "o"
            r == IF oct THEN F - 1 ELSE F
            zeros == ZerosTo(Digs(g), k)
            rest == ZerosTo(Digs(g), r)
            hm == HashMark(base, h)
            buf == (rest \o hm) \o <<"0">>
<1>1. ~NoPrecision(g)
  BY ONLY ~Deviates(g), Obeys
<1>2. /\ width \in Nat /\ precision \in Nat /\ width = FieldWidth(g)
      /\ Magnitude(g) \in Nat /\ ArgOf(g) \in Int /\ (~IsSigned(g) => ArgOf(g) >= 0)
      /\ F \in Nat /\ Len(Figures(g)) = Len(Marks(g)) + F
      /\ Len(Marks(g)) + F <= BufferSize
      /\ NoDigits(g) \/ (PlacesIn(g) <= F /\ PlacesIn(g) <= BufferSize)
      /\ IsText(Digs(g)) /\ n \in Nat
      /\ Magnitude(g) # 0 => n = Needed(g)
  BY NumberFacts, Zenon
<1>3. /\ pw = width /\ k \in Nat /\ k <= BufferSize
      /\ c \in Nat /\ c <= Larger(n, k) /\ (c = 0 \/ k >= n + c)
      /\ Larger(n, k - c) = r /\ n <= r /\ r \in Nat
      /\ Zeroed(g) => width <= Len(Marks(g)) + F
  BY HashPlaces, Zenon
<1>4. "hash" \in h /\ ("zeropad" \in h => precision = 0) /\ ("uppercase" \in h <=> g.spec = "X")
  BY PadFacts, Zenon
<1>5. SignMark(neg, h) = <<>>
  BY ONLY <1>1, <1>2, NumberIn(g), HasHash(g), MarksFacts
<1>6. IF oct THEN Marks(g) = <<>> /\ Len(Marks(g)) = 0 ELSE Marks(g) = <<"0", g.spec>> /\ Len(Marks(g)) = 2
  BY ONLY <1>1, <1>2, NumberIn(g), HasHash(g), MarksFacts, MarksText
<1>7. hm = IF oct THEN <<>> ELSE <<g.spec>>
  <2>1. g.spec \in Numeric /\ base # 10
    BY ONLY NumberIn(g), HasHash(g) DEF NumberIn, HasHash
  <2>2. (base = 16 <=> g.spec \in {"x", "X"}) /\ (base = 2 <=> g.spec = "b")
        /\ (base = 10 <=> g.spec \in {"d", "u"})
    BY ONLY <2>1, BaseFacts
  <2>. HIDE DEF base, h
  <2>3. g.spec \in {"x", "X", "b", "o"}
    BY ONLY <2>1, <2>2 DEF Numeric
  <2>. QED  BY ONLY <1>4, <2>2, <2>3 DEF HashMark
<1>8. neg \in BOOLEAN
  OBVIOUS
<1>9. _ntoa_format(Digs(g), neg, base, precision, width, h)
        = LET lz == LeadingZeros(Digs(g), precision, pw, h)
          IN _out_rev(Sign(IF "hash" \in h THEN Prefix(lz, base, precision, pw, h) ELSE lz, neg, h), pw, h)
  BY DEF _ntoa_format
<1>. HIDE DEF h, neg, pw, k, n, base, c, F, r, rest, hm, buf
<1>10. LeadingZeros(Digs(g), precision, pw, h) = zeros
  BY ONLY <1>2, <1>3, <1>4, LeadingZerosFacts DEF k
<1>11. IsText(zeros) /\ Len(zeros) = Larger(n, k)
  <2>1. k \in Int
    BY ONLY <1>3
  <2>. QED  BY ONLY <1>2, <2>1, ZerosToFacts DEF n
<1>12. rest = SubSeq(zeros, 1, Len(zeros) - c)
  <2>0. /\ IsText(Digs(g)) /\ k \in Nat /\ c \in Nat /\ c <= Larger(Len(Digs(g)), k)
        /\ c = 0 \/ k >= Len(Digs(g)) + c
    BY ONLY <1>2, <1>3 DEF n
  <2>1. SubSeq(zeros, 1, Len(zeros) - c) = ZerosTo(Digs(g), k - c)
    BY ONLY <2>0, ZerosCut, Zenon
  <2>2. k - c \in Int /\ r \in Int /\ Larger(n, k - c) = Larger(n, r)
    BY ONLY <1>2, <1>3 DEF Larger
  <2>3. ZerosTo(Digs(g), k - c) = rest
    BY ONLY <1>2, <2>2, ZerosSame DEF n, rest
  <2>. QED  BY ONLY <2>1, <2>3
<1>13. IsText(rest) /\ Len(rest) = r
  <2>1. r \in Int /\ Larger(n, r) = r
    BY ONLY <1>2, <1>3 DEF Larger
  <2>. QED  BY ONLY <1>2, <2>1, ZerosToFacts DEF n, rest
<1>14. IsText(hm) /\ IF oct THEN Len(hm) = 0 ELSE Len(hm) = 1
  BY ONLY <1>7, OneText, EmptyText
<1>15. Len(rest) + Len(hm) + 1 = Len(Marks(g)) + F /\ Len(rest) + Len(hm) + 1 <= BufferSize
  <2>1. (oct => Len(Marks(g)) = 0) /\ (~oct => Len(Marks(g)) = 2)
    BY ONLY <1>6
  <2>2. (oct => Len(hm) = 0) /\ (~oct => Len(hm) = 1)
    BY ONLY <1>14
  <2>3. (oct => r = F - 1) /\ (~oct => r = F)
    BY ONLY TRUE DEF r
  <2>4. F \in Nat /\ Len(Marks(g)) + F <= BufferSize
    BY ONLY <1>2
  <2>5. Len(rest) = r
    BY ONLY <1>13
  <2>. HIDE DEF oct, zeros
  <2>6. CASE oct
    <3>1. Len(Marks(g)) = 0 /\ Len(hm) = 0 /\ r = F - 1
      BY ONLY <2>1, <2>2, <2>3, <2>6
    <3>. QED  BY ONLY <2>4, <2>5, <3>1
  <2>7. CASE ~oct
    <3>1. Len(Marks(g)) = 2 /\ Len(hm) = 1 /\ r = F
      BY ONLY <2>1, <2>2, <2>3, <2>7
    <3>. QED  BY ONLY <2>4, <2>5, <3>1, BufferNat
  <2>. QED  BY ONLY <2>6, <2>7, Zenon
<1>. HIDE DEF zeros
<1>16. Prefix(zeros, base, precision, pw, h) = buf
  <2>1. Kept(zeros, base, precision, pw, h) = rest
    BY ONLY <1>11, <1>12 DEF Kept, c
  <2>2. IsText(zeros) /\ IsText(rest) /\ Len(rest) + Len(HashMark(base, h)) + 1 <= BufferSize
    BY ONLY <1>11, <1>13, <1>15 DEF hm
  <2>3. Prefix(zeros, base, precision, pw, h) = (rest \o HashMark(base, h)) \o <<"0">>
    BY ONLY <2>1, <2>2, PrefixFacts
  <2>. QED  BY ONLY <2>3 DEF buf, hm
<1>17. IsText(rest \o hm) /\ IsText(buf) /\ Len(buf) = Len(rest) + Len(hm) + 1
  <2>1. IsText(rest \o hm) /\ Len(rest \o hm) = Len(rest) + Len(hm)
    BY ONLY <1>13, <1>14, CatText
  <2>2. IsText(<<"0">>) /\ Len(<<"0">>) = 1
    BY ONLY OneText
  <2>3. IsText(buf) /\ Len(buf) = Len(rest \o hm) + Len(<<"0">>)
    BY ONLY <2>1, <2>2, CatText DEF buf
  <2>. QED  BY ONLY <2>1, <2>2, <2>3
<1>18. Sign(buf, neg, h) = buf
  <2>1. Len(<<>>) = 0 /\ Len(buf) + 0 = Len(buf)
    BY ONLY <1>17, EmptyText, TextLength
  <2>2. Len(buf) + Len(SignMark(neg, h)) <= BufferSize
    BY ONLY <1>5, <1>15, <1>17, <2>1
  <2>3. Sign(buf, neg, h) = buf \o <<>>
    BY ONLY <1>5, <1>8, <1>17, <2>2, SignFacts
  <2>. QED  BY ONLY <1>17, <2>3, CatEmpty
<1>19. Rev(rest) = Written(g, r)
  <2>1. NoDigits(g) \/ (PlacesIn(g) <= r /\ PlacesIn(g) <= BufferSize)
    <3>1. NoDigits(g) \/ PlacesIn(g) <= BufferSize
      BY ONLY <1>2
    <3>2. n = IF NoDigits(g) THEN 0 ELSE PlacesIn(g)
      BY ONLY <3>1, DigsFacts DEF n
    <3>. QED  BY ONLY <1>3, <3>1, <3>2
  <2>. QED  BY ONLY <1>2, <1>3, <2>1, NumberIn(g), WrittenFacts DEF rest
<1>20. Rev(buf) = Figures(g)
  <2>1. CASE oct
    <3>1. buf = rest \o <<"0">>
      BY ONLY <1>7, <1>13, <2>1, CatEmpty DEF buf
    <3>. DEFINE z == r - n
    <3>2. z \in Nat /\ z + 1 = F - n
      BY ONLY <1>2, <1>3, <2>1 DEF r
    <3>3. rest = Digs(g) \o Fill("0", z)
      BY ONLY TRUE DEF rest, ZerosTo, n
    <3>4. ZerosTo(Digs(g), F) = Digs(g) \o Fill("0", F - n)
      BY ONLY TRUE DEF ZerosTo, n
    <3>. HIDE DEF z
    <3>5. IsText(Fill("0", z)) /\ IsText(<<"0">>) /\ Fill("0", z) \o <<"0">> = Fill("0", z + 1)
      <4>1. z \in Int
        BY ONLY <3>2
      <4>. QED  BY ONLY <3>2, <4>1, FillFacts, OneText, FillMore
    <3>6. (Digs(g) \o Fill("0", z)) \o <<"0">> = Digs(g) \o (Fill("0", z) \o <<"0">>)
      <4>1. IsText(Digs(g)) /\ IsText(Fill("0", z)) /\ IsText(<<"0">>)
        BY ONLY <1>2, <3>5, Zenon
      <4>. QED  BY ONLY <4>1, CatAssoc
    <3>7. buf = ZerosTo(Digs(g), F)
      BY ONLY <3>1, <3>2, <3>3, <3>4, <3>5, <3>6
    <3>8. Rev(buf) = Written(g, F)
      BY ONLY <1>2, <3>7, NumberIn(g), WrittenFacts
    <3>9. <<>> \o Written(g, F) = Written(g, F)
      <4>1. IsText(Written(g, F))
        BY ONLY <1>2, WrittenText
      <4>. QED  BY ONLY <4>1, CatEmpty
    <3>10. Figures(g) = <<>> \o Written(g, F)
      BY ONLY <1>6, <2>1 DEF Figures, F
    <3>. QED  BY ONLY <3>8, <3>9, <3>10
  <2>2. CASE ~oct
    <3>1. hm = <<g.spec>> /\ Marks(g) = <<"0", g.spec>> /\ r = F
      BY ONLY <1>6, <1>7, <2>2 DEF r
    <3>2. IsText(<<"0">>) /\ Rev(<<"0">>) = <<"0">> /\ Rev(hm) = hm
      BY ONLY <3>1, OneText, RevShort
    <3>3. Rev(rest \o hm) = hm \o Rev(rest) /\ IsText(Rev(rest))
      BY ONLY <1>13, <1>14, <3>2, RevCat, RevText
    <3>4. Rev(buf) = <<"0">> \o (hm \o Rev(rest))
      BY ONLY <1>17, <3>2, <3>3, RevCat DEF buf
    <3>5. <<"0">> \o (hm \o Rev(rest)) = (<<"0">> \o hm) \o Rev(rest)
      BY ONLY <1>14, <3>2, <3>3, CatAssoc
    <3>6. <<"0">> \o <<g.spec>> = <<"0", g.spec>>
      BY ONLY PairText
    <3>. QED  BY ONLY <1>19, <3>1, <3>4, <3>5, <3>6 DEF Figures, F
  <2>. QED  BY ONLY <2>1, <2>2, Zenon
<1>21. IsText(Figures(g)) /\ Len(Figures(g)) = Len(buf)
  BY ONLY <1>17, <1>20, RevText
<1>22. _out_rev(buf, pw, h) = Field(g, Figures(g))
  <2>1. Zeroed(g) => width <= Len(Figures(g))
    BY ONLY <1>2, <1>3
  <2>2. pw \in Nat /\ (~Zeroed(g) => pw = width)
    BY ONLY <1>2, <1>3
  <2>. QED  BY ONLY <1>1, <1>2, <1>17, <1>20, <1>21, <2>1, <2>2, NumberIn(g), InField DEF h
<1>23. _ntoa_format(Digs(g), neg, base, precision, width, h) = Field(g, Figures(g))
  BY ONLY <1>4, <1>9, <1>10, <1>16, <1>18, <1>22
<1>. QED  BY ONLY <1>23 DEF h, neg, base

------------------------------------------------------------------------------
(* Each conversion puts out what the standard wants. *)

\* What Number puts out, of the conversion written in g, is what the standard wants.
LEMMA NumberIsRight ==
  ASSUME NEW g, NumberIn(g), ~Deviates(g)
  PROVE  LET value == IF g.spec \in {"d", "i"} THEN Narrowed(g.arg) ELSE Unsigned(g.arg, Bits[size])
             magnitude == IF value > 0 THEN value ELSE -value
         IN _ntoa_long(magnitude, value < 0, Base(g.spec), precision, width, Heeded(g.spec)) = Standard(g)
<1>. DEFINE value == IF g.spec \in {"d", "i"} THEN Narrowed(g.arg) ELSE Unsigned(g.arg, Bits[size])
            magnitude == IF value > 0 THEN value ELSE -value
            e == Heeded(g.spec)
            h == FormatFlags(g)
            base == Base(g.spec)
            v == Magnitude(g)
            neg == ArgOf(g) < 0
<1>1. ~NoPrecision(g) /\ ~(IsSigned(g) /\ g.size = "char" /\ ArgOf(g) < 0)
  BY ONLY ~Deviates(g), Obeys
<1>2. value = ArgOf(g) /\ Magnitude(g) = (IF ArgOf(g) > 0 THEN ArgOf(g) ELSE -ArgOf(g))
  BY <1>1, ValueFacts
<1>3. ("precision" \in h <=> g.precision # None) /\ ("uppercase" \in h <=> g.spec = "X")
  BY <1>1, FlagFacts, Zenon
<1>4. h = IF v = 0 THEN e \ {"hash"} ELSE e
  BY DEF FormatFlags
<1>5. Digs(g) = IF "precision" \in h /\ v = 0 THEN <<>> ELSE DigitsOf(v, base, "uppercase" \in h)
  <2>1. Digs(g) = IF g.precision # None /\ v = 0 THEN <<>> ELSE DigitsOf(v, base, g.spec = "X")
    BY DEF Digs
  <2>2. ("uppercase" \in h) = (g.spec = "X")
    BY ONLY <1>3
  <2>. HIDE DEF h, v, base
  <2>. QED  BY ONLY <1>3, <2>1, <2>2
<1>6. _ntoa_format(Digs(g), neg, base, precision, width, h) = Field(g, Figures(g))
  BY ONLY NumberIn(g), ~Deviates(g), PlainNumber, HashNumber
<1>7. Standard(g) = Field(g, Figures(g))
  <2>1. g.spec # "c" /\ g.spec # "s"
    BY DEF NumberIn, Numeric
  <2>. QED  BY <2>1 DEF Standard
<1>8. magnitude = v /\ (value < 0) = neg
  BY <1>2
<1>. HIDE DEF h, v, e, base, neg, value, magnitude
<1>9. _ntoa_long(v, neg, base, precision, width, e) = _ntoa_format(Digs(g), neg, base, precision, width, h)
  BY ONLY <1>4, <1>5 DEF _ntoa_long
<1>10. _ntoa_long(magnitude, value < 0, base, precision, width, e) = Standard(g)
  BY ONLY <1>6, <1>7, <1>8, <1>9
<1>. QED  BY ONLY <1>10 DEF value, magnitude, base, e

LEMMA PaddedField ==
  ASSUME NEW g, Agrees(g), NEW s, NEW n, n = Len(s)
  PROVE  Padded(s, n) = Field(g, s)
<1>1. width = FieldWidth(g) /\ ("left" \in flags <=> ToLeft(g))
  BY DEF Agrees
<1>. QED  BY <1>1 DEF Padded, Field

LEMMA CharacterIsRight ==
  ASSUME NEW g, Agrees(g), g.spec = "c"
  PROVE  Padded(<<g.arg>>, 1) = Standard(g)
<1>1. Len(<<g.arg>>) = 1
  BY OneText
<1>2. Padded(<<g.arg>>, 1) = Field(g, <<g.arg>>)
  BY <1>1, PaddedField
<1>. QED  BY <1>2 DEF Standard

LEMMA StringIsRight ==
  ASSUME NEW g, Agrees(g), g.spec = "s", IsText(g.arg), ~NoPrecision(g)
  PROVE  LET s == g.arg
             n == IF precision > 0 THEN _strnlen_s(s, precision) ELSE Len(s)
             shownlen == IF "precision" \in flags THEN Smaller(n, precision) ELSE n
             shown == IF "precision" \in flags THEN SubSeq(s, 1, Smaller(Len(s), precision)) ELSE s
         IN Padded(shown, shownlen) = Standard(g)
<1>. DEFINE s == g.arg
            n == IF precision > 0 THEN _strnlen_s(s, precision) ELSE Len(s)
            shownlen == IF "precision" \in flags THEN Smaller(n, precision) ELSE n
            j == Smaller(Len(s), precision)
            shown == IF "precision" \in flags THEN SubSeq(s, 1, j) ELSE s
<1>1. Len(s) \in Nat /\ precision \in Nat
  BY TextLength DEF Agrees
<1>2. "precision" \notin flags => g.precision = None /\ precision = 0
  BY DEF Agrees
<1>3. "precision" \in flags => g.precision = precision /\ g.precision # None
  BY DEF Agrees, NoPrecision
<1>4. Standard(g) = Field(g, IF g.precision = None THEN s ELSE SubSeq(s, 1, Smaller(Len(s), g.precision)))
  BY DEF Standard
<1>. HIDE DEF s
<1>5. Standard(g) = Field(g, shown)
  BY ONLY <1>2, <1>3, <1>4
<1>6. shownlen = Len(shown)
  <2>1. CASE "precision" \in flags
    <3>1. j \in 0 .. Len(s) /\ shownlen = j
      BY ONLY <1>1, <2>1 DEF Smaller, _strnlen_s
    <3>2. Len(SubSeq(s, 1, j)) = j
      <4>1. PICK S : s \in Seq(S)
        BY DEF IsText, s
      <4>. HIDE DEF j
      <4>. QED  BY ONLY <3>1, <4>1, <1>1
    <3>. QED  BY ONLY <2>1, <3>1, <3>2
  <2>2. CASE "precision" \notin flags
    BY ONLY <1>1, <1>2, <2>2
  <2>. QED  BY ONLY <2>1, <2>2, Zenon
<1>. HIDE DEF shownlen, shown, n, j
<1>7. Padded(shown, shownlen) = Field(g, shown)
  BY ONLY <1>6, Agrees(g), PaddedField
<1>8. Padded(shown, shownlen) = Standard(g)
  BY ONLY <1>5, <1>7
<1>. QED  BY ONLY <1>8 DEF shown, shownlen, n, j, s

------------------------------------------------------------------------------
(* What has been read of a conversion. *)

FlagNames == {"zeropad", "left", "plus", "space", "hash"}

\* A conversion that is being read.
Unfinished == [flags : SUBSET FlagNames, width : Int, precision : Int,
               size : Sizes \cup {"int"}, spec : {""}, arg : {0}, at : Nat, to : {0}]

\* What has been read of it, where the scan is.
ReadSoFar ==
  /\ pc \in {"flags", "width", "width done"} => "precision" \notin flags
  /\ pc = "flags" => given.flags = flags /\ given.width = 0
  /\ pc = "width" => given.width = width
  /\ pc \in {"point", "precision"} => "precision" \in flags /\ given.precision = precision

StandardInvariant ==
  /\ InConversion => /\ given \in Unfinished /\ given.at = Len(full)
                     /\ Agrees(given) /\ ReadSoFar
  /\ pc \in {"text", "done"} /\ given.spec # "" =>
       given.at \in Nat /\ given.to \in Nat /\ given.to <= Len(full)
  /\ AsTheStandardSays

LEMMA StartStandard == Init => StandardInvariant
<1>. SUFFICES ASSUME Init PROVE StandardInvariant
  OBVIOUS
<1>1. pc = "text" /\ given.spec = ""
  BY DEF Init, Fresh
<1>. QED  BY <1>1 DEF StandardInvariant, InConversion, AsTheStandardSays

\* A step that reads on in the conversion.
LEMMA ReadsOn ==
  ASSUME pc' \notin {"text", "done"}, given' \in Unfinished, given'.at = Len(full'),
         Agrees(given)', ReadSoFar'
  PROVE  StandardInvariant'
<1>1. given'.spec = ""
  BY DEF Unfinished
<1>. QED  BY <1>1 DEF StandardInvariant, InConversion, AsTheStandardSays

LEMMA UnfinishedWith ==
  ASSUME NEW g \in Unfinished, NEW q \in Int
  PROVE  [g EXCEPT !.precision = q] \in Unfinished
BY DEF Unfinished

LEMMA WidthAsRead ==
  ASSUME NEW g, NEW w \in Nat, g.width = w
  PROVE  FieldWidth(g) = w /\ w \in Int
BY DEF FieldWidth

LEMMA PercentReads ==
  ASSUME PrintfInvariant, StandardInvariant, Percent
  PROVE  StandardInvariant'
<1>1. pc' = "flags" /\ flags' = {} /\ width' = 0 /\ precision' = 0 /\ size' = "int" /\ full' = full
  BY DEF Percent
<1>2. given' = [flags |-> {}, width |-> 0, precision |-> None, size |-> "int",
                spec |-> "", arg |-> 0, at |-> idx, to |-> 0]
  BY DEF Percent, Fresh
<1>3. idx = Len(full) /\ Len(full) \in Nat
  BY TextLength DEF PrintfInvariant
<1>4. given' \in Unfinished
  <2>1. {} \in SUBSET FlagNames /\ 0 \in Int /\ None \in Int /\ "int" \in Sizes \cup {"int"}
        /\ "" \in {""} /\ 0 \in {0} /\ idx \in Nat /\ 0 \in Nat
    BY <1>3 DEF None
  <2>. QED  BY ONLY <1>2, <2>1, Zenon DEF Unfinished
<1>5. /\ given'.at = Len(full') /\ given'.flags = {} /\ given'.width = 0
      /\ given'.precision = None /\ given'.size = "int"
  BY <1>1, <1>2, <1>3
<1>6. Agrees(given)'
  BY <1>1, <1>5 DEF Agrees, FieldWidth, ToLeft
<1>7. ReadSoFar'
  BY <1>1, <1>5 DEF ReadSoFar
<1>. QED  BY <1>1, <1>4, <1>5, <1>6, <1>7, ReadsOn

\* The parts of what is being read.
LEMMA Reading ==
  ASSUME StandardInvariant, InConversion
  PROVE  /\ given \in Unfinished /\ given.at = Len(full) /\ Agrees(given) /\ ReadSoFar
         /\ given.flags \in SUBSET FlagNames /\ given.width \in Int /\ given.precision \in Int
         /\ given.size = size /\ size \in {"char", "short", "int", "long", "long long"}
         /\ width \in Nat /\ precision \in Nat /\ width = FieldWidth(given)
         /\ "left" \in flags <=> ToLeft(given)
         /\ \A t \in {"zeropad", "plus", "space", "hash"} : t \in flags <=> t \in given.flags
         /\ "uppercase" \notin flags
         /\ "precision" \notin flags => given.precision = None /\ precision = 0
         /\ "precision" \in flags => given.precision = precision \/ given.precision = None
BY Zenon DEF StandardInvariant, Agrees, Unfinished

LEMMA FlagReads ==
  ASSUME StandardInvariant, NEW t \in FlagNames, Flag(t)
  PROVE  StandardInvariant'
<1>1. /\ pc = "flags" /\ pc' = "flags" /\ flags' = flags \cup {t}
      /\ given' = [given EXCEPT !.flags = flags']
      /\ width' = width /\ precision' = precision /\ size' = size /\ full' = full
  BY DEF Flag
<1>2. InConversion
  BY <1>1 DEF InConversion
<1>3. /\ given \in Unfinished /\ given.at = Len(full) /\ given.flags = flags /\ given.width = 0
      /\ given.size = size /\ size \in {"char", "short", "int", "long", "long long"}
      /\ width \in Nat /\ precision \in Nat /\ width = FieldWidth(given)
      /\ "uppercase" \notin flags /\ "precision" \notin flags
      /\ given.precision = None /\ precision = 0
  BY <1>1, <1>2, Reading DEF ReadSoFar
<1>4. given' \in Unfinished
  BY <1>1, <1>3 DEF Unfinished
<1>5. /\ given'.flags = flags' /\ given'.width = 0 /\ given'.precision = None /\ given'.size = size
      /\ given'.at = given.at
  BY <1>1, <1>3 DEF Unfinished
<1>6. "uppercase" \notin flags' /\ "precision" \notin flags'
  BY <1>1, <1>3 DEF FlagNames
<1>7. width = 0
  <2>1. width = FieldWidth(given) /\ given.width = 0
    BY ONLY <1>3
  <2>. QED  BY ONLY <2>1 DEF FieldWidth
<1>8. Agrees(given)'
  <2>1. width' = FieldWidth(given') /\ width' \in Nat /\ precision' \in Nat /\ given'.width \in Int
    <3>1. width' = 0 /\ precision' = 0 /\ given'.width = 0
      BY ONLY <1>1, <1>3, <1>5, <1>7
    <3>. QED  BY ONLY <3>1 DEF FieldWidth
  <2>2. "left" \in flags' <=> ToLeft(given')
    <3>1. given'.flags = flags' /\ ~(given'.width < 0)
      BY ONLY <1>5
    <3>. QED  BY ONLY <3>1 DEF ToLeft
  <2>3. /\ size' \in {"char", "short", "int", "long", "long long"} /\ given'.size = size'
        /\ given'.flags = flags' /\ given'.precision = None /\ precision' = 0
    BY ONLY <1>1, <1>3, <1>5, Zenon
  <2>. QED  BY <1>6, <2>1, <2>2, <2>3, Zenon DEF Agrees
<1>9. ReadSoFar'
  BY <1>1, <1>5, <1>6 DEF ReadSoFar
<1>. QED  BY <1>1, <1>3, <1>4, <1>5, <1>8, <1>9, ReadsOn

LEMMA WidthDigitReads ==
  ASSUME StandardInvariant, NEW d \in Nat, WidthDigit(d)
  PROVE  StandardInvariant'
<1>1. /\ pc \in {"flags", "width"} /\ pc' = "width" /\ width' = 10 * width + d
      /\ given' = [given EXCEPT !.width = width']
      /\ flags' = flags /\ precision' = precision /\ size' = size /\ full' = full
  BY DEF WidthDigit
<1>2. InConversion
  BY <1>1 DEF InConversion
<1>3. /\ given \in Unfinished /\ given.at = Len(full) /\ given.size = size
      /\ size \in {"char", "short", "int", "long", "long long"}
      /\ width \in Nat /\ precision \in Nat /\ width = FieldWidth(given)
      /\ "left" \in flags <=> ToLeft(given)
      /\ \A t \in {"zeropad", "plus", "space", "hash"} : t \in flags <=> t \in given.flags
      /\ "uppercase" \notin flags
      /\ "precision" \notin flags => given.precision = None /\ precision = 0
      /\ "precision" \in flags => given.precision = precision \/ given.precision = None
      /\ ReadSoFar
  BY <1>2, Reading, Zenon
<1>4. "precision" \notin flags /\ (given.width = 0 \/ given.width = width)
  BY ONLY <1>1, <1>3 DEF ReadSoFar
<1>5. width' \in Nat /\ width' \in Int
  <2>1. width \in Nat
    BY ONLY <1>3
  <2>2. width' = 10 * width + d
    BY ONLY <1>1
  <2>. QED  BY ONLY <2>1, <2>2, d \in Nat
<1>6. given' \in Unfinished
  BY ONLY <1>1, <1>3, <1>5 DEF Unfinished
<1>7. /\ given'.flags = given.flags /\ given'.width = width' /\ given'.precision = given.precision
      /\ given'.size = given.size /\ given'.at = given.at
  BY ONLY <1>1, <1>3 DEF Unfinished
<1>8. Agrees(given)'
  <2>1. width' = FieldWidth(given') /\ given'.width \in Int
    <3>1. given'.width = width'
      BY ONLY <1>7
    <3>2. FieldWidth(given') = width' /\ width' \in Int
      BY ONLY <1>5, <3>1, WidthAsRead
    <3>. QED  BY ONLY <3>1, <3>2, Zenon
  <2>2. "left" \in flags' <=> ToLeft(given')
    <3>1. ~(given.width < 0)
      <4>1. width \in Nat
        BY ONLY <1>3
      <4>. QED  BY ONLY <1>4, <4>1
    <3>2. ~(given'.width < 0)
      BY ONLY <1>5, <1>7
    <3>. QED  BY ONLY <1>1, <1>3, <1>7, <3>1, <3>2, Zenon DEF ToLeft
  <2>. QED  BY <1>1, <1>3, <1>4, <1>5, <1>7, <2>1, <2>2, Zenon DEF Agrees
<1>9. ReadSoFar'
  BY ONLY <1>1, <1>4, <1>7 DEF ReadSoFar
<1>. QED  BY <1>1, <1>3, <1>6, <1>7, <1>8, <1>9, ReadsOn

LEMMA WidthStarReads ==
  ASSUME StandardInvariant, NEW w \in Int, WidthStar(w)
  PROVE  StandardInvariant'
<1>1. /\ pc = "flags" /\ pc' = "width done"
      /\ given' = [given EXCEPT !.width = w]
      /\ IF w < 0 THEN flags' = flags \cup {"left"} /\ width' = -w ELSE width' = w /\ flags' = flags
      /\ precision' = precision /\ size' = size /\ full' = full
  BY DEF WidthStar
<1>2. InConversion
  BY <1>1 DEF InConversion
<1>3. /\ given \in Unfinished /\ given.at = Len(full) /\ given.size = size
      /\ size \in {"char", "short", "int", "long", "long long"}
      /\ precision \in Nat
      /\ "left" \in flags <=> ToLeft(given)
      /\ \A t \in {"zeropad", "plus", "space", "hash"} : t \in flags <=> t \in given.flags
      /\ "uppercase" \notin flags
      /\ "precision" \notin flags => given.precision = None /\ precision = 0
      /\ ReadSoFar
  BY <1>2, Reading, Zenon
<1>4. "precision" \notin flags /\ given.width = 0
  BY ONLY <1>1, <1>3 DEF ReadSoFar
<1>5. given' \in Unfinished
  BY ONLY <1>1, <1>3, w \in Int DEF Unfinished
<1>6. /\ given'.flags = given.flags /\ given'.width = w /\ given'.precision = given.precision
      /\ given'.size = given.size /\ given'.at = given.at
  BY ONLY <1>1, <1>3 DEF Unfinished
<1>7. /\ "left" \in flags' <=> ("left" \in flags \/ w < 0)
      /\ \A t \in {"zeropad", "plus", "space", "hash"} : t \in flags' <=> t \in flags
      /\ "uppercase" \notin flags' /\ "precision" \notin flags'
  <2>1. CASE w < 0
    <3>1. flags' = flags \cup {"left"}
      BY ONLY <1>1, <2>1
    <3>. QED  BY ONLY <1>3, <1>4, <2>1, <3>1
  <2>2. CASE ~(w < 0)
    <3>1. flags' = flags
      BY ONLY <1>1, <2>2
    <3>. QED  BY ONLY <1>3, <1>4, <2>2, <3>1
  <2>. QED  BY ONLY <2>1, <2>2, Zenon
<1>8. Agrees(given)'
  <2>1. width' = FieldWidth(given') /\ given'.width \in Int /\ width' \in Nat
    <3>1. width' = IF w < 0 THEN -w ELSE w
      BY ONLY <1>1
    <3>. QED  BY ONLY <1>6, <3>1, w \in Int DEF FieldWidth
  <2>2. "left" \in flags' <=> ToLeft(given')
    <3>1. ~(given.width < 0)
      BY ONLY <1>4
    <3>2. given'.width = w /\ given'.flags = given.flags
      BY ONLY <1>6
    <3>. QED  BY ONLY <1>3, <1>7, <3>1, <3>2, Zenon DEF ToLeft
  <2>. QED  BY <1>1, <1>3, <1>4, <1>6, <1>7, <2>1, <2>2, Zenon DEF Agrees
<1>9. ReadSoFar'
  BY ONLY <1>1, <1>7 DEF ReadSoFar
<1>. QED  BY <1>1, <1>3, <1>5, <1>6, <1>8, <1>9, ReadsOn

LEMMA PointReads ==
  ASSUME StandardInvariant, Point
  PROVE  StandardInvariant'
<1>1. /\ pc \in {"flags", "width", "width done"} /\ pc' = "point"
      /\ flags' = flags \cup {"precision"}
      /\ given' = [given EXCEPT !.precision = 0]
      /\ width' = width /\ precision' = precision /\ size' = size /\ full' = full
  BY DEF Point
<1>2. InConversion
  BY <1>1 DEF InConversion
<1>3. /\ given \in Unfinished /\ given.at = Len(full) /\ given.size = size
      /\ size \in {"char", "short", "int", "long", "long long"} /\ given.width \in Int
      /\ width \in Nat /\ precision \in Nat /\ width = FieldWidth(given)
      /\ "left" \in flags <=> ToLeft(given)
      /\ \A t \in {"zeropad", "plus", "space", "hash"} : t \in flags <=> t \in given.flags
      /\ "uppercase" \notin flags
      /\ "precision" \notin flags => given.precision = None /\ precision = 0
      /\ ReadSoFar
  BY <1>2, Reading, Zenon
<1>4. precision = 0
  BY ONLY <1>1, <1>3 DEF ReadSoFar
<1>5. given' \in Unfinished
  <2>1. given \in Unfinished /\ given' = [given EXCEPT !.precision = 0]
    BY ONLY <1>1, <1>3, Zenon
  <2>2. 0 \in Int
    OBVIOUS
  <2>. QED  BY ONLY <2>1, <2>2, UnfinishedWith
<1>6. /\ given'.flags = given.flags /\ given'.width = given.width /\ given'.precision = 0
      /\ given'.size = given.size /\ given'.at = given.at
  BY ONLY <1>1, <1>3 DEF Unfinished
<1>7. /\ "left" \in flags' <=> "left" \in flags
      /\ \A t \in {"zeropad", "plus", "space", "hash"} : t \in flags' <=> t \in flags
      /\ "uppercase" \notin flags' /\ "precision" \in flags'
  BY ONLY <1>1, <1>3
<1>8. Agrees(given)'
  <2>1. width' = FieldWidth(given') /\ given'.width \in Int /\ width' \in Nat
    BY ONLY <1>1, <1>3, <1>6, Zenon DEF FieldWidth
  <2>2. "left" \in flags' <=> ToLeft(given')
    BY ONLY <1>3, <1>6, <1>7, Zenon DEF ToLeft
  <2>. QED  BY <1>1, <1>3, <1>4, <1>6, <1>7, <2>1, <2>2, Zenon DEF Agrees
<1>9. ReadSoFar'
  BY ONLY <1>1, <1>4, <1>6, <1>7 DEF ReadSoFar
<1>. QED  BY <1>1, <1>3, <1>5, <1>6, <1>8, <1>9, ReadsOn

LEMMA PrecisionReads ==
  ASSUME StandardInvariant, InConversion, "precision" \in flags, pc' \in {"precision", "length"},
         precision' \in Nat, NEW q \in Int, q = precision' \/ q = None,
         pc' = "precision" => q = precision',
         given' = [given EXCEPT !.precision = q],
         flags' = flags, width' = width, size' = size, full' = full
  PROVE  StandardInvariant'
<1>1. /\ given \in Unfinished /\ given.at = Len(full) /\ given.size = size
      /\ size \in {"char", "short", "int", "long", "long long"} /\ given.width \in Int
      /\ width \in Nat /\ width = FieldWidth(given)
      /\ "left" \in flags <=> ToLeft(given)
      /\ \A t \in {"zeropad", "plus", "space", "hash"} : t \in flags <=> t \in given.flags
      /\ "uppercase" \notin flags
  BY Reading, Zenon
<1>2. given' \in Unfinished
  BY <1>1 DEF Unfinished
<1>3. /\ given'.flags = given.flags /\ given'.width = given.width /\ given'.precision = q
      /\ given'.size = given.size /\ given'.at = given.at
  BY <1>1 DEF Unfinished
<1>4. Agrees(given)'
  <2>1. width' = FieldWidth(given') /\ given'.width \in Int /\ width' \in Nat
    BY <1>1, <1>3, Zenon DEF FieldWidth
  <2>2. "left" \in flags' <=> ToLeft(given')
    BY <1>1, <1>3, Zenon DEF ToLeft
  <2>. QED  BY <1>1, <1>3, <2>1, <2>2, Zenon DEF Agrees
<1>5. ReadSoFar'
  BY <1>3 DEF ReadSoFar
<1>6. pc' \notin {"text", "done"}
  OBVIOUS
<1>. QED  BY <1>1, <1>2, <1>3, <1>4, <1>5, <1>6, ReadsOn

LEMMA PrecisionDigitReads ==
  ASSUME StandardInvariant, NEW d \in Nat, PrecisionDigit(d)
  PROVE  StandardInvariant'
<1>1. /\ pc \in {"point", "precision"} /\ pc' = "precision" /\ precision' = 10 * precision + d
      /\ given' = [given EXCEPT !.precision = precision']
      /\ flags' = flags /\ width' = width /\ size' = size /\ full' = full
  BY DEF PrecisionDigit
<1>2. InConversion
  BY <1>1 DEF InConversion
<1>3. precision \in Nat /\ "precision" \in flags
  BY <1>1, <1>2, Reading DEF ReadSoFar
<1>4. precision' \in Nat /\ precision' \in Int
  BY ONLY <1>1, <1>3, d \in Nat
<1>. QED  BY <1>1, <1>2, <1>3, <1>4, PrecisionReads

LEMMA PrecisionStarReads ==
  ASSUME StandardInvariant, NEW v \in Int, PrecisionStar(v)
  PROVE  StandardInvariant'
<1>1. /\ pc = "point" /\ pc' = "length" /\ precision' = Larger(v, 0)
      /\ given' = [given EXCEPT !.precision = Larger(v, None)]
      /\ flags' = flags /\ width' = width /\ size' = size /\ full' = full
  BY DEF PrecisionStar
<1>2. InConversion
  BY <1>1 DEF InConversion
<1>3. "precision" \in flags
  BY <1>1, <1>2, Reading DEF ReadSoFar
<1>4. precision' \in Nat /\ Larger(v, None) \in Int /\ (Larger(v, None) = precision' \/ Larger(v, None) = None)
  BY ONLY <1>1, v \in Int DEF Larger, None
<1>. QED  BY <1>1, <1>2, <1>3, <1>4, PrecisionReads

LEMMA LengthReads ==
  ASSUME StandardInvariant, NEW s \in Sizes, LengthField(s)
  PROVE  StandardInvariant'
<1>1. /\ pc \notin {"text", "done"} /\ pc' = "specifier" /\ size' = s
      /\ given' = [given EXCEPT !.size = s]
      /\ flags' = flags /\ width' = width /\ precision' = precision /\ full' = full
  BY DEF LengthField
<1>2. InConversion
  BY <1>1 DEF InConversion
<1>3. /\ given \in Unfinished /\ given.at = Len(full) /\ given.width \in Int
      /\ width \in Nat /\ precision \in Nat /\ width = FieldWidth(given)
      /\ "left" \in flags <=> ToLeft(given)
      /\ \A t \in {"zeropad", "plus", "space", "hash"} : t \in flags <=> t \in given.flags
      /\ "uppercase" \notin flags
      /\ "precision" \notin flags => given.precision = None /\ precision = 0
      /\ "precision" \in flags => given.precision = precision \/ given.precision = None
  BY <1>2, Reading, Zenon
<1>4. given' \in Unfinished
  BY <1>1, <1>3 DEF Unfinished
<1>5. /\ given'.flags = given.flags /\ given'.width = given.width /\ given'.precision = given.precision
      /\ given'.size = s /\ given'.at = given.at
  BY <1>1, <1>3 DEF Unfinished
<1>6. size' \in {"char", "short", "int", "long", "long long"}
  BY <1>1 DEF Sizes
<1>7. Agrees(given)'
  <2>1. width' = FieldWidth(given') /\ given'.width \in Int /\ width' \in Nat
    BY <1>1, <1>3, <1>5, Zenon DEF FieldWidth
  <2>2. "left" \in flags' <=> ToLeft(given')
    BY <1>1, <1>3, <1>5, Zenon DEF ToLeft
  <2>. QED  BY <1>1, <1>3, <1>5, <1>6, <2>1, <2>2, Zenon DEF Agrees
<1>8. ReadSoFar'
  BY <1>1 DEF ReadSoFar
<1>. QED  BY <1>1, <1>3, <1>4, <1>5, <1>7, <1>8, ReadsOn

------------------------------------------------------------------------------
(* The conversion carried out. *)

\* The conversion that is being read, when it has been carried out.
Finished(spec, arg, s) == [given EXCEPT !.spec = spec, !.arg = arg, !.to = idx + Len(s)]

LEMMA FinishedFacts ==
  ASSUME StandardInvariant, InConversion, NEW spec, NEW arg, NEW s
  PROVE  LET g == Finished(spec, arg, s) IN
         /\ Agrees(g) /\ g.spec = spec /\ g.arg = arg /\ g.at = Len(full) /\ g.to = idx + Len(s)
<1>. DEFINE g == Finished(spec, arg, s)
<1>1. /\ given \in Unfinished /\ given.at = Len(full) /\ given.size = size
      /\ size \in {"char", "short", "int", "long", "long long"} /\ given.width \in Int
      /\ width \in Nat /\ precision \in Nat /\ width = FieldWidth(given)
      /\ "left" \in flags <=> ToLeft(given)
      /\ \A t \in {"zeropad", "plus", "space", "hash"} : t \in flags <=> t \in given.flags
      /\ "uppercase" \notin flags
      /\ "precision" \notin flags => given.precision = None /\ precision = 0
      /\ "precision" \in flags => given.precision = precision \/ given.precision = None
  BY Reading, Zenon
<1>2. g = [given EXCEPT !.spec = spec, !.arg = arg, !.to = idx + Len(s)]
  BY DEF Finished
<1>. HIDE DEF g
<1>3. /\ g.flags = given.flags /\ g.width = given.width /\ g.precision = given.precision
      /\ g.size = given.size /\ g.at = given.at
      /\ g.spec = spec /\ g.arg = arg /\ g.to = idx + Len(s)
  BY ONLY <1>1, <1>2 DEF Unfinished
<1>4. FieldWidth(g) = FieldWidth(given) /\ (ToLeft(g) <=> ToLeft(given))
  BY ONLY <1>3, Zenon DEF FieldWidth, ToLeft
<1>5. Agrees(g)
  BY ONLY <1>1, <1>3, <1>4, Zenon DEF Agrees
<1>6. Agrees(g) /\ g.spec = spec /\ g.arg = arg /\ g.at = Len(full) /\ g.to = idx + Len(s)
  BY ONLY <1>1, <1>3, <1>5, Zenon
<1>. QED  BY <1>6 DEF g

LEMMA FinishedStands ==
  ASSUME PrintfInvariant, StandardInvariant, NEW spec, NEW arg, NEW s, IsText(s),
         Converted(spec, arg, s),
         \/ spec \in {"p", "%"}
         \/ s = Standard(Finished(spec, arg, s))
         \/ spec = "s" /\ NoPrecision(Finished(spec, arg, s))
         \/ spec \notin {"c", "s"} /\ Deviates(Finished(spec, arg, s))
  PROVE  StandardInvariant'
<1>. DEFINE g == Finished(spec, arg, s)
<1>1. /\ InConversion /\ pc' = "text" /\ full' = full \o s /\ idx' = idx + Len(s)
      /\ flags' = flags
  BY DEF Converted, out
<1>2. given' = g
  BY <1>1 DEF Converted, Finished
<1>3. g.spec = spec /\ g.at = Len(full) /\ g.to = idx + Len(s)
  BY <1>1, FinishedFacts
<1>4. IsText(full) /\ idx = Len(full) /\ Len(full) \in Nat /\ Len(s) \in Nat
  BY TextLength DEF PrintfInvariant
<1>5. Len(full') = Len(full) + Len(s)
  BY <1>1, <1>4, CatText
<1>6. SubSeq(full', g.at + 1, g.to) = s
  BY <1>1, <1>3, <1>4, TailText
<1>7. g.at \in Nat /\ g.to \in Nat /\ g.to <= Len(full')
  BY <1>3, <1>4, <1>5
<1>8. /\ (Standard(given)' = Standard(g))
      /\ (NoPrecision(given)' <=> NoPrecision(g)) /\ (Deviates(given)' <=> Deviates(g))
  <2>. HIDE DEF g
  <2>1. NoPrecision(given)' <=> NoPrecision(g)
    BY <1>1, <1>2 DEF NoPrecision
  <2>2. Standard(given)' = Standard(g)
    BY ONLY <1>2
  <2>3. Deviates(given)' <=> Deviates(g)
    BY ONLY <1>2, <2>1, Zenon DEF Deviates
  <2>. QED  BY <2>1, <2>2, <2>3
<1>9. AsTheStandardSays'
  <2>1. \/ spec \in {"p", "%"}
        \/ s = Standard(g)
        \/ spec = "s" /\ NoPrecision(g)
        \/ spec \notin {"c", "s"} /\ Deviates(g)
    OBVIOUS
  <2>. HIDE DEF g
  <2>. QED  BY ONLY <1>2, <1>3, <1>6, <1>8, <2>1, Zenon DEF AsTheStandardSays
<1>10. ~(InConversion')
  BY <1>1 DEF InConversion
<1>11. given'.at \in Nat /\ given'.to \in Nat /\ given'.to <= Len(full')
  BY <1>2, <1>7
<1>. QED  BY ONLY <1>9, <1>10, <1>11, Zenon DEF StandardInvariant

LEMMA NumberStands ==
  ASSUME PrintfInvariant, StandardInvariant, NEW v \in Int, NEW spec \in Numeric, Number(spec, v)
  PROVE  StandardInvariant'
<1>. DEFINE value == IF spec \in {"d", "i"} THEN Narrowed(v) ELSE Unsigned(v, Bits[size])
            magnitude == IF value > 0 THEN value ELSE -value
            s == _ntoa_long(magnitude, value < 0, Base(spec), precision, width, Heeded(spec))
            g == Finished(spec, v, s)
<1>1. precision \in Int /\ width \in Int
  BY DEF PrintfInvariant
<1>2. (value < 0) \in BOOLEAN
  OBVIOUS
<1>3. IsText(s)
  <2>. HIDE DEF magnitude, value
  <2>. QED  BY <1>1, <1>2, LongText
<1>4. Converted(spec, v, s)
  BY DEF Number
<1>5. InConversion
  BY <1>4 DEF Converted
<1>6. spec \notin {"c", "s"}
  BY DEF Numeric
<1>7. s = Standard(g) \/ Deviates(g)
  <2>. HIDE DEF s
  <2>1. Agrees(g) /\ g.spec = spec /\ g.arg = v
    BY <1>5, FinishedFacts
  <2>. HIDE DEF g
  <2>2. NumberIn(g)
    BY <2>1, Zenon DEF NumberIn
  <2>3. ~Deviates(g) => s = Standard(g)
    BY <2>1, <2>2, NumberIsRight, Zenon DEF s
  <2>. QED  BY <2>3
<1>. HIDE DEF s
<1>. QED  BY <1>3, <1>4, <1>6, <1>7, FinishedStands

LEMMA CharacterStands ==
  ASSUME PrintfInvariant, StandardInvariant, NEW ch, Character(ch)
  PROVE  StandardInvariant'
<1>. DEFINE s == Padded(<<ch>>, 1)
            g == Finished("c", ch, s)
<1>1. width \in Nat /\ 1 \in Int
  BY DEF PrintfInvariant
<1>2. IsText(s)
  BY <1>1, OneText, PaddedText
<1>3. Converted("c", ch, s)
  BY DEF Character
<1>. HIDE DEF s
<1>4. InConversion
  BY <1>3 DEF Converted
<1>5. Agrees(g) /\ g.spec = "c" /\ g.arg = ch
  BY <1>4, FinishedFacts
<1>6. s = Standard(g)
  <2>. HIDE DEF g
  <2>. QED  BY <1>5, CharacterIsRight DEF s
<1>. QED  BY <1>2, <1>3, <1>6, FinishedStands

LEMMA StringStands ==
  ASSUME PrintfInvariant, StandardInvariant, NEW str \in Strings, String(str)
  PROVE  StandardInvariant'
<1>. DEFINE m == IF precision > 0 THEN _strnlen_s(str, precision) ELSE Len(str)
            kept == IF "precision" \in flags THEN Smaller(m, precision) ELSE m
            shown == IF "precision" \in flags THEN SubSeq(str, 1, Smaller(Len(str), precision)) ELSE str
            s == Padded(shown, kept)
            g == Finished("s", str, s)
<1>1. IsText(str)
  BY PrintfAssumption DEF IsText
<1>2. Len(str) \in Nat /\ precision \in Nat /\ width \in Nat
  BY <1>1, TextLength DEF PrintfInvariant
<1>3. kept \in Int
  BY <1>2 DEF _strnlen_s, Smaller
<1>4. Smaller(Len(str), precision) \in 0 .. Len(str)
  BY <1>2 DEF Smaller
<1>5. IsText(shown)
  BY <1>1, <1>4, CutText
<1>6. IsText(s)
  <2>. HIDE DEF shown, kept
  <2>. QED  BY <1>2, <1>3, <1>5, PaddedText
<1>7. Converted("s", str, s)
  BY DEF String
<1>8. InConversion
  BY <1>7 DEF Converted
<1>. HIDE DEF s
<1>9. Agrees(g) /\ g.spec = "s" /\ g.arg = str
  BY <1>8, FinishedFacts
<1>10. ~NoPrecision(g) => s = Standard(g)
  <2>. HIDE DEF g
  <2>. QED  BY <1>1, <1>9, StringIsRight, Zenon DEF s
<1>. QED  BY <1>6, <1>7, <1>10, FinishedStands

LEMMA PlainStands ==
  ASSUME PrintfInvariant, StandardInvariant, PlainChar
  PROVE  StandardInvariant'
<1>1. pc = "text" /\ pc' = "text" /\ given' = given /\ flags' = flags /\ full' = full \o <<"t">>
  BY DEF PlainChar, out
<1>2. IsText(full) /\ IsText(<<"t">>) /\ Len(<<"t">>) = 1 /\ Len(full) \in Nat
  BY OneText, TextLength DEF PrintfInvariant
<1>3. Len(full') = Len(full) + 1
  BY <1>1, <1>2, CatText
<1>4. ~InConversion'
  BY <1>1 DEF InConversion
<1>5. CASE given.spec = ""
  BY <1>1, <1>4, <1>5 DEF StandardInvariant, AsTheStandardSays
<1>6. CASE given.spec # ""
  <2>1. given.at \in Nat /\ given.to \in Nat /\ given.to <= Len(full) /\ AsTheStandardSays
    BY <1>1, <1>6 DEF StandardInvariant
  <2>2. given.at + 1 \in Nat /\ given.at + 1 >= 1
    BY <2>1
  <2>3. SubSeq(full', given.at + 1, given.to) = SubSeq(full, given.at + 1, given.to)
    BY <1>1, <1>2, <2>1, <2>2, HeadText
  <2>4. (NoPrecision(given)' <=> NoPrecision(given)) /\ (Deviates(given)' <=> Deviates(given))
    <3>1. NoPrecision(given)' <=> NoPrecision(given)
      BY <1>1 DEF NoPrecision
    <3>. QED  BY ONLY <1>1, <3>1, Zenon DEF Deviates
  <2>5. AsTheStandardSays'
    BY ONLY <1>1, <2>1, <2>3, <2>4, Zenon DEF AsTheStandardSays
  <2>6. given'.at \in Nat /\ given'.to \in Nat /\ given'.to <= Len(full')
    BY <1>1, <1>2, <1>3, <2>1
  <2>. QED  BY ONLY <1>4, <2>5, <2>6, Zenon DEF StandardInvariant
<1>. QED  BY <1>5, <1>6

LEMMA EndStands ==
  ASSUME StandardInvariant, pc' = pc \/ (pc = "text" /\ pc' = "done"),
         UNCHANGED <<flags, width, precision, size, full, given>>
  PROVE  StandardInvariant'
<1>1. /\ flags' = flags /\ width' = width /\ precision' = precision /\ size' = size
      /\ full' = full /\ given' = given
  OBVIOUS
<1>2. (InConversion' => InConversion /\ pc' = pc) /\ (pc' \in {"text", "done"} => pc \in {"text", "done"})
  BY DEF InConversion
<1>3. Agrees(given)' <=> Agrees(given)
  BY <1>1 DEF Agrees
<1>4. (NoPrecision(given)' <=> NoPrecision(given)) /\ (Deviates(given)' <=> Deviates(given))
  <2>1. NoPrecision(given)' <=> NoPrecision(given)
    BY <1>1 DEF NoPrecision
  <2>. QED  BY ONLY <1>1, <2>1, Zenon DEF Deviates
<1>5. AsTheStandardSays'
  <2>1. AsTheStandardSays
    BY DEF StandardInvariant
  <2>. QED  BY ONLY <1>1, <1>4, <2>1, Zenon DEF AsTheStandardSays
<1>6. pc' = pc /\ ReadSoFar => ReadSoFar'
  BY <1>1 DEF ReadSoFar
<1>. QED  BY ONLY StandardInvariant, <1>1, <1>2, <1>3, <1>5, <1>6, Zenon DEF StandardInvariant

LEMMA StepStandard ==
  PrintfInvariant /\ StandardInvariant /\ [_vsnprintf]_vars => StandardInvariant'
<1>. SUFFICES ASSUME PrintfInvariant, StandardInvariant, [_vsnprintf]_vars
              PROVE  StandardInvariant'
  OBVIOUS
<1>1. CASE PlainChar
  BY <1>1, PlainStands
<1>2. CASE Percent
  BY <1>2, PercentReads
<1>3. ASSUME NEW t \in {"zeropad", "left", "plus", "space", "hash"}, Flag(t) PROVE StandardInvariant'
  <2>1. t \in FlagNames
    BY DEF FlagNames
  <2>. QED  BY <1>3, <2>1, FlagReads
<1>4. ASSUME NEW d \in Digits, WidthDigit(d) PROVE StandardInvariant'
  <2>1. d \in Nat
    BY DigitsNat
  <2>. QED  BY <1>4, <2>1, WidthDigitReads
<1>5. ASSUME NEW d \in Digits, PrecisionDigit(d) PROVE StandardInvariant'
  <2>1. d \in Nat
    BY DigitsNat
  <2>. QED  BY <1>5, <2>1, PrecisionDigitReads
<1>6. ASSUME NEW w \in {-3, 3}, WidthStar(w) PROVE StandardInvariant'
  <2>1. w \in Int
    OBVIOUS
  <2>. QED  BY <1>6, <2>1, WidthStarReads
<1>7. CASE Point
  BY <1>7, PointReads
<1>8. ASSUME NEW v \in {-3, 3}, PrecisionStar(v) PROVE StandardInvariant'
  <2>1. v \in Int
    OBVIOUS
  <2>. QED  BY <1>8, <2>1, PrecisionStarReads
<1>9. ASSUME NEW s \in Sizes, LengthField(s) PROVE StandardInvariant'
  BY <1>9, LengthReads
<1>10. ASSUME NEW v \in Ints, NEW spec \in {"d", "u", "x", "X", "o", "b"}, Number(spec, v)
       PROVE StandardInvariant'
  <2>1. v \in Int
    <3>1. Ints \subseteq Int
      BY PrintfAssumption, Zenon
    <3>. QED  BY <3>1
  <2>2. spec \in Numeric
    BY DEF Numeric
  <2>. QED  BY <1>10, <2>1, <2>2, NumberStands
<1>11. ASSUME NEW ch, Character(ch) PROVE StandardInvariant'
  BY <1>11, CharacterStands
<1>12. ASSUME NEW s \in Strings, String(s) PROVE StandardInvariant'
  BY <1>12, StringStands
<1>13. ASSUME NEW v, Pointer(v) PROVE StandardInvariant'
  <2>. DEFINE s == _ntoa_long(v, FALSE, 16, precision, 8, flags \cup {"zeropad", "uppercase"})
  <2>1. FALSE \in BOOLEAN /\ 8 \in Int /\ precision \in Int
    BY DEF PrintfInvariant
  <2>2. IsText(s)
    BY <2>1, LongText
  <2>3. Converted("p", v, s)
    BY <1>13 DEF Pointer
  <2>. HIDE DEF s
  <2>. QED  BY <2>2, <2>3, FinishedStands
<1>14. CASE Itself
  <2>1. Converted("%", 0, <<"%">>) /\ IsText(<<"%">>)
    BY <1>14, OneText DEF Itself
  <2>. QED  BY <2>1, FinishedStands
<1>15. CASE Terminate
  BY <1>15, EndStands DEF Terminate
<1>16. CASE UNCHANGED vars
  BY <1>16, EndStands DEF vars
<1>. QED
  BY <1>1, <1>2, <1>3, <1>4, <1>5, <1>6, <1>7, <1>8, <1>9, <1>10, <1>11, <1>12, <1>13, <1>14,
     <1>15, <1>16, Zenon DEF _vsnprintf

\* Every conversion, of every argument, under every flag, width and precision, puts
\* out what the C standard says it does, but for the cases Deviates lists.
THEOREM ConversionsAreRight == Spec => []AsTheStandardSays
<1>1. Init => PrintfInvariant /\ StandardInvariant
  BY StartText, StartStandard
<1>2. PrintfInvariant /\ StandardInvariant /\ [_vsnprintf]_vars => (PrintfInvariant /\ StandardInvariant)'
  BY StepText, StepStandard
<1>3. PrintfInvariant /\ StandardInvariant => AsTheStandardSays
  BY DEF StandardInvariant
<1>. QED  BY <1>1, <1>2, <1>3, PTL DEF Spec

------------------------------------------------------------------------------
(* Sorting: rearrangements of a part of an array. *)

\* The ways to rearrange what is at lo .. hi.
Orders(n, lo, hi) ==
  {f \in [1 .. n -> 1 .. n] :
     /\ \A i, j \in 1 .. n : f[i] = f[j] => i = j
     /\ \A j \in 1 .. n : \E i \in 1 .. n : f[i] = j
     /\ \A i \in 1 .. n : IF i \in lo .. hi THEN f[i] \in lo .. hi ELSE f[i] = i}

Rearranges(t, s, lo, hi) ==
  \E f \in Orders(Len(s), lo, hi) : t = [i \in 1 .. Len(s) |-> s[f[i]]]

LEMMA RearrangeType ==
  ASSUME NEW S, NEW s \in Seq(S), NEW t, NEW lo, NEW hi, Rearranges(t, s, lo, hi)
  PROVE  t \in Seq(S) /\ Len(t) = Len(s) /\ DOMAIN t = 1 .. Len(s) /\ DOMAIN s = 1 .. Len(s)
<1>1. PICK f \in Orders(Len(s), lo, hi) : t = [i \in 1 .. Len(s) |-> s[f[i]]]
  BY DEF Rearranges
<1>2. f \in [1 .. Len(s) -> 1 .. Len(s)]
  BY <1>1 DEF Orders
<1>3. \A i \in 1 .. Len(s) : s[f[i]] \in S
  BY <1>2
<1>. QED  BY <1>1, <1>3

LEMMA RearrangeRefl ==
  ASSUME NEW S, NEW s \in Seq(S), NEW lo, NEW hi
  PROVE  Rearranges(s, s, lo, hi)
<1>. DEFINE f == [i \in 1 .. Len(s) |-> i]
<1>1. f \in Orders(Len(s), lo, hi)
  BY DEF Orders
<1>2. s = [i \in 1 .. Len(s) |-> s[f[i]]]
  OBVIOUS
<1>. QED  BY <1>1, <1>2 DEF Rearranges

LEMMA RearrangeTrans ==
  ASSUME NEW S, NEW s \in Seq(S), NEW t, NEW u, NEW lo, NEW hi,
         Rearranges(t, s, lo, hi), Rearranges(u, t, lo, hi)
  PROVE  Rearranges(u, s, lo, hi)
<1>1. PICK f \in Orders(Len(s), lo, hi) : t = [i \in 1 .. Len(s) |-> s[f[i]]]
  BY DEF Rearranges
<1>2. Len(t) = Len(s)
  BY RearrangeType
<1>3. PICK g \in Orders(Len(s), lo, hi) : u = [i \in 1 .. Len(s) |-> t[g[i]]]
  BY <1>2 DEF Rearranges
<1>. DEFINE h == [i \in 1 .. Len(s) |-> f[g[i]]]
            n == Len(s)
<1>4. /\ f \in [1 .. n -> 1 .. n] /\ g \in [1 .. n -> 1 .. n]
      /\ \A i, j \in 1 .. n : (f[i] = f[j] => i = j) /\ (g[i] = g[j] => i = j)
  BY <1>1, <1>3 DEF Orders
<1>5. \A j \in 1 .. n : (\E i \in 1 .. n : f[i] = j) /\ (\E i \in 1 .. n : g[i] = j)
  BY <1>1, <1>3 DEF Orders
<1>6. \A i \in 1 .. n : /\ IF i \in lo .. hi THEN f[i] \in lo .. hi ELSE f[i] = i
                        /\ IF i \in lo .. hi THEN g[i] \in lo .. hi ELSE g[i] = i
  BY <1>1, <1>3 DEF Orders
<1>. HIDE DEF n
<1>7. h \in [1 .. n -> 1 .. n]
  BY <1>4 DEF n
<1>8. h \in Orders(n, lo, hi)
  <2>1. \A i \in 1 .. n : h[i] = f[g[i]] /\ g[i] \in 1 .. n
    BY <1>4 DEF n
  <2>. HIDE DEF h
  <2>2. \A i, j \in 1 .. n : h[i] = h[j] => i = j
    BY <1>4, <2>1
  <2>3. \A j \in 1 .. n : \E i \in 1 .. n : h[i] = j
    <3>. TAKE j \in 1 .. n
    <3>1. PICK k \in 1 .. n : f[k] = j
      BY <1>5
    <3>2. PICK i \in 1 .. n : g[i] = k
      BY <1>5
    <3>. QED  BY <2>1, <3>1, <3>2
  <2>4. \A i \in 1 .. n : IF i \in lo .. hi THEN h[i] \in lo .. hi ELSE h[i] = i
    BY <1>6, <2>1
  <2>. QED  BY <1>7, <2>2, <2>3, <2>4 DEF Orders
<1>9. u = [i \in 1 .. Len(s) |-> s[h[i]]]
  <2>1. \A i \in 1 .. n : g[i] \in 1 .. n
    BY <1>4
  <2>2. \A i \in 1 .. Len(s) : t[g[i]] = s[h[i]]
    BY <1>1, <2>1 DEF n
  <2>. QED  BY <1>3, <2>2, Zenon
<1>. QED  BY <1>8, <1>9 DEF Rearranges, n

LEMMA SwapRearranges ==
  ASSUME NEW S, NEW s \in Seq(S), NEW lo \in Int, NEW hi \in Int, 1 <= lo, hi <= Len(s),
         NEW v \in lo .. hi, NEW w \in lo .. hi
  PROVE  /\ Rearranges(Swap(s, v, w), s, lo, hi)
         /\ Swap(s, v, w) = [i \in 1 .. Len(s) |-> IF i = w THEN s[v] ELSE IF i = v THEN s[w] ELSE s[i]]
<1>. DEFINE n == Len(s)
            f == [i \in 1 .. n |-> IF i = w THEN v ELSE IF i = v THEN w ELSE i]
<1>1. v \in 1 .. n /\ w \in 1 .. n
  OBVIOUS
<1>2. f \in Orders(n, lo, hi)
  <2>. HIDE DEF n
  <2>1. f \in [1 .. n -> 1 .. n]
    BY <1>1
  <2>2. \A i \in 1 .. n : f[i] = IF i = w THEN v ELSE IF i = v THEN w ELSE i
    OBVIOUS
  <2>. HIDE DEF f
  <2>3. \A i, j \in 1 .. n : f[i] = f[j] => i = j
    BY <1>1, <2>2
  <2>4. \A j \in 1 .. n : f[f[j]] = j /\ f[j] \in 1 .. n
    BY <1>1, <2>2
  <2>5. \A i \in 1 .. n : IF i \in lo .. hi THEN f[i] \in lo .. hi ELSE f[i] = i
    BY <2>2
  <2>6. \A j \in 1 .. n : \E i \in 1 .. n : f[i] = j
    BY <2>4
  <2>. QED  BY <2>1, <2>3, <2>5, <2>6 DEF Orders
<1>3. Swap(s, v, w) = [i \in 1 .. n |-> IF i = w THEN s[v] ELSE IF i = v THEN s[w] ELSE s[i]]
  BY <1>1 DEF Swap
<1>4. \A i \in 1 .. n : (IF i = w THEN s[v] ELSE IF i = v THEN s[w] ELSE s[i]) = s[f[i]]
  BY <1>1
<1>5. Swap(s, v, w) = [i \in 1 .. n |-> s[f[i]]]
  BY <1>3, <1>4, Zenon
<1>. QED  BY <1>2, <1>3, <1>5 DEF Rearranges

LEMMA SameOccurs ==
  ASSUME NEW S, NEW s \in Seq(S), NEW t, NEW lo, NEW hi, Rearranges(t, s, lo, hi), NEW v
  PROVE  Occurs(t, v) = Occurs(s, v)
<1>1. PICK f \in Orders(Len(s), lo, hi) : t = [i \in 1 .. Len(s) |-> s[f[i]]]
  BY DEF Rearranges
<1>. DEFINE n == Len(s)
            A == {k \in 1 .. n : t[k] = v}
            B == {k \in 1 .. n : s[k] = v}
            g == [k \in A |-> f[k]]
<1>2. /\ f \in [1 .. n -> 1 .. n]
      /\ \A i, j \in 1 .. n : f[i] = f[j] => i = j
      /\ \A j \in 1 .. n : \E i \in 1 .. n : f[i] = j
  BY <1>1 DEF Orders
<1>3. \A k \in 1 .. n : t[k] = s[f[k]]
  BY <1>1
<1>4. DOMAIN t = 1 .. n /\ DOMAIN s = 1 .. n
  BY RearrangeType
<1>. HIDE DEF n
<1>5. g \in [A -> B]
  BY <1>2, <1>3
<1>6. g \in Injection(A, B)
  BY <1>2, <1>5 DEF Injection, IsInjective
<1>7. \A c \in B : \E k \in A : g[k] = c
  <2>. TAKE c \in B
  <2>1. c \in 1 .. n /\ s[c] = v
    OBVIOUS
  <2>2. PICK k \in 1 .. n : f[k] = c
    BY <1>2, <2>1
  <2>3. k \in A
    BY <1>3, <2>1, <2>2
  <2>4. g[k] = c
    BY <2>2, <2>3
  <2>. QED  BY <2>3, <2>4
<1>8. g \in Surjection(A, B)
  BY <1>5, <1>7 DEF Surjection
<1>9. g \in Bijection(A, B)
  BY <1>6, <1>8 DEF Bijection
<1>10. IsFiniteSet(A)
  <2>1. n \in Nat
    BY DEF n
  <2>2. IsFiniteSet(1 .. n)
    BY <2>1, FS_Interval
  <2>. QED  BY <2>2, FS_Subset
<1>11. Cardinality(A) = Cardinality(B)
  BY <1>9, <1>10, FS_Bijection DEF ExistsBijection
<1>. QED  BY <1>4, <1>11 DEF Occurs

------------------------------------------------------------------------------
(* Quicksort: the inductive invariant. *)

\* Subarray 0 is in hand, the others are those put off.
Depth == Len(stackp)
Lo(q) == IF q = 0 THEN l ELSE stackp[q][1]
Hi(q) == IF q = 0 THEN ir ELSE stackp[q][2]

QsortTypeOK ==
  /\ a \in Seq(Elements) /\ a0 \in Seq(Elements)
  /\ l \in Int /\ ir \in Int /\ up \in Int /\ down \in Int /\ pivot \in Int
  /\ stackp \in Seq(Int \X Int)
  /\ qpc \in {"round", "up", "down", "exchange", "insert", "sorted"}

\* No two subarrays share an element.
PartsApart ==
  /\ \A q \in 0 .. Depth : 1 <= Lo(q) /\ Lo(q) <= Hi(q) + 1 /\ Hi(q) <= Len(a)
  /\ \A q, r \in 0 .. Depth : q # r => Hi(q) < Lo(r) \/ Hi(r) < Lo(q)

\* Each one leaves room for its own subarrays on the stack.
Room ==
  \A q \in 0 .. Depth :
    (Hi(q) - Lo(q) + 1) * Pow2[IF q = 0 THEN Depth ELSE Depth - q] <= Len(a)

\* What the scans have passed is on its side of the partitioning element, and
\* each of them has an element before it to stop at.
ScanInv ==
  qpc \in {"up", "down", "exchange"} =>
    /\ l + 2 <= ir /\ l < up /\ up <= ir /\ l < down /\ down <= ir
    /\ a[l + 1] = pivot
    /\ \A k \in l .. up - 1 : a[k] <= pivot
    /\ \A k \in down + 1 .. ir : a[k] >= pivot
    /\ qpc = "up" => up < ir /\ l + 1 < down /\ a[up] <= pivot /\ a[down] >= pivot
    /\ qpc = "down" => l + 1 < up /\ l + 1 < down /\ a[up] >= pivot /\ a[down] >= pivot
    /\ qpc = "exchange" => l + 1 < up /\ down < ir /\ a[up] >= pivot /\ a[down] <= pivot

Ascends(s, lo, hi) == \A j, k \in lo .. hi : j < k => s[j] <= s[k]

InsertInv ==
  /\ qpc = "insert" => l < up /\ (up <= ir + 1 \/ up = l + 1) /\ Ascends(a, l, up - 1)
  /\ qpc = "sorted" => stackp = <<>> /\ Ascends(a, l, ir)

QsortInv ==
  /\ QsortTypeOK /\ PartsApart /\ Room
  /\ PartsInOrder /\ SameElements /\ ScanInv /\ InsertInv

------------------------------------------------------------------------------
(* Quicksort: what the actions have in common. *)

LEMMA PartFacts ==
  ASSUME QsortTypeOK
  PROVE  /\ Depth \in Nat /\ Len(a) \in Nat
         /\ \A q \in 0 .. Depth : Lo(q) \in Int /\ Hi(q) \in Int
         /\ Lo(0) = l /\ Hi(0) = ir
         /\ DOMAIN a = 1 .. Len(a) /\ \A k \in 1 .. Len(a) : a[k] \in Int
<1>1. stackp \in Seq(Int \X Int) /\ l \in Int /\ ir \in Int /\ a \in Seq(Elements)
  BY DEF QsortTypeOK
<1>2. \A q \in 1 .. Len(stackp) : stackp[q] \in Int \X Int
  BY <1>1
<1>3. \A q \in 1 .. Len(stackp) : stackp[q][1] \in Int /\ stackp[q][2] \in Int
  BY <1>2
<1>4. Elements \subseteq Int
  BY QsortAssumption
<1>5. Depth \in Nat /\ Len(a) \in Nat /\ DOMAIN a = 1 .. Len(a)
  BY <1>1 DEF Depth
<1>6. \A k \in 1 .. Len(a) : a[k] \in Int
  <2>1. \A k \in 1 .. Len(a) : a[k] \in Elements
    BY <1>1
  <2>. QED  BY <1>4, <2>1
<1>7. \A q \in 0 .. Depth : Lo(q) \in Int /\ Hi(q) \in Int
  <2>1. ASSUME NEW q \in 0 .. Depth  PROVE Lo(q) \in Int /\ Hi(q) \in Int
    <3>1. CASE q = 0
      BY <1>1, <3>1 DEF Lo, Hi
    <3>2. CASE q # 0
      <4>1. q \in 1 .. Len(stackp)
        BY <1>5, <3>2 DEF Depth
      <4>. QED  BY <1>3, <3>2, <4>1 DEF Lo, Hi
    <3>. QED  BY <3>1, <3>2
  <2>. QED  BY <2>1
<1>. QED  BY <1>5, <1>6, <1>7 DEF Lo, Hi

LEMMA TogetherIs ==
  ASSUME QsortTypeOK, NEW j \in Int, NEW k \in Int
  PROVE  Together(j, k) <=> \E q \in 0 .. Depth : /\ Lo(q) <= j /\ j <= Hi(q)
                                                /\ Lo(q) <= k /\ k <= Hi(q)
<1>1. stackp \in Seq(Int \X Int) /\ l \in Int /\ ir \in Int
  BY DEF QsortTypeOK
<1>2. \A q \in 1 .. Len(stackp) : stackp[q] \in Int \X Int
  BY <1>1
<1>3. \A q \in 1 .. Len(stackp) : stackp[q][1] \in Int /\ stackp[q][2] \in Int
  BY <1>2
<1>4. Parts = {<<l, ir>>} \cup {stackp[q] : q \in 1 .. Len(stackp)}
  BY <1>1 DEF Parts
<1>5. Together(j, k) <=> \/ j \in l .. ir /\ k \in l .. ir
                         \/ \E q \in 1 .. Len(stackp) : /\ j \in stackp[q][1] .. stackp[q][2]
                                                       /\ k \in stackp[q][1] .. stackp[q][2]
  <2>1. Together(j, k) <=> \E z \in Parts : j \in z[1] .. z[2] /\ k \in z[1] .. z[2]
    BY DEF Together
  <2>2. /\ <<l, ir>> \in Parts
        /\ \A q \in 1 .. Len(stackp) : stackp[q] \in Parts
        /\ \A z \in Parts : z = <<l, ir>> \/ \E q \in 1 .. Len(stackp) : z = stackp[q]
    BY <1>4
  <2>3. <<l, ir>>[1] = l /\ <<l, ir>>[2] = ir
    OBVIOUS
  <2>. QED  BY ONLY <2>1, <2>2, <2>3, Zenon
<1>6. Len(stackp) \in Nat
  BY <1>1
<1>. QED  BY <1>1, <1>3, <1>5, <1>6 DEF Depth, Lo, Hi

TogetherMeans ==
  \A j, k \in Int : Together(j, k) <=> \E q \in 0 .. Depth : /\ Lo(q) <= j /\ j <= Hi(q)
                                                           /\ Lo(q) <= k /\ k <= Hi(q)

LEMMA TogetherAll == QsortTypeOK => TogetherMeans
BY TogetherIs DEF TogetherMeans

\* Rearranging what is in hand disturbs no order with the elements around it.
LEMMA KeepsOrder ==
  ASSUME QsortTypeOK, PartsApart, PartsInOrder, NEW t, Rearranges(t, a, l, ir),
         NEW j \in 1 .. Len(a), NEW k \in 1 .. Len(a), j < k, ~Together(j, k),
         ~(l <= j /\ k <= ir)
  PROVE  t[j] <= t[k]
<1>. DEFINE n == Len(a)
<1>1. PICK f \in Orders(n, l, ir) : t = [i \in 1 .. n |-> a[f[i]]]
  BY DEF Rearranges
<1>2. /\ n \in Nat /\ l \in Int /\ ir \in Int
      /\ \A q \in 0 .. Depth : Lo(q) \in Int /\ Hi(q) \in Int
      /\ Lo(0) = l /\ Hi(0) = ir /\ 0 \in 0 .. Depth
  BY PartFacts DEF QsortTypeOK
<1>3. /\ \A i \in 1 .. n : f[i] \in 1 .. n
      /\ \A i \in 1 .. n : IF l <= i /\ i <= ir THEN l <= f[i] /\ f[i] <= ir ELSE f[i] = i
  <2>1. f \in [1 .. n -> 1 .. n] /\ \A i \in 1 .. n : IF i \in l .. ir THEN f[i] \in l .. ir ELSE f[i] = i
    BY <1>1 DEF Orders
  <2>. HIDE DEF n
  <2>. QED  BY <1>2, <2>1
<1>4. \A v, w \in 1 .. n : v < w /\ ~Together(v, w) => a[v] <= a[w]
  BY PartFacts DEF PartsInOrder
<1>5. t[j] = a[f[j]] /\ t[k] = a[f[k]]
  BY <1>1
<1>6. \A q \in 0 .. Depth : q # 0 => Hi(q) < l \/ ir < Lo(q)
  BY <1>2 DEF PartsApart
<1>. HIDE DEF n
<1>7. \A q \in 0 .. Depth : ~(Lo(q) <= j /\ j <= Hi(q) /\ Lo(q) <= k /\ k <= Hi(q))
  BY TogetherIs, <1>2 DEF n
<1>8. f[j] < f[k]
  BY <1>2, <1>3 DEF n
<1>9. ~Together(f[j], f[k])
  <2>1. SUFFICES ASSUME NEW q \in 0 .. Depth, Lo(q) <= f[j], f[j] <= Hi(q), Lo(q) <= f[k], f[k] <= Hi(q)
                 PROVE FALSE
    <3>1. f[j] \in Int /\ f[k] \in Int
      BY <1>2, <1>3 DEF n
    <3>. QED  BY <3>1, TogetherIs
  <2>2. CASE q = 0
    BY <1>2, <1>3, <2>1, <2>2 DEF n
  <2>3. CASE q # 0
    BY <1>2, <1>3, <1>6, <1>7, <2>1, <2>3 DEF n
  <2>. QED  BY <2>2, <2>3
<1>. QED  BY <1>3, <1>4, <1>5, <1>8, <1>9 DEF n

\* An action that rearranges what is in hand and leaves the subarrays.
LEMMA SameParts ==
  ASSUME QsortInv, Rearranges(a', a, l, ir), UNCHANGED <<l, ir, stackp, a0>>
  PROVE  /\ a' \in Seq(Elements) /\ Len(a') = Len(a) /\ DOMAIN a' = 1 .. Len(a)
         /\ PartsApart' /\ Room' /\ PartsInOrder' /\ SameElements'
<1>1. a \in Seq(Elements)
  BY DEF QsortInv, QsortTypeOK
<1>2. a' \in Seq(Elements) /\ Len(a') = Len(a) /\ DOMAIN a' = 1 .. Len(a) /\ DOMAIN a = 1 .. Len(a)
  BY <1>1, RearrangeType
<1>3. Depth' = Depth /\ \A q : Lo(q)' = Lo(q) /\ Hi(q)' = Hi(q)
  BY DEF Depth, Lo, Hi
<1>4. PartsApart' /\ Room'
  BY <1>2, <1>3, Zenon DEF QsortInv, PartsApart, Room
<1>5. PartsInOrder'
  <2>1. \A j, k : Together(j, k)' <=> Together(j, k)
    BY DEF Together, Parts
  <2>2. ASSUME NEW j \in 1 .. Len(a), NEW k \in 1 .. Len(a), j < k, ~Together(j, k)
        PROVE  a'[j] <= a'[k]
    <3>1. ~(l <= j /\ k <= ir)
      BY <2>2, TogetherIs, PartFacts DEF QsortInv
    <3>. QED  BY <2>2, <3>1, KeepsOrder DEF QsortInv
  <2>. QED  BY <1>2, <2>1, <2>2 DEF PartsInOrder
<1>6. SameElements'
  <2>1. \A v : Occurs(a', v) = Occurs(a, v)
    BY <1>1, SameOccurs
  <2>2. \A v \in Elements : Occurs(a, v) = Occurs(a0, v)
    BY DEF QsortInv, SameElements
  <2>. QED  BY <2>1, <2>2 DEF SameElements
<1>. QED  BY <1>2, <1>4, <1>5, <1>6

------------------------------------------------------------------------------
(* Quicksort: insertion sort, and the median of three. *)

LEMMA IntElements ==
  ASSUME NEW S \in SUBSET Int, NEW s \in Seq(S)
  PROVE  Len(s) \in Nat /\ DOMAIN s = 1 .. Len(s) /\ \A k \in 1 .. Len(s) : s[k] \in Int
<1>1. \A k \in 1 .. Len(s) : s[k] \in S
  OBVIOUS
<1>2. \A k \in 1 .. Len(s) : s[k] \in Int
  BY <1>1
<1>. QED  BY <1>2

LEMMA InsertionPoint ==
  ASSUME NEW S \in SUBSET Int, NEW s \in Seq(S), NEW lo \in Int, NEW u \in Int,
         1 <= lo, lo < u, u <= Len(s)
  PROVE  \E z \in lo .. u : /\ \A k \in z .. u - 1 : s[u] < s[k]
                            /\ z > lo => s[u] >= s[z - 1]
<1>. DEFINE T == {z \in lo .. u : \A k \in z .. u - 1 : s[u] < s[k]}
<1>1. \A k \in lo .. u : s[k] \in Int
  <2>1. \A k \in lo .. u : k \in 1 .. Len(s)
    OBVIOUS
  <2>. QED  BY <2>1, IntElements
<1>2. u \in T /\ T \in SUBSET Nat
  OBVIOUS
<1>. HIDE DEF T
<1>3. PICK z \in T : \A q \in T : z <= q
  BY <1>2, LeastOf
<1>4. z \in lo .. u /\ \A k \in z .. u - 1 : s[u] < s[k]
  BY <1>3 DEF T
<1>5. ASSUME z > lo, s[u] < s[z - 1]  PROVE FALSE
  <2>1. z - 1 \in lo .. u
    BY <1>4, <1>5
  <2>2. \A k \in (z - 1) .. u - 1 : s[u] < s[k]
    BY <1>4, <1>5
  <2>3. z - 1 \in T
    BY <2>1, <2>2 DEF T
  <2>. QED  BY <1>3, <1>4, <2>3
<1>6. z > lo => s[u] >= s[z - 1]
  BY <1>1, <1>4, <1>5
<1>. QED  BY <1>4, <1>6

Inserted(s, at, u) ==
  [k \in DOMAIN s |-> IF k = at THEN s[u] ELSE IF k \in at + 1 .. u THEN s[k - 1] ELSE s[k]]

LEMMA InsertionStep ==
  ASSUME NEW S \in SUBSET Int, NEW s \in Seq(S), NEW lo \in Int, NEW u \in Int, NEW hi \in Int,
         1 <= lo, lo < u, u <= hi, hi <= Len(s), Ascends(s, lo, u - 1),
         NEW at \in lo .. u, \A k \in at .. u - 1 : s[u] < s[k], at > lo => s[u] >= s[at - 1]
  PROVE  Rearranges(Inserted(s, at, u), s, lo, hi) /\ Ascends(Inserted(s, at, u), lo, u)
<1>. DEFINE n == Len(s)
            t == Inserted(s, at, u)
            f == [k \in 1 .. n |-> IF k = at THEN u ELSE IF k \in at + 1 .. u THEN k - 1 ELSE k]
<1>1. n \in Nat /\ DOMAIN s = 1 .. n
  OBVIOUS
<1>2. \A k \in 1 .. n : s[k] \in Int
  BY IntElements
<1>3. hi <= n /\ 1 <= lo /\ lo <= at /\ at <= u /\ u <= hi /\ lo < u /\ at \in Int
  OBVIOUS
<1>. HIDE DEF n
<1>4. \A k \in 1 .. n : f[k] = IF k = at THEN u ELSE IF at < k /\ k <= u THEN k - 1 ELSE k
  BY <1>1, <1>3
<1>5. f \in [1 .. n -> 1 .. n]
  BY <1>1, <1>3
<1>6. t = [k \in 1 .. n |-> s[f[k]]]
  <2>1. t = [k \in 1 .. n |-> IF k = at THEN s[u] ELSE IF k \in at + 1 .. u THEN s[k - 1] ELSE s[k]]
    BY <1>1, Zenon DEF Inserted
  <2>2. \A k \in 1 .. n : (IF k = at THEN s[u] ELSE IF k \in at + 1 .. u THEN s[k - 1] ELSE s[k]) = s[f[k]]
    OBVIOUS
  <2>. QED  BY <2>1, <2>2, Zenon
<1>. HIDE DEF f, t
<1>7. f \in Orders(n, lo, hi)
  <2>1. \A i, j \in 1 .. n : f[i] = f[j] => i = j
    BY <1>1, <1>3, <1>4
  <2>2. ASSUME NEW j \in 1 .. n  PROVE \E i \in 1 .. n : f[i] = j
    <3>1. CASE j = u
      BY <1>1, <1>3, <1>4, <3>1
    <3>2. CASE at <= j /\ j < u
      <4>1. j + 1 \in 1 .. n /\ f[j + 1] = j
        BY <1>1, <1>3, <1>4, <3>2
      <4>. QED  BY <4>1
    <3>3. CASE j < at \/ u < j
      <4>1. f[j] = j
        BY <1>1, <1>3, <1>4, <3>3
      <4>. QED  BY <4>1
    <3>. QED  BY <1>1, <1>3, <3>1, <3>2, <3>3
  <2>3. \A i \in 1 .. n : IF i \in lo .. hi THEN f[i] \in lo .. hi ELSE f[i] = i
    BY <1>1, <1>3, <1>4
  <2>. QED  BY <1>5, <2>1, <2>2, <2>3 DEF Orders
<1>8. Rearranges(t, s, lo, hi)
  BY <1>6, <1>7 DEF Rearranges, n
<1>9. \A i, j \in lo .. u - 1 : i < j => s[i] <= s[j]
  BY DEF Ascends
<1>10. ASSUME NEW i \in lo .. u, NEW j \in lo .. u, i < j  PROVE t[i] <= t[j]
  <2>1. i \in 1 .. n /\ j \in 1 .. n
    BY <1>1, <1>3
  <2>2. t[i] = s[f[i]] /\ t[j] = s[f[j]]
    BY <1>6, <2>1
  <2>3. ASSUME NEW k \in lo .. at - 1  PROVE s[k] <= s[u]
    <3>1. at > lo /\ at - 1 \in lo .. u - 1 /\ k \in lo .. u - 1
      BY <1>3
    <3>2. s[k] <= s[at - 1]
      <4>1. CASE k = at - 1
        <5>1. at - 1 \in 1 .. n
          BY <1>1, <1>3, <3>1
        <5>2. s[at - 1] \in Int
          BY <1>2, <5>1
        <5>. QED  BY <4>1, <5>2
      <4>2. CASE k # at - 1
        BY <1>9, <3>1, <4>2
      <4>. QED  BY <4>1, <4>2
    <3>3. k \in 1 .. n /\ u \in 1 .. n /\ at - 1 \in 1 .. n
      BY <1>1, <1>3, <3>1
    <3>. QED  BY <1>2, <3>1, <3>2, <3>3
  <2>4. CASE i = at
    <3>1. f[i] = u /\ f[j] = j - 1 /\ j - 1 \in at .. u - 1
      BY <1>3, <1>4, <1>10, <2>1, <2>4
    <3>2. u \in 1 .. n /\ j - 1 \in 1 .. n
      BY <1>1, <1>3, <3>1
    <3>. QED  BY <1>2, <2>2, <3>1, <3>2
  <2>5. CASE j = at
    <3>1. f[i] = i /\ f[j] = u /\ i \in lo .. at - 1
      BY <1>3, <1>4, <1>10, <2>1, <2>5
    <3>. QED  BY <2>2, <2>3, <3>1
  <2>6. CASE i # at /\ j # at
    <3>1. f[i] \in lo .. u - 1 /\ f[j] \in lo .. u - 1 /\ f[i] < f[j]
      BY <1>3, <1>4, <1>10, <2>1, <2>6
    <3>. QED  BY <1>9, <2>2, <3>1
  <2>. QED  BY <2>4, <2>5, <2>6
<1>11. Ascends(t, lo, u)
  BY <1>10 DEF Ascends
<1>. QED  BY <1>8, <1>11 DEF t

LEMMA SwapIfGreaterFacts ==
  ASSUME NEW S \in SUBSET Int, NEW s \in Seq(S), NEW lo \in Int, NEW hi \in Int, 1 <= lo, hi <= Len(s),
         NEW v \in lo .. hi, NEW w \in lo .. hi, v < w
  PROVE  /\ Rearranges(SwapIfGreater(s, v, w), s, lo, hi)
         /\ SwapIfGreater(s, v, w)[v] <= SwapIfGreater(s, v, w)[w]
         /\ SwapIfGreater(s, v, w)[v] <= s[v] /\ SwapIfGreater(s, v, w)[v] <= s[w]
         /\ SwapIfGreater(s, v, w)[w] >= s[v] /\ SwapIfGreater(s, v, w)[w] >= s[w]
         /\ \A k \in 1 .. Len(s) : k # v /\ k # w => SwapIfGreater(s, v, w)[k] = s[k]
<1>1. v \in 1 .. Len(s) /\ w \in 1 .. Len(s)
  OBVIOUS
<1>2. s[v] \in Int /\ s[w] \in Int
  BY <1>1, IntElements
<1>3. CASE s[v] > s[w]
  <2>1. SwapIfGreater(s, v, w) = Swap(s, v, w)
    BY <1>3 DEF SwapIfGreater
  <2>2. Swap(s, v, w) = [i \in 1 .. Len(s) |-> IF i = w THEN s[v] ELSE IF i = v THEN s[w] ELSE s[i]]
    BY SwapRearranges
  <2>3. Rearranges(Swap(s, v, w), s, lo, hi)
    BY SwapRearranges
  <2>. DEFINE t == Swap(s, v, w)
  <2>4. t[v] = s[w] /\ t[w] = s[v] /\ \A k \in 1 .. Len(s) : k # v /\ k # w => t[k] = s[k]
    BY <1>1, <2>2
  <2>. QED  BY <1>2, <1>3, <2>1, <2>3, <2>4
<1>4. CASE ~(s[v] > s[w])
  <2>1. SwapIfGreater(s, v, w) = s
    BY <1>4 DEF SwapIfGreater
  <2>. QED  BY <1>2, <1>4, <2>1, RearrangeRefl
<1>. QED  BY <1>3, <1>4

------------------------------------------------------------------------------
(* Quicksort: the actions. *)

LEMMA ShortPreserves ==
  ASSUME QsortInv, Short
  PROVE  QsortInv'
<1>1. /\ qpc' = "insert" /\ up' = l + 1 /\ a' = a
      /\ UNCHANGED <<a, a0, l, ir, down, pivot, stackp>>
  BY DEF Short
<1>2. Rearranges(a', a, l, ir)
  BY <1>1, RearrangeRefl DEF QsortInv, QsortTypeOK
<1>3. PartsApart' /\ Room' /\ PartsInOrder' /\ SameElements'
  BY <1>1, <1>2, SameParts
<1>4. l \in Int /\ ir \in Int
  BY DEF QsortInv, QsortTypeOK
<1>5. QsortTypeOK'
  BY <1>1, <1>4 DEF QsortInv, QsortTypeOK
<1>6. ScanInv'
  BY <1>1 DEF ScanInv
<1>7. InsertInv'
  BY <1>1, <1>4 DEF InsertInv, Ascends
<1>. QED  BY <1>3, <1>5, <1>6, <1>7 DEF QsortInv

LEMMA InsertionPreserves ==
  ASSUME QsortInv, insertion_sort
  PROVE  QsortInv'
<1>. DEFINE at == CHOOSE z \in l .. up :
                    /\ \A k \in z .. up - 1 : a[up] < a[k]
                    /\ z > l => a[up] >= a[z - 1]
<1>1. /\ qpc = "insert" /\ up <= ir /\ up' = up + 1 /\ a' = Inserted(a, at, up)
      /\ UNCHANGED <<a0, l, ir, down, pivot, stackp, qpc>>
  BY DEF insertion_sort, Inserted
<1>2. /\ a \in Seq(Elements) /\ Elements \in SUBSET Int
      /\ l \in Int /\ ir \in Int /\ up \in Int
  BY QsortAssumption DEF QsortInv, QsortTypeOK
<1>3. l < up /\ Ascends(a, l, up - 1)
  BY <1>1 DEF QsortInv, InsertInv
<1>4. 1 <= l /\ ir <= Len(a)
  BY PartFacts DEF QsortInv, PartsApart
<1>5. /\ at \in l .. up
      /\ \A k \in at .. up - 1 : a[up] < a[k]
      /\ at > l => a[up] >= a[at - 1]
  <2>1. \E z \in l .. up : /\ \A k \in z .. up - 1 : a[up] < a[k]
                           /\ z > l => a[up] >= a[z - 1]
    <3>1. up <= Len(a)
      BY <1>1, <1>2, <1>4
    <3>. QED  BY <1>2, <1>3, <1>4, <3>1, InsertionPoint
  <2>. QED  BY <2>1, Zenon
<1>. HIDE DEF at
<1>6. Rearranges(a', a, l, ir) /\ Ascends(a', l, up)
  BY <1>1, <1>2, <1>3, <1>4, <1>5, InsertionStep
<1>7. a' \in Seq(Elements) /\ PartsApart' /\ Room' /\ PartsInOrder' /\ SameElements'
  BY <1>1, <1>6, SameParts
<1>8. QsortTypeOK'
  BY <1>1, <1>2, <1>7 DEF QsortInv, QsortTypeOK
<1>9. ScanInv'
  BY <1>1 DEF ScanInv
<1>10. InsertInv'
  <2>1. up' - 1 = up
    BY <1>1, <1>2
  <2>. QED  BY <1>1, <1>2, <1>3, <1>6, <2>1 DEF InsertInv
<1>. QED  BY <1>7, <1>8, <1>9, <1>10 DEF QsortInv

LEMMA ChoosePreserves ==
  ASSUME QsortInv, Choose
  PROVE  QsortInv'
<1>. DEFINE s0 == Swap(a, (l + ir) \div 2, l + 1)
            s1 == SwapIfGreater(s0, l, ir)
            s2 == SwapIfGreater(s1, l + 1, ir)
            s3 == SwapIfGreater(s2, l, l + 1)
            mid == (l + ir) \div 2
<1>1. /\ qpc = "round" /\ ir - l >= Threshold /\ a' = s3
      /\ pivot' = a'[l + 1] /\ up' = l + 1 /\ down' = ir /\ qpc' = "up"
      /\ UNCHANGED <<a0, l, ir, stackp>>
  BY DEF Choose
<1>2. /\ a \in Seq(Elements) /\ Elements \in SUBSET Int
      /\ l \in Int /\ ir \in Int
  BY QsortAssumption DEF QsortInv, QsortTypeOK
<1>3. 1 <= l /\ ir <= Len(a) /\ l + 2 <= ir
  BY <1>1, <1>2, PartFacts, QsortAssumption DEF QsortInv, PartsApart
<1>4. mid \in l .. ir /\ l \in l .. ir /\ l + 1 \in l .. ir /\ ir \in l .. ir /\ l < ir /\ l + 1 < ir /\ l < l + 1
  BY <1>2, <1>3
<1>. HIDE DEF mid
<1>5. Rearranges(s0, a, l, ir)
  BY <1>2, <1>3, <1>4, SwapRearranges DEF mid
<1>. HIDE DEF s0
<1>6. s0 \in Seq(Elements) /\ Len(s0) = Len(a)
  BY <1>2, <1>5, RearrangeType
<1>7. Rearranges(s1, s0, l, ir) /\ s1[l] <= s1[ir]
  BY <1>2, <1>3, <1>4, <1>6, SwapIfGreaterFacts
<1>. HIDE DEF s1
<1>8. s1 \in Seq(Elements) /\ Len(s1) = Len(a)
  BY <1>6, <1>7, RearrangeType
<1>9. /\ Rearranges(s2, s1, l, ir) /\ s2[l + 1] <= s2[ir] /\ s1[ir] <= s2[ir]
      /\ \A k \in 1 .. Len(s1) : k # l + 1 /\ k # ir => s2[k] = s1[k]
  BY <1>2, <1>3, <1>4, <1>8, SwapIfGreaterFacts
<1>. HIDE DEF s2
<1>10. s2 \in Seq(Elements) /\ Len(s2) = Len(a)
  BY <1>8, <1>9, RearrangeType
<1>11. /\ Rearranges(s3, s2, l, ir) /\ s3[l] <= s3[l + 1]
       /\ \A k \in 1 .. Len(s2) : k # l /\ k # l + 1 => s3[k] = s2[k]
       /\ s3[l + 1] = s2[l] \/ s3[l + 1] = s2[l + 1]
  <2>1. s3[l + 1] = s2[l] \/ s3[l + 1] = s2[l + 1]
    <3>1. l \in 1 .. Len(s2) /\ l + 1 \in 1 .. Len(s2) /\ DOMAIN s2 = 1 .. Len(s2)
      BY <1>2, <1>3, <1>10
    <3>. QED  BY <3>1 DEF SwapIfGreater, Swap
  <2>. HIDE DEF s3
  <2>2. /\ Rearranges(s3, s2, l, ir) /\ s3[l] <= s3[l + 1]
        /\ \A k \in 1 .. Len(s2) : k # l /\ k # l + 1 => s3[k] = s2[k]
    BY <1>2, <1>3, <1>4, <1>10, SwapIfGreaterFacts DEF s3
  <2>. QED  BY <2>1, <2>2
<1>. HIDE DEF s3
<1>12. Rearranges(a', a, l, ir)
  <2>1. Rearranges(s1, a, l, ir)
    BY <1>2, <1>5, <1>7, RearrangeTrans
  <2>2. Rearranges(s2, a, l, ir)
    BY <1>2, <1>9, <2>1, RearrangeTrans
  <2>3. Rearranges(s3, a, l, ir)
    BY <1>2, <1>11, <2>2, RearrangeTrans
  <2>. QED  BY <1>1, <2>3
<1>13. a'[l] <= a'[l + 1] /\ a'[l + 1] <= a'[ir]
  <2>1. l \in 1 .. Len(a) /\ ir \in 1 .. Len(a) /\ l + 1 \in 1 .. Len(a) /\ ir # l /\ ir # l + 1
    BY <1>2, <1>3
  <2>2. s3[ir] = s2[ir] /\ s2[l] = s1[l]
    BY <1>8, <1>9, <1>10, <1>11, <2>1, <1>2
  <2>3. s1[l] \in Int /\ s1[ir] \in Int /\ s2[ir] \in Int /\ s2[l + 1] \in Int
    BY <1>2, <1>8, <1>10, <2>1, IntElements
  <2>. QED  BY <1>1, <1>7, <1>9, <1>11, <2>2, <2>3
<1>14. /\ a' \in Seq(Elements) /\ Len(a') = Len(a)
       /\ PartsApart' /\ Room' /\ PartsInOrder' /\ SameElements'
  BY <1>1, <1>12, SameParts
<1>15. a'[l] \in Int /\ a'[l + 1] \in Int /\ a'[ir] \in Int
  <2>1. l \in 1 .. Len(a') /\ ir \in 1 .. Len(a') /\ l + 1 \in 1 .. Len(a')
    BY <1>2, <1>3, <1>14
  <2>. QED  BY <1>2, <1>14, <2>1, IntElements
<1>16. QsortTypeOK'
  BY <1>1, <1>2, <1>14, <1>15 DEF QsortInv, QsortTypeOK
<1>17. ScanInv'
  <2>1. \A k \in l .. up' - 1 : k = l
    BY <1>1, <1>2
  <2>2. \A k \in ir + 1 .. ir : FALSE
    BY <1>2
  <2>3. /\ l + 2 <= ir /\ l < up' /\ up' <= ir /\ l < ir /\ up' < ir /\ l + 1 < ir /\ a'[up'] <= pivot'
        /\ a'[ir] >= pivot' /\ a'[l + 1] = pivot' /\ a'[l] <= pivot'
    BY <1>1, <1>2, <1>3, <1>13, <1>15
  <2>. QED  BY <1>1, <2>1, <2>2, <2>3, <1>2 DEF ScanInv
<1>18. InsertInv'
  BY <1>1 DEF InsertInv
<1>. QED  BY <1>14, <1>16, <1>17, <1>18 DEF QsortInv

\* What all three of the scanning actions start from.
LEMMA ScanFacts ==
  ASSUME QsortInv, qpc \in {"up", "down", "exchange"}
  PROVE  /\ a \in Seq(Elements) /\ Elements \in SUBSET Int
         /\ l \in Int /\ ir \in Int /\ up \in Int /\ down \in Int /\ pivot \in Int
         /\ 1 <= l /\ ir <= Len(a) /\ Len(a) \in Nat
         /\ \A k \in l .. ir : k \in 1 .. Len(a) /\ a[k] \in Int
         /\ l + 2 <= ir /\ l < up /\ up <= ir /\ l < down /\ down <= ir
         /\ a[l + 1] = pivot
         /\ \A k \in l .. up - 1 : a[k] <= pivot
         /\ \A k \in down + 1 .. ir : a[k] >= pivot
<1>1. /\ a \in Seq(Elements) /\ Elements \in SUBSET Int
      /\ l \in Int /\ ir \in Int /\ up \in Int /\ down \in Int /\ pivot \in Int
  BY QsortAssumption DEF QsortInv, QsortTypeOK
<1>2. 1 <= l /\ ir <= Len(a) /\ Len(a) \in Nat
  BY PartFacts DEF QsortInv, PartsApart
<1>3. \A k \in l .. ir : k \in 1 .. Len(a)
  BY <1>1, <1>2
<1>4. \A k \in l .. ir : a[k] \in Int
  BY <1>1, <1>3, IntElements
<1>5. ScanInv
  BY DEF QsortInv
<1>. QED  BY <1>1, <1>2, <1>3, <1>4, <1>5 DEF ScanInv

LEMMA ScanUpPreserves ==
  ASSUME QsortInv, ScanUp
  PROVE  QsortInv'
<1>1. /\ qpc = "up" /\ up' = up + 1 /\ a' = a
      /\ qpc' = IF a[up + 1] < pivot THEN "up" ELSE "down"
      /\ UNCHANGED <<a, a0, l, ir, down, pivot, stackp>>
  BY DEF ScanUp
<1>2. Rearranges(a', a, l, ir)
  BY <1>1, RearrangeRefl DEF QsortInv, QsortTypeOK
<1>3. PartsApart' /\ Room' /\ PartsInOrder' /\ SameElements'
  BY <1>1, <1>2, SameParts
<1>4. QsortTypeOK'
  BY <1>1 DEF QsortInv, QsortTypeOK
<1>5. ScanInv'
  <2>1. /\ l \in Int /\ ir \in Int /\ up \in Int /\ down \in Int /\ pivot \in Int
        /\ \A k \in l .. ir : a[k] \in Int
        /\ l + 2 <= ir /\ l < up /\ up <= ir /\ l < down /\ down <= ir
        /\ a[l + 1] = pivot
        /\ \A k \in l .. up - 1 : a[k] <= pivot
        /\ \A k \in down + 1 .. ir : a[k] >= pivot
    BY <1>1, ScanFacts
  <2>2. up < ir /\ l + 1 < down /\ a[up] <= pivot /\ a[down] >= pivot
    BY <1>1 DEF QsortInv, ScanInv
  <2>3. a[ir] >= pivot
    BY <2>1, <2>2
  <2>4. \A k \in l .. up' - 1 : a[k] <= pivot
    BY <1>1, <2>1, <2>2
  <2>5. a[up + 1] \in Int
    BY <2>1, <2>2
  <2>6. CASE a[up + 1] < pivot
    <3>1. up + 1 # ir
      BY <2>1, <2>3, <2>6
    <3>. QED  BY <1>1, <2>1, <2>2, <2>4, <2>5, <2>6, <3>1 DEF ScanInv
  <2>7. CASE ~(a[up + 1] < pivot)
    BY <1>1, <2>1, <2>2, <2>4, <2>5, <2>7 DEF ScanInv
  <2>. QED  BY <2>6, <2>7
<1>6. InsertInv'
  BY <1>1 DEF InsertInv
<1>. QED  BY <1>3, <1>4, <1>5, <1>6 DEF QsortInv

LEMMA ScanDownPreserves ==
  ASSUME QsortInv, ScanDown
  PROVE  QsortInv'
<1>1. /\ qpc = "down" /\ down' = down - 1 /\ a' = a
      /\ qpc' = IF a[down - 1] > pivot THEN "down" ELSE "exchange"
      /\ UNCHANGED <<a, a0, l, ir, up, pivot, stackp>>
  BY DEF ScanDown
<1>2. Rearranges(a', a, l, ir)
  BY <1>1, RearrangeRefl DEF QsortInv, QsortTypeOK
<1>3. PartsApart' /\ Room' /\ PartsInOrder' /\ SameElements'
  BY <1>1, <1>2, SameParts
<1>4. QsortTypeOK'
  BY <1>1 DEF QsortInv, QsortTypeOK
<1>5. ScanInv'
  <2>1. /\ l \in Int /\ ir \in Int /\ up \in Int /\ down \in Int /\ pivot \in Int
        /\ \A k \in l .. ir : a[k] \in Int
        /\ l + 2 <= ir /\ l < up /\ up <= ir /\ l < down /\ down <= ir
        /\ a[l + 1] = pivot
        /\ \A k \in l .. up - 1 : a[k] <= pivot
        /\ \A k \in down + 1 .. ir : a[k] >= pivot
    BY <1>1, ScanFacts
  <2>2. l + 1 < up /\ l + 1 < down /\ a[up] >= pivot /\ a[down] >= pivot
    BY <1>1 DEF QsortInv, ScanInv
  <2>3. \A k \in down' + 1 .. ir : a[k] >= pivot
    BY <1>1, <2>1, <2>2
  <2>4. a[down - 1] \in Int
    BY <2>1, <2>2
  <2>5. CASE a[down - 1] > pivot
    <3>1. down - 1 # l + 1
      BY <2>1, <2>5
    <3>. QED  BY <1>1, <2>1, <2>2, <2>3, <2>4, <2>5, <3>1 DEF ScanInv
  <2>6. CASE ~(a[down - 1] > pivot)
    BY <1>1, <2>1, <2>2, <2>3, <2>4, <2>6 DEF ScanInv
  <2>. QED  BY <2>5, <2>6
<1>6. InsertInv'
  BY <1>1 DEF InsertInv
<1>. QED  BY <1>3, <1>4, <1>5, <1>6 DEF QsortInv

LEMMA ExchangePreserves ==
  ASSUME QsortInv, Exchange
  PROVE  QsortInv'
<1>1. /\ qpc = "exchange" /\ down >= up /\ qpc' = "up" /\ a' = Swap(a, up, down)
      /\ UNCHANGED <<a0, l, ir, up, down, pivot, stackp>>
  BY DEF Exchange
<1>2. /\ a \in Seq(Elements) /\ Elements \in SUBSET Int
      /\ l \in Int /\ ir \in Int /\ up \in Int /\ down \in Int /\ pivot \in Int
      /\ 1 <= l /\ ir <= Len(a) /\ Len(a) \in Nat
      /\ \A k \in l .. ir : k \in 1 .. Len(a) /\ a[k] \in Int
      /\ l + 2 <= ir /\ l < up /\ up <= ir /\ l < down /\ down <= ir
      /\ a[l + 1] = pivot
      /\ \A k \in l .. up - 1 : a[k] <= pivot
      /\ \A k \in down + 1 .. ir : a[k] >= pivot
  BY <1>1, ScanFacts
<1>3. l + 1 < up /\ down < ir /\ a[up] >= pivot /\ a[down] <= pivot
  BY <1>1 DEF QsortInv, ScanInv
<1>4. up \in l .. ir /\ down \in l .. ir
  BY <1>2
<1>5. /\ Rearranges(a', a, l, ir)
      /\ a' = [i \in 1 .. Len(a) |-> IF i = down THEN a[up] ELSE IF i = up THEN a[down] ELSE a[i]]
  BY <1>1, <1>2, <1>4, SwapRearranges
<1>6. a' \in Seq(Elements) /\ PartsApart' /\ Room' /\ PartsInOrder' /\ SameElements'
  BY <1>1, <1>5, SameParts
<1>7. QsortTypeOK'
  BY <1>1, <1>6 DEF QsortInv, QsortTypeOK
<1>8. ScanInv'
  <2>1. \A k \in l .. ir : a'[k] = IF k = down THEN a[up] ELSE IF k = up THEN a[down] ELSE a[k]
    BY <1>2, <1>5
  <2>2. \A k \in l .. up - 1 : a'[k] <= pivot
    BY <1>1, <1>2, <2>1
  <2>3. \A k \in down + 1 .. ir : a'[k] >= pivot
    BY <1>1, <1>2, <2>1
  <2>4. a'[l + 1] = pivot
    BY <1>1, <1>2, <1>3, <2>1
  <2>5. a'[up] <= pivot /\ a'[down] >= pivot
    <3>1. a[up] \in Int /\ a[down] \in Int
      BY <1>2, <1>4
    <3>. QED  BY <1>2, <1>3, <1>4, <2>1, <3>1
  <2>. QED  BY <1>1, <1>2, <1>3, <2>2, <2>3, <2>4, <2>5 DEF ScanInv
<1>9. InsertInv'
  BY <1>1 DEF InsertInv
<1>. QED  BY <1>6, <1>7, <1>8, <1>9 DEF QsortInv

LEMMA PopPreserves ==
  ASSUME QsortInv, Pop
  PROVE  QsortInv'
<1>1. qpc = "insert" /\ up > ir /\ a' = a /\ UNCHANGED <<a, a0, up, down, pivot>>
  BY DEF Pop
<1>2. /\ a \in Seq(Elements) /\ stackp \in Seq(Int \X Int)
      /\ l \in Int /\ ir \in Int /\ up \in Int
  BY DEF QsortInv, QsortTypeOK
<1>3. Ascends(a, l, ir)
  <2>1. l < up /\ (up <= ir + 1 \/ up = l + 1) /\ Ascends(a, l, up - 1)
    BY <1>1 DEF QsortInv, InsertInv
  <2>2. ir <= up - 1
    BY <1>1, <1>2
  <2>. QED  BY <1>2, <2>1, <2>2 DEF Ascends
<1>4. CASE stackp = <<>>
  <2>1. qpc' = "sorted" /\ UNCHANGED <<l, ir, stackp>>
    BY <1>4 DEF Pop
  <2>2. Rearranges(a', a, l, ir)
    BY <1>1, <1>2, RearrangeRefl
  <2>3. PartsApart' /\ Room' /\ PartsInOrder' /\ SameElements'
    BY <1>1, <2>1, <2>2, SameParts
  <2>4. QsortTypeOK'
    BY <1>1, <2>1 DEF QsortInv, QsortTypeOK
  <2>5. ScanInv' /\ InsertInv'
    BY <1>1, <1>3, <1>4, <2>1 DEF ScanInv, InsertInv, Ascends
  <2>. QED  BY <2>3, <2>4, <2>5 DEF QsortInv
<1>5. CASE stackp # <<>>
  <2>1. l' = Head(stackp)[1] /\ ir' = Head(stackp)[2] /\ stackp' = Tail(stackp) /\ qpc' = "round"
    BY <1>5 DEF Pop
  <2>2. /\ Depth \in Nat \ {0} /\ Depth' = Depth - 1 /\ stackp' \in Seq(Int \X Int)
        /\ Head(stackp) = stackp[1]
        /\ \A q \in 1 .. Depth - 1 : stackp'[q] = stackp[q + 1]
    BY <1>2, <1>5, <2>1 DEF Depth
  <2>3. \A q \in 0 .. Depth' : Lo(q)' = Lo(q + 1) /\ Hi(q)' = Hi(q + 1)
    <3>1. \A q : Lo(q)' = (IF q = 0 THEN l' ELSE stackp'[q][1]) /\ Hi(q)' = (IF q = 0 THEN ir' ELSE stackp'[q][2])
      BY DEF Lo, Hi
    <3>2. \A q \in 0 .. Depth' : Lo(q + 1) = stackp[q + 1][1] /\ Hi(q + 1) = stackp[q + 1][2]
      BY <2>2 DEF Lo, Hi
    <3>3. \A q \in 0 .. Depth' : q # 0 => q \in 1 .. Depth - 1
      BY <2>2
    <3>4. ASSUME NEW q \in 0 .. Depth'  PROVE Lo(q)' = Lo(q + 1) /\ Hi(q)' = Hi(q + 1)
      <4>1. CASE q = 0
        <5>1. 0 + 1 = 1
          OBVIOUS
        <5>. QED  BY <2>1, <2>2, <3>1, <3>2, <3>4, <4>1, <5>1
      <4>2. CASE q # 0
        BY <2>2, <3>1, <3>2, <3>3, <3>4, <4>2
      <4>. QED  BY <4>1, <4>2
    <3>. QED  BY <3>4
  <2>4. \A q \in 0 .. Depth : Lo(q) \in Int /\ Hi(q) \in Int
    BY PartFacts DEF QsortInv
  <2>5. \A q \in 0 .. Depth' : q + 1 \in 0 .. Depth /\ q + 1 # 0
    BY <2>2
  <2>6. l' \in Int /\ ir' \in Int
    BY <2>1, <2>2, <1>2 DEF Depth
  <2>7. QsortTypeOK'
    BY <1>1, <2>1, <2>2, <2>6 DEF QsortInv, QsortTypeOK
  <2>8. PartsApart'
    <3>1. PartsApart
      BY DEF QsortInv
    <3>2. \A q \in 0 .. Depth' : 1 <= Lo(q)' /\ Lo(q)' <= Hi(q)' + 1 /\ Hi(q)' <= Len(a')
      BY <1>1, <2>3, <2>5, <3>1 DEF PartsApart
    <3>3. ASSUME NEW q \in 0 .. Depth', NEW r \in 0 .. Depth', q # r
          PROVE  Hi(q)' < Lo(r)' \/ Hi(r)' < Lo(q)'
      <4>1. q + 1 # r + 1
        BY <2>2, <3>3
      <4>2. Hi(q + 1) < Lo(r + 1) \/ Hi(r + 1) < Lo(q + 1)
        BY <2>5, <3>1, <4>1 DEF PartsApart
      <4>. QED  BY <2>3, <4>2
    <3>. QED  BY <3>2, <3>3 DEF PartsApart
  <2>9. Room'
    <3>1. ASSUME NEW q \in 0 .. Depth'
          PROVE  (Hi(q)' - Lo(q)' + 1) * Pow2[IF q = 0 THEN Depth' ELSE Depth' - q] <= Len(a')
      <4>1. (Hi(q + 1) - Lo(q + 1) + 1) * Pow2[Depth - (q + 1)] <= Len(a)
        BY <2>5 DEF QsortInv, Room
      <4>2. Depth - (q + 1) = IF q = 0 THEN Depth' ELSE Depth' - q
        BY <2>2
      <4>. QED  BY <1>1, <2>3, <4>1, <4>2
    <3>. QED  BY <3>1 DEF Room
  <2>10. PartsInOrder'
    <3>1. ASSUME NEW j \in 1 .. Len(a), NEW k \in 1 .. Len(a), j < k, ~Together(j, k)'
          PROVE  a[j] <= a[k]
      <4>1. \A q \in 0 .. Depth' : ~(/\ Lo(q)' <= j /\ j <= Hi(q)'
                                     /\ Lo(q)' <= k /\ k <= Hi(q)')
        <5>1. (QsortTypeOK => TogetherMeans)'
          BY TogetherAll, PTL
        <5>2. j \in Int /\ k \in Int
          BY <1>2
        <5>. QED  BY <2>7, <3>1, <5>1, <5>2 DEF TogetherMeans
      <4>2. \A q \in 1 .. Depth : ~(Lo(q) <= j /\ j <= Hi(q) /\ Lo(q) <= k /\ k <= Hi(q))
        <5>1. \A q \in 1 .. Depth : q - 1 \in 0 .. Depth' /\ (q - 1) + 1 = q
          BY <2>2
        <5>. QED  BY <2>3, <4>1, <5>1
      <4>3. CASE l <= j /\ k <= ir
        BY <1>2, <1>3, <3>1, <4>3 DEF Ascends
      <4>4. CASE ~(l <= j /\ k <= ir)
        <5>1. ~Together(j, k)
          <6>1. Lo(0) = l /\ Hi(0) = ir
            BY DEF Lo, Hi
          <6>. QED  BY <1>2, <2>2, <2>4, <3>1, <4>2, <4>4, <6>1, TogetherIs DEF QsortInv
        <5>. QED  BY <3>1, <5>1, PartFacts DEF QsortInv, PartsInOrder
      <4>. QED  BY <4>3, <4>4
    <3>2. DOMAIN a' = 1 .. Len(a)
      BY <1>1, <1>2
    <3>. QED  BY <1>1, <3>1, <3>2, Zenon DEF PartsInOrder
  <2>11. SameElements'
    BY <1>1 DEF QsortInv, SameElements
  <2>12. ScanInv' /\ InsertInv'
    BY <2>1 DEF ScanInv, InsertInv
  <2>. QED  BY <2>7, <2>8, <2>9, <2>10, <2>11, <2>12 DEF QsortInv
<1>. QED  BY <1>4, <1>5

LEMMA TimesMonotone ==
  ASSUME NEW v \in Int, NEW w \in Int, NEW z \in Nat, v <= w
  PROVE  v * z <= w * z
OBVIOUS

\* The subarray in hand becomes two, hl .. hr in hand and pl .. pr put off.
LEMMA PushParts ==
  ASSUME QsortInv, NEW hl \in Int, NEW hr \in Int, NEW pl \in Int, NEW pr \in Int,
         l <= hl, hl <= hr, hr <= ir, l <= pl, pl <= pr, pr <= ir, hr < pl \/ pr < hl,
         2 * (hr - hl + 1) <= ir - l + 1,
         l' = hl, ir' = hr, stackp' = <<<<pl, pr>>>> \o stackp, Len(a') = Len(a)
  PROVE  /\ stackp' \in Seq(Int \X Int) /\ Depth' = Depth + 1 /\ PartsApart' /\ Room'
         /\ Lo(0)' = hl /\ Hi(0)' = hr /\ Lo(1)' = pl /\ Hi(1)' = pr
         /\ \A q \in 1 .. Depth : Lo(q + 1)' = Lo(q) /\ Hi(q + 1)' = Hi(q)
<1>1. stackp \in Seq(Int \X Int) /\ l \in Int /\ ir \in Int /\ Len(a) \in Nat
  BY PartFacts DEF QsortInv, QsortTypeOK
<1>2. Depth \in Nat /\ \A q \in 0 .. Depth : Lo(q) \in Int /\ Hi(q) \in Int
  BY PartFacts DEF QsortInv
<1>3. <<pl, pr>> \in Int \X Int /\ <<pl, pr>>[1] = pl /\ <<pl, pr>>[2] = pr
  OBVIOUS
<1>. DEFINE z == <<pl, pr>>
<1>. HIDE DEF z
<1>4. /\ stackp' \in Seq(Int \X Int) /\ Len(stackp') = Len(stackp) + 1
      /\ stackp'[1] = z /\ \A q \in 1 .. Len(stackp) : stackp'[q + 1] = stackp[q]
  <2>1. z \in Int \X Int /\ stackp' = <<z>> \o stackp
    BY <1>3 DEF z
  <2>. QED  BY <1>1, <2>1
<1>5. \A q : Lo(q)' = (IF q = 0 THEN l' ELSE stackp'[q][1]) /\ Hi(q)' = (IF q = 0 THEN ir' ELSE stackp'[q][2])
  BY DEF Lo, Hi
<1>6. Depth' = Depth + 1 /\ Depth = Len(stackp)
  BY <1>4 DEF Depth
<1>7. Lo(0)' = hl /\ Hi(0)' = hr /\ Lo(1)' = pl /\ Hi(1)' = pr
  <2>1. stackp'[1][1] = pl /\ stackp'[1][2] = pr
    BY <1>3, <1>4, Zenon DEF z
  <2>2. 1 # 0
    OBVIOUS
  <2>3. Lo(0)' = l' /\ Hi(0)' = ir' /\ Lo(1)' = stackp'[1][1] /\ Hi(1)' = stackp'[1][2]
    BY <1>5, <2>2, Zenon
  <2>. QED  BY <2>1, <2>3, Zenon
<1>8. ASSUME NEW q \in 1 .. Depth  PROVE Lo(q + 1)' = Lo(q) /\ Hi(q + 1)' = Hi(q)
  <2>1. q + 1 # 0 /\ q # 0 /\ stackp'[q + 1] = stackp[q]
    <3>1. q \in 1 .. Len(stackp) /\ q + 1 # 0 /\ q # 0
      BY <1>6
    <3>2. \A r \in 1 .. Len(stackp) : stackp'[r + 1] = stackp[r]
      BY <1>4, Zenon
    <3>. QED  BY ONLY <3>1, <3>2, Zenon
  <2>2. Lo(q) = stackp[q][1] /\ Hi(q) = stackp[q][2]
    BY <2>1 DEF Lo, Hi
  <2>. QED  BY <1>5, <2>1, <2>2
<1>9. \A q \in 0 .. Depth' : q = 0 \/ q = 1 \/ (q - 1 \in 1 .. Depth /\ (q - 1) + 1 = q)
  BY <1>2, <1>6
<1>10. \A q \in 0 .. Depth' : \/ q = 0 /\ Lo(q)' = hl /\ Hi(q)' = hr
                              \/ q = 1 /\ Lo(q)' = pl /\ Hi(q)' = pr
                              \/ q - 1 \in 1 .. Depth /\ Lo(q)' = Lo(q - 1) /\ Hi(q)' = Hi(q - 1)
  <2>. TAKE q \in 0 .. Depth'
  <2>1. CASE q = 0
    BY <1>7, <2>1
  <2>2. CASE q = 1
    BY <1>7, <2>2
  <2>3. CASE q - 1 \in 1 .. Depth /\ (q - 1) + 1 = q
    <3>1. Lo((q - 1) + 1)' = Lo(q - 1) /\ Hi((q - 1) + 1)' = Hi(q - 1)
      BY <1>8, <2>3
    <3>. QED  BY <1>5, <2>3, <3>1
  <2>. QED  BY <1>9, <2>1, <2>2, <2>3
<1>11. /\ \A q \in 0 .. Depth : 1 <= Lo(q) /\ Lo(q) <= Hi(q) + 1 /\ Hi(q) <= Len(a)
       /\ \A q, r \in 0 .. Depth : q # r => Hi(q) < Lo(r) \/ Hi(r) < Lo(q)
       /\ Lo(0) = l /\ Hi(0) = ir /\ 0 \in 0 .. Depth
  BY <1>2, PartFacts DEF QsortInv, PartsApart
<1>12. \A q \in 1 .. Depth : /\ q \in 0 .. Depth /\ q # 0
                             /\ Hi(q) < l \/ ir < Lo(q)
  BY <1>2, <1>11
<1>13. PartsApart'
  <2>1. ASSUME NEW q \in 0 .. Depth'
        PROVE  1 <= Lo(q)' /\ Lo(q)' <= Hi(q)' + 1 /\ Hi(q)' <= Len(a')
    <3>1. CASE q - 1 \in 1 .. Depth /\ Lo(q)' = Lo(q - 1) /\ Hi(q)' = Hi(q - 1)
      BY <1>11, <1>12, <3>1
    <3>2. CASE (Lo(q)' = hl /\ Hi(q)' = hr) \/ (Lo(q)' = pl /\ Hi(q)' = pr)
      BY <1>1, <1>11, <3>2
    <3>. QED  BY <1>10, <3>1, <3>2
  <2>2. ASSUME NEW q \in 0 .. Depth', NEW r \in 0 .. Depth', q # r
        PROVE  Hi(q)' < Lo(r)' \/ Hi(r)' < Lo(q)'
    <3>. DEFINE New(v) == (v = 0 /\ Lo(v)' = hl /\ Hi(v)' = hr) \/ (v = 1 /\ Lo(v)' = pl /\ Hi(v)' = pr)
                Old(v) == v - 1 \in 1 .. Depth /\ Lo(v)' = Lo(v - 1) /\ Hi(v)' = Hi(v - 1)
    <3>1. (New(q) \/ Old(q)) /\ (New(r) \/ Old(r))
      BY <1>10
    <3>2. CASE New(q) /\ New(r)
      BY <2>2, <3>2
    <3>3. CASE Old(q) /\ Old(r)
      <4>1. q - 1 \in 0 .. Depth /\ r - 1 \in 0 .. Depth /\ q - 1 # r - 1
        BY <2>2, <1>6, <1>2, <3>3
      <4>. QED  BY <1>11, <3>3, <4>1
    <3>4. CASE New(q) /\ Old(r)
      <4>1. (Hi(r)' < l \/ ir < Lo(r)') /\ Hi(r)' \in Int /\ Lo(r)' \in Int
        BY <1>2, <1>12, <3>4
      <4>. QED  BY <1>1, <3>4, <4>1
    <3>5. CASE Old(q) /\ New(r)
      <4>1. (Hi(q)' < l \/ ir < Lo(q)') /\ Hi(q)' \in Int /\ Lo(q)' \in Int
        BY <1>2, <1>12, <3>5
      <4>. QED  BY <1>1, <3>5, <4>1
    <3>. HIDE DEF New, Old
    <3>. QED  BY <3>1, <3>2, <3>3, <3>4, <3>5
  <2>. QED  BY <2>1, <2>2 DEF PartsApart
<1>14. Room'
  <2>1. \A q \in 0 .. Depth :
          (Hi(q) - Lo(q) + 1) * Pow2[IF q = 0 THEN Depth ELSE Depth - q] <= Len(a)
    BY DEF QsortInv, Room
  <2>2. Pow2[Depth] \in Nat /\ Pow2[Depth + 1] = 2 * Pow2[Depth]
    BY <1>2, Pow2Facts
  <2>3. (ir - l + 1) * Pow2[Depth] <= Len(a)
    BY <1>11, <2>1
  <2>4. (hr - hl + 1) * Pow2[Depth + 1] <= Len(a)
    <3>1. (2 * (hr - hl + 1)) * Pow2[Depth] <= (ir - l + 1) * Pow2[Depth]
      <4>1. 2 * (hr - hl + 1) \in Int /\ ir - l + 1 \in Int /\ 2 * (hr - hl + 1) <= ir - l + 1
        BY <1>1
      <4>. QED  BY ONLY <2>2, <4>1, TimesMonotone, Zenon
    <3>2. (hr - hl + 1) * Pow2[Depth + 1] = (2 * (hr - hl + 1)) * Pow2[Depth]
      BY <2>2
    <3>. QED  BY <1>1, <2>2, <2>3, <3>1, <3>2
  <2>5. (pr - pl + 1) * Pow2[(Depth + 1) - 1] <= Len(a)
    <3>1. (pr - pl + 1) * Pow2[Depth] <= (ir - l + 1) * Pow2[Depth]
      <4>1. pr - pl + 1 \in Int /\ ir - l + 1 \in Int /\ pr - pl + 1 <= ir - l + 1
        BY <1>1
      <4>. QED  BY ONLY <2>2, <4>1, TimesMonotone, Zenon
    <3>2. (Depth + 1) - 1 = Depth
      BY <1>2
    <3>. QED  BY <1>1, <2>2, <2>3, <3>1, <3>2
  <2>6. ASSUME NEW q \in 0 .. Depth'
        PROVE  (Hi(q)' - Lo(q)' + 1) * Pow2[IF q = 0 THEN Depth' ELSE Depth' - q] <= Len(a')
    <3>1. CASE q = 0 /\ Lo(q)' = hl /\ Hi(q)' = hr
      BY <1>6, <2>4, <3>1
    <3>2. CASE q = 1 /\ Lo(q)' = pl /\ Hi(q)' = pr
      BY <1>6, <2>5, <3>2
    <3>3. CASE q - 1 \in 1 .. Depth /\ Lo(q)' = Lo(q - 1) /\ Hi(q)' = Hi(q - 1)
      <4>1. (Hi(q - 1) - Lo(q - 1) + 1) * Pow2[Depth - (q - 1)] <= Len(a)
        BY <1>12, <2>1, <3>3
      <4>2. Depth - (q - 1) = Depth' - q /\ q # 0
        BY <1>2, <1>6, <3>3
      <4>. QED  BY <3>3, <4>1, <4>2
    <3>. QED  BY <1>10, <3>1, <3>2, <3>3
  <2>. QED  BY <2>6 DEF Room
<1>. QED  BY <1>4, <1>6, <1>7, <1>8, <1>13, <1>14

LEMMA PartitionPreserves ==
  ASSUME QsortInv, Divide
  PROVE  QsortInv'
<1>1. /\ qpc = "exchange" /\ down < up /\ qpc' = "round" /\ PutOff
      /\ a' = [a EXCEPT ![l + 1] = a[down], ![down] = pivot]
      /\ UNCHANGED <<a0, up, down, pivot>>
  BY DEF Divide
<1>2. /\ a \in Seq(Elements) /\ Elements \in SUBSET Int
      /\ l \in Int /\ ir \in Int /\ up \in Int /\ down \in Int /\ pivot \in Int
      /\ 1 <= l /\ ir <= Len(a) /\ Len(a) \in Nat
      /\ \A k \in l .. ir : k \in 1 .. Len(a) /\ a[k] \in Int
      /\ l + 2 <= ir /\ l < up /\ up <= ir /\ l < down /\ down <= ir
      /\ a[l + 1] = pivot
      /\ \A k \in l .. up - 1 : a[k] <= pivot
      /\ \A k \in down + 1 .. ir : a[k] >= pivot
  BY <1>1, ScanFacts
<1>3. l + 1 < up /\ down < ir /\ a[up] >= pivot /\ a[down] <= pivot
  BY <1>1 DEF QsortInv, ScanInv
<1>4. /\ l \in Int /\ ir \in Int /\ up \in Int /\ down \in Int
      /\ down < up /\ l + 1 < up /\ up <= ir /\ l < down /\ down < ir
  BY <1>1, <1>2, <1>3
<1>5. l + 1 \in l .. ir /\ down \in l .. ir
  BY <1>2
<1>6. /\ Rearranges(a', a, l, ir)
      /\ a' = [i \in 1 .. Len(a) |-> IF i = down THEN a[l + 1] ELSE IF i = l + 1 THEN a[down] ELSE a[i]]
  <2>1. a' = Swap(a, l + 1, down)
    BY <1>1, <1>2 DEF Swap
  <2>2. /\ Elements \in SUBSET Int /\ a \in Seq(Elements) /\ l \in Int /\ ir \in Int
        /\ 1 <= l /\ ir <= Len(a) /\ l + 1 \in l .. ir /\ down \in l .. ir
    BY <1>2, <1>5, Zenon
  <2>3. \A v, w \in l .. ir :
          /\ Rearranges(Swap(a, v, w), a, l, ir)
          /\ Swap(a, v, w) = [i \in 1 .. Len(a) |-> IF i = w THEN a[v] ELSE IF i = v THEN a[w] ELSE a[i]]
    BY ONLY <2>2, SwapRearranges
  <2>4. /\ Rearranges(Swap(a, l + 1, down), a, l, ir)
        /\ Swap(a, l + 1, down)
             = [i \in 1 .. Len(a) |-> IF i = down THEN a[l + 1] ELSE IF i = l + 1 THEN a[down] ELSE a[i]]
    BY ONLY <2>2, <2>3, Zenon
  <2>. QED  BY <2>1, <2>4, Zenon
<1>7. a' \in Seq(Elements) /\ Len(a') = Len(a) /\ DOMAIN a' = 1 .. Len(a)
  BY <1>2, <1>6, RearrangeType
<1>8. SameElements'
  <2>1. \A v : Occurs(a', v) = Occurs(a, v)
    BY <1>2, <1>6, SameOccurs
  <2>2. \A v \in Elements : Occurs(a, v) = Occurs(a0, v)
    BY DEF QsortInv, SameElements
  <2>. QED  BY <1>1, <2>1, <2>2 DEF SameElements
<1>9. PICK hl \in Int, hr \in Int, pl \in Int, pr \in Int :
        /\ l' = hl /\ ir' = hr /\ stackp' = <<<<pl, pr>>>> \o stackp
        /\ 2 * (hr - hl + 1) <= ir - l + 1
        /\ \/ hl = l /\ hr = down - 1 /\ pl = up /\ pr = ir
           \/ hl = up /\ hr = ir /\ pl = l /\ pr = down - 1
  <2>1. CASE ir - up + 1 >= down - l
    <3>1. stackp' = <<<<up, ir>>>> \o stackp /\ ir' = down - 1 /\ l' = l
      BY <1>1, <2>1 DEF PutOff
    <3>2. 2 * ((down - 1) - l + 1) <= ir - l + 1 /\ down - 1 \in Int
      BY ONLY <1>4, <2>1
    <3>. QED  BY <1>2, <3>1, <3>2
  <2>2. CASE ~(ir - up + 1 >= down - l)
    <3>1. stackp' = <<<<l, down - 1>>>> \o stackp /\ l' = up /\ ir' = ir
      BY <1>1, <2>2 DEF PutOff
    <3>2. 2 * (ir - up + 1) <= ir - l + 1 /\ down - 1 \in Int
      BY ONLY <1>4, <2>2
    <3>. QED  BY <1>2, <3>1, <3>2
  <2>. QED  BY <2>1, <2>2
<1>10. /\ l <= hl /\ hl <= hr /\ hr <= ir /\ l <= pl /\ pl <= pr /\ pr <= ir
       /\ hr < pl \/ pr < hl
  BY <1>9, <1>4
<1>11. /\ stackp' \in Seq(Int \X Int) /\ Depth' = Depth + 1 /\ PartsApart' /\ Room'
       /\ Lo(0)' = hl /\ Hi(0)' = hr /\ Lo(1)' = pl /\ Hi(1)' = pr
       /\ \A q \in 1 .. Depth : Lo(q + 1)' = Lo(q) /\ Hi(q + 1)' = Hi(q)
  <2>1. /\ QsortInv /\ hl \in Int /\ hr \in Int /\ pl \in Int /\ pr \in Int
        /\ l' = hl /\ ir' = hr /\ stackp' = <<<<pl, pr>>>> \o stackp /\ Len(a') = Len(a)
        /\ 2 * (hr - hl + 1) <= ir - l + 1
        /\ l <= hl /\ hl <= hr /\ hr <= ir /\ l <= pl /\ pl <= pr /\ pr <= ir
        /\ (hr < pl \/ pr < hl)
    BY <1>7, <1>9, <1>10
  <2>. QED  BY ONLY <2>1, PushParts
<1>12. QsortTypeOK'
  BY <1>1, <1>2, <1>7, <1>9, <1>11 DEF QsortInv, QsortTypeOK
<1>13. PartsInOrder'
  <2>1. ASSUME NEW j \in 1 .. Len(a), NEW k \in 1 .. Len(a), j < k, ~Together(j, k)'
        PROVE  a'[j] <= a'[k]
    <3>1. \A q \in 0 .. Depth' : ~(/\ Lo(q)' <= j /\ j <= Hi(q)'
                                   /\ Lo(q)' <= k /\ k <= Hi(q)')
      <4>1. (QsortTypeOK => TogetherMeans)'
        BY TogetherAll, PTL
      <4>2. j \in Int /\ k \in Int
        BY <1>2
      <4>. QED  BY <1>12, <2>1, <4>1, <4>2 DEF TogetherMeans
    <3>2. Depth \in Nat /\ 0 \in 0 .. Depth' /\ 1 \in 0 .. Depth'
      BY <1>11, PartFacts DEF QsortInv
    <3>3. ~(hl <= j /\ k <= hr) /\ ~(pl <= j /\ k <= pr)
      <4>1. ~(hl <= j /\ j <= hr /\ hl <= k /\ k <= hr)
        BY <1>11, <3>1, <3>2
      <4>2. ~(pl <= j /\ j <= pr /\ pl <= k /\ k <= pr)
        BY <1>11, <3>1, <3>2
      <4>. QED  BY <1>2, <1>9, <2>1, <4>1, <4>2
    <3>4. CASE l <= j /\ k <= ir
      <4>1. j \in l .. up - 1 /\ k \in down .. ir
        <5>1. j \in Int /\ k \in Int /\ j < k
          BY <1>2, <2>1
        <5>. QED  BY ONLY <1>9, <1>4, <3>3, <3>4, <5>1
      <4>2. j \in l .. ir /\ k \in l .. ir
        BY <1>2, <2>1, <3>4
      <4>3. a'[j] = IF j = down THEN a[l + 1] ELSE IF j = l + 1 THEN a[down] ELSE a[j]
        BY <1>6, <2>1
      <4>4. a'[k] = IF k = down THEN a[l + 1] ELSE IF k = l + 1 THEN a[down] ELSE a[k]
        BY <1>6, <2>1
      <4>5. a'[j] <= pivot /\ a'[j] \in Int
        BY <1>2, <1>3, <1>5, <4>1, <4>2, <4>3
      <4>6. a'[k] >= pivot /\ a'[k] \in Int
        <5>1. CASE k = down
          BY <1>2, <4>4, <5>1
        <5>2. CASE k # down
          <6>1. k \in down + 1 .. ir /\ k # l + 1
            BY <1>2, <4>1, <5>2
          <6>. QED  BY <1>2, <4>2, <4>4, <5>2, <6>1
        <5>. QED  BY <5>1, <5>2
      <4>. QED  BY <1>2, <4>5, <4>6
    <3>5. CASE ~(l <= j /\ k <= ir)
      <4>1. ASSUME Together(j, k)  PROVE FALSE
        <5>1. PICK q \in 0 .. Depth : Lo(q) <= j /\ j <= Hi(q) /\ Lo(q) <= k /\ k <= Hi(q)
          BY <1>2, <4>1, TogetherIs DEF QsortInv
        <5>2. CASE q = 0
          <6>1. Lo(0) = l /\ Hi(0) = ir
            BY DEF Lo, Hi
          <6>. QED  BY <3>5, <5>1, <5>2, <6>1
        <5>3. CASE q # 0
          <6>1. q \in 1 .. Depth /\ q + 1 \in 0 .. Depth'
            BY <1>11, <3>2, <5>3
          <6>. QED  BY <1>11, <3>1, <5>1, <6>1
        <5>. QED  BY <5>2, <5>3
      <4>. QED  BY <1>6, <2>1, <3>5, <4>1, KeepsOrder DEF QsortInv
    <3>. QED  BY <3>4, <3>5
  <2>. QED  BY <1>7, <2>1, Zenon DEF PartsInOrder
<1>14. ScanInv' /\ InsertInv'
  BY <1>1 DEF ScanInv, InsertInv
<1>. QED  BY <1>8, <1>11, <1>12, <1>13, <1>14 DEF QsortInv

LEMMA QsortInitInv == QsortInit => QsortInv
<1>. SUFFICES ASSUME QsortInit  PROVE QsortInv
  OBVIOUS
<1>1. /\ a \in Inputs /\ a0 = a /\ l = 1 /\ ir = Len(a) /\ up = 0 /\ down = 0 /\ pivot = 0
      /\ stackp = <<>> /\ qpc = "round"
  BY DEF QsortInit
<1>2. a \in Seq(Elements)
  BY <1>1 DEF Inputs
<1>3. QsortTypeOK
  BY <1>1, <1>2 DEF QsortTypeOK
<1>4. Depth = 0 /\ Len(a) \in Nat /\ Lo(0) = 1 /\ Hi(0) = Len(a)
  BY <1>1, <1>2 DEF Depth, Lo, Hi
<1>5. \A q \in 0 .. Depth : q = 0
  BY <1>4
<1>6. PartsApart
  BY <1>4, <1>5 DEF PartsApart
<1>7. Room
  <2>1. (Hi(0) - Lo(0) + 1) * Pow2[Depth] <= Len(a)
    BY <1>4, Pow2Facts
  <2>. QED  BY <1>5, <2>1 DEF Room
<1>8. PartsInOrder
  <2>1. ASSUME NEW j \in 1 .. Len(a), NEW k \in 1 .. Len(a)  PROVE Together(j, k)
    BY <1>3, <1>4, <2>1, TogetherIs
  <2>. QED  BY <1>2, <2>1 DEF PartsInOrder
<1>9. SameElements
  BY <1>1 DEF SameElements
<1>10. ScanInv /\ InsertInv
  BY <1>1 DEF ScanInv, InsertInv
<1>. QED  BY <1>3, <1>6, <1>7, <1>8, <1>9, <1>10 DEF QsortInv

LEMMA QsortNextInv == QsortInv /\ [QsortNext]_qsortVars => QsortInv'
<1>. SUFFICES ASSUME QsortInv, [QsortNext]_qsortVars  PROVE QsortInv'
  OBVIOUS
<1>1. CASE UNCHANGED qsortVars
  <2>1. UNCHANGED <<a, a0, l, ir, up, down, pivot, stackp, qpc>>
    BY <1>1 DEF qsortVars
  <2>2. Rearranges(a', a, l, ir)
    BY <2>1, RearrangeRefl DEF QsortInv, QsortTypeOK
  <2>3. PartsApart' /\ Room' /\ PartsInOrder' /\ SameElements'
    BY <2>1, <2>2, SameParts
  <2>4. QsortTypeOK' /\ ScanInv' /\ InsertInv'
    BY <2>1 DEF QsortInv, QsortTypeOK, ScanInv, InsertInv, Ascends
  <2>. QED  BY <2>3, <2>4 DEF QsortInv
<1>2. CASE QsortNext
  BY <1>2, ShortPreserves, InsertionPreserves, PopPreserves, ChoosePreserves, ScanUpPreserves,
     ScanDownPreserves, ExchangePreserves, PartitionPreserves DEF QsortNext
<1>. QED  BY <1>1, <1>2

LEMMA QsortInvSorts == QsortInv => SortsInPlace
<1>. SUFFICES ASSUME QsortInv  PROVE SortsInPlace
  OBVIOUS
<1>1. QsortTypeOK
  BY DEF QsortInv
<1>2. Depth \in Nat /\ Lo(0) = l /\ Hi(0) = ir
  BY <1>1, PartFacts
<1>3. l \in Int /\ ir \in Int /\ down \in Int
  BY <1>1 DEF QsortTypeOK
<1>4. ScansStop
  BY <1>3 DEF QsortInv, ScanInv, ScansStop
<1>5. StackFits
  <2>1. (Hi(0) - Lo(0) + 1) * Pow2[Depth] <= Len(a)
    BY <1>2 DEF QsortInv, Room
  <2>. QED  BY <1>2, <2>1 DEF StackFits, Depth
<1>6. ASSUME qpc = "sorted", NEW j \in DOMAIN a, NEW k \in DOMAIN a, j < k  PROVE a[j] <= a[k]
  <2>1. stackp = <<>> /\ Ascends(a, l, ir)
    BY <1>6 DEF QsortInv, InsertInv
  <2>2. j \in Int /\ k \in Int
    BY <1>1, PartFacts
  <2>3. Depth = 0
    BY <2>1 DEF Depth
  <2>4. CASE Together(j, k)
    <3>1. j \in l .. ir /\ k \in l .. ir
      BY <1>1, <1>2, <1>3, <2>2, <2>3, <2>4, TogetherIs
    <3>. QED  BY <1>6, <2>1, <3>1 DEF Ascends
  <2>5. CASE ~Together(j, k)
    BY <1>6, <2>5 DEF QsortInv, PartsInOrder
  <2>. QED  BY <2>4, <2>5
<1>. QED  BY <1>4, <1>5, <1>6 DEF SortsInPlace, QsortInv

\* For every array, whatever its size and its elements, and every threshold:
\* the sort of qsort.c keeps its scans within the subarray and its stack within
\* the logarithm of the array's size, loses no element, and when it returns the
\* array is in order.
THEOREM QsortSorts == QsortSpec => []SortsInPlace
<1>1. QsortInit => QsortInv
  BY QsortInitInv
<1>2. QsortInv /\ [QsortNext]_qsortVars => QsortInv'
  BY QsortNextInv
<1>3. QsortInv => SortsInPlace
  BY QsortInvSorts
<1>. QED  BY <1>1, <1>2, <1>3, PTL DEF QsortSpec

------------------------------------------------------------------------------
(* Radix sort: the inductive invariant. *)

DigitIn(v, e) == (v \div Pow2[e]) % BaseR

\* The elements of s with the digit d; those with a smaller digit, and those
\* with d up to element q: as far as there are of them bucket d must be filled
\* when q is placed.
WithDigit(s, e, d) == {j \in DOMAIN s : DigitIn(s[j], e) = d}
UpTo(s, e, d, q) == {j \in DOMAIN s : DigitIn(s[j], e) < d \/ (DigitIn(s[j], e) = d /\ j <= q)}
PlaceOf(s, e, k) == Cardinality(UpTo(s, e, DigitIn(s[k], e), k))

RsortTypeOK ==
  /\ arr \in Seq(KeyValues) /\ unsorted \in Seq(KeyValues)
  /\ scratch = [k \in DOMAIN arr |-> scratch[k]]
  /\ bucket = [d \in 0 .. BaseR - 1 |-> bucket[d]]
  /\ log_exp \in Nat /\ b \in Nat /\ p \in Nat
  /\ ppc \in {"pass", "count", "place", "printed"}

InOrder(s, e) == \A j, k \in DOMAIN s : j < k => s[j] % Pow2[e] <= s[k] % Pow2[e]

RsortInv ==
  /\ RsortTypeOK
  /\ Rearranges(arr, unsorted, 1, Len(unsorted))
  /\ InOrder(arr, log_exp)
  /\ ppc = "count" =>
       /\ b \in 1 .. BaseR
       /\ \A d \in 0 .. BaseR - 1 :
            bucket[d] = IF d < b THEN Cardinality(UpTo(arr, log_exp, d, Len(arr)))
                        ELSE Cardinality(WithDigit(arr, log_exp, d))
  /\ ppc = "place" =>
       /\ p <= Len(arr)
       /\ \A d \in 0 .. BaseR - 1 : bucket[d] = Cardinality(UpTo(arr, log_exp, d, p))
       /\ \A k \in p + 1 .. Len(arr) : scratch[PlaceOf(arr, log_exp, k)] = arr[k]
  /\ ppc = "printed" => log_exp = IntBits

------------------------------------------------------------------------------
(* Radix sort: powers and digits. *)

\* The lower part of a number, and a digit in front of it.
LEMMA LowerParts ==
  ASSUME NEW v \in Nat, NEW m \in Nat \ {0}, NEW n \in Nat \ {0}
  PROVE  v % (m * n) = ((v \div m) % n) * m + (v % m)
<1>. DEFINE h == v \div m
            r == v % m
            d == h % n
            t == h \div n
<1>1. r \in 0 .. m - 1 /\ h \in Nat /\ v = r + h * m
  BY NatParts
<1>2. d \in 0 .. n - 1 /\ t \in Nat /\ h = d + t * n
  BY <1>1, NatParts
<1>3. m * n \in Nat \ {0}
  <2>1. m * n >= n
    OBVIOUS
  <2>. QED  BY <2>1
<1>4. v % (m * n) \in 0 .. m * n - 1 /\ v \div (m * n) \in Int
      /\ v = (v % (m * n)) + (v \div (m * n)) * (m * n)
  <2>. DEFINE w == m * n
  <2>1. w \in Nat \ {0} /\ v \in Int
    BY <1>3
  <2>. HIDE DEF w
  <2>2. v % w \in 0 .. w - 1 /\ v \div w \in Int /\ v = (v % w) + (v \div w) * w
    BY <2>1, ModParts
  <2>. QED  BY <2>2 DEF w
<1>. HIDE DEF h, r, d, t
<1>5. d * m + r \in 0 .. m * n - 1
  <2>1. d * m <= (n - 1) * m /\ d * m >= 0 /\ d * m \in Int
    BY <1>2
  <2>2. (n - 1) * m = m * n - m
    OBVIOUS
  <2>. QED  BY <1>1, <2>1, <2>2
<1>6. v = (d * m + r) + t * (m * n)
  <2>1. (d + t * n) * m = d * m + t * (m * n)
    BY <1>2
  <2>2. d * m \in Int /\ t * (m * n) \in Int
    BY <1>2
  <2>. QED  BY <1>1, <1>2, <2>1, <2>2
<1>7. v % (m * n) = d * m + r
  <2>1. (v % (m * n)) + (v \div (m * n)) * (m * n) = (d * m + r) + t * (m * n) /\ t \in Int
    BY <1>2, <1>4, <1>6
  <2>. QED  BY ONLY <1>3, <1>4, <1>5, <2>1, ModUnique
<1>. QED  BY <1>7 DEF d, h, r

LEMMA RsortConstants ==
  /\ LogBase \in Nat /\ IntBits \in Nat /\ BaseR \in Nat \ {0} /\ KeyValues \subseteq Nat
  /\ \A v \in KeyValues : v % Pow2[IntBits] = v
<1>1. LogBase \in Nat /\ IntBits \in Nat /\ KeyValues \subseteq 0 .. Pow2[IntBits] - 1
  BY RsortAssumption
<1>2. BaseR \in Nat \ {0}
  BY <1>1, Pow2Facts DEF BaseR
<1>3. Pow2[IntBits] \in Nat \ {0}
  BY <1>1, Pow2Facts
<1>4. ASSUME NEW v \in KeyValues  PROVE v \in Nat /\ v % Pow2[IntBits] = v
  <2>1. v \in 0 .. Pow2[IntBits] - 1 /\ v \in Int
    BY <1>1, <1>3
  <2>. HIDE DEF Pow2
  <2>. QED  BY <1>3, <2>1
<1>. QED  BY <1>1, <1>2, <1>4

LEMMA DigitType ==
  ASSUME NEW e \in Nat, NEW v \in Nat
  PROVE  DigitIn(v, e) \in 0 .. BaseR - 1 /\ DigitIn(v, e) \in Nat
<1>1. Pow2[e] \in Nat \ {0} /\ BaseR \in Nat \ {0}
  BY Pow2Facts, RsortConstants
<1>2. v \div Pow2[e] \in Nat
  BY <1>1, NatParts
<1>3. (v \div Pow2[e]) % BaseR \in 0 .. BaseR - 1
  BY <1>1, <1>2, NatParts
<1>. QED  BY <1>1, <1>3 DEF DigitIn

LEMMA ArrayFacts ==
  ASSUME NEW s \in Seq(Nat), NEW e \in Nat
  PROVE  /\ Len(s) \in Nat /\ DOMAIN s = 1 .. Len(s)
         /\ s = [k \in 1 .. Len(s) |-> s[k]]
         /\ \A k \in DOMAIN s : s[k] \in Nat /\ DigitIn(s[k], e) \in 0 .. BaseR - 1
                                /\ DigitIn(s[k], e) \in Nat
<1>1. /\ Len(s) \in Nat /\ DOMAIN s = 1 .. Len(s) /\ s = [k \in 1 .. Len(s) |-> s[k]]
      /\ \A k \in DOMAIN s : s[k] \in Nat
  OBVIOUS
<1>. QED  BY <1>1, DigitType

------------------------------------------------------------------------------
(* Radix sort: where the elements go. *)

LEMMA PartFinite ==
  ASSUME NEW s \in Seq(Nat), NEW T \in SUBSET DOMAIN s
  PROVE  IsFiniteSet(T) /\ Cardinality(T) \in Nat /\ Cardinality(T) <= Len(s)
<1>1. IsFiniteSet(1 .. Len(s)) /\ Cardinality(1 .. Len(s)) = Len(s)
  <2>1. Len(s) \in Int /\ 1 \in Int /\ Len(s) >= 0
    OBVIOUS
  <2>2. IsFiniteSet(1 .. Len(s)) /\ Cardinality(1 .. Len(s)) = IF 1 > Len(s) THEN 0 ELSE Len(s) - 1 + 1
    BY ONLY <2>1, FS_Interval
  <2>. QED  BY <2>1, <2>2
<1>2. T \in SUBSET (1 .. Len(s))
  OBVIOUS
<1>3. IsFiniteSet(T) /\ Cardinality(T) <= Cardinality(1 .. Len(s))
  BY <1>1, <1>2, FS_Subset
<1>. QED  BY <1>1, <1>3, FS_CardinalityType

LEMMA UpToFinite ==
  ASSUME NEW s \in Seq(Nat), NEW e, NEW d, NEW q
  PROVE  /\ UpTo(s, e, d, q) \in SUBSET DOMAIN s
         /\ IsFiniteSet(UpTo(s, e, d, q)) /\ Cardinality(UpTo(s, e, d, q)) \in Nat
         /\ Cardinality(UpTo(s, e, d, q)) <= Len(s)
<1>1. UpTo(s, e, d, q) \in SUBSET DOMAIN s
  BY DEF UpTo
<1>. QED  BY <1>1, PartFinite

LEMMA PlaceType ==
  ASSUME NEW s \in Seq(Nat), NEW e \in Nat, NEW k \in DOMAIN s
  PROVE  PlaceOf(s, e, k) \in 1 .. Len(s)
<1>. DEFINE T == UpTo(s, e, DigitIn(s[k], e), k)
<1>1. k \in T
  BY ArrayFacts DEF UpTo
<1>2. IsFiniteSet(T) /\ Cardinality(T) \in Nat /\ Cardinality(T) <= Len(s)
  BY UpToFinite
<1>. HIDE DEF T
<1>3. Cardinality(T) # 0
  BY <1>1, <1>2, FS_EmptySet
<1>. QED  BY <1>2, <1>3 DEF PlaceOf, T

\* Elements go in the order of their digits, and of the array if those are
\* the same.
LEMMA PlacesInOrder ==
  ASSUME NEW s \in Seq(Nat), NEW e \in Nat, NEW j \in DOMAIN s, NEW k \in DOMAIN s,
         DigitIn(s[j], e) < DigitIn(s[k], e) \/ (DigitIn(s[j], e) = DigitIn(s[k], e) /\ j < k)
  PROVE  PlaceOf(s, e, j) < PlaceOf(s, e, k)
<1>. DEFINE A == UpTo(s, e, DigitIn(s[j], e), j)
            B == UpTo(s, e, DigitIn(s[k], e), k)
<1>1. /\ j \in Int /\ k \in Int /\ DOMAIN s \subseteq Int
      /\ \A i \in DOMAIN s : DigitIn(s[i], e) \in Int
  <2>1. DOMAIN s = 1 .. Len(s) /\ Len(s) \in Nat /\ \A i \in DOMAIN s : DigitIn(s[i], e) \in Nat
    BY ArrayFacts
  <2>. QED  BY <2>1
<1>2. A \subseteq B \ {k} /\ k \in B
  BY <1>1 DEF UpTo
<1>3. /\ IsFiniteSet(B) /\ Cardinality(B) \in Nat /\ Cardinality(A) \in Nat
  BY UpToFinite
<1>. HIDE DEF A, B
<1>4. IsFiniteSet(B \ {k}) /\ Cardinality(B \ {k}) = Cardinality(B) - 1
  BY <1>2, <1>3, FS_RemoveElement
<1>5. Cardinality(A) <= Cardinality(B \ {k})
  BY <1>2, <1>4, FS_Subset
<1>6. Cardinality(A) < Cardinality(B)
  BY <1>3, <1>4, <1>5
<1>. QED  BY <1>6 DEF PlaceOf, A, B

LEMMA PlacesApart ==
  ASSUME NEW s \in Seq(Nat), NEW e \in Nat, NEW j \in DOMAIN s, NEW k \in DOMAIN s,
         PlaceOf(s, e, j) <= PlaceOf(s, e, k)
  PROVE  DigitIn(s[j], e) < DigitIn(s[k], e) \/ (DigitIn(s[j], e) = DigitIn(s[k], e) /\ j <= k)
<1>1. /\ j \in Int /\ k \in Int /\ DigitIn(s[j], e) \in Int /\ DigitIn(s[k], e) \in Int
      /\ PlaceOf(s, e, j) \in Int /\ PlaceOf(s, e, k) \in Int
  <2>1. DOMAIN s = 1 .. Len(s) /\ Len(s) \in Nat /\ \A i \in DOMAIN s : DigitIn(s[i], e) \in Nat
    BY ArrayFacts
  <2>2. PlaceOf(s, e, j) \in 1 .. Len(s) /\ PlaceOf(s, e, k) \in 1 .. Len(s)
    BY PlaceType
  <2>. QED  BY <2>1, <2>2
<1>2. DigitIn(s[k], e) < DigitIn(s[j], e) \/ (DigitIn(s[k], e) = DigitIn(s[j], e) /\ k < j)
        => PlaceOf(s, e, k) < PlaceOf(s, e, j)
  BY PlacesInOrder
<1>. QED  BY <1>1, <1>2

\* No place stays empty.
LEMMA PlacesAll ==
  ASSUME NEW s \in Seq(Nat), NEW e \in Nat
  PROVE  /\ \A j, k \in DOMAIN s : PlaceOf(s, e, j) = PlaceOf(s, e, k) => j = k
         /\ \A i \in 1 .. Len(s) : \E k \in 1 .. Len(s) : PlaceOf(s, e, k) = i
<1>. DEFINE n == Len(s)
            f == [k \in 1 .. n |-> PlaceOf(s, e, k)]
<1>1. n \in Nat /\ DOMAIN s = 1 .. n
  BY ArrayFacts
<1>2. \A k \in 1 .. n : PlaceOf(s, e, k) \in 1 .. n
  BY <1>1, PlaceType
<1>3. \A j, k \in DOMAIN s : PlaceOf(s, e, j) = PlaceOf(s, e, k) => j = k
  <2>. SUFFICES ASSUME NEW j \in DOMAIN s, NEW k \in DOMAIN s, PlaceOf(s, e, j) = PlaceOf(s, e, k)
       PROVE  j = k
    OBVIOUS
  <2>1. PlaceOf(s, e, j) <= PlaceOf(s, e, k) /\ PlaceOf(s, e, k) <= PlaceOf(s, e, j)
    BY <1>1, <1>2
  <2>2. /\ DigitIn(s[j], e) < DigitIn(s[k], e) \/ (DigitIn(s[j], e) = DigitIn(s[k], e) /\ j <= k)
        /\ DigitIn(s[k], e) < DigitIn(s[j], e) \/ (DigitIn(s[k], e) = DigitIn(s[j], e) /\ k <= j)
    BY <2>1, PlacesApart
  <2>3. DigitIn(s[j], e) \in Int /\ DigitIn(s[k], e) \in Int
    BY ArrayFacts
  <2>. QED  BY <1>1, <2>2, <2>3
<1>. HIDE DEF n
<1>4. f \in [1 .. n -> 1 .. n] /\ \A k \in 1 .. n : f[k] = PlaceOf(s, e, k)
  BY <1>2
<1>. HIDE DEF f
<1>5. f \in Injection(1 .. n, 1 .. n)
  BY <1>1, <1>3, <1>4 DEF Injection, IsInjective
<1>6. IsFiniteSet(1 .. n)
  BY <1>1, FS_Interval
<1>7. f \in Surjection(1 .. n, 1 .. n)
  BY <1>5, <1>6, FS_Injection
<1>8. \A i \in 1 .. n : \E k \in 1 .. n : f[k] = i
  BY <1>7 DEF Surjection
<1>9. \A i \in 1 .. n : \E k \in 1 .. n : PlaceOf(s, e, k) = i
  BY <1>4, <1>8
<1>. QED  BY <1>3, <1>9 DEF n

\* The first bucket, the next one, and one that an element has been taken from.
LEMMA BucketFacts ==
  ASSUME NEW s \in Seq(Nat), NEW e \in Nat
  PROVE  /\ UpTo(s, e, 0, Len(s)) = WithDigit(s, e, 0)
         /\ \A d \in Nat \ {0} :
              Cardinality(UpTo(s, e, d, Len(s)))
                = Cardinality(WithDigit(s, e, d)) + Cardinality(UpTo(s, e, d - 1, Len(s)))
         /\ \A d \in Nat, q \in DOMAIN s :
              Cardinality(UpTo(s, e, d, q - 1))
                = Cardinality(UpTo(s, e, d, q)) - (IF DigitIn(s[q], e) = d THEN 1 ELSE 0)
<1>1. Len(s) \in Nat /\ DOMAIN s = 1 .. Len(s) /\ \A k \in DOMAIN s : DigitIn(s[k], e) \in Nat
  BY ArrayFacts
<1>2. UpTo(s, e, 0, Len(s)) = WithDigit(s, e, 0)
  BY <1>1 DEF UpTo, WithDigit
<1>3. ASSUME NEW d \in Nat \ {0}
      PROVE  Cardinality(UpTo(s, e, d, Len(s)))
               = Cardinality(WithDigit(s, e, d)) + Cardinality(UpTo(s, e, d - 1, Len(s)))
  <2>1. /\ UpTo(s, e, d, Len(s)) = WithDigit(s, e, d) \cup UpTo(s, e, d - 1, Len(s))
        /\ WithDigit(s, e, d) \cap UpTo(s, e, d - 1, Len(s)) = {}
    BY <1>1 DEF UpTo, WithDigit
  <2>2. WithDigit(s, e, d) \in SUBSET DOMAIN s
    BY DEF WithDigit
  <2>3. IsFiniteSet(WithDigit(s, e, d)) /\ Cardinality(WithDigit(s, e, d)) \in Nat
    BY <2>2, PartFinite
  <2>4. IsFiniteSet(UpTo(s, e, d - 1, Len(s))) /\ Cardinality(UpTo(s, e, d - 1, Len(s))) \in Nat
    BY UpToFinite
  <2>5. Cardinality(WithDigit(s, e, d) \cup UpTo(s, e, d - 1, Len(s)))
          = Cardinality(WithDigit(s, e, d)) + Cardinality(UpTo(s, e, d - 1, Len(s)))
            - Cardinality(WithDigit(s, e, d) \cap UpTo(s, e, d - 1, Len(s)))
    BY <2>3, <2>4, FS_Union
  <2>6. Cardinality(WithDigit(s, e, d) \cap UpTo(s, e, d - 1, Len(s))) = 0
    BY <2>1, FS_EmptySet
  <2>. QED  BY <2>1, <2>3, <2>4, <2>5, <2>6
<1>4. ASSUME NEW d \in Nat, NEW q \in DOMAIN s
      PROVE  Cardinality(UpTo(s, e, d, q - 1))
               = Cardinality(UpTo(s, e, d, q)) - (IF DigitIn(s[q], e) = d THEN 1 ELSE 0)
  <2>1. IsFiniteSet(UpTo(s, e, d, q)) /\ Cardinality(UpTo(s, e, d, q)) \in Nat
    BY UpToFinite
  <2>2. CASE DigitIn(s[q], e) = d
    <3>1. UpTo(s, e, d, q - 1) = UpTo(s, e, d, q) \ {q} /\ q \in UpTo(s, e, d, q)
      BY <1>1, <2>2 DEF UpTo
    <3>. QED  BY <2>1, <2>2, <3>1, FS_RemoveElement
  <2>3. CASE DigitIn(s[q], e) # d
    <3>1. UpTo(s, e, d, q - 1) = UpTo(s, e, d, q)
      BY <1>1, <2>3 DEF UpTo
    <3>. QED  BY <2>1, <2>3, <3>1
  <2>. QED  BY <2>2, <2>3
<1>. QED  BY <1>2, <1>3, <1>4

LEMMA LexOrder ==
  ASSUME NEW m \in Nat, NEW c \in Nat, NEW d \in Nat, NEW u \in 0 .. m - 1, NEW v \in 0 .. m - 1,
         c < d \/ (c = d /\ u <= v)
  PROVE  c * m + u <= d * m + v
<1>1. CASE c < d
  <2>1. (c + 1) * m <= d * m /\ (c + 1) * m = c * m + m
    BY <1>1
  <2>2. c * m \in Int /\ d * m \in Int
    OBVIOUS
  <2>. QED  BY <2>1, <2>2
<1>2. CASE c = d /\ u <= v
  <2>1. c * m \in Int
    OBVIOUS
  <2>. QED  BY <1>2, <2>1
<1>. QED  BY <1>1, <1>2

\* A pass that puts every element into its place sorts by one digit more.
LEMMA PassSorts ==
  ASSUME NEW s \in Seq(Nat), NEW e \in Nat, NEW t, t = [k \in DOMAIN s |-> t[k]], InOrder(s, e),
         \A k \in DOMAIN s : t[PlaceOf(s, e, k)] = s[k]
  PROVE  Rearranges(t, s, 1, Len(s)) /\ InOrder(t, e + LogBase)
<1>. DEFINE n == Len(s)
            f == [i \in 1 .. n |-> CHOOSE k \in 1 .. n : PlaceOf(s, e, k) = i]
<1>1. n \in Nat /\ DOMAIN s = 1 .. n /\ DOMAIN t = 1 .. n
  BY ArrayFacts
<1>2. /\ \A j, k \in 1 .. n : PlaceOf(s, e, j) = PlaceOf(s, e, k) => j = k
      /\ \A i \in 1 .. n : \E k \in 1 .. n : PlaceOf(s, e, k) = i
  BY <1>1, PlacesAll
<1>3. \A k \in 1 .. n : PlaceOf(s, e, k) \in 1 .. n
  BY <1>1, PlaceType
<1>. HIDE DEF n
<1>4. \A i \in 1 .. n : f[i] \in 1 .. n /\ PlaceOf(s, e, f[i]) = i
  BY <1>2
<1>5. f \in [1 .. n -> 1 .. n]
  <2>1. \A i \in 1 .. n : (CHOOSE k \in 1 .. n : PlaceOf(s, e, k) = i) \in 1 .. n
    BY <1>2
  <2>. QED  BY <2>1
<1>. HIDE DEF f
<1>6. f \in Orders(n, 1, n)
  <2>1. \A i, j \in 1 .. n : f[i] = f[j] => i = j
    BY <1>4
  <2>2. \A j \in 1 .. n : \E i \in 1 .. n : f[i] = j
    <3>. TAKE j \in 1 .. n
    <3>1. PlaceOf(s, e, j) \in 1 .. n
      BY <1>3
    <3>2. f[PlaceOf(s, e, j)] = j
      BY <1>2, <1>4, <3>1
    <3>. QED  BY <3>1, <3>2
  <2>3. \A i \in 1 .. n : IF i \in 1 .. n THEN f[i] \in 1 .. n ELSE f[i] = i
    BY <1>4
  <2>. QED  BY <1>5, <2>1, <2>2, <2>3 DEF Orders
<1>7. \A i \in 1 .. n : t[i] = s[f[i]]
  BY <1>1, <1>4
<1>8. t = [i \in 1 .. n |-> s[f[i]]]
  BY <1>1, <1>7
<1>9. Rearranges(t, s, 1, Len(s))
  BY <1>6, <1>8 DEF Rearranges, n
<1>10. ASSUME NEW i \in DOMAIN t, NEW j \in DOMAIN t, i < j
       PROVE  t[i] % Pow2[e + LogBase] <= t[j] % Pow2[e + LogBase]
  <2>. DEFINE m == Pow2[e]
  <2>1. m \in Nat \ {0} /\ BaseR \in Nat \ {0} /\ Pow2[e + LogBase] = m * BaseR
    <3>1. LogBase \in Nat /\ BaseR \in Nat \ {0} /\ BaseR = Pow2[LogBase]
      BY RsortConstants DEF BaseR
    <3>2. Pow2[e + LogBase] = Pow2[e] * Pow2[LogBase]
      BY ONLY <3>1, Pow2Sum, e \in Nat
    <3>3. Pow2[e] \in Nat \ {0}
      BY Pow2Facts
    <3>. QED  BY <3>1, <3>2, <3>3
  <2>2. PICK u \in DOMAIN s, v \in DOMAIN s :
          t[i] = s[u] /\ t[j] = s[v] /\ PlaceOf(s, e, u) = i /\ PlaceOf(s, e, v) = j
    BY <1>1, <1>4, <1>7
  <2>3. /\ s[u] \in Nat /\ s[v] \in Nat
        /\ DigitIn(s[u], e) \in Nat /\ DigitIn(s[v], e) \in Nat
    BY ArrayFacts
  <2>4. i \in Int /\ j \in Int /\ u \in Int /\ v \in Int
    BY <1>1
  <2>5. DigitIn(s[u], e) < DigitIn(s[v], e) \/ (DigitIn(s[u], e) = DigitIn(s[v], e) /\ u <= v)
    BY <1>10, <2>2, <2>4, PlacesApart
  <2>6. u # v
    BY <1>10, <2>2, <2>4
  <2>7. u < v => s[u] % m <= s[v] % m
    BY DEF InOrder
  <2>8. s[u] % m \in 0 .. m - 1 /\ s[v] % m \in 0 .. m - 1
    BY <2>1, <2>3, NatParts
  <2>9. /\ s[u] % (m * BaseR) = DigitIn(s[u], e) * m + (s[u] % m)
        /\ s[v] % (m * BaseR) = DigitIn(s[v], e) * m + (s[v] % m)
    BY <2>1, <2>3, LowerParts DEF DigitIn
  <2>. HIDE DEF m
  <2>10. DigitIn(s[u], e) * m + (s[u] % m) <= DigitIn(s[v], e) * m + (s[v] % m)
    <3>1. DigitIn(s[u], e) < DigitIn(s[v], e)
          \/ (DigitIn(s[u], e) = DigitIn(s[v], e) /\ s[u] % m <= s[v] % m)
      BY <2>4, <2>5, <2>6, <2>7
    <3>. QED  BY <2>1, <2>3, <2>8, <3>1, LexOrder
  <2>. QED  BY <2>1, <2>2, <2>9, <2>10
<1>11. InOrder(t, e + LogBase)
  BY <1>10 DEF InOrder
<1>. QED  BY <1>9, <1>11

------------------------------------------------------------------------------
(* Radix sort: the actions. *)

LEMMA RsortFacts ==
  ASSUME RsortTypeOK
  PROVE  /\ arr \in Seq(Nat) /\ log_exp \in Nat /\ BaseR \in Nat \ {0}
         /\ DOMAIN bucket = 0 .. BaseR - 1 /\ \A v : Digit(v) = DigitIn(v, log_exp)
<1>1. arr \in Seq(KeyValues) /\ KeyValues \subseteq Nat
  BY RsortConstants DEF RsortTypeOK
<1>2. arr \in Seq(Nat)
  <2>1. Len(arr) \in Nat /\ arr = [k \in 1 .. Len(arr) |-> arr[k]]
        /\ \A k \in 1 .. Len(arr) : arr[k] \in KeyValues
    BY <1>1
  <2>2. \A k \in 1 .. Len(arr) : arr[k] \in Nat
    BY <1>1, <2>1
  <2>. QED  BY <2>1, <2>2
<1>. QED  BY <1>2, RsortConstants DEF RsortTypeOK, Digit, DigitIn

LEMMA CountPreserves == RsortInv /\ Count => RsortInv'
<1>. SUFFICES ASSUME RsortInv, Count  PROVE RsortInv'
  OBVIOUS
<1>1. RsortTypeOK /\ Rearranges(arr, unsorted, 1, Len(unsorted)) /\ InOrder(arr, log_exp)
  BY DEF RsortInv
<1>2. /\ bucket' = [d \in DOMAIN bucket |-> Cardinality({k \in DOMAIN arr : Digit(arr[k]) = d})]
      /\ b' = 1 /\ ppc' = "count" /\ UNCHANGED <<arr, scratch, unsorted, log_exp, p>>
  BY DEF Count
<1>3. arr \in Seq(Nat) /\ log_exp \in Nat /\ BaseR \in Nat \ {0} /\ DOMAIN bucket = 0 .. BaseR - 1
  BY <1>1, RsortFacts
<1>4. \A d \in 0 .. BaseR - 1 : bucket'[d] = Cardinality(WithDigit(arr, log_exp, d))
  BY <1>2, <1>3 DEF WithDigit, DigitIn, Digit
<1>5. UpTo(arr, log_exp, 0, Len(arr)) = WithDigit(arr, log_exp, 0)
  BY <1>3, BucketFacts
<1>6. \A d \in 0 .. BaseR - 1 :
        bucket'[d] = IF d < 1 THEN Cardinality(UpTo(arr, log_exp, d, Len(arr)))
                     ELSE Cardinality(WithDigit(arr, log_exp, d))
  <2>. TAKE d \in 0 .. BaseR - 1
  <2>1. CASE d = 0
    BY <1>4, <1>5, <2>1
  <2>2. CASE d # 0
    <3>1. ~(d < 1)
      BY <2>2
    <3>. QED  BY <1>4, <3>1
  <2>. QED  BY <2>1, <2>2
<1>7. RsortTypeOK'
  <2>1. bucket' = [d \in 0 .. BaseR - 1 |-> bucket'[d]]
    BY <1>2, <1>3
  <2>. QED  BY <1>1, <1>2, <2>1 DEF RsortTypeOK
<1>8. 1 \in 1 .. BaseR
  BY <1>3
<1>. QED  BY <1>1, <1>2, <1>6, <1>7, <1>8 DEF RsortInv

LEMMA AccumulatePreserves == RsortInv /\ Accumulate => RsortInv'
<1>. SUFFICES ASSUME RsortInv, Accumulate  PROVE RsortInv'
  OBVIOUS
<1>1. RsortTypeOK /\ Rearranges(arr, unsorted, 1, Len(unsorted)) /\ InOrder(arr, log_exp)
  BY DEF RsortInv
<1>2. /\ ppc = "count" /\ b < BaseR
      /\ bucket' = [bucket EXCEPT ![b] = @ + bucket[b - 1]]
      /\ b' = b + 1 /\ UNCHANGED <<arr, scratch, unsorted, log_exp, p, ppc>>
  BY DEF Accumulate
<1>3. arr \in Seq(Nat) /\ log_exp \in Nat /\ BaseR \in Nat \ {0} /\ DOMAIN bucket = 0 .. BaseR - 1
  BY <1>1, RsortFacts
<1>4. /\ b \in 1 .. BaseR
      /\ \A d \in 0 .. BaseR - 1 :
           bucket[d] = IF d < b THEN Cardinality(UpTo(arr, log_exp, d, Len(arr)))
                       ELSE Cardinality(WithDigit(arr, log_exp, d))
  BY <1>2 DEF RsortInv
<1>5. b \in Nat \ {0} /\ b \in 0 .. BaseR - 1 /\ b - 1 \in 0 .. BaseR - 1 /\ b - 1 < b /\ ~(b < b)
  BY <1>2, <1>3, <1>4
<1>6. Cardinality(UpTo(arr, log_exp, b, Len(arr)))
        = Cardinality(WithDigit(arr, log_exp, b)) + Cardinality(UpTo(arr, log_exp, b - 1, Len(arr)))
  BY <1>3, <1>5, BucketFacts
<1>7. bucket[b] + bucket[b - 1] = Cardinality(UpTo(arr, log_exp, b, Len(arr)))
  BY <1>4, <1>5, <1>6
<1>8. \A d \in 0 .. BaseR - 1 :
        bucket'[d] = IF d = b THEN Cardinality(UpTo(arr, log_exp, b, Len(arr))) ELSE bucket[d]
  BY <1>2, <1>3, <1>5, <1>7
<1>9. \A d \in 0 .. BaseR - 1 :
        bucket'[d] = IF d < b + 1 THEN Cardinality(UpTo(arr, log_exp, d, Len(arr)))
                     ELSE Cardinality(WithDigit(arr, log_exp, d))
  <2>. TAKE d \in 0 .. BaseR - 1
  <2>1. CASE d = b
    BY <1>5, <1>8, <2>1
  <2>2. CASE d # b
    <3>1. d < b <=> d < b + 1
      BY <1>5, <2>2
    <3>. QED  BY <1>4, <1>8, <2>2, <3>1
  <2>. QED  BY <2>1, <2>2
<1>10. RsortTypeOK'
  <2>1. bucket' = [d \in 0 .. BaseR - 1 |-> bucket'[d]]
    BY <1>2, <1>3
  <2>2. b + 1 \in Nat
    BY <1>5
  <2>. QED  BY <1>1, <1>2, <2>1, <2>2 DEF RsortTypeOK
<1>11. b + 1 \in 1 .. BaseR
  BY <1>3, <1>5
<1>. QED  BY <1>1, <1>2, <1>9, <1>10, <1>11 DEF RsortInv

LEMMA StartPlacingPreserves == RsortInv /\ StartPlacing => RsortInv'
<1>. SUFFICES ASSUME RsortInv, StartPlacing  PROVE RsortInv'
  OBVIOUS
<1>1. RsortTypeOK /\ Rearranges(arr, unsorted, 1, Len(unsorted)) /\ InOrder(arr, log_exp)
  BY DEF RsortInv
<1>2. /\ ppc = "count" /\ b = BaseR /\ p' = Len(arr) /\ ppc' = "place"
      /\ UNCHANGED <<arr, scratch, unsorted, log_exp, bucket, b>>
  BY DEF StartPlacing
<1>3. arr \in Seq(Nat) /\ BaseR \in Nat
  BY <1>1, RsortFacts
<1>4. Len(arr) \in Nat /\ Len(arr) <= Len(arr) /\ Len(arr) + 1 .. Len(arr) = {}
  BY <1>3
<1>5. \A d \in 0 .. BaseR - 1 : bucket[d] = Cardinality(UpTo(arr, log_exp, d, Len(arr)))
  <2>. TAKE d \in 0 .. BaseR - 1
  <2>1. d < b
    BY <1>2, <1>3
  <2>. QED  BY <1>2, <2>1 DEF RsortInv
<1>6. RsortTypeOK'
  BY <1>1, <1>2, <1>4 DEF RsortTypeOK
<1>. QED  BY <1>1, <1>2, <1>4, <1>5, <1>6 DEF RsortInv

LEMMA PlacePreserves == RsortInv /\ Place => RsortInv'
<1>. SUFFICES ASSUME RsortInv, Place  PROVE RsortInv'
  OBVIOUS
<1>1. RsortTypeOK /\ Rearranges(arr, unsorted, 1, Len(unsorted)) /\ InOrder(arr, log_exp)
  BY DEF RsortInv
<1>. DEFINE c == DigitIn(arr[p], log_exp)
<1>2. /\ ppc = "place" /\ p > 0 /\ p' = p - 1
      /\ scratch' = [scratch EXCEPT ![bucket[c]] = arr[p]]
      /\ bucket' = [bucket EXCEPT ![c] = @ - 1]
      /\ UNCHANGED <<arr, unsorted, log_exp, b, ppc>>
  BY <1>1, RsortFacts DEF Place
<1>3. arr \in Seq(Nat) /\ log_exp \in Nat /\ BaseR \in Nat \ {0} /\ DOMAIN bucket = 0 .. BaseR - 1
  BY <1>1, RsortFacts
<1>4. /\ p <= Len(arr)
      /\ \A d \in 0 .. BaseR - 1 : bucket[d] = Cardinality(UpTo(arr, log_exp, d, p))
      /\ \A k \in p + 1 .. Len(arr) : scratch[PlaceOf(arr, log_exp, k)] = arr[k]
  BY <1>2 DEF RsortInv
<1>5. Len(arr) \in Nat /\ p \in Nat /\ p \in DOMAIN arr /\ DOMAIN arr = 1 .. Len(arr)
  BY <1>1, <1>2, <1>3, <1>4 DEF RsortTypeOK
<1>6. c \in 0 .. BaseR - 1
  BY <1>3, <1>5, ArrayFacts
<1>7. bucket[c] = PlaceOf(arr, log_exp, p)
  BY <1>4, <1>6 DEF PlaceOf
<1>8. PlaceOf(arr, log_exp, p) \in 1 .. Len(arr)
  BY <1>3, <1>5, PlaceType
<1>. HIDE DEF c
<1>9. \A d \in 0 .. BaseR - 1 : bucket'[d] = Cardinality(UpTo(arr, log_exp, d, p - 1))
  <2>. TAKE d \in 0 .. BaseR - 1
  <2>1. d \in Nat
    OBVIOUS
  <2>2. Cardinality(UpTo(arr, log_exp, d, p - 1))
          = Cardinality(UpTo(arr, log_exp, d, p)) - (IF c = d THEN 1 ELSE 0)
    <3>1. \A i \in Nat, q \in DOMAIN arr :
            Cardinality(UpTo(arr, log_exp, i, q - 1))
              = Cardinality(UpTo(arr, log_exp, i, q)) - (IF DigitIn(arr[q], log_exp) = i THEN 1 ELSE 0)
      BY <1>3, BucketFacts
    <3>. QED  BY ONLY <1>5, <2>1, <3>1, Zenon DEF c
  <2>3. Cardinality(UpTo(arr, log_exp, d, p)) \in Nat
    BY <1>3, UpToFinite
  <2>4. bucket'[d] = bucket[d] - (IF c = d THEN 1 ELSE 0)
    BY <1>2, <1>3, <1>4, <1>6, <2>3
  <2>. QED  BY <1>4, <2>2, <2>4
<1>10. DOMAIN scratch = 1 .. Len(arr)
  BY <1>1, <1>5 DEF RsortTypeOK
<1>11. \A k \in (p - 1) + 1 .. Len(arr) : scratch'[PlaceOf(arr, log_exp, k)] = arr[k]
  <2>. TAKE k \in (p - 1) + 1 .. Len(arr)
  <2>1. k \in DOMAIN arr
    BY <1>2, <1>5
  <2>2. PlaceOf(arr, log_exp, k) \in 1 .. Len(arr)
    BY <1>3, <2>1, PlaceType
  <2>3. CASE k = p
    BY <1>2, <1>7, <1>8, <1>10, <2>3
  <2>4. CASE k # p
    <3>1. PlaceOf(arr, log_exp, k) # PlaceOf(arr, log_exp, p)
      BY <1>3, <1>5, <2>1, <2>4, PlacesAll
    <3>2. k \in p + 1 .. Len(arr)
      BY <1>5, <2>1, <2>4
    <3>. QED  BY <1>2, <1>4, <1>7, <1>10, <2>2, <3>1, <3>2
  <2>. QED  BY <2>3, <2>4
<1>12. RsortTypeOK'
  <2>1. bucket' = [d \in 0 .. BaseR - 1 |-> bucket'[d]]
    BY <1>2, <1>3
  <2>2. scratch' = [k \in DOMAIN arr |-> scratch'[k]]
    BY <1>2, <1>5, <1>10
  <2>3. p - 1 \in Nat
    BY <1>2, <1>5
  <2>. QED  BY <1>1, <1>2, <2>1, <2>2, <2>3 DEF RsortTypeOK
<1>13. p - 1 <= Len(arr)
  BY <1>4, <1>5
<1>. QED  BY <1>1, <1>2, <1>9, <1>11, <1>12, <1>13 DEF RsortInv

LEMMA EndPassPreserves == RsortInv /\ EndPass => RsortInv'
<1>. SUFFICES ASSUME RsortInv, EndPass  PROVE RsortInv'
  OBVIOUS
<1>1. RsortTypeOK /\ Rearranges(arr, unsorted, 1, Len(unsorted)) /\ InOrder(arr, log_exp)
  BY DEF RsortInv
<1>2. /\ ppc = "place" /\ p = 0 /\ arr' = scratch /\ scratch' = arr
      /\ log_exp' = log_exp + LogBase /\ ppc' = "pass" /\ UNCHANGED <<unsorted, bucket, b, p>>
  BY DEF EndPass
<1>3. arr \in Seq(Nat) /\ log_exp \in Nat
  BY <1>1, RsortFacts
<1>4. \A k \in DOMAIN arr : scratch[PlaceOf(arr, log_exp, k)] = arr[k]
  <2>1. \A k \in 0 + 1 .. Len(arr) : scratch[PlaceOf(arr, log_exp, k)] = arr[k]
    BY <1>2 DEF RsortInv
  <2>2. DOMAIN arr = 0 + 1 .. Len(arr)
    BY <1>3
  <2>. QED  BY <2>1, <2>2
<1>5. scratch = [k \in DOMAIN arr |-> scratch[k]]
  BY <1>1 DEF RsortTypeOK
<1>6. Rearranges(scratch, arr, 1, Len(arr)) /\ InOrder(scratch, log_exp + LogBase)
  BY <1>1, <1>3, <1>4, <1>5, PassSorts
<1>7. unsorted \in Seq(KeyValues) /\ arr \in Seq(KeyValues)
  BY <1>1 DEF RsortTypeOK
<1>8. Len(arr) = Len(unsorted)
  BY <1>1, <1>7, RearrangeType
<1>9. Rearranges(scratch, unsorted, 1, Len(unsorted))
  BY <1>1, <1>6, <1>7, <1>8, RearrangeTrans
<1>10. scratch \in Seq(KeyValues) /\ DOMAIN scratch = DOMAIN arr /\ arr = [k \in DOMAIN arr |-> arr[k]]
  <2>1. scratch \in Seq(KeyValues) /\ DOMAIN scratch = 1 .. Len(arr)
    BY <1>6, <1>7, RearrangeType
  <2>. QED  BY <1>7, <2>1
<1>11. RsortTypeOK'
  <2>1. log_exp + LogBase \in Nat
    BY <1>3, RsortConstants
  <2>. QED  BY <1>1, <1>2, <1>10, <2>1 DEF RsortTypeOK
<1>. QED  BY <1>2, <1>6, <1>9, <1>11 DEF RsortInv

LEMMA ShowPreserves == RsortInv /\ Show => RsortInv'
<1>. SUFFICES ASSUME RsortInv, Show  PROVE RsortInv'
  OBVIOUS
<1>1. /\ ppc = "pass" /\ log_exp = IntBits /\ ppc' = "printed"
      /\ UNCHANGED <<arr, scratch, unsorted, log_exp, bucket, b, p>>
  BY DEF Show
<1>. QED  BY <1>1 DEF RsortInv, RsortTypeOK

LEMMA RsortInitInv == RsortInit => RsortInv
<1>. SUFFICES ASSUME RsortInit  PROVE RsortInv
  OBVIOUS
<1>1. /\ unsorted = arr /\ scratch = [k \in DOMAIN arr |-> 0]
      /\ log_exp = 0 /\ bucket = [d \in 0 .. BaseR - 1 |-> 0] /\ b = 1 /\ p = 0 /\ ppc = "pass"
  BY DEF RsortInit
<1>2. PICK n \in 0 .. MaxKeys : arr \in [1 .. n -> KeyValues]
  BY DEF RsortInit
<1>3. n \in Nat
  BY RsortAssumption
<1>4. arr \in Seq(KeyValues)
  BY <1>2, <1>3
<1>5. Rearranges(arr, unsorted, 1, Len(unsorted))
  BY <1>1, <1>4, RearrangeRefl
<1>6. InOrder(arr, log_exp)
  <2>1. \A k \in DOMAIN arr : arr[k] \in Nat
    <3>1. KeyValues \subseteq Nat
      BY RsortConstants
    <3>2. \A k \in DOMAIN arr : arr[k] \in KeyValues
      BY <1>4
    <3>. QED  BY <3>1, <3>2
  <2>2. \A v \in Nat : v % 1 = 0
    <3>. TAKE v \in Nat
    <3>1. 1 \in Nat \ {0}
      OBVIOUS
    <3>2. v % 1 \in 0 .. 1 - 1
      BY ONLY <3>1, NatParts, v \in Nat
    <3>. QED  BY <3>2
  <2>3. Pow2[log_exp] = 1
    BY <1>1, Pow2Facts
  <2>. QED  BY <2>1, <2>2, <2>3 DEF InOrder
<1>7. RsortTypeOK
  <2>1. scratch = [k \in DOMAIN arr |-> scratch[k]] /\ bucket = [d \in 0 .. BaseR - 1 |-> bucket[d]]
    BY <1>1
  <2>. QED  BY <1>1, <1>4, <2>1 DEF RsortTypeOK
<1>. QED  BY <1>1, <1>5, <1>6, <1>7 DEF RsortInv

LEMMA RsortInvSorts == RsortInv => PassesSort
<1>. SUFFICES ASSUME RsortInv  PROVE PassesSort
  OBVIOUS
<1>1. RsortTypeOK /\ Rearranges(arr, unsorted, 1, Len(unsorted)) /\ InOrder(arr, log_exp)
  BY DEF RsortInv
<1>2. arr \in Seq(KeyValues) /\ unsorted \in Seq(KeyValues) /\ arr \in Seq(Nat) /\ log_exp \in Nat
  BY <1>1, RsortFacts DEF RsortTypeOK
<1>3. \A k \in 1 .. Len(arr) - 1 :
        k \in DOMAIN arr /\ k + 1 \in DOMAIN arr /\ k < k + 1 /\ arr[k] \in KeyValues /\ arr[k + 1] \in KeyValues
  BY <1>2
<1>4. \A k \in 1 .. Len(arr) - 1 : arr[k] % Pow2[log_exp] <= arr[k + 1] % Pow2[log_exp]
  BY <1>1, <1>3 DEF InOrder
<1>5. \A v \in KeyValues : Cardinality({k \in DOMAIN arr : arr[k] = v})
                           = Cardinality({k \in DOMAIN unsorted : unsorted[k] = v})
  <2>. TAKE v \in KeyValues
  <2>1. Occurs(arr, v) = Occurs(unsorted, v)
    BY <1>1, <1>2, SameOccurs
  <2>. QED  BY <2>1 DEF Occurs
<1>6. ASSUME ppc = "printed"  PROVE \A k \in 1 .. Len(arr) - 1 : arr[k] <= arr[k + 1]
  <2>1. log_exp = IntBits
    BY <1>6 DEF RsortInv
  <2>. QED  BY <1>3, <1>4, <2>1, RsortConstants
<1>7. ASSUME ppc = "place", p > 0  PROVE bucket[Digit(arr[p])] \in DOMAIN arr
  <2>1. p <= Len(arr) /\ p \in Nat
    BY <1>1, <1>7 DEF RsortInv, RsortTypeOK
  <2>2. p \in DOMAIN arr /\ DOMAIN arr = 1 .. Len(arr)
    BY <1>2, <1>7, <2>1
  <2>3. DigitIn(arr[p], log_exp) \in 0 .. BaseR - 1
    BY <1>2, <2>2, ArrayFacts
  <2>4. bucket[DigitIn(arr[p], log_exp)] = PlaceOf(arr, log_exp, p)
    BY <1>7, <2>3 DEF RsortInv, PlaceOf
  <2>5. PlaceOf(arr, log_exp, p) \in 1 .. Len(arr)
    BY <1>2, <2>2, PlaceType
  <2>6. Digit(arr[p]) = DigitIn(arr[p], log_exp)
    BY <1>1, RsortFacts
  <2>. QED  BY <2>2, <2>4, <2>5, <2>6
<1>. QED  BY <1>4, <1>5, <1>6, <1>7 DEF PassesSort

\* Radix sort sorts: after each pass the array has its elements, in the order
\* of the bits sorted by so far, no element is ever written outside the scratch
\* array, and in the end the array is in order; for any number of elements and
\* any digits.
THEOREM RsortSorts == RsortSpec => []PassesSort
<1>1. RsortInit => RsortInv
  BY RsortInitInv
<1>2. RsortInv /\ [RsortNext]_rsortVars => RsortInv'
  <2>1. RsortInv /\ UNCHANGED rsortVars => RsortInv'
    BY DEF rsortVars, RsortInv, RsortTypeOK
  <2>. QED
    BY <2>1, CountPreserves, AccumulatePreserves, StartPlacingPreserves, PlacePreserves,
       EndPassPreserves, ShowPreserves
    DEF RsortNext
<1>. QED  BY <1>1, <1>2, RsortInvSorts, PTL DEF RsortSpec

------------------------------------------------------------------------------
(* Arithmetic: integers modulo 2^Word. *)

M == Pow2[Word]
H == Pow2[Word - 1]
Q == Pow2[Word - 2]

LEMMA RangeFacts == M \in Nat /\ H \in Nat /\ Q \in Nat /\ Q >= 1 /\ H = 2 * Q /\ M = 2 * H
<1>1. Word - 2 \in Nat /\ (Word - 2) + 1 = Word - 1 /\ Word - 1 \in Nat /\ (Word - 1) + 1 = Word
  BY DivisionAssumption
<1>2. H = 2 * Q /\ Q \in Nat /\ Q >= 1
  <2>1. Pow2[(Word - 2) + 1] = 2 * Pow2[Word - 2] /\ Pow2[Word - 2] \in Nat /\ Pow2[Word - 2] >= 1
    BY <1>1, Pow2Facts
  <2>. QED  BY <1>1, <2>1 DEF H, Q
<1>3. M = 2 * H
  <2>1. Pow2[(Word - 1) + 1] = 2 * Pow2[Word - 1]
    BY <1>1, Pow2Facts
  <2>. QED  BY <1>1, <2>1 DEF M, H
<1>. QED  BY <1>2, <1>3

\* u and v are the same modulo 2^Word.
Same(u, v) == \E z \in Int : u = v + z * M

LEMMA SameRefl == ASSUME NEW u \in Int  PROVE Same(u, u)
<1>1. u = u + 0 * M
  BY RangeFacts
<1>. QED  BY <1>1 DEF Same

LEMMA SameSym == ASSUME NEW u \in Int, NEW v \in Int, Same(u, v)  PROVE Same(v, u)
<1>1. PICK z \in Int : u = v + z * M
  BY DEF Same
<1>2. v = u + (-z) * M /\ -z \in Int
  BY <1>1, RangeFacts
<1>. QED  BY <1>2 DEF Same

LEMMA SameTrans ==
  ASSUME NEW u \in Int, NEW v \in Int, NEW w \in Int, Same(u, v), Same(v, w)
  PROVE  Same(u, w)
<1>1. PICK z \in Int : u = v + z * M
  BY DEF Same
<1>2. PICK t \in Int : v = w + t * M
  BY DEF Same
<1>3. u = w + (z + t) * M /\ z + t \in Int
  BY <1>1, <1>2, RangeFacts
<1>. QED  BY <1>3 DEF Same

LEMMA SamePlus ==
  ASSUME NEW u \in Int, NEW v \in Int, NEW s \in Int, NEW t \in Int, Same(u, v), Same(s, t)
  PROVE  Same(u + s, v + t)
<1>1. PICK z \in Int : u = v + z * M
  BY DEF Same
<1>2. PICK y1 \in Int : s = t + y1 * M
  BY DEF Same
<1>3. u + s = (v + t) + (z + y1) * M /\ z + y1 \in Int
  BY <1>1, <1>2, RangeFacts
<1>. QED  BY <1>3 DEF Same

LEMMA SameTimes ==
  ASSUME NEW u \in Int, NEW v \in Int, NEW s \in Int, Same(u, v)
  PROVE  Same(s * u, s * v)
<1>1. PICK z \in Int : u = v + z * M
  BY DEF Same
<1>2. s * u = s * v + (s * z) * M /\ s * z \in Int
  BY <1>1, RangeFacts
<1>. QED  BY <1>2 DEF Same

LEMMA SameTimes2 ==
  ASSUME NEW u \in Int, NEW v \in Int, NEW s \in Int, NEW t \in Int, Same(u, v), Same(s, t)
  PROVE  Same(u * s, v * t)
<1>1. Same(s * u, s * v) /\ Same(v * s, v * t)
  BY SameTimes
<1>2. s * u = u * s /\ s * v = v * s /\ u * s \in Int /\ v * s \in Int /\ v * t \in Int
  OBVIOUS
<1>. QED  BY ONLY <1>1, <1>2, SameTrans

LEMMA UIntFacts ==
  ASSUME NEW v \in Int
  PROVE  UInt(v) \in 0 .. M - 1 /\ UInt(v) \in Int /\ Same(UInt(v), v) /\ Same(v, UInt(v))
<1>1. M \in Nat \ {0}
  BY RangeFacts
<1>2. v % M \in 0 .. M - 1 /\ v \div M \in Int /\ v = (v % M) + (v \div M) * M
  BY <1>1, ModParts
<1>3. UInt(v) = v % M
  BY DEF UInt, M
<1>4. Same(v, UInt(v))
  BY <1>2, <1>3 DEF Same
<1>. QED  BY <1>1, <1>2, <1>3, <1>4, SameSym

LEMMA UIntOf ==
  ASSUME NEW v \in Int, NEW u \in 0 .. M - 1, Same(v, u)
  PROVE  UInt(v) = u
<1>1. M \in Nat \ {0} /\ u \in Int /\ u \in 0 .. M - 1
  BY RangeFacts
<1>2. Same(UInt(v), u) /\ UInt(v) \in 0 .. M - 1
  <2>1. UInt(v) \in Int /\ Same(UInt(v), v) /\ UInt(v) \in 0 .. M - 1
    BY UIntFacts
  <2>. QED  BY <1>1, <2>1, SameTrans
<1>3. PICK z \in Int : UInt(v) = u + z * M
  BY <1>2 DEF Same
<1>4. UInt(v) + 0 * M = u + z * M
  BY <1>1, <1>2, <1>3
<1>. QED  BY ONLY <1>1, <1>2, <1>4, ModUnique

\* What of a number is left in an int.
LEMMA IntFacts ==
  ASSUME NEW v \in Int
  PROVE  Int_(v) \in AllInts /\ Int_(v) \in Int /\ Same(Int_(v), v) /\ Same(v, Int_(v))
<1>1. UInt(v) \in 0 .. M - 1 /\ UInt(v) \in Int /\ Same(UInt(v), v)
  BY UIntFacts
<1>2. AllInts = -H .. H - 1
  BY DEF AllInts, LeastInt, H
<1>3. Int_(v) = IF UInt(v) < H THEN UInt(v) ELSE UInt(v) - M
  BY DEF Int_, H, M
<1>4. Int_(v) \in AllInts /\ Int_(v) \in Int
  BY <1>1, <1>2, <1>3, RangeFacts
<1>5. Same(Int_(v), UInt(v))
  <2>1. UInt(v) = UInt(v) + 0 * M /\ UInt(v) - M = UInt(v) + (-1) * M
    BY <1>1, RangeFacts
  <2>. QED  BY <1>3, <2>1 DEF Same
<1>6. Same(Int_(v), v)
  BY <1>1, <1>4, <1>5, SameTrans
<1>. QED  BY <1>4, <1>6, SameSym

LEMMA IntOf ==
  ASSUME NEW v \in Int, NEW u \in AllInts, Same(v, u)
  PROVE  Int_(v) = u
<1>1. AllInts = -H .. H - 1 /\ H \in Nat /\ M \in Nat /\ M = 2 * H
  BY RangeFacts DEF AllInts, LeastInt, H
<1>2. Int_(v) = IF UInt(v) < H THEN UInt(v) ELSE UInt(v) - M
  BY DEF Int_, H, M
<1>3. CASE u >= 0
  <2>1. u \in 0 .. M - 1
    BY <1>1, <1>3
  <2>2. UInt(v) = u
    BY <2>1, UIntOf
  <2>. QED  BY <1>1, <1>2, <2>2
<1>4. CASE u < 0
  <2>1. u + M \in 0 .. M - 1 /\ u \in Int /\ u + M \in Int
    BY <1>1, <1>4
  <2>2. u = (u + M) + (-1) * M
    BY <1>1
  <2>3. Same(u, u + M)
    BY <2>2 DEF Same
  <2>4. Same(v, u + M)
    BY <2>1, <2>3, SameTrans
  <2>5. UInt(v) = u + M
    BY <2>1, <2>4, UIntOf
  <2>. QED  BY <1>1, <1>2, <2>1, <2>5
<1>. QED  BY <1>1, <1>3, <1>4

LEMMA IntIs == ASSUME NEW u \in AllInts  PROVE Int_(u) = u
<1>1. u \in Int
  BY RangeFacts DEF AllInts, LeastInt, H
<1>. QED  BY <1>1, SameRefl, IntOf

------------------------------------------------------------------------------
(* Arithmetic: the inductive invariant. *)

Soft == {"divide", "modulo"}

DivisionTypeOK ==
  /\ op \in {"multiply", "divide", "modulo", "__mulsi3", "__divsi3", "__modsi3"}
  /\ x0 \in AllInts /\ y0 \in AllInts
  /\ x \in Int /\ y \in Int /\ mask \in Int /\ quotient \in Int /\ sign \in Int
  /\ ma \in Nat /\ mb \in Int /\ mr \in Int /\ cnt \in Int /\ result \in Int
  /\ dpc \in {"call", "sign", "up", "back", "product", "add", "result"}
  /\ dpc = "sign" => op = "divide"
  /\ dpc \in {"up", "back"} => op \in Soft
  /\ dpc = "product" => op \in Soft \cup {"multiply"}
  /\ dpc = "add" => op = "__mulsi3"

\* Before anything happens, and while only multiply is at work.
AtStart == x = x0 /\ y = y0 /\ quotient = 0 /\ mask = 1 /\ mr = 0 /\ cnt = 0 /\ result = 0

CallInv ==
  /\ dpc = "call" /\ op \in Soft \cup {"multiply", "__mulsi3"} => AtStart
  /\ dpc = "sign" => x = x0 /\ y = y0 /\ quotient = 0 /\ mask = 1 /\ y0 # 0
  /\ dpc = "call" /\ op \in {"__divsi3", "__modsi3"} =>
       y = y0 /\ cnt >= 0 /\ x >= 0 /\ x0 = cnt * y0 + x

\* What multiply is multiplying.
Factors ==
  IF op = "multiply" \/ dpc = "sign" THEN x0 * y0
  ELSE sign * (IF op = "divide" THEN quotient ELSE x)

MultiplyInv == dpc \in {"sign", "product"} => Same(mr + ma * mb, Factors)

SignRight == sign = IF op = "divide" THEN (IF x0 * y0 < 0 THEN -1 ELSE 1) ELSE (IF x0 < 0 THEN -1 ELSE 1)

\* mask is the power of two y has been multiplied by; what it is worth in the
\* quotient and what is left of x make up the dividend.
LongDivision ==
  /\ dpc = "up" => x = Magnitude_(x0) /\ quotient = 0
  /\ dpc \in {"up", "back"} =>
       /\ y0 # 0 /\ SignRight /\ quotient >= 0 /\ x >= 0
       /\ Magnitude_(x0) = quotient * Magnitude_(y0) + x
       /\ y = Magnitude_(y0) * mask /\ \E e \in Nat : mask = Pow2[e]
  /\ dpc = "back" => x < y
  /\ dpc = "product" /\ op \in Soft =>
       /\ y0 # 0 /\ SignRight /\ quotient >= 0 /\ x >= 0
       /\ Magnitude_(x0) = quotient * Magnitude_(y0) + x /\ x < Magnitude_(y0)

AddInv ==
  dpc = "add" => /\ cnt >= 0 /\ cnt <= y /\ Same(x * y, x0 * y0)
                 /\ mr \in AllInts /\ Same(mr, cnt * x)

ResultInv == dpc = "result" => result = Expected

DivisionInv ==
  /\ DivisionTypeOK
  /\ GoodFor => CallInv /\ MultiplyInv /\ LongDivision /\ AddInv /\ ResultInv

------------------------------------------------------------------------------
(* Arithmetic: facts. *)

LEMMA ArgumentFacts ==
  ASSUME DivisionTypeOK
  PROVE  /\ x0 \in Int /\ y0 \in Int /\ x0 * y0 \in Int
         /\ Magnitude_(x0) \in Nat /\ Magnitude_(y0) \in Nat
         /\ y0 # 0 => Magnitude_(y0) >= 1
<1>1. x0 \in Int /\ y0 \in Int
  BY RangeFacts DEF DivisionTypeOK, AllInts, LeastInt, H
<1>. QED  BY <1>1 DEF Magnitude_

LEMMA SoftFacts ==
  ASSUME DivisionTypeOK, GoodFor, op \in Soft
  PROVE  Magnitude_(x0) < Q /\ abs(x0) = Magnitude_(x0) /\ abs(y0) = Magnitude_(y0)
<1>1. x0 \in AllInts /\ y0 \in AllInts
  BY DEF DivisionTypeOK
<1>2. AllInts = -H .. H - 1 /\ LeastInt = -H /\ H \in Nat /\ Q \in Nat /\ H = 2 * Q
  BY RangeFacts DEF AllInts, LeastInt, H
<1>3. y0 # -H /\ Magnitude_(x0) < Q
  BY <1>2 DEF GoodFor, Soft, Q
<1>4. x0 \in Int /\ y0 \in Int
  BY <1>1, <1>2
<1>5. abs(x0) = Magnitude_(x0)
  <2>1. CASE x0 < 0
    <3>1. -x0 \in AllInts
      BY <1>1, <1>2, <1>3, <1>4, <2>1 DEF Magnitude_
    <3>. QED  BY <2>1, <3>1, IntIs DEF abs, Magnitude_
  <2>2. CASE ~(x0 < 0)
    BY <2>2 DEF abs, Magnitude_
  <2>. QED  BY <2>1, <2>2
<1>6. abs(y0) = Magnitude_(y0)
  <2>1. CASE y0 < 0
    <3>1. -y0 \in AllInts
      BY <1>1, <1>2, <1>3, <1>4, <2>1
    <3>. QED  BY <2>1, <3>1, IntIs DEF abs, Magnitude_
  <2>2. CASE ~(y0 < 0)
    BY <2>2 DEF abs, Magnitude_
  <2>. QED  BY <2>1, <2>2
<1>. QED  BY <1>3, <1>5, <1>6

LEMMA SameGoal ==
  ASSUME UNCHANGED <<op, x0, y0>>
  PROVE  (GoodFor' <=> GoodFor) /\ Expected' = Expected
BY DEF GoodFor, Expected, Truncated

LEMMA AbsType == ASSUME NEW v \in Int  PROVE abs(v) \in Int
<1>1. -v \in Int
  OBVIOUS
<1>2. Int_(-v) \in Int
  BY <1>1, IntFacts
<1>. QED  BY <1>2 DEF abs

\* multiply starts from what it is to multiply.
LEMMA StartFacts ==
  ASSUME NEW u \in Int, NEW v \in Int, StartMultiply(u, v)
  PROVE  ma' \in Nat /\ mb' \in Int /\ mr' \in Int /\ Same(mr' + ma' * mb', u * v)
<1>1. ma' = UInt(u) /\ mb' = UInt(v) /\ mr' = 0
  BY DEF StartMultiply
<1>2. /\ UInt(u) \in 0 .. M - 1 /\ UInt(u) \in Int /\ Same(UInt(u), u)
      /\ UInt(v) \in Int /\ Same(UInt(v), v)
  BY UIntFacts
<1>3. Same(UInt(u) * UInt(v), u * v)
  BY <1>2, SameTimes2
<1>4. mr' + ma' * mb' = UInt(u) * UInt(v)
  BY <1>1, <1>2
<1>. QED  BY <1>1, <1>2, <1>3, <1>4

LEMMA Cancel ==
  ASSUME NEW d \in Nat \ {0}, NEW q \in Int, NEW r \in Int, q * d = r * d
  PROVE  q = r
<1>1. q > r => (q - r) * d >= d /\ (q - r) * d = 0
  OBVIOUS
<1>2. q < r => (r - q) * d >= d /\ (r - q) * d = 0
  OBVIOUS
<1>. QED  BY <1>1, <1>2

\* The quotient and the rest of natural numbers.
LEMMA DivisionUnique ==
  ASSUME NEW n \in Nat, NEW d \in Nat \ {0}, NEW q \in Int, NEW r \in 0 .. d - 1, n = q * d + r
  PROVE  n \div d = q
<1>1. n \in Int /\ n % d \in 0 .. d - 1 /\ n \div d \in Int /\ n = (n % d) + (n \div d) * d
  BY ModParts
<1>2. r + q * d = (n % d) + (n \div d) * d
  BY <1>1
<1>3. r = n % d
  BY ONLY <1>1, <1>2, ModUnique, d \in Nat \ {0}, q \in Int, r \in 0 .. d - 1
<1>4. q * d = (n \div d) * d
  BY <1>1, <1>2, <1>3
<1>. QED  BY ONLY <1>1, <1>4, Cancel, d \in Nat \ {0}, q \in Int

------------------------------------------------------------------------------
(* Arithmetic: the actions. *)

LEMMA MultiplyCallPreserves ==
  ASSUME DivisionInv, Multiply
  PROVE  DivisionInv'
<1>1. /\ dpc = "call" /\ op = "multiply" /\ StartMultiply(x, y) /\ dpc' = "product"
      /\ UNCHANGED <<op, x0, y0, x, y, mask, quotient, sign, cnt, result>>
  BY DEF Multiply
<1>2. x \in Int /\ y \in Int
  BY DEF DivisionInv, DivisionTypeOK
<1>3. ma' \in Nat /\ mb' \in Int /\ mr' \in Int /\ Same(mr' + ma' * mb', x * y)
  BY <1>1, <1>2, StartFacts
<1>4. DivisionTypeOK'
  BY <1>1, <1>3 DEF DivisionInv, DivisionTypeOK
<1>5. ASSUME GoodFor  PROVE (CallInv /\ MultiplyInv /\ LongDivision /\ AddInv /\ ResultInv)'
  <2>1. x = x0 /\ y = y0
    BY <1>1, <1>5 DEF DivisionInv, CallInv, AtStart
  <2>2. Factors' = x0 * y0
    BY <1>1 DEF Factors
  <2>3. MultiplyInv'
    BY <1>3, <2>1, <2>2 DEF MultiplyInv
  <2>. QED  BY <1>1, <2>3 DEF CallInv, LongDivision, AddInv, ResultInv, Soft
<1>. QED  BY <1>1, <1>4, <1>5, SameGoal DEF DivisionInv

LEMMA DivideCallPreserves ==
  ASSUME DivisionInv, Divide_
  PROVE  DivisionInv'
<1>1. /\ dpc = "call" /\ op = "divide"
      /\ IF y = 0 THEN dpc' = "result" /\ UNCHANGED <<ma, mb, mr>>
                  ELSE dpc' = "sign" /\ StartMultiply(x, y)
      /\ UNCHANGED <<op, x0, y0, x, y, mask, quotient, sign, cnt, result>>
  BY DEF Divide_
<1>2. x \in Int /\ y \in Int
  BY DEF DivisionInv, DivisionTypeOK
<1>3. ASSUME y # 0
      PROVE  ma' \in Nat /\ mb' \in Int /\ mr' \in Int /\ Same(mr' + ma' * mb', x * y)
  BY <1>1, <1>2, <1>3, StartFacts
<1>4. DivisionTypeOK'
  <2>1. CASE y = 0
    BY <1>1, <2>1 DEF DivisionInv, DivisionTypeOK
  <2>2. CASE y # 0
    BY <1>1, <1>3, <2>2 DEF DivisionInv, DivisionTypeOK
  <2>. QED  BY <2>1, <2>2
<1>5. ASSUME GoodFor  PROVE (CallInv /\ MultiplyInv /\ LongDivision /\ AddInv /\ ResultInv)'
  <2>1. x = x0 /\ y = y0 /\ quotient = 0 /\ mask = 1 /\ result = 0
    BY <1>1, <1>5 DEF DivisionInv, CallInv, AtStart, Soft
  <2>2. CASE y = 0
    <3>1. Expected' = 0
      BY <1>1, <2>1, <2>2 DEF Expected
    <3>2. dpc' = "result" /\ result' = 0
      BY <1>1, <2>1, <2>2
    <3>. QED  BY <3>1, <3>2 DEF CallInv, MultiplyInv, LongDivision, AddInv, ResultInv
  <2>3. CASE y # 0
    <3>1. dpc' = "sign"
      BY <1>1, <2>3
    <3>2. Factors' = x0 * y0
      BY <1>1, <3>1 DEF Factors
    <3>3. MultiplyInv'
      BY <1>3, <2>1, <2>3, <3>2 DEF MultiplyInv
    <3>4. CallInv'
      BY <1>1, <2>1, <2>3, <3>1 DEF CallInv
    <3>. QED  BY <3>1, <3>3, <3>4 DEF LongDivision, AddInv, ResultInv
  <2>. QED  BY <2>2, <2>3
<1>. QED  BY <1>1, <1>4, <1>5, SameGoal DEF DivisionInv

\* The loops of divide and modulo start from the magnitudes.
LEMMA LoopsStart ==
  ASSUME DivisionTypeOK, GoodFor, op \in Soft, x = x0, y = y0, y0 # 0, quotient = 0, mask = 1,
         x' = abs(x), y' = abs(y), dpc' = "up", UNCHANGED <<op, x0, y0, quotient, mask>>,
         SignRight'
  PROVE  (CallInv /\ MultiplyInv /\ LongDivision /\ AddInv /\ ResultInv)'
<1>1. x' = Magnitude_(x0) /\ y' = Magnitude_(y0)
  BY SoftFacts
<1>2. Magnitude_(x0) \in Nat /\ Magnitude_(y0) \in Nat
  BY ArgumentFacts
<1>3. mask' = Pow2[0] /\ 0 \in Nat
  BY Pow2Facts
<1>4. /\ quotient' = 0 /\ x' >= 0 /\ Magnitude_(x0) = 0 * Magnitude_(y0) + x'
      /\ y' = Magnitude_(y0) * 1 /\ mask' = 1
  BY <1>1, <1>2
<1>5. \E e \in Nat : mask' = Pow2[e]
  BY <1>3
<1>6. LongDivision'
  BY <1>1, <1>4, <1>5 DEF LongDivision
<1>. QED  BY <1>6 DEF CallInv, MultiplyInv, AddInv, ResultInv

LEMMA ModuloCallPreserves ==
  ASSUME DivisionInv, Modulo
  PROVE  DivisionInv'
<1>1. /\ dpc = "call" /\ op = "modulo"
      /\ IF y = 0 THEN dpc' = "result" /\ UNCHANGED <<x, y, sign>>
         ELSE /\ sign' = (IF x < 0 THEN -1 ELSE 1)
              /\ x' = abs(x) /\ y' = abs(y) /\ dpc' = "up"
      /\ UNCHANGED <<op, x0, y0, mask, quotient, ma, mb, mr, cnt, result>>
  BY DEF Modulo
<1>2. x \in Int /\ y \in Int
  BY DEF DivisionInv, DivisionTypeOK
<1>3. DivisionTypeOK'
  <2>1. CASE y = 0
    BY <1>1, <2>1 DEF DivisionInv, DivisionTypeOK
  <2>2. CASE y # 0
    <3>1. sign' \in Int /\ x' \in Int /\ y' \in Int /\ dpc' = "up"
      BY <1>1, <1>2, <2>2, AbsType
    <3>. QED  BY <1>1, <3>1 DEF DivisionInv, DivisionTypeOK, Soft
  <2>. QED  BY <2>1, <2>2
<1>4. ASSUME GoodFor  PROVE (CallInv /\ MultiplyInv /\ LongDivision /\ AddInv /\ ResultInv)'
  <2>1. x = x0 /\ y = y0 /\ quotient = 0 /\ mask = 1 /\ result = 0
    BY <1>1, <1>4 DEF DivisionInv, CallInv, AtStart, Soft
  <2>2. CASE y = 0
    <3>1. Expected' = 0
      BY <1>1, <2>1, <2>2 DEF Expected
    <3>2. dpc' = "result" /\ result' = 0
      BY <1>1, <2>1, <2>2
    <3>. QED  BY <3>1, <3>2 DEF CallInv, MultiplyInv, LongDivision, AddInv, ResultInv
  <2>3. CASE y # 0
    <3>1. SignRight'
      BY <1>1, <2>1, <2>3 DEF SignRight
    <3>2. op \in Soft /\ DivisionTypeOK
      BY <1>1 DEF Soft, DivisionInv
    <3>. QED  BY <1>1, <1>4, <2>1, <2>3, <3>1, <3>2, LoopsStart
  <2>. QED  BY <2>2, <2>3
<1>. QED  BY <1>1, <1>3, <1>4, SameGoal DEF DivisionInv

LEMMA FactorsType == ASSUME DivisionTypeOK  PROVE Factors \in Int
<1>1. x0 * y0 \in Int
  BY ArgumentFacts
<1>2. sign * quotient \in Int /\ sign * x \in Int
  BY DEF DivisionTypeOK
<1>. QED  BY <1>1, <1>2 DEF Factors

LEMMA HalfParts == ASSUME NEW n \in Nat
  PROVE n \div 2 \in Nat /\ n % 2 \in {0, 1} /\ n = 2 * (n \div 2) + (n % 2)
BY SMT

LEMMA ShiftPreserves ==
  ASSUME DivisionInv, Shift
  PROVE  DivisionInv'
<1>1. /\ dpc \in {"sign", "product"}
      /\ mr' = (IF ma % 2 = 1 THEN UInt(mr + mb) ELSE mr)
      /\ ma' = ma \div 2 /\ mb' = UInt(2 * mb)
      /\ UNCHANGED <<op, x0, y0, x, y, mask, quotient, sign, cnt, result, dpc>>
  BY DEF Shift
<1>2. ma \in Nat /\ mb \in Int /\ mr \in Int /\ mr + mb \in Int /\ 2 * mb \in Int
  BY DEF DivisionInv, DivisionTypeOK
<1>3. ma \div 2 \in Nat /\ ma % 2 \in {0, 1} /\ ma = 2 * (ma \div 2) + (ma % 2)
  BY <1>2, HalfParts
<1>4. /\ UInt(mr + mb) \in Int /\ Same(UInt(mr + mb), mr + mb)
      /\ UInt(2 * mb) \in Int /\ Same(UInt(2 * mb), 2 * mb)
  BY <1>2, UIntFacts
<1>5. ma' \in Nat /\ mb' \in Int /\ mr' \in Int
  BY <1>1, <1>2, <1>3, <1>4
<1>6. DivisionTypeOK'
  BY <1>1, <1>5 DEF DivisionInv, DivisionTypeOK
<1>7. Same(mr', mr + (ma % 2) * mb)
  <2>1. CASE ma % 2 = 1
    <3>1. mr + (ma % 2) * mb = mr + mb
      BY <1>2, <2>1
    <3>. QED  BY <1>1, <1>4, <2>1, <3>1
  <2>2. CASE ma % 2 = 0
    <3>1. mr + (ma % 2) * mb = mr /\ mr' = mr
      BY <1>1, <1>2, <2>2
    <3>. QED  BY <1>2, <3>1, SameRefl
  <2>. QED  BY <1>3, <2>1, <2>2
<1>8. Same(ma' * mb', (ma \div 2) * (2 * mb))
  <2>1. ma \div 2 \in Int
    BY <1>3
  <2>2. Same((ma \div 2) * UInt(2 * mb), (ma \div 2) * (2 * mb))
    BY ONLY <1>2, <1>4, <2>1, SameTimes
  <2>. QED  BY <1>1, <2>2
<1>9. Same(mr' + ma' * mb', mr + ma * mb)
  <2>1. /\ ma' * mb' \in Int /\ (ma \div 2) * (2 * mb) \in Int /\ mr' \in Int
        /\ mr + (ma % 2) * mb \in Int
    BY <1>2, <1>3, <1>5
  <2>2. Same(mr' + ma' * mb', (mr + (ma % 2) * mb) + (ma \div 2) * (2 * mb))
    BY ONLY <1>7, <1>8, <2>1, SamePlus
  <2>3. (mr + (ma % 2) * mb) + (ma \div 2) * (2 * mb) = mr + (2 * (ma \div 2) + (ma % 2)) * mb
    BY <1>2, <1>3
  <2>4. (mr + (ma % 2) * mb) + (ma \div 2) * (2 * mb) = mr + ma * mb
    BY <1>3, <2>3
  <2>. QED  BY <2>2, <2>4
<1>10. ASSUME GoodFor  PROVE (CallInv /\ MultiplyInv /\ LongDivision /\ AddInv /\ ResultInv)'
  <2>1. Same(mr + ma * mb, Factors)
    BY <1>1, <1>10 DEF DivisionInv, MultiplyInv
  <2>2. Factors \in Int /\ mr' + ma' * mb' \in Int /\ mr + ma * mb \in Int
    BY <1>2, <1>5, FactorsType DEF DivisionInv
  <2>3. Same(mr' + ma' * mb', Factors)
    BY ONLY <1>9, <2>1, <2>2, SameTrans
  <2>4. Factors' = Factors
    BY <1>1 DEF Factors
  <2>5. MultiplyInv'
    BY <2>3, <2>4 DEF MultiplyInv
  <2>6. CallInv'
    BY <1>1, <1>10 DEF DivisionInv, CallInv
  <2>7. LongDivision'
    BY <1>1, <1>10 DEF DivisionInv, LongDivision, SignRight
  <2>. QED  BY <1>1, <2>5, <2>6, <2>7 DEF AddInv, ResultInv
<1>. QED  BY <1>1, <1>6, <1>10, SameGoal DEF DivisionInv

LEMMA TakeSignPreserves ==
  ASSUME DivisionInv, TakeSign
  PROVE  DivisionInv'
<1>1. /\ dpc = "sign" /\ ma = 0
      /\ sign' = (IF Int_(mr) < 0 THEN -1 ELSE 1)
      /\ x' = abs(x) /\ y' = abs(y) /\ dpc' = "up"
      /\ UNCHANGED <<op, x0, y0, mask, quotient, ma, mb, mr, cnt, result>>
  BY DEF TakeSign
<1>2. x \in Int /\ y \in Int /\ mr \in Int /\ mb \in Int /\ op = "divide"
  BY <1>1 DEF DivisionInv, DivisionTypeOK
<1>3. DivisionTypeOK'
  <2>1. sign' \in Int /\ x' \in Int /\ y' \in Int
    BY <1>1, <1>2, AbsType
  <2>. QED  BY <1>1, <1>2, <2>1 DEF DivisionInv, DivisionTypeOK, Soft
<1>4. ASSUME GoodFor  PROVE (CallInv /\ MultiplyInv /\ LongDivision /\ AddInv /\ ResultInv)'
  <2>1. x = x0 /\ y = y0 /\ quotient = 0 /\ mask = 1 /\ y0 # 0
    BY <1>1, <1>4 DEF DivisionInv, CallInv
  <2>2. Same(mr + ma * mb, x0 * y0)
    BY <1>1, <1>4 DEF DivisionInv, MultiplyInv, Factors
  <2>3. mr + ma * mb = mr
    BY <1>1, <1>2
  <2>4. x0 * y0 \in AllInts
    BY <1>2, <1>4 DEF GoodFor
  <2>5. Int_(mr) = x0 * y0
    BY <1>2, <2>2, <2>3, <2>4, IntOf
  <2>6. SignRight'
    BY <1>1, <1>2, <2>5 DEF SignRight
  <2>7. op \in Soft /\ DivisionTypeOK
    BY <1>2 DEF Soft, DivisionInv
  <2>. QED  BY <1>1, <1>4, <2>1, <2>6, <2>7, LoopsStart
<1>. QED  BY <1>1, <1>3, <1>4, SameGoal DEF DivisionInv

LEMMA DoublePreserves ==
  ASSUME DivisionInv, Double
  PROVE  DivisionInv'
<1>1. /\ dpc = "up"
      /\ IF y <= x THEN y' = Int_(2 * y) /\ mask' = UInt(2 * mask) /\ UNCHANGED dpc
                   ELSE dpc' = "back" /\ UNCHANGED <<y, mask>>
      /\ UNCHANGED <<op, x0, y0, x, quotient, sign, ma, mb, mr, cnt, result>>
  BY DEF Double
<1>2. x \in Int /\ y \in Int /\ mask \in Int /\ 2 * y \in Int /\ 2 * mask \in Int /\ op \in Soft
  BY <1>1 DEF DivisionInv, DivisionTypeOK
<1>3. DivisionTypeOK'
  <2>1. y' \in Int /\ mask' \in Int
    BY <1>1, <1>2, IntFacts, UIntFacts
  <2>. QED  BY <1>1, <1>2, <2>1 DEF DivisionInv, DivisionTypeOK
<1>4. ASSUME GoodFor  PROVE (CallInv /\ MultiplyInv /\ LongDivision /\ AddInv /\ ResultInv)'
  <2>1. /\ x = Magnitude_(x0) /\ quotient = 0
        /\ y0 # 0 /\ SignRight /\ quotient >= 0 /\ x >= 0
        /\ Magnitude_(x0) = quotient * Magnitude_(y0) + x
        /\ y = Magnitude_(y0) * mask /\ \E e \in Nat : mask = Pow2[e]
    BY <1>1, <1>4 DEF DivisionInv, LongDivision
  <2>2. Magnitude_(y0) \in Nat /\ Magnitude_(y0) >= 1 /\ Magnitude_(x0) < Q
    BY <1>2, <1>4, <2>1, ArgumentFacts, SoftFacts DEF DivisionInv
  <2>3. PICK e \in Nat : mask = Pow2[e]
    BY <2>1
  <2>4. Pow2[e] >= 1 /\ Pow2[e + 1] = 2 * Pow2[e] /\ e + 1 \in Nat
    BY Pow2Facts
  <2>5. SignRight'
    BY <1>1, <2>1 DEF SignRight
  <2>6. CASE y <= x
    <3>1. mask <= y /\ mask >= 1
      BY <1>2, <2>1, <2>2, <2>3, <2>4
    <3>2. 2 * y \in AllInts /\ 2 * mask \in 0 .. M - 1
      BY <1>2, <2>1, <2>2, <2>6, <3>1, RangeFacts DEF AllInts, LeastInt, H
    <3>3. y' = 2 * y
      BY <1>1, <2>6, <3>2, IntIs
    <3>4. mask' = 2 * mask
      BY <1>1, <1>2, <2>6, <3>2, SameRefl, UIntOf
    <3>5. y' = Magnitude_(y0) * mask'
      BY <1>2, <2>1, <2>2, <3>3, <3>4
    <3>6. \E f \in Nat : mask' = Pow2[f]
      BY <2>3, <2>4, <3>4
    <3>7. LongDivision'
      BY <1>1, <2>1, <2>5, <2>6, <3>5, <3>6 DEF LongDivision
    <3>. QED  BY <1>1, <2>6, <3>7 DEF CallInv, MultiplyInv, AddInv, ResultInv
  <2>7. CASE ~(y <= x)
    <3>1. dpc' = "back" /\ x' < y' /\ UNCHANGED <<x, y, mask>>
      BY <1>1, <1>2, <2>7
    <3>2. LongDivision'
      BY <1>1, <2>1, <2>5, <3>1 DEF LongDivision
    <3>. QED  BY <3>1, <3>2 DEF CallInv, MultiplyInv, AddInv, ResultInv
  <2>. QED  BY <2>6, <2>7
<1>. QED  BY <1>1, <1>3, <1>4, SameGoal DEF DivisionInv

LEMMA HalfOfDouble == ASSUME NEW n \in Int  PROVE (2 * n) \div 2 = n
BY SMT

LEMMA HalfType == ASSUME NEW n \in Int  PROVE n \div 2 \in Int
BY SMT

LEMMA TakeOff ==
  ASSUME NEW n \in Nat, NEW d \in Nat, NEW q \in Int, NEW k \in Nat, NEW r \in Int, NEW w \in Int,
         n = q * d + r, w = d * k, w <= r, r < 2 * w
  PROVE  n = (q + k) * d + (r - w) /\ r - w >= 0 /\ r - w < w
<1>1. (q + k) * d = q * d + w /\ q * d \in Int
  OBVIOUS
<1>2. n = (q * d + w) + (r - w)
  BY <1>1
<1>. QED  BY <1>1, <1>2

LEMMA HalvePreserves ==
  ASSUME DivisionInv, Halve
  PROVE  DivisionInv'
<1>1. /\ dpc = "back" /\ mask > 1
      /\ y' = y \div 2 /\ mask' = mask \div 2
      /\ IF x >= y' THEN x' = x - y' /\ quotient' = quotient + mask'
                    ELSE UNCHANGED <<x, quotient>>
      /\ UNCHANGED <<op, x0, y0, sign, ma, mb, mr, cnt, result, dpc>>
  BY DEF Halve
<1>2. x \in Int /\ y \in Int /\ mask \in Int /\ quotient \in Int
  BY DEF DivisionInv, DivisionTypeOK
<1>3. y' \in Int /\ mask' \in Int
  BY <1>1, <1>2, HalfType
<1>4. DivisionTypeOK'
  <2>1. x' \in Int /\ quotient' \in Int
    BY <1>1, <1>2, <1>3
  <2>. QED  BY <1>1, <1>3, <2>1 DEF DivisionInv, DivisionTypeOK
<1>5. ASSUME GoodFor  PROVE (CallInv /\ MultiplyInv /\ LongDivision /\ AddInv /\ ResultInv)'
  <2>1. /\ y0 # 0 /\ SignRight /\ quotient >= 0 /\ x >= 0
        /\ Magnitude_(x0) = quotient * Magnitude_(y0) + x
        /\ y = Magnitude_(y0) * mask /\ x < y
    BY <1>1, <1>5 DEF DivisionInv, LongDivision
  <2>2. PICK e \in Nat : mask = Pow2[e]
    BY <1>1, <1>5 DEF DivisionInv, LongDivision
  <2>3. e - 1 \in Nat
    <3>1. e # 0
      BY <1>1, <2>2, Pow2Facts
    <3>. QED  BY <3>1
  <2>4. mask = 2 * Pow2[e - 1] /\ Pow2[e - 1] \in Nat /\ Pow2[e - 1] >= 1
    <3>1. Pow2[(e - 1) + 1] = 2 * Pow2[e - 1] /\ Pow2[e - 1] \in Nat /\ Pow2[e - 1] >= 1
      BY <2>3, Pow2Facts
    <3>2. (e - 1) + 1 = e
      OBVIOUS
    <3>. QED  BY <2>2, <3>1, <3>2
  <2>5. mask' = Pow2[e - 1] /\ mask' \in Nat /\ mask' >= 1
    BY <1>1, <2>4, HalfOfDouble
  <2>6. Magnitude_(y0) \in Nat /\ Magnitude_(x0) \in Nat
    BY ArgumentFacts DEF DivisionInv
  <2>7. y = 2 * (Magnitude_(y0) * mask') /\ Magnitude_(y0) * mask' \in Int
    BY <2>1, <2>4, <2>5, <2>6
  <2>8. y' = Magnitude_(y0) * mask'
    BY <1>1, <2>7, HalfOfDouble
  <2>9. y = 2 * y'
    BY <2>7, <2>8
  <2>10. /\ quotient' >= 0 /\ x' >= 0 /\ x' < y'
         /\ Magnitude_(x0) = quotient' * Magnitude_(y0) + x'
    <3>1. CASE x >= y'
      <4>1. quotient' = quotient + mask' /\ x' = x - y'
        BY <1>1, <3>1
      <4>2. /\ Magnitude_(x0) = (quotient + mask') * Magnitude_(y0) + (x - y')
            /\ x - y' >= 0 /\ x - y' < y'
        BY <1>2, <1>3, <2>1, <2>5, <2>6, <2>8, <2>9, <3>1, TakeOff
      <4>3. quotient + mask' >= 0
        BY <1>2, <2>1, <2>5
      <4>. QED  BY <4>1, <4>2, <4>3
    <3>2. CASE ~(x >= y')
      BY <1>1, <1>2, <1>3, <2>1, <3>2
    <3>. QED  BY <3>1, <3>2
  <2>11. SignRight'
    BY <1>1, <2>1 DEF SignRight
  <2>12. \E f \in Nat : mask' = Pow2[f]
    BY <2>3, <2>5
  <2>13. (Magnitude_(x0))' = Magnitude_(x0) /\ (Magnitude_(y0))' = Magnitude_(y0)
    BY <1>1
  <2>14. LongDivision'
    BY <1>1, <2>1, <2>8, <2>10, <2>11, <2>12, <2>13 DEF LongDivision
  <2>. QED  BY <1>1, <2>14 DEF CallInv, MultiplyInv, AddInv, ResultInv
<1>. QED  BY <1>1, <1>4, <1>5, SameGoal DEF DivisionInv

LEMMA PutSignPreserves ==
  ASSUME DivisionInv, PutSign
  PROVE  DivisionInv'
<1>. DEFINE v == IF op = "divide" THEN quotient ELSE x
<1>1. /\ dpc = "back" /\ mask <= 1 /\ StartMultiply(sign, v) /\ dpc' = "product"
      /\ UNCHANGED <<op, x0, y0, x, y, mask, quotient, sign, cnt, result>>
  BY DEF PutSign
<1>2. v \in Int /\ sign \in Int /\ mask \in Int /\ op \in Soft
  BY <1>1 DEF DivisionInv, DivisionTypeOK
<1>3. ma' \in Nat /\ mb' \in Int /\ mr' \in Int /\ Same(mr' + ma' * mb', sign * v)
  <2>. HIDE DEF v
  <2>. QED  BY <1>1, <1>2, StartFacts
<1>4. DivisionTypeOK'
  BY <1>1, <1>2, <1>3 DEF DivisionInv, DivisionTypeOK
<1>5. ASSUME GoodFor  PROVE (CallInv /\ MultiplyInv /\ LongDivision /\ AddInv /\ ResultInv)'
  <2>1. /\ y0 # 0 /\ SignRight /\ quotient >= 0 /\ x >= 0
        /\ Magnitude_(x0) = quotient * Magnitude_(y0) + x
        /\ y = Magnitude_(y0) * mask /\ x < y
    BY <1>1, <1>5 DEF DivisionInv, LongDivision
  <2>2. PICK e \in Nat : mask = Pow2[e]
    BY <1>1, <1>5 DEF DivisionInv, LongDivision
  <2>3. mask = 1
    BY <1>1, <1>2, <2>2, Pow2Facts
  <2>4. x < Magnitude_(y0)
    BY <2>1, <2>3, ArgumentFacts DEF DivisionInv
  <2>5. SignRight'
    BY <1>1, <2>1 DEF SignRight
  <2>6. LongDivision'
    BY <1>1, <2>1, <2>4, <2>5 DEF LongDivision
  <2>7. Factors' = sign * v
    BY <1>1, <1>2 DEF Factors, Soft
  <2>8. MultiplyInv'
    BY <1>3, <2>7 DEF MultiplyInv
  <2>. QED  BY <1>1, <2>6, <2>8 DEF CallInv, AddInv, ResultInv
<1>. QED  BY <1>1, <1>4, <1>5, SameGoal DEF DivisionInv

LEMMA NoLarger ==
  ASSUME NEW n \in Nat, NEW d \in Nat \ {0}, NEW q \in Int, NEW r \in Int, q >= 0, r >= 0, n = q * d + r
  PROVE  q <= n /\ r <= n /\ (n = 0 => q = 0)
<1>1. q * d >= q /\ q * d \in Int
  OBVIOUS
<1>. QED  BY <1>1

LEMMA NegatedTimes ==
  ASSUME NEW u \in Int, NEW v \in Int
  PROVE  (-u) * v = -(u * v) /\ u * (-v) = -(u * v)
BY SMT

\* What divide and modulo multiply by the sign is the quotient, and the rest.
LEMMA SignedResults ==
  ASSUME DivisionTypeOK, GoodFor, dpc = "product", op \in Soft, y0 # 0, SignRight, quotient >= 0, x >= 0,
         Magnitude_(x0) = quotient * Magnitude_(y0) + x, x < Magnitude_(y0)
  PROVE  Expected = Factors /\ Factors \in AllInts
<1>. DEFINE X == Magnitude_(x0)
            Y == Magnitude_(y0)
<1>1. /\ x0 \in Int /\ y0 \in Int /\ X \in Nat /\ Y \in Nat \ {0} /\ X < Q
      /\ quotient \in Int /\ x \in Int
  BY ArgumentFacts, SoftFacts DEF DivisionTypeOK
<1>2. X \div Y = quotient
  <2>1. x \in 0 .. Y - 1 /\ X = quotient * Y + x
    BY <1>1
  <2>. QED  BY ONLY <1>1, <2>1, DivisionUnique
<1>3. quotient <= X /\ x <= X /\ (X = 0 => quotient = 0)
  <2>1. X = quotient * Y + x /\ quotient >= 0 /\ x >= 0
    BY <1>1
  <2>. QED  BY ONLY <1>1, <2>1, NoLarger
<1>4. Truncated = IF (x0 < 0) = (y0 < 0) THEN quotient ELSE -quotient
  BY <1>2 DEF Truncated
<1>5. CASE op = "divide"
  <2>1. sign = (IF x0 * y0 < 0 THEN -1 ELSE 1) /\ op # "multiply"
    BY <1>5 DEF SignRight
  <2>2. Expected = Truncated
    BY <1>5 DEF Expected
  <2>3. x0 = 0 => quotient = 0
    BY <1>3 DEF Magnitude_
  <2>4. x0 * y0 < 0 <=> x0 # 0 /\ ~((x0 < 0) = (y0 < 0))
    <3>1. x0 > 0 /\ y0 > 0 => x0 * y0 > 0
      BY <1>1
    <3>2. x0 < 0 /\ y0 < 0 => x0 * y0 > 0
      BY <1>1
    <3>3. x0 > 0 /\ y0 < 0 => x0 * y0 < 0
      BY <1>1
    <3>4. x0 < 0 /\ y0 > 0 => x0 * y0 < 0
      BY <1>1
    <3>5. x0 = 0 => x0 * y0 = 0
      BY <1>1
    <3>6. x0 * y0 \in Int
      BY <1>1
    <3>. QED  BY <1>1, <3>1, <3>2, <3>3, <3>4, <3>5, <3>6
  <2>5. Truncated = sign * quotient
    BY <1>1, <1>4, <2>1, <2>3, <2>4
  <2>6. sign * quotient \in AllInts
    <3>1. sign * quotient = quotient \/ sign * quotient = -quotient
      BY <1>1, <2>1
    <3>. QED  BY <1>1, <1>3, <3>1, RangeFacts DEF AllInts, LeastInt, H
  <2>. QED  BY <1>5, <2>1, <2>2, <2>5, <2>6 DEF Factors
<1>6. CASE op = "modulo"
  <2>1. sign = (IF x0 < 0 THEN -1 ELSE 1) /\ op # "multiply" /\ op # "divide"
    BY <1>6 DEF SignRight
  <2>2. Expected = x0 - y0 * Truncated
    BY <1>6 DEF Expected
  <2>3. y0 * Truncated = IF x0 < 0 THEN -(quotient * Y) ELSE quotient * Y
    <3>1. y0 * quotient = quotient * y0 /\ (-y0) * quotient = -(y0 * quotient)
          /\ y0 * (-quotient) = -(y0 * quotient) /\ quotient * (-y0) = -(y0 * quotient)
          /\ y0 * quotient \in Int
      BY <1>1
    <3>2. Y = IF y0 < 0 THEN -y0 ELSE y0
      BY DEF Magnitude_
    <3>. QED  BY <1>1, <1>4, <3>1, <3>2
  <2>4. x0 - y0 * Truncated = sign * x
    <3>1. X = (IF x0 < 0 THEN -x0 ELSE x0) /\ X = quotient * Y + x /\ quotient * Y \in Int
      BY <1>1 DEF Magnitude_
    <3>2. sign * x = IF x0 < 0 THEN -x ELSE x
      BY <1>1, <2>1
    <3>. HIDE DEF X, Y
    <3>. QED  BY <1>1, <2>3, <3>1, <3>2
  <2>5. sign * x \in AllInts
    <3>1. sign * x = x \/ sign * x = -x
      BY <1>1, <2>1
    <3>. QED  BY <1>1, <1>3, <3>1, RangeFacts DEF AllInts, LeastInt, H
  <2>. QED  BY <1>6, <2>1, <2>2, <2>4, <2>5 DEF Factors
<1>. QED  BY <1>5, <1>6 DEF Soft

LEMMA ReturnPreserves ==
  ASSUME DivisionInv, Return
  PROVE  DivisionInv'
<1>1. /\ dpc = "product" /\ ma = 0 /\ result' = Int_(mr) /\ dpc' = "result"
      /\ UNCHANGED <<op, x0, y0, x, y, mask, quotient, sign, ma, mb, mr, cnt>>
  BY DEF Return
<1>2. mr \in Int /\ mb \in Int /\ op \in Soft \cup {"multiply"} /\ DivisionTypeOK
  BY <1>1 DEF DivisionInv, DivisionTypeOK
<1>3. DivisionTypeOK'
  <2>1. result' \in Int
    BY <1>1, <1>2, IntFacts
  <2>. QED  BY <1>1, <2>1 DEF DivisionInv, DivisionTypeOK
<1>4. ASSUME GoodFor  PROVE (CallInv /\ MultiplyInv /\ LongDivision /\ AddInv /\ ResultInv)'
  <2>1. Same(mr, Factors)
    <3>1. Same(mr + ma * mb, Factors)
      BY <1>1, <1>4 DEF DivisionInv, MultiplyInv
    <3>2. mr + ma * mb = mr
      BY <1>1, <1>2
    <3>. QED  BY <3>1, <3>2
  <2>2. Int_(mr) = Expected
    <3>1. CASE op = "multiply"
      <4>1. Factors = x0 * y0 /\ Expected = Int_(x0 * y0)
        BY <3>1 DEF Factors, Expected
      <4>2. /\ x0 * y0 \in Int /\ Int_(x0 * y0) \in AllInts /\ Int_(x0 * y0) \in Int
            /\ Same(x0 * y0, Int_(x0 * y0))
        BY <1>2, ArgumentFacts, IntFacts
      <4>3. Same(mr, x0 * y0)
        BY <2>1, <4>1
      <4>4. Same(mr, Int_(x0 * y0))
        BY ONLY <1>2, <4>2, <4>3, SameTrans
      <4>5. Int_(mr) = Int_(x0 * y0)
        BY ONLY <1>2, <4>2, <4>4, IntOf
      <4>. QED  BY <4>1, <4>5
    <3>2. CASE op \in Soft
      <4>1. Expected = Factors /\ Factors \in AllInts
        BY <1>1, <1>2, <1>4, <3>2, SignedResults DEF DivisionInv, LongDivision
      <4>2. Int_(mr) = Factors
        BY <1>2, <2>1, <4>1, IntOf
      <4>. QED  BY <4>1, <4>2
    <3>. QED  BY <1>2, <3>1, <3>2
  <2>3. ResultInv'
    BY <1>1, <2>2, SameGoal DEF ResultInv
  <2>. QED  BY <1>1, <2>3 DEF CallInv, MultiplyInv, LongDivision, AddInv
<1>. QED  BY <1>1, <1>3, <1>4, SameGoal DEF DivisionInv

LEMMA ZeroTimes == \A v \in Int : 0 * v = 0
OBVIOUS

LEMMA NegatePreserves ==
  ASSUME DivisionInv, Negate
  PROVE  DivisionInv'
<1>1. /\ dpc = "call" /\ op = "__mulsi3" /\ dpc' = "add"
      /\ IF y < 0 THEN x' = Int_(0 - x) /\ y' = Int_(0 - y) ELSE UNCHANGED <<x, y>>
      /\ UNCHANGED <<op, x0, y0, mask, quotient, sign, ma, mb, mr, cnt, result>>
  BY DEF Negate
<1>2. x \in Int /\ y \in Int /\ 0 - x \in Int /\ 0 - y \in Int /\ DivisionTypeOK
  BY DEF DivisionInv, DivisionTypeOK
<1>3. x' \in Int /\ y' \in Int
  BY <1>1, <1>2, IntFacts
<1>4. DivisionTypeOK'
  BY <1>1, <1>3 DEF DivisionInv, DivisionTypeOK
<1>5. ASSUME GoodFor  PROVE (CallInv /\ MultiplyInv /\ LongDivision /\ AddInv /\ ResultInv)'
  <2>1. x = x0 /\ y = y0 /\ mr = 0 /\ cnt = 0
    BY <1>1, <1>5 DEF DivisionInv, CallInv, AtStart
  <2>2. /\ x0 \in Int /\ y0 \in Int /\ y0 \in AllInts /\ y0 # LeastInt
        /\ H \in Nat /\ H >= 1 /\ AllInts = -H .. H - 1 /\ LeastInt = -H
    BY <1>1, <1>2, <1>5, ArgumentFacts, RangeFacts DEF GoodFor, DivisionTypeOK, AllInts, LeastInt, H
  <2>3. y' >= 0 /\ Same(x' * y', x0 * y0)
    <3>1. CASE y < 0
      <4>1. x' = Int_(0 - x0) /\ y' = Int_(0 - y0)
        BY <1>1, <2>1, <3>1
      <4>2. 0 - y0 \in AllInts /\ 0 - y0 >= 0
        BY <2>1, <2>2, <3>1
      <4>3. y' = 0 - y0
        BY <4>1, <4>2, IntIs
      <4>4. 0 - x0 \in Int /\ 0 - y0 \in Int /\ Same(x', 0 - x0)
        BY <2>2, <4>1, IntFacts
      <4>5. Same((0 - y0) * x', (0 - y0) * (0 - x0))
        BY ONLY <1>3, <4>4, SameTimes
      <4>6. (0 - y0) * x' = x' * y' /\ (0 - y0) * (0 - x0) = x0 * y0
        BY <1>3, <2>2, <4>3
      <4>. QED  BY <4>2, <4>3, <4>5, <4>6
    <3>2. CASE ~(y < 0)
      <4>1. x' = x0 /\ y' = y0 /\ y0 >= 0
        BY <1>1, <2>1, <2>2, <3>2
      <4>. QED  BY <1>2, <4>1, ArgumentFacts, SameRefl
    <3>. QED  BY <3>1, <3>2
  <2>4. mr' \in AllInts /\ Same(mr', cnt' * x') /\ cnt' = 0
    <3>1. mr' = 0 /\ cnt' = 0 /\ 0 * x' = 0 /\ 0 \in AllInts
      <4>1. 0 * x' = 0
        BY <1>3, ZeroTimes
      <4>. QED  BY <1>1, <2>1, <2>2, <4>1
    <3>2. Same(0, 0)
      BY SameRefl
    <3>. QED  BY <3>1, <3>2
  <2>5. AddInv'
    BY <1>1, <1>3, <2>3, <2>4 DEF AddInv
  <2>. QED  BY <1>1, <2>5 DEF CallInv, MultiplyInv, LongDivision, ResultInv
<1>. QED  BY <1>1, <1>4, <1>5, SameGoal DEF DivisionInv

LEMMA AddPreserves ==
  ASSUME DivisionInv, Add
  PROVE  DivisionInv'
<1>1. /\ dpc = "add"
      /\ IF cnt < y THEN mr' = Int_(mr + x) /\ cnt' = cnt + 1 /\ UNCHANGED <<result, dpc>>
                    ELSE result' = mr /\ dpc' = "result" /\ UNCHANGED <<mr, cnt>>
      /\ UNCHANGED <<op, x0, y0, x, y, mask, quotient, sign, ma, mb>>
  BY DEF Add
<1>2. /\ x \in Int /\ y \in Int /\ cnt \in Int /\ mr \in Int /\ mr + x \in Int /\ op = "__mulsi3"
      /\ DivisionTypeOK
  BY <1>1 DEF DivisionInv, DivisionTypeOK
<1>3. DivisionTypeOK'
  <2>1. mr' \in Int /\ cnt' \in Int
    BY <1>1, <1>2, IntFacts
  <2>. QED  BY <1>1, <2>1 DEF DivisionInv, DivisionTypeOK
<1>4. ASSUME GoodFor  PROVE (CallInv /\ MultiplyInv /\ LongDivision /\ AddInv /\ ResultInv)'
  <2>1. /\ cnt >= 0 /\ cnt <= y /\ Same(x * y, x0 * y0)
        /\ mr \in AllInts /\ Same(mr, cnt * x)
    BY <1>1, <1>4 DEF DivisionInv, AddInv
  <2>2. CASE cnt < y
    <3>1. mr' = Int_(mr + x) /\ cnt' = cnt + 1 /\ dpc' = dpc
      BY <1>1, <2>2
    <3>2. mr' \in AllInts /\ mr' \in Int /\ Same(mr', mr + x)
      BY <1>2, <3>1, IntFacts
    <3>3. cnt * x \in Int /\ cnt * x + x \in Int /\ cnt' * x' = cnt * x + x
      BY <1>1, <1>2, <3>1
    <3>4. Same(mr + x, cnt * x + x)
      BY <1>2, <2>1, <3>3, SameRefl, SamePlus
    <3>5. Same(mr', cnt' * x')
      BY <1>2, <3>2, <3>3, <3>4, SameTrans
    <3>6. AddInv'
      BY <1>1, <1>2, <2>1, <2>2, <3>1, <3>2, <3>5 DEF AddInv
    <3>. QED  BY <1>1, <3>1, <3>6 DEF CallInv, MultiplyInv, LongDivision, ResultInv
  <2>3. CASE ~(cnt < y)
    <3>1. result' = mr /\ dpc' = "result" /\ cnt = y
      BY <1>1, <1>2, <2>1, <2>3
    <3>2. cnt * x = x * y /\ x * y \in Int /\ x0 * y0 \in Int
      BY <1>2, <3>1, ArgumentFacts
    <3>3. Same(mr, x0 * y0)
      BY <1>2, <2>1, <3>2, SameTrans
    <3>4. Int_(x0 * y0) = mr
      BY <1>2, <2>1, <3>2, <3>3, SameSym, IntOf
    <3>5. Expected = mr
      BY <1>2, <3>4 DEF Expected
    <3>6. ResultInv'
      BY <1>1, <3>1, <3>5, SameGoal DEF ResultInv
    <3>. QED  BY <3>1, <3>6 DEF CallInv, MultiplyInv, LongDivision, AddInv
  <2>. QED  BY <2>2, <2>3
<1>. QED  BY <1>1, <1>3, <1>4, SameGoal DEF DivisionInv

LEMMA SubtractPreserves ==
  ASSUME DivisionInv, Subtract
  PROVE  DivisionInv'
<1>1. /\ dpc = "call" /\ op \in {"__divsi3", "__modsi3"}
      /\ IF x < y THEN /\ result' = (IF op = "__divsi3" THEN cnt ELSE x)
                       /\ dpc' = "result" /\ UNCHANGED <<x, cnt>>
         ELSE x' = Int_(x - y) /\ cnt' = Int_(cnt + 1) /\ UNCHANGED <<result, dpc>>
      /\ UNCHANGED <<op, x0, y0, y, mask, quotient, sign, ma, mb, mr>>
  BY DEF Subtract
<1>2. x \in Int /\ y \in Int /\ cnt \in Int /\ x - y \in Int /\ cnt + 1 \in Int /\ DivisionTypeOK
  BY DEF DivisionInv, DivisionTypeOK
<1>3. DivisionTypeOK'
  <2>1. x' \in Int /\ cnt' \in Int /\ result' \in Int
    <3>1. result \in Int
      BY <1>2 DEF DivisionTypeOK
    <3>. QED  BY <1>1, <1>2, <3>1, IntFacts
  <2>. QED  BY <1>1, <2>1 DEF DivisionInv, DivisionTypeOK
<1>4. ASSUME GoodFor  PROVE (CallInv /\ MultiplyInv /\ LongDivision /\ AddInv /\ ResultInv)'
  <2>1. y = y0 /\ cnt >= 0 /\ x >= 0 /\ x0 = cnt * y0 + x
    BY <1>1, <1>4 DEF DivisionInv, CallInv
  <2>2. x0 >= 0 /\ y0 > 0 /\ x0 \in AllInts /\ y0 \in AllInts
    BY <1>1, <1>2, <1>4 DEF GoodFor, DivisionTypeOK
  <2>3. /\ x0 \in Nat /\ y0 \in Nat \ {0} /\ H \in Nat /\ AllInts = -H .. H - 1
    BY <1>2, <2>2, ArgumentFacts, RangeFacts DEF AllInts, LeastInt, H
  <2>4. CASE x < y
    <3>1. result' = (IF op = "__divsi3" THEN cnt ELSE x) /\ dpc' = "result"
      BY <1>1, <2>4
    <3>2. x \in 0 .. y0 - 1
      BY <1>2, <2>1, <2>3, <2>4
    <3>3. x0 \div y0 = cnt
      BY ONLY <1>2, <2>1, <2>3, <3>2, DivisionUnique
    <3>4. Truncated = cnt
      BY <2>2, <2>3, <3>3 DEF Truncated, Magnitude_
    <3>5. x0 - y0 * cnt = x
      <4>1. y0 * cnt = cnt * y0 /\ cnt * y0 \in Int
        BY <1>2, <2>3
      <4>. QED  BY <1>2, <2>1, <2>3, <4>1
    <3>6. Expected = IF op = "__divsi3" THEN cnt ELSE x
      BY <1>1, <2>3, <3>4, <3>5 DEF Expected
    <3>7. ResultInv'
      BY <1>1, <3>1, <3>6, SameGoal DEF ResultInv
    <3>. QED  BY <3>1, <3>7 DEF CallInv, MultiplyInv, LongDivision, AddInv
  <2>5. CASE ~(x < y)
    <3>1. x' = Int_(x - y) /\ cnt' = Int_(cnt + 1) /\ dpc' = dpc
      BY <1>1, <2>5
    <3>2. x - y >= 0 /\ x0 = (cnt + 1) * y0 + (x - y)
      <4>1. (cnt + 1) * y0 = cnt * y0 + y0 /\ cnt * y0 \in Int
        BY <1>2, <2>3
      <4>. QED  BY <1>2, <2>1, <2>3, <2>5, <4>1
    <3>3. cnt + 1 <= x0 /\ x - y <= x0
      BY <1>2, <2>1, <2>3, <3>2, NoLarger
    <3>4. cnt + 1 \in AllInts /\ x - y \in AllInts
      BY <1>2, <2>1, <2>2, <2>3, <3>2, <3>3
    <3>5. x' = x - y /\ cnt' = cnt + 1
      BY <3>1, <3>4, IntIs
    <3>6. cnt' >= 0
      BY <1>2, <2>1, <3>5
    <3>7. CallInv'
      BY <1>1, <2>1, <3>1, <3>2, <3>5, <3>6 DEF CallInv, Soft
    <3>. QED  BY <1>1, <3>1, <3>7 DEF MultiplyInv, LongDivision, AddInv, ResultInv
  <2>. QED  BY <2>4, <2>5
<1>. QED  BY <1>1, <1>3, <1>4, SameGoal DEF DivisionInv

LEMMA DivisionInitInv == DivisionInit => DivisionInv
<1>. SUFFICES ASSUME DivisionInit  PROVE DivisionInv
  OBVIOUS
<1>1. /\ op \in {"multiply", "divide", "modulo", "__mulsi3", "__divsi3", "__modsi3"}
      /\ x0 \in AllInts /\ y0 \in AllInts /\ x = x0 /\ y = y0
      /\ mask = 1 /\ quotient = 0 /\ sign = 1
      /\ ma = 0 /\ mb = 0 /\ mr = 0 /\ cnt = 0 /\ result = 0 /\ dpc = "call"
  BY DEF DivisionInit
<1>2. x0 \in Int /\ y0 \in Int
  BY <1>1, RangeFacts DEF AllInts, LeastInt, H
<1>3. DivisionTypeOK
  BY <1>1, <1>2 DEF DivisionTypeOK
<1>4. ASSUME GoodFor  PROVE CallInv
  <2>1. x0 = 0 * y0 + x0
    BY <1>2
  <2>2. op \in {"__divsi3", "__modsi3"} => x0 >= 0
    BY <1>4 DEF GoodFor
  <2>. QED  BY <1>1, <2>1, <2>2 DEF CallInv, AtStart
<1>. QED  BY <1>1, <1>3, <1>4 DEF DivisionInv, MultiplyInv, LongDivision, AddInv, ResultInv

\* divide, modulo and the functions the compiler calls are right for an int of
\* any width, for all arguments they are good for: y never gets to 0, and the
\* result is C's.
THEOREM SoftwareDivides == DivisionSpec => []DividesRight
<1>1. DivisionInit => DivisionInv
  BY DivisionInitInv
<1>2. DivisionInv /\ [DivisionNext]_divisionVars => DivisionInv'
  <2>. SUFFICES ASSUME DivisionInv, [DivisionNext]_divisionVars  PROVE DivisionInv'
    OBVIOUS
  <2>1. CASE Multiply
    BY <2>1, MultiplyCallPreserves
  <2>2. CASE Divide_
    BY <2>2, DivideCallPreserves
  <2>3. CASE Modulo
    BY <2>3, ModuloCallPreserves
  <2>4. CASE Shift
    BY <2>4, ShiftPreserves
  <2>5. CASE TakeSign
    BY <2>5, TakeSignPreserves
  <2>6. CASE Double
    BY <2>6, DoublePreserves
  <2>7. CASE Halve
    BY <2>7, HalvePreserves
  <2>8. CASE PutSign
    BY <2>8, PutSignPreserves
  <2>9. CASE Return
    BY <2>9, ReturnPreserves
  <2>10. CASE Negate
    BY <2>10, NegatePreserves
  <2>11. CASE Add
    BY <2>11, AddPreserves
  <2>12. CASE Subtract
    BY <2>12, SubtractPreserves
  <2>13. CASE UNCHANGED divisionVars
    BY <2>13, SameGoal
    DEF divisionVars, DivisionInv, DivisionTypeOK, CallInv, AtStart, MultiplyInv, Factors, LongDivision,
        SignRight, AddInv, ResultInv
  <2>. QED
    BY <2>1, <2>2, <2>3, <2>4, <2>5, <2>6, <2>7, <2>8, <2>9, <2>10, <2>11, <2>12, <2>13 DEF DivisionNext
<1>3. DivisionInv => DividesRight
  <2>. SUFFICES ASSUME DivisionInv, GoodFor
       PROVE  (dpc \in {"up", "back"} => y > 0) /\ (dpc = "result" => result = Expected)
    BY DEF DividesRight
  <2>1. ASSUME dpc \in {"up", "back"}  PROVE y > 0
    <3>1. y0 # 0 /\ y = Magnitude_(y0) * mask /\ \E e \in Nat : mask = Pow2[e]
      BY <2>1 DEF DivisionInv, LongDivision
    <3>2. Magnitude_(y0) \in Nat /\ Magnitude_(y0) >= 1
      BY <3>1, ArgumentFacts DEF DivisionInv
    <3>3. mask \in Nat /\ mask >= 1
      BY <3>1, Pow2Facts
    <3>. QED  BY <3>1, <3>2, <3>3
  <2>. QED  BY <2>1 DEF DivisionInv, ResultInv
<1>. QED  BY <1>1, <1>2, <1>3, PTL DEF DivisionSpec
=============================================================================
