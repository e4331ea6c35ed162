---------------------------- MODULE HeapProofs ----------------------------
(***************************************************************************)
(* Proofs about the two heaps, for every size and set of requests: the     *)
(* nodes of malloc tile its heap and each is free or in use, the chain of  *)
(* kmalloc stays whole and what is taken is what is held, and both         *)
(* implement an allocator (Heap).                                          *)
(***************************************************************************)
EXTENDS Malloc, Kmem, TLAPS

\* What makes Tiled inductive: a node that is carved keeps room for a header.
Aligned == \A a \in Nodes : size[a] % 8 = 0

MallocInv == MallocTypeOK /\ Tiled /\ FreeOrUsed /\ Aligned

------------------------------------------------------------------------------
(* Sizes and lists. *)

\* malloc's rounding leaves room for the header and what was asked for.
LEMMA DesiredFacts ==
  ASSUME NEW n \in Requests
  PROVE  /\ n \in Nat
         /\ Desired(n) \in Nat /\ Desired(n) % 8 = 0 /\ n + 8 <= Desired(n)
         /\ Desired(n) >= 8
<1>1. n \in Nat /\ n + 15 < UINT /\ UINT \in Nat /\ UINT % 8 = 0
  BY MallocAssumption
<1>2. round_up(n) \in Nat /\ round_up(n) % 8 = 0 /\ n <= round_up(n) /\ round_up(n) <= n + 7
  BY <1>1, SMT DEF round_up, Wrap
<1>3. Desired(n) = round_up(n) + 8
  BY <1>1, <1>2, SMT DEF Desired, Wrap
<1>. QED  BY <1>1, <1>2, <1>3, SMT

\* What is left of a node that is carved has room for a header.
LEMMA CarveFacts ==
  ASSUME NEW c \in Nat, NEW s \in Nat, NEW d \in Nat, s % 8 = 0, d % 8 = 0, s > d, d >= 8
  PROVE  /\ s - d \in Nat /\ s - d >= 8 /\ (s - d) % 8 = 0
         /\ c + (s - d) \in Nat /\ c < c + (s - d) /\ (c + (s - d)) + d = c + s
<1>1. (s - d) % 8 = 0
  BY SMT
<1>2. s - d \in Nat /\ s - d > 0
  BY SMT
<1>3. s - d >= 8
  BY <1>1, <1>2, SMT
<1>. QED  BY <1>1, <1>2, <1>3, SMT

\* Unlinking takes one node off the list.
LEMMA UnlinkedFacts ==
  ASSUME NEW S, flist \in Seq(S), NEW i \in 1 .. Len(flist),
         \A j, k \in 1 .. Len(flist) : flist[j] = flist[k] => j = k
  PROVE  /\ Unlinked(i) \in Seq(S) /\ Len(Unlinked(i)) = Len(flist) - 1
         /\ {Unlinked(i)[j] : j \in 1 .. Len(Unlinked(i))} = OnList \ {flist[i]}
         /\ \A j, k \in 1 .. Len(Unlinked(i)) : Unlinked(i)[j] = Unlinked(i)[k] => j = k
<1>. DEFINE u == Unlinked(i)
            m == Len(flist) - 1
            src(j) == IF j < i THEN j ELSE j + 1
<1>1. Len(flist) \in Nat /\ m \in Nat /\ \A j \in 1 .. Len(flist) : flist[j] \in S
  OBVIOUS
<1>2. u = [j \in 1 .. m |-> flist[src(j)]] /\ \A j \in 1 .. m : src(j) \in 1 .. Len(flist) /\ src(j) # i
  BY <1>1 DEF Unlinked
<1>3. u \in Seq(S) /\ Len(u) = m
  BY <1>1, <1>2
<1>4. \A j \in 1 .. m : u[j] = flist[src(j)]
  BY <1>2
<1>5. \A j, k \in 1 .. m : u[j] = u[k] => j = k
  <2>. SUFFICES ASSUME NEW j \in 1 .. m, NEW k \in 1 .. m, u[j] = u[k]  PROVE j = k
    OBVIOUS
  <2>1. src(j) = src(k)
    BY <1>2, <1>4
  <2>. QED  BY <2>1, <1>1
<1>6. {u[j] : j \in 1 .. m} = OnList \ {flist[i]}
  <2>1. \A j \in 1 .. m : u[j] \in OnList /\ u[j] # flist[i]
    BY <1>2, <1>4 DEF OnList
  <2>2. ASSUME NEW k \in 1 .. Len(flist), flist[k] # flist[i]
        PROVE  \E j \in 1 .. m : u[j] = flist[k]
    <3>1. CASE k < i
      <4>1. k \in 1 .. m /\ src(k) = k
        BY <3>1, <1>1
      <4>. QED  BY <4>1, <1>4
    <3>2. CASE k > i
      <4>1. k - 1 \in 1 .. m /\ src(k - 1) = k
        BY <3>2, <1>1
      <4>. QED  BY <4>1, <1>4
    <3>. QED  BY <3>1, <3>2, <2>2, <1>1
  <2>. DEFINE U == {u[j] : j \in 1 .. m}
  <2>3. \A x \in U : x \in OnList \ {flist[i]}
    BY <2>1
  <2>4. \A x \in OnList \ {flist[i]} : x \in U
    BY <2>2 DEF OnList
  <2>. HIDE DEF U
  <2>5. U = OnList \ {flist[i]}
    BY <2>3, <2>4
  <2>. QED  BY <2>5 DEF U
<1>. HIDE DEF u, src
<1>. QED  BY <1>3, <1>5, <1>6 DEF u

\* What a sequence holds, and that it holds nothing twice.
Elems(l)    == {l[j] : j \in 1 .. Len(l)}
NoRepeat(l) == \A j, k \in 1 .. Len(l) : l[j] = l[k] => j = k

\* Putting a node in front of the list.
LEMMA PushFacts ==
  ASSUME NEW S, NEW l \in Seq(S), NEW a \in S, NoRepeat(l), a \notin Elems(l),
         NEW p, p = <<a>> \o l
  PROVE  p \in Seq(S) /\ Elems(p) = {a} \cup Elems(l) /\ NoRepeat(p)
<1>. USE DEF Elems, NoRepeat
<1>1. /\ p \in Seq(S) /\ Len(p) = Len(l) + 1 /\ Len(l) \in Nat
      /\ p[1] = a /\ \A j \in 1 .. Len(l) : p[j + 1] = l[j]
  OBVIOUS
<1>2. \A j \in 1 .. Len(p) : j = 1 \/ (j - 1 \in 1 .. Len(l) /\ p[j] = l[j - 1])
  <2>. SUFFICES ASSUME NEW j \in 1 .. Len(p), j # 1
                PROVE  j - 1 \in 1 .. Len(l) /\ p[j] = l[j - 1]
    OBVIOUS
  <2>1. j - 1 \in 1 .. Len(l) /\ (j - 1) + 1 = j
    BY <1>1
  <2>. QED  BY <1>1, <2>1
<1>3. {p[j] : j \in 1 .. Len(p)} = {a} \cup {l[j] : j \in 1 .. Len(l)}
  <2>1. \A j \in 1 .. Len(p) : p[j] \in {a} \cup {l[k] : k \in 1 .. Len(l)}
    BY <1>1, <1>2
  <2>2. 1 \in 1 .. Len(p) /\ \A j \in 1 .. Len(l) : j + 1 \in 1 .. Len(p)
    BY <1>1
  <2>. QED  BY <1>1, <2>1, <2>2
<1>4. ASSUME NEW j \in 1 .. Len(p), NEW k \in 1 .. Len(p), p[j] = p[k]
      PROVE  j = k
  <2>1. CASE j = 1 \/ k = 1
    <3>1. j # 1 => p[j] # a
      BY <1>2
    <3>2. k # 1 => p[k] # a
      BY <1>2
    <3>. QED  BY <2>1, <3>1, <3>2, <1>1, <1>4
  <2>2. CASE j # 1 /\ k # 1
    <3>1. j - 1 = k - 1
      BY <2>2, <1>2, <1>4
    <3>. QED  BY <3>1
  <2>. QED  BY <2>1, <2>2
<1>. QED  BY <1>1, <1>3, <1>4

\* Handing out the bytes behind a header that is not in use.
LEMMA GiveFacts ==
  ASSUME MallocTypeOK, \A b, c \in given : b.base = c.base => b = c,
         NEW h \in Nat, h \notin InUse, NEW n \in Nat, Give(h, n)
  PROVE  /\ given' \subseteq [base : Nat, len : Nat]
         /\ InUse' = InUse \cup {h}
         /\ \A b, c \in given' : b.base = c.base => b = c
         /\ \A b \in given' : b \in given \/ (b.base - 8 = h /\ b.len = n)
         /\ \A b \in given : b.base - 8 \in InUse /\ b.base - 8 # h
<1>. DEFINE g == [base |-> h + 8, len |-> n]
<1>1. given' = given \cup {g} /\ g \in [base : Nat, len : Nat] /\ g.base - 8 = h /\ g.len = n
  BY DEF Give
<1>2. \A b \in given : b.base \in Nat /\ b.base - 8 \in InUse /\ b.base - 8 # h
  BY DEF MallocTypeOK, InUse
<1>. HIDE DEF g
<1>3. InUse' = InUse \cup {h}
  BY <1>1 DEF InUse
<1>4. \A b \in given : b.base # g.base
  BY <1>1, <1>2
<1>5. \A b, c \in given' : b.base = c.base => b = c
  BY <1>1, <1>4
<1>. QED  BY <1>1, <1>2, <1>3, <1>5 DEF MallocTypeOK

------------------------------------------------------------------------------
(* Each operation preserves the invariant. *)

LEMMA MallocInitInv == MallocInit => MallocInv
<1>. SUFFICES ASSUME MallocInit  PROVE MallocInv
  OBVIOUS
<1>1. /\ flist = <<>> /\ Nodes = {} /\ size = [a \in {} |-> 0]
      /\ heap_end = End /\ given = {} /\ End \in Nat
  BY MallocAssumption DEF MallocInit, Nodes
<1>2. Len(flist) = 0 /\ OnList = {} /\ InUse = {}
  BY <1>1 DEF OnList, InUse
<1>3. size \in [Nodes -> Nat] /\ flist \in Seq(Nodes)
  BY <1>1
<1>. QED  BY <1>1, <1>2, <1>3 DEF MallocInv, MallocTypeOK, Tiled, FreeOrUsed, Aligned

LEMMA TakeWholeInv ==
  ASSUME MallocInv, NEW n \in Requests, TakeWhole(n)
  PROVE  MallocInv'
<1>. USE DEF MallocInv, Nodes
<1>1. PICK i \in 1 .. Len(flist) :
        /\ size[flist[i]] = Desired(n)
        /\ flist' = Unlinked(i) /\ Give(flist[i], n) /\ UNCHANGED <<size, heap_end>>
  BY DEF TakeWhole
<1>2. n \in Nat /\ n + 8 <= Desired(n)
  BY DesiredFacts
<1>3. /\ flist \in Seq(Nodes) /\ flist[i] \in OnList /\ flist[i] \in Nat
      /\ flist[i] \notin InUse
      /\ \A j, k \in 1 .. Len(flist) : flist[j] = flist[k] => j = k
  BY DEF MallocTypeOK, FreeOrUsed, OnList
<1>4. /\ flist' \in Seq(Nodes) /\ Len(flist') = Len(flist) - 1
      /\ OnList' = OnList \ {flist[i]}
      /\ \A j, k \in 1 .. Len(flist') : flist'[j] = flist'[k] => j = k
  <2>. DEFINE u == Unlinked(i)
  <2>1. /\ u \in Seq(Nodes) /\ Len(u) = Len(flist) - 1
        /\ {u[j] : j \in 1 .. Len(u)} = OnList \ {flist[i]}
        /\ \A j, k \in 1 .. Len(u) : u[j] = u[k] => j = k
    BY <1>3, UnlinkedFacts
  <2>2. flist' = u
    BY <1>1
  <2>3. OnList' = {flist'[j] : j \in 1 .. Len(flist')}
    BY DEF OnList
  <2>. HIDE DEF u
  <2>. QED  BY <2>1, <2>2, <2>3
<1>5. /\ given' \subseteq [base : Nat, len : Nat]
      /\ InUse' = InUse \cup {flist[i]}
      /\ \A b, c \in given' : b.base = c.base => b = c
      /\ \A b \in given' : b \in given \/ (b.base - 8 = flist[i] /\ b.len = n)
  BY <1>1, <1>2, <1>3, GiveFacts DEF FreeOrUsed
<1>6. MallocTypeOK'
  BY <1>1, <1>4, <1>5 DEF MallocTypeOK
<1>7. Tiled' /\ Aligned'
  BY <1>1 DEF Tiled, Aligned
<1>8. \A b \in given' : b.len + 8 <= size'[b.base - 8]
  BY <1>1, <1>2, <1>5 DEF FreeOrUsed
<1>9. FreeOrUsed'
  <2>1. OnList' \cup InUse' = Nodes' /\ OnList' \cap InUse' = {}
    BY <1>1, <1>3, <1>4, <1>5 DEF FreeOrUsed
  <2>. QED  BY <2>1, <1>4, <1>5, <1>8 DEF FreeOrUsed
<1>. QED  BY <1>6, <1>7, <1>9

LEMMA CarveInv ==
  ASSUME MallocInv, NEW n \in Requests, Carve(n)
  PROVE  MallocInv'
<1>. USE DEF MallocInv
<1>. DEFINE d == Desired(n)
<1>1. PICK i \in 1 .. Len(flist) :
        LET curr == flist[i]
            temp == curr + (size[curr] - d)
        IN  /\ size[curr] > d
            /\ Sizes([a \in {curr, temp} |-> IF a = curr THEN size[curr] - d ELSE d])
            /\ Give(temp, n) /\ UNCHANGED <<flist, heap_end>>
  BY DEF Carve
<1>. DEFINE curr == flist[i]
            rest == size[curr] - d
            temp == curr + rest
<1>2. n \in Nat /\ d \in Nat /\ d % 8 = 0 /\ n + 8 <= d /\ d >= 8
  BY DesiredFacts
<1>3. /\ curr \in Nodes /\ curr \in OnList /\ curr \notin InUse /\ Nodes \subseteq Nat
      /\ \A a \in Nodes : size[a] \in Nat /\ size[a] % 8 = 0
      /\ heap_end \in Nat /\ End \in Nat
  BY MallocAssumption DEF MallocTypeOK, FreeOrUsed, OnList, Aligned
<1>4. size[curr] > d /\ Give(temp, n) /\ flist' = flist /\ heap_end' = heap_end
  BY <1>1
<1>5. /\ rest \in Nat /\ rest >= 8 /\ rest % 8 = 0 /\ temp \in Nat /\ curr < temp
      /\ temp + d = curr + size[curr] /\ curr + rest = temp
      /\ temp # curr /\ curr \in Nat
  <2>1. curr \in Nat /\ size[curr] \in Nat /\ size[curr] % 8 = 0
    BY <1>3
  <2>. HIDE DEF d, curr
  <2>2. /\ rest \in Nat /\ rest >= 8 /\ rest % 8 = 0 /\ temp \in Nat /\ curr < temp
        /\ temp + d = curr + size[curr]
    <3>1. d \in Nat /\ d % 8 = 0 /\ d >= 8 /\ size[curr] > d
      BY <1>2, <1>4
    <3>. QED  BY ONLY <2>1, <3>1, CarveFacts, Zenon
  <2>. HIDE DEF temp
  <2>3. temp # curr
    BY <2>1, <2>2
  <2>. QED  BY <2>1, <2>2, <2>3 DEF temp
<1>6. \A a \in Nodes : a # curr => a + size[a] <= curr \/ temp + d <= a
  <2>. SUFFICES ASSUME NEW a \in Nodes, a # curr
                PROVE  a + size[a] <= curr \/ temp + d <= a
    OBVIOUS
  <2>1. (a < curr => a + size[a] <= curr) /\ (curr < a => curr + size[curr] <= a)
    BY <1>3 DEF Tiled
  <2>2. a \in Nat /\ curr \in Nat
    BY <1>3
  <2>. HIDE DEF temp, curr, d
  <2>. QED  BY <2>1, <2>2, <1>5
<1>7. temp \notin Nodes
  <2>. SUFFICES ASSUME temp \in Nodes  PROVE FALSE
    OBVIOUS
  <2>1. size[temp] \in Nat /\ size[temp] >= 8
    BY <1>3 DEF Tiled
  <2>. HIDE DEF temp, curr, d
  <2>. QED  BY <2>1, <1>2, <1>5, <1>6
<1>8. /\ Nodes' = Nodes \cup {temp} /\ size' \in [Nodes' -> Nat]
      /\ size'[curr] = rest /\ size'[temp] = d
      /\ \A a \in Nodes : a # curr => size'[a] = size[a]
  <2>. DEFINE f == [a \in {curr, temp} |-> IF a = curr THEN rest ELSE d]
  <2>1. Sizes(f)
    BY <1>1
  <2>2. DOMAIN f = {curr, temp} /\ f[curr] = rest /\ f[temp] = d
    BY <1>3, <1>5
  <2>. HIDE DEF f
  <2>3. size' = [a \in Nodes \cup {curr, temp} |-> IF a \in {curr, temp} THEN f[a] ELSE size[a]]
    BY <2>1, <2>2 DEF Sizes, Nodes
  <2>4. Nodes' = Nodes \cup {temp}
    BY <2>3, <1>3 DEF Nodes
  <2>. HIDE DEF rest, temp, d, curr
  <2>5. \A a \in Nodes' : size'[a] \in Nat
    BY <2>2, <2>3, <2>4, <1>2, <1>3, <1>5
  <2>6. size' = [a \in Nodes' |-> size'[a]]
    BY <2>3, <2>4, <1>3
  <2>. QED  BY <2>2, <2>3, <2>4, <2>5, <2>6, <1>3, <1>7
<1>. HIDE DEF rest, temp, d, curr
<1>9. Aligned'
  BY <1>2, <1>3, <1>5, <1>8 DEF Aligned
<1>10. Tiled'
  <2>1. \A a \in Nodes : /\ End <= a /\ size[a] >= 8 /\ a + size[a] <= heap_end
                         /\ a + size[a] \in Nodes \cup {heap_end}
    BY DEF Tiled
  <2>2. \A a \in Nodes' : End <= a /\ size'[a] >= 8 /\ a + size'[a] <= heap_end'
    <3>1. End <= temp /\ d >= 8 /\ temp + d <= heap_end /\ curr + rest <= heap_end
      <4>1. End <= curr /\ curr + size[curr] <= heap_end /\ curr \in Nat /\ size[curr] \in Nat
        BY <2>1, <1>3
      <4>. QED  BY <4>1, <1>2, <1>3, <1>5
    <3>. QED  BY <3>1, <2>1, <1>3, <1>4, <1>5, <1>8 DEF temp
  <2>3. \A a \in Nodes' : a + size'[a] \in Nodes' \cup {heap_end'}
    <3>1. curr + size'[curr] = temp
      BY <1>8 DEF temp
    <3>2. temp + size'[temp] \in Nodes' \cup {heap_end}
      BY <2>1, <1>3, <1>5, <1>8
    <3>3. \A a \in Nodes : a # curr => a + size'[a] \in Nodes' \cup {heap_end}
      BY <2>1, <1>8
    <3>. QED  BY <3>1, <3>2, <3>3, <1>4, <1>8
  <2>4. ASSUME NEW a \in Nodes', NEW c \in Nodes', a < c
        PROVE  a + size'[a] <= c
    <3>1. \A e, h \in Nodes : e < h => e + size[e] <= h
      BY DEF Tiled
    <3>2. a \in Nat /\ c \in Nat
      BY <1>3, <1>5, <1>8
    <3>3. CASE a = temp
      <4>1. c \in Nodes /\ c # curr /\ c > curr
        BY <3>3, <2>4, <3>2, <1>5, <1>8
      <4>2. c + size[c] <= curr \/ temp + d <= c
        BY <4>1, <1>6
      <4>3. size[c] \in Nat /\ size'[a] = d /\ curr \in Nat /\ d \in Nat /\ temp \in Nat
        BY <4>1, <3>3, <1>2, <1>3, <1>5, <1>8
      <4>. QED  BY ONLY <4>1, <4>2, <4>3, <3>2, <3>3
    <3>4. CASE a = curr
      <4>1. c # temp => curr + size[curr] <= c
        BY <3>1, <3>4, <2>4, <1>3, <1>8
      <4>. QED  BY <4>1, <3>4, <3>2, <1>2, <1>3, <1>5, <1>8 DEF temp
    <3>5. CASE a # temp /\ a # curr
      <4>1. a \in Nodes /\ size'[a] = size[a] /\ size[a] \in Nat
        BY <3>5, <1>3, <1>8
      <4>2. CASE c = temp
        BY <4>1, <4>2, <3>2, <3>5, <2>4, <1>2, <1>3, <1>5, <1>6
      <4>3. CASE c # temp
        BY <4>1, <4>3, <3>1, <2>4, <1>8
      <4>. QED  BY <4>2, <4>3
    <3>. QED  BY <3>3, <3>4, <3>5
  <2>5. End \in Nodes' \cup {heap_end'}
    BY <1>4, <1>8 DEF Tiled
  <2>. QED  BY <2>2, <2>3, <2>4, <2>5 DEF Tiled
<1>11. temp \notin InUse /\ temp \notin OnList
  BY <1>7 DEF FreeOrUsed
<1>12. /\ given' \subseteq [base : Nat, len : Nat]
       /\ InUse' = InUse \cup {temp}
       /\ \A b, c \in given' : b.base = c.base => b = c
       /\ \A b \in given' : b \in given \/ (b.base - 8 = temp /\ b.len = n)
       /\ \A b \in given : b.base - 8 \in InUse
  BY <1>2, <1>4, <1>5, <1>11, GiveFacts DEF FreeOrUsed
<1>13. MallocTypeOK'
  <2>1. flist' \in Seq(Nodes')
    BY <1>4, <1>8 DEF MallocTypeOK
  <2>. QED  BY <2>1, <1>3, <1>4, <1>5, <1>8, <1>12 DEF MallocTypeOK
<1>14. FreeOrUsed'
  <2>1. OnList' = OnList
    BY <1>4 DEF OnList
  <2>2. \A b \in given' : b.len + 8 <= size'[b.base - 8]
    BY <1>2, <1>3, <1>8, <1>12, Z3 DEF FreeOrUsed
  <2>3. OnList' \cup InUse' = Nodes' /\ OnList' \cap InUse' = {}
    BY <2>1, <1>8, <1>11, <1>12 DEF FreeOrUsed
  <2>. QED  BY <2>1, <2>2, <2>3, <1>4, <1>12 DEF FreeOrUsed
<1>. QED  BY <1>9, <1>10, <1>13, <1>14

\* Memory sbrk delivers becomes one more node, at the end of the heap.
Tiling(sz, end) ==
  /\ end \in Nat /\ DOMAIN sz \subseteq Nat /\ sz \in [DOMAIN sz -> Nat]
  /\ \A a \in DOMAIN sz : /\ End <= a /\ sz[a] >= 8 /\ sz[a] % 8 = 0 /\ a + sz[a] <= end
                          /\ a + sz[a] \in DOMAIN sz \cup {end}
                          /\ \A c \in DOMAIN sz : a < c => a + sz[a] <= c
  /\ End \in DOMAIN sz \cup {end}

Extended(sz, end, s) == [a \in DOMAIN sz \cup {end} |-> IF a = end THEN s ELSE sz[a]]

LEMMA ExtendedFacts ==
  ASSUME NEW sz, NEW end, Tiling(sz, end), NEW s \in Nat, s >= 8, s % 8 = 0
  PROVE  Tiling(Extended(sz, end, s), end + s) /\ end \notin DOMAIN sz
<1>. DEFINE N == DOMAIN sz
            z == Extended(sz, end, s)
<1>1. /\ end \in Nat /\ N \subseteq Nat /\ End \in Nat /\ sz \in [N -> Nat]
      /\ End \in N \cup {end}
      /\ \A a \in N : /\ a \in Nat /\ sz[a] \in Nat
                      /\ End <= a /\ sz[a] >= 8 /\ sz[a] % 8 = 0 /\ a + sz[a] <= end
                      /\ a + sz[a] \in N \cup {end}
                      /\ \A c \in N : a < c => a + sz[a] <= c
  BY MallocAssumption DEF Tiling
<1>2. end \notin N /\ \A a \in N : a < end
  <2>1. \A a \in N : a < end
    BY <1>1
  <2>. QED  BY <2>1, <1>1
<1>3. DOMAIN z = N \cup {end} /\ z[end] = s /\ \A a \in N : z[a] = sz[a]
  BY <1>2 DEF Extended
<1>4. z = [a \in N \cup {end} |-> z[a]]
  BY <1>3 DEF Extended
<1>. HIDE DEF N, z
<1>5. z \in [N \cup {end} -> Nat] /\ N \cup {end} \subseteq Nat
  <2>1. \A a \in N \cup {end} : z[a] \in Nat
    BY <1>1, <1>3
  <2>. QED  BY <2>1, <1>1, <1>4
<1>6. End <= end
  BY <1>1
<1>7. ASSUME NEW a \in N
      PROVE  /\ End <= a /\ z[a] >= 8 /\ z[a] % 8 = 0 /\ a + z[a] <= end + s
             /\ a + z[a] \in N \cup {end} \cup {end + s}
             /\ \A c \in N \cup {end} : a < c => a + z[a] <= c
  BY <1>1, <1>3
<1>8. /\ End <= end /\ z[end] >= 8 /\ z[end] % 8 = 0 /\ end + z[end] <= end + s
      /\ end + z[end] \in N \cup {end} \cup {end + s}
      /\ \A c \in N \cup {end} : end < c => end + z[end] <= c
  <2>1. \A c \in N \cup {end} : ~(end < c)
    BY <1>1, <1>2
  <2>. QED  BY <2>1, <1>1, <1>3, <1>6
<1>9. end + s \in Nat /\ End \in N \cup {end} \cup {end + s}
  BY <1>1
<1>10. Tiling(z, end + s)
  BY <1>3, <1>5, <1>7, <1>8, <1>9 DEF Tiling
<1>. QED  BY <1>2, <1>10 DEF N, z

LEMMA TilingIsTiled == MallocTypeOK /\ Aligned => (Tiled <=> Tiling(size, heap_end))
BY DEF MallocTypeOK, Aligned, Tiled, Tiling, Nodes

LEMMA TilingGivesTiled == Tiling(size, heap_end) => Tiled /\ Aligned
BY DEF Aligned, Tiled, Tiling, Nodes

LEMMA GrowExactInv ==
  ASSUME MallocInv, NEW n \in Requests, GrowExact(n)
  PROVE  MallocInv'
<1>. USE DEF MallocInv
<1>. DEFINE d == Desired(n)
<1>1. /\ heap_end' = heap_end + d /\ flist' = flist /\ Give(heap_end, n)
      /\ Sizes([a \in {heap_end} |-> d])
  BY DEF GrowExact, sbrk
<1>2. n \in Nat /\ d \in Nat /\ d % 8 = 0 /\ n + 8 <= d /\ d >= 8
  BY DesiredFacts
<1>3. Tiling(size, heap_end) /\ heap_end \in Nat /\ DOMAIN size = Nodes
  BY TilingIsTiled DEF MallocTypeOK, Nodes
<1>. HIDE DEF d
<1>4. size' = Extended(size, heap_end, d)
  <2>. DEFINE f == [a \in {heap_end} |-> d]
  <2>1. DOMAIN f = {heap_end} /\ f[heap_end] = d
    OBVIOUS
  <2>. HIDE DEF f
  <2>2. size' = [a \in DOMAIN size \cup {heap_end} |-> IF a \in {heap_end} THEN f[a] ELSE size[a]]
    BY <1>1, <2>1 DEF f, Sizes
  <2>. QED  BY <2>1, <2>2 DEF Extended
<1>5. /\ Tiling(size', heap_end') /\ heap_end \notin Nodes /\ Nodes' = Nodes \cup {heap_end}
      /\ size'[heap_end] = d /\ \A a \in Nodes : size'[a] = size[a]
  <2>1. Tiling(Extended(size, heap_end, d), heap_end + d) /\ heap_end \notin DOMAIN size
    BY <1>2, <1>3, ExtendedFacts
  <2>. QED  BY <1>1, <1>4, <2>1 DEF Nodes, Extended
<1>6. Tiled' /\ Aligned' /\ size' \in [Nodes' -> Nat] /\ Nodes' \subseteq Nat /\ heap_end' \in Nat
  BY <1>5, TilingGivesTiled DEF Aligned, Tiled, Tiling, Nodes
<1>7. heap_end \notin InUse /\ heap_end \notin OnList
  BY <1>5 DEF FreeOrUsed
<1>8. /\ given' \subseteq [base : Nat, len : Nat]
      /\ InUse' = InUse \cup {heap_end}
      /\ \A b, c \in given' : b.base = c.base => b = c
      /\ \A b \in given' : b \in given \/ (b.base - 8 = heap_end /\ b.len = n)
      /\ \A b \in given : b.base - 8 \in InUse
  BY <1>1, <1>2, <1>3, <1>7, GiveFacts DEF FreeOrUsed
<1>9. MallocTypeOK'
  <2>1. flist' \in Seq(Nodes')
    BY <1>1, <1>5 DEF MallocTypeOK
  <2>. QED  BY <2>1, <1>6, <1>8 DEF MallocTypeOK
<1>10. FreeOrUsed'
  <2>1. OnList' = OnList
    BY <1>1 DEF OnList
  <2>2. \A b \in given' : b.len + 8 <= size'[b.base - 8]
    BY <1>2, <1>5, <1>8 DEF FreeOrUsed
  <2>3. OnList' \cup InUse' = Nodes' /\ OnList' \cap InUse' = {}
    BY <2>1, <1>5, <1>7, <1>8 DEF FreeOrUsed
  <2>. QED  BY <2>1, <2>2, <2>3, <1>1, <1>8 DEF FreeOrUsed
<1>. QED  BY <1>6, <1>9, <1>10

LEMMA GrowChunkInv ==
  ASSUME MallocInv, NEW n \in Requests, GrowChunk(n)
  PROVE  MallocInv'
<1>. USE DEF MallocInv
<1>. DEFINE d    == Desired(n)
            rest == Chunk - d
            new  == heap_end + rest
<1>1. /\ heap_end' = heap_end + Chunk /\ flist' = <<heap_end>> \o flist /\ Give(new, n)
      /\ Sizes([a \in {heap_end, new} |-> IF a = heap_end THEN rest ELSE d])
      /\ Chunk > d
  BY MallocAssumption, DesiredFacts DEF GrowChunk, sbrk
<1>2. n \in Nat /\ d \in Nat /\ d % 8 = 0 /\ n + 8 <= d /\ d >= 8
  BY DesiredFacts
<1>3. Tiling(size, heap_end) /\ heap_end \in Nat /\ DOMAIN size = Nodes
  BY TilingIsTiled DEF MallocTypeOK, Nodes
<1>. HIDE DEF d
<1>4. /\ rest \in Nat /\ rest >= 8 /\ rest % 8 = 0 /\ new \in Nat /\ heap_end < new
      /\ new + d = heap_end + Chunk
  <2>1. Chunk \in Nat /\ Chunk % 8 = 0 /\ Chunk > d
    BY <1>1, MallocAssumption
  <2>. QED  BY <1>2, <1>3, <2>1, CarveFacts
<1>. DEFINE mid == Extended(size, heap_end, rest)
<1>5. /\ Tiling(mid, new) /\ heap_end \notin Nodes /\ DOMAIN mid = Nodes \cup {heap_end}
      /\ mid[heap_end] = rest /\ \A a \in Nodes : mid[a] = size[a]
  <2>1. Tiling(mid, heap_end + rest) /\ heap_end \notin DOMAIN size
    <3>. HIDE DEF rest
    <3>. QED  BY <1>3, <1>4, ExtendedFacts
  <2>. QED  BY <1>3, <2>1 DEF Extended
<1>. HIDE DEF rest, new, mid
<1>6. size' = Extended(mid, new, d)
  <2>. DEFINE f == [a \in {heap_end, new} |-> IF a = heap_end THEN rest ELSE d]
  <2>1. DOMAIN f = {heap_end, new} /\ f[heap_end] = rest /\ f[new] = d /\ heap_end # new
    BY <1>3, <1>4
  <2>. HIDE DEF f
  <2>2. size' = [a \in Nodes \cup {heap_end, new} |-> IF a \in {heap_end, new} THEN f[a] ELSE size[a]]
    BY <1>1, <1>3, <2>1 DEF f, Sizes
  <2>. QED  BY <2>1, <2>2, <1>5 DEF Extended
<1>7. /\ Tiling(size', heap_end') /\ new \notin Nodes
      /\ Nodes' = Nodes \cup {heap_end, new} /\ heap_end # new
      /\ size'[heap_end] = rest /\ size'[new] = d /\ \A a \in Nodes : size'[a] = size[a]
  <2>1. Tiling(Extended(mid, new, d), new + d) /\ new \notin DOMAIN mid
    BY <1>2, <1>5, ExtendedFacts
  <2>2. DOMAIN size' = DOMAIN mid \cup {new} /\ size'[new] = d /\ \A a \in DOMAIN mid : size'[a] = mid[a]
    BY <1>6, <2>1 DEF Extended
  <2>3. Tiling(size', heap_end')
    BY <1>1, <1>4, <1>6, <2>1
  <2>. QED  BY <2>1, <2>2, <2>3, <1>4, <1>5 DEF Nodes
<1>8. Tiled' /\ Aligned' /\ size' \in [Nodes' -> Nat] /\ Nodes' \subseteq Nat /\ heap_end' \in Nat
  BY <1>7, TilingGivesTiled DEF Aligned, Tiled, Tiling, Nodes
<1>9. new \notin InUse /\ new \notin OnList /\ heap_end \notin InUse /\ heap_end \notin OnList
  BY <1>5, <1>7 DEF FreeOrUsed
<1>10. /\ given' \subseteq [base : Nat, len : Nat]
       /\ InUse' = InUse \cup {new}
       /\ \A b, c \in given' : b.base = c.base => b = c
       /\ \A b \in given' : b \in given \/ (b.base - 8 = new /\ b.len = n)
       /\ \A b \in given : b.base - 8 \in InUse
  BY <1>1, <1>2, <1>4, <1>9, GiveFacts DEF FreeOrUsed
<1>11. flist \in Seq(Nodes') /\ heap_end \in Nodes'
  BY <1>7 DEF MallocTypeOK
<1>12. /\ flist' \in Seq(Nodes') /\ OnList' = {heap_end} \cup OnList
       /\ \A j, k \in 1 .. Len(flist') : flist'[j] = flist'[k] => j = k
  <2>1. NoRepeat(flist) /\ heap_end \notin Elems(flist)
    BY <1>9 DEF FreeOrUsed, OnList, NoRepeat, Elems
  <2>2. flist' = <<heap_end>> \o flist
    BY <1>1
  <2>3. flist' \in Seq(Nodes') /\ Elems(flist') = {heap_end} \cup Elems(flist) /\ NoRepeat(flist')
    BY <1>11, <2>1, <2>2, PushFacts
  <2>. QED  BY <2>3 DEF OnList, Elems, NoRepeat
<1>13. MallocTypeOK'
  BY <1>8, <1>10, <1>12 DEF MallocTypeOK
<1>14. FreeOrUsed'
  <2>1. \A b \in given' : b.len + 8 <= size'[b.base - 8]
    BY <1>2, <1>7, <1>10 DEF FreeOrUsed
  <2>2. OnList' \cup InUse' = Nodes' /\ OnList' \cap InUse' = {}
    BY <1>7, <1>9, <1>10, <1>12 DEF FreeOrUsed
  <2>. QED  BY <2>1, <2>2, <1>10, <1>12 DEF FreeOrUsed
<1>. QED  BY <1>8, <1>13, <1>14

LEMMA FreeInv ==
  ASSUME MallocInv, NEW b \in given, free(b)
  PROVE  MallocInv'
<1>. USE DEF MallocInv
<1>. DEFINE h == b.base - 8
<1>1. flist' = <<h>> \o flist /\ given' = given \ {b} /\ size' = size /\ heap_end' = heap_end
  BY DEF free
<1>2. h \in InUse /\ h \in Nodes /\ h \notin OnList /\ Nodes' = Nodes
  BY <1>1 DEF FreeOrUsed, InUse, Nodes
<1>3. /\ flist' \in Seq(Nodes) /\ OnList' = {h} \cup OnList
      /\ \A j, k \in 1 .. Len(flist') : flist'[j] = flist'[k] => j = k
  <2>1. flist \in Seq(Nodes) /\ NoRepeat(flist) /\ h \notin Elems(flist)
    BY <1>2 DEF FreeOrUsed, OnList, MallocTypeOK, NoRepeat, Elems
  <2>2. flist' = <<h>> \o flist /\ h \in Nodes
    BY <1>1, <1>2
  <2>. HIDE DEF h
  <2>3. flist' \in Seq(Nodes) /\ Elems(flist') = {h} \cup Elems(flist) /\ NoRepeat(flist')
    BY <2>1, <2>2, PushFacts
  <2>. QED  BY <2>3 DEF OnList, Elems, NoRepeat
<1>4. InUse' = InUse \ {h}
  <2>1. \A c \in given : c.base \in Nat /\ (c.base - 8 = h <=> c = b)
    BY DEF FreeOrUsed, MallocTypeOK
  <2>. QED  BY <1>1, <2>1 DEF InUse
<1>5. MallocTypeOK'
  BY <1>1, <1>2, <1>3 DEF MallocTypeOK
<1>6. Tiled' /\ Aligned'
  BY <1>1, <1>2 DEF Tiled, Aligned
<1>7. FreeOrUsed'
  <2>. HIDE DEF h
  <2>1. OnList' \cup InUse' = Nodes' /\ OnList' \cap InUse' = {}
    BY <1>2, <1>3, <1>4 DEF FreeOrUsed
  <2>. QED  BY <2>1, <1>1, <1>2, <1>3 DEF FreeOrUsed
<1>. QED  BY <1>5, <1>6, <1>7

LEMMA MallocStepInv == MallocInv /\ [MallocNext]_mallocVars => MallocInv'
<1>. SUFFICES ASSUME MallocInv, [MallocNext]_mallocVars  PROVE MallocInv'
  OBVIOUS
<1>1. ASSUME NEW n \in Requests, malloc(n)  PROVE MallocInv'
  BY <1>1, TakeWholeInv, CarveInv, GrowChunkInv, GrowExactInv DEF malloc
<1>2. ASSUME NEW b \in given, free(b)  PROVE MallocInv'
  BY <1>2, FreeInv
<1>3. CASE UNCHANGED mallocVars
  <2>1. flist' = flist /\ size' = size /\ heap_end' = heap_end /\ given' = given
    BY <1>3 DEF mallocVars
  <2>2. Nodes' = Nodes /\ OnList' = OnList /\ InUse' = InUse
    BY <2>1 DEF Nodes, OnList, InUse
  <2>3. MallocTypeOK' /\ Tiled' /\ Aligned'
    BY <2>1, <2>2 DEF MallocInv, MallocTypeOK, Tiled, Aligned
  <2>4. FreeOrUsed'
    BY <2>1, <2>2 DEF MallocInv, FreeOrUsed
  <2>. QED  BY <2>3, <2>4 DEF MallocInv
<1>. QED  BY <1>1, <1>2, <1>3 DEF MallocNext

------------------------------------------------------------------------------
(* What follows for every run. *)

\* The invariant of the heap: malloc's two lists of blocks, the free and the
\* held ones, are the nodes, and the nodes are the memory sbrk delivered.
THEOREM MallocInvariant == MallocSpec => []MallocInv
<1>1. MallocInit => MallocInv
  BY MallocInitInv
<1>2. MallocInv /\ [MallocNext]_mallocVars => MallocInv'
  BY MallocStepInv
<1>. QED  BY <1>1, <1>2, PTL DEF MallocSpec

\* No sequence of mallocs and frees leaks or doubles a byte of the heap.
THEOREM MallocTiled == MallocSpec => []Tiled
<1>1. MallocInv => Tiled
  BY DEF MallocInv
<1>. QED  BY <1>1, MallocInvariant, PTL

\* A node is on the free list once or in use by one block it has room for.
THEOREM MallocFreeOrUsed == MallocSpec => []FreeOrUsed
<1>1. MallocInv => FreeOrUsed
  BY DEF MallocInv
<1>. QED  BY <1>1, MallocInvariant, PTL

\* Two blocks of different headers share no byte: their nodes do not overlap
\* and each block lies behind the header of its node.
AllApart == \A b, c \in given : b # c => Program!Apart(b, c)

LEMMA HeldApart == MallocInv => AllApart
<1>. SUFFICES ASSUME MallocInv, NEW b \in given, NEW c \in given, b # c
              PROVE  Program!Apart(b, c)
  BY DEF AllApart
<1>1. b.base # c.base
  BY DEF MallocInv, FreeOrUsed
<1>2. /\ b.base \in Nat /\ b.len \in Nat /\ c.base \in Nat /\ c.len \in Nat
      /\ b.base - 8 \in Nodes /\ c.base - 8 \in Nodes
      /\ b.len + 8 <= size[b.base - 8] /\ c.len + 8 <= size[c.base - 8]
  BY DEF MallocInv, MallocTypeOK, FreeOrUsed, InUse
<1>. DEFINE h == b.base - 8
            k == c.base - 8
<1>3. /\ h \in Nat /\ k \in Nat /\ h # k /\ b.base = h + 8 /\ c.base = k + 8
      /\ size[h] \in Nat /\ size[k] \in Nat
  BY <1>1, <1>2 DEF MallocInv, MallocTypeOK
<1>4. (h < k => h + size[h] <= k) /\ (k < h => k + size[k] <= h)
  BY <1>2 DEF MallocInv, Tiled
<1>5. b.len + 8 <= size[h] /\ c.len + 8 <= size[k]
  BY <1>2
<1>. HIDE DEF h, k
<1>6. b.base + b.len <= c.base \/ c.base + c.len <= b.base
  BY <1>2, <1>3, <1>4, <1>5
<1>. QED  BY <1>1, <1>6 DEF Program!Apart

\* malloc hands out one block, free takes one back.
LEMMA MallocStepImplements ==
  ASSUME MallocInv, MallocInv', [MallocNext]_mallocVars
  PROVE  [Program!Next]_given
<1>1. ASSUME NEW n \in Requests, malloc(n)  PROVE [Program!Next]_given
  <2>1. PICK g : given' = given \cup {g}
    BY <1>1 DEF malloc, TakeWhole, Carve, GrowChunk, GrowExact, Give
  <2>2. CASE g \in given
    BY <2>1, <2>2
  <2>3. CASE g \notin given
    <3>1. AllApart'
      BY HeldApart, PTL
    <3>2. \A c \in given : Program!Apart(g, c)
      BY <2>1, <2>3, <3>1 DEF AllApart
    <3>. QED  BY <2>1, <2>3, <3>2 DEF Program!Next, Program!Allocate
  <2>. QED  BY <2>2, <2>3
<1>2. ASSUME NEW b \in given, free(b)  PROVE [Program!Next]_given
  BY <1>2 DEF free, Program!Next, Program!Free
<1>3. CASE UNCHANGED mallocVars
  BY <1>3 DEF mallocVars
<1>. QED  BY <1>1, <1>2, <1>3 DEF MallocNext

\* The free list implements an allocator: no block it hands out shares a byte
\* with one the program still holds, whatever the program asks for and frees.
THEOREM MallocIsHeap == MallocSpec => MallocImplements
<1>1. MallocInit => Program!Init
  BY DEF MallocInit, Program!Init
<1>2. MallocInv /\ MallocInv' /\ [MallocNext]_mallocVars => [Program!Next]_given
  BY MallocStepImplements
<1>. QED  BY <1>1, <1>2, MallocInvariant, PTL DEF MallocSpec, MallocImplements, Program!Spec

------------------------------------------------------------------------------
(* The kernel heap. *)

Headers == DOMAIN chunk

\* What makes ChainWhole inductive: the chain ends where it ends.
ChainBounded == \A h \in Headers : h + chunk[h] <= KmemBytes

KmemInv == KmemTypeOK /\ ChainWhole /\ TakenHeld /\ ChainBounded

\* The header of a block, as kfree finds it.
HeaderOf(b) == (b.base - 8) \div 8

------------------------------------------------------------------------------
(* Sizes, chains and blocks. *)

\* Rounding never gives a chunk of no size: the walks would not leave it.
LEMMA AlignFacts ==
  ASSUME NEW sz \in KmemRequests
  PROVE  sz \in Nat /\ align_val(sz) \in Nat /\ align_val(sz) > 0 /\ sz <= align_val(sz)
<1>1. sz \in Nat /\ sz > 0
  BY KmemAssumption
<1>. QED  BY <1>1, SMT DEF align_val

LEMMA HeaderFacts ==
  ASSUME NEW h \in Nat
  PROVE  (((8 * h + 8) - 8) \div 8) = h /\ (8 * h + 8) % 8 = 0
<1>1. (8 * h + 8) - 8 = 8 * h /\ 8 * h + 8 = 8 * (h + 1)
  OBVIOUS
<1>2. (8 * h) \div 8 = h
  BY SMT
<1>3. (8 * h + 8) % 8 = 0
  BY SMT
<1>. QED  BY <1>1, <1>2, <1>3

\* A block lies right behind its header.
LEMMA BaseFacts ==
  ASSUME NEW b \in Nat, b % 8 = 0, NEW h, h = (b - 8) \div 8, h \in Nat
  PROVE  b = 8 * h + 8
BY SMT

\* The chain, whatever variable holds it.
Chain(ch) ==
  /\ ch \in [DOMAIN ch -> Nat \ {0}] /\ DOMAIN ch \subseteq Nat /\ 0 \in DOMAIN ch
  /\ \A h \in DOMAIN ch :
       /\ h + ch[h] \in DOMAIN ch \cup {KmemBytes} /\ h + ch[h] <= KmemBytes
       /\ \A g \in DOMAIN ch : h < g => h + ch[h] <= g

LEMMA InvIsChain == KmemInv => Chain(chunk)
BY DEF KmemInv, KmemTypeOK, ChainWhole, ChainBounded, Chain, Headers

LEMMA ChainGivesInv == Chain(chunk) => ChainWhole /\ ChainBounded
BY DEF ChainWhole, ChainBounded, Chain, Headers

\* Splitting a chunk.
LEMMA SplitFacts ==
  ASSUME NEW ch, Chain(ch), NEW h \in DOMAIN ch, NEW want \in Nat, NEW rem \in Nat,
         want > 0, rem > 0, want + rem = ch[h], NEW next, next = h + want,
         NEW new, new = [g \in DOMAIN ch \cup {next} |->
                           CASE g = next -> rem [] g = h -> want [] OTHER -> ch[g]]
  PROVE  /\ Chain(new) /\ DOMAIN new = DOMAIN ch \cup {next} /\ next \notin DOMAIN ch
         /\ new[h] = want /\ \A g \in DOMAIN ch : g # h => new[g] = ch[g]
<1>. DEFINE N == DOMAIN ch
<1>1. /\ N \subseteq Nat /\ KmemBytes \in Nat /\ 0 \in N
      /\ \A g \in N : /\ g \in Nat /\ ch[g] \in Nat /\ ch[g] > 0
                      /\ g + ch[g] \in N \cup {KmemBytes} /\ g + ch[g] <= KmemBytes
                      /\ \A k \in N : g < k => g + ch[g] <= k
  BY KmemAssumption DEF Chain
<1>. HIDE DEF N
<1>2. h \in N /\ h \in Nat /\ next \in Nat /\ h < next /\ next + rem = h + ch[h]
  BY <1>1 DEF N
<1>3. \A g \in N : g # h => g + ch[g] <= h \/ next + rem <= g
  <2>. SUFFICES ASSUME NEW g \in N, g # h  PROVE g + ch[g] <= h \/ next + rem <= g
    OBVIOUS
  <2>1. (g < h => g + ch[g] <= h) /\ (h < g => h + ch[h] <= g)
    BY <1>1, <1>2
  <2>. QED  BY <2>1, <1>1, <1>2
<1>4. next \notin N
  BY <1>1, <1>2, <1>3
<1>5. /\ DOMAIN new = N \cup {next} /\ new[next] = rem /\ new[h] = want /\ next # h
      /\ \A g \in N : g # h => new[g] = ch[g]
  BY <1>2, <1>4 DEF N
<1>6. new = [g \in N \cup {next} |-> new[g]]
  BY <1>5 DEF N
<1>7. \A g \in N \cup {next} : new[g] \in Nat \ {0} /\ g \in Nat
  BY <1>1, <1>2, <1>5
<1>8. \A g \in N \cup {next} : /\ g + new[g] \in N \cup {next} \cup {KmemBytes}
                              /\ g + new[g] <= KmemBytes
  <2>1. next + new[next] \in N \cup {KmemBytes} /\ next + new[next] <= KmemBytes
    BY <1>1, <1>2, <1>5
  <2>2. h + new[h] = next /\ next <= KmemBytes
    BY <1>1, <1>2, <1>5
  <2>. QED  BY <2>1, <2>2, <1>1, <1>5
<1>9. ASSUME NEW g \in N \cup {next}, NEW k \in N \cup {next}, g < k
      PROVE  g + new[g] <= k
  <2>1. g \in Nat /\ k \in Nat
    BY <1>1, <1>2
  <2>2. CASE g = next
    BY <2>1, <2>2, <1>1, <1>2, <1>3, <1>5, <1>9
  <2>3. CASE g = h
    <3>1. k # next => h + ch[h] <= k
      BY <2>3, <1>1, <1>2, <1>9
    <3>. QED  BY <3>1, <2>1, <2>3, <1>1, <1>2, <1>5
  <2>4. CASE g # next /\ g # h
    <3>1. g \in N /\ new[g] = ch[g] /\ ch[g] \in Nat
      BY <2>4, <1>1, <1>5
    <3>2. CASE k = next
      BY <3>1, <3>2, <2>1, <2>4, <1>1, <1>2, <1>3, <1>9
    <3>3. CASE k # next
      BY <3>1, <3>3, <1>1, <1>9
    <3>. QED  BY <3>2, <3>3
  <2>. QED  BY <2>2, <2>3, <2>4
<1>10. Chain(new)
  <2>1. new \in [N \cup {next} -> Nat \ {0}]
    BY <1>6, <1>7
  <2>2. N \cup {next} \subseteq Nat /\ 0 \in N \cup {next}
    BY <1>1, <1>7
  <2>. QED  BY <2>1, <2>2, <1>5, <1>8, <1>9 DEF Chain
<1>. QED  BY <1>4, <1>5, <1>10 DEF N

\* Merging a chunk with the one behind it.
LEMMA MergeFacts ==
  ASSUME NEW ch, Chain(ch), NEW h \in DOMAIN ch, NEW next \in DOMAIN ch, next = h + ch[h],
         NEW both, both = ch[h] + ch[next],
         NEW new, new = [g \in DOMAIN ch \ {next} |-> IF g = h THEN both ELSE ch[g]]
  PROVE  /\ Chain(new) /\ DOMAIN new = DOMAIN ch \ {next} /\ h # next
         /\ new[h] = both /\ both >= ch[h]
         /\ \A g \in DOMAIN new : g # h => new[g] = ch[g]
         /\ h + both \in DOMAIN new \cup {KmemBytes}
<1>. DEFINE N == DOMAIN ch
            M == DOMAIN ch \ {next}
<1>1. /\ N \subseteq Nat /\ KmemBytes \in Nat /\ 0 \in N
      /\ \A g \in N : /\ g \in Nat /\ ch[g] \in Nat /\ ch[g] > 0
                      /\ g + ch[g] \in N \cup {KmemBytes} /\ g + ch[g] <= KmemBytes
                      /\ \A k \in N : g < k => g + ch[g] <= k
  BY KmemAssumption DEF Chain
<1>2. h \in N /\ next \in N /\ h \in Nat /\ next \in Nat /\ both \in Nat /\ h < next
  BY <1>1
<1>3. h + both = next + ch[next] /\ both > 0 /\ both >= ch[h] /\ ch[h] \in Nat /\ ch[next] \in Nat
  BY <1>1, <1>2
<1>4. DOMAIN new = M /\ new[h] = both /\ \A g \in M : g # h => new[g] = ch[g]
  BY <1>2
<1>5. new = [g \in M |-> new[g]]
  BY <1>4
<1>6. M \subseteq N /\ h \in M /\ next \notin M /\ \A g \in N : g \in M \/ g = next
  BY <1>2
<1>. HIDE DEF N, M
<1>7. \A g \in M : new[g] \in Nat \ {0} /\ g \in Nat
  <2>. SUFFICES ASSUME NEW g \in M  PROVE new[g] \in Nat \ {0} /\ g \in Nat
    OBVIOUS
  <2>1. g \in N /\ g \in Nat /\ ch[g] \in Nat /\ ch[g] > 0
    BY <1>1, <1>6
  <2>2. both \in Nat \ {0}
    BY <1>2, <1>3
  <2>. QED  BY <2>1, <2>2, <1>4
<1>8. 0 \in M
  BY <1>1, <1>2, <1>6
<1>9. h + both \in M \cup {KmemBytes} /\ h + both <= KmemBytes
  BY <1>1, <1>2, <1>3, <1>6
<1>10. \A g \in M : g + new[g] \in M \cup {KmemBytes} /\ g + new[g] <= KmemBytes
  <2>. SUFFICES ASSUME NEW g \in M, g # h
                PROVE  g + ch[g] \in M \cup {KmemBytes} /\ g + ch[g] <= KmemBytes
    BY <1>4, <1>9
  <2>1. g \in N /\ g # next
    BY <1>6
  <2>2. g + ch[g] # next
    <3>1. g < h => g + ch[g] <= h
      BY <2>1, <1>1, <1>2
    <3>2. next < g => next < g + ch[g]
      BY <2>1, <1>1, <1>2
    <3>3. h < g => next <= g
      BY <2>1, <1>1, <1>2
    <3>. QED  BY <3>1, <3>2, <3>3, <2>1, <1>1, <1>2
  <2>. QED  BY <2>1, <2>2, <1>1, <1>6
<1>11. ASSUME NEW g \in M, NEW k \in M, g < k  PROVE g + new[g] <= k
  <2>1. g \in N /\ k \in N /\ k # next /\ g # next
    BY <1>6
  <2>2. CASE g # h
    BY <2>1, <2>2, <1>1, <1>4, <1>11
  <2>3. CASE g = h
    <3>1. next <= k
      BY <2>1, <2>3, <1>1, <1>11
    <3>2. next + ch[next] <= k
      BY <3>1, <2>1, <1>1, <1>2
    <3>. QED  BY <3>2, <2>3, <1>3, <1>4
  <2>. QED  BY <2>2, <2>3
<1>12. Chain(new)
  <2>1. new \in [M -> Nat \ {0}] /\ M \subseteq Nat
    BY <1>5, <1>7
  <2>. QED  BY <2>1, <1>4, <1>8, <1>10, <1>11 DEF Chain
<1>. QED  BY <1>2, <1>3, <1>4, <1>9, <1>12 DEF M

------------------------------------------------------------------------------
(* Each operation preserves the invariant. *)

LEMMA KmemInitInv == kmem_init => KmemInv
<1>. SUFFICES ASSUME kmem_init  PROVE KmemInv
  OBVIOUS
<1>1. /\ chunk = [h \in {0} |-> KmemBytes] /\ taken = {} /\ head = Idle /\ kheld = {}
      /\ KmemBytes \in Nat \ {0}
  BY KmemAssumption DEF kmem_init
<1>2. DOMAIN chunk = {0} /\ chunk[0] = KmemBytes
  BY <1>1
<1>. QED  BY <1>1, <1>2 DEF KmemInv, KmemTypeOK, ChainWhole, TakenHeld, ChainBounded, Headers

\* A chunk that is marked and handed out, and still has room for the request,
\* keeps the marks and the blocks in step.
LEMMA HandFacts ==
  ASSUME KmemInv, NEW sz \in KmemRequests, NEW h \in Headers \ taken, Hand(h, sz),
         Headers \subseteq Headers', sz <= chunk'[h],
         \A g \in Headers : g # h => chunk'[g] = chunk[g]
  PROVE  /\ TakenHeld' /\ taken' \subseteq Headers' /\ kheld' \subseteq [base : Nat, len : Nat]
<1>. DEFINE b0 == [base |-> 8 * h + 8, len |-> sz]
<1>1. /\ h \in Nat /\ h \in Headers /\ h \notin taken /\ sz \in Nat
      /\ taken \subseteq Headers /\ kheld \subseteq [base : Nat, len : Nat]
  BY AlignFacts DEF KmemInv, KmemTypeOK, Headers
<1>2. taken' = taken \cup {h} /\ kheld' = kheld \cup {b0}
  BY DEF Hand
<1>3. /\ b0 \in [base : Nat, len : Nat] /\ HeaderOf(b0) = h /\ b0.base % 8 = 0 /\ b0.len = sz
  BY <1>1, HeaderFacts DEF HeaderOf
<1>4. /\ taken = {HeaderOf(b) : b \in kheld}
      /\ \A b \in kheld : /\ b.base % 8 = 0 /\ HeaderOf(b) \in Headers
                          /\ b.len <= chunk[HeaderOf(b)]
      /\ \A b, c \in kheld : b.base = c.base => b = c
  BY DEF KmemInv, TakenHeld, HeaderOf, Headers
<1>5. \A b \in kheld : HeaderOf(b) # h /\ b.base # b0.base
  <2>. SUFFICES ASSUME NEW b \in kheld  PROVE HeaderOf(b) # h /\ b.base # b0.base
    OBVIOUS
  <2>1. HeaderOf(b) # h
    BY <1>1, <1>4
  <2>. QED  BY <2>1, <1>3 DEF HeaderOf
<1>. HIDE DEF b0
<1>6. taken' = {HeaderOf(b) : b \in kheld'}
  BY <1>2, <1>3, <1>4
<1>7. \A b \in kheld' : /\ b.base % 8 = 0 /\ HeaderOf(b) \in Headers'
                        /\ b.len <= chunk'[HeaderOf(b)]
  <2>1. \A b \in kheld : b.len <= chunk'[HeaderOf(b)]
    BY <1>4, <1>5
  <2>. QED  BY <2>1, <1>1, <1>2, <1>3, <1>4
<1>8. \A b, c \in kheld' : b.base = c.base => b = c
  BY <1>2, <1>4, <1>5
<1>9. TakenHeld'
  BY <1>6, <1>7, <1>8 DEF TakenHeld, HeaderOf, Headers
<1>. QED  BY <1>1, <1>2, <1>3, <1>9

LEMMA SplitChunkInv ==
  ASSUME KmemInv, NEW sz \in KmemRequests, SplitChunk(sz)
  PROVE  KmemInv'
<1>. DEFINE want == align_val(sz)
<1>1. PICK h \in DOMAIN chunk :
        /\ head = Idle /\ FirstFit(h, want) /\ chunk[h] - want > 8
        /\ chunk' = [g \in DOMAIN chunk \cup {h + want} |->
                       CASE g = h + want -> chunk[h] - want [] g = h -> want [] OTHER -> chunk[g]]
        /\ Hand(h, sz)
  BY DEF SplitChunk
<1>2. sz \in Nat /\ want \in Nat /\ want > 0 /\ sz <= want
  BY AlignFacts
<1>3. Chain(chunk) /\ chunk[h] \in Nat /\ h \in Nat /\ h \in Headers \ taken
  BY <1>1, InvIsChain DEF Chain, FirstFit, Candidate, Headers
<1>. HIDE DEF want
<1>4. /\ Chain(chunk') /\ Headers' = Headers \cup {h + want} /\ chunk'[h] = want
      /\ \A g \in Headers : g # h => chunk'[g] = chunk[g]
  <2>. DEFINE rem == chunk[h] - want
              next == h + want
              new == chunk'
  <2>1. rem \in Nat /\ rem > 0 /\ want + rem = chunk[h]
    BY <1>1, <1>2, <1>3
  <2>2. new = [g \in DOMAIN chunk \cup {next} |->
                CASE g = next -> rem [] g = h -> want [] OTHER -> chunk[g]]
    BY <1>1
  <2>. HIDE DEF rem, next, new
  <2>3. next = h + want
    BY DEF next
  <2>4. /\ Chain(new) /\ DOMAIN new = DOMAIN chunk \cup {next}
        /\ new[h] = want /\ \A g \in DOMAIN chunk : g # h => new[g] = chunk[g]
    BY <1>2, <1>3, <2>1, <2>2, <2>3, SplitFacts
  <2>. QED  BY <2>4 DEF next, new, Headers
<1>5. ChainWhole' /\ ChainBounded'
  <2>. DEFINE new == chunk'
  <2>1. Chain(new)
    BY <1>4
  <2>. QED  BY <2>1 DEF Chain, ChainWhole, ChainBounded, Headers
<1>6. TakenHeld' /\ taken' \subseteq Headers' /\ kheld' \subseteq [base : Nat, len : Nat]
  <2>1. Headers \subseteq Headers' /\ sz <= chunk'[h]
    BY <1>2, <1>4
  <2>. QED  BY <1>1, <1>3, <1>4, <2>1, HandFacts
<1>7. KmemTypeOK'
  BY <1>1, <1>4, <1>6 DEF Chain, KmemTypeOK, Hand, Headers
<1>. QED  BY <1>5, <1>6, <1>7 DEF KmemInv

LEMMA WholeChunkInv ==
  ASSUME KmemInv, NEW sz \in KmemRequests, WholeChunk(sz)
  PROVE  KmemInv'
<1>1. PICK h \in DOMAIN chunk :
        head = Idle /\ FirstFit(h, align_val(sz)) /\ Hand(h, sz) /\ chunk' = chunk
  BY DEF WholeChunk
<1>2. sz \in Nat /\ align_val(sz) \in Nat /\ sz <= align_val(sz)
  BY AlignFacts
<1>3. /\ h \in Headers \ taken /\ align_val(sz) <= chunk[h] /\ chunk[h] \in Nat
      /\ Headers' = Headers
  BY <1>1 DEF FirstFit, Candidate, Headers, KmemInv, KmemTypeOK
<1>4. TakenHeld' /\ taken' \subseteq Headers' /\ kheld' \subseteq [base : Nat, len : Nat]
  <2>1. sz <= chunk'[h] /\ \A g \in Headers : chunk'[g] = chunk[g]
    BY <1>1, <1>2, <1>3
  <2>. QED  BY <1>1, <1>3, <2>1, HandFacts
<1>5. ChainWhole' /\ ChainBounded'
  BY <1>1 DEF KmemInv, ChainWhole, ChainBounded, Headers
<1>6. KmemTypeOK'
  BY <1>1, <1>4 DEF KmemInv, KmemTypeOK, Hand, Headers
<1>. QED  BY <1>4, <1>5, <1>6 DEF KmemInv

LEMMA KfreeInv ==
  ASSUME KmemInv, NEW b \in kheld, kfree(b)
  PROVE  KmemInv'
<1>1. /\ taken' = taken \ {HeaderOf(b)} /\ kheld' = kheld \ {b} /\ head' = 0 /\ chunk' = chunk
  BY DEF kfree, HeaderOf
<1>2. /\ kheld \subseteq [base : Nat, len : Nat] /\ 0 \in Headers /\ Headers \subseteq Nat
      /\ taken = {HeaderOf(c) : c \in kheld}
      /\ \A c \in kheld : /\ c.base % 8 = 0 /\ HeaderOf(c) \in Headers
                          /\ c.len <= chunk[HeaderOf(c)]
      /\ \A c, e \in kheld : c.base = e.base => c = e
  BY DEF KmemInv, KmemTypeOK, ChainWhole, TakenHeld, HeaderOf, Headers
<1>3. \A c \in kheld : HeaderOf(c) = HeaderOf(b) => c = b
  <2>. SUFFICES ASSUME NEW c \in kheld, HeaderOf(c) = HeaderOf(b)  PROVE c.base = b.base
    BY <1>2
  <2>1. /\ c.base \in Nat /\ c.base % 8 = 0 /\ b.base \in Nat /\ b.base % 8 = 0
        /\ HeaderOf(c) \in Nat
    BY <1>2
  <2>2. c.base = 8 * HeaderOf(c) + 8 /\ b.base = 8 * HeaderOf(c) + 8
    BY <2>1, BaseFacts DEF HeaderOf
  <2>. QED  BY <2>2
<1>4. taken' = {HeaderOf(c) : c \in kheld'}
  BY <1>1, <1>2, <1>3
<1>5. TakenHeld'
  BY <1>1, <1>2, <1>4 DEF TakenHeld, HeaderOf, Headers
<1>6. KmemTypeOK' /\ ChainWhole' /\ ChainBounded'
  BY <1>1, <1>2 DEF KmemInv, KmemTypeOK, ChainWhole, ChainBounded, Headers
<1>. QED  BY <1>5, <1>6 DEF KmemInv

LEMMA CoalesceInv ==
  ASSUME KmemInv, coalesce
  PROVE  KmemInv'
<1>. DEFINE next == head + chunk[head]
            both == chunk[head] + chunk[next]
            Past(h) == IF h < KmemBytes THEN h ELSE Idle
<1>1. /\ head # Idle /\ taken' = taken /\ kheld' = kheld
      /\ head \in Headers /\ Headers \subseteq Nat /\ Chain(chunk)
      /\ next \in Headers \cup {KmemBytes} /\ KmemBytes \in Nat
  BY KmemAssumption, InvIsChain DEF coalesce, KmemInv, KmemTypeOK, ChainWhole, Headers
<1>2. CASE chunk' = chunk /\ head' \in Headers \cup {Idle}
  BY <1>1, <1>2 DEF KmemInv, KmemTypeOK, ChainWhole, ChainBounded, TakenHeld, Headers
<1>3. CASE /\ next < KmemBytes /\ BothFree(next)
           /\ chunk' = [g \in DOMAIN chunk \ {next} |-> IF g = head THEN both ELSE chunk[g]]
           /\ head' = Past(head + both)
  <2>1. /\ next \in Headers /\ head \notin taken /\ next \notin taken
    BY <1>1, <1>3 DEF BothFree
  <2>. HIDE DEF next, both
  <2>2. /\ Chain(chunk') /\ Headers' = Headers \ {next} /\ head # next
        /\ \A g \in Headers' : g # head => chunk'[g] = chunk[g]
        /\ head + both \in Headers' \cup {KmemBytes}
    <3>. DEFINE new == chunk'
    <3>1. new = [g \in DOMAIN chunk \ {next} |-> IF g = head THEN both ELSE chunk[g]]
      BY <1>3
    <3>2. next = head + chunk[head] /\ both = chunk[head] + chunk[next]
      BY DEF next, both
    <3>3. head \in DOMAIN chunk /\ next \in DOMAIN chunk
      BY <1>1, <2>1 DEF Headers
    <3>. HIDE DEF new
    <3>4. /\ Chain(new) /\ DOMAIN new = DOMAIN chunk \ {next} /\ head # next
          /\ \A g \in DOMAIN new : g # head => new[g] = chunk[g]
          /\ head + both \in DOMAIN new \cup {KmemBytes}
      BY <1>1, <3>1, <3>2, <3>3, MergeFacts
    <3>. QED  BY <3>4 DEF new, Headers
  <2>3. ChainWhole' /\ ChainBounded'
    <3>. DEFINE new == chunk'
    <3>1. Chain(new)
      BY <2>2
    <3>. QED  BY <3>1 DEF Chain, ChainWhole, ChainBounded, Headers
  <2>4. TakenHeld'
    <3>1. \A b \in kheld : /\ HeaderOf(b) \in taken
                          /\ b.base % 8 = 0 /\ HeaderOf(b) \in Headers
                          /\ b.len <= chunk[HeaderOf(b)]
      BY DEF KmemInv, TakenHeld, HeaderOf, Headers
    <3>2. \A b \in kheld : HeaderOf(b) \in Headers' /\ b.len <= chunk'[HeaderOf(b)]
      BY <3>1, <2>1, <2>2
    <3>. QED  BY <3>1, <3>2, <1>1 DEF KmemInv, TakenHeld, HeaderOf, Headers
  <2>5. head' \in Headers' \cup {Idle}
    BY <1>1, <1>3, <2>2
  <2>6. taken' \subseteq Headers' /\ kheld' \subseteq [base : Nat, len : Nat]
    BY <1>1, <2>1, <2>2 DEF KmemInv, KmemTypeOK, Headers
  <2>7. KmemTypeOK'
    BY <2>2, <2>5, <2>6 DEF Chain, KmemTypeOK, Headers
  <2>. QED  BY <2>3, <2>4, <2>7 DEF KmemInv
<1>4. \/ chunk' = chunk /\ head' \in Headers \cup {Idle}
      \/ /\ next < KmemBytes /\ BothFree(next)
         /\ chunk' = [g \in DOMAIN chunk \ {next} |-> IF g = head THEN both ELSE chunk[g]]
         /\ head' = Past(head + both)
  BY <1>1 DEF coalesce
<1>. QED  BY <1>2, <1>3, <1>4

LEMMA KmemStepInv == KmemInv /\ [KmemNext]_kmemVars => KmemInv'
<1>. SUFFICES ASSUME KmemInv, [KmemNext]_kmemVars  PROVE KmemInv'
  OBVIOUS
<1>1. ASSUME NEW sz \in KmemRequests, kmalloc(sz)  PROVE KmemInv'
  BY <1>1, SplitChunkInv, WholeChunkInv DEF kmalloc
<1>2. ASSUME NEW b \in kheld, kfree(b)  PROVE KmemInv'
  BY <1>2, KfreeInv
<1>3. CASE coalesce
  BY <1>3, CoalesceInv
<1>4. CASE UNCHANGED kmemVars
  BY <1>4 DEF kmemVars, KmemInv, KmemTypeOK, ChainWhole, ChainBounded, TakenHeld, Headers
<1>. QED  BY <1>1, <1>2, <1>3, <1>4 DEF KmemNext

------------------------------------------------------------------------------
(* What follows for every run. *)

\* The invariant of the kernel heap: the chain is whole and ends at its end,
\* and what is marked taken is what the program holds.
THEOREM KmemInvariant == KmemSpec => []KmemInv
<1>. QED  BY KmemInitInv, KmemStepInv, PTL DEF KmemSpec

\* The walks of kmalloc and coalesce never leave the chain.
THEOREM KmemChainWhole == KmemSpec => []ChainWhole
<1>1. KmemInv => ChainWhole
  BY DEF KmemInv
<1>. QED  BY <1>1, KmemInvariant, PTL

\* No merge swallows a block in use and no mark outlives its block.
THEOREM KmemTakenHeld == KmemSpec => []TakenHeld
<1>1. KmemInv => TakenHeld
  BY DEF KmemInv
<1>. QED  BY <1>1, KmemInvariant, PTL

KernelApart == \A b, c \in kheld : b # c => KernelUser!Apart(b, c)

\* Blocks of different chunks share no byte: sizes are bytes but count as
\* headers in the chain, so a chunk has eight times the room it needs.
LEMMA KernelHeldApart == KmemInv => KernelApart
<1>. SUFFICES ASSUME KmemInv, NEW b \in kheld, NEW c \in kheld, b # c
              PROVE  KernelUser!Apart(b, c)
  BY DEF KernelApart
<1>. DEFINE h == HeaderOf(b)
            k == HeaderOf(c)
<1>1. b.base # c.base
  BY DEF KmemInv, TakenHeld
<1>2. /\ b.base \in Nat /\ b.len \in Nat /\ c.base \in Nat /\ c.len \in Nat
      /\ b.base % 8 = 0 /\ c.base % 8 = 0 /\ h \in Headers /\ k \in Headers
      /\ b.len <= chunk[h] /\ c.len <= chunk[k]
  BY DEF KmemInv, KmemTypeOK, TakenHeld, HeaderOf, Headers
<1>3. h \in Nat /\ k \in Nat /\ chunk[h] \in Nat /\ chunk[k] \in Nat
  BY <1>2 DEF KmemInv, KmemTypeOK, Headers
<1>4. (h < k => h + chunk[h] <= k) /\ (k < h => k + chunk[k] <= h)
  BY <1>2 DEF KmemInv, ChainWhole, Headers
<1>5. b.base = 8 * h + 8 /\ c.base = 8 * k + 8
  BY <1>2, <1>3, BaseFacts DEF HeaderOf
<1>. HIDE DEF h, k
<1>6. b.base + b.len <= c.base \/ c.base + c.len <= b.base
  BY <1>1, <1>2, <1>3, <1>4, <1>5
<1>. QED  BY <1>1, <1>6 DEF KernelUser!Apart

\* kmalloc hands out one block, kfree takes one back, coalesce does neither.
LEMMA KmemStepImplements ==
  ASSUME KmemInv, KmemInv', [KmemNext]_kmemVars
  PROVE  [KernelUser!Next]_kheld
<1>1. ASSUME NEW sz \in KmemRequests, kmalloc(sz)  PROVE [KernelUser!Next]_kheld
  <2>1. PICK g : kheld' = kheld \cup {g}
    BY <1>1 DEF kmalloc, SplitChunk, WholeChunk, Hand
  <2>2. CASE g \in kheld
    BY <2>1, <2>2
  <2>3. CASE g \notin kheld
    <3>1. KernelApart'
      BY KernelHeldApart, PTL
    <3>2. \A c \in kheld : KernelUser!Apart(g, c)
      BY <2>1, <2>3, <3>1 DEF KernelApart
    <3>. QED  BY <2>1, <2>3, <3>2 DEF KernelUser!Next, KernelUser!Allocate
  <2>. QED  BY <2>2, <2>3
<1>2. ASSUME NEW b \in kheld, kfree(b)  PROVE [KernelUser!Next]_kheld
  BY <1>2 DEF kfree, KernelUser!Next, KernelUser!Free
<1>3. CASE coalesce \/ UNCHANGED kmemVars
  BY <1>3 DEF coalesce, kmemVars
<1>. QED  BY <1>1, <1>2, <1>3 DEF KmemNext

\* The kernel heap implements an allocator: no block it hands out shares a
\* byte with one still held, whatever is asked for, freed and merged.
THEOREM KmemIsHeap == KmemSpec => KmemImplements
<1>1. kmem_init => KernelUser!Init
  BY DEF kmem_init, KernelUser!Init
<1>2. KmemInv /\ KmemInv' /\ [KmemNext]_kmemVars => [KernelUser!Next]_kheld
  BY KmemStepImplements
<1>. QED  BY <1>1, <1>2, KmemInvariant, PTL DEF KmemSpec, KmemImplements, KernelUser!Spec
=============================================================================
