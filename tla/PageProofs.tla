---------------------------- MODULE PageProofs ----------------------------
(***************************************************************************)
(* Proofs about the page allocator and the page tables, for every heap,    *)
(* page size, size of tables and set of requests: the flags tell what is   *)
(* held, blocks stay in the heap, the pages implement an allocator, and    *)
(* addresses are translated as the program has asked for.                  *)
(***************************************************************************)
EXTENDS PageTable, TLAPS

Pages == 0 .. num_pages - 1

First(b) == IndexOf(b.base)
Count(b) == b.len \div PAGE_SIZE

\* A block is a run of pages the search may hand out: never up to the last.
Placed(b) ==
  /\ First(b) \in Nat /\ Count(b) \in Nat \ {0} /\ First(b) + Count(b) < num_pages
  /\ b = Block(First(b), Count(b))

\* What makes FlagsTell inductive: blocks are placed and share no page, so
\* the first page marked Last behind a block's first is its own.
Disjoint == \A b, c \in held : b # c => PagesOf(b) \cap PagesOf(c) = {}

PageInv == PageTypeOK /\ FlagsTell /\ Disjoint /\ \A b \in held : Placed(b)

------------------------------------------------------------------------------
(* Pages and addresses. *)

LEMMA TimesDiv == ASSUME NEW p \in Nat \ {0}, NEW i \in Nat  PROVE (p * i) \div p = i
BY SMT

LEMMA TimesMono ==
  ASSUME NEW p \in Nat \ {0}, NEW i \in Nat, NEW j \in Nat, i <= j  PROVE p * i <= p * j
BY SMT

LEMMA TimesPlus ==
  ASSUME NEW p \in Nat \ {0}, NEW i \in Nat, NEW k \in Nat
  PROVE  p * (i + k) = p * i + p * k /\ p * i \in Nat
BY SMT

LEMMA DivTimes ==
  ASSUME NEW p \in Nat \ {0}, NEW n \in Nat  PROVE p * (n \div p) <= n /\ n \div p \in Nat
BY SMT

LEMMA ModOver ==
  ASSUME NEW p \in Nat \ {0}, NEW h \in Nat, h % p = 0, NEW n \in 0 .. p - 1
  PROVE  (h + n) % p = n
BY SMT

LEMMA ModPlus == ASSUME NEW p \in Nat \ {0}, NEW h \in Nat, h % p = 0  PROVE (h + p) % p = 0
<1>. DEFINE k == h \div p
<1>1. k \in Nat /\ h = p * k
  BY SMT
<1>. HIDE DEF k
<1>2. h + p = p * (k + 1)
  BY <1>1
<1>3. (p * (k + 1)) % p = 0
  BY <1>1, SMT
<1>. QED  BY <1>2, <1>3

\* The pages start behind the table, at most one page into the heap.
LEMMA StartFacts ==
  /\ num_pages \in Nat /\ PAGE_SIZE \in Nat \ {0} /\ HEAP_START \in Nat
  /\ ALLOC_START \in Nat /\ HEAP_START + num_pages <= ALLOC_START
  /\ ALLOC_START <= HEAP_START + PAGE_SIZE
  /\ PAGE_SIZE * num_pages <= HEAP_SIZE /\ HEAP_SIZE \in Nat
<1>1. /\ PAGE_SIZE \in Nat \ {0} /\ HEAP_SIZE \in Nat /\ HEAP_START \in Nat
      /\ HEAP_START % PAGE_SIZE = 0 /\ num_pages <= PAGE_SIZE
  BY PageAssumption
<1>2. num_pages \in Nat /\ PAGE_SIZE * num_pages <= HEAP_SIZE
  BY <1>1, DivTimes DEF num_pages
<1>. DEFINE n == num_pages
            top == HEAP_START + n + PAGE_SIZE - 1
<1>. HIDE DEF n
<1>3. n \in Nat /\ n <= PAGE_SIZE
  BY <1>1, <1>2 DEF n
<1>4. CASE n = 0
  <2>1. top = HEAP_START + (PAGE_SIZE - 1)
    BY <1>1, <1>4
  <2>2. PAGE_SIZE - 1 \in 0 .. PAGE_SIZE - 1
    BY <1>1
  <2>3. top % PAGE_SIZE = PAGE_SIZE - 1
    BY <1>1, <2>1, <2>2, ModOver
  <2>4. ALLOC_START = HEAP_START
    BY <1>1, <2>1, <2>3 DEF ALLOC_START, n
  <2>. QED  BY <2>4, <1>1, <1>2, <1>4 DEF n
<1>5. CASE n # 0
  <2>. DEFINE h == HEAP_START + PAGE_SIZE
  <2>1. h \in Nat /\ h % PAGE_SIZE = 0 /\ n - 1 \in 0 .. PAGE_SIZE - 1 /\ top = h + (n - 1)
    <3>1. h % PAGE_SIZE = 0
      BY <1>1, ModPlus
    <3>2. h \in Nat /\ n - 1 \in 0 .. PAGE_SIZE - 1 /\ top = h + (n - 1)
      BY <1>1, <1>3, <1>5
    <3>. QED  BY <3>1, <3>2
  <2>. HIDE DEF h
  <2>2. top % PAGE_SIZE = n - 1
    BY <1>1, <2>1, ModOver
  <2>3. ALLOC_START = HEAP_START + PAGE_SIZE
    BY <1>1, <1>3, <2>1, <2>2 DEF ALLOC_START, n, h
  <2>. QED  BY <2>3, <1>1, <1>2 DEF n
<1>. QED  BY <1>4, <1>5

\* The address of a block tells its first page, its length its pages.
LEMMA BlockFacts ==
  ASSUME NEW i \in Nat, NEW p \in Nat, NEW b, b = Block(i, p)
  PROVE  First(b) = i /\ Count(b) = p /\ b \in [base : Nat, len : Nat]
<1>1. /\ PAGE_SIZE \in Nat \ {0} /\ ALLOC_START \in Nat
      /\ PAGE_SIZE * i \in Nat /\ PAGE_SIZE * p \in Nat
      /\ (PAGE_SIZE * i) \div PAGE_SIZE = i /\ (PAGE_SIZE * p) \div PAGE_SIZE = p
  BY StartFacts, TimesDiv, TimesPlus
<1>2. b.base = ALLOC_START + PAGE_SIZE * i /\ b.len = PAGE_SIZE * p
  BY DEF Block
<1>. DEFINE x == PAGE_SIZE * i
<1>. HIDE DEF x
<1>3. (ALLOC_START + x) - ALLOC_START = x
  BY <1>1 DEF x
<1>4. b.base - ALLOC_START = PAGE_SIZE * i
  BY <1>2, <1>3 DEF x
<1>. QED  BY <1>1, <1>2, <1>4 DEF First, Count, IndexOf, Block

\* Blocks whose pages lie apart lie apart.
LEMMA RunsApart ==
  ASSUME NEW i \in Nat, NEW p \in Nat, NEW j \in Nat, i + p <= j,
         NEW b, b = Block(i, p), NEW c, c.base = ALLOC_START + PAGE_SIZE * j
  PROVE  b.base + b.len <= c.base
<1>1. PAGE_SIZE * (i + p) <= PAGE_SIZE * j
  BY StartFacts, TimesMono
<1>2. PAGE_SIZE * (i + p) = PAGE_SIZE * i + PAGE_SIZE * p
  BY StartFacts, TimesPlus
<1>3. PAGE_SIZE * i \in Nat /\ PAGE_SIZE * p \in Nat /\ PAGE_SIZE * j \in Nat /\ ALLOC_START \in Nat
  BY StartFacts, TimesPlus
<1>4. b.base = ALLOC_START + PAGE_SIZE * i /\ b.len = PAGE_SIZE * p
  BY DEF Block
<1>. QED  BY <1>1, <1>2, <1>3, <1>4

------------------------------------------------------------------------------
(* Each operation preserves the invariant. *)

LEMMA PageInitInv == page_init => PageInv
<1>. SUFFICES ASSUME page_init  PROVE PageInv
  OBVIOUS
<1>1. held = {} /\ flags = [i \in Pages |-> {}]
  BY DEF page_init, Pages, Empty
<1>2. \A i \in Pages : ~page_is_taken(flags[i]) /\ ~page_is_last(flags[i])
  BY <1>1 DEF page_is_taken, page_is_last
<1>. QED  BY <1>1, <1>2 DEF PageInv, PageTypeOK, FlagsTell, Disjoint, Pages

LEMMA AllocInv ==
  ASSUME PageInv, NEW pages \in Nat \ {0}, alloc(pages)
  PROVE  PageInv'
<1>1. PICK i \in Candidates(pages) :
        flags' = Mark(i, pages) /\ held' = held \cup {Block(i, pages)}
  BY DEF alloc
<1>2. pages \in Nat /\ pages >= 1 /\ num_pages \in Nat
  BY StartFacts
<1>3. /\ i \in Nat /\ i + pages < num_pages
      /\ \A j \in Run(i, pages) : ~page_is_taken(flags[j])
  BY <1>2 DEF Candidates
<1>. DEFINE g == Block(i, pages)
<1>4. First(g) = i /\ Count(g) = pages /\ g \in [base : Nat, len : Nat]
  BY <1>2, <1>3, BlockFacts
<1>. HIDE DEF g
<1>5. PagesOf(g) = Run(i, pages) /\ Run(i, pages) \subseteq Pages
      /\ i + pages - 1 \in Run(i, pages)
  BY <1>2, <1>3, <1>4 DEF PagesOf, First, Count, Run, Pages
<1>6. /\ flags \in [Pages -> SUBSET {"Taken", "Last"}] /\ held' = held \cup {g}
      /\ DOMAIN flags = Pages
  BY <1>1 DEF PageInv, PageTypeOK, Pages, g
<1>7. /\ flags' \in [Pages -> SUBSET {"Taken", "Last"}]
      /\ \A j \in Pages : /\ page_is_taken(flags'[j]) <=> page_is_taken(flags[j]) \/ j \in Run(i, pages)
                          /\ page_is_last(flags'[j]) <=> page_is_last(flags[j]) \/ j = i + pages - 1
  <2>. DEFINE new == flags'
              Marked(j) == CASE j = i + pages - 1   -> flags[j] \cup {"Taken", "Last"}
                             [] j \in i .. i + pages - 2 -> flags[j] \cup {"Taken"}
                             [] OTHER               -> flags[j]
  <2>1. new = [j \in Pages |-> Marked(j)]
    BY <1>1, <1>6 DEF Mark
  <2>. HIDE DEF new
  <2>2. ASSUME NEW j \in Pages
        PROVE  /\ Marked(j) \in SUBSET {"Taken", "Last"}
               /\ "Taken" \in Marked(j) <=> "Taken" \in flags[j] \/ j \in Run(i, pages)
               /\ "Last" \in Marked(j) <=> "Last" \in flags[j] \/ j = i + pages - 1
    <3>1. flags[j] \in SUBSET {"Taken", "Last"} /\ j \in Nat
      BY <1>6 DEF Pages
    <3>2. CASE j = i + pages - 1
      <4>1. Marked(j) = flags[j] \cup {"Taken", "Last"} /\ j \in Run(i, pages)
        <5>1. j \notin i .. i + pages - 2
          BY <3>1, <3>2, <1>2, <1>3
        <5>. QED  BY <3>2, <5>1, <1>5
      <4>. QED  BY <4>1, <3>1, <3>2
    <3>3. CASE j # i + pages - 1 /\ j \in i .. i + pages - 2
      <4>1. Marked(j) = flags[j] \cup {"Taken"} /\ j \in Run(i, pages)
        BY <3>3, <1>2, <1>3 DEF Run
      <4>. QED  BY <4>1, <3>1, <3>3
    <3>4. CASE j # i + pages - 1 /\ j \notin i .. i + pages - 2
      <4>1. Marked(j) = flags[j] /\ j \notin Run(i, pages)
        BY <3>1, <3>4, <1>2, <1>3 DEF Run
      <4>. QED  BY <4>1, <3>1, <3>4
    <3>. QED  BY <3>2, <3>3, <3>4
  <2>. HIDE DEF Marked
  <2>3. new \in [Pages -> SUBSET {"Taken", "Last"}] /\ \A j \in Pages : new[j] = Marked(j)
    BY <2>1, <2>2
  <2>. QED  BY <2>2, <2>3 DEF new, page_is_taken, page_is_last
<1>8. /\ \A j \in Pages : /\ page_is_taken(flags[j]) <=> \E b \in held : j \in PagesOf(b)
                          /\ page_is_last(flags[j]) <=> \E b \in held : j = First(b) + Count(b) - 1
  BY DEF PageInv, FlagsTell, Pages, First, Count
<1>9. \A j \in Pages : /\ page_is_taken(flags'[j]) <=> \E b \in held' : j \in PagesOf(b)
                       /\ page_is_last(flags'[j]) <=> \E b \in held' : j = First(b) + Count(b) - 1
  BY <1>4, <1>5, <1>6, <1>7, <1>8
<1>10. FlagsTell'
  BY <1>9 DEF FlagsTell, Pages, First, Count
<1>11. \A b \in held : PagesOf(b) \cap PagesOf(g) = {}
  <2>1. \A j \in Run(i, pages) : \A b \in held : j \notin PagesOf(b)
    BY <1>3, <1>5, <1>8
  <2>. QED  BY <2>1, <1>5
<1>12. Disjoint'
  BY <1>6, <1>11 DEF PageInv, Disjoint
<1>13. Placed(g)
  BY <1>2, <1>3, <1>4 DEF Placed, g
<1>14. (\A b \in held : Placed(b))'
  BY <1>6, <1>13 DEF PageInv
<1>15. PageTypeOK'
  BY <1>4, <1>6, <1>7 DEF PageInv, PageTypeOK, Pages
<1>. QED  BY <1>10, <1>12, <1>14, <1>15 DEF PageInv

LEMMA DeallocInv ==
  ASSUME PageInv, NEW b \in held, dealloc(b)
  PROVE  PageInv'
<1>. DEFINE i == First(b)
            last == First(b) + Count(b) - 1
<1>1. PICK e \in DOMAIN flags :
        /\ i <= e
        /\ ~page_is_taken(flags[e]) \/ page_is_last(flags[e])
        /\ \A j \in i .. e - 1 : page_is_taken(flags[j]) /\ ~page_is_last(flags[j])
        /\ flags' = [j \in DOMAIN flags |-> IF j \in i .. e THEN Empty ELSE flags[j]]
        /\ held' = held \ {b}
  BY DEF dealloc, First
<1>2. /\ i \in Nat /\ Count(b) \in Nat /\ Count(b) >= 1 /\ last \in Nat /\ i <= last
      /\ last < num_pages - 1 /\ num_pages \in Nat /\ PagesOf(b) = i .. last
      /\ last \in Pages /\ PagesOf(b) \subseteq Pages
  BY StartFacts DEF PageInv, Placed, PagesOf, First, Count, Run, Pages
<1>3. /\ \A j \in Pages : /\ page_is_taken(flags[j]) <=> \E c \in held : j \in PagesOf(c)
                          /\ page_is_last(flags[j]) <=> \E c \in held : j = First(c) + Count(c) - 1
      /\ DOMAIN flags = Pages /\ flags \in [Pages -> SUBSET {"Taken", "Last"}]
  BY DEF PageInv, PageTypeOK, FlagsTell, Pages, First, Count
<1>4. \A c \in held : First(c) + Count(c) - 1 \in PagesOf(c)
  BY DEF PageInv, Placed, PagesOf, First, Count, Run
<1>5. \A c \in held : c # b => PagesOf(c) \cap PagesOf(b) = {}
  BY DEF PageInv, Disjoint
<1>. HIDE DEF i
<1>6. e = last
  <2>1. e \in Nat /\ e \in Pages
    BY <1>3 DEF Pages
  <2>2. page_is_last(flags[last])
    BY <1>2, <1>3
  <2>3. ~(last < e)
    BY <1>1, <1>2, <2>1, <2>2
  <2>4. ~(e < last)
    <3>. SUFFICES ASSUME e < last  PROVE FALSE
      OBVIOUS
    <3>1. e \in PagesOf(b) /\ page_is_taken(flags[e])
      BY <1>1, <1>2, <1>3, <2>1
    <3>2. PICK c \in held : e = First(c) + Count(c) - 1
      BY <1>1, <1>3, <2>1, <3>1
    <3>3. c = b
      BY <1>4, <1>5, <3>1, <3>2
    <3>. QED  BY <3>2, <3>3, <1>2, <2>1
  <2>. QED  BY <2>1, <2>3, <2>4, <1>2
<1>. HIDE DEF last
<1>7. /\ flags' \in [Pages -> SUBSET {"Taken", "Last"}]
      /\ \A j \in Pages : flags'[j] = IF j \in PagesOf(b) THEN {} ELSE flags[j]
  BY <1>1, <1>2, <1>3, <1>6 DEF Empty
<1>8. \A j \in Pages : /\ page_is_taken(flags'[j]) <=> page_is_taken(flags[j]) /\ j \notin PagesOf(b)
                       /\ page_is_last(flags'[j]) <=> page_is_last(flags[j]) /\ j \notin PagesOf(b)
  BY <1>7 DEF page_is_taken, page_is_last
<1>9. \A j \in Pages : page_is_taken(flags'[j]) <=> \E c \in held' : j \in PagesOf(c)
  BY <1>1, <1>3, <1>5, <1>8
<1>10. \A j \in Pages : page_is_last(flags'[j]) <=> \E c \in held' : j = First(c) + Count(c) - 1
  <2>. SUFFICES ASSUME NEW j \in Pages
                PROVE  page_is_last(flags'[j]) <=> \E c \in held' : j = First(c) + Count(c) - 1
    OBVIOUS
  <2>1. ASSUME NEW c \in held', j = First(c) + Count(c) - 1  PROVE page_is_last(flags'[j])
    <3>1. c \in held /\ c # b /\ j \in PagesOf(c)
      BY <2>1, <1>1, <1>4
    <3>. QED  BY <3>1, <2>1, <1>3, <1>5, <1>8
  <2>2. ASSUME page_is_last(flags'[j])  PROVE \E c \in held' : j = First(c) + Count(c) - 1
    <3>1. page_is_last(flags[j]) /\ j \notin PagesOf(b)
      BY <2>2, <1>8
    <3>2. PICK c \in held : j = First(c) + Count(c) - 1
      BY <3>1, <1>3
    <3>3. c # b
      BY <3>1, <3>2, <1>4
    <3>. QED  BY <3>2, <3>3, <1>1
  <2>. QED  BY <2>1, <2>2
<1>11. FlagsTell'
  BY <1>9, <1>10 DEF FlagsTell, Pages, First, Count
<1>12. Disjoint' /\ (\A c \in held : Placed(c))'
  BY <1>1 DEF PageInv, Disjoint
<1>13. PageTypeOK'
  BY <1>1, <1>7 DEF PageInv, PageTypeOK, Pages
<1>. QED  BY <1>11, <1>12, <1>13 DEF PageInv

LEMMA PageStepInv == PageInv /\ [PageNext]_pageVars => PageInv'
<1>. SUFFICES ASSUME PageInv, [PageNext]_pageVars  PROVE PageInv'
  OBVIOUS
<1>1. ASSUME NEW pages \in PageRequests, alloc(pages)  PROVE PageInv'
  <2>1. pages \in Nat \ {0}
    BY PageAssumption, StartFacts
  <2>. QED  BY <1>1, <2>1, AllocInv
<1>2. ASSUME NEW b \in held, dealloc(b)  PROVE PageInv'
  BY <1>2, DeallocInv
<1>3. CASE UNCHANGED pageVars
  BY <1>3 DEF pageVars, PageInv, PageTypeOK, FlagsTell, Disjoint
<1>. QED  BY <1>1, <1>2, <1>3 DEF PageNext

------------------------------------------------------------------------------
(* What follows for every run. *)

\* The invariant of the page allocator.
THEOREM PageInvariant == PageSpec => []PageInv
<1>. QED  BY PageInitInv, PageStepInv, PTL DEF PageSpec

\* The flags tell what the program holds: dealloc finds a block's end.
THEOREM PagesFlagsTell == PageSpec => []FlagsTell
<1>1. PageInv => FlagsTell
  BY DEF PageInv
<1>. QED  BY <1>1, PageInvariant, PTL

\* No block reaches past the heap, although the table takes some of its room.
THEOREM PagesInHeap == PageSpec => []BlocksInHeap
<1>1. PageInv => BlocksInHeap
  <2>. SUFFICES ASSUME PageInv, NEW b \in held
                PROVE  /\ HEAP_START + num_pages <= b.base
                       /\ b.base + b.len <= HEAP_START + HEAP_SIZE
    BY DEF BlocksInHeap
  <2>. DEFINE i == First(b)
              p == Count(b)
  <2>1. /\ i \in Nat /\ p \in Nat /\ i + p + 1 <= num_pages
        /\ b.base = ALLOC_START + PAGE_SIZE * i /\ b.len = PAGE_SIZE * p
    BY StartFacts DEF PageInv, Placed, Block
  <2>. HIDE DEF i, p
  <2>2. /\ num_pages \in Nat /\ PAGE_SIZE \in Nat \ {0} /\ HEAP_START \in Nat
        /\ ALLOC_START \in Nat /\ HEAP_START + num_pages <= ALLOC_START
        /\ ALLOC_START <= HEAP_START + PAGE_SIZE
        /\ PAGE_SIZE * num_pages <= HEAP_SIZE /\ HEAP_SIZE \in Nat
    BY StartFacts
  <2>3. PAGE_SIZE * (i + p + 1) <= PAGE_SIZE * num_pages
    BY <2>1, <2>2, TimesMono
  <2>4. PAGE_SIZE * (i + p + 1) = PAGE_SIZE * i + PAGE_SIZE * p + PAGE_SIZE
    BY <2>1, <2>2
  <2>5. PAGE_SIZE * i \in Nat /\ PAGE_SIZE * p \in Nat /\ PAGE_SIZE * num_pages \in Nat
    BY <2>1, <2>2, TimesPlus
  <2>. QED  BY <2>1, <2>2, <2>3, <2>4, <2>5
<1>. QED  BY <1>1, PageInvariant, PTL

AllApart == \A b, c \in held : b # c => PageUser!Apart(b, c)

\* Runs of pages that share no page share no byte.
LEMMA HeldApart == PageInv => AllApart
<1>. SUFFICES ASSUME PageInv, NEW b \in held, NEW c \in held, b # c
              PROVE  PageUser!Apart(b, c)
  BY DEF AllApart
<1>. DEFINE i == First(b)
            p == Count(b)
            j == First(c)
            q == Count(c)
<1>1. /\ i \in Nat /\ p \in Nat \ {0} /\ b = Block(i, p)
      /\ j \in Nat /\ q \in Nat \ {0} /\ c = Block(j, q)
  BY DEF PageInv, Placed
<1>2. Run(i, p) \cap Run(j, q) = {}
  BY DEF PageInv, Disjoint, PagesOf, First, Count
<1>. HIDE DEF i, p, j, q
<1>3. i + p <= j \/ j + q <= i
  BY <1>1, <1>2 DEF Run
<1>4. b.base = ALLOC_START + PAGE_SIZE * i /\ c.base = ALLOC_START + PAGE_SIZE * j
  BY <1>1 DEF Block
<1>5. b.base + b.len <= c.base \/ c.base + c.len <= b.base
  BY <1>1, <1>3, <1>4, RunsApart
<1>6. b.base # c.base
  <2>1. IndexOf(b.base) # IndexOf(c.base)
    BY <1>1, <1>3 DEF i, j, First
  <2>. QED  BY <2>1
<1>. QED  BY <1>5, <1>6 DEF PageUser!Apart

\* alloc hands out one block, dealloc takes one back.
LEMMA AllocImplements ==
  ASSUME PageInv, PageInv', NEW pages, alloc(pages)  PROVE [PageUser!Next]_held
<1>1. PICK g : held' = held \cup {g}
  BY DEF alloc
<1>2. CASE g \in held
  BY <1>1, <1>2
<1>3. CASE g \notin held
  <2>1. AllApart'
    BY HeldApart, PTL
  <2>2. \A c \in held : PageUser!Apart(g, c)
    BY <1>1, <1>3, <2>1 DEF AllApart
  <2>. QED  BY <1>1, <1>3, <2>2 DEF PageUser!Next, PageUser!Allocate
<1>. QED  BY <1>2, <1>3

LEMMA DeallocImplements == ASSUME NEW b \in held, dealloc(b)  PROVE [PageUser!Next]_held
BY DEF dealloc, PageUser!Next, PageUser!Free

LEMMA PageStepImplements ==
  ASSUME PageInv, PageInv', [PageNext]_pageVars
  PROVE  [PageUser!Next]_held
<1>1. ASSUME NEW pages \in PageRequests, alloc(pages)  PROVE [PageUser!Next]_held
  BY <1>1, AllocImplements
<1>2. ASSUME NEW b \in held, dealloc(b)  PROVE [PageUser!Next]_held
  BY <1>2, DeallocImplements
<1>3. CASE UNCHANGED pageVars
  BY <1>3 DEF pageVars
<1>. QED  BY <1>1, <1>2, <1>3 DEF PageNext

\* The page allocator implements an allocator: a block of pages shares no byte
\* with one the program still holds, whatever it asks for and gives back.
THEOREM PagesAreHeap == PageSpec => PagesImplement
<1>1. page_init => PageUser!Init
  BY DEF page_init, PageUser!Init
<1>2. PageInv /\ PageInv' /\ [PageNext]_pageVars => [PageUser!Next]_held
  BY PageStepImplements
<1>. QED  BY <1>1, <1>2, PageInvariant, PTL DEF PageSpec, PagesImplement, PageUser!Spec

------------------------------------------------------------------------------
(* The page tables. *)

Tables == DOMAIN tables
Entries == {Invalid} \cup {Branch(p) : p \in Tables} \cup {Leaf(p) : p \in PPages}

TablesOK == root \in Tables /\ tables \in [Tables -> [0 .. Fan - 1 -> Entries]]

\* Each table belongs to one level, also one that a larger leaf has cut off,
Levels(lev) ==
  /\ lev[root] = 2
  /\ \A q \in Tables, d \in 0 .. Fan - 1 :
       tables[q][d].kind = "branch" => lev[q] = lev[tables[q][d].to] + 1

Leveled == \E lev \in [Tables -> 0 .. 2] : Levels(lev)

\* and there is one way to it at most.
OneWay ==
  \A q, r \in Tables : \A d, e \in 0 .. Fan - 1 :
    /\ tables[q][d].kind = "branch" /\ tables[r][e].kind = "branch"
    /\ tables[q][d].to = tables[r][e].to
    => q = r /\ d = e

\* No table is anybody else's page: its page is not given back.
Owned == \A q \in Tables : \E b \in held : b.base = q

\* The walk for v gets to level i, where it reads this table.
Reaches(v, i) == \A j \in i + 1 .. 2 : Entry(v, j).kind = "branch"
At(v, i) == IF i = 2 THEN root ELSE Entry(v, i + 1).to

\* The map under way is where the walk for its page would be, and meets no leaf.
UnderWay ==
  todo # NoMap =>
    /\ todo \in [vaddr : VirtualPages, paddr : PPages, level : 0 .. 2, i : 0 .. 2, table : Tables]
    /\ todo.level <= todo.i
    /\ Reaches(todo.vaddr, todo.i) /\ At(todo.vaddr, todo.i) = todo.table
    /\ \A j \in todo.level + 1 .. 2 : Entry(todo.vaddr, j).kind # "leaf"

TreeInv == TablesOK /\ Leveled /\ OneWay /\ UnderWay /\ Translates

PTInv ==
  /\ PageInv /\ Owned
  /\ root = 0 => tables = [p \in {} |-> EmptyTable] /\ todo = NoMap
                 /\ meant = [v \in VirtualPages |-> Unmapped]
  /\ root # 0 => TreeInv

------------------------------------------------------------------------------
(* Walks. *)

LEMMA DigitFacts ==
  ASSUME NEW v \in VirtualPages, NEW i \in 0 .. 2  PROVE vpn(v, i) \in 0 .. Fan - 1
<1>1. Fan \in Nat /\ Fan >= 1 /\ v \in Nat
  BY PageTableAssumption DEF VirtualPages
<1>2. Fan * Fan \in Nat /\ Fan * Fan >= 1
  BY <1>1, SMT
<1>3. Span(i) \in Nat \ {0}
  BY <1>1, <1>2 DEF Span
<1>. DEFINE x == Span(i)
<1>. HIDE DEF x
<1>4. (v \div x) \in Nat
  BY <1>1, <1>3 DEF x
<1>5. (v \div x) % Fan \in 0 .. Fan - 1
  BY <1>1, <1>4
<1>. QED  BY <1>5 DEF vpn, Digit, x

LEMMA EntryKinds ==
  /\ Invalid.kind = "invalid"
  /\ \A p : /\ Branch(p).kind = "branch" /\ Branch(p).to = p
            /\ Leaf(p).kind = "leaf" /\ Leaf(p).to = p
  /\ \A e \in Entries : /\ e.kind \in {"invalid", "branch", "leaf"}
                        /\ e.kind = "invalid" => e = Invalid
                        /\ e.kind = "branch" => e.to \in Tables
BY DEF Invalid, Branch, Leaf, Entries

\* The three entries of a walk.
LEMMA EntryIs ==
  \A v : /\ Entry(v, 2) = tables[root][vpn(v, 2)]
         /\ Entry(v, 1) = Below(Entry(v, 2), v, 1)
         /\ Entry(v, 0) = Below(Entry(v, 1), v, 0)
BY DEF Entry

\* Where the walk gets to, and what it reads there.
LEMMA WalkFacts ==
  ASSUME TablesOK, NEW lev, Levels(lev), lev \in [Tables -> 0 .. 2], NEW v \in VirtualPages
  PROVE  /\ \A i \in 0 .. 2 : Entry(v, i) \in Entries
         /\ \A i \in 0 .. 2 :
              Reaches(v, i) => /\ At(v, i) \in Tables /\ lev[At(v, i)] = i
                               /\ Entry(v, i) = tables[At(v, i)][vpn(v, i)]
         /\ \A i \in 0 .. 1 :
              /\ Reaches(v, i) <=> Entry(v, i + 1).kind = "branch"
              /\ Entry(v, i + 1).kind # "branch" => Entry(v, i) = Entry(v, i + 1)
         /\ Entry(v, 0).kind # "branch"
<1>. DEFINE a == Entry(v, 2)
            b == Entry(v, 1)
            c == Entry(v, 0)
<1>1. /\ vpn(v, 2) \in 0 .. Fan - 1 /\ vpn(v, 1) \in 0 .. Fan - 1 /\ vpn(v, 0) \in 0 .. Fan - 1
  BY DigitFacts
<1>2. /\ a = tables[root][vpn(v, 2)]
      /\ b = (IF a.kind = "branch" THEN tables[a.to][vpn(v, 1)] ELSE a)
      /\ c = (IF b.kind = "branch" THEN tables[b.to][vpn(v, 0)] ELSE b)
  BY EntryIs DEF Below
<1>. HIDE DEF a, b, c
<1>3. \A q \in Tables, d \in 0 .. Fan - 1 :
        /\ tables[q][d] \in Entries
        /\ tables[q][d].kind = "branch" =>
             tables[q][d].to \in Tables /\ lev[q] = lev[tables[q][d].to] + 1
  <2>1. \A q \in Tables, d \in 0 .. Fan - 1 : tables[q][d] \in Entries
    BY DEF TablesOK
  <2>2. \A e \in Entries : e.kind = "branch" => e.to \in Tables
    BY EntryKinds
  <2>3. \A q \in Tables, d \in 0 .. Fan - 1 :
          tables[q][d].kind = "branch" => lev[q] = lev[tables[q][d].to] + 1
    BY DEF Levels
  <2>. QED  BY ONLY <2>1, <2>2, <2>3
<1>4. root \in Tables /\ lev[root] = 2 /\ \A q \in Tables : lev[q] \in 0 .. 2
  BY DEF TablesOK, Levels
<1>5. a \in Entries /\ (a.kind = "branch" => a.to \in Tables /\ lev[a.to] = 1)
  BY <1>1, <1>2, <1>3, <1>4
<1>6. /\ b \in Entries
      /\ b.kind = "branch" => a.kind = "branch" /\ b.to \in Tables /\ lev[b.to] = 0
  <2>1. CASE a.kind = "branch"
    <3>1. b = tables[a.to][vpn(v, 1)] /\ a.to \in Tables /\ lev[a.to] = 1
      BY <1>2, <1>5, <2>1
    <3>2. b.kind = "branch" => b.to \in Tables /\ lev[a.to] = lev[b.to] + 1
      BY <1>1, <1>3, <3>1
    <3>3. b \in Entries
      BY <1>1, <1>3, <3>1
    <3>4. b.kind = "branch" => lev[b.to] = 0
      BY <1>4, <3>1, <3>2
    <3>. QED  BY <2>1, <3>2, <3>3, <3>4
  <2>2. CASE a.kind # "branch"
    BY <1>2, <1>5, <2>2
  <2>. QED  BY <2>1, <2>2
<1>7. c \in Entries /\ c.kind # "branch"
  <2>1. CASE b.kind = "branch"
    <3>1. c = tables[b.to][vpn(v, 0)] /\ b.to \in Tables /\ lev[b.to] = 0
      BY <1>2, <1>6, <2>1
    <3>2. c.kind = "branch" => lev[b.to] = lev[c.to] + 1 /\ c.to \in Tables
      BY <1>1, <1>3, <3>1
    <3>. QED  BY <1>1, <1>3, <1>4, <3>1, <3>2
  <2>2. CASE b.kind # "branch"
    BY <1>2, <1>6, <2>2
  <2>. QED  BY <2>1, <2>2
<1>8. /\ Reaches(v, 1) <=> a.kind = "branch"
      /\ Reaches(v, 0) <=> a.kind = "branch" /\ b.kind = "branch"
      /\ At(v, 2) = root /\ At(v, 1) = a.to /\ At(v, 0) = b.to
  <2>1. 1 + 1 .. 2 = {2} /\ 0 + 1 .. 2 = {1, 2}
    OBVIOUS
  <2>. QED  BY <2>1 DEF Reaches, At, a, b
<1>9. \A i \in 0 .. 2 : Entry(v, i) \in Entries
  BY <1>5, <1>6, <1>7 DEF a, b, c
<1>10. \A i \in 0 .. 2 :
         Reaches(v, i) => /\ At(v, i) \in Tables /\ lev[At(v, i)] = i
                          /\ Entry(v, i) = tables[At(v, i)][vpn(v, i)]
  <2>. SUFFICES ASSUME NEW i \in 0 .. 2, Reaches(v, i)
                PROVE  /\ At(v, i) \in Tables /\ lev[At(v, i)] = i
                       /\ Entry(v, i) = tables[At(v, i)][vpn(v, i)]
    OBVIOUS
  <2>1. CASE i = 2
    BY <2>1, <1>2, <1>4, <1>8 DEF a
  <2>2. CASE i = 1
    BY <2>2, <1>2, <1>5, <1>8 DEF b
  <2>3. CASE i = 0
    BY <2>3, <1>2, <1>6, <1>8 DEF c
  <2>. QED  BY <2>1, <2>2, <2>3
<1>11. \A i \in 0 .. 1 :
         /\ Reaches(v, i) <=> Entry(v, i + 1).kind = "branch"
         /\ Entry(v, i + 1).kind # "branch" => Entry(v, i) = Entry(v, i + 1)
  <2>. SUFFICES ASSUME NEW i \in 0 .. 1
                PROVE  /\ Reaches(v, i) <=> Entry(v, i + 1).kind = "branch"
                       /\ Entry(v, i + 1).kind # "branch" => Entry(v, i) = Entry(v, i + 1)
    OBVIOUS
  <2>1. CASE i = 1
    BY <2>1, <1>2, <1>8 DEF a, b
  <2>2. CASE i = 0
    BY <2>2, <1>2, <1>6, <1>8 DEF a, b, c
  <2>. QED  BY <2>1, <2>2
<1>. QED  BY <1>7, <1>9, <1>10, <1>11 DEF c

\* What virt_to_phys makes of the entry at which its walk ends.
Found(e, i, v) == IF e.kind = "invalid" THEN Unmapped ELSE e.to - Sub(e.to, i) + Sub(v, i)

FoundIsIt ==
  \A v : Entry(v, 0).kind # "branch" =>
    virt_to_phys(v) = IF Entry(v, 2).kind # "branch" THEN Found(Entry(v, 2), 2, v)
                      ELSE IF Entry(v, 1).kind # "branch" THEN Found(Entry(v, 1), 1, v)
                      ELSE Found(Entry(v, 0), 0, v)

LEMMA VirtIs == FoundIsIt
<1>. SUFFICES ASSUME NEW v, Entry(v, 0).kind # "branch"
              PROVE  virt_to_phys(v) =
                       IF Entry(v, 2).kind # "branch" THEN Found(Entry(v, 2), 2, v)
                       ELSE IF Entry(v, 1).kind # "branch" THEN Found(Entry(v, 1), 1, v)
                       ELSE Found(Entry(v, 0), 0, v)
  BY DEF FoundIsIt
<1>. DEFINE Ends(i) == /\ Entry(v, i).kind # "branch"
                       /\ \A j \in i + 1 .. 2 : Entry(v, j).kind = "branch"
            e == CHOOSE i \in 0 .. 2 : Ends(i)
            z == IF Entry(v, 2).kind # "branch" THEN 2
                 ELSE IF Entry(v, 1).kind # "branch" THEN 1 ELSE 0
<1>1. z \in 0 .. 2 /\ Ends(z)
  <2>1. /\ 2 + 1 .. 2 = {} /\ 1 + 1 .. 2 = {2} /\ 0 + 1 .. 2 = {1, 2}
    OBVIOUS
  <2>. QED  BY <2>1
<1>2. \A i, j \in 0 .. 2 : Ends(i) /\ Ends(j) => i = j
  <2>. SUFFICES ASSUME NEW i \in 0 .. 2, NEW j \in 0 .. 2, Ends(i), Ends(j), i < j  PROVE FALSE
    OBVIOUS
  <2>1. j \in i + 1 .. 2
    OBVIOUS
  <2>. QED  BY <2>1
<1>. HIDE DEF Ends, z
<1>3. e = z
  BY <1>1, <1>2
<1>4. virt_to_phys(v) = Found(Entry(v, e), e, v)
  BY DEF virt_to_phys, Found, e, Ends
<1>. HIDE DEF e
<1>. QED  BY <1>3, <1>4 DEF z

\* Two walks meet in a table only if they have come the same way.
LEMMA SamePath ==
  ASSUME TablesOK, OneWay, NEW lev, Levels(lev), lev \in [Tables -> 0 .. 2],
         NEW v \in VirtualPages, NEW w \in VirtualPages, NEW i \in 0 .. 2, Reaches(v, i)
  PROVE  Reaches(w, i) /\ At(w, i) = At(v, i) <=> \A j \in i + 1 .. 2 : vpn(w, j) = vpn(v, j)
<1>1. ASSUME NEW j \in 0 .. 1, NEW x \in VirtualPages
      PROVE  /\ Reaches(x, j) => Reaches(x, j + 1) /\ Entry(x, j + 1).kind = "branch"
             /\ Reaches(x, j) <=> Entry(x, j + 1).kind = "branch"
             /\ At(x, j) = Entry(x, j + 1).to
             /\ At(x, 2) = root /\ Reaches(x, 2)
             /\ Reaches(x, j + 1) => /\ At(x, j + 1) \in Tables
                                     /\ Entry(x, j + 1) = tables[At(x, j + 1)][vpn(x, j + 1)]
             /\ vpn(x, j + 1) \in 0 .. Fan - 1
  <2>1. Reaches(x, j) <=> Entry(x, j + 1).kind = "branch"
    BY WalkFacts
  <2>2. Reaches(x, 2) /\ At(x, 2) = root /\ At(x, j) = Entry(x, j + 1).to
    BY DEF Reaches, At
  <2>3. Reaches(x, j) => Reaches(x, j + 1)
    BY DEF Reaches
  <2>. QED  BY <2>1, <2>2, <2>3, WalkFacts, DigitFacts
<1>2. ASSUME NEW j \in 0 .. 1, Reaches(v, j)
      PROVE  Reaches(w, j) /\ At(w, j) = At(v, j)
             <=> Reaches(w, j + 1) /\ At(w, j + 1) = At(v, j + 1) /\ vpn(w, j + 1) = vpn(v, j + 1)
  <2>1. /\ Reaches(v, j + 1) /\ Entry(v, j + 1).kind = "branch" /\ At(v, j) = Entry(v, j + 1).to
        /\ At(v, j + 1) \in Tables /\ vpn(v, j + 1) \in 0 .. Fan - 1
        /\ Entry(v, j + 1) = tables[At(v, j + 1)][vpn(v, j + 1)]
    BY <1>1, <1>2
  <2>2. CASE Reaches(w, j)
    <3>1. /\ Reaches(w, j + 1) /\ Entry(w, j + 1).kind = "branch" /\ At(w, j) = Entry(w, j + 1).to
          /\ At(w, j + 1) \in Tables /\ vpn(w, j + 1) \in 0 .. Fan - 1
          /\ Entry(w, j + 1) = tables[At(w, j + 1)][vpn(w, j + 1)]
      BY <1>1, <2>2
    <3>. QED  BY <2>1, <2>2, <3>1 DEF OneWay
  <2>3. CASE ~Reaches(w, j)
    BY <1>1, <2>1, <2>3
  <2>. QED  BY <2>2, <2>3
<1>3. CASE i = 2
  <2>1. i + 1 .. 2 = {}
    BY <1>3
  <2>. QED  BY <1>3, <2>1, <1>1
<1>4. CASE i = 1
  <2>1. i + 1 .. 2 = {2}
    BY <1>4
  <2>. QED  BY <1>4, <2>1, <1>1, <1>2
<1>5. CASE i = 0
  <2>1. i + 1 .. 2 = {1, 2}
    BY <1>5
  <2>2. Reaches(v, 0) /\ Reaches(v, 1)
    BY <1>5, <1>1
  <2>3. /\ Reaches(w, 0) /\ At(w, 0) = At(v, 0)
           <=> Reaches(w, 1) /\ At(w, 1) = At(v, 1) /\ vpn(w, 1) = vpn(v, 1)
        /\ Reaches(w, 1) /\ At(w, 1) = At(v, 1)
           <=> Reaches(w, 2) /\ At(w, 2) = At(v, 2) /\ vpn(w, 2) = vpn(v, 2)
    BY <1>2, <2>2
  <2>. QED  BY <1>5, <2>1, <2>3, <1>1
<1>. QED  BY <1>3, <1>4, <1>5

Passes(v, i, q, d) == Reaches(v, i) /\ At(v, i) = q /\ vpn(v, i) = d

\* Changing one entry changes the walks that pass it, from its level on.
LEMMA ChangedEntry ==
  ASSUME TablesOK, NEW lev, Levels(lev), lev \in [Tables -> 0 .. 2], root' = root,
         NEW i \in 0 .. 2, NEW q \in Tables, lev[q] = i, NEW d \in 0 .. Fan - 1,
         \A r \in Tables : \A e \in 0 .. Fan - 1 :
           ~(r = q /\ e = d) => tables'[r][e] = tables[r][e],
         NEW v \in VirtualPages
  PROVE  /\ ~Passes(v, i, q, d) => \A j \in 0 .. 2 : Entry(v, j)' = Entry(v, j)
         /\ Passes(v, i, q, d) => /\ \A j \in i + 1 .. 2 : Entry(v, j)' = Entry(v, j)
                                  /\ Entry(v, i)' = tables'[q][d]
<1>1. /\ Entry(v, 2)' = tables'[root][vpn(v, 2)]
      /\ Entry(v, 1)' = (IF Entry(v, 2)'.kind = "branch"
                         THEN tables'[Entry(v, 2)'.to][vpn(v, 1)] ELSE Entry(v, 2)')
      /\ Entry(v, 0)' = (IF Entry(v, 1)'.kind = "branch"
                         THEN tables'[Entry(v, 1)'.to][vpn(v, 0)] ELSE Entry(v, 1)')
  BY DEF Entry, Below
<1>2. \A j \in 0 .. 2 : vpn(v, j) \in 0 .. Fan - 1
  BY DigitFacts
<1>3. \A j \in 0 .. 2 :
        Reaches(v, j) => /\ At(v, j) \in Tables /\ lev[At(v, j)] = j
                         /\ Entry(v, j) = tables[At(v, j)][vpn(v, j)]
  BY WalkFacts
<1>4. /\ Reaches(v, 2) /\ At(v, 2) = root
      /\ Reaches(v, 1) <=> Entry(v, 2).kind = "branch"
      /\ Reaches(v, 0) <=> Entry(v, 1).kind = "branch"
      /\ Reaches(v, 0) => Reaches(v, 1)
      /\ At(v, 1) = Entry(v, 2).to /\ At(v, 0) = Entry(v, 1).to
      /\ Entry(v, 2).kind # "branch" => Entry(v, 1) = Entry(v, 2)
      /\ Entry(v, 1).kind # "branch" => Entry(v, 0) = Entry(v, 1)
  <2>1. \A j \in 0 .. 1 : /\ Reaches(v, j) <=> Entry(v, j + 1).kind = "branch"
                          /\ Entry(v, j + 1).kind # "branch" => Entry(v, j) = Entry(v, j + 1)
    BY WalkFacts
  <2>2. Reaches(v, 2) /\ At(v, 2) = root /\ At(v, 1) = Entry(v, 2).to /\ At(v, 0) = Entry(v, 1).to
    BY DEF Reaches, At
  <2>3. Reaches(v, 0) => Reaches(v, 1)
    BY DEF Reaches
  <2>. QED  BY <2>1, <2>2, <2>3
<1>. DEFINE Same(j) == Entry(v, j)' = Entry(v, j)
            Read(j) == tables'[At(v, j)][vpn(v, j)]
\* At a level the walk reads what it read before, unless it passes the entry.
<1>5. \A j \in 0 .. 2 : Reaches(v, j) /\ ~(j = i /\ Passes(v, i, q, d)) => Read(j) = Entry(v, j)
  BY <1>2, <1>3 DEF Passes
<1>6. Passes(v, i, q, d) => Read(i) = tables'[q][d]
  BY DEF Passes
<1>. HIDE DEF Read
<1>7. /\ Entry(v, 2)' = Read(2)
      /\ Same(2) => /\ Reaches(v, 1) => Entry(v, 1)' = Read(1)
                    /\ ~Reaches(v, 1) => Same(1)
      /\ Same(1) => /\ Reaches(v, 0) => Entry(v, 0)' = Read(0)
                    /\ ~Reaches(v, 0) => Same(0)
  <2>1. Entry(v, 2)' = Read(2)
    BY <1>1, <1>4 DEF Read
  <2>2. ASSUME Same(2)  PROVE /\ Reaches(v, 1) => Entry(v, 1)' = Read(1)
                              /\ ~Reaches(v, 1) => Same(1)
    BY <1>1, <1>4, <2>2 DEF Read
  <2>3. ASSUME Same(1)  PROVE /\ Reaches(v, 0) => Entry(v, 0)' = Read(0)
                              /\ ~Reaches(v, 0) => Same(0)
    BY <1>1, <1>4, <2>3 DEF Read
  <2>. QED  BY <2>1, <2>2, <2>3
<1>8. CASE ~Passes(v, i, q, d)
  <2>1. Same(2)
    BY <1>4, <1>5, <1>7, <1>8
  <2>2. Same(1)
    BY <2>1, <1>5, <1>7, <1>8
  <2>3. Same(0)
    BY <2>2, <1>5, <1>7, <1>8
  <2>4. \A j \in 0 .. 2 : j = 0 \/ j = 1 \/ j = 2
    OBVIOUS
  <2>. QED  BY <1>8, <2>1, <2>2, <2>3, <2>4
<1>9. CASE Passes(v, i, q, d)
  <2>0. Reaches(v, i)
    BY <1>9 DEF Passes
  <2>1. CASE i = 2
    <3>1. Entry(v, 2)' = tables'[q][d] /\ i + 1 .. 2 = {}
      BY <1>6, <1>7, <1>9, <2>1
    <3>. QED  BY <2>1, <3>1, <1>9
  <2>2. CASE i = 1
    <3>1. Same(2) /\ i + 1 .. 2 = {2}
      BY <1>4, <1>5, <1>7, <2>2
    <3>2. Entry(v, 1)' = tables'[q][d]
      BY <1>6, <1>7, <1>9, <2>0, <2>2, <3>1
    <3>. QED  BY <2>2, <3>1, <3>2, <1>9
  <2>3. CASE i = 0
    <3>1. Same(2) /\ i + 1 .. 2 = {1, 2}
      BY <1>4, <1>5, <1>7, <2>3
    <3>2. Same(1)
      BY <1>4, <1>5, <1>7, <2>0, <2>3, <3>1
    <3>3. Entry(v, 0)' = tables'[q][d]
      BY <1>6, <1>7, <1>9, <2>0, <2>3, <3>2
    <3>. QED  BY <2>3, <3>1, <3>2, <3>3, <1>9
  <2>. QED  BY <2>1, <2>2, <2>3
<1>. QED  BY <1>8, <1>9

WalksEnd == \A v \in VirtualPages : Entry(v, 0).kind # "branch"

LEMMA NoBranchLast == TablesOK /\ Leveled => WalksEnd
BY WalkFacts DEF Leveled, WalksEnd

\* A walk finds the same address as long as it reads the same entries.
LEMMA SameFound ==
  ASSUME TablesOK, Leveled, (TablesOK /\ Leveled)', NEW v \in VirtualPages,
         \A j \in 0 .. 2 : Entry(v, j)' = Entry(v, j)
  PROVE  virt_to_phys(v)' = virt_to_phys(v)
<1>1. /\ Entry(v, 0).kind # "branch" /\ Entry(v, 0)'.kind # "branch"
  <2>1. WalksEnd'
    BY NoBranchLast, PTL
  <2>. QED  BY <2>1, NoBranchLast DEF WalksEnd
<1>2. virt_to_phys(v) = IF Entry(v, 2).kind # "branch" THEN Found(Entry(v, 2), 2, v)
                        ELSE IF Entry(v, 1).kind # "branch" THEN Found(Entry(v, 1), 1, v)
                        ELSE Found(Entry(v, 0), 0, v)
  BY <1>1, VirtIs DEF FoundIsIt
<1>3. virt_to_phys(v)' = IF Entry(v, 2)'.kind # "branch" THEN Found(Entry(v, 2)', 2, v)
                         ELSE IF Entry(v, 1)'.kind # "branch" THEN Found(Entry(v, 1)', 1, v)
                         ELSE Found(Entry(v, 0)', 0, v)
  <2>1. FoundIsIt'
    BY VirtIs, PTL
  <2>. QED  BY <1>1, <2>1 DEF FoundIsIt, Found
<1>4. Entry(v, 0)' = Entry(v, 0) /\ Entry(v, 1)' = Entry(v, 1) /\ Entry(v, 2)' = Entry(v, 2)
  OBVIOUS
<1>. QED  BY ONLY <1>2, <1>3, <1>4

\* It finds what stands at the first level that is no branch.
EndsAt(v, i) == Entry(v, i).kind # "branch" /\ Reaches(v, i)

WalkFinds ==
  \A v \in VirtualPages : \A i \in 0 .. 2 :
    EndsAt(v, i) => virt_to_phys(v) = Found(Entry(v, i), i, v)

LEMMA FoundAt == TablesOK /\ Leveled => WalkFinds
<1>. SUFFICES ASSUME TablesOK, Leveled, NEW v \in VirtualPages, NEW i \in 0 .. 2, EndsAt(v, i)
              PROVE  virt_to_phys(v) = Found(Entry(v, i), i, v)
  BY DEF WalkFinds
<1>1. virt_to_phys(v) = IF Entry(v, 2).kind # "branch" THEN Found(Entry(v, 2), 2, v)
                        ELSE IF Entry(v, 1).kind # "branch" THEN Found(Entry(v, 1), 1, v)
                        ELSE Found(Entry(v, 0), 0, v)
  BY NoBranchLast, VirtIs DEF WalksEnd, FoundIsIt
<1>2. Entry(v, i).kind # "branch" /\ \A j \in i + 1 .. 2 : Entry(v, j).kind = "branch"
  BY DEF EndsAt, Reaches
<1>3. CASE i = 2
  BY <1>1, <1>2, <1>3
<1>4. CASE i = 1
  <2>1. Entry(v, 2).kind = "branch"
    BY <1>2, <1>4
  <2>. QED  BY <1>1, <1>2, <1>4, <2>1
<1>5. CASE i = 0
  <2>1. Entry(v, 2).kind = "branch" /\ Entry(v, 1).kind = "branch"
    BY <1>2, <1>5
  <2>. QED  BY <1>1, <1>5, <2>1
<1>. QED  BY <1>3, <1>4, <1>5

------------------------------------------------------------------------------
(* Each step of map preserves the invariant. *)

LEMMA PTInitInv == PTInit => PTInv
<1>. SUFFICES ASSUME PTInit  PROVE PTInv
  OBVIOUS
<1>1. PageInv
  BY PageInitInv DEF PTInit
<1>2. Tables = {}
  BY DEF PTInit, Tables
<1>. QED  BY <1>1, <1>2 DEF PTInit, PTInv, Owned

\* Cleared or not, a new table is a page nobody has.
LEMMA ZallocFacts ==
  ASSUME PageInv, Owned, NEW p, zalloc(p)
  PROVE  /\ PageInv' /\ p \notin Tables /\ p # 0
         /\ held \subseteq held' /\ \E b \in held' : b.base = p
<1>1. PageInv'
  BY AllocInv DEF zalloc
<1>2. PICK g \in held' : g \notin held /\ g.base = p
  BY DEF zalloc
<1>3. AllApart'
  BY <1>1, HeldApart, PTL
<1>4. held \subseteq held'
  BY DEF zalloc, alloc
<1>5. \A b \in held : b.base # p
  BY <1>2, <1>3, <1>4 DEF AllApart, PageUser!Apart
<1>6. p # 0
  <2>1. Placed(g)'
    BY <1>1, <1>2 DEF PageInv
  <2>2. /\ g.base = ALLOC_START + PAGE_SIZE * First(g) /\ First(g) \in Nat
        /\ First(g) + Count(g) < num_pages /\ Count(g) \in Nat \ {0}
    BY <2>1 DEF Placed, Block, First, Count, IndexOf
  <2>3. /\ num_pages \in Nat /\ ALLOC_START \in Nat /\ HEAP_START + num_pages <= ALLOC_START
        /\ HEAP_START \in Nat /\ PAGE_SIZE * First(g) \in Nat
    BY <2>2, StartFacts, TimesPlus
  <2>. QED  BY <1>2, <2>2, <2>3
<1>. QED  BY <1>1, <1>2, <1>4, <1>5, <1>6 DEF Owned

LEMMA MakeRootInv == ASSUME PTInv, MakeRoot  PROVE PTInv'
<1>1. PICK p : zalloc(p) /\ root' = p /\ tables' = [q \in {p} |-> EmptyTable]
  BY DEF MakeRoot
<1>2. /\ PageInv /\ Owned /\ todo = NoMap /\ meant = [v \in VirtualPages |-> Unmapped]
      /\ todo' = todo /\ meant' = meant
  BY DEF PTInv, MakeRoot
<1>3. PageInv' /\ root' # 0 /\ \E b \in held' : b.base = p
  BY <1>1, <1>2, ZallocFacts
<1>4. Tables' = {p}
  BY <1>1 DEF Tables
<1>5. \A q \in Tables', d \in 0 .. Fan - 1 : tables'[q][d] = Invalid
  BY <1>1, <1>4 DEF EmptyTable
<1>6. TablesOK'
  <2>1. EmptyTable \in [0 .. Fan - 1 -> Entries']
    BY DEF EmptyTable, Entries
  <2>. QED  BY <1>1, <1>4, <2>1 DEF TablesOK, Tables
<1>7. Leveled'
  <2>. DEFINE lev == [q \in {p} |-> 2]
  <2>1. Levels(lev)'
    BY <1>1, <1>4, <1>5, EntryKinds DEF Levels
  <2>. QED  BY <1>4, <2>1 DEF Leveled
<1>8. OneWay'
  BY <1>5, EntryKinds DEF OneWay
<1>9. Translates'
  <2>. SUFFICES ASSUME NEW v \in VirtualPages  PROVE virt_to_phys(v)' = Unmapped
    BY <1>2 DEF Translates
  <2>1. Entry(v, 2)' = tables'[root'][vpn(v, 2)]
    BY DEF Entry
  <2>2. Entry(v, 2)' = Invalid
    BY <1>1, <1>4, <1>5, <2>1, DigitFacts
  <2>3. EndsAt(v, 2)'
    <3>1. 2 + 1 .. 2 = {}
      OBVIOUS
    <3>. QED  BY <2>2, <3>1, EntryKinds DEF EndsAt, Reaches
  <2>4. WalkFinds'
    BY <1>6, <1>7, FoundAt, PTL
  <2>5. virt_to_phys(v)' = Found(Entry(v, 2)', 2, v)
    BY <2>3, <2>4 DEF WalkFinds, Found
  <2>. QED  BY <2>2, <2>5, EntryKinds DEF Found
<1>10. UnderWay' /\ Owned'
  BY <1>2, <1>3, <1>4 DEF UnderWay, Owned
<1>. QED  BY <1>3, <1>6, <1>7, <1>8, <1>9, <1>10 DEF PTInv, TreeInv

\* As long as the tables stay, so do all walks.
LEMMA TreeStays ==
  ASSUME tables' = tables, root' = root
  PROVE  /\ \A v, j : Entry(v, j)' = Entry(v, j)
         /\ \A v, j : Reaches(v, j)' = Reaches(v, j) /\ At(v, j)' = At(v, j)
         /\ TablesOK /\ Leveled => \A v \in VirtualPages : virt_to_phys(v)' = virt_to_phys(v)
         /\ Tables' = Tables /\ (TablesOK => TablesOK') /\ (Leveled => Leveled') /\ (OneWay => OneWay')
<1>1. \A v, j : Entry(v, j)' = Entry(v, j)
  BY DEF Entry, Below
<1>2. \A v, j : Reaches(v, j)' = Reaches(v, j) /\ At(v, j)' = At(v, j)
  BY <1>1 DEF Reaches, At
<1>3. Tables' = Tables /\ (TablesOK => TablesOK')
  BY DEF Tables, TablesOK, Entries
<1>4. (Leveled => Leveled') /\ (OneWay => OneWay')
  BY DEF Tables, Leveled, Levels, OneWay
<1>5. TablesOK /\ Leveled => \A v \in VirtualPages : virt_to_phys(v)' = virt_to_phys(v)
  BY <1>1, <1>3, <1>4, SameFound
<1>. QED  BY <1>1, <1>2, <1>3, <1>4, <1>5

LEMMA UserPagesInv == ASSUME PTInv, UserPages  PROVE PTInv'
<1>1. tables' = tables /\ root' = root /\ todo' = todo /\ meant' = meant
  BY DEF UserPages
<1>2. PageInv' /\ Owned'
  <2>0. PageInv /\ Owned /\ Tables' = Tables
    BY <1>1 DEF PTInv, Tables
  <2>1. ASSUME NEW pages \in PageRequests, alloc(pages)  PROVE PageInv' /\ Owned'
    <3>1. pages \in Nat \ {0} /\ held \subseteq held'
      BY <2>1, PageAssumption, StartFacts DEF alloc
    <3>. QED  BY <2>0, <2>1, <3>1, AllocInv DEF Owned
  <2>2. ASSUME NEW b \in held, b.base \notin Tables, dealloc(b)  PROVE PageInv' /\ Owned'
    <3>1. held' = held \ {b}
      BY <2>2 DEF dealloc
    <3>. QED  BY <2>0, <2>2, <3>1, DeallocInv DEF Owned
  <2>. QED  BY <2>1, <2>2 DEF UserPages, Tables
<1>3. TreeInv => TreeInv'
  BY <1>1, TreeStays DEF TreeInv, UnderWay, Translates
<1>. QED  BY <1>1, <1>2, <1>3 DEF PTInv

LEMMA MapBeginInv ==
  ASSUME PTInv, NEW v \in VPages, NEW p \in PPages, NEW level \in 0 .. 2, MapBegin(v, p, level)
  PROVE  PTInv'
<1>1. /\ root # 0 /\ TreeInv /\ PageInv /\ Owned
      /\ tables' = tables /\ root' = root /\ meant' = meant /\ UNCHANGED pageVars
      /\ todo' = [vaddr |-> v, paddr |-> p, level |-> level, i |-> 2, table |-> root]
      /\ \A j \in level + 1 .. 2 : Entry(v, j).kind # "leaf"
  BY DEF MapBegin, PTInv
<1>2. PageInv' /\ Owned'
  BY <1>1, TreeStays DEF pageVars, PageInv, PageTypeOK, FlagsTell, Disjoint, Owned
<1>3. UnderWay'
  <2>1. v \in VirtualPages
    BY PageTableAssumption
  <2>2. Reaches(v, 2) /\ At(v, 2) = root /\ root \in Tables
    BY <1>1 DEF Reaches, At, TreeInv, TablesOK
  <2>3. Reaches(v, 2)' /\ At(v, 2)' = root' /\ root' \in Tables'
    BY <1>1, <2>2, TreeStays
  <2>4. \A j \in level + 1 .. 2 : Entry(v, j)'.kind # "leaf"
    BY <1>1, TreeStays
  <2>. QED  BY <1>1, <2>1, <2>3, <2>4 DEF UnderWay
<1>4. TreeInv'
  BY <1>1, <1>3, TreeStays DEF TreeInv, Translates
<1>. QED  BY <1>1, <1>2, <1>4 DEF PTInv

\* What is known while map is under way.
LEMMA UnderWayFacts ==
  ASSUME TreeInv, todo # NoMap
  PROVE  /\ todo.vaddr \in VirtualPages /\ todo.paddr \in PPages
         /\ todo.level \in 0 .. 2 /\ todo.i \in todo.level .. 2 /\ todo.i \in 0 .. 2
         /\ todo.table \in Tables /\ vpn(todo.vaddr, todo.i) \in 0 .. Fan - 1
         /\ Passes(todo.vaddr, todo.i, todo.table, vpn(todo.vaddr, todo.i))
         /\ Here = Entry(todo.vaddr, todo.i) /\ Here \in Entries
         /\ \A lev \in [Tables -> 0 .. 2] : Levels(lev) => lev[todo.table] = todo.i
<1>1. /\ todo.vaddr \in VirtualPages /\ todo.paddr \in PPages
      /\ todo.level \in 0 .. 2 /\ todo.i \in todo.level .. 2 /\ todo.i \in 0 .. 2
      /\ todo.table \in Tables /\ Reaches(todo.vaddr, todo.i)
      /\ At(todo.vaddr, todo.i) = todo.table
  BY DEF TreeInv, UnderWay
<1>2. PICK lev \in [Tables -> 0 .. 2] : Levels(lev)
  BY DEF TreeInv, Leveled
<1>3. TablesOK
  BY DEF TreeInv
<1>4. \A l \in [Tables -> 0 .. 2] : Levels(l) => l[todo.table] = todo.i
  BY <1>1, <1>3, WalkFacts
<1>5. Here = Entry(todo.vaddr, todo.i) /\ Here \in Entries
  BY <1>1, <1>2, <1>3, WalkFacts DEF Here
<1>6. vpn(todo.vaddr, todo.i) \in 0 .. Fan - 1
  BY <1>1, DigitFacts
<1>. QED  BY <1>1, <1>4, <1>5, <1>6 DEF Passes

LEMMA MapDownInv == ASSUME PTInv, MapDown  PROVE PTInv'
<1>1. /\ todo # NoMap /\ todo.i > todo.level /\ Here.kind # "invalid"
      /\ todo' = [todo EXCEPT !.i = @ - 1, !.table = Here.to]
      /\ tables' = tables /\ root' = root /\ meant' = meant /\ UNCHANGED pageVars
  BY DEF MapDown, Down
<1>2. root # 0 /\ TreeInv /\ PageInv /\ Owned
  BY <1>1 DEF PTInv
<1>3. /\ todo.vaddr \in VirtualPages /\ todo.level \in 0 .. 2 /\ todo.i \in todo.level .. 2
      /\ Here = Entry(todo.vaddr, todo.i) /\ Here \in Entries /\ Reaches(todo.vaddr, todo.i)
      /\ todo \in [vaddr : VirtualPages, paddr : PPages, level : 0 .. 2, i : 0 .. 2, table : Tables]
      /\ \A j \in todo.level + 1 .. 2 : Entry(todo.vaddr, j).kind # "leaf"
  BY <1>1, <1>2, UnderWayFacts DEF TreeInv, UnderWay, Passes
<1>4. PICK v \in VirtualPages, level \in 0 .. 2, i \in 0 .. 2, t \in Entries :
        v = todo.vaddr /\ level = todo.level /\ i = todo.i /\ t = Here
  BY <1>3
<1>5. i \in 1 .. 2 /\ i > level /\ t.kind = "branch" /\ t.to \in Tables
  <2>1. i \in level + 1 .. 2 /\ i \in 1 .. 2
    BY <1>1, <1>4
  <2>. QED  BY <1>1, <1>3, <1>4, <2>1, EntryKinds
<1>6. Reaches(v, i - 1) /\ At(v, i - 1) = t.to
  <2>1. \A j \in i .. 2 : j = i \/ j \in i + 1 .. 2
    BY <1>5
  <2>2. (i - 1) + 1 = i /\ i - 1 # 2
    BY <1>5
  <2>3. Reaches(v, i) /\ Entry(v, i) = t
    BY <1>3, <1>4
  <2>. QED  BY <1>5, <2>1, <2>2, <2>3 DEF Reaches, At
<1>7. /\ todo' \in [vaddr : VirtualPages, paddr : PPages, level : 0 .. 2, i : 0 .. 2, table : Tables]
      /\ todo'.vaddr = v /\ todo'.level = level /\ todo'.i = i - 1 /\ todo'.table = t.to
      /\ todo'.level <= todo'.i
  <2>1. i - 1 \in 0 .. 2 /\ level <= i - 1
    BY <1>5
  <2>. QED  BY <1>1, <1>3, <1>4, <1>5, <2>1
<1>8. UnderWay'
  <2>1. /\ Reaches(v, i - 1)' /\ At(v, i - 1)' = t.to /\ Tables' = Tables
        /\ \A j \in level + 1 .. 2 : Entry(v, j)'.kind # "leaf"
    BY <1>1, <1>3, <1>4, <1>6, TreeStays
  <2>. QED  BY <1>7, <2>1 DEF UnderWay
<1>9. TreeInv'
  BY <1>1, <1>2, <1>8, TreeStays DEF TreeInv, Translates
<1>10. PageInv' /\ Owned'
  BY <1>1, <1>2, TreeStays DEF pageVars, PageInv, PageTypeOK, FlagsTell, Disjoint, Owned
<1>. QED  BY <1>1, <1>2, <1>9, <1>10 DEF PTInv

LEMMA MapSetInv == ASSUME PTInv, MapSet  PROVE PTInv'
<1>1. /\ todo # NoMap /\ todo.i = todo.level /\ todo' = NoMap
      /\ tables' = Put(Leaf(todo.paddr)) /\ root' = root /\ UNCHANGED pageVars
      /\ meant' = [v \in VirtualPages |->
                     IF \A j \in todo.level .. 2 : vpn(v, j) = vpn(todo.vaddr, j)
                     THEN todo.paddr - Sub(todo.paddr, todo.level) + Sub(v, todo.level)
                     ELSE meant[v]]
  BY DEF MapSet
<1>2. root # 0 /\ TreeInv /\ PageInv /\ Owned
  BY <1>1 DEF PTInv
<1>3. PICK w \in VirtualPages, i \in 0 .. 2, q \in Tables, d \in 0 .. Fan - 1, p \in PPages :
        /\ w = todo.vaddr /\ i = todo.i /\ i = todo.level /\ q = todo.table /\ p = todo.paddr
        /\ d = vpn(w, i)
  BY <1>1, <1>2, UnderWayFacts
<1>4. Passes(w, i, q, d) /\ \A lev \in [Tables -> 0 .. 2] : Levels(lev) => lev[q] = i
  BY <1>1, <1>2, <1>3, UnderWayFacts
<1>5. PICK lev \in [Tables -> 0 .. 2] : Levels(lev)
  BY <1>2 DEF TreeInv, Leveled
<1>6. tables' = [tables EXCEPT ![q][d] = Leaf(p)]
  BY <1>1, <1>3 DEF Put
<1>7. TablesOK /\ OneWay /\ tables \in [Tables -> [0 .. Fan - 1 -> Entries]]
  BY <1>2 DEF TreeInv, TablesOK
<1>8. /\ Tables' = Tables /\ Entries' = Entries
      /\ tables' \in [Tables -> [0 .. Fan - 1 -> Entries]]
      /\ tables'[q][d] = Leaf(p)
      /\ \A r \in Tables : \A e \in 0 .. Fan - 1 :
           ~(r = q /\ e = d) => tables'[r][e] = tables[r][e]
  <2>1. Tables' = Tables /\ Entries' = Entries
    BY <1>6 DEF Tables, Entries
  <2>2. Leaf(p) \in Entries
    BY DEF Entries
  <2>. QED  BY <1>6, <1>7, <2>1, <2>2
<1>9. TablesOK'
  BY <1>1, <1>7, <1>8 DEF TablesOK
<1>10. \A r \in Tables : \A e \in 0 .. Fan - 1 :
         tables'[r][e].kind = "branch" => tables'[r][e] = tables[r][e]
  BY <1>8, EntryKinds
<1>11. Levels(lev)' /\ Leveled'
  <2>1. Levels(lev)'
    BY <1>1, <1>5, <1>8, <1>10 DEF Levels
  <2>. QED  BY <1>8, <2>1 DEF Leveled
<1>12. OneWay'
  BY <1>7, <1>8, <1>10 DEF OneWay
<1>13. Translates'
  <2>. SUFFICES ASSUME NEW v \in VirtualPages  PROVE virt_to_phys(v)' = meant'[v]
    BY DEF Translates
  <2>1. meant'[v] = IF \A j \in i .. 2 : vpn(v, j) = vpn(w, j)
                    THEN p - Sub(p, i) + Sub(v, i) ELSE virt_to_phys(v)
    BY <1>1, <1>2, <1>3 DEF TreeInv, Translates
  <2>2. Passes(v, i, q, d) <=> \A j \in i .. 2 : vpn(v, j) = vpn(w, j)
    <3>1. Reaches(w, i) /\ At(w, i) = q
      BY <1>4 DEF Passes
    <3>2. Reaches(v, i) /\ At(v, i) = q <=> \A j \in i + 1 .. 2 : vpn(v, j) = vpn(w, j)
      BY <1>5, <1>7, <3>1, SamePath
    <3>3. \A j : j \in i .. 2 <=> j = i \/ j \in i + 1 .. 2
      OBVIOUS
    <3>. QED  BY <1>3, <3>2, <3>3 DEF Passes
  <2>3. /\ ~Passes(v, i, q, d) => \A j \in 0 .. 2 : Entry(v, j)' = Entry(v, j)
        /\ Passes(v, i, q, d) => /\ \A j \in i + 1 .. 2 : Entry(v, j)' = Entry(v, j)
                                 /\ Entry(v, i)' = Leaf(p)
    <3>1. lev[q] = i
      BY <1>4, <1>5
    <3>. QED  BY <1>1, <1>5, <1>7, <1>8, <3>1, ChangedEntry
  <2>4. CASE ~Passes(v, i, q, d)
    BY <1>2, <1>9, <1>11, <2>1, <2>2, <2>3, <2>4, SameFound DEF TreeInv
  <2>5. CASE Passes(v, i, q, d)
    <3>1. \A j \in i + 1 .. 2 : Entry(v, j)'.kind = "branch"
      BY <2>3, <2>5 DEF Passes, Reaches
    <3>2. EndsAt(v, i)'
      BY <2>3, <2>5, <3>1, EntryKinds DEF EndsAt, Reaches
    <3>3. WalkFinds'
      BY <1>9, <1>11, FoundAt, PTL
    <3>4. virt_to_phys(v)' = Found(Leaf(p), i, v)
      BY <2>3, <2>5, <3>2, <3>3 DEF WalkFinds, Found
    <3>. QED  BY <2>1, <2>2, <2>5, <3>4, EntryKinds DEF Found
  <2>. QED  BY <2>4, <2>5
<1>14. UnderWay'
  BY <1>1 DEF UnderWay
<1>15. PageInv' /\ Owned'
  BY <1>1, <1>2, <1>8 DEF pageVars, PageInv, PageTypeOK, FlagsTell, Disjoint, Owned
<1>. QED  BY <1>1, <1>2, <1>9, <1>11, <1>12, <1>13, <1>14, <1>15 DEF PTInv, TreeInv

LEMMA MapGrowInv == ASSUME PTInv, MapGrow  PROVE PTInv'
<1>1. PICK p : /\ zalloc(p)
               /\ tables' = [r \in DOMAIN tables \cup {p} |->
                               IF r = p THEN EmptyTable ELSE Put(Branch(p))[r]]
               /\ Down(p)
  BY DEF MapGrow
<1>2. /\ todo # NoMap /\ todo.i > todo.level /\ Here.kind = "invalid"
      /\ todo' = [todo EXCEPT !.i = @ - 1, !.table = p]
      /\ root' = root /\ meant' = meant
  BY <1>1 DEF MapGrow, Down
<1>3. root # 0 /\ TreeInv /\ PageInv /\ Owned /\ TablesOK /\ OneWay
  BY <1>2 DEF PTInv, TreeInv
<1>4. /\ PageInv' /\ p \notin Tables
      /\ held \subseteq held' /\ \E b \in held' : b.base = p
  BY <1>1, <1>3, ZallocFacts
<1>5. PICK w \in VirtualPages, i \in 0 .. 2, level \in 0 .. 2, q \in Tables, d \in 0 .. Fan - 1 :
        /\ w = todo.vaddr /\ i = todo.i /\ level = todo.level /\ q = todo.table /\ d = vpn(w, i)
  BY <1>2, <1>3, UnderWayFacts
<1>6. i \in 1 .. 2 /\ level < i
  BY <1>2, <1>5
<1>7. /\ Passes(w, i, q, d) /\ \A lev \in [Tables -> 0 .. 2] : Levels(lev) => lev[q] = i
      /\ tables[q][d] = Invalid /\ Entry(w, i) = Invalid
  <2>1. Here = tables[q][d] /\ Here = Entry(w, i) /\ Here \in Entries
    BY <1>2, <1>3, <1>5, UnderWayFacts DEF Here
  <2>. QED  BY <1>2, <1>3, <1>5, <2>1, UnderWayFacts, EntryKinds
<1>8. PICK lev \in [Tables -> 0 .. 2] : Levels(lev)
  BY <1>3 DEF TreeInv, Leveled
<1>9. /\ Tables' = Tables \cup {p} /\ tables'[p] = EmptyTable
      /\ \A r \in Tables : \A e \in 0 .. Fan - 1 :
           tables'[r][e] = IF r = q /\ e = d THEN Branch(p) ELSE tables[r][e]
      /\ \A e \in 0 .. Fan - 1 : tables'[p][e] = Invalid
      /\ tables' = [r \in Tables' |-> tables'[r]]
      /\ \A r \in Tables' : tables'[r] = [e \in 0 .. Fan - 1 |-> tables'[r][e]]
  <2>1. Tables' = Tables \cup {p}
    BY <1>1 DEF Tables
  <2>2. tables' = [r \in Tables \cup {p} |->
                     IF r = p THEN EmptyTable ELSE [tables EXCEPT ![q][d] = Branch(p)][r]]
    BY <1>1, <1>5 DEF Put, Tables
  <2>3. tables \in [Tables -> [0 .. Fan - 1 -> Entries]]
    BY <1>3 DEF TablesOK
  <2>4. tables'[p] = EmptyTable /\ \A e \in 0 .. Fan - 1 : tables'[p][e] = Invalid
    BY <2>2 DEF EmptyTable
  <2>5. \A r \in Tables : tables'[r] = IF r = q THEN [tables[r] EXCEPT ![d] = Branch(p)] ELSE tables[r]
    BY <1>4, <2>2, <2>3
  <2>6. \A r \in Tables : /\ tables'[r] = [e \in 0 .. Fan - 1 |-> tables'[r][e]]
                          /\ \A e \in 0 .. Fan - 1 :
                               tables'[r][e] = IF r = q /\ e = d THEN Branch(p) ELSE tables[r][e]
    BY <2>3, <2>5
  <2>7. tables'[p] = [e \in 0 .. Fan - 1 |-> tables'[p][e]]
    BY <2>4 DEF EmptyTable
  <2>8. tables' = [r \in Tables' |-> tables'[r]]
    BY <2>1, <2>2
  <2>. QED  BY <2>1, <2>4, <2>6, <2>7, <2>8
<1>10. TablesOK'
  <2>1. Entries \subseteq Entries' /\ Branch(p) \in Entries' /\ Invalid \in Entries'
    BY <1>9 DEF Entries
  <2>2. \A r \in Tables : \A e \in 0 .. Fan - 1 : tables[r][e] \in Entries
    BY <1>3 DEF TablesOK
  <2>3. \A r \in Tables' : \A e \in 0 .. Fan - 1 : tables'[r][e] \in Entries'
    BY <1>9, <2>1, <2>2
  <2>4. \A r \in Tables' : tables'[r] \in [0 .. Fan - 1 -> Entries']
    BY <1>9, <2>3
  <2>5. tables' \in [Tables' -> [0 .. Fan - 1 -> Entries']]
    BY <1>9, <2>4
  <2>6. root' \in Tables'
    BY <1>2, <1>3, <1>9 DEF TablesOK
  <2>. QED  BY <2>5, <2>6 DEF TablesOK
\* The branches of the new tables are the old ones and the one to p.
<1>11. \A r \in Tables' : \A e \in 0 .. Fan - 1 :
         tables'[r][e].kind = "branch" =>
           /\ r \in Tables
           /\ \/ r = q /\ e = d /\ tables'[r][e].to = p
              \/ /\ ~(r = q /\ e = d) /\ tables'[r][e] = tables[r][e]
                 /\ tables[r][e].kind = "branch"
                 /\ tables'[r][e].to \in Tables /\ tables'[r][e].to # p
  <2>1. \A r \in Tables : \A e \in 0 .. Fan - 1 :
          tables[r][e].kind = "branch" => tables[r][e].to \in Tables
    BY <1>3, EntryKinds, Zenon DEF TablesOK
  <2>. QED  BY <1>4, <1>9, <2>1, EntryKinds
<1>12. Leveled'
  <2>1. PICK new \in [Tables' -> 0 .. 2] : new[p] = i - 1 /\ \A r \in Tables : new[r] = lev[r]
    <3>. DEFINE l == [r \in Tables \cup {p} |-> IF r = p THEN i - 1 ELSE lev[r]]
    <3>1. l \in [Tables' -> 0 .. 2] /\ l[p] = i - 1 /\ \A r \in Tables : l[r] = lev[r]
      BY <1>4, <1>6, <1>9
    <3>. QED  BY <3>1
  <2>2. new[root'] = 2
    BY <1>2, <1>3, <1>8, <2>1 DEF TablesOK, Levels
  <2>3. ASSUME NEW r \in Tables', NEW e \in 0 .. Fan - 1, tables'[r][e].kind = "branch"
        PROVE  new[r] = new[tables'[r][e].to] + 1
    <3>0. r \in Tables
      BY <1>11, <2>3
    <3>1. CASE r = q /\ e = d /\ tables'[r][e].to = p
      BY <1>6, <1>7, <1>8, <2>1, <3>1
    <3>2. CASE /\ tables'[r][e] = tables[r][e] /\ tables[r][e].kind = "branch"
               /\ tables'[r][e].to \in Tables
      BY <1>8, <2>1, <3>0, <3>2 DEF Levels
    <3>. QED  BY <1>11, <2>3, <3>1, <3>2
  <2>4. Levels(new)'
    BY <2>2, <2>3 DEF Levels
  <2>. QED  BY <2>1, <2>4 DEF Leveled
<1>13. OneWay'
  <2>. SUFFICES ASSUME NEW r \in Tables', NEW s \in Tables', NEW e \in 0 .. Fan - 1, NEW f \in 0 .. Fan - 1,
                       tables'[r][e].kind = "branch", tables'[s][f].kind = "branch",
                       tables'[r][e].to = tables'[s][f].to
                PROVE  r = s /\ e = f
    BY DEF OneWay
  <2>. QED  BY <1>3, <1>11 DEF OneWay
<1>14. ASSUME NEW v \in VirtualPages
       PROVE  /\ ~Passes(v, i, q, d) => \A j \in 0 .. 2 : Entry(v, j)' = Entry(v, j)
              /\ Passes(v, i, q, d) => /\ \A j \in i + 1 .. 2 : Entry(v, j)' = Entry(v, j)
                                       /\ Entry(v, i)' = Branch(p) /\ Entry(v, i - 1)' = Invalid
  <2>1. lev[q] = i /\ tables'[q][d] = Branch(p)
    BY <1>7, <1>8, <1>9
  <2>2. \A r \in Tables : \A e \in 0 .. Fan - 1 : ~(r = q /\ e = d) => tables'[r][e] = tables[r][e]
    BY <1>9
  <2>3. /\ ~Passes(v, i, q, d) => \A j \in 0 .. 2 : Entry(v, j)' = Entry(v, j)
        /\ Passes(v, i, q, d) => /\ \A j \in i + 1 .. 2 : Entry(v, j)' = Entry(v, j)
                                 /\ Entry(v, i)' = tables'[q][d]
    BY <1>2, <1>3, <1>8, <2>1, <2>2, ChangedEntry
  <2>4. Entry(v, i - 1)' = IF Entry(v, i)'.kind = "branch"
                           THEN tables'[Entry(v, i)'.to][vpn(v, i - 1)] ELSE Entry(v, i)'
    <3>1. /\ Entry(v, 1)' = (IF Entry(v, 2)'.kind = "branch"
                             THEN tables'[Entry(v, 2)'.to][vpn(v, 1)] ELSE Entry(v, 2)')
          /\ Entry(v, 0)' = (IF Entry(v, 1)'.kind = "branch"
                             THEN tables'[Entry(v, 1)'.to][vpn(v, 0)] ELSE Entry(v, 1)')
      BY DEF Entry, Below
    <3>2. CASE i = 2
      BY <3>1, <3>2
    <3>3. CASE i = 1
      BY <3>1, <3>3
    <3>. QED  BY <1>6, <3>2, <3>3
  <2>5. vpn(v, i - 1) \in 0 .. Fan - 1
    BY <1>6, DigitFacts
  <2>. QED  BY <1>9, <2>1, <2>3, <2>4, <2>5, EntryKinds
<1>15. Translates'
  <2>. SUFFICES ASSUME NEW v \in VirtualPages  PROVE virt_to_phys(v)' = virt_to_phys(v)
    BY <1>2, <1>3 DEF TreeInv, Translates
  <2>1. CASE ~Passes(v, i, q, d)
    BY <1>3, <1>10, <1>12, <1>14, <2>1, SameFound DEF TreeInv
  <2>2. CASE Passes(v, i, q, d)
    <3>1. Reaches(v, i) /\ Entry(v, i) = Invalid
      <4>1. Entry(v, i) = tables[q][d]
        BY <1>3, <1>8, <2>2, WalkFacts DEF Passes
      <4>. QED  BY <1>7, <2>2, <4>1 DEF Passes
    <3>2. virt_to_phys(v) = Unmapped
      <4>1. EndsAt(v, i) /\ WalkFinds
        BY <1>3, <3>1, EntryKinds, FoundAt DEF EndsAt, TreeInv
      <4>. QED  BY <3>1, <4>1, EntryKinds DEF WalkFinds, Found
    <3>3. EndsAt(v, i - 1)'
      <4>1. \A j \in i .. 2 : j = i \/ j \in i + 1 .. 2
        OBVIOUS
      <4>2. \A j \in i .. 2 : Entry(v, j)'.kind = "branch"
        BY <1>14, <2>2, <3>1, <4>1, EntryKinds DEF Reaches
      <4>3. (i - 1) + 1 = i
        OBVIOUS
      <4>. QED  BY <1>14, <2>2, <4>2, <4>3, EntryKinds DEF EndsAt, Reaches
    <3>4. WalkFinds'
      BY <1>10, <1>12, FoundAt, PTL
    <3>5. virt_to_phys(v)' = Found(Invalid, i - 1, v)
      BY <1>6, <1>14, <2>2, <3>3, <3>4 DEF WalkFinds, Found
    <3>. QED  BY <3>2, <3>5, EntryKinds DEF Found
  <2>. QED  BY <2>1, <2>2
<1>16. UnderWay'
  <2>1. /\ todo' \in [vaddr : VirtualPages, paddr : PPages, level : 0 .. 2, i : 0 .. 2, table : Tables']
        /\ todo'.vaddr = w /\ todo'.level = level /\ todo'.i = i - 1 /\ todo'.table = p
        /\ todo'.level <= todo'.i
    <3>1. /\ todo \in [vaddr : VirtualPages, paddr : PPages, level : 0 .. 2, i : 0 .. 2, table : Tables]
      BY <1>2, <1>3 DEF TreeInv, UnderWay
    <3>2. i - 1 \in 0 .. 2 /\ level <= i - 1
      BY <1>6
    <3>. QED  BY <1>2, <1>5, <1>9, <3>1, <3>2
  <2>2. /\ \A j \in i + 1 .. 2 : Entry(w, j)' = Entry(w, j) /\ Entry(w, j).kind = "branch"
        /\ Entry(w, i)' = Branch(p) /\ Entry(w, i - 1)' = Invalid
    BY <1>7, <1>14 DEF Passes, Reaches
  <2>3. Reaches(w, i - 1)' /\ At(w, i - 1)' = p
    <3>1. \A j \in i .. 2 : j = i \/ j \in i + 1 .. 2
      OBVIOUS
    <3>2. (i - 1) + 1 = i /\ i - 1 # 2
      BY <1>6
    <3>. QED  BY <2>2, <3>1, <3>2, EntryKinds DEF Reaches, At
  <2>4. \A j \in level + 1 .. 2 : Entry(w, j)'.kind # "leaf"
    <3>1. \A j \in level + 1 .. 2 : j = i \/ j \in i + 1 .. 2 \/ j = i - 1
      BY <1>6
    <3>. QED  BY <2>2, <3>1, EntryKinds
  <2>. QED  BY <2>1, <2>3, <2>4 DEF UnderWay
<1>17. Owned'
  BY <1>3, <1>4, <1>9 DEF Owned
<1>. QED  BY <1>2, <1>3, <1>4, <1>10, <1>12, <1>13, <1>15, <1>16, <1>17 DEF PTInv, TreeInv

LEMMA PTStepInv == PTInv /\ [PTNext]_ptVars => PTInv'
<1>. SUFFICES ASSUME PTInv, [PTNext]_ptVars  PROVE PTInv'
  OBVIOUS
<1>1. CASE MakeRoot
  BY <1>1, MakeRootInv
<1>2. ASSUME NEW v \in VPages, NEW p \in PPages, NEW level \in 0 .. 2, MapBegin(v, p, level)
      PROVE  PTInv'
  BY <1>2, MapBeginInv
<1>3. CASE MapGrow
  BY <1>3, MapGrowInv
<1>4. CASE MapDown
  BY <1>4, MapDownInv
<1>5. CASE MapSet
  BY <1>5, MapSetInv
<1>6. CASE UserPages
  BY <1>6, UserPagesInv
<1>7. CASE UNCHANGED ptVars
  <2>1. /\ tables' = tables /\ root' = root /\ todo' = todo /\ meant' = meant /\ UNCHANGED pageVars
    BY <1>7 DEF ptVars
  <2>2. TreeInv => TreeInv'
    BY <2>1, TreeStays DEF TreeInv, UnderWay, Translates
  <2>3. PageInv' /\ Owned'
    BY <2>1, TreeStays DEF PTInv, pageVars, PageInv, PageTypeOK, FlagsTell, Disjoint, Owned
  <2>. QED  BY <2>1, <2>2, <2>3 DEF PTInv
<1>. QED  BY <1>1, <1>2, <1>3, <1>4, <1>5, <1>6, <1>7 DEF PTNext, map

\* The invariant of allocator and tables together.
THEOREM TablesInvariant == PTSpec => []PTInv
<1>. QED  BY PTInitInv, PTStepInv, PTL DEF PTSpec

\* Whatever the program maps and remaps, at whatever level, and however it
\* allocates and frees pages meanwhile, every address is translated as the
\* latest map that covers it says.
THEOREM TablesTranslate == PTSpec => []Translates
<1>1. PTInv => Translates
  BY DEF PTInv, TreeInv, Translates
<1>. QED  BY <1>1, TablesInvariant, PTL

\* The allocator keeps its promise to the tables, too: of their pages none is
\* handed out again.
THEOREM TablesAreHeap == PTSpec => PagesImplement
<1>1. PTInit => PageUser!Init
  BY DEF PTInit, page_init, PageUser!Init
<1>2. PTInv /\ PTInv' /\ [PTNext]_ptVars => [PageUser!Next]_held
  <2>. SUFFICES ASSUME PTInv, PTInv', [PTNext]_ptVars  PROVE [PageUser!Next]_held
    OBVIOUS
  <2>0. PageInv /\ PageInv'
    BY DEF PTInv
  <2>1. ASSUME NEW pages, alloc(pages)  PROVE [PageUser!Next]_held
    BY <2>0, <2>1, AllocImplements
  <2>2. ASSUME NEW b \in held, dealloc(b)  PROVE [PageUser!Next]_held
    BY <2>2, DeallocImplements
  <2>3. CASE UNCHANGED pageVars
    BY <2>3 DEF pageVars
  <2>4. CASE MakeRoot \/ MapGrow
    <3>1. alloc(1)
      BY <2>4 DEF MakeRoot, MapGrow, zalloc
    <3>. QED  BY <2>1, <3>1
  <2>5. CASE UserPages
    BY <2>1, <2>2, <2>5 DEF UserPages
  <2>6. CASE MapDown \/ MapSet
    BY <2>3, <2>6 DEF MapDown, MapSet
  <2>7. ASSUME NEW v \in VPages, NEW p \in PPages, NEW level \in 0 .. 2, MapBegin(v, p, level)
        PROVE  [PageUser!Next]_held
    BY <2>3, <2>7 DEF MapBegin
  <2>8. CASE UNCHANGED ptVars
    BY <2>3, <2>8 DEF ptVars
  <2>. QED  BY <2>4, <2>5, <2>6, <2>7, <2>8 DEF PTNext, map
<1>. QED  BY <1>1, <1>2, TablesInvariant, PTL DEF PTSpec, PagesImplement, PageUser!Spec
=============================================================================
