----------------------------- MODULE PageAlloc -----------------------------
(***************************************************************************)
(* The page allocator of gcc/page.c (and, up to findings named below, of   *)
(* gcc/stdlib.c and os/src/page.c): one byte of flags per page at the      *)
(* start of the heap, first fit, the last page of a block marked.          *)
(***************************************************************************)
EXTENDS Integers

CONSTANTS
  PAGE_SIZE,
  HEAP_START,
  HEAP_SIZE,
  PageRequests   \* how many pages the program asks for

num_pages == HEAP_SIZE \div PAGE_SIZE

\* The table lies in front of the pages and takes part of the heap's room.
\* page_init rounds with & ~(PAGE_SIZE - 1); stdlib.c:15 and os/src/page.c:15
\* write & !(PAGE_SIZE - 1), which is 0.
ALLOC_START ==
  LET top == HEAP_START + num_pages + PAGE_SIZE - 1
  IN  top - (top % PAGE_SIZE)

\* The request is at most the table: num_pages - pages is unsigned, and the
\* table takes no more than the page that the search leaves out.
ASSUME PageAssumption ==
  /\ PAGE_SIZE \in Nat \ {0} /\ HEAP_SIZE \in Nat
  /\ HEAP_START \in Nat /\ HEAP_START % PAGE_SIZE = 0
  /\ num_pages <= PAGE_SIZE
  /\ PageRequests \subseteq 1 .. num_pages

VARIABLES
  flags,   \* the Page array
  held     \* blocks the program holds: [base, len], in bytes

pageVars == <<flags, held>>

Empty == {}

page_is_taken(f) == "Taken" \in f
page_is_last(f)  == "Last" \in f

page_init ==
  /\ flags = [i \in 0 .. num_pages - 1 |-> Empty]
  /\ held = {}

Run(i, pages) == i .. i + pages - 1

\* Mutant: the last run is searched as well.
Candidates_to_the_end(pages) ==
  {i \in 0 .. num_pages - pages :
     \A j \in Run(i, pages) : ~page_is_taken(flags[j])}

\* Mutant: only the first page of the run is looked at.
Candidates_first_page(pages) ==
  {i \in 0 .. num_pages - 1 : i < num_pages - pages /\ ~page_is_taken(flags[i])}

\* The scan ends before num_pages - pages.
Candidates(pages) ==
  {i \in 0 .. num_pages - 1 :
     /\ i < num_pages - pages
     /\ \A j \in Run(i, pages) : ~page_is_taken(flags[j])}

Block(i, pages) == [base |-> ALLOC_START + PAGE_SIZE * i, len |-> PAGE_SIZE * pages]

Mark(i, pages) ==
  [j \in DOMAIN flags |->
     CASE j = i + pages - 1   -> flags[j] \cup {"Taken", "Last"}
       [] j \in i .. i + pages - 2 -> flags[j] \cup {"Taken"}
       [] OTHER               -> flags[j]]

\* alloc finds the first run of free pages; finding none, it returns NULL
\* and changes nothing.
alloc(pages) ==
  \E i \in Candidates(pages) :
    /\ \A k \in Candidates(pages) : i <= k
    /\ flags' = Mark(i, pages)
    /\ held' = held \cup {Block(i, pages)}

IndexOf(ptr) == (ptr - ALLOC_START) \div PAGE_SIZE

\* Mutant: the page at which the loop stops is not cleared.
dealloc_not_last(b) ==
  \E e \in DOMAIN flags :
    LET i == IndexOf(b.base)
        Stops(j) == ~page_is_taken(flags[j]) \/ page_is_last(flags[j])
    IN  /\ i <= e /\ Stops(e)
        /\ \A j \in i .. e - 1 : ~Stops(j)
        /\ flags' = [j \in DOMAIN flags |-> IF j \in i .. e - 1 THEN Empty ELSE flags[j]]
        /\ held' = held \ {b}

\* The loop clears pages up to the first that is free or marked Last.
dealloc(b) ==
  \E e \in DOMAIN flags :
    LET i == IndexOf(b.base)
        Stops(j) == ~page_is_taken(flags[j]) \/ page_is_last(flags[j])
    IN  /\ i <= e /\ Stops(e)
        /\ \A j \in i .. e - 1 : ~Stops(j)
        /\ flags' = [j \in DOMAIN flags |-> IF j \in i .. e THEN Empty ELSE flags[j]]
        /\ held' = held \ {b}

PageNext ==
  \/ \E pages \in PageRequests : alloc(pages)
  \/ \E b \in held : dealloc(b)

PageSpec == page_init /\ [][PageNext]_pageVars

------------------------------------------------------------------------------
(* Properties. *)

PageTypeOK ==
  /\ flags \in [0 .. num_pages - 1 -> SUBSET {"Taken", "Last"}]
  /\ held \subseteq [base : Nat, len : Nat]

PagesOf(b) == Run(IndexOf(b.base), b.len \div PAGE_SIZE)

\* The flags tell what the program holds: dealloc, which is not told how long
\* a block is, finds its end because pages are marked Last exactly where
\* blocks end, and no page is taken that belongs to nobody.
FlagsTell ==
  \A i \in 0 .. num_pages - 1 :
    /\ page_is_taken(flags[i]) <=> \E b \in held : i \in PagesOf(b)
    /\ page_is_last(flags[i]) <=>
         \E b \in held : i = IndexOf(b.base) + (b.len \div PAGE_SIZE) - 1

\* No block reaches past the heap, although pages start behind the table and
\* are as many as if it took no room: the search never hands out the last one.
BlocksInHeap ==
  \A b \in held : /\ HEAP_START + num_pages <= b.base
                  /\ b.base + b.len <= HEAP_START + HEAP_SIZE

PageUser == INSTANCE Heap WITH live <- held

\* A block of pages shares no byte with a block the program still holds.
PagesImplement == PageUser!Spec
=============================================================================
