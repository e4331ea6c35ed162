----------------------------- MODULE PageTable -----------------------------
(***************************************************************************)
(* The three-level page tables of gcc/page.c (map, virt_to_phys) on top of *)
(* the page allocator, which hands out their tables.  map goes down one    *)
(* level per step.                                                         *)
(***************************************************************************)
EXTENDS PageAlloc, FiniteSets

CONSTANTS
  Fan,      \* entries of a table (512)
  VPages,   \* virtual pages the program maps
  PPages    \* physical pages it maps them to

VirtualPages == 0 .. Fan * Fan * Fan - 1

ASSUME PageTableAssumption ==
  Fan \in Nat \ {0} /\ VPages \subseteq VirtualPages /\ PPages \subseteq Nat

VARIABLES
  tables,   \* address of each table in use -> its entries
  root,     \* the table map and virt_to_phys are given
  todo,     \* the map under way: [vaddr, paddr, level, i, table], or NoMap
  meant     \* what the program has asked for: virtual page -> physical page

ptVars == <<pageVars, tables, root, todo, meant>>

NoMap == [i |-> -1]

Unmapped == -1

\* The pages an entry of level i stands for.
Span(i) == CASE i = 0 -> 1 [] i = 1 -> Fan [] i = 2 -> Fan * Fan

Digit(n, i) == (n \div Span(i)) % Fan
vpn(vaddr, i) == Digit(vaddr, i)

Invalid    == [kind |-> "invalid"]
Branch(p)  == [kind |-> "branch", to |-> p]
Leaf(p)    == [kind |-> "leaf", to |-> p]
EmptyTable == [d \in 0 .. Fan - 1 |-> Invalid]

Sub(n, i) == n % Span(i)

PTInit ==
  /\ page_init
  /\ tables = [p \in {} |-> EmptyTable]
  /\ root = 0
  /\ todo = NoMap
  /\ meant = [v \in VirtualPages |-> Unmapped]

\* zalloc(1): the page alloc finds, cleared.  That there is one is left to the
\* program's care: page.c would clear the page at address 0 instead.
zalloc(p) == alloc(1) /\ p \in {b.base : b \in held' \ held}

PageAddresses == {ALLOC_START + PAGE_SIZE * i : i \in 0 .. num_pages - 1}

\* kmem_init, last statement.
MakeRoot ==
  /\ root = 0
  /\ \E p \in PageAddresses :
       /\ zalloc(p)
       /\ root' = p
       /\ tables' = [q \in {p} |-> EmptyTable]
  /\ UNCHANGED <<todo, meant>>

\* The entry for vaddr in the table that e leads to, e itself if it leads to none.
Below(e, vaddr, i) == IF e.kind = "branch" THEN tables[e.to][vpn(vaddr, i)] ELSE e

\* The entry for vaddr at a level, or the leaf or invalid entry above it.
Entry(vaddr, level) ==
  LET top    == tables[root][vpn(vaddr, 2)]
      middle == Below(top, vaddr, 1)
  IN  CASE level = 2 -> top
        [] level = 1 -> middle
        [] level = 0 -> Below(middle, vaddr, 0)

\* map with bits that make a leaf (bits & 0xe), not below one that exists:
\* page.c would take that one's page for a table.
MapBegin(vaddr, paddr, level) ==
  /\ root # 0 /\ todo = NoMap
  /\ Cardinality(Candidates(1)) >= 2 - level
  /\ \A i \in level + 1 .. 2 : Entry(vaddr, i).kind # "leaf"
  /\ todo' = [vaddr |-> vaddr, paddr |-> paddr, level |-> level, i |-> 2, table |-> root]
  /\ UNCHANGED <<pageVars, tables, root, meant>>

Here == tables[todo.table][vpn(todo.vaddr, todo.i)]

Put(e) == [tables EXCEPT ![todo.table][vpn(todo.vaddr, todo.i)] = e]

Down(p) == todo' = [todo EXCEPT !.i = @ - 1, !.table = p]

\* Mutant: the page for a new table is not cleared.
MapGrow_alloc ==
  /\ todo # NoMap /\ todo.i > todo.level
  /\ Here.kind = "invalid"
  /\ \E p \in PageAddresses :
       /\ zalloc(p)
       /\ tables' = [q \in DOMAIN tables \cup {p} |->
                       IF q = p THEN [d \in 0 .. Fan - 1 |-> Leaf(0)] ELSE Put(Branch(p))[q]]
       /\ Down(p)
  /\ UNCHANGED <<root, meant>>

MapGrow ==
  /\ todo # NoMap /\ todo.i > todo.level
  /\ Here.kind = "invalid"
  /\ \E p \in PageAddresses :
       /\ zalloc(p)
       /\ tables' = [q \in DOMAIN tables \cup {p} |->
                       IF q = p THEN EmptyTable ELSE Put(Branch(p))[q]]
       /\ Down(p)
  /\ UNCHANGED <<root, meant>>

MapDown ==
  /\ todo # NoMap /\ todo.i > todo.level
  /\ Here.kind # "invalid"
  /\ Down(Here.to)
  /\ UNCHANGED <<pageVars, tables, root, meant>>

\* The entry keeps the whole page number; a leaf above level 0 stands for all
\* pages with its leading digits.
MapSet ==
  /\ todo # NoMap /\ todo.i = todo.level
  /\ tables' = Put(Leaf(todo.paddr))
  /\ todo' = NoMap
  /\ meant' = [v \in VirtualPages |->
                 IF \A i \in todo.level .. 2 : vpn(v, i) = vpn(todo.vaddr, i)
                 THEN todo.paddr - Sub(todo.paddr, todo.level) + Sub(v, todo.level)
                 ELSE meant[v]]
  /\ UNCHANGED <<pageVars, root>>

map == MapGrow \/ MapDown \/ MapSet

\* Meanwhile the program uses pages of its own.
UserPages ==
  /\ todo = NoMap
  /\ \/ \E pages \in PageRequests : alloc(pages)
     \/ \E b \in held : b.base \notin DOMAIN tables /\ dealloc(b)
  /\ UNCHANGED <<tables, root, todo, meant>>

PTNext ==
  \/ MakeRoot
  \/ \E v \in VPages, p \in PPages, level \in 0 .. 2 : MapBegin(v, p, level)
  \/ map
  \/ UserPages

PTSpec == PTInit /\ [][PTNext]_ptVars

\* The walk ends at the first entry that is invalid or a leaf; what a leaf at
\* level i leaves open comes from the virtual address.
virt_to_phys(vaddr) ==
  LET i == CHOOSE i \in 0 .. 2 :
             /\ Entry(vaddr, i).kind # "branch"
             /\ \A j \in i + 1 .. 2 : Entry(vaddr, j).kind = "branch"
      v == Entry(vaddr, i)
  IN  IF v.kind = "invalid" THEN Unmapped
      ELSE v.to - Sub(v.to, i) + Sub(vaddr, i)

------------------------------------------------------------------------------
(* Properties. *)

\* At any moment, also halfway through map, virt_to_phys takes every virtual
\* page where the latest map that covers it has put it: no map disturbs a
\* translation it does not cover, no table is anybody else's page.
Translates ==
  root # 0 => \A v \in VirtualPages : virt_to_phys(v) = meant[v]
=============================================================================
