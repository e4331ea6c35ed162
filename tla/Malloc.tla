------------------------------- MODULE Malloc -------------------------------
(***************************************************************************)
(* The heap of gcc/malloc.c: a list of free nodes, searched for the first  *)
(* that is large enough, carved from its end, never merged; sbrk extends   *)
(* the heap from _end upwards.                                             *)
(*                                                                         *)
(* A node is a header of eight bytes (size, next) and the user's bytes     *)
(* behind it.  The next fields are abstracted to the sequence flist of the *)
(* addresses they link.                                                    *)
(***************************************************************************)
EXTENDS Integers, Sequences

CONSTANTS
  End,        \* &_end, where the linker says the heap begins
  Chunk,      \* what sbrk is asked for at least (8192)
  UINT,       \* 2^32: unsigned int wraps there
  Requests,   \* the sizes the program asks for
  Limit       \* the program's own care: sbrk does not know where memory ends

ASSUME MallocAssumption ==
  /\ End \in Nat \ {0}
  /\ Chunk \in Nat /\ Chunk % 8 = 0
  /\ UINT \in Nat /\ UINT % 8 = 0 /\ Chunk < UINT
  /\ Requests \subseteq {n \in Nat : n + 15 < UINT}
  /\ Limit \in Nat

VARIABLES
  flist,      \* the free list from begin on: addresses of headers
  size,       \* the size fields: header address -> bytes, header included
  heap_end,   \* the static variable of sbrk
  given       \* what the program holds: [base, len] as it asked for it

mallocVars == <<flist, size, heap_end, given>>

Wrap(n) == IF n < UINT THEN n ELSE n - UINT

round_up(num) == IF num % 8 = 0 THEN num ELSE Wrap(num + 8 - (num % 8))

\* Mutant: the header's room is forgotten.
Desired_no_header(n) == round_up(n)

Desired(n) == Wrap(round_up(n) + 8)

\* The traversal stops at the first node that is large enough.
Fits(i, d) ==
  /\ i \in 1 .. Len(flist)
  /\ size[flist[i]] >= d
  /\ \A j \in 1 .. i - 1 : size[flist[j]] < d

Unlinked(i) ==
  [j \in 1 .. Len(flist) - 1 |-> IF j < i THEN flist[j] ELSE flist[j + 1]]

Give(header, n) == given' = given \cup {[base |-> header + 8, len |-> n]}

\* Old headers, new ones, and sizes changed by an operation.
Sizes(f) == size' = [a \in DOMAIN size \cup DOMAIN f |-> IF a \in DOMAIN f THEN f[a] ELSE size[a]]

\* Mutant: the node stays on the list.
TakeWhole_still_listed(n) ==
  \E i \in 1 .. Len(flist) :
    /\ Fits(i, Desired(n))
    /\ size[flist[i]] = Desired(n)
    /\ Give(flist[i], n)
    /\ UNCHANGED <<flist, size, heap_end>>

TakeWhole(n) ==
  \E i \in 1 .. Len(flist) :
    /\ Fits(i, Desired(n))
    /\ size[flist[i]] = Desired(n)
    /\ flist' = Unlinked(i)
    /\ Give(flist[i], n)
    /\ UNCHANGED <<size, heap_end>>

\* Mutant: the node that was carved keeps its old size.
Carve_no_shrink(n) ==
  \E i \in 1 .. Len(flist) :
    LET temp == flist[i] + size[flist[i]] - Desired(n)
    IN  /\ Fits(i, Desired(n))
        /\ size[flist[i]] > Desired(n)
        /\ Sizes([a \in {temp} |-> Desired(n)])
        /\ Give(temp, n)
        /\ UNCHANGED <<flist, heap_end>>

Carve(n) ==
  \E i \in 1 .. Len(flist) :
    LET curr           == flist[i]
        remainder_size == size[curr] - Desired(n)
        temp           == curr + remainder_size
    IN  /\ Fits(i, Desired(n))
        /\ size[curr] > Desired(n)
        /\ Sizes([a \in {curr, temp} |-> IF a = curr THEN remainder_size ELSE Desired(n)])
        /\ Give(temp, n)
        /\ UNCHANGED <<flist, heap_end>>

NoneFits(n) == \A i \in 1 .. Len(flist) : size[flist[i]] < Desired(n)

sbrk(incr) ==
  /\ heap_end + incr <= Limit
  /\ heap_end' = heap_end + incr

\* A new chunk: its front goes to the free list, its end to the program.
GrowChunk(n) ==
  LET free_size  == Chunk - Desired(n)
      temp       == heap_end
      new_memory == temp + free_size
  IN  /\ NoneFits(n)
      /\ Desired(n) < Chunk
      /\ sbrk(Chunk)
      /\ Sizes([a \in {temp, new_memory} |-> IF a = temp THEN free_size ELSE Desired(n)])
      /\ flist' = <<temp>> \o flist
      /\ Give(new_memory, n)

GrowExact(n) ==
  /\ NoneFits(n)
  /\ Desired(n) >= Chunk
  /\ sbrk(Desired(n))
  /\ Sizes([a \in {heap_end} |-> Desired(n)])
  /\ Give(heap_end, n)
  /\ UNCHANGED flist

malloc(n) == TakeWhole(n) \/ Carve(n) \/ GrowChunk(n) \/ GrowExact(n)

free(b) ==
  /\ flist' = <<b.base - 8>> \o flist
  /\ given' = given \ {b}
  /\ UNCHANGED <<size, heap_end>>

MallocInit ==
  /\ flist = <<>>
  /\ size = [a \in {} |-> 0]
  /\ heap_end = End
  /\ given = {}

MallocNext ==
  \/ \E n \in Requests : malloc(n)
  \/ \E b \in given : free(b)

MallocSpec == MallocInit /\ [][MallocNext]_mallocVars

------------------------------------------------------------------------------
(* Properties. *)

Nodes == DOMAIN size
InUse == {b.base - 8 : b \in given}
OnList == {flist[i] : i \in 1 .. Len(flist)}

MallocTypeOK ==
  /\ heap_end \in Nat
  /\ size \in [Nodes -> Nat] /\ Nodes \subseteq Nat
  /\ flist \in Seq(Nodes)
  /\ given \subseteq [base : Nat, len : Nat]

\* Every byte sbrk has ever delivered belongs to exactly one node: nodes do
\* not overlap, one begins where another ends, the first at _end and the last
\* at heap_end.  No sequence of mallocs and frees leaks or doubles memory,
\* although nodes are split and never merged.
Tiled ==
  /\ \A a \in Nodes : /\ End <= a /\ size[a] >= 8 /\ a + size[a] <= heap_end
                      /\ a + size[a] \in Nodes \cup {heap_end}
                      /\ \A c \in Nodes : a < c => a + size[a] <= c
  /\ End \in Nodes \cup {heap_end}

\* A node is on the free list, once, or in use by one block, which it has
\* room for: the list stays free of cycles and of memory somebody uses.
FreeOrUsed ==
  /\ OnList \cup InUse = Nodes
  /\ OnList \cap InUse = {}
  /\ \A i, j \in 1 .. Len(flist) : flist[i] = flist[j] => i = j
  /\ \A b \in given : b.len + 8 <= size[b.base - 8]
  /\ \A b, c \in given : b.base = c.base => b = c

Program == INSTANCE Heap WITH live <- given

\* A block shares no byte with a block the program still holds.
MallocImplements == Program!Spec
=============================================================================
