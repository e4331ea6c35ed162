-------------------------------- MODULE Heap --------------------------------
(***************************************************************************)
(* What an allocator promises a program: a block it hands out shares no    *)
(* address with a block the program still holds, and it hands out one      *)
(* block at a time.  malloc.c, page.c and kmem.c all implement it; how     *)
(* they find memory, and whether they find any, is theirs to decide.       *)
(***************************************************************************)
EXTENDS Integers

VARIABLE live   \* the blocks the program holds: [base |-> address, len |-> length]

Apart(b, c) ==
  /\ b.base # c.base
  /\ b.base + b.len <= c.base \/ c.base + c.len <= b.base

Init == live = {}

Allocate ==
  \E b \in live' \ live :
    /\ live' = live \cup {b}
    /\ \A c \in live : Apart(b, c)

Free == \E b \in live : live' = live \ {b}

Next == Allocate \/ Free

Spec == Init /\ [][Next]_live
=============================================================================
