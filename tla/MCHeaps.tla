------------------------------- MODULE MCHeaps -------------------------------
(***************************************************************************)
(* The three allocators for TLC.  They share no state; a behaviour uses    *)
(* one of them, so that their state spaces add up instead of multiplying.  *)
(***************************************************************************)
EXTENDS Malloc, PageTable, Kmem

VARIABLE used   \* the allocator of this behaviour

HeapsInit == MallocInit /\ PTInit /\ kmem_init /\ used \in {"malloc", "page", "kmem"}

HeapsNext ==
  /\ \/ used = "malloc" /\ MallocNext /\ UNCHANGED <<ptVars, kmemVars>>
     \/ used = "page" /\ PTNext /\ UNCHANGED <<mallocVars, kmemVars>>
     \/ used = "kmem" /\ KmemNext /\ UNCHANGED <<mallocVars, ptVars>>
  /\ UNCHANGED used

HeapsSpec == HeapsInit /\ [][HeapsNext]_<<mallocVars, ptVars, kmemVars, used>>
=============================================================================
