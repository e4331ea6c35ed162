----------------------------- MODULE ReturnStack -----------------------------
(***************************************************************************)
(* What the return address stack promises to a program, whatever it keeps  *)
(* on chip, in memory or in the crypto core: an unbounded stack on which   *)
(* every call leaves its return address, and a flag that rises exactly     *)
(* when a return goes elsewhere than the call it belongs to came from.     *)
(* Once the flag is up it stays up and the stack is no longer tracked.     *)
(***************************************************************************)
EXTENDS Sequences, Naturals

CONSTANT Address

VARIABLES
  stack,    \* return addresses, the youngest last
  alarm     \* a return did not match

vars == <<stack, alarm>>

Init == stack = <<>> /\ alarm = FALSE

Call(a) ==
  /\ ~alarm
  /\ stack' = Append(stack, a)
  /\ UNCHANGED alarm

Return(a) ==
  /\ ~alarm
  /\ stack # <<>>
  /\ stack' = SubSeq(stack, 1, Len(stack) - 1)
  /\ alarm' = (a # stack[Len(stack)])

Reset ==
  /\ stack' = <<>>
  /\ alarm' = FALSE

Next ==
  \/ \E a \in Address : Call(a) \/ Return(a)
  \/ Reset

Spec == Init /\ [][Next]_vars
=============================================================================
