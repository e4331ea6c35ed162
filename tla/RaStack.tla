------------------------------ MODULE RaStack ------------------------------
(***************************************************************************)
(* The on-chip part of the return address stack, srcs/RAS/ra_stack.sv.     *)
(*                                                                         *)
(* One step is one rising clock edge.  The clocked block of the source     *)
(* uses blocking assignments, so an edge first performs at most one        *)
(* operation at the top (a call pushes, a return pops and compares) and    *)
(* then at most one at the bottom (a spill pops, a refill pushes).  The    *)
(* wires full and empty keep the value they had before the edge, while the *)
(* bottom operation already reads the counter the top operation left.      *)
(***************************************************************************)
EXTENDS Integers

CONSTANTS
  Word,          \* the values a 32-bit slot can hold
  Zero,          \* the cleared slot
  DEPTH,         \* the number of slots
  FILL_THRESH,   \* at this many entries a spill is requested
  EMPTY_THRESH   \* at this many entries or fewer a refill is requested

\* The shipped instance is 32/24/16, the testbench 64/48/32.  A spill is two
\* entries: it must not make a refill due, and the two must still be there
\* when a return comes in each of the three cycles until they are popped.
ASSUME StackAssumption ==
  /\ Zero \in Word
  /\ DEPTH \in Nat /\ FILL_THRESH \in Nat /\ EMPTY_THRESH \in Nat
  /\ EMPTY_THRESH + 2 < FILL_THRESH
  /\ FILL_THRESH >= 5
  /\ FILL_THRESH <= DEPTH

VARIABLES
  data,      \* the slots, bottom at 0
  cnt,       \* the number of entries; an integer, as in the source
  mismatch   \* sticky: a return went elsewhere than its call came from

stackVars == <<data, cnt, mismatch>>

Slot == 0 .. DEPTH - 1

\* Mutant: a refill is due whenever a spill is not.
under_not_over == cnt < FILL_THRESH

full         == cnt = DEPTH
empty        == cnt = 0
over_thresh  == cnt >= FILL_THRESH
under_thresh == cnt <= EMPTY_THRESH
dout_bottom  == data[0]

StackInit ==
  /\ data = [i \in Slot |-> Zero]
  /\ cnt = 0
  /\ mismatch = FALSE

\* An array write outside the array has no effect.
Store(d, i, w) == [k \in Slot |-> IF k = i THEN w ELSE d[k]]

stack_push(s, din) ==
  [data |-> Store(s.data, s.cnt, din), cnt |-> s.cnt + 1, mismatch |-> s.mismatch]

\* oob is the value an array read outside the array returns.
stack_pop(s, din, oob) ==
  LET tmp == IF s.cnt - 1 \in Slot THEN s.data[s.cnt - 1] ELSE oob
  IN  [data     |-> Store(s.data, s.cnt - 1, Zero),
       cnt      |-> s.cnt - 1,
       mismatch |-> s.mismatch \/ tmp # din]

stack_push_bottom(s, din) ==
  [data     |-> [i \in Slot |-> IF i = 0 THEN din ELSE s.data[i - 1]],
   cnt      |-> s.cnt + 1,
   mismatch |-> s.mismatch]

stack_pop_bottom(s) ==
  [data     |-> [i \in Slot |-> IF i = DEPTH - 1 THEN Zero ELSE s.data[i + 1]],
   cnt      |-> s.cnt - 1,
   mismatch |-> s.mismatch]

\* The two halves of the clocked block.  CRAS_top ties the input pop to 0.
TopOp(s, ena, push, ret, din, oob) ==
  CASE ena /\ ~mismatch /\ push /\ ~full               -> stack_push(s, din)
    [] ena /\ ~mismatch /\ ~(push /\ ~full) /\ ret /\ ~empty -> stack_pop(s, din, oob)
    [] OTHER                                           -> s

BottomOp(s, push, push_bottom, pop_bottom, din_bottom) ==
  LET room == ~full /\ ~(s.cnt = DEPTH - 1 /\ push)
  IN  CASE push_bottom /\ room                            -> stack_push_bottom(s, din_bottom)
        [] ~(push_bottom /\ room) /\ pop_bottom /\ ~empty -> stack_pop_bottom(s)
        [] OTHER                                          -> s

\* A rising edge without reset.
StackClock(ena, push, ret, din, push_bottom, pop_bottom, din_bottom) ==
  \E oob \in (IF cnt > DEPTH THEN Word ELSE {Zero}) :
    LET s0 == [data |-> data, cnt |-> cnt, mismatch |-> mismatch]
        s1 == TopOp(s0, ena, push, ret, din, oob)
        s2 == BottomOp(s1, push, push_bottom, pop_bottom, din_bottom)
    IN  /\ data' = s2.data
        /\ cnt' = s2.cnt
        /\ mismatch' = s2.mismatch

StackReset ==
  /\ data' = [i \in Slot |-> Zero]
  /\ cnt' = 0
  /\ mismatch' = FALSE

StackTypeOK ==
  /\ data \in [Slot -> Word]
  /\ cnt \in Int
  /\ mismatch \in BOOLEAN
=============================================================================
