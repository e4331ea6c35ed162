-------------------------------- MODULE Isa --------------------------------
(***************************************************************************)
(* What the pipeline promises about control flow: the instructions of a    *)
(* program in memory are executed one after another, each of them decides  *)
(* where the next one is, and ecall and mret enter and leave the trap      *)
(* handler at the address in mtvec.                                        *)
(*                                                                         *)
(* An instruction is known by what it does to control flow:                *)
(*   other   none (arithmetic, loads and stores, branches not taken)       *)
(*   jump    a taken branch, or a jump that is neither call nor return     *)
(*   call    jal with the link register ra                                 *)
(*   ret     jalr x0, 0(ra)                                                *)
(*   ecall, mret                                                           *)
(*   wmepc   a csrw to mepc                                                *)
(*   mul     a multiplication or division, which takes several cycles      *)
(* tgt is the address it goes to, or the value it writes to mepc.          *)
(***************************************************************************)
CONSTANTS
  Addr,       \* addresses of instructions
  Succ,       \* Succ[a]: the address behind the instruction at a
  ResetAddr,  \* where execution starts
  mtvec       \* the trap vector, set once at startup

VARIABLES
  text,       \* the program, in memory
  pc,         \* address of the next instruction
  epc,        \* where mret goes to
  trapping    \* in the trap handler

isaVars == <<text, pc, epc, trapping>>

Op == {"other", "jump", "call", "ret", "ecall", "mret", "wmepc", "mul"}
Instr == [op : Op, tgt : Addr]

\* The instructions that do not simply go on to the next one.
Leaves(i) == i.op \in {"jump", "call", "ret", "ecall", "mret"}

Start ==
  /\ pc = ResetAddr
  /\ epc = ResetAddr
  /\ trapping = FALSE

Init == text \in [Addr -> Instr] /\ Start

Execute ==
  LET i == text[pc] IN
  /\ pc' = CASE i.op \in {"jump", "call", "ret"}  -> i.tgt
             [] i.op = "ecall" /\ ~trapping       -> mtvec
             [] i.op = "mret"                     -> epc
             [] OTHER                             -> Succ[pc]
  /\ epc' = CASE i.op = "wmepc"                 -> i.tgt
              [] i.op = "ecall" /\ ~trapping    -> pc
              [] OTHER                          -> epc
  /\ trapping' = CASE i.op = "ecall" -> TRUE
                   [] i.op = "mret"  -> FALSE
                   [] OTHER          -> trapping
  /\ UNCHANGED text

Reset ==
  /\ pc' = ResetAddr
  /\ epc' = ResetAddr
  /\ trapping' = FALSE
  /\ UNCHANGED text

Next == Execute \/ Reset

Spec == Init /\ [][Next]_isaVars
=============================================================================
