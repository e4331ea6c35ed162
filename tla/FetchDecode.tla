---------------------------- MODULE FetchDecode ----------------------------
(***************************************************************************)
(* The front of the pipeline: Fetch_Reprogrammable.sv, what Decode.sv does *)
(* to control flow, the trap logic of main_bus (RISCVcore_uart.sv), mepc   *)
(* of CSR.sv, and the wires to the return address stack (rv_uart_top.sv).  *)
(*                                                                         *)
(* One step is one rising clock edge.  A taken jump is seen in decode,     *)
(* one cycle after the address behind it went to the memory, so the        *)
(* instruction that arrives next is flushed.  Three things stop the        *)
(* pipeline, each in its own way:                                          *)
(*   hz       a data hazard: fetch waits, a bubble goes to execute         *)
(*   mul      a multiplication or division that is not ready: fetch waits, *)
(*            but the instruction is issued again in every cycle           *)
(*   RAS_rdy  the return address stack is full, or empty with pages in     *)
(*            memory at a return: fetch waits, bubble                      *)
(*   dbg      the debug or the prog switch: everything waits                   *)
(*                                                                         *)
(* Of the rest of the machine only what reaches the front is modelled: hz, *)
(* mul_ready, full, refill and dbg change as their sources allow.          *)
(***************************************************************************)
EXTENDS Naturals

CONSTANTS
  Addr, Succ, ResetAddr, mtvec,   \* see Isa
  Programs,    \* the programs considered
  FullStalls,  \* whether calls can fill the return address stack
  Switches,    \* the switches used: "debug", "prog"
  Freezes,     \* when they may be on: "quiet", see Quiet, or "any"
  None         \* no write to mepc

VARIABLES
  text,         \* instruction memory
  pc,           \* IF_ID_pres_addr: address of the instruction in decode
  ins,          \* the instruction in decode, output register of the memory
  bg,           \* first cycle after reset: pc_incr is 0
  branch_next, branch_addr,   \* the jump of the cycle before, and its target
  flush_sig, trap_ret,        \* flush after a jump; after mret
  id_pc,        \* ID_EX_pres_addr: address of the instruction in execute
  trapping, trigger_trap,     \* main_bus
  csr_id, csr_ex,             \* a write to mepc on its way through execute
  mepc,
  hz,           \* a data hazard between decode and execute or memory
  mul_ready,    \* ready of the multiplier or divider
  full,         \* stack_full
  refill,       \* the on-chip stack is empty, and pages are in memory
  switch        \* the switch that is on, or "off"

fetchVars == <<pc, ins, bg, branch_next, branch_addr>>
decodeVars == <<flush_sig, trap_ret, id_pc, csr_id, csr_ex>>
trapVars == <<trapping, trigger_trap, mepc>>
envVars == <<hz, mul_ready, full, refill, switch>>
vars == <<text, fetchVars, decodeVars, trapVars, envVars>>

------------------------------------------------------------------------------
(* Combinational signals. *)

dbg == switch # "off"
flush == flush_sig \/ trigger_trap \/ trap_ret

\* Mutant: the flushed instruction jumps.
jumps_flushed == ins.op \in {"jump", "call", "ret"}
jumps == ins.op \in {"jump", "call", "ret"} /\ ~flush

\* Mutant: the outcome is used although the operands are not there yet.
branch_taken_early == jumps
branch_taken == jumps /\ ~hz

ecall == ins.op = "ecall" /\ ~flush
mul_waits == ins.op = "mul" /\ ~mul_ready

ret == branch_taken /\ ins.op = "ret"
RAS_branch == branch_taken /\ ins.op = "call"
RAS_rdy == ~full /\ ~(refill /\ ret)

PC_En == ~hz /\ ~mul_waits /\ RAS_rdy
En_sig == PC_En /\ ~dbg

next_addr ==
  CASE trap_ret                                        -> mepc
    [] ~trap_ret /\ trigger_trap                       -> mtvec
    [] ~trap_ret /\ ~trigger_trap /\ branch_next       -> branch_addr
    [] OTHER                                           -> IF bg THEN pc ELSE Succ[pc]

RAS_addr_in == IF RAS_branch THEN next_addr ELSE ins.tgt

\* The instruction in decode leaves it for good at this edge.
Executes == En_sig /\ ~flush

------------------------------------------------------------------------------
(* What each part does at a rising edge. *)

FetchEdge ==
  /\ bg' = (bg /\ ~En_sig)
  /\ IF En_sig
     THEN /\ pc' = next_addr
          /\ branch_next' = jumps
          /\ branch_addr' = IF jumps THEN ins.tgt ELSE ResetAddr
     ELSE UNCHANGED <<pc, branch_next, branch_addr>>
  /\ CASE En_sig                       -> ins' = text[next_addr]
       [] ~En_sig /\ switch = "prog"   -> \E a \in Addr : ins' = text[a]
       [] OTHER                        -> ins' = ins

\* Whatever waits in decode, a bubble or a multiplication issued again clears
\* the flush flag.
DecodeEdge ==
  /\ flush_sig' = IF dbg THEN flush_sig ELSE branch_taken /\ RAS_rdy
  /\ trap_ret' = IF dbg THEN trap_ret ELSE ins.op = "mret" /\ ~hz /\ RAS_rdy
  /\ id_pc' = IF dbg THEN id_pc ELSE pc
  /\ csr_id' = IF dbg THEN csr_id
               ELSE IF ins.op = "wmepc" /\ ~flush /\ ~hz /\ RAS_rdy THEN ins.tgt ELSE None
  /\ csr_ex' = IF dbg THEN csr_ex ELSE csr_id

\* Mutant: mepc takes what is on the write port, written or not.
TrapEdge_no_wea ==
  /\ trigger_trap' = (ecall /\ ~trapping)
  /\ trapping' = (~(trap_ret /\ trapping) /\ (trapping \/ ecall))
  /\ mepc' = IF trigger_trap THEN id_pc ELSE csr_ex

\* The trap logic does not stop for anything.
TrapEdge ==
  /\ trigger_trap' = (ecall /\ ~trapping)
  /\ trapping' = (~(trap_ret /\ trapping) /\ (trapping \/ ecall))
  /\ mepc' = IF csr_ex # None THEN csr_ex ELSE IF trigger_trap THEN id_pc ELSE mepc

\* A hazard is between an instruction not flushed and one before it, and
\* passes while the instruction waits.
Quiet == ins'.op \notin {"call", "ret", "ecall", "mul"} /\ ~trigger_trap'

EnvEdge ==
  /\ hz' \in BOOLEAN
  /\ hz' => ~flush' /\ ins'.op # "ecall" /\ (En_sig \/ hz)
  /\ mul_ready' \in BOOLEAN
  /\ full' \in BOOLEAN
  /\ full' => FullStalls /\ (full \/ (RAS_branch /\ RAS_rdy))
  /\ refill' \in BOOLEAN
  /\ switch' \in {"off"} \cup Switches
  /\ dbg' => Freezes = "any" \/ Quiet

Clock ==
  /\ FetchEdge
  /\ DecodeEdge
  /\ TrapEdge
  /\ EnvEdge
  /\ UNCHANGED text

Init ==
  /\ text \in Programs
  /\ pc = ResetAddr /\ ins = text[ResetAddr]
  /\ bg = TRUE
  /\ branch_next = FALSE /\ branch_addr = ResetAddr
  /\ flush_sig = FALSE /\ trap_ret = FALSE
  /\ id_pc = ResetAddr
  /\ csr_id = None /\ csr_ex = None
  /\ trapping = FALSE /\ trigger_trap = FALSE
  /\ mepc = ResetAddr
  /\ hz = FALSE /\ mul_ready = FALSE /\ full = FALSE /\ refill = FALSE /\ switch = "off"

\* Two or more edges with reset on.  Decode does not reset flush_sig.
Reset ==
  /\ pc' = ResetAddr /\ ins' = text[ResetAddr]
  /\ bg' = TRUE
  /\ branch_next' = FALSE /\ branch_addr' = ResetAddr
  /\ trap_ret' = FALSE
  /\ id_pc' = ResetAddr
  /\ csr_id' = None /\ csr_ex' = None
  /\ trapping' = FALSE /\ trigger_trap' = FALSE
  /\ mepc' = ResetAddr
  /\ hz' = FALSE /\ mul_ready' = FALSE /\ full' = FALSE /\ refill' = FALSE /\ switch' = "off"
  /\ UNCHANGED <<text, flush_sig>>

Next == Clock \/ Reset

Spec == Init /\ [][Next]_vars

------------------------------------------------------------------------------
(* What the front end implements. *)

\* The address of the next instruction to be executed: the one in decode,
\* or where fetch goes if that one is flushed.
ArchPc == IF flush THEN next_addr ELSE pc

\* mepc, counting the write that is on its way and the trap being taken.
ArchEpc ==
  CASE csr_id # None                                  -> csr_id
    [] csr_id = None /\ csr_ex # None                 -> csr_ex
    [] csr_id = None /\ csr_ex = None /\ trigger_trap -> id_pc
    [] OTHER                                          -> mepc

Arch == INSTANCE Isa WITH pc <- ArchPc, epc <- ArchEpc, trapping <- (trapping /\ ~trap_ret)

ASSUME FetchAssumption ==
  /\ Succ \in [Addr -> Addr]
  /\ ResetAddr \in Addr /\ mtvec \in Addr
  /\ Programs \subseteq [Addr -> Arch!Instr]
  /\ FullStalls \in BOOLEAN
  /\ Switches \subseteq {"debug", "prog"}
  /\ Freezes \in {"quiet", "any"}
  /\ None \notin Addr

\* What must not follow an instruction: behind one that goes elsewhere, what
\* a flush does not suppress; behind a write to mepc, what needs it at once.
Unsafe(i) ==
  IF Arch!Leaves(i) THEN {"mul", "mret"}
  ELSE IF i.op = "wmepc" THEN {"mret", "ecall"} ELSE {}

\* The first instruction may be executed twice.
Careful(p) ==
  /\ p[ResetAddr].op \in {"other", "jump"}
  /\ \A a \in Addr : p[Succ[a]].op \notin Unsafe(p[a])

\* What the code leaves to the program and to who operates the switches.
CarefulUse ==
  /\ ~FullStalls
  /\ Switches \subseteq {"debug"}
  /\ Freezes = "quiet"
  /\ \A p \in Programs : Careful(p)

TypeOK ==
  /\ text \in [Addr -> Arch!Instr]
  /\ pc \in Addr /\ ins \in Arch!Instr
  /\ {bg, branch_next, flush_sig, trap_ret, trapping, trigger_trap} \subseteq BOOLEAN
  /\ branch_addr \in Addr /\ id_pc \in Addr /\ mepc \in Addr
  /\ csr_id \in Addr \cup {None} /\ csr_ex \in Addr \cup {None}
  /\ {hz, mul_ready, full, refill} \subseteq BOOLEAN
  /\ switch \in {"off"} \cup Switches

\* Whatever stalls and flushes, the front end executes the program as Isa
\* does: no instruction is skipped, none is executed twice, none is executed
\* that a jump, a trap or a return from one has passed over.
InOrder == Arch!Spec

\* The return address stack sees a call or return as an operation exactly
\* in the cycle in which it leaves decode, and with the address behind it.
SeenOnce ==
  /\ (RAS_branch \/ ret) /\ RAS_rdy <=> Executes /\ ins.op \in {"call", "ret"}
  /\ RAS_branch => RAS_addr_in = Succ[pc]
=============================================================================
