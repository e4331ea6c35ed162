-------------------------- MODULE FetchDecodeProofs --------------------------
(***************************************************************************)
(* Used with care (CarefulUse), the front end of the pipeline executes     *)
(* every program in order, and every call and return reaches the return    *)
(* address stack once: for every program, trap vector and sequence of      *)
(* hazards, stalls and freezes.                                            *)
(***************************************************************************)
EXTENDS FetchDecode, TLAPS

\* At most one of the three reasons to flush holds, and it is the one fetch
\* follows.
OneFlush ==
  /\ ~(flush_sig /\ trap_ret) /\ ~(flush_sig /\ trigger_trap) /\ ~(trap_ret /\ trigger_trap)
  /\ branch_next => flush_sig /\ ~bg
  /\ flush_sig /\ ~branch_next => bg
  /\ bg => ~trap_ret /\ ~trigger_trap /\ pc = ResetAddr

\* A flushed instruction leaves decode at the next edge, unless frozen.
FlushPasses ==
  /\ flush => ins.op \notin {"mul", "mret"} /\ ~hz
  /\ hz => ins.op # "ecall"
  /\ ~full
  /\ switch # "prog"
  /\ dbg => ins.op \notin {"call", "ret", "ecall", "mul"} /\ ~trigger_trap

\* Nobody needs mepc while a write to it is on its way.
MepcSettled ==
  /\ csr_id # None => ~flush /\ ~bg /\ ins.op \notin {"mret", "ecall"}
  /\ trap_ret \/ trigger_trap => csr_id = None /\ csr_ex = None
  /\ bg => csr_id = None

IndInv ==
  /\ TypeOK
  /\ Careful(text)
  /\ ins = text[pc]
  /\ OneFlush
  /\ FlushPasses
  /\ MepcSettled

------------------------------------------------------------------------------

\* The types, as facts about one variable each.
LEMMA Types ==
  ASSUME TypeOK
  PROVE  /\ text \in [Addr -> Arch!Instr]
         /\ pc \in Addr /\ ins \in Arch!Instr /\ ins.op \in Arch!Op /\ ins.tgt \in Addr
         /\ bg \in BOOLEAN /\ branch_next \in BOOLEAN /\ flush_sig \in BOOLEAN
         /\ trap_ret \in BOOLEAN /\ trapping \in BOOLEAN /\ trigger_trap \in BOOLEAN
         /\ hz \in BOOLEAN /\ mul_ready \in BOOLEAN /\ full \in BOOLEAN /\ refill \in BOOLEAN
         /\ Succ[pc] \in Addr /\ next_addr \in Addr
<1>1. /\ text \in [Addr -> Arch!Instr]
      /\ pc \in Addr /\ ins \in Arch!Instr /\ ins.op \in Arch!Op /\ ins.tgt \in Addr
  BY DEF TypeOK, Arch!Instr
<1>2. /\ bg \in BOOLEAN /\ branch_next \in BOOLEAN /\ flush_sig \in BOOLEAN
      /\ trap_ret \in BOOLEAN /\ trapping \in BOOLEAN /\ trigger_trap \in BOOLEAN
      /\ hz \in BOOLEAN /\ mul_ready \in BOOLEAN /\ full \in BOOLEAN /\ refill \in BOOLEAN
  BY DEF TypeOK
<1>3. Succ[pc] \in Addr
  BY <1>1, FetchAssumption
<1>4. next_addr \in Addr
  BY <1>2, <1>3, FetchAssumption DEF TypeOK, next_addr
<1> QED BY <1>1, <1>2, <1>3, <1>4

\* The invariant holds at first.
LEMMA IndInvInit == CarefulUse /\ Init => IndInv
<1> SUFFICES ASSUME CarefulUse, Init PROVE IndInv
  OBVIOUS
<1>1. text \in [Addr -> Arch!Instr] /\ Careful(text)
  BY FetchAssumption DEF Init, CarefulUse
<1>2. ins \in Arch!Instr /\ ins.op \in {"other", "jump"}
  BY <1>1, FetchAssumption DEF Init, Careful
<1>3. TypeOK
  BY <1>1, <1>2, FetchAssumption DEF Init, TypeOK
<1>4. OneFlush /\ FlushPasses /\ MepcSettled
  BY <1>2 DEF Init, OneFlush, FlushPasses, MepcSettled, flush, dbg
<1> QED BY <1>1, <1>3, <1>4 DEF Init, IndInv

------------------------------------------------------------------------------
(* The four things a clock edge can do to the instruction in decode. *)

Frozen  == Clock /\ dbg
Flushed == Clock /\ ~dbg /\ flush
Waits   == Clock /\ ~dbg /\ ~flush /\ ~PC_En
Retires == Clock /\ ~dbg /\ ~flush /\ PC_En

\* What hazards, stalls and switches do next.
LEMMA EnvStep ==
  ASSUME CarefulUse, IndInv, Clock
  PROVE  /\ hz' \in BOOLEAN /\ mul_ready' \in BOOLEAN /\ refill' \in BOOLEAN
         /\ hz' => ~flush' /\ ins'.op # "ecall"
         /\ full' = FALSE
         /\ switch' \in {"off"} \cup Switches /\ switch' # "prog"
         /\ dbg' => ins'.op \notin {"call", "ret", "ecall", "mul"} /\ ~trigger_trap'
         /\ text' = text
<1>1. EnvEdge /\ text' = text
  BY DEF Clock
<1>2. full' = FALSE
  BY <1>1, FetchAssumption DEF EnvEdge, CarefulUse
<1>3. switch' # "prog"
  BY <1>1 DEF EnvEdge, CarefulUse
<1>4. dbg' => ins'.op \notin {"call", "ret", "ecall", "mul"} /\ ~trigger_trap'
  BY <1>1 DEF EnvEdge, CarefulUse, Quiet
<1> QED BY <1>1, <1>2, <1>3, <1>4 DEF EnvEdge

LEMMA FrozenStep ==
  ASSUME CarefulUse, IndInv, Frozen
  PROVE  /\ UNCHANGED <<pc, ins, bg, branch_next, branch_addr, flush_sig, trap_ret,
                        id_pc, csr_id, csr_ex>>
         /\ ~trigger_trap /\ trigger_trap' = FALSE
         /\ trapping' = (trapping /\ ~trap_ret)
         /\ mepc' = IF csr_ex # None THEN csr_ex ELSE mepc
<1>1. FetchEdge /\ DecodeEdge /\ TrapEdge /\ dbg
  BY DEF Frozen, Clock
<1>2. ~trigger_trap /\ ins.op # "ecall" /\ switch # "prog"
  BY <1>1 DEF IndInv, FlushPasses
<1>3. ~En_sig
  BY <1>1 DEF En_sig
<1>4. UNCHANGED <<pc, ins, bg, branch_next, branch_addr>>
  BY <1>1, <1>2, <1>3, Types DEF FetchEdge, IndInv
<1>5. UNCHANGED <<flush_sig, trap_ret, id_pc, csr_id, csr_ex>>
  BY <1>1 DEF DecodeEdge
<1>6. trigger_trap' = FALSE /\ trapping' = (trapping /\ ~trap_ret)
  BY <1>1, <1>2, Types DEF TrapEdge, ecall, IndInv
<1>7. mepc' = IF csr_ex # None THEN csr_ex ELSE mepc
  BY <1>1, <1>2 DEF TrapEdge
<1> QED BY <1>2, <1>4, <1>5, <1>6, <1>7

LEMMA FlushedStep ==
  ASSUME CarefulUse, IndInv, Flushed
  PROVE  /\ pc' = next_addr /\ ins' = text[next_addr]
         /\ bg' = FALSE /\ branch_next' = FALSE /\ branch_addr' \in Addr
         /\ flush_sig' = FALSE /\ trap_ret' = FALSE /\ trigger_trap' = FALSE
         /\ id_pc' = pc /\ csr_id' = None /\ csr_ex' = csr_id
         /\ csr_id = None
         /\ trapping' = (trapping /\ ~trap_ret)
         /\ mepc' = IF csr_ex # None THEN csr_ex ELSE IF trigger_trap THEN id_pc ELSE mepc
<1>1. FetchEdge /\ DecodeEdge /\ TrapEdge /\ ~dbg /\ flush
  BY DEF Flushed, Clock
<1>2. /\ ins.op \notin {"mul", "mret"} /\ ~hz /\ ~full
      /\ csr_id = None
  BY <1>1 DEF IndInv, FlushPasses, MepcSettled
<1>3. ~jumps /\ ~branch_taken /\ ~ret /\ ~ecall
  BY <1>1 DEF jumps, branch_taken, ret, ecall
<1>4. En_sig
  BY <1>1, <1>2, <1>3 DEF En_sig, PC_En, RAS_rdy, mul_waits
<1>5. /\ pc' = next_addr /\ ins' = text[next_addr]
      /\ bg' = FALSE /\ branch_next' = FALSE /\ branch_addr' \in Addr
  BY <1>1, <1>3, <1>4, FetchAssumption DEF FetchEdge, jumps
<1>6. /\ flush_sig' = FALSE /\ trap_ret' = FALSE
      /\ id_pc' = pc /\ csr_id' = None /\ csr_ex' = csr_id
  BY <1>1, <1>2, <1>3 DEF DecodeEdge, branch_taken, jumps
<1>7. /\ trigger_trap' = FALSE /\ trapping' = (trapping /\ ~trap_ret)
      /\ mepc' = IF csr_ex # None THEN csr_ex ELSE IF trigger_trap THEN id_pc ELSE mepc
  BY <1>1, <1>3, Types DEF TrapEdge, IndInv, ecall
<1> QED BY <1>2, <1>5, <1>6, <1>7

LEMMA WaitsStep ==
  ASSUME CarefulUse, IndInv, Waits
  PROVE  /\ UNCHANGED <<pc, ins, bg, branch_next, branch_addr>>
         /\ ~flush_sig /\ ~trap_ret /\ ~trigger_trap
         /\ flush_sig' = FALSE /\ trap_ret' = FALSE /\ trigger_trap' = FALSE
         /\ id_pc' = pc /\ csr_id' = None /\ csr_ex' = csr_id
         /\ trapping' = trapping
         /\ mepc' = IF csr_ex # None THEN csr_ex ELSE mepc
<1>1. FetchEdge /\ DecodeEdge /\ TrapEdge /\ ~dbg /\ ~flush /\ ~PC_En
  BY DEF Waits, Clock
<1>2. ~flush_sig /\ ~trap_ret /\ ~trigger_trap
  BY <1>1 DEF flush
<1>3. ~full /\ (hz => ins.op # "ecall") /\ switch # "prog"
  BY DEF IndInv, FlushPasses
<1>4. ~En_sig
  BY <1>1 DEF En_sig
<1>5. UNCHANGED <<pc, ins, bg, branch_next, branch_addr>>
  BY <1>1, <1>3, <1>4, Types DEF FetchEdge, IndInv
<1>6. hz \/ ins.op = "mul" \/ ~RAS_rdy
  BY <1>1 DEF PC_En, mul_waits
<1>7. ~RAS_rdy => ins.op = "ret" /\ branch_taken
  BY <1>3 DEF RAS_rdy, ret
<1>8. ~(branch_taken /\ RAS_rdy) /\ ~ecall
  BY <1>3, <1>6, <1>7 DEF branch_taken, jumps, ecall
<1>9. ~(ins.op = "mret" /\ ~hz /\ RAS_rdy) /\ ~(ins.op = "wmepc" /\ ~flush /\ ~hz /\ RAS_rdy)
  BY <1>6
<1>10. /\ flush_sig' = FALSE /\ trap_ret' = FALSE
       /\ id_pc' = pc /\ csr_id' = None /\ csr_ex' = csr_id
  BY <1>1, <1>8, <1>9 DEF DecodeEdge, branch_taken, jumps, RAS_rdy
<1>11. /\ trigger_trap' = FALSE /\ trapping' = trapping
       /\ mepc' = IF csr_ex # None THEN csr_ex ELSE mepc
  BY <1>1, <1>2, <1>8, Types DEF TrapEdge, IndInv, ecall
<1> QED BY <1>2, <1>5, <1>10, <1>11

LEMMA RetiresStep ==
  ASSUME CarefulUse, IndInv, Retires
  PROVE  /\ ~hz /\ ~branch_next /\ ~flush_sig /\ ~trap_ret /\ ~trigger_trap
         /\ next_addr = IF bg THEN pc ELSE Succ[pc]
         /\ pc' = next_addr /\ ins' = text[next_addr] /\ bg' = FALSE
         /\ (branch_next' <=> ins.op \in {"jump", "call", "ret"})
         /\ branch_next' \in BOOLEAN /\ branch_addr' \in Addr
         /\ branch_next' => branch_addr' = ins.tgt
         /\ flush_sig' = branch_next'
         /\ trap_ret' = (ins.op = "mret")
         /\ trigger_trap' = (ins.op = "ecall" /\ ~trapping)
         /\ trapping' = (trapping \/ ins.op = "ecall")
         /\ id_pc' = pc /\ csr_ex' = csr_id
         /\ csr_id' = IF ins.op = "wmepc" THEN ins.tgt ELSE None
         /\ mepc' = IF csr_ex # None THEN csr_ex ELSE mepc
<1>1. FetchEdge /\ DecodeEdge /\ TrapEdge /\ ~dbg /\ ~flush /\ PC_En
  BY DEF Retires, Clock
<1>2. /\ ~flush_sig /\ ~trap_ret /\ ~trigger_trap /\ ~branch_next
  BY <1>1 DEF flush, IndInv, OneFlush
<1>3. next_addr = IF bg THEN pc ELSE Succ[pc]
  BY <1>2 DEF next_addr
<1>4. En_sig /\ ~hz /\ RAS_rdy
  BY <1>1 DEF En_sig, PC_En
<1>5. jumps <=> ins.op \in {"jump", "call", "ret"}
  BY <1>1 DEF jumps
<1>6. ins.tgt \in Addr /\ trapping \in BOOLEAN
  BY Types DEF IndInv
<1>7. /\ pc' = next_addr /\ ins' = text[next_addr] /\ bg' = FALSE
      /\ branch_next' = jumps /\ branch_addr' = IF jumps THEN ins.tgt ELSE ResetAddr
  BY <1>1, <1>4 DEF FetchEdge
<1>8. branch_next' \in BOOLEAN /\ branch_addr' \in Addr /\ (branch_next' => branch_addr' = ins.tgt)
  BY <1>6, <1>7, FetchAssumption DEF jumps
<1>9. flush_sig' = (branch_taken /\ RAS_rdy) /\ trap_ret' = (ins.op = "mret")
  BY <1>1, <1>4 DEF DecodeEdge, RAS_rdy
<1>10. flush_sig' = branch_next'
  BY <1>4, <1>7, <1>9 DEF branch_taken, jumps, RAS_rdy
<1>11. /\ id_pc' = pc /\ csr_ex' = csr_id
       /\ csr_id' = IF ins.op = "wmepc" THEN ins.tgt ELSE None
  BY <1>1, <1>4 DEF DecodeEdge
<1>12. /\ trigger_trap' = (ins.op = "ecall" /\ ~trapping)
       /\ trapping' = (trapping \/ ins.op = "ecall")
  BY <1>1, <1>2, <1>6 DEF TrapEdge, ecall
<1>13. mepc' = IF csr_ex # None THEN csr_ex ELSE mepc
  BY <1>1, <1>2 DEF TrapEdge
<1> QED BY <1>2, <1>3, <1>4, <1>5, <1>7, <1>8, <1>9, <1>10, <1>11, <1>12, <1>13

LEMMA FourCases == Clock => Frozen \/ Flushed \/ Waits \/ Retires
BY DEF Frozen, Flushed, Waits, Retires

------------------------------------------------------------------------------
(* The invariant is inductive. *)

\* It is preserved if the parts that change are seen to be right: the rest of
\* FlushPasses is about inputs, see EnvStep.
LEMMA ClockStep == CarefulUse /\ IndInv /\ Clock => IndInv'
<1> SUFFICES ASSUME CarefulUse, IndInv, Clock PROVE IndInv'
  OBVIOUS
<1> USE DEF IndInv
<1>1. Careful(text)' /\ text' = text
  BY EnvStep DEF Careful
<1>2. /\ pc' \in Addr /\ ins' = text'[pc']
      /\ {bg', branch_next', flush_sig', trap_ret', trapping', trigger_trap'} \subseteq BOOLEAN
      /\ branch_addr' \in Addr /\ id_pc' \in Addr /\ mepc' \in Addr
      /\ csr_id' \in Addr \cup {None} /\ csr_ex' \in Addr \cup {None}
  <2>1. CASE Frozen
    BY <1>1, <2>1, FrozenStep, Types DEF TypeOK
  <2>2. CASE Flushed
    BY <1>1, <2>2, FlushedStep, Types DEF TypeOK
  <2>3. CASE Waits
    BY <1>1, <2>3, WaitsStep, Types DEF TypeOK
  <2>4. CASE Retires
    BY <1>1, <2>4, RetiresStep, Types DEF TypeOK
  <2> QED BY <2>1, <2>2, <2>3, <2>4, FourCases
<1>3. TypeOK'
  <2>1. ins' \in Arch!Instr
    BY <1>1, <1>2, Types
  <2>2. switch' \in {"off"} \cup Switches
    BY EnvStep
  <2>3. {hz', mul_ready', full', refill'} \subseteq BOOLEAN
    BY EnvStep
  <2>4. text' \in [Addr -> Arch!Instr]
    BY <1>1, Types
  <2> QED BY <1>2, <2>1, <2>2, <2>3, <2>4 DEF TypeOK
<1>4. OneFlush'
  <2>5. /\ bg' \in BOOLEAN /\ branch_next' \in BOOLEAN /\ flush_sig' \in BOOLEAN
        /\ trap_ret' \in BOOLEAN /\ trigger_trap' \in BOOLEAN
    BY <1>2
  <2>6. OneFlush /\ TypeOK
    OBVIOUS
  <2>1. CASE Frozen
    BY <2>1, FrozenStep, Types, <2>5, <2>6 DEF OneFlush
  <2>2. CASE Flushed
    BY <2>2, FlushedStep, Types, <2>5, <2>6 DEF OneFlush
  <2>3. CASE Waits
    BY <2>3, WaitsStep, Types, <2>5, <2>6 DEF OneFlush
  <2>4. CASE Retires
    BY <2>4, RetiresStep, Types, <2>5, <2>6 DEF OneFlush
  <2> QED BY <2>1, <2>2, <2>3, <2>4, FourCases
<1>5. flush' => ins'.op \notin {"mul", "mret"}
  <2>1. CASE Frozen
    BY <2>1, FrozenStep DEF flush, FlushPasses
  <2>2. CASE Flushed
    BY <2>2, FlushedStep DEF flush
  <2>3. CASE Waits
    BY <2>3, WaitsStep DEF flush
  <2>4. CASE Retires
    <3> SUFFICES ASSUME flush' PROVE ins'.op \notin {"mul", "mret"}
      OBVIOUS
    <3>1. ins.op \in {"jump", "call", "ret", "mret", "ecall"}
      BY <2>4, RetiresStep DEF flush
    <3>2. pc \in Addr /\ ins = text[pc]
      BY Types
    <3>3. CASE bg
      BY <2>4, <3>2, <3>3, RetiresStep DEF OneFlush, Careful
    <3>4. CASE ~bg
      <4>1. ins' = text[Succ[pc]]
        BY <2>4, <3>4, RetiresStep
      <4> QED BY <3>1, <3>2, <4>1 DEF Careful, Unsafe, Arch!Leaves
    <3> QED BY <3>3, <3>4
  <2> QED BY <2>1, <2>2, <2>3, <2>4, FourCases
<1>6. FlushPasses'
  BY <1>5, EnvStep DEF FlushPasses
<1>7. MepcSettled'
  <2>1. CASE Frozen
    <3>1. flush' => flush
      BY <2>1, FrozenStep, Types DEF flush
    <3>2. bg' \in BOOLEAN /\ trap_ret' \in BOOLEAN
      BY <1>2
    <3>3. MepcSettled
      OBVIOUS
    <3> QED BY <2>1, <3>1, <3>2, <3>3, FrozenStep, Types DEF MepcSettled
  <2>2. CASE Flushed
    BY <2>2, FlushedStep, Types DEF MepcSettled
  <2>3. CASE Waits
    BY <2>3, WaitsStep, Types DEF MepcSettled
  <2>4. CASE Retires
    <3>1. ins.op \in {"mret", "ecall"} => csr_id = None
      BY DEF MepcSettled
    <3>2. ASSUME csr_id' # None
          PROVE  ~flush' /\ ins'.op \notin {"mret", "ecall"}
      <4>1. ins.op = "wmepc" /\ ~flush'
        BY <2>4, <3>2, RetiresStep DEF flush
      <4>2. pc \in Addr /\ ins = text[pc] /\ ~bg
        BY <4>1, Types DEF OneFlush, Careful
      <4>3. ins' = text[Succ[pc]]
        BY <2>4, <4>2, RetiresStep
      <4> QED BY <4>1, <4>2, <4>3 DEF Careful, Unsafe, Arch!Leaves
    <3> QED BY <2>4, <3>1, <3>2, RetiresStep, Types DEF MepcSettled
  <2> QED BY <2>1, <2>2, <2>3, <2>4, FourCases
<1> QED BY <1>1, <1>2, <1>3, <1>4, <1>6, <1>7

LEMMA ResetStep == CarefulUse /\ IndInv /\ Reset => IndInv'
<1> SUFFICES ASSUME CarefulUse, IndInv, Reset PROVE IndInv'
  OBVIOUS
<1>1. text' = text /\ text \in [Addr -> Arch!Instr] /\ Careful(text)
  BY Types DEF IndInv, Reset
<1>2. ins' \in Arch!Instr /\ ins'.op \in {"other", "jump"}
  BY <1>1, FetchAssumption DEF Reset, Careful
<1>3. TypeOK'
  BY <1>1, <1>2, FetchAssumption DEF Reset, TypeOK, IndInv
<1>4. (OneFlush /\ FlushPasses /\ MepcSettled)'
  BY <1>2 DEF Reset, OneFlush, FlushPasses, MepcSettled, flush, dbg
<1>5. Careful(text)'
  BY <1>1 DEF Careful
<1> QED BY <1>1, <1>3, <1>4, <1>5 DEF Reset, IndInv

LEMMA IndInvStep == CarefulUse /\ IndInv /\ [Next]_vars => IndInv'
<1> SUFFICES ASSUME CarefulUse, IndInv, [Next]_vars PROVE IndInv'
  OBVIOUS
<1>1. CASE UNCHANGED vars
  BY <1>1
  DEF vars, fetchVars, decodeVars, trapVars, envVars, IndInv, TypeOK, Careful, OneFlush,
      FlushPasses, MepcSettled, flush, dbg
<1> QED BY <1>1, ClockStep, ResetStep DEF Next

------------------------------------------------------------------------------
(* The front end implements Isa. *)

LEMMA InitMaps == CarefulUse /\ Init => Arch!Init
<1> SUFFICES ASSUME CarefulUse, Init PROVE Arch!Init
  OBVIOUS
<1>1. text \in [Addr -> Arch!Instr]
  BY FetchAssumption DEF Init
<1>2. ArchPc = ResetAddr /\ ArchEpc = ResetAddr /\ (trapping /\ ~trap_ret) = FALSE
  BY DEF Init, ArchPc, ArchEpc, flush
<1> QED BY <1>1, <1>2 DEF Arch!Init, Arch!Start

\* While nothing is executed, nothing changes for the program.
LEMMA StutterMaps ==
  ASSUME CarefulUse, IndInv, Frozen \/ Flushed \/ Waits
  PROVE  UNCHANGED <<text, ArchPc, ArchEpc, (trapping /\ ~trap_ret)>>
<1>1. text' = text /\ MepcSettled
  BY EnvStep DEF Frozen, Flushed, Waits, IndInv
<1>2. TypeOK
  BY DEF IndInv
<1>3. CASE Frozen
  <2>1. (flush' <=> flush) /\ (flush \in BOOLEAN) /\ (flush' \in BOOLEAN)
    BY <1>2, <1>3, FrozenStep, Types DEF flush
  <2>2. flush => next_addr' = next_addr
    BY <1>1, <1>2, <1>3, FrozenStep, Types DEF next_addr, MepcSettled
  <2>3. ArchPc' = ArchPc
    BY <1>3, <2>1, <2>2, FrozenStep DEF ArchPc
  <2>4. ArchEpc' = ArchEpc
    BY <1>2, <1>3, FrozenStep, Types DEF ArchEpc
  <2>5. (trapping /\ ~trap_ret)' = (trapping /\ ~trap_ret)
    BY <1>2, <1>3, FrozenStep, Types
  <2> QED BY <1>1, <2>3, <2>4, <2>5
<1>4. CASE Flushed
  <2>1. flush /\ ~flush'
    BY <1>4, FlushedStep DEF Flushed, flush
  <2>2. ArchPc' = ArchPc
    BY <1>4, <2>1, FlushedStep DEF ArchPc
  <2>3. ArchEpc' = ArchEpc
    BY <1>2, <1>4, FlushedStep, Types DEF ArchEpc
  <2>4. (trapping /\ ~trap_ret)' = (trapping /\ ~trap_ret)
    BY <1>2, <1>4, FlushedStep, Types
  <2> QED BY <1>1, <2>2, <2>3, <2>4
<1>5. CASE Waits
  <2>1. ~flush /\ ~flush'
    BY <1>5, WaitsStep DEF Waits, flush
  <2>2. ArchPc' = ArchPc
    BY <1>5, <2>1, WaitsStep DEF ArchPc
  <2>3. ArchEpc' = ArchEpc
    BY <1>2, <1>5, WaitsStep, Types DEF ArchEpc
  <2>4. (trapping /\ ~trap_ret)' = (trapping /\ ~trap_ret)
    BY <1>2, <1>5, WaitsStep, Types
  <2> QED BY <1>1, <2>2, <2>3, <2>4
<1> QED BY <1>3, <1>4, <1>5

\* An instruction that leaves decode is executed; the first of all, which
\* comes twice, the second time only, unless it jumps.
LEMMA RetiresMaps ==
  ASSUME CarefulUse, IndInv, Retires
  PROVE  Arch!Execute \/ UNCHANGED <<text, ArchPc, ArchEpc, (trapping /\ ~trap_ret)>>
<1> USE DEF IndInv
<1>1. text' = text /\ pc \in Addr /\ ins = text[pc] /\ ins.op \in Arch!Op
  BY EnvStep, Types DEF Retires
<1>2. ArchPc = pc /\ ~flush
  BY RetiresStep DEF ArchPc, flush
<1>3. (trapping /\ ~trap_ret) = trapping
  BY RetiresStep, Types
<1>4. ArchPc' = CASE ins.op \in {"jump", "call", "ret"} -> ins.tgt
                  [] ins.op = "ecall" /\ ~trapping      -> mtvec
                  [] ins.op = "mret"                    -> mepc'
                  [] OTHER                              -> next_addr
  <2>1. CASE ins.op \in {"jump", "call", "ret"}
    <3>1. branch_next' /\ flush_sig' /\ ~trap_ret' /\ ~trigger_trap' /\ branch_addr' = ins.tgt
      <4>1. branch_next' = TRUE /\ branch_addr' = ins.tgt
        BY <2>1, RetiresStep
      <4>2. flush_sig' = TRUE /\ ~trap_ret' /\ ~trigger_trap'
        BY <2>1, <4>1, RetiresStep
      <4> QED BY <4>1, <4>2
    <3> QED BY <2>1, <3>1 DEF ArchPc, flush, next_addr
  <2>2. CASE ins.op = "ecall" /\ ~trapping
    <3>1. ~trap_ret' /\ trigger_trap'
      BY <2>2, RetiresStep
    <3> QED BY <2>2, <3>1 DEF ArchPc, flush, next_addr
  <2>3. CASE ins.op = "mret"
    BY <2>3, RetiresStep DEF ArchPc, flush, next_addr
  <2>4. CASE /\ ins.op \notin {"jump", "call", "ret", "mret"}
             /\ ~(ins.op = "ecall" /\ ~trapping)
    <3>1. ~flush' /\ pc' = next_addr
      BY <2>4, RetiresStep DEF flush
    <3> QED BY <2>4, <3>1 DEF ArchPc
  <2> QED BY <2>1, <2>2, <2>3, <2>4
<1>5. ArchEpc = CASE csr_id # None -> csr_id
                  [] csr_id = None /\ csr_ex # None -> csr_ex
                  [] OTHER -> mepc
  BY RetiresStep DEF ArchEpc
<1>6. ArchEpc' = CASE ins.op = "wmepc"                 -> ins.tgt
                   [] ins.op = "ecall" /\ ~trapping    -> pc
                   [] OTHER                            -> ArchEpc
  <2>1. CASE ins.op = "wmepc"
    <3>1. csr_id' = ins.tgt /\ ins.tgt # None
      BY <2>1, RetiresStep, Types, FetchAssumption
    <3> QED BY <2>1, <3>1 DEF ArchEpc
  <2>2. CASE ins.op = "ecall" /\ ~trapping
    <3>1. csr_id' = None /\ csr_ex' = None /\ trigger_trap' /\ id_pc' = pc
      BY <2>2, RetiresStep DEF MepcSettled
    <3> QED BY <2>2, <3>1 DEF ArchEpc
  <2>3. CASE ins.op # "wmepc" /\ ~(ins.op = "ecall" /\ ~trapping)
    <3>1. csr_id' = None /\ csr_ex' = csr_id /\ ~trigger_trap'
      BY <2>3, RetiresStep
    <3>2. mepc' = IF csr_ex # None THEN csr_ex ELSE mepc
      BY RetiresStep
    <3> QED BY <1>5, <2>3, <3>1, <3>2 DEF ArchEpc
  <2> QED BY <2>1, <2>2, <2>3
<1>7. (trapping /\ ~trap_ret)' = CASE ins.op = "ecall" -> TRUE
                                   [] ins.op = "mret"  -> FALSE
                                   [] OTHER            -> trapping
  <2>1. trap_ret' = (ins.op = "mret") /\ trapping' = (trapping \/ ins.op = "ecall")
    BY RetiresStep
  <2> QED BY <2>1, Types
<1>8. CASE bg
  <2>1. ins.op \in {"other", "jump"} /\ next_addr = pc
    BY <1>1, <1>8, RetiresStep DEF OneFlush, Careful
  <2>2. CASE ins.op = "other"
    <3>1. ArchPc' = ArchPc /\ ArchEpc' = ArchEpc
      BY <1>2, <1>4, <1>6, <2>1, <2>2
    <3>2. (trapping /\ ~trap_ret)' = (trapping /\ ~trap_ret)
      BY <1>3, <1>7, <2>2
    <3> QED BY <1>1, <3>1, <3>2
  <2>3. CASE ins.op = "jump"
    BY <1>1, <1>2, <1>3, <1>4, <1>6, <1>7, <2>3 DEF Arch!Execute
  <2> QED BY <2>1, <2>2, <2>3
<1>9. CASE ~bg
  <2>1. next_addr = Succ[pc]
    BY <1>9, RetiresStep
  <2>2. ins.op = "mret" => mepc' = ArchEpc
    BY <1>5, RetiresStep DEF MepcSettled
  <2> DEFINE i == text[ArchPc]
  <2>3. i = ins
    BY <1>1, <1>2
  <2>4. ArchPc' = CASE i.op \in {"jump", "call", "ret"} -> i.tgt
                    [] i.op = "ecall" /\ ~(trapping /\ ~trap_ret) -> mtvec
                    [] i.op = "mret"                    -> ArchEpc
                    [] OTHER                            -> Succ[ArchPc]
    BY <1>2, <1>3, <1>4, <2>1, <2>2, <2>3
  <2>5. ArchEpc' = CASE i.op = "wmepc"                 -> i.tgt
                     [] i.op = "ecall" /\ ~(trapping /\ ~trap_ret) -> ArchPc
                     [] OTHER                          -> ArchEpc
    BY <1>2, <1>3, <1>6, <2>3
  <2>6. (trapping /\ ~trap_ret)' = CASE i.op = "ecall" -> TRUE
                                     [] i.op = "mret"  -> FALSE
                                     [] OTHER          -> (trapping /\ ~trap_ret)
    BY <1>3, <1>7, <2>3
  <2> QED BY <1>1, <2>4, <2>5, <2>6 DEF Arch!Execute
<1> QED BY <1>8, <1>9

LEMMA ResetMaps == CarefulUse /\ IndInv /\ Reset => Arch!Reset
<1> SUFFICES ASSUME CarefulUse, IndInv, Reset PROVE Arch!Reset
  OBVIOUS
<1>1. next_addr' = ResetAddr /\ pc' = ResetAddr
  BY DEF Reset, next_addr
<1>2. ArchPc' = ResetAddr
  BY <1>1 DEF ArchPc
<1>3. ArchEpc' = ResetAddr /\ (trapping /\ ~trap_ret)' = FALSE /\ text' = text
  BY DEF Reset, ArchEpc
<1> QED BY <1>2, <1>3 DEF Arch!Reset

LEMMA StepMaps == CarefulUse /\ IndInv /\ [Next]_vars => [Arch!Next]_(Arch!isaVars)
<1> SUFFICES ASSUME CarefulUse, IndInv, [Next]_vars PROVE [Arch!Next]_(Arch!isaVars)
  OBVIOUS
<1>1. CASE UNCHANGED vars
  BY <1>1 DEF vars, fetchVars, decodeVars, trapVars, envVars, Arch!isaVars, ArchPc, ArchEpc,
              flush, next_addr
<1>2. CASE Clock
  BY <1>2, FourCases, StutterMaps, RetiresMaps DEF Arch!isaVars, Arch!Next
<1>3. CASE Reset
  BY <1>3, ResetMaps DEF Arch!Next
<1> QED BY <1>1, <1>2, <1>3 DEF Next

------------------------------------------------------------------------------
(* Theorems. *)

LEMMA SeenOnceHolds == IndInv => SeenOnce
<1> SUFFICES ASSUME IndInv PROVE SeenOnce
  OBVIOUS
<1> USE DEF IndInv
<1>1. ASSUME RAS_branch \/ ret, RAS_rdy
      PROVE  Executes /\ ins.op \in {"call", "ret"}
  <2>1. ins.op \in {"call", "ret"} /\ ~flush /\ ~hz
    BY <1>1 DEF RAS_branch, ret, branch_taken, jumps
  <2>2. ~dbg
    BY <2>1 DEF FlushPasses
  <2> QED BY <1>1, <2>1, <2>2 DEF Executes, En_sig, PC_En, mul_waits
<1>2. ASSUME Executes, ins.op \in {"call", "ret"}
      PROVE  (RAS_branch \/ ret) /\ RAS_rdy
  <2>1. ~flush /\ ~hz /\ RAS_rdy
    BY <1>2 DEF Executes, En_sig, PC_En
  <2> QED BY <1>2, <2>1 DEF RAS_branch, ret, branch_taken, jumps
<1>3. ASSUME RAS_branch
      PROVE  RAS_addr_in = Succ[pc]
  <2>1. ins.op = "call" /\ ~flush
    BY <1>3 DEF RAS_branch, branch_taken, jumps
  <2>2. ~bg
    BY <2>1, Types DEF OneFlush, Careful
  <2>3. next_addr = Succ[pc]
    BY <2>1, <2>2 DEF next_addr, flush, OneFlush
  <2> QED BY <1>3, <2>3 DEF RAS_addr_in
<1> QED BY <1>1, <1>2, <1>3 DEF SeenOnce

\* In every state every register of the front end holds a value of its type.
THEOREM FrontTypeCorrect == ASSUME CarefulUse PROVE Spec => []TypeOK
<1>1. Init => IndInv
  BY IndInvInit
<1>2. IndInv /\ [Next]_vars => IndInv'
  BY IndInvStep
<1>3. IndInv => TypeOK
  BY DEF IndInv
<1> QED BY <1>1, <1>2, <1>3, PTL DEF Spec

\* The stack sees every call and every return once.
THEOREM SeenOnceAlways == ASSUME CarefulUse PROVE Spec => []SeenOnce
<1>1. Init => IndInv
  BY IndInvInit
<1>2. IndInv /\ [Next]_vars => IndInv'
  BY IndInvStep
<1>3. IndInv => SeenOnce
  BY SeenOnceHolds
<1> QED BY <1>1, <1>2, <1>3, PTL DEF Spec

\* The front end executes the program in order.
THEOREM ExecutesInOrder == ASSUME CarefulUse PROVE Spec => InOrder
<1>1. Init => IndInv /\ Arch!Init
  BY IndInvInit, InitMaps
<1>2. IndInv /\ [Next]_vars => IndInv'
  BY IndInvStep
<1>3. IndInv /\ [Next]_vars => [Arch!Next]_(Arch!isaVars)
  BY StepMaps
<1> QED BY <1>1, <1>2, <1>3, PTL DEF Spec, InOrder, Arch!Spec
=============================================================================
