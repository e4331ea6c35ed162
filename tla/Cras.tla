-------------------------------- MODULE Cras --------------------------------
(***************************************************************************)
(* The cryptographic return address stack, srcs/RAS/CRAS_top.sv: the       *)
(* on-chip stack (RaStack), the crypto core (SimonTop), the state machine  *)
(* that spills the two oldest entries to memory once the stack is nearly   *)
(* full and brings the youngest spilled pair back once it is nearly empty, *)
(* and the memory port it shares with the core (Memory_Controller.sv).     *)
(*                                                                         *)
(* Everything is clocked by one clock, so one step is one rising edge, the *)
(* conjunction of what the parts do at that edge.  The record "in" holds   *)
(* the wires that come from the core during the cycle:                     *)
(*   branch, ret, addr   RAS_branch, ret and RAS_addr_in of riscv_bus      *)
(*   port                what the core's memory stage puts on the bus:     *)
(*                       "free", "core" for a load or store, "alias" for   *)
(*                       an instruction that is neither but whose ALU      *)
(*                       result lies in the 0xaaaaa000 page                *)
(*   cfg                 a store to the configuration registers, if any    *)
(* Byte addresses are kept as in the source; a page is one spilled pair.   *)
(***************************************************************************)
EXTENDS RaStack, SimonTop

CONSTANTS
  Base,       \* values of base_addr; the regions at them do not overlap
  base0,      \* its value after reset (0)
  key0,       \* the key after reset (four times deadbeef)
  MaxPages    \* pages the memory region at a base holds

ASSUME CrasAssumption ==
  /\ Word = Plain
  /\ MaxPages \in Nat \ {0}
  /\ base0 \in Base
  /\ key0 \in Key

VARIABLES
  state,          \* the spill/refill state machine
  pt_i,           \* the pair on its way into the crypto core
  cur_addr,       \* offset of the first free byte behind the pages
  page_count,     \* pages in memory
  dec_read_last,  \* the word asked for in dec_read_upper arrives this cycle
  RAS_ena,        \* configuration register 0
  base_addr,      \* configuration register 1
  key_i,          \* configuration registers 4 to 7
  mem,            \* mem[b][i]: word i of the region at base b
  mem_dout        \* the output register of the block memory

fsmVars == <<state, pt_i, cur_addr, page_count, dec_read_last>>
cfgVars == <<RAS_ena, base_addr, key_i>>
memVars == <<mem, mem_dout>>
crasVars == <<stackVars, simonVars, fsmVars, cfgVars, memVars>>

State == {"idle", "enc_pop1", "enc_pop2", "enc_begin", "enc_wait",
          "enc_write_lower", "enc_write_upper",
          "dec_read_upper", "dec_read_lower", "dec_read_lower_2",
          "dec_begin", "dec_wait", "dec_push1", "dec_push2"}

WordIndex == 0 .. 2 * MaxPages - 1

NoCfg == [reg |-> "none"]
Cfg == [reg : {"ena"}, val : BOOLEAN] \cup [reg : {"base"}, val : Base]
         \cup [reg : {"key"}, val : Key]

------------------------------------------------------------------------------
(* Combinational signals. *)

\* Mutant: a return does not wait for the entries in memory.
stalled_full_only(ret) == full
stalled(ret) == full \/ (empty /\ page_count > 0 /\ ret)
rdy(in) == ~stalled(in.ret)

mem_rdy(in) == in.port # "core"

\* The enable of the memory port: mem_en of Mem_Interface.  It looks at the
\* core's address whether or not the core is accessing memory.
port_en(in) == in.port # "alias"

valid_i == state = "dec_begin" \/ (state = "enc_begin" /\ ~ready_o)
mode_i  == IF state = "dec_begin" THEN "dec" ELSE "enc"
\* Mutants: the result of one of the two modes is not accepted.
ready_i_dec_only == state = "dec_wait" /\ valid_o
ready_i_enc_only == state = "enc_wait" /\ valid_o
ready_i == state \in {"enc_wait", "dec_wait"} /\ valid_o

push_bot == state \in {"dec_push1", "dec_push2"}
pop_bot  == state \in {"enc_pop1", "enc_pop2"}
din_bot  == CASE state = "dec_push1" -> ct_o(0)
              [] state = "dec_push2" -> ct_o(1)
              [] OTHER               -> Zero

mem_wr(in) == state \in {"enc_write_lower", "enc_write_upper"} /\ mem_rdy(in)
mem_rd(in) == state \in {"dec_read_upper", "dec_read_lower"} /\ mem_rdy(in)
\* Mutant: the halves in the wrong order.
mem_din_swapped == IF state = "enc_write_lower" THEN ct_o(1) ELSE ct_o(0)
mem_din == IF state = "enc_write_lower" THEN ct_o(0) ELSE ct_o(1)
mem_index == IF state \in {"enc_write_lower", "enc_write_upper"}
             THEN cur_addr \div 4
             ELSE (cur_addr - 4) \div 4

------------------------------------------------------------------------------
(* What each part does at a rising edge. *)

StackEdge(in) ==
  StackClock(RAS_ena /\ rdy(in), rdy(in) /\ in.branch, rdy(in) /\ in.ret,
             IF rdy(in) THEN in.addr ELSE Zero, push_bot, pop_bot, din_bot)

SimonEdge == SimonClock(valid_i, mode_i, pt_i, key_i, ready_i)

\* A state that waits for go, and in the meantime keeps everything.
Goto(from, go, to) ==
  /\ state = from
  /\ state' = IF go THEN to ELSE from

Idle ==
  /\ state = "idle"
  /\ state' = CASE over_thresh                                      -> "enc_pop1"
                [] ~over_thresh /\ under_thresh /\ page_count # 0   -> "dec_read_upper"
                [] ~over_thresh /\ ~(under_thresh /\ page_count # 0) -> "idle"
  /\ UNCHANGED <<pt_i, cur_addr, page_count, dec_read_last>>

EncPop1 ==
  /\ Goto("enc_pop1", TRUE, "enc_pop2")
  /\ pt_i' = <<dout_bottom, pt_i[2]>>
  /\ UNCHANGED <<cur_addr, page_count, dec_read_last>>

EncPop2 ==
  /\ Goto("enc_pop2", TRUE, "enc_begin")
  /\ pt_i' = <<pt_i[1], dout_bottom>>
  /\ UNCHANGED <<cur_addr, page_count, dec_read_last>>

\* Mutant: the address moves on while the port is taken.
EncWriteLower_no_rdy(in) ==
  /\ Goto("enc_write_lower", mem_rdy(in), "enc_write_upper")
  /\ cur_addr' = cur_addr + 4
  /\ UNCHANGED <<pt_i, page_count, dec_read_last>>

EncWriteLower(in) ==
  /\ Goto("enc_write_lower", mem_rdy(in), "enc_write_upper")
  /\ cur_addr' = IF mem_rdy(in) THEN cur_addr + 4 ELSE cur_addr
  /\ UNCHANGED <<pt_i, page_count, dec_read_last>>

\* Mutant: spills again without looking at the stack.
EncWriteUpper_again(in) ==
  /\ Goto("enc_write_upper", mem_rdy(in), "enc_pop1")
  /\ cur_addr' = IF mem_rdy(in) THEN cur_addr + 4 ELSE cur_addr
  /\ page_count' = IF mem_rdy(in) THEN page_count + 1 ELSE page_count
  /\ UNCHANGED <<pt_i, dec_read_last>>

EncWriteUpper(in) ==
  /\ Goto("enc_write_upper", mem_rdy(in), IF over_thresh THEN "enc_pop1" ELSE "idle")
  /\ cur_addr' = IF mem_rdy(in) THEN cur_addr + 4 ELSE cur_addr
  /\ page_count' = IF mem_rdy(in) THEN page_count + 1 ELSE page_count
  /\ UNCHANGED <<pt_i, dec_read_last>>

DecReadUpper(in) ==
  /\ Goto("dec_read_upper", mem_rdy(in), "dec_read_lower")
  /\ cur_addr' = IF mem_rdy(in) THEN cur_addr - 4 ELSE cur_addr
  /\ dec_read_last' = (mem_rdy(in) \/ dec_read_last)
  /\ UNCHANGED <<pt_i, page_count>>

DecReadLower(in) ==
  /\ Goto("dec_read_lower", mem_rdy(in), "dec_read_lower_2")
  /\ cur_addr' = IF mem_rdy(in) THEN cur_addr - 4 ELSE cur_addr
  /\ pt_i' = IF dec_read_last THEN <<mem_dout, pt_i[2]>> ELSE pt_i
  /\ dec_read_last' = FALSE
  /\ UNCHANGED page_count

DecReadLower2 ==
  /\ Goto("dec_read_lower_2", TRUE, "dec_begin")
  /\ pt_i' = <<pt_i[1], mem_dout>>
  /\ UNCHANGED <<cur_addr, page_count, dec_read_last>>

DecPush2 ==
  /\ Goto("dec_push2", TRUE, "idle")
  /\ page_count' = page_count - 1
  /\ UNCHANGED <<pt_i, cur_addr, dec_read_last>>

\* Mutant: the result is taken before it is valid.
Handshake_no_wait ==
  /\ \/ Goto("enc_begin", ready_o, "enc_wait")
     \/ Goto("enc_wait", TRUE, "enc_write_lower")
     \/ Goto("dec_begin", ready_o, "dec_wait")
     \/ Goto("dec_wait", TRUE, "dec_push1")
     \/ Goto("dec_push1", TRUE, "dec_push2")
  /\ UNCHANGED <<pt_i, cur_addr, page_count, dec_read_last>>

\* Mutant: only a decryption's result is taken too early.
Handshake_dec_no_wait ==
  /\ \/ Goto("enc_begin", ready_o, "enc_wait")
     \/ Goto("enc_wait", valid_o, "enc_write_lower")
     \/ Goto("dec_begin", ready_o, "dec_wait")
     \/ Goto("dec_wait", TRUE, "dec_push1")
     \/ Goto("dec_push1", TRUE, "dec_push2")
  /\ UNCHANGED <<pt_i, cur_addr, page_count, dec_read_last>>

Handshake ==
  /\ \/ Goto("enc_begin", ready_o, "enc_wait")
     \/ Goto("enc_wait", valid_o, "enc_write_lower")
     \/ Goto("dec_begin", ready_o, "dec_wait")
     \/ Goto("dec_wait", valid_o, "dec_push1")
     \/ Goto("dec_push1", TRUE, "dec_push2")
  /\ UNCHANGED <<pt_i, cur_addr, page_count, dec_read_last>>

FsmEdge(in) ==
  \/ Idle
  \/ EncPop1
  \/ EncPop2
  \/ Handshake
  \/ EncWriteLower(in)
  \/ EncWriteUpper(in)
  \/ DecReadUpper(in)
  \/ DecReadLower(in)
  \/ DecReadLower2
  \/ DecPush2

\* A store of the core reaches the registers; the four key words count as one.
CfgEdge(in) ==
  /\ RAS_ena'   = IF in.cfg.reg = "ena"  THEN in.cfg.val ELSE RAS_ena
  /\ base_addr' = IF in.cfg.reg = "base" THEN in.cfg.val ELSE base_addr
  /\ key_i'     = IF in.cfg.reg = "key"  THEN in.cfg.val ELSE key_i

\* The block memory is write-first: a write also shows the written word.
\* A core access leaves a word of the core's in the output register.
PortEdge(in) ==
  LET i == mem_index IN
  CASE mem_wr(in) /\ port_en(in) -> /\ mem' = [mem EXCEPT ![base_addr][i] = mem_din]
                                    /\ mem_dout' = mem_din
    [] mem_rd(in) /\ port_en(in) -> /\ mem' = mem
                                    /\ mem_dout' = mem[base_addr][i]
    [] in.port = "core"          -> mem' = mem /\ mem_dout' = Junk
    [] OTHER                     -> UNCHANGED memVars

Clock(in) ==
  /\ StackEdge(in)
  /\ SimonEdge
  /\ FsmEdge(in)
  /\ CfgEdge(in)
  /\ PortEdge(in)

CrasInit ==
  /\ StackInit
  /\ SimonInit
  /\ state = "idle"
  /\ pt_i = <<Junk, Junk>>
  /\ cur_addr = 0
  /\ page_count = 0
  /\ dec_read_last = FALSE
  /\ RAS_ena = TRUE
  /\ base_addr = base0
  /\ key_i = key0
  /\ mem = [b \in Base |-> [i \in WordIndex |-> Junk]]
  /\ mem_dout = Junk

\* The reset button; the block memory has no reset and finishes its access.
CrasReset(in) ==
  /\ StackReset
  /\ SimonReset
  /\ state' = "idle"
  /\ cur_addr' = 0
  /\ page_count' = 0
  /\ dec_read_last' = FALSE
  /\ RAS_ena' = TRUE
  /\ base_addr' = base0
  /\ key_i' = key0
  /\ UNCHANGED pt_i
  /\ PortEdge(in)

CrasTypeOK ==
  /\ StackTypeOK
  /\ SimonTypeOK
  /\ state \in State
  /\ pt_i \in MemWord \X MemWord
  /\ cur_addr \in Int /\ page_count \in Int
  /\ dec_read_last \in BOOLEAN
  /\ RAS_ena \in BOOLEAN /\ base_addr \in Base /\ key_i \in Key
  /\ mem \in [Base -> [WordIndex -> MemWord]]
  /\ mem_dout \in MemWord
=============================================================================
