-------------------------- MODULE CrasProgramProofs --------------------------
(***************************************************************************)
(* Proofs about CrasProgram, for every depth, thresholds, round count,     *)
(* key, program and timing within Sustained: the stack with its spills and *)
(* refills implements ReturnStack, and its alarm is exact.                 *)
(*                                                                         *)
(* A program is one behaviour of the core, so the invariant of CrasOpen    *)
(* holds here as well; what is added follows the pair on its way out and   *)
(* back and says how far the budgets reach.                                *)
(***************************************************************************)
EXTENDS CrasProgram, SequenceTheorems, TLAPS

Open == INSTANCE CrasOpenProofs
          WITH Resets <- FALSE, Addr <- Addr \cup {Zero}, Ports <- Ports \cup {"core"}

\* What the proofs ask of the constants: no instruction that blocks the port
\* without waiting for it, configuration by software that is careful and does
\* not switch the stack off, and no more calls during a refill, or returns
\* during a spill, than the slots above, or the entries below, the thresholds.
Sustained ==
  /\ Ports \subseteq {"free", "core"}
  /\ Careful /\ \A k \in Cfgs : k.reg # "ena"
  /\ EMPTY_THRESH + CallBurst + 4 <= DEPTH
  /\ RetBurst + 3 <= FILL_THRESH

Entries == InMemory \o InFlight \o InStack

\* The halves of the youngest page.
Upper == mem[base_addr][2 * page_count - 1]
Lower == mem[base_addr][2 * page_count - 2]

Writing == {"enc_write_lower", "enc_write_upper"}
Pushing == {"dec_push1", "dec_push2"}

\* The pair is the same on its way out, whoever holds it, ...
Encrypts ==
  /\ state = "enc_pop2" => pt_i[1] \in Plain
  /\ state \in {"enc_begin", "enc_wait"} \cup Writing => pt_i \in Plain \X Plain
  /\ state \in {"enc_begin", "enc_wait"} /\ scur = "S_ENC_RUN" => pt_r = pt_i /\ skey = key_i
  /\ state = "enc_wait" /\ valid_o => pt_r = CipherOf(pt_i, key_i)
  /\ state \in Writing => pt_r = CipherOf(pt_i, key_i)
  /\ state = "enc_write_upper" => mem[base_addr][2 * page_count] = CipherOf(pt_i, key_i)[1]

\* ... and on its way back.
Decrypts ==
  /\ state = "dec_read_lower" => IF dec_read_last THEN mem_dout = Upper ELSE pt_i[1] = Upper
  /\ state = "dec_read_lower_2" => pt_i[1] = Upper /\ mem_dout = Lower
  /\ state = "dec_begin" => pt_i = <<Upper, Lower>>
  /\ state = "dec_begin" /\ scur \in {"S_DEC_KEY_RUN", "S_DEC_PRE"} => skey = key_i
  /\ state \in {"dec_begin", "dec_wait"} /\ scur = "S_DEC_RUN"
       => pt_r = <<Upper, Lower>> /\ skey = key_i
  /\ state = "dec_wait" /\ valid_o => pt_r = Decrypt(<<Upper, Lower>>, key_i)
  /\ state \in Pushing => pt_r = Decrypt(<<Upper, Lower>>, key_i)

\* Room for what a refill brings, and entries for the returns during a spill.
Budget ==
  /\ cnt <= DEPTH
  /\ Refilling => /\ burst \in 0 .. CallBurst
                  /\ cnt <= EMPTY_THRESH + 1 + burst + (IF state = "dec_push2" THEN 1 ELSE 0)
  /\ Spilling  => /\ burst \in 0 .. RetBurst
                  /\ cnt + burst >= FILL_THRESH - (CASE state = "enc_pop1" -> 1
                                                     [] state = "enc_pop2" -> 2
                                                     [] OTHER -> 3)

\* Up to the alarm the entries are the calls in progress.
Tracks ==
  /\ RAS_ena
  /\ calls \in Seq(Addr) /\ Len(calls) <= MaxDepth
  /\ ~mismatch => ~hijacked /\ Entries = calls
  /\ mismatch  => hijacked /\ Len(Entries) < MaxDepth

ProgramInv == Encrypts /\ Decrypts /\ Budget /\ Tracks

------------------------------------------------------------------------------
(* A program is one behaviour of the core. *)

\* What CrasOpen assumes of its constants holds of the program's.
LEMMA OpenAssumptions ==
  Open!StackAssumption /\ Open!SimonAssumption /\ Open!CrasAssumption /\ Open!OpenAssumption
BY ProgramAssumption, StackAssumption, SimonAssumption, CrasAssumption
DEF Open!StackAssumption, Open!SimonAssumption, Open!CrasAssumption, Open!OpenAssumption,
    Open!Cfg, Cfg

LEMMA SameStack ==
  ASSUME NEW in, StackEdge(in)  PROVE Open!StackEdge(in)
BY DEF StackEdge, StackClock, TopOp, BottomOp, stack_push, stack_pop, stack_push_bottom,
       stack_pop_bottom, Store, Slot, full, empty, rdy, stalled, push_bot, pop_bot, din_bot, ct_o,
       Open!StackEdge, Open!StackClock, Open!TopOp, Open!BottomOp, Open!stack_push,
       Open!stack_pop, Open!stack_push_bottom, Open!stack_pop_bottom, Open!Store, Open!Slot,
       Open!full, Open!empty, Open!rdy, Open!stalled, Open!push_bot, Open!pop_bot,
       Open!din_bot, Open!ct_o

LEMMA SameSimon == SimonEdge => Open!SimonEdge
BY DEF SimonEdge, SimonClock, SIdle, SEncPre, SRound, SDecPreKey, SDecPre, SOutput, valid_i,
       mode_i, ready_i, valid_o, Encrypt, Decrypt, CipherOf, Cipher, lastRound,
       Open!SimonEdge, Open!SimonClock, Open!SIdle, Open!SEncPre, Open!SRound,
       Open!SDecPreKey, Open!SDecPre, Open!SOutput, Open!valid_i, Open!mode_i, Open!ready_i,
       Open!valid_o, Open!Encrypt, Open!Decrypt, Open!CipherOf, Open!Cipher, Open!lastRound

LEMMA SameFsm ==
  ASSUME NEW in, FsmEdge(in)  PROVE Open!FsmEdge(in)
BY DEF FsmEdge, Idle, EncPop1, EncPop2, Handshake, EncWriteLower, EncWriteUpper, DecReadUpper,
       DecReadLower, DecReadLower2, DecPush2, Goto, over_thresh, under_thresh, dout_bottom,
       mem_rdy, valid_o,
       Open!FsmEdge, Open!Idle, Open!EncPop1, Open!EncPop2, Open!Handshake,
       Open!EncWriteLower, Open!EncWriteUpper, Open!DecReadUpper, Open!DecReadLower,
       Open!DecReadLower2, Open!DecPush2, Open!Goto, Open!over_thresh, Open!under_thresh,
       Open!dout_bottom, Open!mem_rdy, Open!valid_o

LEMMA SamePort ==
  ASSUME NEW in, CfgEdge(in), PortEdge(in)  PROVE Open!CfgEdge(in) /\ Open!PortEdge(in)
BY DEF CfgEdge, PortEdge, mem_index, mem_wr, mem_rd, mem_rdy, port_en, mem_din, ct_o, memVars,
       Open!CfgEdge, Open!PortEdge, Open!mem_index, Open!mem_wr, Open!mem_rd, Open!mem_rdy,
       Open!port_en, Open!mem_din, Open!ct_o, Open!memVars

\* The inputs of a cycle of a program.
Inputs(in) ==
  /\ in \in Open!Input /\ in.port # "alias"
  /\ in.cfg.reg # "ena"
  /\ in.cfg.reg # "none" => state = "idle" /\ ~over_thresh /\ page_count = 0

\* Every edge keeps the invariant of CrasOpen.
LEMMA OpenStep ==
  ASSUME Open!IndInv, NEW in \in Open!Input, Clock(in), in.branch => Open!InUse < 2 * MaxPages
  PROVE  Open!IndInv'
<1>1. Open!Clock(in)
  BY SameStack, SameSimon, SameFsm, SamePort DEF Clock, Open!Clock
<1>2. Open!Cycle(in)
  BY <1>1 DEF Open!Cycle
<1>. QED  BY <1>2, OpenAssumptions, Open!CycleStep

\* The initial states are those of CrasOpen.
LEMMA OpenInit == CrasInit => Open!IndInv
<1>1. CrasInit => Open!Init
  BY DEF CrasInit, StackInit, SimonInit, Slot, WordIndex, Open!Init, Open!CrasInit,
         Open!StackInit, Open!SimonInit, Open!Slot, Open!WordIndex
<1>. QED  BY <1>1, OpenAssumptions, Open!IndInvInit

\* The part of that invariant the proofs below use.
LEMMA OpenFacts ==
  ASSUME Open!IndInv
  PROVE  /\ data \in [Slot -> Word] /\ cnt \in Nat /\ mismatch \in BOOLEAN
         /\ scur \in SimonState /\ ready_o \in BOOLEAN /\ round \in 0 .. N_ROUNDS
         /\ state \in State /\ page_count \in Nat /\ page_count <= MaxPages
         /\ cur_addr = 8 * page_count + Open!AddrOffset
         /\ state \in Open!DecRead \cup Open!DecBusy => page_count > 0
         /\ state \in Open!EncBusy => page_count < MaxPages
         /\ dec_read_last \in BOOLEAN /\ base_addr \in Base /\ key_i \in Key
         /\ pt_i \in MemWord \X MemWord
         /\ mem \in [Base -> [WordIndex -> MemWord]]
         /\ state = "enc_pop1" => cnt >= 4
         /\ state = "enc_pop2" => cnt >= 2
         /\ Open!Lockstep
<1>1. Open!CrasTypeOK /\ Open!PageAccounting /\ Open!SpillRoom /\ Open!Lockstep
  BY DEF Open!IndInv
<1>2. cnt \in Nat
  BY <1>1 DEF Open!CrasTypeOK, Open!StackTypeOK, Open!SpillRoom
<1>3. page_count \in Nat /\ page_count <= MaxPages
  BY <1>1, CrasAssumption DEF Open!PageAccounting
<1>. QED
  BY <1>1, <1>2, <1>3
  DEF Open!CrasTypeOK, Open!StackTypeOK, Open!SimonTypeOK, Open!PageAccounting, Open!SpillRoom,
      Open!State, Open!SimonState, Open!Slot, Open!WordIndex, Open!MemWord, Open!Cipher,
      State, SimonState, Slot, WordIndex, MemWord, Cipher

------------------------------------------------------------------------------
(* What an edge does, by the state before it. *)

\* The crypto core.
LEMMA SimonFacts ==
  ASSUME SimonEdge, scur \in SimonState
  PROVE  /\ scur = "S_IDLE" =>
              /\ scur' = IF ~valid_i THEN "S_IDLE"
                         ELSE IF state = "dec_begin" THEN "S_DEC_PRE_KEY" ELSE "S_ENC_PRE"
              /\ pt_r' = pt_r
         /\ scur = "S_ENC_PRE" => scur' = "S_ENC_RUN" /\ pt_r' = pt_i /\ skey' = key_i
         /\ scur = "S_ENC_RUN" =>
              /\ skey' = skey
              /\ \/ scur' = "S_ENC_RUN" /\ pt_r' = pt_r
                 \/ scur' = "S_OUTPUT" /\ pt_r' = Encrypt(pt_r, skey)
         /\ scur = "S_DEC_PRE_KEY" => scur' = "S_DEC_KEY_RUN" /\ skey' = key_i
         /\ scur = "S_DEC_KEY_RUN" => scur' \in {"S_DEC_KEY_RUN", "S_DEC_PRE"} /\ skey' = skey
         /\ scur = "S_DEC_PRE" => scur' = "S_DEC_RUN" /\ pt_r' = pt_i /\ skey' = skey
         /\ scur = "S_DEC_RUN" =>
              /\ skey' = skey
              /\ \/ scur' = "S_DEC_RUN" /\ pt_r' = pt_r
                 \/ scur' = "S_OUTPUT" /\ pt_r' = Decrypt(pt_r, skey)
         /\ scur = "S_OUTPUT" => scur' = (IF ready_i THEN "S_IDLE" ELSE "S_OUTPUT") /\ pt_r' = pt_r
<1>1. CASE SIdle(valid_i, mode_i)
  <2>1. valid_i \in BOOLEAN
    BY DEF valid_i
  <2>2. /\ mode_i = IF state = "dec_begin" THEN "dec" ELSE "enc"
        /\ scur = "S_IDLE" /\ pt_r' = pt_r
        /\ scur' = CASE valid_i /\ mode_i = "enc" -> "S_ENC_PRE"
                     [] valid_i /\ mode_i = "dec" -> "S_DEC_PRE_KEY"
                     [] ~valid_i                  -> "S_IDLE"
    BY <1>1 DEF SIdle, mode_i
  <2>. QED  BY <2>1, <2>2
<1>2. CASE SEncPre(pt_i, key_i)
  BY <1>2 DEF SEncPre
<1>3. CASE SRound("S_ENC_RUN", "S_OUTPUT", Encrypt(pt_r, skey))
  BY <1>3 DEF SRound
<1>4. CASE SDecPreKey(key_i)
  BY <1>4 DEF SDecPreKey
<1>5. CASE SRound("S_DEC_KEY_RUN", "S_DEC_PRE", pt_r)
  BY <1>5 DEF SRound
<1>6. CASE SDecPre(pt_i)
  BY <1>6 DEF SDecPre
<1>7. CASE SRound("S_DEC_RUN", "S_OUTPUT", Decrypt(pt_r, skey))
  BY <1>7 DEF SRound
<1>8. CASE SOutput(ready_i)
  BY <1>8 DEF SOutput
<1>. QED  BY <1>1, <1>2, <1>3, <1>4, <1>5, <1>6, <1>7, <1>8 DEF SimonEdge, SimonClock

\* The state machine.
LEMMA FsmFacts ==
  ASSUME NEW in, FsmEdge(in)
  PROVE  /\ state \in State /\ state' \in State
         /\ state \notin {"enc_pop1", "enc_pop2", "dec_read_lower", "dec_read_lower_2"} => pt_i' = pt_i
         /\ state \notin {"enc_write_upper", "dec_push2"} => page_count' = page_count
         /\ state = "idle" =>
              \/ state' = "enc_pop1" /\ over_thresh
              \/ state' = "dec_read_upper" /\ ~over_thresh /\ under_thresh /\ page_count # 0
              \/ state' = "idle" /\ ~over_thresh
         /\ state = "enc_pop1" => state' = "enc_pop2" /\ pt_i' = <<data[0], pt_i[2]>>
         /\ state = "enc_pop2" => state' = "enc_begin" /\ pt_i' = <<pt_i[1], data[0]>>
         /\ state = "enc_begin" => state' = IF ready_o THEN "enc_wait" ELSE "enc_begin"
         /\ state = "enc_wait" => state' = IF valid_o THEN "enc_write_lower" ELSE "enc_wait"
         /\ state = "enc_write_lower" => state' = IF mem_rdy(in) THEN "enc_write_upper" ELSE state
         /\ state = "enc_write_upper" =>
              /\ mem_rdy(in) => /\ state' \in {"enc_pop1", "idle"} /\ page_count' = page_count + 1
                                /\ state' = "enc_pop1" => over_thresh
              /\ ~mem_rdy(in) => state' = state /\ page_count' = page_count
         /\ state = "dec_read_upper" =>
              /\ state' = IF mem_rdy(in) THEN "dec_read_lower" ELSE state
              /\ mem_rdy(in) => dec_read_last'
         /\ state = "dec_read_lower" =>
              /\ state' = IF mem_rdy(in) THEN "dec_read_lower_2" ELSE state
              /\ pt_i' = IF dec_read_last THEN <<mem_dout, pt_i[2]>> ELSE pt_i
              /\ ~dec_read_last'
         /\ state = "dec_read_lower_2" => state' = "dec_begin" /\ pt_i' = <<pt_i[1], mem_dout>>
         /\ state = "dec_begin" => state' = IF ready_o THEN "dec_wait" ELSE "dec_begin"
         /\ state = "dec_wait" => state' = IF valid_o THEN "dec_push1" ELSE "dec_wait"
         /\ state = "dec_push1" => state' = "dec_push2"
         /\ state = "dec_push2" => state' = "idle" /\ page_count' = page_count - 1
<1>. USE DEF State
<1>1. CASE Idle
  <2>1. over_thresh \in BOOLEAN /\ under_thresh \in BOOLEAN
    BY DEF over_thresh, under_thresh
  <2>. QED  BY <1>1, <2>1 DEF Idle
<1>2. CASE Handshake
  <2>1. pt_i' = pt_i /\ page_count' = page_count
    BY <1>2 DEF Handshake
  <2>2. CASE Goto("enc_begin", ready_o, "enc_wait")
    BY <2>1, <2>2 DEF Goto
  <2>3. CASE Goto("enc_wait", valid_o, "enc_write_lower")
    BY <2>1, <2>3 DEF Goto
  <2>4. CASE Goto("dec_begin", ready_o, "dec_wait")
    BY <2>1, <2>4 DEF Goto
  <2>5. CASE Goto("dec_wait", valid_o, "dec_push1")
    BY <2>1, <2>5 DEF Goto
  <2>6. CASE Goto("dec_push1", TRUE, "dec_push2")
    BY <2>1, <2>6 DEF Goto
  <2>. QED  BY <1>2, <2>2, <2>3, <2>4, <2>5, <2>6 DEF Handshake
<1>3. CASE EncPop1
  BY <1>3 DEF EncPop1, Goto, dout_bottom
<1>4. CASE EncPop2
  BY <1>4 DEF EncPop2, Goto, dout_bottom
<1>5. CASE EncWriteLower(in)
  BY <1>5 DEF EncWriteLower, Goto
<1>6. CASE EncWriteUpper(in)
  BY <1>6 DEF EncWriteUpper, Goto
<1>7. CASE DecReadUpper(in)
  BY <1>7 DEF DecReadUpper, Goto
<1>8. CASE DecReadLower(in)
  BY <1>8 DEF DecReadLower, Goto
<1>9. CASE DecReadLower2
  BY <1>9 DEF DecReadLower2, Goto
<1>10. CASE DecPush2
  BY <1>10 DEF DecPush2, Goto
<1>. QED  BY <1>1, <1>2, <1>3, <1>4, <1>5, <1>6, <1>7, <1>8, <1>9, <1>10 DEF FsmEdge

\* The memory port and the configuration registers.
LEMMA PortFacts ==
  ASSUME Open!IndInv, NEW in, Inputs(in), PortEdge(in), CfgEdge(in)
  PROVE  /\ RAS_ena' = RAS_ena
         /\ state # "idle" \/ over_thresh \/ page_count > 0 => base_addr' = base_addr /\ key_i' = key_i
         /\ state = "enc_write_lower" /\ mem_rdy(in) =>
              mem' = [mem EXCEPT ![base_addr][2 * page_count] = ct_o(0)]
         /\ state = "enc_write_upper" /\ mem_rdy(in) =>
              mem' = [mem EXCEPT ![base_addr][2 * page_count + 1] = ct_o(1)]
         /\ state = "dec_read_upper" /\ mem_rdy(in) => mem_dout' = Upper
         /\ state = "dec_read_lower" /\ mem_rdy(in) => mem_dout' = Lower
         /\ state \notin Writing \/ ~mem_rdy(in) => mem' = mem
<1>1. /\ state \in State /\ page_count \in Nat
      /\ cur_addr = 8 * page_count + Open!AddrOffset
  BY OpenFacts
<1>2. RAS_ena' = RAS_ena
  BY DEF Inputs, CfgEdge
<1>3. state # "idle" \/ over_thresh \/ page_count > 0 => base_addr' = base_addr /\ key_i' = key_i
  <2>. SUFFICES ASSUME state # "idle" \/ over_thresh \/ page_count > 0
                PROVE  base_addr' = base_addr /\ key_i' = key_i
    OBVIOUS
  <2>1. in.cfg.reg = "none"
    BY <1>1 DEF Inputs
  <2>. QED  BY <2>1 DEF CfgEdge
<1>4. port_en(in)
  BY DEF Inputs, port_en
<1>5. CASE state = "enc_write_lower"
  <2>1. mem_index = 2 * page_count /\ mem_din = ct_o(0)
    BY <1>1, <1>5 DEF mem_index, mem_din, Open!AddrOffset, Open!DecBusy
  <2>. QED  BY <1>2, <1>3, <1>4, <1>5, <2>1 DEF PortEdge, mem_wr, mem_rd, mem_rdy, memVars, Writing
<1>6. CASE state = "enc_write_upper"
  <2>1. mem_index = 2 * page_count + 1 /\ mem_din = ct_o(1)
    BY <1>1, <1>6 DEF mem_index, mem_din, Open!AddrOffset, Open!DecBusy
  <2>. QED  BY <1>2, <1>3, <1>4, <1>6, <2>1 DEF PortEdge, mem_wr, mem_rd, mem_rdy, memVars, Writing
<1>7. CASE state = "dec_read_upper"
  <2>1. mem_index = 2 * page_count - 1
    BY <1>1, <1>7 DEF mem_index, Open!AddrOffset, Open!DecBusy
  <2>. QED  BY <1>2, <1>3, <1>4, <1>7, <2>1 DEF PortEdge, mem_wr, mem_rd, mem_rdy, memVars, Writing, Upper
<1>8. CASE state = "dec_read_lower"
  <2>1. mem_index = 2 * page_count - 2
    BY <1>1, <1>8 DEF mem_index, Open!AddrOffset, Open!DecBusy
  <2>. QED  BY <1>2, <1>3, <1>4, <1>8, <2>1 DEF PortEdge, mem_wr, mem_rd, mem_rdy, memVars, Writing, Lower
<1>9. CASE state \notin {"enc_write_lower", "enc_write_upper", "dec_read_upper", "dec_read_lower"}
  BY <1>2, <1>3, <1>4, <1>9 DEF PortEdge, mem_wr, mem_rd, memVars, Writing
<1>. QED  BY <1>5, <1>6, <1>7, <1>8, <1>9

\* What is in the pages stays, whatever the port writes.
LEMMA PagesStay ==
  ASSUME Open!IndInv, NEW in, Inputs(in), PortEdge(in), CfgEdge(in),
         state # "idle" \/ over_thresh \/ page_count > 0
  PROVE  /\ base_addr' = base_addr /\ key_i' = key_i
         /\ \A i \in 0 .. 2 * page_count - 1 : mem'[base_addr][i] = mem[base_addr][i]
         /\ state = "enc_write_lower" /\ mem_rdy(in) => mem'[base_addr][2 * page_count] = ct_o(0)
         /\ state = "enc_write_upper" =>
              /\ mem'[base_addr][2 * page_count] = mem[base_addr][2 * page_count]
              /\ mem_rdy(in) => mem'[base_addr][2 * page_count + 1] = ct_o(1)
<1>1. /\ mem \in [Base -> [WordIndex -> MemWord]] /\ base_addr \in Base /\ page_count \in Nat
      /\ MaxPages \in Nat /\ page_count <= MaxPages
      /\ state \in Open!EncBusy => page_count < MaxPages
  BY OpenFacts, CrasAssumption
<1>2. base_addr' = base_addr /\ key_i' = key_i
  BY PortFacts
<1>3. \A i \in 0 .. 2 * page_count - 1 : i \in WordIndex
  BY <1>1 DEF WordIndex
<1>4. state \in Writing => 2 * page_count \in WordIndex /\ 2 * page_count + 1 \in WordIndex
  BY <1>1 DEF WordIndex, Writing, Open!EncBusy
<1>5. CASE state = "enc_write_lower" /\ mem_rdy(in)
  <2>1. mem' = [mem EXCEPT ![base_addr][2 * page_count] = ct_o(0)]
    BY <1>5, PortFacts
  <2>2. \A i \in WordIndex : mem'[base_addr][i] = IF i = 2 * page_count THEN ct_o(0) ELSE mem[base_addr][i]
    BY <2>1, <1>1
  <2>. QED  BY <1>1, <1>2, <1>3, <1>4, <1>5, <2>2 DEF Writing
<1>6. CASE state = "enc_write_upper" /\ mem_rdy(in)
  <2>1. mem' = [mem EXCEPT ![base_addr][2 * page_count + 1] = ct_o(1)]
    BY <1>6, PortFacts
  <2>2. \A i \in WordIndex : mem'[base_addr][i] = IF i = 2 * page_count + 1 THEN ct_o(1) ELSE mem[base_addr][i]
    BY <2>1, <1>1
  <2>. QED  BY <1>1, <1>2, <1>3, <1>4, <1>6, <2>2 DEF Writing
<1>7. CASE state \notin Writing \/ ~mem_rdy(in)
  <2>1. mem' = mem
    BY <1>7, PortFacts
  <2>. QED  BY <1>2, <1>7, <2>1 DEF Writing
<1>. QED  BY <1>5, <1>6, <1>7 DEF Writing

\* The words of the slots are plaintext.
LEMMA BottomPlain ==
  ASSUME Open!IndInv  PROVE data[0] \in Plain
BY OpenFacts, StackAssumption, CrasAssumption DEF Slot

\* The pair on its way out.
LEMMA EncryptsStep ==
  ASSUME Open!IndInv, Encrypts, NEW in, Inputs(in), Clock(in)
  PROVE  Encrypts'
<1>1. SimonEdge /\ FsmEdge(in) /\ PortEdge(in) /\ CfgEdge(in)
  BY DEF Clock
<1>2. /\ state \in State /\ scur \in SimonState /\ Open!Lockstep /\ data[0] \in Plain
      /\ pt_i \in MemWord \X MemWord
  BY OpenFacts, BottomPlain
<1>. USE DEF Encrypts, Writing
<1>3. CASE state \in {"idle", "dec_read_upper", "dec_read_lower", "dec_read_lower_2", "dec_begin",
                     "dec_wait", "dec_push1", "dec_push2"}
  <2>1. state' \in {"idle", "enc_pop1", "dec_read_upper", "dec_read_lower", "dec_read_lower_2", "dec_begin",
                     "dec_wait", "dec_push1", "dec_push2"}
    BY <1>1, <1>3, FsmFacts
  <2>. QED  BY <2>1
<1>4. CASE state = "enc_pop1"
  <2>1. state' = "enc_pop2" /\ pt_i' = <<data[0], pt_i[2]>>
    BY <1>1, <1>4, FsmFacts
  <2>. QED  BY <1>2, <2>1
<1>5. CASE state = "enc_pop2"
  <2>1. state' = "enc_begin" /\ pt_i' = <<pt_i[1], data[0]>>
    BY <1>1, <1>5, FsmFacts
  <2>2. scur' = "S_IDLE"
    BY <1>1, <1>2, <1>5, SimonFacts DEF Open!Lockstep, valid_i
  <2>. QED  BY <1>2, <1>5, <2>1, <2>2
<1>6. CASE state = "enc_begin"
  <2>1. pt_i' = pt_i /\ key_i' = key_i /\ state' = IF ready_o THEN "enc_wait" ELSE "enc_begin"
    BY <1>1, <1>6, FsmFacts, PortFacts
  <2>2. CASE ready_o
    <3>1. scur = "S_ENC_RUN"
      BY <1>2, <1>6, <2>2 DEF Open!Lockstep
    <3>2. /\ skey' = skey
          /\ \/ scur' = "S_ENC_RUN" /\ pt_r' = pt_r
             \/ scur' = "S_OUTPUT" /\ pt_r' = Encrypt(pt_r, skey)
      BY <1>1, <1>2, <3>1, SimonFacts
    <3>3. Encrypt(pt_r, skey) = CipherOf(pt_i, key_i)
      BY <1>6, <3>1 DEF Encrypt
    <3>4. CipherOf(pt_i, key_i)' = CipherOf(pt_i, key_i)
      BY <2>1 DEF CipherOf
    <3>. QED  BY <1>6, <2>1, <2>2, <3>1, <3>2, <3>3, <3>4 DEF valid_o
  <2>3. CASE ~ready_o
    <3>1. scur \in {"S_IDLE", "S_ENC_PRE"}
      BY <1>2, <1>6, <2>3 DEF Open!Lockstep
    <3>2. scur' = "S_ENC_RUN" => pt_r' = pt_i /\ skey' = key_i
      BY <1>1, <1>2, <3>1, SimonFacts
    <3>. QED  BY <1>6, <2>1, <2>3, <3>2
  <2>. QED  BY <2>2, <2>3
<1>7. CASE state = "enc_wait"
  <2>1. pt_i' = pt_i /\ key_i' = key_i /\ state' = IF valid_o THEN "enc_write_lower" ELSE "enc_wait"
    BY <1>1, <1>7, FsmFacts, PortFacts
  <2>2. CipherOf(pt_i, key_i)' = CipherOf(pt_i, key_i)
    BY <2>1 DEF CipherOf
  <2>3. CASE valid_o
    <3>1. pt_r' = pt_r
      BY <1>1, <1>2, <2>3, SimonFacts DEF valid_o
    <3>. QED  BY <1>7, <2>1, <2>2, <2>3, <3>1
  <2>4. CASE ~valid_o
    <3>1. scur = "S_ENC_RUN"
      BY <1>2, <1>7, <2>4 DEF Open!Lockstep, valid_o
    <3>2. /\ skey' = skey
          /\ \/ scur' = "S_ENC_RUN" /\ pt_r' = pt_r
             \/ scur' = "S_OUTPUT" /\ pt_r' = Encrypt(pt_r, skey)
      BY <1>1, <1>2, <3>1, SimonFacts
    <3>3. Encrypt(pt_r, skey) = CipherOf(pt_i, key_i)
      BY <1>7, <3>1 DEF Encrypt
    <3>. QED  BY <1>7, <2>1, <2>2, <2>4, <3>1, <3>2, <3>3 DEF valid_o
  <2>. QED  BY <2>3, <2>4
<1>8. CASE state \in Writing
  <2>1. /\ pt_i' = pt_i /\ base_addr' = base_addr /\ key_i' = key_i
        /\ state' \in {"enc_write_lower", "enc_write_upper", "enc_pop1", "idle"}
    BY <1>1, <1>8, FsmFacts, PortFacts
  <2>2. CipherOf(pt_i, key_i)' = CipherOf(pt_i, key_i)
    BY <2>1 DEF CipherOf
  <2>3. pt_r' = pt_r
    BY <1>1, <1>2, <1>8, SimonFacts DEF Open!Lockstep
  <2>4. state' = "enc_write_upper" =>
          /\ page_count' = page_count
          /\ mem'[base_addr][2 * page_count] = CipherOf(pt_i, key_i)[1]
    <3>1. CASE state = "enc_write_lower"
      BY <1>1, <1>8, <3>1, FsmFacts, PagesStay DEF ct_o
    <3>2. CASE state = "enc_write_upper"
      BY <1>1, <1>8, <3>2, FsmFacts, PagesStay
    <3>. QED  BY <1>8, <3>1, <3>2
  <2>. QED  BY <1>8, <2>1, <2>2, <2>3, <2>4
<1>. QED  BY <1>2, <1>3, <1>4, <1>5, <1>6, <1>7, <1>8 DEF State

\* The pair on its way back.
LEMMA DecryptsStep ==
  ASSUME Open!IndInv, Decrypts, NEW in, Inputs(in), Clock(in)
  PROVE  Decrypts'
<1>1. SimonEdge /\ FsmEdge(in) /\ PortEdge(in) /\ CfgEdge(in)
  BY DEF Clock
<1>2. /\ state \in State /\ scur \in SimonState /\ Open!Lockstep
      /\ pt_i \in MemWord \X MemWord /\ page_count \in Nat
      /\ dec_read_last \in BOOLEAN
  BY OpenFacts
<1>. USE DEF Decrypts, Pushing
<1>3. CASE state \notin {"dec_read_upper", "dec_read_lower", "dec_read_lower_2", "dec_begin",
                        "dec_wait", "dec_push1"}
  <2>1. state' \notin {"dec_read_lower", "dec_read_lower_2", "dec_begin", "dec_wait",
                       "dec_push1", "dec_push2"}
    BY <1>1, <1>2, <1>3, FsmFacts DEF State
  <2>. QED  BY <2>1
<1>4. CASE state \in {"dec_read_upper", "dec_read_lower", "dec_read_lower_2", "dec_begin",
                      "dec_wait", "dec_push1"}
  <2>1. page_count > 0
    BY <1>4, OpenFacts DEF Open!DecRead, Open!DecBusy
  <2>2. page_count' = page_count /\ base_addr' = base_addr /\ key_i' = key_i
    BY <1>1, <1>4, FsmFacts, PortFacts
  <2>3. Upper' = Upper /\ Lower' = Lower
    <3>1. \A i \in 0 .. 2 * page_count - 1 : mem'[base_addr][i] = mem[base_addr][i]
      BY <1>1, <1>4, PagesStay
    <3>2. 2 * page_count - 1 \in 0 .. 2 * page_count - 1 /\ 2 * page_count - 2 \in 0 .. 2 * page_count - 1
      BY <1>2, <2>1
    <3>. QED  BY <2>2, <3>1, <3>2 DEF Upper, Lower
  <2>4. Decrypt(<<Upper, Lower>>, key_i)' = Decrypt(<<Upper, Lower>>, key_i)
    BY <2>2, <2>3 DEF Decrypt
  <2>5. CASE state = "dec_read_upper"
    BY <1>1, <2>3, <2>5, FsmFacts, PortFacts
  <2>6. CASE state = "dec_read_lower"
    BY <1>1, <1>2, <2>3, <2>6, FsmFacts, PortFacts
  <2>7. CASE state = "dec_read_lower_2"
    <3>1. state' = "dec_begin" /\ pt_i' = <<pt_i[1], mem_dout>>
      BY <1>1, <2>7, FsmFacts
    <3>2. scur' = "S_IDLE"
      BY <1>1, <1>2, <2>7, SimonFacts DEF Open!Lockstep, valid_i
    <3>. QED  BY <2>3, <2>7, <3>1, <3>2
  <2>8. CASE state = "dec_begin"
    <3>1. pt_i' = pt_i /\ state' = IF ready_o THEN "dec_wait" ELSE "dec_begin"
      BY <1>1, <2>8, FsmFacts
    <3>2. CASE ready_o
      <4>1. scur = "S_DEC_RUN"
        BY <1>2, <2>8, <3>2 DEF Open!Lockstep
      <4>2. /\ skey' = skey
            /\ \/ scur' = "S_DEC_RUN" /\ pt_r' = pt_r
               \/ scur' = "S_OUTPUT" /\ pt_r' = Decrypt(pt_r, skey)
        BY <1>1, <1>2, <4>1, SimonFacts
      <4>. QED  BY <2>2, <2>3, <2>4, <2>8, <3>1, <3>2, <4>1, <4>2 DEF valid_o
    <3>3. CASE ~ready_o
      <4>1. scur \in {"S_IDLE", "S_DEC_PRE_KEY", "S_DEC_KEY_RUN", "S_DEC_PRE"}
        BY <1>2, <2>8, <3>3 DEF Open!Lockstep
      <4>2. /\ scur' \in {"S_DEC_KEY_RUN", "S_DEC_PRE"} => skey' = key_i
            /\ scur' = "S_DEC_RUN" => pt_r' = pt_i /\ skey' = key_i
        BY <1>1, <1>2, <2>8, <4>1, SimonFacts
      <4>. QED  BY <2>2, <2>3, <2>8, <3>1, <3>3, <4>2
    <3>. QED  BY <3>2, <3>3
  <2>9. CASE state = "dec_wait"
    <3>1. state' = IF valid_o THEN "dec_push1" ELSE "dec_wait"
      BY <1>1, <2>9, FsmFacts
    <3>2. CASE valid_o
      <4>1. pt_r' = pt_r
        BY <1>1, <1>2, <3>2, SimonFacts DEF valid_o
      <4>. QED  BY <2>4, <2>9, <3>1, <3>2, <4>1
    <3>3. CASE ~valid_o
      <4>1. scur = "S_DEC_RUN"
        BY <1>2, <2>9, <3>3 DEF Open!Lockstep, valid_o
      <4>2. /\ skey' = skey
            /\ \/ scur' = "S_DEC_RUN" /\ pt_r' = pt_r
               \/ scur' = "S_OUTPUT" /\ pt_r' = Decrypt(pt_r, skey)
        BY <1>1, <1>2, <4>1, SimonFacts
      <4>. QED  BY <2>2, <2>3, <2>4, <2>9, <3>1, <3>3, <4>1, <4>2 DEF valid_o
    <3>. QED  BY <3>2, <3>3
  <2>10. CASE state = "dec_push1"
    <3>1. state' = "dec_push2"
      BY <1>1, <2>10, FsmFacts
    <3>2. pt_r' = pt_r
      BY <1>1, <1>2, <2>10, SimonFacts DEF Open!Lockstep, valid_i
    <3>. QED  BY <2>4, <2>10, <3>1, <3>2
  <2>. QED  BY <1>4, <2>5, <2>6, <2>7, <2>8, <2>9, <2>10
<1>. QED  BY <1>3, <1>4

------------------------------------------------------------------------------
(* The slots as a sequence, the bottom first. *)

Recs == [data : [Slot -> Word], cnt : 0 .. DEPTH, mismatch : BOOLEAN]

Filled(s) == [i \in 1 .. s.cnt |-> s.data[i - 1]]

LEMMA FilledType ==
  ASSUME NEW s \in Recs
  PROVE  Filled(s) \in Seq(Word) /\ Len(Filled(s)) = s.cnt /\ s.cnt \in Nat
<1>1. s.cnt \in Nat /\ s.cnt <= DEPTH /\ DEPTH \in Nat /\ s.data \in [Slot -> Word]
  BY StackAssumption DEF Recs
<1>2. \A i \in 1 .. s.cnt : s.data[i - 1] \in Word
  BY <1>1 DEF Slot
<1>. QED  BY <1>1, <1>2 DEF Filled

\* A call.
LEMMA PushTop ==
  ASSUME NEW s \in Recs, NEW w \in Word, s.cnt < DEPTH
  PROVE  /\ stack_push(s, w) \in Recs
         /\ Filled(stack_push(s, w)) = Append(Filled(s), w)
<1>. DEFINE t == stack_push(s, w)
<1>1. /\ s.cnt \in Nat /\ DEPTH \in Nat /\ s.data \in [Slot -> Word]
      /\ Filled(s) \in Seq(Word) /\ Len(Filled(s)) = s.cnt
  BY StackAssumption, FilledType DEF Recs
<1>2. t.cnt = s.cnt + 1 /\ t.data = Store(s.data, s.cnt, w) /\ t.mismatch = s.mismatch
  BY DEF stack_push
<1>3. t \in Recs
  BY <1>1 DEF stack_push, Recs, Store
<1>. HIDE DEF t
<1>4. Filled(t) \in Seq(Word) /\ Len(Filled(t)) = s.cnt + 1
  BY <1>2, <1>3, FilledType
<1>5. Append(Filled(s), w) \in Seq(Word) /\ Len(Append(Filled(s), w)) = s.cnt + 1
  BY <1>1
<1>6. ASSUME NEW i \in 1 .. s.cnt + 1  PROVE Filled(t)[i] = Append(Filled(s), w)[i]
  <2>1. i - 1 \in Slot
    BY <1>1 DEF Slot
  <2>2. Filled(t)[i] = IF i - 1 = s.cnt THEN w ELSE s.data[i - 1]
    BY <1>1, <1>2, <2>1 DEF Filled, Store
  <2>3. Append(Filled(s), w)[i] = IF i = s.cnt + 1 THEN w ELSE Filled(s)[i]
    BY <1>1
  <2>. QED  BY <1>1, <2>2, <2>3 DEF Filled
<1>. QED  BY <1>3, <1>4, <1>5, <1>6, SeqEqual DEF t

\* A return.
LEMMA PopTop ==
  ASSUME NEW s \in Recs, NEW w \in Word, NEW oob, s.cnt > 0
  PROVE  LET t == stack_pop(s, w, oob)
         IN  /\ t \in Recs
             /\ Filled(t) = SubSeq(Filled(s), 1, s.cnt - 1)
             /\ t.mismatch = (s.mismatch \/ Filled(s)[s.cnt] # w)
<1>. DEFINE t == stack_pop(s, w, oob)
<1>1. /\ s.cnt \in Nat /\ s.cnt <= DEPTH /\ DEPTH \in Nat /\ s.data \in [Slot -> Word]
      /\ Filled(s) \in Seq(Word) /\ Len(Filled(s)) = s.cnt
  BY StackAssumption, FilledType DEF Recs
<1>2. s.cnt - 1 \in Slot
  BY <1>1 DEF Slot
<1>3. /\ t.cnt = s.cnt - 1 /\ t.data = Store(s.data, s.cnt - 1, Zero)
      /\ t.mismatch = (s.mismatch \/ s.data[s.cnt - 1] # w)
  BY <1>2 DEF stack_pop
<1>4. t \in Recs
  <2>1. t = [data |-> t.data, cnt |-> t.cnt, mismatch |-> t.mismatch]
    BY DEF stack_pop
  <2>2. t.data \in [Slot -> Word]
    BY <1>1, <1>3, StackAssumption DEF Store
  <2>3. t.cnt \in 0 .. DEPTH /\ t.mismatch \in BOOLEAN
    BY <1>1, <1>3 DEF Recs
  <2>. QED  BY <2>1, <2>2, <2>3 DEF Recs
<1>. HIDE DEF t
<1>5. Filled(t) \in Seq(Word) /\ Len(Filled(t)) = s.cnt - 1
  BY <1>3, <1>4, FilledType
<1>6. /\ SubSeq(Filled(s), 1, s.cnt - 1) \in Seq(Word)
      /\ Len(SubSeq(Filled(s), 1, s.cnt - 1)) = s.cnt - 1
  BY <1>1
<1>7. ASSUME NEW i \in 1 .. s.cnt - 1  PROVE Filled(t)[i] = SubSeq(Filled(s), 1, s.cnt - 1)[i]
  <2>1. i - 1 \in Slot /\ i - 1 # s.cnt - 1
    BY <1>1 DEF Slot
  <2>2. Filled(t)[i] = s.data[i - 1]
    BY <1>1, <1>3, <2>1 DEF Filled, Store
  <2>3. SubSeq(Filled(s), 1, s.cnt - 1)[i] = Filled(s)[i]
    BY <1>1
  <2>. QED  BY <1>1, <2>2, <2>3 DEF Filled
<1>8. Filled(s)[s.cnt] = s.data[s.cnt - 1]
  BY <1>1 DEF Filled
<1>9. Filled(t) = SubSeq(Filled(s), 1, s.cnt - 1)
  BY <1>5, <1>6, <1>7, SeqEqual
<1>. QED  BY <1>3, <1>4, <1>8, <1>9 DEF t

\* A refill.
LEMMA PushBottom ==
  ASSUME NEW s \in Recs, NEW w \in Word, s.cnt < DEPTH
  PROVE  /\ stack_push_bottom(s, w) \in Recs
         /\ Filled(stack_push_bottom(s, w)) = <<w>> \o Filled(s)
<1>. DEFINE t == stack_push_bottom(s, w)
<1>1. /\ s.cnt \in Nat /\ DEPTH \in Nat /\ s.data \in [Slot -> Word]
      /\ Filled(s) \in Seq(Word) /\ Len(Filled(s)) = s.cnt
  BY StackAssumption, FilledType DEF Recs
<1>2. /\ t.cnt = s.cnt + 1 /\ t.mismatch = s.mismatch
      /\ t.data = [i \in Slot |-> IF i = 0 THEN w ELSE s.data[i - 1]]
  BY DEF stack_push_bottom
<1>3. t \in Recs
  <2>1. \A i \in Slot : i # 0 => i - 1 \in Slot
    BY <1>1 DEF Slot
  <2>. QED  BY <1>1, <2>1 DEF stack_push_bottom, Recs
<1>. HIDE DEF t
<1>4. Filled(t) \in Seq(Word) /\ Len(Filled(t)) = s.cnt + 1
  BY <1>2, <1>3, FilledType
<1>5. <<w>> \o Filled(s) \in Seq(Word) /\ Len(<<w>> \o Filled(s)) = s.cnt + 1
  BY <1>1
<1>6. ASSUME NEW i \in 1 .. s.cnt + 1  PROVE Filled(t)[i] = (<<w>> \o Filled(s))[i]
  <2>1. i - 1 \in Slot
    BY <1>1 DEF Slot
  <2>2. Filled(t)[i] = IF i = 1 THEN w ELSE s.data[i - 2]
    BY <1>1, <1>2, <2>1 DEF Filled
  <2>3. (<<w>> \o Filled(s))[i] = IF i = 1 THEN w ELSE Filled(s)[i - 1]
    BY <1>1
  <2>. QED  BY <1>1, <2>2, <2>3 DEF Filled
<1>. QED  BY <1>3, <1>4, <1>5, <1>6, SeqEqual DEF t

\* A spill.
LEMMA PopBottom ==
  ASSUME NEW s \in Recs, s.cnt > 0
  PROVE  /\ stack_pop_bottom(s) \in Recs
         /\ Filled(s) = <<s.data[0]>> \o Filled(stack_pop_bottom(s))
<1>. DEFINE t == stack_pop_bottom(s)
<1>1. /\ s.cnt \in Nat /\ s.cnt <= DEPTH /\ DEPTH \in Nat /\ s.data \in [Slot -> Word]
      /\ Filled(s) \in Seq(Word) /\ Len(Filled(s)) = s.cnt
  BY StackAssumption, FilledType DEF Recs
<1>2. /\ t.cnt = s.cnt - 1 /\ t.mismatch = s.mismatch
      /\ t.data = [i \in Slot |-> IF i = DEPTH - 1 THEN Zero ELSE s.data[i + 1]]
  BY DEF stack_pop_bottom
<1>3. t \in Recs
  <2>1. \A i \in Slot : i # DEPTH - 1 => i + 1 \in Slot
    BY <1>1 DEF Slot
  <2>2. t.data \in [Slot -> Word]
    BY <1>1, <1>2, <2>1, StackAssumption
  <2>3. t.cnt \in 0 .. DEPTH /\ t.mismatch \in BOOLEAN
    BY <1>1, <1>2 DEF Recs
  <2>4. t = [data |-> t.data, cnt |-> t.cnt, mismatch |-> t.mismatch]
    BY DEF stack_pop_bottom
  <2>. QED  BY <2>2, <2>3, <2>4 DEF Recs
<1>. HIDE DEF t
<1>4. Filled(t) \in Seq(Word) /\ Len(Filled(t)) = s.cnt - 1
  BY <1>2, <1>3, FilledType
<1>5. s.data[0] \in Word
  BY <1>1 DEF Slot
<1>6. <<s.data[0]>> \o Filled(t) \in Seq(Word) /\ Len(<<s.data[0]>> \o Filled(t)) = s.cnt
  BY <1>1, <1>4, <1>5
<1>7. ASSUME NEW i \in 1 .. s.cnt  PROVE Filled(s)[i] = (<<s.data[0]>> \o Filled(t))[i]
  <2>1. i - 1 \in Slot /\ Filled(s)[i] = s.data[i - 1]
    BY <1>1 DEF Slot, Filled
  <2>2. CASE i = 1
    BY <1>4, <1>5, <2>1, <2>2
  <2>3. CASE i # 1
    <3>1. (<<s.data[0]>> \o Filled(t))[i] = Filled(t)[i - 1]
      BY <1>4, <1>1, <2>3
    <3>2. i - 2 \in Slot /\ i - 2 # DEPTH - 1
      BY <1>1, <2>3 DEF Slot
    <3>3. Filled(t)[i - 1] = t.data[i - 2]
      BY <1>1, <1>2, <2>3 DEF Filled
    <3>4. t.data[i - 2] = s.data[(i - 2) + 1]
      BY ONLY <1>2, <3>2
    <3>5. (i - 2) + 1 = i - 1
      OBVIOUS
    <3>. QED  BY ONLY <2>1, <3>1, <3>3, <3>4, <3>5
  <2>. QED  BY <2>2, <2>3
<1>. QED  BY <1>1, <1>3, <1>6, <1>7, SeqEqual DEF t

Called(in)   == in.branch /\ rdy(in) /\ ~mismatch
Returned(in) == in.ret /\ rdy(in) /\ ~mismatch /\ ~empty

\* The slots between what an edge does at the top and what it does at the bottom.
Top(in) ==
  IF Called(in) THEN Append(InStack, in.addr)
  ELSE IF Returned(in) THEN SubSeq(InStack, 1, cnt - 1)
  ELSE InStack

TopCnt(in) == IF Called(in) THEN cnt + 1 ELSE IF Returned(in) THEN cnt - 1 ELSE cnt

\* At the top: a call or a return that is not stalled, up to the alarm.
LEMMA TopFacts ==
  ASSUME Open!IndInv, cnt <= DEPTH, RAS_ena, NEW in \in Open!Input, NEW oob
  PROVE  LET s == TopOp([data |-> data, cnt |-> cnt, mismatch |-> mismatch],
                        RAS_ena /\ rdy(in), rdy(in) /\ in.branch, rdy(in) /\ in.ret,
                        IF rdy(in) THEN in.addr ELSE Zero, oob)
         IN  /\ s \in Recs /\ Filled(s) = Top(in) /\ s.cnt = TopCnt(in)
             /\ s.mismatch = (mismatch \/ (Returned(in) /\ InStack[cnt] # in.addr))
             /\ cnt >= 2 => s.data[0] = data[0]
<1>. DEFINE s0 == [data |-> data, cnt |-> cnt, mismatch |-> mismatch]
            s == TopOp(s0, RAS_ena /\ rdy(in), rdy(in) /\ in.branch, rdy(in) /\ in.ret,
                       IF rdy(in) THEN in.addr ELSE Zero, oob)
<1>1. /\ data \in [Slot -> Word] /\ cnt \in Nat /\ mismatch \in BOOLEAN /\ DEPTH \in Nat
  BY OpenFacts, StackAssumption
<1>2. /\ in.addr \in Word /\ in.branch \in BOOLEAN /\ in.ret \in BOOLEAN /\ ~(in.branch /\ in.ret)
  BY ProgramAssumption, StackAssumption, CrasAssumption DEF Open!Input
<1>3. s0 \in Recs /\ s0.cnt = cnt /\ s0.data = data /\ s0.mismatch = mismatch
  BY <1>1 DEF Recs
<1>4. Filled(s0) = InStack
  BY <1>3 DEF Filled, InStack
<1>5. rdy(in) \in BOOLEAN /\ (rdy(in) => cnt # DEPTH) /\ (full <=> cnt = DEPTH) /\ (empty <=> cnt = 0)
  BY DEF rdy, stalled, full, empty
<1>. HIDE DEF s0
<1>6. CASE Called(in)
  <2>1. ~mismatch /\ rdy(in) /\ in.branch /\ ~full
    BY <1>5, <1>6 DEF Called
  <2>2. s = stack_push(s0, in.addr)
    BY <2>1 DEF TopOp
  <2>3. s \in Recs /\ Filled(s) = Append(InStack, in.addr)
    BY <1>1, <1>2, <1>3, <1>4, <1>5, <2>1, <2>2, PushTop
  <2>4. s.cnt = cnt + 1 /\ s.mismatch = mismatch /\ s.data = Store(data, cnt, in.addr)
    BY <1>3, <2>2 DEF stack_push
  <2>5. cnt >= 2 => s.data[0] = data[0]
    BY <1>1, <2>4 DEF Store, Slot
  <2>6. ~Returned(in)
    BY <1>2, <2>1 DEF Returned
  <2>7. Filled(s) = Top(in) /\ s.cnt = TopCnt(in)
    BY <1>6, <2>3, <2>4 DEF Top, TopCnt
  <2>8. s.mismatch = (mismatch \/ (Returned(in) /\ InStack[cnt] # in.addr))
    BY <1>1, <2>4, <2>6
  <2>. QED  BY <2>3, <2>5, <2>7, <2>8 DEF s0
<1>7. CASE ~Called(in) /\ Returned(in)
  <2>1. ~mismatch /\ rdy(in) /\ in.ret /\ ~empty /\ ~in.branch
    BY <1>2, <1>7 DEF Returned
  <2>2. s = stack_pop(s0, in.addr, oob)
    BY <2>1 DEF TopOp
  <2>3. cnt > 0
    BY <1>1, <1>5, <2>1
  <2>4. /\ s \in Recs /\ Filled(s) = SubSeq(InStack, 1, cnt - 1)
        /\ s.mismatch = (mismatch \/ InStack[cnt] # in.addr)
    BY <1>2, <1>3, <1>4, <2>2, <2>3, PopTop
  <2>5. s.cnt = cnt - 1 /\ s.data = Store(data, cnt - 1, Zero)
    BY <1>3, <2>2 DEF stack_pop
  <2>6. cnt >= 2 => s.data[0] = data[0]
    BY <1>1, <2>5 DEF Store, Slot
  <2>7. Filled(s) = Top(in) /\ s.cnt = TopCnt(in)
    BY <1>7, <2>4, <2>5 DEF Top, TopCnt
  <2>8. s.mismatch = (mismatch \/ (Returned(in) /\ InStack[cnt] # in.addr))
    BY <1>7, <2>4
  <2>. QED  BY <2>4, <2>6, <2>7, <2>8 DEF s0
<1>8. CASE ~Called(in) /\ ~Returned(in)
  <2>1. s = s0
    BY <1>5, <1>8 DEF TopOp, Called, Returned
  <2>2. Filled(s) = Top(in) /\ s.cnt = TopCnt(in) /\ s.data = data
    BY <1>3, <1>4, <1>8, <2>1 DEF Top, TopCnt
  <2>3. s.mismatch = (mismatch \/ (Returned(in) /\ InStack[cnt] # in.addr))
    BY <1>1, <1>3, <1>8, <2>1
  <2>. QED  BY <1>3, <2>1, <2>2, <2>3 DEF s0
<1>. QED  BY <1>6, <1>7, <1>8

\* An edge of the slots, with room for what a refill brings and entries for
\* what a spill takes.
LEMMA StackStep ==
  ASSUME Open!IndInv, cnt <= DEPTH, RAS_ena, NEW in \in Open!Input, StackEdge(in),
         push_bot => cnt < DEPTH /\ (in.branch => cnt < DEPTH - 2),
         pop_bot => cnt >= 2
  PROVE  /\ mismatch' = (mismatch \/ (Returned(in) /\ InStack[cnt] # in.addr))
         /\ pop_bot  => Top(in) = <<data[0]>> \o InStack' /\ cnt' = TopCnt(in) - 1
         /\ push_bot => InStack' = <<din_bot>> \o Top(in) /\ cnt' = TopCnt(in) + 1
         /\ ~pop_bot /\ ~push_bot => InStack' = Top(in) /\ cnt' = TopCnt(in)
         /\ InStack \in Seq(Word) /\ Len(InStack) = cnt
         /\ InStack' \in Seq(Word) /\ Len(InStack') = cnt'
         /\ Top(in) \in Seq(Word) /\ cnt' \in 0 .. DEPTH
<1>. DEFINE s0 == [data |-> data, cnt |-> cnt, mismatch |-> mismatch]
            s1(oob) == TopOp(s0, RAS_ena /\ rdy(in), rdy(in) /\ in.branch, rdy(in) /\ in.ret,
                             IF rdy(in) THEN in.addr ELSE Zero, oob)
            s2(oob) == BottomOp(s1(oob), rdy(in) /\ in.branch, push_bot, pop_bot, din_bot)
<1>1. PICK oob : data' = s2(oob).data /\ cnt' = s2(oob).cnt /\ mismatch' = s2(oob).mismatch
  BY DEF StackEdge, StackClock
<1>. DEFINE t == s1(oob)
            u == s2(oob)
<1>2. /\ t \in Recs /\ Filled(t) = Top(in) /\ t.cnt = TopCnt(in)
      /\ t.mismatch = (mismatch \/ (Returned(in) /\ InStack[cnt] # in.addr))
      /\ cnt >= 2 => t.data[0] = data[0]
  BY TopFacts
<1>3. u = BottomOp(t, rdy(in) /\ in.branch, push_bot, pop_bot, din_bot)
  OBVIOUS
<1>4. data' = u.data /\ cnt' = u.cnt /\ mismatch' = u.mismatch
  BY <1>1
<1>. HIDE DEF s0, s1, s2, t, u
<1>5. /\ cnt \in Nat /\ DEPTH \in Nat /\ data \in [Slot -> Word] /\ mismatch \in BOOLEAN
      /\ in.branch \in BOOLEAN /\ state \in State
  BY OpenFacts, StackAssumption DEF Open!Input
<1>6. push_bot \in BOOLEAN /\ pop_bot \in BOOLEAN /\ ~(push_bot /\ pop_bot)
  BY DEF push_bot, pop_bot
<1>7. (full <=> cnt = DEPTH) /\ (empty <=> cnt = 0)
  BY DEF full, empty
<1>8. Called(in) => in.branch
  BY DEF Called
<1>9. TopCnt(in) \in {cnt, cnt - 1} \/ (in.branch /\ TopCnt(in) = cnt + 1)
  BY <1>8 DEF TopCnt
<1>10. InStack \in Seq(Word) /\ Len(InStack) = cnt
  <2>1. [data |-> data, cnt |-> cnt, mismatch |-> mismatch] \in Recs
    BY <1>5 DEF Recs
  <2>. QED  BY <2>1, FilledType DEF Filled, InStack
<1>11. Filled(t) \in Seq(Word)
  BY <1>2, FilledType
<1>12. u \in Recs => /\ InStack' = Filled(u) /\ InStack' \in Seq(Word) /\ Len(InStack') = cnt'
                     /\ cnt' \in 0 .. DEPTH
  BY <1>4, FilledType DEF Filled, InStack, Recs
<1>13. CASE push_bot
  <2>1. ~full /\ ~(t.cnt = DEPTH - 1 /\ (rdy(in) /\ in.branch))
    <3>1. in.branch => TopCnt(in) < DEPTH - 1
      BY <1>5, <1>9, <1>13
    <3>2. ~full
      BY <1>5, <1>7, <1>13
    <3>3. t.cnt = DEPTH - 1 => ~in.branch
      BY <1>2, <1>5, <3>1
    <3>. QED  BY <3>2, <3>3
  <2>2. u = stack_push_bottom(t, din_bot)
    BY <1>3, <1>13, <2>1 DEF BottomOp
  <2>3. t.cnt < DEPTH
    BY <1>2, <1>5, <1>9, <1>13
  <2>4. din_bot \in Word
    <3>1. pt_r \in Plain \X Plain
      BY <1>13 DEF Open!IndInv, Open!Results, push_bot
    <3>. QED  BY <1>13, <3>1, CrasAssumption DEF push_bot, din_bot, ct_o
  <2>5. u \in Recs /\ Filled(u) = <<din_bot>> \o Filled(t)
    BY <1>2, <2>2, <2>3, <2>4, PushBottom
  <2>6. u.cnt = t.cnt + 1 /\ u.mismatch = t.mismatch
    BY <2>2 DEF stack_push_bottom
  <2>. QED  BY <1>2, <1>4, <1>6, <1>10, <1>11, <1>12, <1>13, <2>5, <2>6
<1>14. CASE pop_bot
  <2>1. u = stack_pop_bottom(t)
    BY <1>3, <1>5, <1>6, <1>7, <1>14 DEF BottomOp
  <2>2. t.cnt > 0 /\ t.data[0] = data[0]
    BY <1>2, <1>5, <1>9, <1>14
  <2>3. u \in Recs /\ Filled(t) = <<data[0]>> \o Filled(u)
    BY <1>2, <2>1, <2>2, PopBottom
  <2>4. u.cnt = t.cnt - 1 /\ u.mismatch = t.mismatch
    BY <2>1 DEF stack_pop_bottom
  <2>. QED  BY <1>2, <1>4, <1>6, <1>10, <1>11, <1>12, <1>14, <2>3, <2>4
<1>15. CASE ~push_bot /\ ~pop_bot
  <2>1. u = t
    BY <1>3, <1>15 DEF BottomOp
  <2>. QED  BY <1>2, <1>4, <1>10, <1>11, <1>12, <1>15, <2>1
<1>. QED  BY <1>13, <1>14, <1>15

------------------------------------------------------------------------------
(* The pages and the pair as a sequence. *)

\* What is spilled comes back.
LEMMA DecryptCipher ==
  ASSUME NEW b \in Plain \X Plain, NEW k \in Key
  PROVE  Decrypt(<<CipherOf(b, k)[2], CipherOf(b, k)[1]>>, k) = <<b[2], b[1]>>
<1>. DEFINE c == <<CipherOf(b, k)[2], CipherOf(b, k)[1]>>
<1>1. c \in Cipher \X Cipher /\ c[1].block = b
  BY DEF CipherOf, Cipher
<1>2. c = <<CipherOf(c[1].block, k)[2], CipherOf(c[1].block, k)[1]>>
  BY <1>1
<1>. HIDE DEF c
<1>3. Decrypt(c, k) = <<c[1].block[2], c[1].block[1]>>
  BY <1>1, <1>2 DEF Decrypt
<1>. QED  BY <1>1, <1>3 DEF c

LEMMA DecryptPlain ==
  ASSUME NEW c, NEW k \in Key
  PROVE  Decrypt(c, k) \in Plain \X Plain
<1>1. Decrypt(c, k) = Open!Decrypt(c, k)
  BY DEF Decrypt, CipherOf, Cipher, Open!Decrypt, Open!CipherOf, Open!Cipher
<1>. QED  BY <1>1, OpenAssumptions, Open!DecryptType

\* Entry i of the pages.
PageWord(i) ==
  LET k == (i - 1) \div 2
      p == Decrypt(<<mem[base_addr][2 * k + 1], mem[base_addr][2 * k]>>, key_i)
  IN  IF i % 2 = 1 THEN p[2] ELSE p[1]

OffChip == InMemory \o InFlight

MemoryIs ==
  /\ Pages \in Nat /\ page_count \in Nat /\ Pages <= page_count
  /\ Pages = IF state = "dec_push2" THEN page_count - 1 ELSE page_count
  /\ InMemory \in Seq(Plain) /\ Len(InMemory) = 2 * Pages
  /\ \A i \in 1 .. 2 * Pages : InMemory[i] = PageWord(i)

LEMMA InMemoryFacts == Open!IndInv => MemoryIs
<1>. SUFFICES ASSUME Open!IndInv  PROVE MemoryIs
  OBVIOUS
<1>1. page_count \in Nat /\ (state = "dec_push2" => page_count > 0) /\ key_i \in Key
  BY OpenFacts DEF Open!DecBusy
<1>2. Pages \in Nat /\ Pages <= page_count
  BY <1>1 DEF Pages
<1>3. \A i : PageWord(i) \in Plain
  <2>. TAKE i
  <2>. DEFINE p == Decrypt(<<mem[base_addr][2 * ((i - 1) \div 2) + 1],
                             mem[base_addr][2 * ((i - 1) \div 2)]>>, key_i)
  <2>1. p \in Plain \X Plain
    BY <1>1, DecryptPlain
  <2>. HIDE DEF p
  <2>2. p[1] \in Plain /\ p[2] \in Plain
    BY <2>1
  <2>. QED  BY <2>2 DEF PageWord, p
<1>4. InMemory = [i \in 1 .. 2 * Pages |-> PageWord(i)]
  BY DEF InMemory, PageWord
<1>. QED  BY <1>1, <1>2, <1>3, <1>4 DEF Pages, MemoryIs

LEMMA InMemoryNext == Open!IndInv' => MemoryIs'
BY InMemoryFacts, PTL

LEMMA InFlightType == Open!IndInv /\ Encrypts => InFlight \in Seq(Plain)
<1>. SUFFICES ASSUME Open!IndInv, Encrypts  PROVE InFlight \in Seq(Plain)
  OBVIOUS
<1>1. CASE state = "enc_pop2"
  <2>1. pt_i[1] \in Plain /\ InFlight = <<pt_i[1]>>
    BY <1>1 DEF InFlight, Encrypts
  <2>. QED  BY ONLY <2>1
<1>2. CASE state \in {"enc_begin", "enc_wait", "enc_write_lower", "enc_write_upper"}
  <2>1. pt_i \in Plain \X Plain /\ InFlight = pt_i
    BY <1>2 DEF InFlight, Encrypts, Writing
  <2>2. InFlight = <<pt_i[1], pt_i[2]>> /\ pt_i[1] \in Plain /\ pt_i[2] \in Plain
    BY ONLY <2>1
  <2>. QED  BY ONLY <2>2
<1>3. CASE state = "dec_push2"
  <2>1. pt_r \in Plain \X Plain /\ InFlight = <<pt_r[2]>>
    BY <1>3 DEF Open!IndInv, Open!Results, InFlight, ct_o
  <2>2. pt_r[2] \in Plain
    BY ONLY <2>1
  <2>. QED  BY ONLY <2>1, <2>2
<1>4. CASE state \notin {"enc_pop2", "enc_begin", "enc_wait", "enc_write_lower", "enc_write_upper",
                        "dec_push2"}
  <2>1. InFlight = <<>>
    BY <1>4 DEF InFlight
  <2>. QED  BY ONLY <2>1
<1>. QED  BY ONLY <1>1, <1>2, <1>3, <1>4

LEMMA InFlightNext == Open!IndInv' /\ Encrypts' => (InFlight \in Seq(Plain))'
BY InFlightType, PTL

\* The words of the pages stay.
LEMMA WordsStay ==
  ASSUME Open!IndInv, NEW in, Inputs(in), PortEdge(in), CfgEdge(in),
         NEW i \in 1 .. 2 * page_count
  PROVE  PageWord(i)' = PageWord(i)
<1>. DEFINE k == (i - 1) \div 2
<1>1. page_count \in Nat
  BY OpenFacts
<1>2. page_count > 0
  BY <1>1
<1>3. 2 * k \in 0 .. 2 * page_count - 1 /\ 2 * k + 1 \in 0 .. 2 * page_count - 1
  BY <1>1
<1>4. /\ base_addr' = base_addr /\ key_i' = key_i
      /\ \A j \in 0 .. 2 * page_count - 1 : mem'[base_addr][j] = mem[base_addr][j]
  BY <1>2, PagesStay
<1>5. mem'[base_addr][2 * k + 1] = mem[base_addr][2 * k + 1] /\ mem'[base_addr][2 * k] = mem[base_addr][2 * k]
  BY <1>3, <1>4
<1>. QED  BY <1>4, <1>5 DEF PageWord, Decrypt

LEMMA InMemorySame ==
  ASSUME Open!IndInv, Open!IndInv', NEW in, Inputs(in), PortEdge(in), CfgEdge(in), Pages' = Pages
  PROVE  InMemory' = InMemory
<1>1. MemoryIs /\ MemoryIs'
  BY InMemoryFacts, InMemoryNext
<1>2. \A i \in 1 .. 2 * Pages : PageWord(i)' = PageWord(i)
  <2>. TAKE i \in 1 .. 2 * Pages
  <2>1. i \in 1 .. 2 * page_count
    BY <1>1 DEF MemoryIs
  <2>. QED  BY <2>1, WordsStay
<1>3. \A i \in 1 .. 2 * Pages : InMemory'[i] = PageWord(i)'
  BY <1>1 DEF MemoryIs
<1>. QED  BY <1>1, <1>2, <1>3, SeqEqual DEF MemoryIs

\* Pair n of the pages, the younger half first.
PairAt(n) == Decrypt(<<mem[base_addr][2 * n + 1], mem[base_addr][2 * n]>>, key_i)

LEMMA PairWords ==
  \A n \in Nat : PageWord(2 * n + 1) = PairAt(n)[2] /\ PageWord(2 * n + 2) = PairAt(n)[1]
<1>. TAKE n \in Nat
<1>1. /\ ((2 * n + 1) - 1) \div 2 = n /\ (2 * n + 1) % 2 = 1
      /\ ((2 * n + 2) - 1) \div 2 = n /\ (2 * n + 2) % 2 = 0
  OBVIOUS
<1>. QED  BY <1>1 DEF PageWord, PairAt

LEMMA TwoEntries ==
  ASSUME NEW S, NEW x \in S, NEW y \in S  PROVE <<x>> \o <<y>> = <<x, y>>
<1>1. /\ <<x>> \in Seq(S) /\ Len(<<x>>) = 1 /\ <<x>>[1] = x
      /\ <<y>> \in Seq(S) /\ Len(<<y>>) = 1 /\ <<y>>[1] = y
      /\ <<x, y>> \in Seq(S) /\ Len(<<x, y>>) = 2 /\ <<x, y>>[1] = x /\ <<x, y>>[2] = y
  OBVIOUS
<1>. DEFINE s == <<x>>
            t == <<y>>
            u == <<x, y>>
<1>2. /\ s \in Seq(S) /\ Len(s) = 1 /\ s[1] = x
      /\ t \in Seq(S) /\ Len(t) = 1 /\ t[1] = y
      /\ u \in Seq(S) /\ Len(u) = 2 /\ u[1] = x /\ u[2] = y
  BY <1>1
<1>. HIDE DEF s, t, u
<1>3. /\ s \o t \in Seq(S) /\ Len(s \o t) = 2
      /\ \A i \in 1 .. 2 : (s \o t)[i] = IF i <= 1 THEN s[i] ELSE t[i - 1]
  <2>1. /\ s \o t \in Seq(S) /\ Len(s \o t) = Len(s) + Len(t)
        /\ \A i \in 1 .. Len(s) + Len(t) : (s \o t)[i] = IF i <= Len(s) THEN s[i] ELSE t[i - Len(s)]
    BY ONLY <1>2, ConcatProperties
  <2>. QED  BY ONLY <1>2, <2>1
<1>4. (s \o t)[1] = u[1] /\ (s \o t)[2] = u[2]
  BY <1>2, <1>3
<1>5. s \o t = u
  <2>1. \A i \in 1 .. Len(u) : (s \o t)[i] = u[i]
    <3>1. \A i \in 1 .. Len(u) : i = 1 \/ i = 2
      BY <1>2
    <3>. QED  BY ONLY <1>4, <3>1
  <2>. QED  BY <1>2, <1>3, <2>1, SeqEqual
<1>. QED  BY <1>5 DEF s, t, u

\* A pair of entries at the end.
LEMMA LastPair ==
  ASSUME NEW S, NEW s \in Seq(S), NEW n \in Nat, Len(s) = 2 * n + 2,
         NEW t \in Seq(S), Len(t) = 2 * n, \A i \in 1 .. 2 * n : t[i] = s[i]
  PROVE  s = t \o <<s[2 * n + 1], s[2 * n + 2]>>
<1>1. s[2 * n + 1] \in S /\ s[2 * n + 2] \in S
  OBVIOUS
<1>. DEFINE u == <<s[2 * n + 1], s[2 * n + 2]>>
<1>2. u \in Seq(S) /\ Len(u) = 2 /\ u[1] = s[2 * n + 1] /\ u[2] = s[2 * n + 2]
  BY <1>1
<1>. HIDE DEF u
<1>3. /\ t \o u \in Seq(S) /\ Len(t \o u) = 2 * n + 2
      /\ \A i \in 1 .. 2 * n + 2 : (t \o u)[i] = IF i <= 2 * n THEN t[i] ELSE u[i - 2 * n]
  <2>1. Len(t) + Len(u) = 2 * n + 2
    BY <1>2
  <2>2. /\ t \o u \in Seq(S) /\ Len(t \o u) = Len(t) + Len(u)
        /\ \A i \in 1 .. Len(t) + Len(u) : (t \o u)[i] = IF i <= Len(t) THEN t[i] ELSE u[i - Len(t)]
    <3>1. t \in Seq(S) /\ u \in Seq(S)
      BY <1>2
    <3>. QED  BY ONLY <3>1, ConcatProperties
  <2>3. Len(t) = 2 * n
    OBVIOUS
  <2>. QED  BY ONLY <2>1, <2>2, <2>3
<1>4. ASSUME NEW i \in 1 .. 2 * n + 2  PROVE (t \o u)[i] = s[i]
  <2>1. (t \o u)[i] = IF i <= 2 * n THEN t[i] ELSE u[i - 2 * n]
    BY <1>3
  <2>2. CASE i <= 2 * n
    <3>1. i \in 1 .. 2 * n
      BY <2>2
    <3>2. (t \o u)[i] = t[i]
      BY <2>1, <2>2
    <3>3. t[i] = s[i]
      BY <3>1
    <3>. QED  BY ONLY <3>2, <3>3
  <2>3. CASE i = 2 * n + 1
    <3>1. i - 2 * n = 1 /\ ~(i <= 2 * n)
      BY <2>3
    <3>2. (t \o u)[i] = u[1]
      BY ONLY <2>1, <3>1
    <3>. QED  BY ONLY <1>2, <2>3, <3>2
  <2>4. CASE i = 2 * n + 2
    <3>1. i - 2 * n = 2 /\ ~(i <= 2 * n)
      BY <2>4
    <3>2. (t \o u)[i] = u[2]
      BY ONLY <2>1, <3>1
    <3>. QED  BY ONLY <1>2, <2>4, <3>2
  <2>5. i <= 2 * n \/ i = 2 * n + 1 \/ i = 2 * n + 2
    OBVIOUS
  <2>. QED  BY ONLY <2>2, <2>3, <2>4, <2>5
<1>. QED  BY <1>3, <1>4, SeqEqual DEF u

\* Off the chip, an edge changes only what the slots give to a spill or get
\* from a refill.
LEMMA FlowStep ==
  ASSUME Open!IndInv, Open!IndInv', Encrypts, Encrypts', Decrypts, NEW in, Inputs(in), Clock(in)
  PROVE  /\ OffChip \in Seq(Plain) /\ OffChip' \in Seq(Plain)
         /\ pop_bot => OffChip' = OffChip \o <<data[0]>>
         /\ push_bot => OffChip = OffChip' \o <<din_bot>>
         /\ ~pop_bot /\ ~push_bot => OffChip' = OffChip
<1>1. SimonEdge /\ FsmEdge(in) /\ PortEdge(in) /\ CfgEdge(in)
  BY DEF Clock
<1>2. MemoryIs /\ MemoryIs' /\ InFlight \in Seq(Plain) /\ InFlight' \in Seq(Plain)
  BY InMemoryFacts, InMemoryNext, InFlightType, InFlightNext
<1>3. /\ state \in State /\ state' \in State /\ scur \in SimonState /\ Open!Lockstep
      /\ page_count \in Nat /\ data[0] \in Plain /\ key_i \in Key
  BY <1>1, FsmFacts, OpenFacts, BottomPlain
<1>4. /\ InMemory \in Seq(Plain) /\ InMemory' \in Seq(Plain)
      /\ Pages \in Nat /\ Len(InMemory) = 2 * Pages
      /\ Pages' \in Nat /\ Len(InMemory') = 2 * Pages'
  BY <1>2 DEF MemoryIs
<1>5. OffChip \in Seq(Plain) /\ OffChip' \in Seq(Plain)
  BY <1>2, <1>4 DEF OffChip
<1>6. (pop_bot <=> state \in {"enc_pop1", "enc_pop2"}) /\ (push_bot <=> state \in Pushing)
  BY DEF pop_bot, push_bot, Pushing
<1>7. Pages' = Pages => InMemory' = InMemory
  BY <1>1, InMemorySame
<1>. USE DEF Pushing
<1>8. CASE state \in {"idle", "dec_read_upper", "dec_read_lower", "dec_read_lower_2", "dec_begin", "dec_wait"}
  <2>1. /\ page_count' = page_count
        /\ state' \in {"idle", "enc_pop1", "dec_read_upper", "dec_read_lower", "dec_read_lower_2",
                       "dec_begin", "dec_wait", "dec_push1"}
    BY <1>1, <1>8, FsmFacts
  <2>2. Pages' = Pages /\ InFlight = <<>> /\ InFlight' = <<>>
    BY <1>8, <2>1 DEF Pages, InFlight
  <2>. QED  BY <1>5, <1>6, <1>7, <1>8, <2>2 DEF OffChip
<1>9. CASE state = "enc_pop1"
  <2>1. state' = "enc_pop2" /\ page_count' = page_count /\ pt_i' = <<data[0], pt_i[2]>>
    BY <1>1, <1>9, FsmFacts
  <2>2. Pages' = Pages /\ InFlight = <<>> /\ InFlight' = <<data[0]>>
    BY <1>9, <2>1 DEF Pages, InFlight
  <2>3. OffChip = InMemory /\ OffChip' = InMemory \o <<data[0]>>
    BY <1>4, <1>7, <2>2 DEF OffChip
  <2>. QED  BY <1>5, <1>6, <1>9, <2>3
<1>10. CASE state = "enc_pop2"
  <2>1. state' = "enc_begin" /\ page_count' = page_count /\ pt_i' = <<pt_i[1], data[0]>>
    BY <1>1, <1>10, FsmFacts
  <2>2. Pages' = Pages /\ InFlight = <<pt_i[1]>> /\ InFlight' = <<pt_i[1], data[0]>>
    BY <1>10, <2>1 DEF Pages, InFlight
  <2>3. pt_i[1] \in Plain
    BY <1>10 DEF Encrypts
  <2>4. InFlight' = InFlight \o <<data[0]>>
    BY <1>3, <2>2, <2>3, TwoEntries
  <2>5. OffChip' = OffChip \o <<data[0]>>
    <3>1. <<data[0]>> \in Seq(Plain)
      BY <1>3
    <3>2. (InMemory \o InFlight) \o <<data[0]>> = InMemory \o (InFlight \o <<data[0]>>)
      <4>1. InMemory \in Seq(Plain) /\ InFlight \in Seq(Plain)
        BY <1>2, <1>4
      <4>. QED  BY ONLY <3>1, <4>1, ConcatAssociative
    <3>3. InMemory' = InMemory
      BY <1>7, <2>2
    <3>. QED  BY <2>4, <3>2, <3>3 DEF OffChip
  <2>. QED  BY <1>5, <1>6, <1>10, <2>5
<1>11. CASE state \in {"enc_begin", "enc_wait", "enc_write_lower"} \/ (state = "enc_write_upper" /\ ~mem_rdy(in))
  <2>1. /\ page_count' = page_count /\ pt_i' = pt_i
        /\ state' \in {"enc_begin", "enc_wait", "enc_write_lower", "enc_write_upper"}
    BY <1>1, <1>11, FsmFacts
  <2>2. Pages' = Pages /\ InFlight = pt_i /\ InFlight' = pt_i
    BY <1>11, <2>1 DEF Pages, InFlight
  <2>. QED  BY <1>5, <1>6, <1>7, <1>11, <2>2 DEF OffChip
<1>12. CASE state = "enc_write_upper" /\ mem_rdy(in)
  <2>1. page_count' = page_count + 1 /\ pt_i' = pt_i /\ state' \in {"enc_pop1", "idle"}
    BY <1>1, <1>12, FsmFacts
  <2>2. Pages' = Pages + 1 /\ Pages = page_count /\ InFlight = pt_i /\ InFlight' = <<>>
    BY <1>12, <2>1 DEF Pages, InFlight
  <2>3. pt_i \in Plain \X Plain
    BY <1>12 DEF Encrypts, Writing
  <2>4. /\ base_addr' = base_addr /\ key_i' = key_i
        /\ mem'[base_addr][2 * page_count] = CipherOf(pt_i, key_i)[1]
        /\ mem'[base_addr][2 * page_count + 1] = CipherOf(pt_i, key_i)[2]
    BY <1>1, <1>12, PagesStay DEF Encrypts, Writing, ct_o
  <2>5. Decrypt(<<mem'[base_addr][2 * page_count + 1], mem'[base_addr][2 * page_count]>>, key_i)
          = <<pt_i[2], pt_i[1]>>
    BY <1>3, <2>3, <2>4, DecryptCipher
  <2>6. \A i \in 1 .. 2 * page_count : InMemory[i] = InMemory'[i]
    <3>. TAKE i \in 1 .. 2 * page_count
    <3>1. PageWord(i)' = PageWord(i)
      BY <1>1, WordsStay
    <3>2. i \in 1 .. 2 * Pages /\ i \in 1 .. 2 * Pages'
      <4>1. i \in Nat /\ 1 <= i /\ i <= 2 * page_count
        BY <1>3
      <4>. QED  BY ONLY <1>3, <1>4, <2>2, <4>1
    <3>3. InMemory[i] = PageWord(i)
      BY <1>2, <3>2 DEF MemoryIs
    <3>4. InMemory'[i] = PageWord(i)'
      BY <1>2, <3>2 DEF MemoryIs
    <3>. QED  BY ONLY <3>1, <3>3, <3>4
  <2>7. InMemory'[2 * page_count + 1] = pt_i[1] /\ InMemory'[2 * page_count + 2] = pt_i[2]
    <3>. SUFFICES ASSUME NEW n \in Nat, n = page_count
                  PROVE  InMemory'[2 * n + 1] = pt_i[1] /\ InMemory'[2 * n + 2] = pt_i[2]
      BY <1>3
    <3>1. PairAt(n)' = <<pt_i[2], pt_i[1]>>
      BY <2>4, <2>5 DEF PairAt
    <3>2. PageWord(2 * n + 1)' = pt_i[1] /\ PageWord(2 * n + 2)' = pt_i[2]
      <4>1. /\ ((2 * n + 1) - 1) \div 2 = n /\ (2 * n + 1) % 2 = 1
            /\ ((2 * n + 2) - 1) \div 2 = n /\ (2 * n + 2) % 2 = 0
        OBVIOUS
      <4>. QED  BY <3>1, <4>1 DEF PageWord, PairAt
    <3>3. 2 * n + 1 \in 1 .. 2 * Pages' /\ 2 * n + 2 \in 1 .. 2 * Pages'
      BY <2>2
    <3>4. \A i \in 1 .. 2 * Pages' : InMemory'[i] = PageWord(i)'
      BY <1>2 DEF MemoryIs
    <3>. QED  BY <3>2, <3>3, <3>4
  <2>8. Len(InMemory) = 2 * page_count /\ Len(InMemory') = 2 * page_count + 2
    BY <1>3, <1>4, <2>2
  <2>9. InMemory' = InMemory \o <<pt_i[1], pt_i[2]>>
    <3>1. /\ InMemory \in Seq(Plain) /\ InMemory' \in Seq(Plain) /\ page_count \in Nat
          /\ \A i \in 1 .. 2 * page_count : InMemory[i] = InMemory'[i]
      BY <1>3, <1>4, <2>6
    <3>. QED  BY ONLY <3>1, <2>7, <2>8, LastPair, Zenon
  <2>10. pt_i = <<pt_i[1], pt_i[2]>>
    BY <2>3
  <2>11. OffChip' = InMemory' /\ OffChip = InMemory \o pt_i
    BY <1>4, <2>2 DEF OffChip
  <2>12. OffChip' = OffChip
    BY ONLY <2>9, <2>10, <2>11
  <2>. QED  BY <1>5, <1>6, <1>12, <2>12
<1>13. CASE state = "dec_push1"
  <2>1. state' = "dec_push2" /\ page_count' = page_count /\ page_count > 0
    BY <1>1, <1>13, FsmFacts, OpenFacts DEF Open!DecBusy
  <2>2. /\ Pages = page_count /\ Pages' = page_count - 1 /\ page_count \in Nat /\ page_count > 0
        /\ 2 * Pages' = 2 * page_count - 2 /\ 2 * Pages = 2 * page_count
    BY <1>3, <1>13, <2>1 DEF Pages
  <2>3. pt_r' = pt_r /\ base_addr' = base_addr /\ key_i' = key_i
    BY <1>1, <1>3, <1>13, SimonFacts, PagesStay DEF Open!Lockstep, valid_i
  <2>4. \A i \in 1 .. 2 * Pages' : InMemory'[i] = InMemory[i]
    <3>. TAKE i \in 1 .. 2 * Pages'
    <3>1. i \in 1 .. 2 * page_count /\ i \in 1 .. 2 * Pages
      <4>1. i \in 1 .. 2 * page_count - 2
        BY <2>2
      <4>2. i \in 1 .. 2 * page_count
        BY ONLY <2>2, <4>1
      <4>. QED  BY <2>2, <4>2
    <3>2. PageWord(i)' = PageWord(i)
      BY <1>1, <3>1, WordsStay
    <3>. QED  BY <1>2, <3>1, <3>2 DEF MemoryIs
  <2>5. InMemory[2 * Pages' + 1] = pt_r[2] /\ InMemory[2 * Pages' + 2] = pt_r[1]
    <3>. SUFFICES ASSUME NEW n \in Nat, n = Pages'
                  PROVE  InMemory[2 * n + 1] = pt_r[2] /\ InMemory[2 * n + 2] = pt_r[1]
      BY <1>2 DEF MemoryIs
    <3>1. Upper = mem[base_addr][2 * n + 1] /\ Lower = mem[base_addr][2 * n]
      <4>1. 2 * page_count - 1 = 2 * n + 1 /\ 2 * page_count - 2 = 2 * n
        BY <2>2
      <4>. QED  BY <4>1 DEF Upper, Lower
    <3>2. PairAt(n) = pt_r
      BY <1>13, <3>1 DEF PairAt, Decrypts
    <3>3. 2 * n + 1 \in 1 .. 2 * Pages /\ 2 * n + 2 \in 1 .. 2 * Pages
      <4>1. 2 * page_count = 2 * n + 2
        BY <2>2
      <4>. QED  BY <2>2, <4>1
    <3>4. \A i \in 1 .. 2 * Pages : InMemory[i] = PageWord(i)
      BY <1>2 DEF MemoryIs
    <3>. QED  BY <3>2, <3>3, <3>4, PairWords
  <2>6. Pages' \in Nat /\ Len(InMemory) = 2 * Pages' + 2 /\ Len(InMemory') = 2 * Pages'
    BY <1>4, <2>2
  <2>7. InMemory = InMemory' \o <<pt_r[2], pt_r[1]>>
    <3>1. InMemory \in Seq(Plain) /\ InMemory' \in Seq(Plain)
      BY <1>4
    <3>. QED  BY ONLY <3>1, <2>4, <2>5, <2>6, LastPair, Zenon
  <2>8. pt_r[2] \in Plain /\ pt_r[1] \in Plain /\ din_bot = pt_r[1]
    <3>1. pt_r \in Plain \X Plain
      BY <1>13 DEF Open!IndInv, Open!Results
    <3>. QED  BY <1>13, <3>1 DEF din_bot, ct_o
  <2>9. OffChip' = InMemory' \o <<pt_r[2]>> /\ OffChip = InMemory
    <3>1. InFlight = <<>> /\ InFlight' = <<pt_r'[2]>>
      BY <1>13, <2>1 DEF InFlight, ct_o
    <3>. QED  BY <1>4, <2>3, <3>1 DEF OffChip
  <2>10. <<pt_r[2]>> \o <<pt_r[1]>> = <<pt_r[2], pt_r[1]>>
    BY <2>8, TwoEntries
  <2>11. OffChip = OffChip' \o <<din_bot>>
    <3>1. <<pt_r[2]>> \in Seq(Plain) /\ <<pt_r[1]>> \in Seq(Plain)
      BY <2>8
    <3>2. (InMemory' \o <<pt_r[2]>>) \o <<pt_r[1]>> = InMemory' \o (<<pt_r[2]>> \o <<pt_r[1]>>)
      <4>1. InMemory' \in Seq(Plain)
        BY <1>4
      <4>. QED  BY ONLY <3>1, <4>1, ConcatAssociative
    <3>. QED  BY ONLY <2>7, <2>8, <2>9, <2>10, <3>2
  <2>. QED  BY <1>5, <1>6, <1>13, <2>11
<1>14. CASE state = "dec_push2"
  <2>1. state' = "idle" /\ page_count' = page_count - 1
    BY <1>1, <1>14, FsmFacts
  <2>2. Pages' = Pages /\ InFlight = <<ct_o(1)>> /\ InFlight' = <<>> /\ din_bot = ct_o(1)
    BY <1>14, <2>1 DEF Pages, InFlight, din_bot
  <2>3. OffChip = InMemory \o <<din_bot>> /\ OffChip' = InMemory
    BY <1>4, <1>7, <2>2 DEF OffChip
  <2>. QED  BY <1>5, <1>6, <1>14, <2>3
<1>. QED  BY <1>3, <1>8, <1>9, <1>10, <1>11, <1>12, <1>13, <1>14 DEF State

------------------------------------------------------------------------------
(* The entries, wherever they are. *)

LEMMA ConcatAppend ==
  ASSUME NEW S, NEW s \in Seq(S), NEW t \in Seq(S), NEW x \in S
  PROVE  s \o Append(t, x) = Append(s \o t, x)
<1>. DEFINE a == Append(t, x)
            c == s \o t
            d == s \o a
            e == Append(c, x)
<1>1. /\ a \in Seq(S) /\ Len(a) = Len(t) + 1 /\ Len(t) \in Nat /\ Len(s) \in Nat
      /\ \A i \in 1 .. Len(t) + 1 : a[i] = IF i = Len(t) + 1 THEN x ELSE t[i]
  OBVIOUS
<1>2. /\ c \in Seq(S) /\ Len(c) = Len(s) + Len(t)
      /\ \A i \in 1 .. Len(s) + Len(t) : c[i] = IF i <= Len(s) THEN s[i] ELSE t[i - Len(s)]
  BY ConcatProperties
<1>. HIDE DEF a
<1>3. /\ d \in Seq(S) /\ Len(d) = Len(s) + Len(a)
      /\ \A i \in 1 .. Len(s) + Len(a) : d[i] = IF i <= Len(s) THEN s[i] ELSE a[i - Len(s)]
  BY <1>1, ConcatProperties
<1>. HIDE DEF c, d
<1>4. /\ e \in Seq(S) /\ Len(e) = Len(c) + 1
      /\ \A i \in 1 .. Len(c) + 1 : e[i] = IF i = Len(c) + 1 THEN x ELSE c[i]
  BY <1>2, SMTT(60)
<1>. HIDE DEF e
<1>5. ASSUME NEW i \in 1 .. Len(d)  PROVE d[i] = e[i]
  <2>. DEFINE m == Len(s)
              n == Len(t)
  <2>1. m \in Nat /\ n \in Nat /\ i \in 1 .. m + n + 1
    BY <1>1, <1>3
  <2>. HIDE DEF m, n
  <2>2. /\ d[i] = IF i <= m THEN s[i] ELSE a[i - m]
        /\ e[i] = IF i = m + n + 1 THEN x ELSE c[i]
    BY <1>1, <1>2, <1>3, <1>4, <2>1 DEF m, n
  <2>3. /\ \A j \in 1 .. n + 1 : a[j] = IF j = n + 1 THEN x ELSE t[j]
        /\ \A j \in 1 .. m + n : c[j] = IF j <= m THEN s[j] ELSE t[j - m]
    BY <1>1, <1>2 DEF m, n
  <2>4. CASE i <= m
    BY ONLY <2>1, <2>2, <2>3, <2>4
  <2>5. CASE i = m + n + 1
    <3>1. i - m = n + 1 /\ ~(i <= m) /\ n + 1 \in 1 .. n + 1
      BY <2>1, <2>5
    <3>. QED  BY ONLY <2>2, <2>3, <2>5, <3>1
  <2>6. CASE i > m /\ i <= m + n
    <3>1. i - m \in 1 .. n + 1 /\ i - m # n + 1 /\ i \in 1 .. m + n /\ ~(i <= m) /\ i # m + n + 1
      BY <2>1, <2>6
    <3>. QED  BY ONLY <2>2, <2>3, <3>1
  <2>7. i <= m \/ i = m + n + 1 \/ (i > m /\ i <= m + n)
    BY <2>1
  <2>. QED  BY ONLY <2>4, <2>5, <2>6, <2>7
<1>6. Len(d) = Len(e)
  BY <1>1, <1>2, <1>3, <1>4
<1>7. d = e
  BY <1>3, <1>4, <1>5, <1>6, SeqEqual
<1>. QED  BY <1>7 DEF a, c, d, e

LEMMA FrontFacts ==
  ASSUME NEW S, NEW t \in Seq(S), Len(t) > 0
  PROVE  /\ SubSeq(t, 1, Len(t) - 1) \in Seq(S)
         /\ Len(SubSeq(t, 1, Len(t) - 1)) = Len(t) - 1
         /\ \A i \in 1 .. Len(t) - 1 : SubSeq(t, 1, Len(t) - 1)[i] = t[i]
<1>. DEFINE k == Len(t) - 1
<1>1. k \in Int /\ 1 \in Int /\ k \in Nat /\ \A i \in 1 .. k : t[i] \in S
  OBVIOUS
<1>. HIDE DEF k
<1>2. /\ SubSeq(t, 1, k) \in Seq(S) /\ Len(SubSeq(t, 1, k)) = IF 1 <= k THEN k - 1 + 1 ELSE 0
      /\ \A i \in 1 .. k - 1 + 1 : SubSeq(t, 1, k)[i] = t[1 + i - 1]
  BY ONLY <1>1, SubSeqProperties
<1>3. /\ SubSeq(t, 1, k) \in Seq(S) /\ Len(SubSeq(t, 1, k)) = k
      /\ \A i \in 1 .. k : SubSeq(t, 1, k)[i] = t[i]
  BY ONLY <1>1, <1>2
<1>. QED  BY <1>3 DEF k

LEMMA ConcatFront ==
  ASSUME NEW S, NEW s \in Seq(S), NEW t \in Seq(S), Len(t) > 0
  PROVE  /\ s \o SubSeq(t, 1, Len(t) - 1) = SubSeq(s \o t, 1, Len(s \o t) - 1)
         /\ Len(s \o t) > 0 /\ (s \o t)[Len(s \o t)] = t[Len(t)]
<1>. DEFINE a == SubSeq(t, 1, Len(t) - 1)
            c == s \o t
            d == s \o a
            e == SubSeq(c, 1, Len(c) - 1)
<1>1. /\ a \in Seq(S) /\ Len(a) = Len(t) - 1 /\ Len(t) \in Nat /\ Len(s) \in Nat
      /\ \A i \in 1 .. Len(t) - 1 : a[i] = t[i]
  BY FrontFacts
<1>2. /\ c \in Seq(S) /\ Len(c) = Len(s) + Len(t)
      /\ \A i \in 1 .. Len(s) + Len(t) : c[i] = IF i <= Len(s) THEN s[i] ELSE t[i - Len(s)]
  BY ConcatProperties
<1>. HIDE DEF a
<1>3. /\ d \in Seq(S) /\ Len(d) = Len(s) + Len(a)
      /\ \A i \in 1 .. Len(s) + Len(a) : d[i] = IF i <= Len(s) THEN s[i] ELSE a[i - Len(s)]
  BY <1>1, ConcatProperties
<1>. HIDE DEF c, d
<1>4. /\ e \in Seq(S) /\ Len(e) = Len(c) - 1
      /\ \A i \in 1 .. Len(c) - 1 : e[i] = c[i]
  BY <1>1, <1>2
<1>. HIDE DEF e
<1>. DEFINE m == Len(s)
            n == Len(t)
<1>5. m \in Nat /\ n \in Nat /\ n > 0 /\ Len(c) = m + n
  BY <1>1, <1>2
<1>6. ASSUME NEW i \in 1 .. Len(d)  PROVE d[i] = e[i]
  <2>1. i \in 1 .. m + n - 1
    BY <1>1, <1>3
  <2>2. /\ d[i] = IF i <= m THEN s[i] ELSE a[i - m]
        /\ e[i] = c[i] /\ c[i] = IF i <= m THEN s[i] ELSE t[i - m]
    BY <1>1, <1>2, <1>3, <1>4, <2>1
  <2>3. i > m => a[i - m] = t[i - m]
    <3>1. i > m => i - m \in 1 .. n - 1
      BY <1>5, <2>1
    <3>. QED  BY <1>1, <3>1
  <2>. QED  BY <1>5, <2>1, <2>2, <2>3
<1>7. Len(d) = Len(e)
  BY <1>1, <1>2, <1>3, <1>4
<1>8. d = e
  BY <1>3, <1>4, <1>6, <1>7, SeqEqual
<1>9. c[m + n] = t[n]
  <2>1. m + n \in 1 .. m + n /\ ~(m + n <= m) /\ (m + n) - m = n
    BY <1>5
  <2>2. c[m + n] = IF m + n <= m THEN s[m + n] ELSE t[(m + n) - m]
    BY <1>2, <2>1
  <2>. QED  BY ONLY <2>1, <2>2
<1>. QED  BY <1>5, <1>8, <1>9 DEF a, c, d, e

\* An edge, on all entries together: what it does at the top.
LEMMA EntriesStep ==
  ASSUME Open!IndInv, Open!IndInv', Encrypts, Encrypts', Decrypts, cnt <= DEPTH, RAS_ena,
         NEW in, Inputs(in), Clock(in),
         push_bot => cnt < DEPTH /\ (in.branch => cnt < DEPTH - 2),
         pop_bot => cnt >= 2
  PROVE  /\ Entries \in Seq(Plain) /\ Len(Entries) = Len(OffChip) + cnt
         /\ Called(in) => Entries' = Append(Entries, in.addr) /\ mismatch' = mismatch
         /\ Returned(in) =>
              /\ Entries' = SubSeq(Entries, 1, Len(Entries) - 1)
              /\ mismatch' = (mismatch \/ in.addr # Entries[Len(Entries)])
         /\ ~Called(in) /\ ~Returned(in) => Entries' = Entries /\ mismatch' = mismatch
         /\ cnt' = TopCnt(in) + (IF push_bot THEN 1 ELSE IF pop_bot THEN -1 ELSE 0)
<1>1. in \in Open!Input /\ StackEdge(in)
  BY DEF Inputs, Clock
<1>2. /\ OffChip \in Seq(Plain) /\ OffChip' \in Seq(Plain)
      /\ pop_bot => OffChip' = OffChip \o <<data[0]>>
      /\ push_bot => OffChip = OffChip' \o <<din_bot>>
      /\ ~pop_bot /\ ~push_bot => OffChip' = OffChip
  BY FlowStep
<1>3. /\ mismatch' = (mismatch \/ (Returned(in) /\ InStack[cnt] # in.addr))
      /\ pop_bot  => Top(in) = <<data[0]>> \o InStack' /\ cnt' = TopCnt(in) - 1
      /\ push_bot => InStack' = <<din_bot>> \o Top(in) /\ cnt' = TopCnt(in) + 1
      /\ ~pop_bot /\ ~push_bot => InStack' = Top(in) /\ cnt' = TopCnt(in)
      /\ InStack \in Seq(Plain) /\ Len(InStack) = cnt
      /\ InStack' \in Seq(Plain) /\ Top(in) \in Seq(Plain)
  BY <1>1, StackStep, CrasAssumption
<1>4. push_bot \in BOOLEAN /\ pop_bot \in BOOLEAN /\ ~(push_bot /\ pop_bot)
  BY DEF push_bot, pop_bot
<1>5. Entries = OffChip \o InStack /\ Entries' = OffChip' \o InStack'
  BY DEF Entries, OffChip
<1>6. Entries' = OffChip \o Top(in)
  <2>1. CASE pop_bot
    <3>1. data[0] \in Plain
      BY BottomPlain
    <3>2. /\ OffChip \in Seq(Plain) /\ <<data[0]>> \in Seq(Plain) /\ InStack' \in Seq(Plain)
      BY <1>2, <1>3, <3>1
    <3>3. (OffChip \o <<data[0]>>) \o InStack' = OffChip \o (<<data[0]>> \o InStack')
      BY ONLY <3>2, ConcatAssociative
    <3>4. OffChip' = OffChip \o <<data[0]>> /\ Top(in) = <<data[0]>> \o InStack'
      BY <1>2, <1>3, <2>1
    <3>. QED  BY ONLY <1>5, <3>3, <3>4
  <2>2. CASE push_bot
    <3>1. din_bot \in Plain
      <4>1. pt_r \in Plain \X Plain
        BY <2>2 DEF Open!IndInv, Open!Results, push_bot
      <4>. QED  BY <2>2, <4>1 DEF push_bot, din_bot, ct_o
    <3>2. /\ OffChip' \in Seq(Plain) /\ <<din_bot>> \in Seq(Plain) /\ Top(in) \in Seq(Plain)
      BY <1>2, <1>3, <3>1
    <3>3. (OffChip' \o <<din_bot>>) \o Top(in) = OffChip' \o (<<din_bot>> \o Top(in))
      BY ONLY <3>2, ConcatAssociative
    <3>4. OffChip = OffChip' \o <<din_bot>> /\ InStack' = <<din_bot>> \o Top(in)
      BY <1>2, <1>3, <2>2
    <3>. QED  BY ONLY <1>5, <3>3, <3>4
  <2>3. CASE ~pop_bot /\ ~push_bot
    BY <1>2, <1>3, <1>5, <2>3
  <2>. QED  BY <1>4, <2>1, <2>2, <2>3
<1>7. Entries \in Seq(Plain) /\ Len(Entries) = Len(OffChip) + cnt
  <2>1. OffChip \in Seq(Plain) /\ InStack \in Seq(Plain)
    BY <1>2, <1>3
  <2>2. OffChip \o InStack \in Seq(Plain) /\ Len(OffChip \o InStack) = Len(OffChip) + Len(InStack)
    BY ONLY <2>1, ConcatProperties
  <2>. QED  BY <1>3, <1>5, <2>2
<1>8. in.addr \in Plain /\ ~(Called(in) /\ Returned(in))
  BY <1>1, ProgramAssumption, StackAssumption, CrasAssumption DEF Open!Input, Called, Returned
<1>12. cnt' = TopCnt(in) + (IF push_bot THEN 1 ELSE IF pop_bot THEN -1 ELSE 0)
  BY <1>3, <1>4, OpenFacts DEF TopCnt
<1>9. CASE Called(in)
  <2>1. Top(in) = Append(InStack, in.addr)
    BY <1>9 DEF Top
  <2>2. OffChip \in Seq(Plain) /\ InStack \in Seq(Plain) /\ in.addr \in Plain
    BY <1>2, <1>3, <1>8
  <2>3. OffChip \o Append(InStack, in.addr) = Append(OffChip \o InStack, in.addr)
    BY ONLY <2>2, ConcatAppend
  <2>4. Entries' = Append(Entries, in.addr)
    BY ONLY <1>5, <1>6, <2>1, <2>3
  <2>5. mismatch' = mismatch
    BY <1>3, <1>8, <1>9, OpenFacts
  <2>. QED  BY ONLY <1>7, <1>8, <1>9, <1>12, <2>4, <2>5
<1>10. CASE Returned(in)
  <2>1. Top(in) = SubSeq(InStack, 1, cnt - 1)
    BY <1>8, <1>10 DEF Top
  <2>2. cnt > 0
    BY <1>10, OpenFacts DEF Returned, empty
  <2>3. OffChip \in Seq(Plain) /\ InStack \in Seq(Plain) /\ Len(InStack) > 0 /\ Len(InStack) = cnt
    BY <1>2, <1>3, <2>2
  <2>4. /\ OffChip \o SubSeq(InStack, 1, Len(InStack) - 1)
             = SubSeq(OffChip \o InStack, 1, Len(OffChip \o InStack) - 1)
        /\ (OffChip \o InStack)[Len(OffChip \o InStack)] = InStack[Len(InStack)]
    BY ONLY <2>3, ConcatFront
  <2>5. Entries' = SubSeq(Entries, 1, Len(Entries) - 1)
    BY ONLY <1>5, <1>6, <2>1, <2>3, <2>4
  <2>6. Entries[Len(Entries)] = InStack[cnt]
    BY ONLY <1>5, <2>3, <2>4
  <2>7. mismatch' = (mismatch \/ in.addr # Entries[Len(Entries)])
    BY <1>3, <1>10, <2>6
  <2>. QED  BY ONLY <1>7, <1>8, <1>10, <1>12, <2>5, <2>7
<1>11. CASE ~Called(in) /\ ~Returned(in)
  <2>1. Top(in) = InStack
    BY <1>11 DEF Top
  <2>2. Entries' = Entries
    BY <1>5, <1>6, <2>1
  <2>3. mismatch' = mismatch
    BY <1>3, <1>11, OpenFacts
  <2>. QED  BY ONLY <1>7, <1>11, <1>12, <2>2, <2>3
<1>. QED  BY <1>9, <1>10, <1>11

\* There are as many entries as CrasOpen counts.
LEMMA EntriesFacts ==
  ASSUME Open!IndInv, Encrypts, cnt <= DEPTH
  PROVE  Entries \in Seq(Plain) /\ Len(Entries) = Open!InUse
<1>1. /\ page_count \in Nat /\ cnt \in Nat /\ data \in [Slot -> Word] /\ mismatch \in BOOLEAN
      /\ DEPTH \in Nat
  BY OpenFacts, StackAssumption
<1>2. InStack \in Seq(Plain) /\ Len(InStack) = cnt
  <2>1. [data |-> data, cnt |-> cnt, mismatch |-> mismatch] \in Recs
    BY <1>1 DEF Recs
  <2>. QED  BY <2>1, FilledType, CrasAssumption DEF Filled, InStack
<1>3. InMemory \in Seq(Plain) /\ Len(InMemory) = 2 * Pages /\ Pages \in Nat
  BY InMemoryFacts DEF MemoryIs
<1>4. InFlight \in Seq(Plain)
  BY InFlightType
<1>5. 2 * Pages + Len(InFlight) = 2 * page_count + Open!Flying
  <2>1. CASE state = "enc_pop2"
    <3>1. Len(InFlight) = 1 /\ Pages = page_count /\ Open!Flying = 1
      BY <2>1 DEF InFlight, Pages, Open!Flying
    <3>. QED  BY ONLY <1>1, <3>1
  <2>2. CASE state \in {"enc_begin", "enc_wait", "enc_write_lower", "enc_write_upper"}
    <3>1. pt_i \in Plain \X Plain /\ InFlight = pt_i
      BY <2>2 DEF InFlight, Encrypts, Writing
    <3>2. InFlight = <<pt_i[1], pt_i[2]>>
      BY ONLY <3>1
    <3>3. Len(InFlight) = 2
      BY ONLY <3>2
    <3>4. Pages = page_count /\ Open!Flying = 2
      BY <2>2 DEF Pages, Open!Flying
    <3>. QED  BY ONLY <1>1, <3>3, <3>4
  <2>3. CASE state = "dec_push2"
    <3>1. Len(InFlight) = 1 /\ Pages = page_count - 1 /\ Open!Flying = -1
      BY <2>3 DEF InFlight, Pages, Open!Flying
    <3>. QED  BY ONLY <1>1, <3>1
  <2>4. CASE state \notin {"enc_pop2", "enc_begin", "enc_wait", "enc_write_lower", "enc_write_upper",
                          "dec_push2"}
    <3>1. InFlight = <<>>
      BY <2>4 DEF InFlight
    <3>2. Len(InFlight) = 0
      BY ONLY <3>1
    <3>3. Pages = page_count /\ Open!Flying = 0
      BY <2>4 DEF Pages, Open!Flying
    <3>. QED  BY ONLY <1>1, <3>2, <3>3
  <2>. QED  BY ONLY <2>1, <2>2, <2>3, <2>4
<1>6. /\ InMemory \o InFlight \in Seq(Plain)
      /\ Len(InMemory \o InFlight) = Len(InMemory) + Len(InFlight)
  BY ONLY <1>3, <1>4, ConcatProperties
<1>7. /\ Entries \in Seq(Plain)
      /\ Len(Entries) = Len(InMemory \o InFlight) + Len(InStack)
  BY <1>2, <1>6, ConcatProperties DEF Entries
<1>8. Open!InUse = cnt + 2 * page_count + Open!Flying
  BY DEF Open!InUse
<1>9. Open!Flying \in Int
  BY DEF Open!Flying
<1>. QED  BY ONLY <1>1, <1>2, <1>3, <1>5, <1>6, <1>7, <1>8, <1>9

------------------------------------------------------------------------------
(* A cycle of a program. *)

\* What Spend asks of the calls and returns of a cycle.
Paced(in) ==
  \E counts \in BOOLEAN :
    /\ in.branch /\ rdy(in) /\ Refilling => counts
    /\ in.ret /\ rdy(in) /\ Spilling => counts
    /\ counts /\ Refilling => burst < CallBurst
    /\ counts /\ Spilling => burst < RetBurst
    /\ burst' = IF state' \in {"idle", "enc_pop1"} \/ state = "idle" THEN 0
                ELSE IF counts THEN burst + 1 ELSE burst

\* A refill finds room and a spill entries.
LEMMA RoomLeft ==
  ASSUME Sustained, Open!IndInv, Budget, NEW in \in Open!Input, Paced(in)
  PROVE  /\ push_bot => cnt < DEPTH /\ (in.branch => cnt < DEPTH - 2)
         /\ pop_bot => cnt >= 2
<1>1. /\ cnt \in Nat /\ DEPTH \in Nat /\ EMPTY_THRESH \in Nat /\ CallBurst \in Nat
      /\ EMPTY_THRESH + CallBurst + 4 <= DEPTH
  BY OpenFacts, StackAssumption, ProgramAssumption DEF Sustained
<1>2. pop_bot => cnt >= 2
  <2>1. /\ state = "enc_pop1" => cnt >= 4
        /\ state = "enc_pop2" => cnt >= 2
    BY OpenFacts
  <2>. QED  BY <1>1, <2>1 DEF pop_bot
<1>3. CASE push_bot
  <2>1. Refilling /\ state \in Pushing
    BY <1>3 DEF push_bot, Refilling, Pushing
  <2>2. burst \in 0 .. CallBurst /\ cnt <= EMPTY_THRESH + 1 + burst + (IF state = "dec_push2" THEN 1 ELSE 0)
    BY <2>1 DEF Budget
  <2>3. cnt <= DEPTH - 2
    BY <1>1, <2>2
  <2>4. in.branch => cnt < DEPTH - 2
    <3>. SUFFICES ASSUME in.branch  PROVE cnt < DEPTH - 2
      OBVIOUS
    <3>1. ~in.ret /\ in.ret \in BOOLEAN
      BY DEF Open!Input
    <3>2. rdy(in)
      BY <1>1, <2>3, <3>1 DEF rdy, stalled, full
    <3>3. burst < CallBurst
      BY <2>1, <3>2 DEF Paced
    <3>. QED  BY <1>1, <2>2, <3>3
  <2>. QED  BY <1>1, <1>2, <2>3, <2>4
<1>. QED  BY <1>2, <1>3 DEF push_bot

\* The budgets hold out.
LEMMA BudgetStep ==
  ASSUME Sustained, Open!IndInv, Budget, NEW in \in Open!Input, Paced(in), FsmEdge(in),
         cnt' = TopCnt(in) + (IF push_bot THEN 1 ELSE IF pop_bot THEN -1 ELSE 0), cnt' <= DEPTH
  PROVE  Budget'
<1>1. /\ cnt \in Nat /\ EMPTY_THRESH \in Nat /\ FILL_THRESH \in Nat /\ CallBurst \in Nat /\ RetBurst \in Nat
      /\ state \in State /\ state' \in State
  BY OpenFacts, StackAssumption, ProgramAssumption, FsmFacts
<1>2. PICK counts \in BOOLEAN :
        /\ in.branch /\ rdy(in) /\ Refilling => counts
        /\ in.ret /\ rdy(in) /\ Spilling => counts
        /\ counts /\ Refilling => burst < CallBurst
        /\ counts /\ Spilling => burst < RetBurst
        /\ burst' = IF state' \in {"idle", "enc_pop1"} \/ state = "idle" THEN 0
                    ELSE IF counts THEN burst + 1 ELSE burst
  BY DEF Paced
<1>3. TopCnt(in) \in {cnt - 1, cnt, cnt + 1}
  BY <1>1 DEF TopCnt
<1>4. ~in.branch \/ ~in.ret
  BY DEF Open!Input
<1>5. Refilling /\ TopCnt(in) = cnt + 1 => counts
  BY <1>1, <1>2 DEF TopCnt, Called, Returned
<1>6. Spilling /\ TopCnt(in) = cnt - 1 => counts
  BY <1>1, <1>2 DEF TopCnt, Called, Returned
<1>7. (push_bot <=> state \in Pushing) /\ (pop_bot <=> state \in {"enc_pop1", "enc_pop2"})
  BY DEF push_bot, pop_bot, Pushing
<1>8. ASSUME Refilling'
      PROVE  /\ burst' \in 0 .. CallBurst
             /\ cnt' <= EMPTY_THRESH + 1 + burst' + (IF state' = "dec_push2" THEN 1 ELSE 0)
  <2>1. CASE state = "idle"
    <3>1. state' = "dec_read_upper" /\ cnt <= EMPTY_THRESH
      BY <1>8, <2>1, FsmFacts DEF Refilling, under_thresh
    <3>2. burst' = 0 /\ cnt' = TopCnt(in)
      BY <1>2, <1>3, <1>7, <1>1, <2>1 DEF Pushing
    <3>. QED  BY <1>1, <1>3, <3>1, <3>2
  <2>2. CASE state # "idle"
    <3>1. Refilling /\ state # "dec_push2" /\ (state = "dec_push1" <=> state' = "dec_push2")
          /\ state' \notin {"idle", "enc_pop1"}
      BY <1>1, <1>8, <2>2, FsmFacts DEF Refilling, State
    <3>2. burst \in 0 .. CallBurst /\ cnt <= EMPTY_THRESH + 1 + burst
      BY <1>1, <3>1 DEF Budget
    <3>3. burst' = (IF counts THEN burst + 1 ELSE burst) /\ (counts => burst < CallBurst)
      BY <1>2, <2>2, <3>1
    <3>4. cnt' = TopCnt(in) + (IF state' = "dec_push2" THEN 1 ELSE 0)
      <4>1. pop_bot = FALSE /\ (push_bot <=> state' = "dec_push2")
        BY <1>7, <3>1 DEF Refilling, Pushing
      <4>. QED  BY <1>1, <1>3, <4>1
    <3>5. TopCnt(in) = cnt + 1 => counts
      BY <1>5, <3>1
    <3>. QED  BY ONLY <1>1, <1>3, <3>2, <3>3, <3>4, <3>5
  <2>. QED  BY <2>1, <2>2
<1>9. ASSUME Spilling'
      PROVE  /\ burst' \in 0 .. RetBurst
             /\ cnt' + burst' >= FILL_THRESH - (CASE state' = "enc_pop1" -> 1
                                                  [] state' = "enc_pop2" -> 2
                                                  [] OTHER -> 3)
  <2>1. CASE state' = "enc_pop1"
    <3>1. cnt >= FILL_THRESH /\ state \in {"idle", "enc_write_upper"}
      BY <1>1, <2>1, FsmFacts DEF over_thresh, State
    <3>2. burst' = 0
      BY <1>2, <2>1
    <3>3. cnt' = TopCnt(in)
      BY <1>1, <1>3, <1>7, <3>1 DEF Pushing
    <3>. QED  BY <1>1, <1>3, <2>1, <3>1, <3>2, <3>3
  <2>2. CASE state' # "enc_pop1"
    <3>1. /\ Spilling /\ state' # "idle" /\ state # "idle"
          /\ state = "enc_pop1" <=> state' = "enc_pop2"
          /\ state \notin Pushing
      BY <1>1, <1>9, <2>2, FsmFacts DEF Spilling, Refilling, State, Pushing
    <3>2. /\ burst \in 0 .. RetBurst
          /\ cnt + burst >= FILL_THRESH - (CASE state = "enc_pop1" -> 1
                                             [] state = "enc_pop2" -> 2
                                             [] OTHER -> 3)
      BY <3>1 DEF Budget
    <3>3. burst' = (IF counts THEN burst + 1 ELSE burst) /\ (counts => burst < RetBurst)
      BY <1>2, <2>2, <3>1
    <3>4. TopCnt(in) = cnt - 1 => counts
      BY <1>6, <3>1
    <3>5. cnt' = TopCnt(in) + (IF state \in {"enc_pop1", "enc_pop2"} THEN -1 ELSE 0)
      BY <1>1, <1>3, <1>7, <3>1
    <3>6. burst' \in 0 .. RetBurst /\ TopCnt(in) + burst' >= cnt + burst
      BY ONLY <1>1, <1>3, <3>2, <3>3, <3>4
    <3>7. state = "enc_pop2" => state' \notin {"enc_pop1", "enc_pop2"}
      BY FsmFacts
    <3>8. CASE state = "enc_pop1"
      BY <1>1, <1>3, <3>1, <3>2, <3>5, <3>6, <3>8
    <3>9. CASE state = "enc_pop2"
      BY <1>1, <1>3, <3>2, <3>5, <3>6, <3>7, <3>9
    <3>10. CASE state \notin {"enc_pop1", "enc_pop2"}
      BY <1>1, <1>3, <2>2, <3>1, <3>2, <3>5, <3>6, <3>10
    <3>. QED  BY <3>8, <3>9, <3>10
  <2>. QED  BY <2>1, <2>2
<1>. QED  BY <1>8, <1>9 DEF Budget

\* What every cycle does to the invariant and to the entries.
LEMMA CycleStep ==
  ASSUME Sustained, Open!IndInv, ProgramInv, NEW in, Inputs(in), Clock(in), Paced(in),
         in.branch => Open!InUse < 2 * MaxPages
  PROVE  /\ Open!IndInv' /\ Encrypts' /\ Decrypts' /\ Budget' /\ RAS_ena'
         /\ Entries \in Seq(Plain)
         /\ Called(in) => Entries' = Append(Entries, in.addr) /\ mismatch' = mismatch
         /\ Returned(in) =>
              /\ Entries' = SubSeq(Entries, 1, Len(Entries) - 1)
              /\ mismatch' = (mismatch \/ in.addr # Entries[Len(Entries)])
         /\ ~Called(in) /\ ~Returned(in) => Entries' = Entries /\ mismatch' = mismatch
<1>1. Encrypts /\ Decrypts /\ Budget /\ RAS_ena /\ cnt <= DEPTH /\ in \in Open!Input
  BY DEF ProgramInv, Tracks, Budget, Inputs
<1>2. Open!IndInv'
  BY <1>1, OpenStep
<1>3. Encrypts' /\ Decrypts'
  BY <1>1, EncryptsStep, DecryptsStep
<1>4. /\ push_bot => cnt < DEPTH /\ (in.branch => cnt < DEPTH - 2)
      /\ pop_bot => cnt >= 2
  BY <1>1, RoomLeft
<1>5. StackEdge(in) /\ FsmEdge(in) /\ PortEdge(in) /\ CfgEdge(in)
  BY DEF Clock
<1>6. cnt' <= DEPTH
  <2>1. cnt' \in 0 .. DEPTH
    BY <1>1, <1>4, <1>5, StackStep
  <2>. QED  BY <2>1, StackAssumption
<1>7. /\ Entries \in Seq(Plain)
      /\ Called(in) => Entries' = Append(Entries, in.addr) /\ mismatch' = mismatch
      /\ Returned(in) =>
           /\ Entries' = SubSeq(Entries, 1, Len(Entries) - 1)
           /\ mismatch' = (mismatch \/ in.addr # Entries[Len(Entries)])
      /\ ~Called(in) /\ ~Returned(in) => Entries' = Entries /\ mismatch' = mismatch
      /\ cnt' = TopCnt(in) + (IF push_bot THEN 1 ELSE IF pop_bot THEN -1 ELSE 0)
  BY <1>1, <1>2, <1>3, <1>4, EntriesStep
<1>8. Budget'
  BY <1>1, <1>5, <1>6, <1>7, BudgetStep
<1>9. RAS_ena'
  BY <1>1, <1>5, PortFacts
<1>. QED  BY <1>2, <1>3, <1>7, <1>8, <1>9

\* The wires of a cycle of a program.
LEMMA NopFacts ==
  ASSUME Sustained, NEW p \in Ports \cup {"core"}
  PROVE  Inputs(Nop(p)) /\ ~Nop(p).branch /\ ~Nop(p).ret
<1>1. p \in {"free", "core"}
  BY DEF Sustained
<1>2. Open!NoCfg = NoCfg /\ NoCfg.reg = "none"
  BY DEF NoCfg, Open!NoCfg
<1>3. Nop(p) = [branch |-> FALSE, ret |-> FALSE, addr |-> Zero, port |-> p, cfg |-> NoCfg]
  BY DEF Nop
<1>. QED  BY <1>1, <1>2, <1>3 DEF Inputs, Open!Input

LEMMA CallFacts ==
  ASSUME Sustained, NEW p \in Ports, NEW a \in Addr
  PROVE  Inputs(Call(a, p)) /\ Call(a, p).branch /\ ~Call(a, p).ret /\ Call(a, p).addr = a
<1>1. p \in {"free", "core"}
  BY DEF Sustained
<1>2. Open!NoCfg = NoCfg /\ NoCfg.reg = "none"
  BY DEF NoCfg, Open!NoCfg
<1>3. Call(a, p) = [branch |-> TRUE, ret |-> FALSE, addr |-> a, port |-> p, cfg |-> NoCfg]
  <2>1. Nop(p) = [branch |-> FALSE, ret |-> FALSE, addr |-> Zero, port |-> p, cfg |-> NoCfg]
    BY DEF Nop
  <2>2. PICK n : n = Nop(p)
    OBVIOUS
  <2>3. Call(a, p) = [n EXCEPT !.branch = TRUE, !.addr = a]
    BY <2>2 DEF Call
  <2>. HIDE DEF NoCfg
  <2>4. PICK m : m = Call(a, p)
    OBVIOUS
  <2>5. m.branch = TRUE /\ m.ret = FALSE /\ m.addr = a /\ m.port = p /\ m.cfg = NoCfg
    BY ONLY <2>1, <2>2, <2>3, <2>4
  <2>6. m = [branch |-> m.branch, ret |-> m.ret, addr |-> m.addr, port |-> m.port, cfg |-> m.cfg]
    BY ONLY <2>1, <2>2, <2>3, <2>4
  <2>. QED  BY ONLY <2>4, <2>5, <2>6
<1>. QED  BY <1>1, <1>2, <1>3 DEF Inputs, Open!Input

LEMMA RetFacts ==
  ASSUME Sustained, NEW p \in Ports, NEW a \in Addr
  PROVE  Inputs(Ret(a, p)) /\ ~Ret(a, p).branch /\ Ret(a, p).ret /\ Ret(a, p).addr = a
<1>1. p \in {"free", "core"}
  BY DEF Sustained
<1>2. Open!NoCfg = NoCfg /\ NoCfg.reg = "none"
  BY DEF NoCfg, Open!NoCfg
<1>3. Ret(a, p) = [branch |-> FALSE, ret |-> TRUE, addr |-> a, port |-> p, cfg |-> NoCfg]
  <2>1. Nop(p) = [branch |-> FALSE, ret |-> FALSE, addr |-> Zero, port |-> p, cfg |-> NoCfg]
    BY DEF Nop
  <2>2. PICK n : n = Nop(p)
    OBVIOUS
  <2>3. Ret(a, p) = [n EXCEPT !.ret = TRUE, !.addr = a]
    BY <2>2 DEF Ret
  <2>. HIDE DEF NoCfg
  <2>4. PICK m : m = Ret(a, p)
    OBVIOUS
  <2>5. m.branch = FALSE /\ m.ret = TRUE /\ m.addr = a /\ m.port = p /\ m.cfg = NoCfg
    BY ONLY <2>1, <2>2, <2>3, <2>4
  <2>6. m = [branch |-> m.branch, ret |-> m.ret, addr |-> m.addr, port |-> m.port, cfg |-> m.cfg]
    BY ONLY <2>1, <2>2, <2>3, <2>4
  <2>. QED  BY ONLY <2>4, <2>5, <2>6
<1>. QED  BY <1>1, <1>2, <1>3 DEF Inputs, Open!Input

LEMMA ConfigFacts ==
  ASSUME Sustained, NEW c \in Cfgs, state = "idle" /\ ~over_thresh /\ page_count = 0
  PROVE  LET in == [Nop("core") EXCEPT !.cfg = c]
         IN  Inputs(in) /\ ~in.branch /\ ~in.ret
<1>. DEFINE in == [Nop("core") EXCEPT !.cfg = c]
<1>1. Open!NoCfg = NoCfg /\ NoCfg.reg = "none" /\ c.reg # "ena"
  BY DEF NoCfg, Open!NoCfg, Sustained
<1>2. in = [branch |-> FALSE, ret |-> FALSE, addr |-> Zero, port |-> "core", cfg |-> c]
  <2>1. Nop("core") = [branch |-> FALSE, ret |-> FALSE, addr |-> Zero, port |-> "core", cfg |-> NoCfg]
    BY DEF Nop
  <2>2. PICK n : n = Nop("core")
    OBVIOUS
  <2>3. in = [n EXCEPT !.cfg = c]
    BY <2>2
  <2>. HIDE DEF NoCfg, in
  <2>4. PICK m : m = in
    OBVIOUS
  <2>5. m.branch = FALSE /\ m.ret = FALSE /\ m.addr = Zero /\ m.port = "core" /\ m.cfg = c
    BY ONLY <2>1, <2>2, <2>3, <2>4
  <2>6. m = [branch |-> m.branch, ret |-> m.ret, addr |-> m.addr, port |-> m.port, cfg |-> m.cfg]
    BY ONLY <2>1, <2>2, <2>3, <2>4
  <2>. QED  BY ONLY <2>4, <2>5, <2>6
<1>. QED  BY <1>1, <1>2 DEF Inputs, Open!Input

\* The addresses a program offers.
LEMMA SiteFacts ==
  ASSUME Tracks
  PROVE  /\ NextSite # {} => Len(calls) < MaxDepth
         /\ \A a \in NextSite : a \in Addr
         /\ NextTarget # {} => calls # <<>> /\ Len(calls) > 0
         /\ \A a \in NextTarget : a \in Addr
<1>1. calls \in Seq(Addr) /\ Len(calls) \in Nat /\ MaxDepth \in Nat
  BY ProgramAssumption DEF Tracks
<1>2. ASSUME NEW a \in NextSite  PROVE Len(calls) < MaxDepth /\ a \in Addr
  <2>1. Len(calls) < MaxDepth /\ a \in Sites[Len(calls) + 1]
    BY <1>2 DEF NextSite
  <2>2. Len(calls) + 1 \in 1 .. MaxDepth
    BY <1>1, <2>1
  <2>. QED  BY <2>1, <2>2 DEF Addr
<1>3. ASSUME NEW a \in NextTarget  PROVE calls # <<>> /\ Len(calls) > 0 /\ a \in Addr
  <2>1. calls # <<>> /\ a \in {calls[Len(calls)]} \cup Gadgets
    BY <1>3 DEF NextTarget
  <2>2. Len(calls) > 0
    BY <1>1, <2>1
  <2>3. calls[Len(calls)] \in Addr
    BY <1>1, <2>2
  <2>4. Gadgets \subseteq Addr
    BY DEF Addr
  <2>. QED  BY <2>1, <2>2, <2>3, <2>4
<1>. QED  BY <1>2, <1>3

\* A call fits into its region.
LEMMA CallFits ==
  ASSUME Open!IndInv, ProgramInv, Len(calls) < MaxDepth
  PROVE  Open!InUse < 2 * MaxPages
<1>1. Entries \in Seq(Plain) /\ Len(Entries) = Open!InUse
  BY EntriesFacts DEF ProgramInv, Budget
<1>2. Len(Entries) < MaxDepth
  BY DEF ProgramInv, Tracks
<1>3. MaxDepth \in Nat /\ MaxPages \in Nat /\ MaxDepth <= 2 * MaxPages /\ Len(Entries) \in Nat
  BY <1>1, ProgramAssumption, CrasAssumption
<1>. QED  BY ONLY <1>1, <1>2, <1>3

\* A return that is not stalled finds its entry in the slots.
LEMMA ReturnFinds ==
  ASSUME Sustained, Open!IndInv, ProgramInv, NEW in, in.ret, rdy(in), calls # <<>>, ~mismatch,
         Spilling => burst < RetBurst
  PROVE  ~empty
<1>1. /\ cnt \in Nat /\ state \in State /\ page_count \in Nat
      /\ state \in Open!DecRead \cup Open!DecBusy => page_count > 0
  BY OpenFacts
<1>2. SUFFICES ASSUME cnt = 0  PROVE FALSE
  BY DEF empty
<1>3. page_count = 0
  <2>1. ~(empty /\ page_count > 0 /\ in.ret)
    BY DEF rdy, stalled
  <2>. QED  BY <1>1, <1>2, <2>1 DEF empty
<1>4. CASE Spilling
  <2>1. /\ burst \in 0 .. RetBurst /\ burst < RetBurst
        /\ cnt + burst >= FILL_THRESH - (CASE state = "enc_pop1" -> 1
                                           [] state = "enc_pop2" -> 2
                                           [] OTHER -> 3)
    BY <1>4 DEF ProgramInv, Budget
  <2>2. FILL_THRESH \in Nat /\ RetBurst \in Nat /\ RetBurst + 3 <= FILL_THRESH
    BY StackAssumption, ProgramAssumption DEF Sustained
  <2>. QED  BY <1>2, <2>1, <2>2
<1>5. CASE ~Spilling
  <2>1. state = "idle"
    BY <1>1, <1>3, <1>5 DEF Spilling, Refilling, State, Open!DecRead, Open!DecBusy
  <2>2. Entries \in Seq(Plain) /\ Len(Entries) = Open!InUse
    BY EntriesFacts DEF ProgramInv, Budget
  <2>3. Open!InUse = 0
    BY <1>2, <1>3, <2>1 DEF Open!InUse, Open!Flying
  <2>4. Entries = <<>>
    BY ONLY <2>2, <2>3
  <2>5. Entries = calls
    BY DEF ProgramInv, Tracks
  <2>. QED  BY <2>4, <2>5
<1>. QED  BY <1>4, <1>5

------------------------------------------------------------------------------
(* The actions: what each does to the invariant, and to ReturnStack. *)

Kept == Open!IndInv' /\ ProgramInv'

\* A cycle that neither calls nor returns.
LEMMA IdleStep ==
  ASSUME Sustained, Open!IndInv, ProgramInv, NEW in, Inputs(in), Clock(in), Spend(FALSE, 0),
         UNCHANGED <<calls, hijacked>>, ~rdy(in) \/ (~in.branch /\ ~in.ret),
         in.branch => Len(calls) < MaxDepth
  PROVE  Kept /\ Entries' = Entries /\ mismatch' = mismatch
<1>1. Paced(in)
  BY DEF Paced, Spend
<1>2. ~Called(in) /\ ~Returned(in)
  BY DEF Called, Returned
<1>3. in.branch => Open!InUse < 2 * MaxPages
  BY CallFits
<1>4. /\ Open!IndInv' /\ Encrypts' /\ Decrypts' /\ Budget' /\ RAS_ena'
      /\ Entries' = Entries /\ mismatch' = mismatch
  BY <1>1, <1>2, <1>3, CycleStep
<1>5. Tracks'
  BY <1>4 DEF ProgramInv, Tracks
<1>. QED  BY <1>4, <1>5 DEF Kept, ProgramInv

LEMMA WorkStep ==
  ASSUME Sustained, Open!IndInv, ProgramInv, NEW p \in Ports, Work(p)
  PROVE  Kept /\ Entries' = Entries /\ mismatch' = mismatch
<1>1. Inputs(Nop(p)) /\ ~Nop(p).branch /\ ~Nop(p).ret
  BY NopFacts
<1>2. Clock(Nop(p)) /\ Spend(FALSE, 0) /\ UNCHANGED <<calls, hijacked>>
  BY DEF Work
<1>. QED  BY <1>1, <1>2, IdleStep

LEMMA WaitStep ==
  ASSUME Sustained, Open!IndInv, ProgramInv, NEW in, Inputs(in), Wait(in),
         in.branch => Len(calls) < MaxDepth
  PROVE  Kept /\ Entries' = Entries /\ mismatch' = mismatch
<1>1. ~rdy(in) /\ Clock(in) /\ Spend(FALSE, 0) /\ UNCHANGED <<calls, hijacked>>
  BY DEF Wait
<1>. QED  BY <1>1, IdleStep

LEMMA ConfigureStep ==
  ASSUME Sustained, Open!IndInv, ProgramInv, NEW c \in Cfgs, Configure(c)
  PROVE  Kept /\ Entries' = Entries /\ mismatch' = mismatch
<1>. DEFINE in == [Nop("core") EXCEPT !.cfg = c]
<1>1. /\ state = "idle" /\ ~over_thresh /\ page_count = 0
      /\ Clock(in) /\ Spend(FALSE, 0) /\ UNCHANGED <<calls, hijacked>>
  BY DEF Configure, Sustained
<1>2. Inputs(in) /\ ~in.branch /\ ~in.ret
  BY <1>1, ConfigFacts
<1>. HIDE DEF in
<1>. QED  BY <1>1, <1>2, IdleStep

\* A call: on top of the entries, unless the alarm is up.
LEMMA CallStep ==
  ASSUME Sustained, Open!IndInv, ProgramInv, NEW p \in Ports, NEW a \in Addr, MakeCall(a, p),
         Len(calls) < MaxDepth
  PROVE  /\ Kept /\ mismatch' = mismatch
         /\ Entries' = IF mismatch THEN Entries ELSE Append(Entries, a)
<1>. DEFINE in == Call(a, p)
<1>1. Inputs(in) /\ in.branch /\ ~in.ret /\ in.addr = a
  BY CallFacts
<1>2. /\ rdy(in) /\ Clock(in) /\ Spend(Refilling, CallBurst)
      /\ calls' = Append(calls, a) /\ hijacked' = hijacked
  BY DEF MakeCall
<1>. HIDE DEF in
<1>3. Paced(in)
  <2>1. Refilling \in BOOLEAN /\ ~(Refilling /\ Spilling)
    BY DEF Refilling, Spilling
  <2>2. /\ Refilling => burst < CallBurst
        /\ burst' = IF state' \in {"idle", "enc_pop1"} \/ state = "idle" THEN 0
                    ELSE IF Refilling THEN burst + 1 ELSE burst
    BY <1>2 DEF Spend
  <2>. HIDE DEF Refilling, Spilling
  <2>. QED  BY <1>1, <2>1, <2>2 DEF Paced
<1>4. /\ Open!IndInv' /\ Encrypts' /\ Decrypts' /\ Budget' /\ RAS_ena'
      /\ Entries \in Seq(Plain)
      /\ Called(in) => Entries' = Append(Entries, in.addr) /\ mismatch' = mismatch
      /\ ~Called(in) /\ ~Returned(in) => Entries' = Entries /\ mismatch' = mismatch
  BY <1>1, <1>2, <1>3, CallFits, CycleStep
<1>5. (Called(in) <=> ~mismatch) /\ ~Returned(in)
  BY <1>1, <1>2 DEF Called, Returned
<1>6. mismatch' = mismatch /\ Entries' = IF mismatch THEN Entries ELSE Append(Entries, a)
  BY <1>1, <1>4, <1>5
<1>7. Tracks'
  <2>1. /\ calls \in Seq(Addr) /\ Len(calls) <= MaxDepth
        /\ ~mismatch => ~hijacked /\ Entries = calls
        /\ mismatch  => hijacked /\ Len(Entries) < MaxDepth
    BY DEF ProgramInv, Tracks
  <2>2. Len(calls) \in Nat /\ MaxDepth \in Nat
    BY <2>1, ProgramAssumption
  <2>3. calls' \in Seq(Addr) /\ Len(calls') <= MaxDepth
    BY <1>2, <2>1, <2>2
  <2>4. ~mismatch' => ~hijacked' /\ Entries' = calls'
    BY <1>2, <1>6, <2>1
  <2>5. mismatch' => hijacked' /\ Len(Entries') < MaxDepth
    BY <1>2, <1>6, <2>1
  <2>. QED  BY <1>4, <2>3, <2>4, <2>5 DEF Tracks
<1>. QED  BY <1>4, <1>6, <1>7 DEF Kept, ProgramInv

\* A return: the alarm goes up if and only if it goes elsewhere.
LEMMA ReturnStep ==
  ASSUME Sustained, Open!IndInv, ProgramInv, NEW p \in Ports, NEW a \in Addr, MakeReturn(a, p),
         calls # <<>>
  PROVE  /\ Kept
         /\ mismatch => mismatch' = mismatch /\ Entries' = Entries
         /\ ~mismatch => /\ Entries # <<>>
                         /\ Entries' = SubSeq(Entries, 1, Len(Entries) - 1)
                         /\ mismatch' = (a # Entries[Len(Entries)])
<1>. DEFINE in == Ret(a, p)
<1>1. Inputs(in) /\ ~in.branch /\ in.ret /\ in.addr = a
  BY RetFacts
<1>2. /\ rdy(in) /\ Clock(in) /\ Spend(Spilling, RetBurst)
      /\ calls' = SubSeq(calls, 1, Len(calls) - 1)
      /\ hijacked' = (hijacked \/ a # calls[Len(calls)])
  BY DEF MakeReturn
<1>. HIDE DEF in
<1>3. /\ Spilling => burst < RetBurst
      /\ burst' = IF state' \in {"idle", "enc_pop1"} \/ state = "idle" THEN 0
                  ELSE IF Spilling THEN burst + 1 ELSE burst
  BY <1>2 DEF Spend
<1>4. Paced(in)
  <2>1. Spilling \in BOOLEAN /\ ~(Refilling /\ Spilling)
    BY DEF Refilling, Spilling
  <2>. HIDE DEF Refilling, Spilling
  <2>. QED  BY <1>1, <1>3, <2>1 DEF Paced
<1>5. /\ Open!IndInv' /\ Encrypts' /\ Decrypts' /\ Budget' /\ RAS_ena'
      /\ Entries \in Seq(Plain)
      /\ Returned(in) =>
           /\ Entries' = SubSeq(Entries, 1, Len(Entries) - 1)
           /\ mismatch' = (mismatch \/ in.addr # Entries[Len(Entries)])
      /\ ~Called(in) /\ ~Returned(in) => Entries' = Entries /\ mismatch' = mismatch
  BY <1>1, <1>2, <1>4, CycleStep
<1>6. ~mismatch => ~empty
  BY <1>1, <1>2, <1>3, ReturnFinds
<1>7. (Returned(in) <=> ~mismatch) /\ ~Called(in)
  BY <1>1, <1>2, <1>6 DEF Called, Returned
<1>8. /\ calls \in Seq(Addr) /\ Len(calls) <= MaxDepth /\ Len(calls) > 0 /\ Len(calls) \in Nat
      /\ MaxDepth \in Nat /\ mismatch \in BOOLEAN
      /\ ~mismatch => ~hijacked /\ Entries = calls
      /\ mismatch  => hijacked /\ Len(Entries) < MaxDepth
  BY ProgramAssumption, OpenFacts DEF ProgramInv, Tracks
<1>9. mismatch => mismatch' = mismatch /\ Entries' = Entries
  BY <1>5, <1>7
<1>10. ~mismatch => /\ Entries # <<>>
                    /\ Entries' = SubSeq(Entries, 1, Len(Entries) - 1)
                    /\ mismatch' = (a # Entries[Len(Entries)])
  BY <1>1, <1>5, <1>7, <1>8
<1>11. Tracks'
  <2>1. /\ calls' \in Seq(Addr) /\ Len(calls') = Len(calls) - 1
    BY <1>2, <1>8, FrontFacts
  <2>2. ~mismatch => Entries' = calls'
    BY <1>2, <1>8, <1>10
  <2>3. CASE mismatch
    <3>1. mismatch' = mismatch /\ hijacked' /\ Len(Entries') < MaxDepth /\ Len(calls') <= MaxDepth
      <4>1. mismatch' = mismatch /\ Entries' = Entries /\ hijacked /\ Len(Entries) < MaxDepth
        BY <1>8, <1>9, <2>3
      <4>2. hijacked'
        BY <1>2, <4>1
      <4>3. Len(calls') <= MaxDepth
        BY ONLY <1>8, <2>1
      <4>. QED  BY ONLY <4>1, <4>2, <4>3
    <3>. QED  BY <1>5, <2>1, <2>3, <3>1 DEF Tracks
  <2>4. CASE ~mismatch
    <3>1. mismatch' = (a # calls[Len(calls)]) /\ hijacked' = (a # calls[Len(calls)])
      BY <1>2, <1>8, <1>10, <2>4
    <3>2. Len(Entries') < MaxDepth /\ Len(calls') <= MaxDepth
      BY <1>8, <2>1, <2>2, <2>4
    <3>. QED  BY <1>5, <2>1, <2>2, <2>4, <3>1, <3>2 DEF Tracks
  <2>. QED  BY <2>3, <2>4
<1>. QED  BY <1>5, <1>9, <1>10, <1>11 DEF Kept, ProgramInv

\* Every step of a program, and what ReturnStack makes of it.
LEMMA NextStep ==
  ASSUME Sustained, Open!IndInv, ProgramInv, Next
  PROVE  Kept /\ [Abs!Next]_Abs!vars
<1>. DEFINE Stutter == Entries' = Entries /\ mismatch' = mismatch
<1>1. Stutter => UNCHANGED Abs!vars
  BY DEF Entries, Abs!vars
<1>2. Tracks /\ mismatch \in BOOLEAN
  BY OpenFacts DEF ProgramInv
<1>3. ASSUME NEW p \in Ports, Work(p)  PROVE Kept /\ Stutter
  BY <1>3, WorkStep
<1>4. ASSUME NEW p \in Ports, NEW a \in NextSite, Wait(Call(a, p))  PROVE Kept /\ Stutter
  <2>1. a \in Addr /\ Len(calls) < MaxDepth
    BY <1>2, SiteFacts
  <2>2. Inputs(Call(a, p))
    BY <2>1, CallFacts
  <2>. QED  BY <1>4, <2>1, <2>2, WaitStep
<1>5. ASSUME NEW p \in Ports, NEW a \in NextTarget, Wait(Ret(a, p))  PROVE Kept /\ Stutter
  <2>1. a \in Addr
    BY <1>2, SiteFacts
  <2>2. Inputs(Ret(a, p)) /\ ~Ret(a, p).branch
    BY <2>1, RetFacts
  <2>. QED  BY <1>5, <2>2, WaitStep
<1>6. ASSUME NEW c \in Cfgs, Configure(c)  PROVE Kept /\ Stutter
  BY <1>6, ConfigureStep
<1>7. ASSUME NEW p \in Ports, NEW a \in NextSite, MakeCall(a, p)
      PROVE  Kept /\ (Stutter \/ Abs!Next)
  <2>1. a \in Addr /\ Len(calls) < MaxDepth
    BY <1>2, SiteFacts
  <2>2. /\ Kept /\ mismatch' = mismatch
        /\ Entries' = IF mismatch THEN Entries ELSE Append(Entries, a)
    BY <1>7, <2>1, CallStep
  <2>3. ~mismatch => Abs!Call(a)
    BY <2>2 DEF Abs!Call, Entries
  <2>. QED  BY <2>1, <2>2, <2>3 DEF Abs!Next
<1>8. ASSUME NEW p \in Ports, NEW a \in NextTarget, MakeReturn(a, p)
      PROVE  Kept /\ (Stutter \/ Abs!Next)
  <2>1. a \in Addr /\ calls # <<>>
    BY <1>2, SiteFacts
  <2>2. /\ Kept
        /\ mismatch => mismatch' = mismatch /\ Entries' = Entries
        /\ ~mismatch => /\ Entries # <<>>
                        /\ Entries' = SubSeq(Entries, 1, Len(Entries) - 1)
                        /\ mismatch' = (a # Entries[Len(Entries)])
    BY <1>8, <2>1, ReturnStep
  <2>3. ~mismatch => Abs!Return(a)
    BY <2>2 DEF Abs!Return, Entries
  <2>. QED  BY <2>1, <2>2, <2>3 DEF Abs!Next
<1>. HIDE DEF Stutter
<1>. QED  BY <1>1, <1>3, <1>4, <1>5, <1>6, <1>7, <1>8 DEF Next

\* A step that changes nothing.
LEMMA StutterStep ==
  ASSUME Open!IndInv, ProgramInv, UNCHANGED vars
  PROVE  Kept /\ UNCHANGED Abs!vars
<1>1. UNCHANGED crasVars /\ UNCHANGED <<calls, hijacked, burst>>
  BY DEF vars
<1>2. Open!IndInv'
  <2>1. UNCHANGED Open!crasVars
    BY <1>1 DEF crasVars, stackVars, simonVars, fsmVars, cfgVars, memVars,
                Open!crasVars, Open!stackVars, Open!simonVars, Open!fsmVars, Open!cfgVars, Open!memVars
  <2>. QED  BY <2>1, OpenAssumptions, Open!IndInvStep
<1>3. /\ UNCHANGED <<data, cnt, mismatch, scur, round, ready_o, pt_r, skey>>
      /\ UNCHANGED <<state, pt_i, cur_addr, page_count, dec_read_last, RAS_ena, base_addr, key_i, mem, mem_dout>>
  BY <1>1 DEF crasVars, stackVars, simonVars, fsmVars, cfgVars, memVars
<1>4. Entries' = Entries
  BY <1>3 DEF Entries, InMemory, InFlight, InStack, Pages, Decrypt, ct_o
<1>5. Encrypts' /\ Decrypts'
  BY <1>3 DEF ProgramInv, Encrypts, Decrypts, Upper, Lower, valid_o, CipherOf, Decrypt
<1>6. Budget' /\ Tracks'
  BY <1>1, <1>3, <1>4 DEF ProgramInv, Budget, Tracks, Refilling, Spilling
<1>. QED  BY <1>2, <1>3, <1>4, <1>5, <1>6 DEF Kept, ProgramInv, Entries, Abs!vars

LEMMA ProgramInit == Init => Open!IndInv /\ ProgramInv /\ Abs!Init
<1>. SUFFICES ASSUME Init  PROVE Open!IndInv /\ ProgramInv /\ Abs!Init
  OBVIOUS
<1>1. CrasInit /\ calls = <<>> /\ hijacked = FALSE /\ burst = 0
  BY DEF Init
<1>2. Open!IndInv
  BY <1>1, OpenInit
<1>3. /\ cnt = 0 /\ mismatch = FALSE /\ state = "idle" /\ page_count = 0 /\ RAS_ena = TRUE
  BY <1>1 DEF CrasInit, StackInit
<1>4. Encrypts /\ Decrypts
  BY <1>3 DEF Encrypts, Decrypts, Writing, Pushing
<1>5. Budget
  BY <1>3, StackAssumption DEF Budget, Refilling, Spilling
<1>6. Entries = <<>>
  <2>1. Entries \in Seq(Plain) /\ Len(Entries) = Open!InUse
    BY <1>2, <1>4, <1>5, EntriesFacts DEF Budget
  <2>2. Open!InUse = 0
    BY <1>3 DEF Open!InUse, Open!Flying
  <2>. QED  BY ONLY <2>1, <2>2
<1>7. Tracks
  BY <1>1, <1>3, <1>6, ProgramAssumption DEF Tracks
<1>8. Abs!Init
  BY <1>3, <1>6 DEF Abs!Init, Entries
<1>. QED  BY <1>2, <1>4, <1>5, <1>7, <1>8 DEF ProgramInv

LEMMA ProgramInvAlways == ASSUME Sustained PROVE Spec => [](Open!IndInv /\ ProgramInv)
<1>1. Init => Open!IndInv /\ ProgramInv
  BY ProgramInit
<1>2. Open!IndInv /\ ProgramInv /\ [Next]_vars => Open!IndInv' /\ ProgramInv'
  BY NextStep, StutterStep DEF Kept
<1>. QED  BY <1>1, <1>2, PTL DEF Spec

------------------------------------------------------------------------------
(* Theorems. *)

\* The alarm is up if and only if a return was tampered with, however deep
\* the calls nest and whatever of them is in memory, on its way there or on
\* its way back when the return is made (CRAS_top.sv, ra_stack.sv).
THEOREM AlarmIsExact == ASSUME Sustained PROVE Spec => []AlarmExact
<1>1. Open!IndInv /\ ProgramInv => AlarmExact
  <2>. SUFFICES ASSUME Open!IndInv, ProgramInv  PROVE AlarmExact
    OBVIOUS
  <2>. QED  BY OpenFacts DEF ProgramInv, Tracks, AlarmExact
<1>. QED  BY <1>1, ProgramInvAlways, PTL

\* Slots, pair and encrypted pages together are one unbounded stack: a step
\* of the hardware is a call, a return, or none of a program's business.
THEOREM CrasIsStack == ASSUME Sustained PROVE Spec => Implements
<1>1. Init => Abs!Init
  BY ProgramInit
<1>2. Open!IndInv /\ ProgramInv /\ [Next]_vars => [Abs!Next]_Abs!vars
  BY NextStep, StutterStep
<1>. QED  BY <1>1, <1>2, ProgramInvAlways, PTL DEF Spec, Implements, Abs!Spec
=============================================================================
