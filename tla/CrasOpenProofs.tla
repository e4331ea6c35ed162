--------------------------- MODULE CrasOpenProofs ---------------------------
(***************************************************************************)
(* Proofs about CrasOpen, for all depths, thresholds, round counts, keys,  *)
(* addresses and every behaviour of the core.                              *)
(***************************************************************************)
EXTENDS CrasOpen, TLAPS

StackRec == [data : [Slot -> Word], cnt : Int, mismatch : BOOLEAN]

\* The counters an operation at the top can leave.
TopCounts(c, push) ==
  {c} \cup (IF push THEN {c + 1} ELSE {}) \cup (IF empty THEN {} ELSE {c - 1})

\* The operation at the top moves the counter by one at most, down only when
\* there is an entry and up only for a call.
LEMMA TopOpStep ==
  ASSUME NEW s \in StackRec, NEW ena \in BOOLEAN, NEW push \in BOOLEAN,
         NEW ret \in BOOLEAN, NEW din \in Word, NEW oob \in Word
  PROVE  /\ TopOp(s, ena, push, ret, din, oob) \in StackRec
         /\ TopOp(s, ena, push, ret, din, oob).cnt \in TopCounts(s.cnt, push)
<1> DEFINE t == TopOp(s, ena, push, ret, din, oob)
<1>1. CASE ena /\ ~mismatch /\ push /\ ~full
  <2>1. t = stack_push(s, din)
    BY <1>1 DEF TopOp
  <2> QED BY <2>1, <1>1 DEF stack_push, Store, StackRec, TopCounts
<1>2. CASE ena /\ ~mismatch /\ ~(push /\ ~full) /\ ret /\ ~empty
  <2>1. t = stack_pop(s, din, oob)
    BY <1>2 DEF TopOp
  <2> QED BY <2>1, <1>2, StackAssumption DEF stack_pop, Store, StackRec, Slot, TopCounts
<1>3. CASE /\ ~(ena /\ ~mismatch /\ push /\ ~full)
           /\ ~(ena /\ ~mismatch /\ ~(push /\ ~full) /\ ret /\ ~empty)
  <2>1. t = s
    BY <1>3 DEF TopOp
  <2> QED BY <2>1 DEF TopCounts
<1> QED BY <1>1, <1>2, <1>3

\* The operation at the bottom takes an entry for a spill if there is one, and
\* adds one for a refill or drops it.
LEMMA BottomOpStep ==
  ASSUME NEW s \in StackRec, NEW push \in BOOLEAN, NEW pushb \in BOOLEAN,
         NEW popb \in BOOLEAN, NEW din \in Word, ~(pushb /\ popb)
  PROVE  LET t == BottomOp(s, push, pushb, popb, din)
         IN  /\ t \in StackRec
             /\ pushb => t.cnt \in {s.cnt, s.cnt + 1}
             /\ popb  => t.cnt = IF empty THEN s.cnt ELSE s.cnt - 1
             /\ ~pushb /\ ~popb => t.cnt = s.cnt
<1> DEFINE t == BottomOp(s, push, pushb, popb, din)
           room == ~full /\ ~(s.cnt = DEPTH - 1 /\ push)
<1>1. CASE pushb /\ room
  <2>1. t = stack_push_bottom(s, din)
    BY <1>1 DEF BottomOp
  <2> QED BY <2>1, <1>1, StackAssumption DEF stack_push_bottom, StackRec, Slot
<1>2. CASE ~(pushb /\ room) /\ popb /\ ~empty
  <2>1. t = stack_pop_bottom(s)
    BY <1>2 DEF BottomOp
  <2> QED BY <2>1, <1>2, StackAssumption DEF stack_pop_bottom, StackRec, Slot
<1>3. CASE ~(pushb /\ room) /\ ~(popb /\ ~empty)
  <2>1. t = s
    BY <1>3 DEF BottomOp
  <2> QED BY <2>1, <1>3
<1> QED BY <1>1, <1>2, <1>3

\* One clock edge of the stack.
LEMMA StackClockStep ==
  ASSUME StackTypeOK, NEW ena \in BOOLEAN, NEW push \in BOOLEAN,
         NEW ret \in BOOLEAN, NEW din \in Word, NEW pushb \in BOOLEAN,
         NEW popb \in BOOLEAN, NEW dinb \in Word, ~(pushb /\ popb),
         StackClock(ena, push, ret, din, pushb, popb, dinb)
  PROVE  /\ StackTypeOK'
         /\ \E c \in {cnt, cnt + 1, cnt - 1} :
              /\ c = cnt + 1 => push
              /\ c = cnt - 1 => ~empty
              /\ pushb => cnt' \in {c, c + 1}
              /\ popb  => cnt' = IF empty THEN c ELSE c - 1
              /\ ~pushb /\ ~popb => cnt' = c
<1> DEFINE s0 == [data |-> data, cnt |-> cnt, mismatch |-> mismatch]
<1>1. PICK oob \in Word :
         LET s1 == TopOp(s0, ena, push, ret, din, oob)
             s2 == BottomOp(s1, push, pushb, popb, dinb)
         IN  data' = s2.data /\ cnt' = s2.cnt /\ mismatch' = s2.mismatch
  BY StackAssumption DEF StackClock
<1> DEFINE s1 == TopOp(s0, ena, push, ret, din, oob)
           s2 == BottomOp(s1, push, pushb, popb, dinb)
<1>2. s0 \in StackRec /\ s0.cnt = cnt
  BY DEF StackTypeOK, StackRec
<1> HIDE DEF s0
<1>3. s1 \in StackRec /\ s1.cnt \in TopCounts(s0.cnt, push)
  BY <1>2, TopOpStep
<1> HIDE DEF s1
<1>4. /\ s2 \in StackRec
      /\ pushb => s2.cnt \in {s1.cnt, s1.cnt + 1}
      /\ popb  => s2.cnt = IF empty THEN s1.cnt ELSE s1.cnt - 1
      /\ ~pushb /\ ~popb => s2.cnt = s1.cnt
  BY <1>3, BottomOpStep
<1>5. data' = s2.data /\ cnt' = s2.cnt /\ mismatch' = s2.mismatch
  BY <1>1 DEF s0, s1
<1> HIDE DEF s2
<1>6. StackTypeOK'
  BY <1>4, <1>5 DEF StackTypeOK, StackRec
<1>7. \E c \in {cnt, cnt + 1, cnt - 1} :
        /\ c = cnt + 1 => push
        /\ c = cnt - 1 => ~empty
        /\ pushb => cnt' \in {c, c + 1}
        /\ popb  => cnt' = IF empty THEN c ELSE c - 1
        /\ ~pushb /\ ~popb => cnt' = c
  <2>1. /\ s1.cnt \in {cnt, cnt + 1, cnt - 1}
        /\ s1.cnt = cnt + 1 => push
        /\ s1.cnt = cnt - 1 => ~empty
    BY <1>2, <1>3 DEF TopCounts, StackTypeOK
  <2> QED BY <2>1, <1>4, <1>5
<1> QED BY <1>6, <1>7

------------------------------------------------------------------------------
(* The cipher: what the two directions return. *)

Sealed == Cipher \cup {Junk}

\* The cipher puts a block of two plaintext words into two ciphertext words.
LEMMA CipherOfType ==
  ASSUME NEW b \in Plain \X Plain, NEW k \in Key
  PROVE  /\ CipherOf(b, k) \in Cipher \X Cipher
         /\ CipherOf(b, k)[1].block = b
         /\ CipherOf(b, k)[2].block = b
BY DEF CipherOf, Cipher

\* An encryption (the rounds from S_ENC_RUN on) returns nothing in the clear.
LEMMA EncryptType ==
  ASSUME NEW p, NEW k \in Key
  PROVE  Encrypt(p, k) \in Sealed \X Sealed
<1>1. CASE p \in Plain \X Plain
  BY <1>1, CipherOfType DEF Encrypt, Sealed
<1>2. CASE p \notin Plain \X Plain
  BY <1>2 DEF Encrypt, Sealed
<1> QED BY <1>1, <1>2

\* A decryption (the rounds from S_DEC_RUN on) returns plaintext words, so that
\* what a refill pushes is one.
LEMMA DecryptType ==
  ASSUME NEW c, NEW k \in Key
  PROVE  Decrypt(c, k) \in Plain \X Plain
<1>1. CASE /\ c \in Cipher \X Cipher
           /\ c = <<CipherOf(c[1].block, k)[2], CipherOf(c[1].block, k)[1]>>
  <2>1. c[1].block \in Plain \X Plain
    BY <1>1 DEF Cipher
  <2>2. Decrypt(c, k) = <<c[1].block[2], c[1].block[1]>>
    BY <1>1 DEF Decrypt
  <2> QED BY <2>1, <2>2
<1>2. CASE ~(/\ c \in Cipher \X Cipher
             /\ c = <<CipherOf(c[1].block, k)[2], CipherOf(c[1].block, k)[1]>>)
  BY <1>2, SimonAssumption DEF Decrypt
<1> QED BY <1>1, <1>2

------------------------------------------------------------------------------
(* The crypto core and the state machine that drives it. *)

\* The round counter does not run past the last round.
RoundsLeft == scur \in {"S_ENC_RUN", "S_DEC_KEY_RUN", "S_DEC_RUN"} => round < N_ROUNDS

\* What the data register holds once a pass is over.
Results ==
  /\ state = "enc_wait" /\ valid_o => pt_r \in Sealed \X Sealed
  /\ state \in {"enc_write_lower", "enc_write_upper"} => pt_r \in Sealed \X Sealed
  /\ state = "dec_wait" /\ valid_o => pt_r \in Plain \X Plain
  /\ state \in {"dec_push1", "dec_push2"} => pt_r \in Plain \X Plain

SimonInv == SimonTypeOK /\ Lockstep /\ RoundsLeft /\ Results

\* The states in which nothing is, or has been, asked of the crypto core.
AtRest == {"idle", "enc_pop1", "enc_pop2", "dec_read_upper", "dec_read_lower",
           "dec_read_lower_2"}

\* What a step of the state machine may do to its state.
StateStep ==
  /\ state \in State /\ state' \in State
  /\ state \in AtRest \ {"enc_pop2", "dec_read_lower_2"} => state' \in AtRest
  /\ state = "enc_write_upper" => state' \in {"enc_write_upper", "enc_pop1", "idle"}
  /\ state = "dec_push2" => state' = "idle"
  /\ state = "enc_pop2" => state' = "enc_begin"
  /\ state = "dec_read_lower_2" => state' = "dec_begin"
  /\ state = "enc_begin" => state' = IF ready_o THEN "enc_wait" ELSE "enc_begin"
  /\ state = "dec_begin" => state' = IF ready_o THEN "dec_wait" ELSE "dec_begin"
  /\ state = "enc_wait" => state' = IF valid_o THEN "enc_write_lower" ELSE "enc_wait"
  /\ state = "dec_wait" => state' = IF valid_o THEN "dec_push1" ELSE "dec_wait"
  /\ state = "enc_write_lower" => state' \in {"enc_write_lower", "enc_write_upper"}
  /\ state = "dec_push1" => state' = "dec_push2"

\* The successors of each state of CRAS_top's state machine.
LEMMA FsmStateStep ==
  ASSUME NEW in \in Input, FsmEdge(in)
  PROVE  StateStep
<1> USE DEF StateStep, State, AtRest
<1>1. CASE Idle
  BY <1>1 DEF Idle
<1>2. CASE Handshake
  <2>1. CASE Goto("enc_begin", ready_o, "enc_wait")
    BY <2>1 DEF Goto
  <2>2. CASE Goto("enc_wait", valid_o, "enc_write_lower")
    BY <2>2 DEF Goto
  <2>3. CASE Goto("dec_begin", ready_o, "dec_wait")
    BY <2>3 DEF Goto
  <2>4. CASE Goto("dec_wait", valid_o, "dec_push1")
    BY <2>4 DEF Goto
  <2>5. CASE Goto("dec_push1", TRUE, "dec_push2")
    BY <2>5 DEF Goto
  <2> QED BY <1>2, <2>1, <2>2, <2>3, <2>4, <2>5 DEF Handshake
<1>3. CASE EncPop1
  <2>1. Goto("enc_pop1", TRUE, "enc_pop2")
    BY <1>3 DEF EncPop1
  <2> QED BY <2>1 DEF Goto
<1>4. CASE EncPop2
  <2>1. Goto("enc_pop2", TRUE, "enc_begin")
    BY <1>4 DEF EncPop2
  <2> QED BY <2>1 DEF Goto
<1>5. CASE EncWriteLower(in)
  <2>1. Goto("enc_write_lower", mem_rdy(in), "enc_write_upper")
    BY <1>5 DEF EncWriteLower
  <2> QED BY <2>1 DEF Goto
<1>6. CASE EncWriteUpper(in)
  <2>1. Goto("enc_write_upper", mem_rdy(in), IF over_thresh THEN "enc_pop1" ELSE "idle")
    BY <1>6 DEF EncWriteUpper
  <2> QED BY <2>1 DEF Goto
<1>7. CASE DecReadUpper(in)
  <2>1. Goto("dec_read_upper", mem_rdy(in), "dec_read_lower")
    BY <1>7 DEF DecReadUpper
  <2> QED BY <2>1 DEF Goto
<1>8. CASE DecReadLower(in)
  <2>1. Goto("dec_read_lower", mem_rdy(in), "dec_read_lower_2")
    BY <1>8 DEF DecReadLower
  <2> QED BY <2>1 DEF Goto
<1>9. CASE DecReadLower2
  <2>1. Goto("dec_read_lower_2", TRUE, "dec_begin")
    BY <1>9 DEF DecReadLower2
  <2> QED BY <2>1 DEF Goto
<1>10. CASE DecPush2
  <2>1. Goto("dec_push2", TRUE, "idle")
    BY <1>10 DEF DecPush2
  <2> QED BY <2>1 DEF Goto
<1> QED
  BY <1>1, <1>2, <1>3, <1>4, <1>5, <1>6, <1>7, <1>8, <1>9, <1>10 DEF FsmEdge

\* The signals to the crypto core, by the state of the state machine.
LEMMA SimonSignals ==
  /\ valid_i <=> state = "dec_begin" \/ (state = "enc_begin" /\ ~ready_o)
  /\ mode_i = IF state = "dec_begin" THEN "dec" ELSE "enc"
  /\ ready_i <=> state \in {"enc_wait", "dec_wait"} /\ valid_o
BY DEF valid_i, mode_i, ready_i

\* An edge keeps the crypto core's registers in their types, its rounds within
\* the pass and its results sealed after an encryption, plain after a decryption.
LEMMA SimonTypeStep ==
  ASSUME SimonTypeOK, RoundsLeft, SimonEdge, pt_i \in MemWord \X MemWord, key_i \in Key
  PROVE  SimonTypeOK' /\ RoundsLeft'
<1> USE DEF SimonTypeOK, RoundsLeft, SimonState
<1>n. N_ROUNDS \in Nat \ {0}
  BY SimonAssumption
<1>1. CASE SIdle(valid_i, mode_i)
  <2>1. scur' \in {"S_IDLE", "S_ENC_PRE", "S_DEC_PRE_KEY"}
    <3>1. mode_i \in {"enc", "dec"} /\ valid_i \in BOOLEAN
      BY DEF mode_i, valid_i
    <3> QED BY <1>1, <3>1 DEF SIdle
  <2> QED BY <1>1, <2>1 DEF SIdle
<1>2. CASE SEncPre(pt_i, key_i)
  BY <1>2, <1>n DEF SEncPre
<1>3. CASE SDecPreKey(key_i)
  <2>1. scur' = "S_DEC_KEY_RUN" /\ round' = 0 /\ ready_o' = FALSE /\ pt_r' = pt_r /\ skey' = key_i
    BY <1>3 DEF SDecPreKey
  <2>2. pt_r' \in MemWord \X MemWord /\ skey' \in Key
    BY <2>1
  <2>3. round' \in 0 .. N_ROUNDS /\ scur' \in SimonState /\ RoundsLeft'
    BY <2>1, <1>n
  <2> QED BY <2>1, <2>2, <2>3
<1>4. CASE SDecPre(pt_i)
  <2>1. scur' = "S_DEC_RUN" /\ round' = 0 /\ ready_o' = TRUE /\ pt_r' = pt_i /\ skey' = skey
    BY <1>4 DEF SDecPre
  <2> QED BY <2>1, <1>n
<1>5. CASE SRound("S_ENC_RUN", "S_OUTPUT", Encrypt(pt_r, skey))
  <2>1. Encrypt(pt_r, skey) \in MemWord \X MemWord
    BY EncryptType, SimonAssumption DEF Sealed, MemWord
  <2>2. /\ scur = "S_ENC_RUN"
        /\ scur' = IF round = N_ROUNDS - 1 THEN "S_OUTPUT" ELSE "S_ENC_RUN"
        /\ round' = round + 1 /\ ready_o' = FALSE /\ skey' = skey
        /\ pt_r' \in {Encrypt(pt_r, skey), pt_r}
    BY <1>5 DEF SRound, lastRound
  <2>3. round \in 0 .. N_ROUNDS - 1
    BY <2>2, <1>n
  <2>4. round' \in 0 .. N_ROUNDS /\ RoundsLeft'
    BY <2>2, <2>3, <1>n
  <2>5. scur' \in SimonState /\ pt_r' \in MemWord \X MemWord
    BY <2>1, <2>2
  <2> QED BY <2>2, <2>4, <2>5
<1>6. CASE SRound("S_DEC_KEY_RUN", "S_DEC_PRE", pt_r)
  <2>1. pt_r \in MemWord \X MemWord
    OBVIOUS
  <2>2. /\ scur = "S_DEC_KEY_RUN"
        /\ scur' = IF round = N_ROUNDS - 1 THEN "S_DEC_PRE" ELSE "S_DEC_KEY_RUN"
        /\ round' = round + 1 /\ ready_o' = FALSE /\ skey' = skey
        /\ pt_r' \in {pt_r, pt_r}
    BY <1>6 DEF SRound, lastRound
  <2>3. round \in 0 .. N_ROUNDS - 1
    BY <2>2, <1>n
  <2>4. round' \in 0 .. N_ROUNDS /\ RoundsLeft'
    BY <2>2, <2>3, <1>n
  <2>5. scur' \in SimonState /\ pt_r' \in MemWord \X MemWord
    BY <2>1, <2>2
  <2> QED BY <2>2, <2>4, <2>5
<1>7. CASE SRound("S_DEC_RUN", "S_OUTPUT", Decrypt(pt_r, skey))
  <2>1. Decrypt(pt_r, skey) \in MemWord \X MemWord
    BY DecryptType DEF MemWord
  <2>2. /\ scur = "S_DEC_RUN"
        /\ scur' = IF round = N_ROUNDS - 1 THEN "S_OUTPUT" ELSE "S_DEC_RUN"
        /\ round' = round + 1 /\ ready_o' = FALSE /\ skey' = skey
        /\ pt_r' \in {Decrypt(pt_r, skey), pt_r}
    BY <1>7 DEF SRound, lastRound
  <2>3. round \in 0 .. N_ROUNDS - 1
    BY <2>2, <1>n
  <2>4. round' \in 0 .. N_ROUNDS /\ RoundsLeft'
    BY <2>2, <2>3, <1>n
  <2>5. scur' \in SimonState /\ pt_r' \in MemWord \X MemWord
    BY <2>1, <2>2
  <2> QED BY <2>2, <2>4, <2>5
<1>8. CASE SOutput(ready_i)
  BY <1>8 DEF SOutput
<1> QED
  BY <1>1, <1>2, <1>3, <1>4, <1>5, <1>6, <1>7, <1>8 DEF SimonEdge, SimonClock

\* The handshakes: one case per state of the state machine.
LEMMA LockstepStep ==
  ASSUME SimonInv, StateStep, SimonEdge
  PROVE  Lockstep' /\ Results'
<1> USE DEF Lockstep, Results, valid_o
<1>t. SimonTypeOK /\ Lockstep /\ Results
  BY DEF SimonInv
<1>1. CASE state \in AtRest \cup {"enc_write_lower", "enc_write_upper", "dec_push1", "dec_push2"}
  <2>1. scur = "S_IDLE" /\ ~ready_o /\ ~valid_i
    BY <1>1, <1>t, SimonSignals DEF AtRest
  <2>2. scur' = "S_IDLE" /\ ready_o' = FALSE /\ pt_r' = pt_r
    BY <2>1 DEF SimonEdge, SimonClock, SIdle, SEncPre, SRound, SDecPreKey, SDecPre, SOutput
  <2> QED BY <1>1, <1>t, <2>1, <2>2 DEF StateStep, AtRest
<1>2. CASE state = "enc_begin"
  <2>1. CASE scur = "S_IDLE"
    <3>1. valid_i /\ mode_i = "enc" /\ ~ready_o
      BY <1>2, <2>1, <1>t, SimonSignals
    <3>2. scur' = "S_ENC_PRE" /\ ready_o' = FALSE
      BY <2>1, <3>1 DEF SimonEdge, SimonClock, SIdle, SEncPre, SRound, SDecPreKey, SDecPre, SOutput
    <3> QED BY <1>2, <1>t, <3>1, <3>2 DEF StateStep
  <2>2. CASE scur = "S_ENC_PRE"
    <3>1. scur' = "S_ENC_RUN" /\ ready_o' = TRUE /\ round' = 0
      BY <2>2 DEF SimonEdge, SimonClock, SIdle, SEncPre, SRound, SDecPreKey, SDecPre, SOutput
    <3> QED BY <1>2, <1>t, <2>2, <3>1 DEF StateStep
  <2>3. CASE scur = "S_ENC_RUN"
    <3>1. /\ scur' \in {"S_ENC_RUN", "S_OUTPUT"} /\ ready_o' = FALSE
          /\ scur' = "S_OUTPUT" => pt_r' = Encrypt(pt_r, skey)
      BY <2>3 DEF SimonEdge, SimonClock, SIdle, SEncPre, SRound, SDecPreKey, SDecPre, SOutput
    <3>2. state' = "enc_wait"
      BY <1>2, <1>t, <2>3 DEF StateStep
    <3>3. Encrypt(pt_r, skey) \in Sealed \X Sealed
      BY <1>t, EncryptType DEF SimonTypeOK
    <3> QED BY <3>1, <3>2, <3>3
  <2> QED BY <1>2, <1>t, <2>1, <2>2, <2>3
<1>3. CASE state = "enc_wait"
  <2>1. CASE scur = "S_ENC_RUN"
    <3>1. /\ scur' \in {"S_ENC_RUN", "S_OUTPUT"} /\ ready_o' = FALSE
          /\ scur' = "S_OUTPUT" => pt_r' = Encrypt(pt_r, skey)
      BY <2>1 DEF SimonEdge, SimonClock, SIdle, SEncPre, SRound, SDecPreKey, SDecPre, SOutput
    <3>2. state' = "enc_wait"
      BY <1>3, <2>1 DEF StateStep
    <3>3. Encrypt(pt_r, skey) \in Sealed \X Sealed
      BY <1>t, EncryptType DEF SimonTypeOK
    <3> QED BY <3>1, <3>2, <3>3
  <2>2. CASE scur = "S_OUTPUT"
    <3>1. ready_i
      BY <1>3, <2>2, SimonSignals
    <3>2. scur' = "S_IDLE" /\ ready_o' = FALSE /\ pt_r' = pt_r
      BY <2>2, <3>1 DEF SimonEdge, SimonClock, SIdle, SEncPre, SRound, SDecPreKey, SDecPre, SOutput
    <3>3. state' = "enc_write_lower" /\ pt_r \in Sealed \X Sealed
      BY <1>3, <1>t, <2>2 DEF StateStep
    <3> QED BY <3>2, <3>3
  <2> QED BY <1>3, <1>t, <2>1, <2>2
<1>4. CASE state = "dec_begin"
  <2>1. CASE scur = "S_IDLE"
    <3>1. valid_i /\ mode_i = "dec" /\ ~ready_o
      BY <1>4, <2>1, <1>t, SimonSignals
    <3>2. scur' = "S_DEC_PRE_KEY" /\ ready_o' = FALSE
      BY <2>1, <3>1 DEF SimonEdge, SimonClock, SIdle, SEncPre, SRound, SDecPreKey, SDecPre, SOutput
    <3> QED BY <1>4, <1>t, <3>1, <3>2 DEF StateStep
  <2>2. CASE scur \in {"S_DEC_PRE_KEY", "S_DEC_KEY_RUN"}
    <3>1. scur' \in {"S_DEC_KEY_RUN", "S_DEC_PRE"} /\ ready_o' = FALSE
      BY <2>2 DEF SimonEdge, SimonClock, SIdle, SEncPre, SRound, SDecPreKey, SDecPre, SOutput
    <3> QED BY <1>4, <1>t, <2>2, <3>1 DEF StateStep
  <2>3. CASE scur = "S_DEC_PRE"
    <3>1. scur' = "S_DEC_RUN" /\ ready_o' = TRUE /\ round' = 0
      BY <2>3 DEF SimonEdge, SimonClock, SIdle, SEncPre, SRound, SDecPreKey, SDecPre, SOutput
    <3> QED BY <1>4, <1>t, <2>3, <3>1 DEF StateStep
  <2>4. CASE scur = "S_DEC_RUN"
    <3>1. /\ scur' \in {"S_DEC_RUN", "S_OUTPUT"} /\ ready_o' = FALSE
          /\ scur' = "S_OUTPUT" => pt_r' = Decrypt(pt_r, skey)
      BY <2>4 DEF SimonEdge, SimonClock, SIdle, SEncPre, SRound, SDecPreKey, SDecPre, SOutput
    <3>2. state' = "dec_wait"
      BY <1>4, <1>t, <2>4 DEF StateStep
    <3>3. Decrypt(pt_r, skey) \in Plain \X Plain
      BY <1>t, DecryptType DEF SimonTypeOK
    <3> QED BY <3>1, <3>2, <3>3
  <2> QED BY <1>4, <1>t, <2>1, <2>2, <2>3, <2>4
<1>5. CASE state = "dec_wait"
  <2>1. CASE scur = "S_DEC_RUN"
    <3>1. /\ scur' \in {"S_DEC_RUN", "S_OUTPUT"} /\ ready_o' = FALSE
          /\ scur' = "S_OUTPUT" => pt_r' = Decrypt(pt_r, skey)
      BY <2>1 DEF SimonEdge, SimonClock, SIdle, SEncPre, SRound, SDecPreKey, SDecPre, SOutput
    <3>2. state' = "dec_wait"
      BY <1>5, <2>1 DEF StateStep
    <3>3. Decrypt(pt_r, skey) \in Plain \X Plain
      BY <1>t, DecryptType DEF SimonTypeOK
    <3> QED BY <3>1, <3>2, <3>3
  <2>2. CASE scur = "S_OUTPUT"
    <3>1. ready_i
      BY <1>5, <2>2, SimonSignals
    <3>2. scur' = "S_IDLE" /\ ready_o' = FALSE /\ pt_r' = pt_r
      BY <2>2, <3>1 DEF SimonEdge, SimonClock, SIdle, SEncPre, SRound, SDecPreKey, SDecPre, SOutput
    <3>3. state' = "dec_push1" /\ pt_r \in Plain \X Plain
      BY <1>5, <1>t, <2>2 DEF StateStep
    <3> QED BY <3>2, <3>3
  <2> QED BY <1>5, <1>t, <2>1, <2>2
<1> QED BY <1>1, <1>2, <1>3, <1>4, <1>5 DEF StateStep, State, AtRest

------------------------------------------------------------------------------
(* The stack, the page counter and the address. *)

\* The entries of the stack, the pages and the transfers fit into memory.
FitsMemory == InUse <= 2 * MaxPages

\* Until a spill has popped its two entries at least these many are there.
SpillRoom ==
  /\ cnt >= 0
  /\ state = "enc_pop1" => cnt >= 4
  /\ state = "enc_pop2" => cnt >= 2

CountInv == StackTypeOK /\ state \in State /\ PageAccounting /\ FitsMemory /\ SpillRoom

\* What the bottom of the stack does, by the state of the state machine.
LEMMA StackSignals ==
  ASSUME SimonTypeOK, Results
  PROVE  /\ push_bot <=> state \in {"dec_push1", "dec_push2"}
         /\ pop_bot <=> state \in {"enc_pop1", "enc_pop2"}
         /\ push_bot \in BOOLEAN /\ pop_bot \in BOOLEAN
         /\ din_bot \in Word
<1>1. CASE state \in {"dec_push1", "dec_push2"}
  <2>1. pt_r \in Word \X Word
    BY <1>1, CrasAssumption DEF Results
  <2>2. din_bot \in {pt_r[1], pt_r[2]}
    BY <1>1 DEF din_bot, ct_o
  <2> QED BY <1>1, <2>1, <2>2 DEF push_bot, pop_bot
<1>2. CASE state \notin {"dec_push1", "dec_push2"}
  <2>1. din_bot = Zero
    BY <1>2 DEF din_bot
  <2> QED BY <1>2, <2>1, StackAssumption DEF push_bot, pop_bot
<1> QED BY <1>1, <1>2

\* How far an edge moves the counter: c is what the operation at the top leaves.
LEMMA StackEdgeStep ==
  ASSUME NEW in \in Input, StackTypeOK, SimonTypeOK, Results, StackEdge(in)
  PROVE  /\ StackTypeOK'
         /\ \E c \in {cnt, cnt + 1, cnt - 1} :
              /\ c = cnt + 1 => in.branch
              /\ c = cnt - 1 => ~empty
              /\ state \in {"dec_push1", "dec_push2"} => cnt' \in {c, c + 1}
              /\ state \in {"enc_pop1", "enc_pop2"} => cnt' = IF empty THEN c ELSE c - 1
              /\ state \notin {"dec_push1", "dec_push2", "enc_pop1", "enc_pop2"} => cnt' = c
<1> DEFINE ena  == RAS_ena /\ rdy(in)
           push == rdy(in) /\ in.branch
           ret  == rdy(in) /\ in.ret
           din  == IF rdy(in) THEN in.addr ELSE Zero
<1>1. /\ ena \in BOOLEAN /\ push \in BOOLEAN /\ ret \in BOOLEAN
      /\ push => in.branch
  BY DEF Input
<1>2. din \in Word
  BY StackAssumption, CrasAssumption, OpenAssumption DEF Input
<1>3. StackClock(ena, push, ret, din, push_bot, pop_bot, din_bot)
  BY DEF StackEdge
<1> HIDE DEF ena, push, ret, din
<1>4. /\ push_bot <=> state \in {"dec_push1", "dec_push2"}
      /\ pop_bot <=> state \in {"enc_pop1", "enc_pop2"}
      /\ push_bot \in BOOLEAN /\ pop_bot \in BOOLEAN
      /\ din_bot \in Word
  BY StackSignals
<1>5. ~(push_bot /\ pop_bot)
  BY <1>4
<1>6. /\ StackTypeOK'
      /\ \E c \in {cnt, cnt + 1, cnt - 1} :
           /\ c = cnt + 1 => push
           /\ c = cnt - 1 => ~empty
           /\ push_bot => cnt' \in {c, c + 1}
           /\ pop_bot  => cnt' = IF empty THEN c ELSE c - 1
           /\ ~push_bot /\ ~pop_bot => cnt' = c
  BY <1>1, <1>2, <1>3, <1>4, <1>5, StackClockStep, Z3T(30)
<1> QED BY <1>1, <1>4, <1>6

\* The bookkeeping of pages: one case per action of the state machine.
LEMMA CountStep ==
  ASSUME NEW in \in Input, CountInv, SimonTypeOK, Results,
         in.branch => InUse < 2 * MaxPages, StackEdge(in), FsmEdge(in)
  PROVE  CountInv'
<1>i. CountInv
  OBVIOUS
<1>a. /\ cnt \in Int /\ cnt >= 0 /\ page_count \in Nat /\ MaxPages \in Nat
      /\ FILL_THRESH \in Nat /\ FILL_THRESH >= 5
  BY <1>i, StackAssumption, CrasAssumption DEF CountInv, StackTypeOK, SpillRoom, PageAccounting
<1>1. PICK c \in {cnt, cnt + 1, cnt - 1} :
         /\ c = cnt + 1 => in.branch
         /\ c = cnt - 1 => ~empty
         /\ state \in {"dec_push1", "dec_push2"} => cnt' \in {c, c + 1}
         /\ state \in {"enc_pop1", "enc_pop2"} => cnt' = IF empty THEN c ELSE c - 1
         /\ state \notin {"dec_push1", "dec_push2", "enc_pop1", "enc_pop2"} => cnt' = c
  BY <1>i, StackEdgeStep DEF CountInv
<1>2. StackTypeOK'
  BY <1>i, StackEdgeStep DEF CountInv
<1>3. state' \in State
  BY FsmStateStep DEF StateStep
<1>4. c \in Int /\ c >= 0 /\ c >= cnt - 1 /\ c <= cnt + 1
  BY <1>1, <1>a DEF empty
<1>5. InUse + (c - cnt) <= 2 * MaxPages /\ InUse \in Int
  <2>1. InUse \in Int /\ InUse <= 2 * MaxPages
    BY <1>i, <1>a DEF CountInv, FitsMemory, InUse, Flying
  <2> QED BY <1>1, <1>4, <1>a, <2>1
<1>b. PageAccounting /\ FitsMemory /\ SpillRoom
  BY <1>i DEF CountInv
<1> SUFFICES (PageAccounting /\ FitsMemory /\ SpillRoom)'
  BY <1>2, <1>3 DEF CountInv
<1>6. CASE Idle
  <2>1. /\ state = "idle"
        /\ state' \in {"idle", "enc_pop1", "dec_read_upper"}
        /\ state' = "enc_pop1" => over_thresh
        /\ state' = "dec_read_upper" => page_count # 0
        /\ cur_addr' = cur_addr /\ page_count' = page_count
    BY <1>6, <1>a DEF Idle
  <2>2. cnt' = c
    BY <2>1, <1>1, <1>a, <1>b DEF empty
  <2>3. (FitsMemory /\ SpillRoom)'
    BY <2>1, <2>2, <1>a, <1>b, <1>4, <1>5 DEF FitsMemory, SpillRoom, InUse, Flying, over_thresh
  <2>4. PageAccounting'
    BY <2>1, <2>3, <1>a, <1>b, <1>2 DEF PageAccounting, AddrOffset, EncBusy, DecRead, DecBusy, StackTypeOK, FitsMemory, SpillRoom, InUse, Flying
  <2> QED BY <2>3, <2>4
<1>7. CASE EncPop1
  <2>1. /\ state = "enc_pop1" /\ state' = "enc_pop2"
        /\ cur_addr' = cur_addr /\ page_count' = page_count
    BY <1>7, <1>a DEF EncPop1, Goto
  <2>2. cnt' = c - 1 /\ c >= 3
    BY <2>1, <1>1, <1>a, <1>b, <1>4 DEF empty, SpillRoom
  <2>3. (FitsMemory /\ SpillRoom)'
    BY <2>1, <2>2, <1>a, <1>b, <1>4, <1>5 DEF FitsMemory, SpillRoom, InUse, Flying, over_thresh
  <2>4. PageAccounting'
    BY <2>1, <2>3, <1>a, <1>b, <1>2 DEF PageAccounting, AddrOffset, EncBusy, DecRead, DecBusy, StackTypeOK, FitsMemory, SpillRoom, InUse, Flying
  <2> QED BY <2>3, <2>4
<1>8. CASE EncPop2
  <2>1. /\ state = "enc_pop2" /\ state' = "enc_begin"
        /\ cur_addr' = cur_addr /\ page_count' = page_count
    BY <1>8, <1>a DEF EncPop2, Goto
  <2>2. cnt' = c - 1 /\ c >= 1
    BY <2>1, <1>1, <1>a, <1>b, <1>4 DEF empty, SpillRoom
  <2>3. (FitsMemory /\ SpillRoom)'
    BY <2>1, <2>2, <1>a, <1>b, <1>4, <1>5 DEF FitsMemory, SpillRoom, InUse, Flying, over_thresh
  <2>4. PageAccounting'
    BY <2>1, <2>3, <1>a, <1>b, <1>2 DEF PageAccounting, AddrOffset, EncBusy, DecRead, DecBusy, StackTypeOK, FitsMemory, SpillRoom, InUse, Flying
  <2> QED BY <2>3, <2>4
<1>9. CASE Handshake
  <2>1. CASE state \in {"enc_begin", "enc_wait"}
    <3>1. /\ state' \in {"enc_begin", "enc_wait", "enc_write_lower"}
          /\ cur_addr' = cur_addr /\ page_count' = page_count
      BY <1>9, <2>1 DEF Handshake, Goto
    <3>2. cnt' = c
      BY <2>1, <1>1
    <3>3. (FitsMemory /\ SpillRoom)'
      BY <2>1, <3>1, <3>2, <1>a, <1>b, <1>4, <1>5 DEF FitsMemory, SpillRoom, InUse, Flying
    <3>4. PageAccounting'
      BY <2>1, <3>1, <1>a, <1>b DEF PageAccounting, AddrOffset, EncBusy, DecRead, DecBusy
    <3> QED BY <3>3, <3>4
  <2>2. CASE state \in {"dec_begin", "dec_wait"}
    <3>1. /\ state' \in {"dec_begin", "dec_wait", "dec_push1"}
          /\ cur_addr' = cur_addr /\ page_count' = page_count
      BY <1>9, <2>2 DEF Handshake, Goto
    <3>2. cnt' = c
      BY <2>2, <1>1
    <3>3. (FitsMemory /\ SpillRoom)'
      BY <2>2, <3>1, <3>2, <1>a, <1>b, <1>4, <1>5 DEF FitsMemory, SpillRoom, InUse, Flying
    <3>4. PageAccounting'
      BY <2>2, <3>1, <1>a, <1>b DEF PageAccounting, AddrOffset, EncBusy, DecRead, DecBusy
    <3> QED BY <3>3, <3>4
  <2>3. CASE state = "dec_push1"
    <3>1. /\ state' = "dec_push2"
          /\ cur_addr' = cur_addr /\ page_count' = page_count
      BY <1>9, <2>3 DEF Handshake, Goto
    <3>2. cnt' \in {c, c + 1}
      BY <2>3, <1>1
    <3>3. (FitsMemory /\ SpillRoom)'
      BY <2>3, <3>1, <3>2, <1>a, <1>b, <1>4, <1>5 DEF FitsMemory, SpillRoom, InUse, Flying
    <3>4. PageAccounting'
      BY <2>3, <3>1, <1>a, <1>b DEF PageAccounting, AddrOffset, EncBusy, DecRead, DecBusy
    <3> QED BY <3>3, <3>4
  <2> QED BY <1>9, <2>1, <2>2, <2>3 DEF Handshake, Goto
<1>10. CASE EncWriteLower(in)
  <2>1. /\ state = "enc_write_lower"
        /\ \/ state' = "enc_write_lower" /\ cur_addr' = cur_addr
           \/ state' = "enc_write_upper" /\ cur_addr' = cur_addr + 4
        /\ page_count' = page_count
    BY <1>10, <1>a DEF EncWriteLower, Goto
  <2>2. cnt' = c
    BY <2>1, <1>1, <1>a, <1>b DEF empty
  <2>3. (FitsMemory /\ SpillRoom)'
    BY <2>1, <2>2, <1>a, <1>b, <1>4, <1>5 DEF FitsMemory, SpillRoom, InUse, Flying, over_thresh
  <2>4. PageAccounting'
    BY <2>1, <2>3, <1>a, <1>b, <1>2 DEF PageAccounting, AddrOffset, EncBusy, DecRead, DecBusy, StackTypeOK, FitsMemory, SpillRoom, InUse, Flying
  <2> QED BY <2>3, <2>4
<1>11. CASE EncWriteUpper(in)
  <2>1. /\ state = "enc_write_upper"
        /\ \/ state' = "enc_write_upper" /\ cur_addr' = cur_addr /\ page_count' = page_count
           \/ /\ state' \in {"idle", "enc_pop1"} /\ (state' = "enc_pop1" => over_thresh)
              /\ cur_addr' = cur_addr + 4 /\ page_count' = page_count + 1
    BY <1>11, <1>a DEF EncWriteUpper, Goto
  <2>2. cnt' = c
    BY <2>1, <1>1, <1>a, <1>b DEF empty
  <2>3. (FitsMemory /\ SpillRoom)'
    BY <2>1, <2>2, <1>a, <1>b, <1>4, <1>5 DEF FitsMemory, SpillRoom, InUse, Flying, over_thresh
  <2>4. PageAccounting'
    BY <2>1, <2>3, <1>a, <1>b, <1>2 DEF PageAccounting, AddrOffset, EncBusy, DecRead, DecBusy, StackTypeOK, FitsMemory, SpillRoom, InUse, Flying
  <2> QED BY <2>3, <2>4
<1>12. CASE DecReadUpper(in)
  <2>1. /\ state = "dec_read_upper"
        /\ \/ state' = "dec_read_upper" /\ cur_addr' = cur_addr
           \/ state' = "dec_read_lower" /\ cur_addr' = cur_addr - 4
        /\ page_count' = page_count
    BY <1>12, <1>a DEF DecReadUpper, Goto
  <2>2. cnt' = c
    BY <2>1, <1>1, <1>a, <1>b DEF empty
  <2>3. (FitsMemory /\ SpillRoom)'
    BY <2>1, <2>2, <1>a, <1>b, <1>4, <1>5 DEF FitsMemory, SpillRoom, InUse, Flying, over_thresh
  <2>4. PageAccounting'
    BY <2>1, <2>3, <1>a, <1>b, <1>2 DEF PageAccounting, AddrOffset, EncBusy, DecRead, DecBusy, StackTypeOK, FitsMemory, SpillRoom, InUse, Flying
  <2> QED BY <2>3, <2>4
<1>13. CASE DecReadLower(in)
  <2>1. /\ state = "dec_read_lower"
        /\ \/ state' = "dec_read_lower" /\ cur_addr' = cur_addr
           \/ state' = "dec_read_lower_2" /\ cur_addr' = cur_addr - 4
        /\ page_count' = page_count
    BY <1>13, <1>a DEF DecReadLower, Goto
  <2>2. cnt' = c
    BY <2>1, <1>1, <1>a, <1>b DEF empty
  <2>3. (FitsMemory /\ SpillRoom)'
    BY <2>1, <2>2, <1>a, <1>b, <1>4, <1>5 DEF FitsMemory, SpillRoom, InUse, Flying, over_thresh
  <2>4. PageAccounting'
    BY <2>1, <2>3, <1>a, <1>b, <1>2 DEF PageAccounting, AddrOffset, EncBusy, DecRead, DecBusy, StackTypeOK, FitsMemory, SpillRoom, InUse, Flying
  <2> QED BY <2>3, <2>4
<1>14. CASE DecReadLower2
  <2>1. /\ state = "dec_read_lower_2" /\ state' = "dec_begin"
        /\ cur_addr' = cur_addr /\ page_count' = page_count
    BY <1>14, <1>a DEF DecReadLower2, Goto
  <2>2. cnt' = c
    BY <2>1, <1>1, <1>a, <1>b DEF empty
  <2>3. (FitsMemory /\ SpillRoom)'
    BY <2>1, <2>2, <1>a, <1>b, <1>4, <1>5 DEF FitsMemory, SpillRoom, InUse, Flying, over_thresh
  <2>4. PageAccounting'
    BY <2>1, <2>3, <1>a, <1>b, <1>2 DEF PageAccounting, AddrOffset, EncBusy, DecRead, DecBusy, StackTypeOK, FitsMemory, SpillRoom, InUse, Flying
  <2> QED BY <2>3, <2>4
<1>15. CASE DecPush2
  <2>1. /\ state = "dec_push2" /\ state' = "idle"
        /\ cur_addr' = cur_addr /\ page_count' = page_count - 1
    BY <1>15, <1>a DEF DecPush2, Goto
  <2>2. cnt' \in {c, c + 1}
    BY <2>1, <1>1, <1>a, <1>b DEF empty
  <2>3. (FitsMemory /\ SpillRoom)'
    BY <2>1, <2>2, <1>a, <1>b, <1>4, <1>5 DEF FitsMemory, SpillRoom, InUse, Flying, over_thresh
  <2>4. PageAccounting'
    BY <2>1, <2>3, <1>a, <1>b, <1>2 DEF PageAccounting, AddrOffset, EncBusy, DecRead, DecBusy, StackTypeOK, FitsMemory, SpillRoom, InUse, Flying
  <2> QED BY <2>3, <2>4
<1> QED
  BY <1>6, <1>7, <1>8, <1>9, <1>10, <1>11, <1>12, <1>13, <1>14, <1>15 DEF FsmEdge

------------------------------------------------------------------------------
(* Registers and memory. *)

\* The word on its way into the crypto core comes from a slot or from memory.
LEMMA PairStep ==
  ASSUME NEW in \in Input, StackTypeOK, pt_i \in MemWord \X MemWord,
         mem_dout \in MemWord, dec_read_last \in BOOLEAN, FsmEdge(in)
  PROVE  pt_i' \in MemWord \X MemWord /\ dec_read_last' \in BOOLEAN
<1>1. dout_bottom \in MemWord
  BY StackAssumption, CrasAssumption DEF StackTypeOK, dout_bottom, Slot, MemWord
<1>2. \/ pt_i' = pt_i
      \/ pt_i' = <<dout_bottom, pt_i[2]>> \/ pt_i' = <<pt_i[1], dout_bottom>>
      \/ pt_i' = <<mem_dout, pt_i[2]>> \/ pt_i' = <<pt_i[1], mem_dout>>
  BY DEF FsmEdge, Idle, EncPop1, EncPop2, Handshake, EncWriteLower, EncWriteUpper,
         DecReadUpper, DecReadLower, DecReadLower2, DecPush2
<1>3. dec_read_last' \in {dec_read_last, FALSE, mem_rdy(in) \/ dec_read_last}
  BY DEF FsmEdge, Idle, EncPop1, EncPop2, Handshake, EncWriteLower, EncWriteUpper,
         DecReadUpper, DecReadLower, DecReadLower2, DecPush2
<1>4. pt_i' \in MemWord \X MemWord
  BY <1>1, <1>2
<1>5. dec_read_last' \in BOOLEAN
  BY <1>3
<1> QED BY <1>4, <1>5

CfgTypeOK == RAS_ena \in BOOLEAN /\ base_addr \in Base /\ key_i \in Key

\* A store of the core leaves the configuration registers in their types.
LEMMA CfgStep ==
  ASSUME NEW in \in Input, CfgTypeOK, CfgEdge(in)
  PROVE  CfgTypeOK'
<1>1. in.cfg \in Cfg \/ in.cfg = NoCfg
  BY OpenAssumption DEF Input
<1>2. /\ in.cfg.reg = "ena"  => in.cfg.val \in BOOLEAN
      /\ in.cfg.reg = "base" => in.cfg.val \in Base
      /\ in.cfg.reg = "key"  => in.cfg.val \in Key
  BY <1>1 DEF Cfg, NoCfg
<1> QED BY <1>2 DEF CfgEdge, CfgTypeOK

\* The address of an access lies in the region, and what is written is sealed.
LEMMA PortStep ==
  ASSUME NEW in \in Input, StackTypeOK, PageAccounting, Results, CfgTypeOK,
         Confidential, mem_dout \in MemWord, PortEdge(in)
  PROVE  Confidential' /\ mem_dout' \in MemWord
<1> DEFINE i == mem_index
<1>1. CASE mem_wr(in) /\ port_en(in)
  <2>1. /\ mem' = [mem EXCEPT ![base_addr][i] = mem_din]
        /\ mem_dout' = mem_din
    BY <1>1 DEF PortEdge, mem_wr, mem_rd, mem_rdy
  <2>2. mem_din \in Sealed
    BY <1>1 DEF mem_wr, mem_din, ct_o, Results
  <2> QED
    BY <2>1, <2>2, SimonAssumption DEF Confidential, Sealed, MemWord, CfgTypeOK
<1>2. CASE ~(mem_wr(in) /\ port_en(in)) /\ mem_rd(in) /\ port_en(in)
  <2>1. mem' = mem /\ mem_dout' = mem[base_addr][i]
    BY <1>2 DEF PortEdge, mem_wr, mem_rd, mem_rdy
  <2>2. i \in WordIndex
    <3>1. page_count \in Nat /\ page_count > 0 /\ page_count <= MaxPages /\ MaxPages \in Nat
      BY <1>2, CrasAssumption DEF mem_rd, PageAccounting, DecRead
    <3>2. cur_addr \in {8 * page_count, 8 * page_count - 4}
      BY <1>2, <3>1 DEF mem_rd, PageAccounting, AddrOffset, DecBusy
    <3>3. i = (cur_addr - 4) \div 4
      BY <1>2 DEF mem_rd, mem_index
    <3>4. i \in {2 * page_count - 1, 2 * page_count - 2}
      BY <3>1, <3>2, <3>3
    <3> QED BY <3>1, <3>4 DEF WordIndex
  <2>3. mem[base_addr][i] \in Sealed
    BY <2>2 DEF Confidential, CfgTypeOK, Sealed
  <2> QED BY <2>1, <2>3, SimonAssumption DEF Confidential, Sealed, MemWord
<1>3. CASE ~(mem_wr(in) /\ port_en(in)) /\ ~(mem_rd(in) /\ port_en(in))
  <2>1. mem' = mem /\ mem_dout' \in {mem_dout, Junk}
    BY <1>3 DEF PortEdge, memVars
  <2> QED BY <2>1, SimonAssumption DEF Confidential, MemWord
<1> QED BY <1>1, <1>2, <1>3

------------------------------------------------------------------------------
(* The inductive invariant. *)

IndInv ==
  /\ CrasTypeOK
  /\ PageAccounting /\ FitsMemory /\ SpillRoom
  /\ Lockstep /\ RoundsLeft /\ Results
  /\ Confidential

\* The parts of the inductive invariant, grouped as the lemmas above use them.
LEMMA IndInvParts ==
  IndInv <=> /\ CountInv /\ SimonInv /\ CfgTypeOK /\ Confidential
             /\ pt_i \in MemWord \X MemWord /\ dec_read_last \in BOOLEAN
             /\ mem_dout \in MemWord
<1>1. Confidential => mem \in [Base -> [WordIndex -> MemWord]]
  BY SimonAssumption DEF Confidential, MemWord
<1>2. PageAccounting /\ state \in State => cur_addr \in Int /\ page_count \in Int
  BY CrasAssumption DEF PageAccounting, AddrOffset
<1> QED
  BY <1>1, <1>2 DEF IndInv, CrasTypeOK, CountInv, SimonInv, CfgTypeOK

\* The registers' values after configuration of the device satisfy the invariant.
LEMMA IndInvInit == Init => IndInv
<1> SUFFICES ASSUME Init PROVE IndInv
  OBVIOUS
<1>1. CountInv
  <2>1. /\ data = [i \in Slot |-> Zero] /\ cnt = 0 /\ mismatch = FALSE
        /\ state = "idle" /\ cur_addr = 0 /\ page_count = 0
    BY DEF Init, CrasInit, StackInit
  <2>2. StackTypeOK /\ state \in State
    <3>1. data \in [Slot -> Word]
      BY <2>1, StackAssumption
    <3>2. cnt \in Int
      BY <2>1
    <3>3. mismatch \in BOOLEAN
      BY <2>1, Zenon
    <3>4. state \in State
      BY <2>1 DEF State
    <3> QED BY <3>1, <3>2, <3>3, <3>4 DEF StackTypeOK
  <2>3. PageAccounting
    BY <2>1, CrasAssumption DEF PageAccounting, AddrOffset, EncBusy, DecRead, DecBusy
  <2>4. FitsMemory /\ SpillRoom
    BY <2>1, CrasAssumption DEF FitsMemory, InUse, Flying, SpillRoom
  <2> QED BY <2>2, <2>3, <2>4 DEF CountInv
<1>2. SimonInv
  <2>1. /\ scur = "S_IDLE" /\ round = 0 /\ ready_o = FALSE /\ pt_r = <<Junk, Junk>>
        /\ skey \in Key /\ state = "idle"
    BY DEF Init, CrasInit, SimonInit
  <2>2. SimonTypeOK
    <3>1. pt_r \in MemWord \X MemWord
      BY <2>1, SimonAssumption DEF MemWord
    <3>2. round \in 0 .. N_ROUNDS
      BY <2>1, SimonAssumption
    <3> QED BY <2>1, <3>1, <3>2 DEF SimonTypeOK, SimonState
  <2>3. Lockstep /\ RoundsLeft /\ Results
    BY <2>1 DEF Lockstep, RoundsLeft, Results
  <2> QED BY <2>2, <2>3 DEF SimonInv
<1>3. /\ CfgTypeOK /\ Confidential
      /\ pt_i \in MemWord \X MemWord /\ dec_read_last \in BOOLEAN /\ mem_dout \in MemWord
  BY SimonAssumption, CrasAssumption
  DEF Init, CrasInit, CfgTypeOK, Confidential, MemWord
<1> QED BY <1>1, <1>2, <1>3, IndInvParts

\* A clock edge preserves it: stack, crypto core, state machine, registers, port.
LEMMA CycleStep ==
  ASSUME IndInv, NEW in \in Input, Cycle(in)
  PROVE  IndInv'
<1>1. /\ CountInv /\ SimonInv /\ CfgTypeOK /\ Confidential
      /\ pt_i \in MemWord \X MemWord /\ dec_read_last \in BOOLEAN /\ mem_dout \in MemWord
  BY IndInvParts
<1>2. /\ StackEdge(in) /\ SimonEdge /\ FsmEdge(in) /\ CfgEdge(in) /\ PortEdge(in)
      /\ in.branch => InUse < 2 * MaxPages
  BY DEF Cycle, Clock
<1>3. /\ StackTypeOK /\ PageAccounting /\ SimonTypeOK /\ RoundsLeft /\ Results
      /\ key_i \in Key
  BY <1>1 DEF CountInv, SimonInv, CfgTypeOK
<1>4. CountInv'
  BY <1>1, <1>2, <1>3, CountStep
<1>5. SimonInv'
  BY <1>1, <1>2, <1>3, FsmStateStep, SimonTypeStep, LockstepStep DEF SimonInv
<1>6. CfgTypeOK'
  BY <1>1, <1>2, CfgStep
<1>7. (pt_i \in MemWord \X MemWord /\ dec_read_last \in BOOLEAN)'
  BY <1>1, <1>2, <1>3, PairStep
<1>8. (Confidential /\ mem_dout \in MemWord)'
  BY <1>1, <1>2, <1>3, PortStep
<1>9. (/\ CountInv /\ SimonInv /\ CfgTypeOK /\ Confidential
       /\ pt_i \in MemWord \X MemWord /\ dec_read_last \in BOOLEAN
       /\ mem_dout \in MemWord)'
  BY <1>4, <1>5, <1>6, <1>7, <1>8
<1> QED BY <1>9, IndInvParts, PTL

\* The reset button preserves it, whatever it interrupts.
LEMMA ResetStep ==
  ASSUME IndInv, NEW in \in Input, CrasReset(in)
  PROVE  IndInv'
<1>1. /\ CountInv /\ SimonInv /\ CfgTypeOK /\ Confidential
      /\ pt_i \in MemWord \X MemWord /\ dec_read_last \in BOOLEAN /\ mem_dout \in MemWord
  BY IndInvParts
<1>2. /\ data' = [i \in Slot |-> Zero] /\ cnt' = 0 /\ mismatch' = FALSE
      /\ state' = "idle" /\ cur_addr' = 0 /\ page_count' = 0
      /\ scur' = "S_IDLE" /\ round' = 0 /\ ready_o' = FALSE
      /\ pt_r' = pt_r /\ skey' = skey /\ pt_i' = pt_i /\ dec_read_last' = FALSE
      /\ RAS_ena' = TRUE /\ base_addr' = base0 /\ key_i' = key0
  BY DEF CrasReset, StackReset, SimonReset
<1>3. CountInv'
  <2>1. data' \in [Slot -> Word]
    BY <1>2, StackAssumption
  <2>2. (StackTypeOK /\ state \in State)'
    <3>1. cnt' \in Int
      BY <1>2
    <3>2. mismatch' \in BOOLEAN
      BY <1>2, Zenon
    <3>3. state' \in State
      BY <1>2 DEF State
    <3> QED BY <2>1, <3>1, <3>2, <3>3 DEF StackTypeOK
  <2>3. PageAccounting'
    BY <1>2, CrasAssumption DEF PageAccounting, AddrOffset, EncBusy, DecRead, DecBusy
  <2>4. (FitsMemory /\ SpillRoom)'
    BY <1>2, CrasAssumption DEF FitsMemory, InUse, Flying, SpillRoom
  <2> QED BY <2>2, <2>3, <2>4 DEF CountInv
<1>4. SimonInv'
  <2>1. round' \in 0 .. N_ROUNDS
    BY <1>2, SimonAssumption
  <2>2. SimonTypeOK'
    BY <1>1, <1>2, <2>1 DEF SimonInv, SimonTypeOK, SimonState
  <2>3. (Lockstep /\ RoundsLeft /\ Results)'
    BY <1>2 DEF Lockstep, RoundsLeft, Results
  <2> QED BY <2>2, <2>3 DEF SimonInv
<1>5. CfgTypeOK'
  BY <1>2, CrasAssumption DEF CfgTypeOK
<1>6. (Confidential /\ mem_dout \in MemWord)'
  BY <1>1, PortStep DEF CrasReset, CountInv, SimonInv
<1>7. (pt_i \in MemWord \X MemWord /\ dec_read_last \in BOOLEAN)'
  BY <1>1, <1>2
<1>8. (/\ CountInv /\ SimonInv /\ CfgTypeOK /\ Confidential
       /\ pt_i \in MemWord \X MemWord /\ dec_read_last \in BOOLEAN
       /\ mem_dout \in MemWord)'
  BY <1>3, <1>4, <1>5, <1>6, <1>7
<1> QED BY <1>8, IndInvParts, PTL

\* Every step preserves it.
LEMMA IndInvStep == IndInv /\ [Next]_crasVars => IndInv'
<1> SUFFICES ASSUME IndInv, [Next]_crasVars PROVE IndInv'
  OBVIOUS
<1>1. CASE Next
  <2>1. PICK in \in Input : Cycle(in) \/ Reset(in)
    BY <1>1 DEF Next
  <2>2. CASE Cycle(in)
    BY <2>2, CycleStep
  <2>3. CASE Reset(in)
    BY <2>3, ResetStep DEF Reset
  <2> QED BY <2>1, <2>2, <2>3
<1>2. CASE UNCHANGED crasVars
  BY <1>2
  DEF crasVars, stackVars, simonVars, fsmVars, cfgVars, memVars, IndInv, CrasTypeOK,
      StackTypeOK, SimonTypeOK, PageAccounting, AddrOffset, FitsMemory, InUse, Flying,
      SpillRoom, Lockstep, RoundsLeft, Results, Confidential, valid_o
<1> QED BY <1>1, <1>2

\* The invariant holds in every reachable state.
LEMMA IndInvAlways == Spec => []IndInv
BY IndInvInit, IndInvStep, PTL DEF Spec

------------------------------------------------------------------------------
(* Theorems. *)

\* Every register and every word of memory holds a value of its type: in
\* particular what a refill pushes is a plaintext word, not ciphertext, and
\* what it reads from memory lies in the region.
THEOREM TypeCorrect == Spec => []CrasTypeOK
BY IndInvAlways, PTL DEF IndInv

\* The page counter and the address always describe the same pages.
THEOREM PagesCorrect == Spec => []PageAccounting
BY IndInvAlways, PTL DEF IndInv

\* A spill pops entries that are there, even if the core returns in every cycle.
THEOREM SpillCorrect == Spec => []SpillHasEntries
<1>1. IndInv => SpillHasEntries
  <2> SUFFICES ASSUME IndInv PROVE SpillHasEntries
    OBVIOUS
  <2>1. cnt \in Int /\ SpillRoom
    BY DEF IndInv, CrasTypeOK, StackTypeOK
  <2> QED BY <2>1 DEF SpillHasEntries, SpillRoom, pop_bot, empty
<1> QED BY <1>1, IndInvAlways, PTL

\* The two state machines never lose step.
THEOREM HandshakeCorrect == Spec => []Lockstep
BY IndInvAlways, PTL DEF IndInv

\* No return address is written to memory in the clear.
THEOREM Confidentiality == Spec => []Confidential
BY IndInvAlways, PTL DEF IndInv
=============================================================================
