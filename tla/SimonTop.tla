------------------------------ MODULE SimonTop ------------------------------
(***************************************************************************)
(* The crypto core, srcs/RAS/simon_top.sv and simon_ctrl_fsm.sv: its       *)
(* control state machine with the round counter and the two valid/ready    *)
(* handshakes, and the data register of simon_core.sv.                     *)
(*                                                                         *)
(* The cipher is ideal: a block encrypted under one key decrypts to itself *)
(* under the same key and to garbage otherwise, and the register shows the *)
(* result only after the last round (the values of the rounds in between   *)
(* are never read by CRAS_top).  Decryption runs the same rounds on the    *)
(* two halves exchanged and delivers them exchanged, as the source does.   *)
(***************************************************************************)
EXTENDS Integers

CONSTANTS
  Key,        \* the keys software can load
  Plain,      \* plaintext words
  Junk,       \* a word that is neither a known plaintext nor ciphertext
  N_ROUNDS    \* rounds of one pass; 44 for the 32-bit, 4-key-word instance

ASSUME SimonAssumption ==
  /\ N_ROUNDS \in Nat \ {0}
  /\ Junk \in Plain
  /\ Key # {}

VARIABLES
  scur,       \* state_cur
  round,      \* round_cnt_r
  ready_o,    \* registered: the input has been loaded
  pt_r,       \* the two data words of simon_core, also the output ct_o
  skey        \* the key in simon_core's key register (and, expanded, dec_keys_r)

simonVars == <<scur, round, ready_o, pt_r, skey>>

SimonState == {"S_IDLE", "S_ENC_PRE", "S_ENC_RUN", "S_DEC_PRE_KEY",
               "S_DEC_KEY_RUN", "S_DEC_PRE", "S_DEC_RUN", "S_OUTPUT"}

\* Half h of the ciphertext of the block <<w0, w1>> under key k.
Cipher == [block : Plain \X Plain, key : Key, half : {0, 1}]
CipherOf(b, k) == <<[block |-> b, key |-> k, half |-> 0],
                    [block |-> b, key |-> k, half |-> 1]>>

MemWord == Plain \cup Cipher

\* What the decryption rounds make of the exchanged halves <<upper, lower>>.
Decrypt(c, k) ==
  IF /\ c \in Cipher \X Cipher
     /\ c = <<CipherOf(c[1].block, k)[2], CipherOf(c[1].block, k)[1]>>
  THEN <<c[1].block[2], c[1].block[1]>>
  ELSE <<Junk, Junk>>

\* What the encryption rounds make of the loaded words.
Encrypt(p, k) == IF p \in Plain \X Plain THEN CipherOf(p, k) ELSE <<Junk, Junk>>

valid_o == scur = "S_OUTPUT"
ct_o(h) == pt_r[h + 1]
lastRound == round = N_ROUNDS - 1

SimonInit ==
  /\ scur = "S_IDLE"
  /\ round = 0
  /\ ready_o = FALSE
  /\ pt_r = <<Junk, Junk>>
  /\ skey \in Key

SIdle(valid_i, mode_i) ==
  /\ scur = "S_IDLE"
  /\ scur' = CASE valid_i /\ mode_i = "enc" -> "S_ENC_PRE"
               [] valid_i /\ mode_i = "dec" -> "S_DEC_PRE_KEY"
               [] ~valid_i                  -> "S_IDLE"
  /\ ready_o' = FALSE
  /\ UNCHANGED <<round, pt_r, skey>>

\* Mutant: the key register keeps the key of the last pass.
SEncPre_stale_key(pt_i, key_i) ==
  /\ scur = "S_ENC_PRE"
  /\ scur' = "S_ENC_RUN"
  /\ ready_o' = TRUE
  /\ round' = 0
  /\ pt_r' = pt_i
  /\ UNCHANGED skey

\* Reset the sequences, load key_i and, for an encryption, the block.
SEncPre(pt_i, key_i) ==
  /\ scur = "S_ENC_PRE"
  /\ scur' = "S_ENC_RUN"
  /\ ready_o' = TRUE
  /\ round' = 0
  /\ pt_r' = pt_i
  /\ skey' = key_i

SDecPreKey(key_i) ==
  /\ scur = "S_DEC_PRE_KEY"
  /\ scur' = "S_DEC_KEY_RUN"
  /\ ready_o' = FALSE
  /\ round' = 0
  /\ skey' = key_i
  /\ UNCHANGED pt_r

SDecPre(pt_i) ==
  /\ scur = "S_DEC_PRE"
  /\ scur' = "S_DEC_RUN"
  /\ ready_o' = TRUE
  /\ round' = 0
  /\ pt_r' = pt_i
  /\ UNCHANGED skey

\* One round.  The counter is wide enough for N_ROUNDS and is reset before use.
SRound(from, to, result) ==
  /\ scur = from
  /\ scur' = IF lastRound THEN to ELSE from
  /\ round' = round + 1
  /\ ready_o' = FALSE
  /\ pt_r' = IF lastRound THEN result ELSE pt_r
  /\ UNCHANGED skey

SOutput(ready_i) ==
  /\ scur = "S_OUTPUT"
  /\ scur' = IF ready_i THEN "S_IDLE" ELSE "S_OUTPUT"
  /\ ready_o' = FALSE
  /\ UNCHANGED <<round, pt_r, skey>>

\* A rising edge without reset.
SimonClock(valid_i, mode_i, pt_i, key_i, ready_i) ==
  \/ SIdle(valid_i, mode_i)
  \/ SEncPre(pt_i, key_i)
  \/ SRound("S_ENC_RUN", "S_OUTPUT", Encrypt(pt_r, skey))
  \/ SDecPreKey(key_i)
  \/ SRound("S_DEC_KEY_RUN", "S_DEC_PRE", pt_r)
  \/ SDecPre(pt_i)
  \/ SRound("S_DEC_RUN", "S_OUTPUT", Decrypt(pt_r, skey))
  \/ SOutput(ready_i)

\* The asynchronous reset clears the control registers, not the data.
SimonReset ==
  /\ scur' = "S_IDLE"
  /\ round' = 0
  /\ ready_o' = FALSE
  /\ UNCHANGED <<pt_r, skey>>

SimonTypeOK ==
  /\ scur \in SimonState
  /\ round \in 0 .. N_ROUNDS
  /\ ready_o \in BOOLEAN
  /\ pt_r \in MemWord \X MemWord
  /\ skey \in Key
=============================================================================
