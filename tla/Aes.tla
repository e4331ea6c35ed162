-------------------------------- MODULE Aes --------------------------------
(***************************************************************************)
(* gcc/aes.c: encryption and decryption of one block, one function of a    *)
(* round at a time.  A word of the key schedule is its four bytes, most    *)
(* significant first, a block a matrix of 4 x 4 bytes.                     *)
(***************************************************************************)
EXTENDS Integers, Sequences, Bitwise

CONSTANTS
  Keys,       \* keys, as sequences of 4 * Nk bytes
  AppendixC   \* plaintext and ciphertext, 16 bytes each, for each key

Nb == 4

ASSUME AesAssumption ==
  /\ \A k \in Keys : Len(k) \in {16, 24, 32}
  /\ \A k \in Keys : Len(AppendixC[k].plain) = 16 /\ Len(AppendixC[k].cipher) = 16

VARIABLES
  key,
  w,        \* the round keys
  State,
  i,        \* the round
  step      \* the function of the round that comes next

aesVars == <<key, w, State, i, step>>

Index == 0 .. 3

\* Rows and columns from 1; Sub and InvSub look a byte up.
Sbox == <<
  <<99, 124, 119, 123, 242, 107, 111, 197, 48, 1, 103, 43, 254, 215, 171, 118>>,
  <<202, 130, 201, 125, 250, 89, 71, 240, 173, 212, 162, 175, 156, 164, 114, 192>>,
  <<183, 253, 147, 38, 54, 63, 247, 204, 52, 165, 229, 241, 113, 216, 49, 21>>,
  <<4, 199, 35, 195, 24, 150, 5, 154, 7, 18, 128, 226, 235, 39, 178, 117>>,
  <<9, 131, 44, 26, 27, 110, 90, 160, 82, 59, 214, 179, 41, 227, 47, 132>>,
  <<83, 209, 0, 237, 32, 252, 177, 91, 106, 203, 190, 57, 74, 76, 88, 207>>,
  <<208, 239, 170, 251, 67, 77, 51, 133, 69, 249, 2, 127, 80, 60, 159, 168>>,
  <<81, 163, 64, 143, 146, 157, 56, 245, 188, 182, 218, 33, 16, 255, 243, 210>>,
  <<205, 12, 19, 236, 95, 151, 68, 23, 196, 167, 126, 61, 100, 93, 25, 115>>,
  <<96, 129, 79, 220, 34, 42, 144, 136, 70, 238, 184, 20, 222, 94, 11, 219>>,
  <<224, 50, 58, 10, 73, 6, 36, 92, 194, 211, 172, 98, 145, 149, 228, 121>>,
  <<231, 200, 55, 109, 141, 213, 78, 169, 108, 86, 244, 234, 101, 122, 174, 8>>,
  <<186, 120, 37, 46, 28, 166, 180, 198, 232, 221, 116, 31, 75, 189, 139, 138>>,
  <<112, 62, 181, 102, 72, 3, 246, 14, 97, 53, 87, 185, 134, 193, 29, 158>>,
  <<225, 248, 152, 17, 105, 217, 142, 148, 155, 30, 135, 233, 206, 85, 40, 223>>,
  <<140, 161, 137, 13, 191, 230, 66, 104, 65, 153, 45, 15, 176, 84, 187, 22>>>>

invSbox == <<
  <<82, 9, 106, 213, 48, 54, 165, 56, 191, 64, 163, 158, 129, 243, 215, 251>>,
  <<124, 227, 57, 130, 155, 47, 255, 135, 52, 142, 67, 68, 196, 222, 233, 203>>,
  <<84, 123, 148, 50, 166, 194, 35, 61, 238, 76, 149, 11, 66, 250, 195, 78>>,
  <<8, 46, 161, 102, 40, 217, 36, 178, 118, 91, 162, 73, 109, 139, 209, 37>>,
  <<114, 248, 246, 100, 134, 104, 152, 22, 212, 164, 92, 204, 93, 101, 182, 146>>,
  <<108, 112, 72, 80, 253, 237, 185, 218, 94, 21, 70, 87, 167, 141, 157, 132>>,
  <<144, 216, 171, 0, 140, 188, 211, 10, 247, 228, 88, 5, 184, 179, 69, 6>>,
  <<208, 44, 30, 143, 202, 63, 15, 2, 193, 175, 189, 3, 1, 19, 138, 107>>,
  <<58, 145, 17, 65, 79, 103, 220, 234, 151, 242, 207, 206, 240, 180, 230, 115>>,
  <<150, 172, 116, 34, 231, 173, 53, 133, 226, 249, 55, 232, 28, 117, 223, 110>>,
  <<71, 241, 26, 113, 29, 41, 197, 137, 111, 183, 98, 14, 170, 24, 190, 27>>,
  <<252, 86, 62, 75, 198, 210, 121, 32, 154, 219, 192, 254, 120, 205, 90, 244>>,
  <<31, 221, 168, 51, 136, 7, 199, 49, 177, 18, 16, 89, 39, 128, 236, 95>>,
  <<96, 81, 127, 169, 25, 181, 74, 13, 45, 229, 122, 159, 147, 201, 156, 239>>,
  <<160, 224, 59, 77, 174, 42, 245, 176, 200, 235, 187, 60, 131, 83, 153, 97>>,
  <<23, 43, 4, 126, 186, 119, 214, 38, 225, 105, 20, 99, 85, 33, 12, 125>>>>

Rcon == <<1, 2, 4, 8, 16, 32, 64, 128, 27, 54>>

Sub(b) == Sbox[(b \div 16) + 1][(b % 16) + 1]
InvSub(b) == invSbox[(b \div 16) + 1][(b % 16) + 1]

XorAll(s) == (s[1] ^^ s[2]) ^^ (s[3] ^^ s[4])
XorWords(v, u) == [n \in 1 .. 4 |-> v[n] ^^ u[n]]

Nk == Len(key) \div 4
Nr == Nk + 6

subWord(v) == [n \in 1 .. 4 |-> Sub(v[n])]
rotWord(v) == [n \in 1 .. 4 |-> v[(n % 4) + 1]]

\* Mutant: a key of eight words is expanded like the shorter ones.
NextKey_no_extra(before) ==
  LET n == Len(before)
      temp == before[n]
      turned == IF n % Nk = 0
                THEN LET s == subWord(rotWord(temp)) IN [s EXCEPT ![1] = s[1] ^^ Rcon[n \div Nk]]
                ELSE temp
  IN XorWords(before[n + 1 - Nk], turned)

\* w[n], from 0, given the words before it.
NextKey(before) ==
  LET n == Len(before)
      temp == before[n]
      turned == IF n % Nk = 0
                THEN LET s == subWord(rotWord(temp)) IN [s EXCEPT ![1] = s[1] ^^ Rcon[n \div Nk]]
                ELSE IF Nk > 6 /\ n % Nk = 4 THEN subWord(temp) ELSE temp
  IN XorWords(before[n + 1 - Nk], turned)

xtime(a) == ((2 * a) % 256) ^^ (IF a >= 128 THEN 27 ELSE 0)

RECURSIVE ffMultiply(_, _)
ffMultiply(a, b) ==
  IF b = 0 THEN 0
  ELSE (IF b % 2 = 1 THEN a ELSE 0) ^^ ffMultiply(xtime(a), b \div 2)

------------------------------------------------------------------------------
(* The functions of a round, on a block S. *)

subBytes(S) == [r \in Index |-> [c \in Index |-> Sub(S[r][c])]]
invSubBytes(S) == [r \in Index |-> [c \in Index |-> InvSub(S[r][c])]]

shiftRows(S) == [r \in Index |-> [c \in Index |-> S[r][(c + r) % 4]]]
invShiftRows(S) == [r \in Index |-> [c \in Index |-> S[r][(c - r) % 4]]]

\* The factors a byte of row r gives to the rows below it, cyclically.
Mixed(S, factors) ==
  [r \in Index |-> [c \in Index |->
     XorAll([n \in 1 .. 4 |-> ffMultiply(factors[n], S[(r + n - 1) % 4][c])])]]

mixColumns(S) == Mixed(S, <<2, 3, 1, 1>>)
invMixColumns(S) == Mixed(S, <<14, 11, 13, 9>>)

addRoundKey(S, n) ==
  [r \in Index |-> [c \in Index |-> S[r][c] ^^ w[n * Nb + c + 1][r + 1]]]

Block(b) == [r \in Index |-> [c \in Index |-> b[r + 4 * c + 1]]]

------------------------------------------------------------------------------

AesInit ==
  /\ key \in Keys
  /\ w = [n \in 1 .. Len(key) \div 4 |-> SubSeq(key, 4 * n - 3, 4 * n)]
  /\ State = Block(AppendixC[key].plain) /\ i = 0 /\ step = "keys"

keyExpansion ==
  /\ step = "keys"
  /\ IF Len(w) < Nb * (Nr + 1)
     THEN w' = Append(w, NextKey(w)) /\ UNCHANGED step
     ELSE step' = "add" /\ UNCHANGED w
  /\ UNCHANGED <<key, State, i>>

\* A step of Cipher or of invCipher.
Round(from, S, to) ==
  /\ step = from /\ State' = S /\ step' = to
  /\ UNCHANGED <<key, w>>

Cipher ==
  \/ Round("add", addRoundKey(State, i), IF i = Nr THEN "over" ELSE "sub") /\ i' = i + 1
  \/ Round("sub", subBytes(State), "shift") /\ UNCHANGED i
  \/ Round("shift", shiftRows(State), IF i < Nr THEN "mix" ELSE "add") /\ UNCHANGED i
  \/ Round("mix", mixColumns(State), "add") /\ UNCHANGED i

\* The ciphertext is what invCipher gets.
Decrypt ==
  /\ step = "over"
  /\ step' = "invAdd" /\ i' = Nr
  /\ UNCHANGED <<key, w, State>>

invCipher ==
  \/ Round("invAdd", addRoundKey(State, i),
              IF i = Nr THEN "invShift" ELSE IF i > 0 THEN "invMix" ELSE "end") /\ i' = i - 1
  \/ Round("invMix", invMixColumns(State), "invShift") /\ UNCHANGED i
  \/ Round("invShift", invShiftRows(State), "invSub") /\ UNCHANGED i
  \/ Round("invSub", invSubBytes(State), "invAdd") /\ UNCHANGED i

AesNext == keyExpansion \/ Cipher \/ Decrypt \/ invCipher

AesSpec == AesInit /\ [][AesNext]_aesVars

------------------------------------------------------------------------------
(* Properties. *)

\* Cipher yields the ciphertext of FIPS 197, Appendix C, which the program
\* says it mimics, for keys of each length, and invCipher brings the
\* plaintext back.
MimicsAppendixC ==
  /\ step = "over" => State = Block(AppendixC[key].cipher)
  /\ step = "end" => State = Block(AppendixC[key].plain)
=============================================================================
