------------------------------ MODULE Division ------------------------------
(***************************************************************************)
(* Arithmetic in software: multiply, divide and modulo of gcc/utils.c, and *)
(* the functions the compiler calls where there is no instruction          *)
(* (__mulsi3, __divsi3 and __modsi3, there and in gcc/stdlib.c), loop by   *)
(* loop.                                                                   *)
(***************************************************************************)
EXTENDS Integers, Powers

CONSTANT Word   \* bits of an int

ASSUME DivisionAssumption == Word \in Nat /\ Word >= 2

VARIABLES
  op,         \* the function called
  x0, y0,     \* the arguments
  x, y,       \* what has become of them
  mask, quotient, sign,
  ma, mb, mr, \* a, b and r of multiply; product of __mulsi3
  cnt,        \* the counter of __mulsi3 and __divsi3
  result,
  dpc         \* "call", "sign", "up", "back", "product", "add", "result"

divisionVars == <<op, x0, y0, x, y, mask, quotient, sign, ma, mb, mr, cnt, result, dpc>>

\* An int, and an unsigned int, of Word bits.
UInt(v) == v % Pow2[Word]
Int_(v) == IF UInt(v) < Pow2[Word - 1] THEN UInt(v) ELSE UInt(v) - Pow2[Word]

LeastInt == -Pow2[Word - 1]
AllInts == LeastInt .. Pow2[Word - 1] - 1

abs(i) == IF i < 0 THEN Int_(-i) ELSE i

DivisionInit ==
  /\ op \in {"multiply", "divide", "modulo", "__mulsi3", "__divsi3", "__modsi3"}
  /\ x0 \in AllInts /\ y0 \in AllInts /\ x = x0 /\ y = y0
  /\ mask = 1 /\ quotient = 0 /\ sign = 1
  /\ ma = 0 /\ mb = 0 /\ mr = 0 /\ cnt = 0 /\ result = 0
  /\ dpc = "call"

\* multiply takes unsigned arguments.
StartMultiply(u, v) == ma' = UInt(u) /\ mb' = UInt(v) /\ mr' = 0

Multiply ==
  /\ dpc = "call" /\ op = "multiply"
  /\ StartMultiply(x, y) /\ dpc' = "product"
  /\ UNCHANGED <<op, x0, y0, x, y, mask, quotient, sign, cnt, result>>

\* For the sign of the result.
Divide_ ==
  /\ dpc = "call" /\ op = "divide"
  /\ IF y = 0 THEN dpc' = "result" /\ UNCHANGED <<ma, mb, mr>>
              ELSE dpc' = "sign" /\ StartMultiply(x, y)
  /\ UNCHANGED <<op, x0, y0, x, y, mask, quotient, sign, cnt, result>>

Modulo ==
  /\ dpc = "call" /\ op = "modulo"
  /\ IF y = 0 THEN dpc' = "result" /\ UNCHANGED <<x, y, sign>>
     ELSE /\ sign' = (IF x < 0 THEN -1 ELSE 1)
          /\ x' = abs(x) /\ y' = abs(y) /\ dpc' = "up"
  /\ UNCHANGED <<op, x0, y0, mask, quotient, ma, mb, mr, cnt, result>>

\* A bit of the one factor.
Shift ==
  /\ dpc \in {"sign", "product"} /\ ma # 0
  /\ mr' = (IF ma % 2 = 1 THEN UInt(mr + mb) ELSE mr)
  /\ ma' = ma \div 2 /\ mb' = UInt(2 * mb)
  /\ UNCHANGED <<op, x0, y0, x, y, mask, quotient, sign, cnt, result, dpc>>

TakeSign ==
  /\ dpc = "sign" /\ ma = 0
  /\ sign' = (IF Int_(mr) < 0 THEN -1 ELSE 1)
  /\ x' = abs(x) /\ y' = abs(y) /\ dpc' = "up"
  /\ UNCHANGED <<op, x0, y0, mask, quotient, ma, mb, mr, cnt, result>>

\* y and mask are doubled until y exceeds x.
Double ==
  /\ dpc = "up"
  /\ IF y <= x THEN y' = Int_(2 * y) /\ mask' = UInt(2 * mask) /\ UNCHANGED dpc
               ELSE dpc' = "back" /\ UNCHANGED <<y, mask>>
  /\ UNCHANGED <<op, x0, y0, x, quotient, sign, ma, mb, mr, cnt, result>>

\* Mutant: an x equal to y is not subtracted from.
Halve_strict ==
  /\ dpc = "back" /\ mask > 1
  /\ y' = y \div 2 /\ mask' = mask \div 2
  /\ IF x > y' THEN x' = x - y' /\ quotient' = quotient + mask'
               ELSE UNCHANGED <<x, quotient>>
  /\ UNCHANGED <<op, x0, y0, sign, ma, mb, mr, cnt, result, dpc>>

\* And halved again.  quotient |= mask sets a bit that was 0.
Halve ==
  /\ dpc = "back" /\ mask > 1
  /\ y' = y \div 2 /\ mask' = mask \div 2
  /\ IF x >= y' THEN x' = x - y' /\ quotient' = quotient + mask'
                ELSE UNCHANGED <<x, quotient>>
  /\ UNCHANGED <<op, x0, y0, sign, ma, mb, mr, cnt, result, dpc>>

PutSign ==
  /\ dpc = "back" /\ mask <= 1
  /\ StartMultiply(sign, IF op = "divide" THEN quotient ELSE x) /\ dpc' = "product"
  /\ UNCHANGED <<op, x0, y0, x, y, mask, quotient, sign, cnt, result>>

Return ==
  /\ dpc = "product" /\ ma = 0
  /\ result' = Int_(mr) /\ dpc' = "result"
  /\ UNCHANGED <<op, x0, y0, x, y, mask, quotient, sign, ma, mb, mr, cnt>>

\* __mulsi3 adds x as often as y says, neither of which may be negative.
Negate ==
  /\ dpc = "call" /\ op = "__mulsi3"
  /\ IF y < 0 THEN x' = Int_(0 - x) /\ y' = Int_(0 - y) ELSE UNCHANGED <<x, y>>
  /\ dpc' = "add"
  /\ UNCHANGED <<op, x0, y0, mask, quotient, sign, ma, mb, mr, cnt, result>>

Add ==
  /\ dpc = "add"
  /\ IF cnt < y THEN mr' = Int_(mr + x) /\ cnt' = cnt + 1 /\ UNCHANGED <<result, dpc>>
                ELSE result' = mr /\ dpc' = "result" /\ UNCHANGED <<mr, cnt>>
  /\ UNCHANGED <<op, x0, y0, x, y, mask, quotient, sign, ma, mb>>

\* __divsi3 counts how often y can be taken from x, __modsi3 keeps the rest.
Subtract ==
  /\ dpc = "call" /\ op \in {"__divsi3", "__modsi3"}
  /\ IF x < y THEN /\ result' = (IF op = "__divsi3" THEN cnt ELSE x)
                   /\ dpc' = "result" /\ UNCHANGED <<x, cnt>>
     ELSE x' = Int_(x - y) /\ cnt' = Int_(cnt + 1) /\ UNCHANGED <<result, dpc>>
  /\ UNCHANGED <<op, x0, y0, y, mask, quotient, sign, ma, mb, mr>>

DivisionNext ==
  \/ Multiply \/ Divide_ \/ Modulo
  \/ Shift \/ TakeSign \/ Double \/ Halve \/ PutSign \/ Return
  \/ Negate \/ Add \/ Subtract

DivisionSpec == DivisionInit /\ [][DivisionNext]_divisionVars

------------------------------------------------------------------------------
(* Properties. *)

\* As in C, towards 0.
Magnitude_(v) == IF v < 0 THEN -v ELSE v
Truncated ==
  LET q == Magnitude_(x0) \div Magnitude_(y0) IN IF (x0 < 0) = (y0 < 0) THEN q ELSE -q

Expected ==
  IF op \in {"multiply", "__mulsi3"} THEN Int_(x0 * y0)
  ELSE IF y0 = 0 THEN 0
  ELSE IF op \in {"divide", "__divsi3"} THEN Truncated ELSE x0 - y0 * Truncated

\* The arguments the functions are good for: the doubling must not pass the
\* largest int, nor the product whose sign divide looks at; the functions that
\* subtract take no sign, and __mulsi3 must be able to turn that of y.
GoodFor ==
  /\ op \in {"divide", "modulo"} => y0 # LeastInt /\ Magnitude_(x0) < Pow2[Word - 2]
  /\ op = "divide" => x0 * y0 \in AllInts
  /\ op \in {"__divsi3", "__modsi3"} => x0 >= 0 /\ y0 > 0
  /\ op = "__mulsi3" => y0 # LeastInt

\* For those arguments the loops come to an end, y never getting to 0, and the
\* result is C's.
DividesRight ==
  GoodFor => /\ dpc \in {"up", "back"} => y > 0
             /\ dpc = "result" => result = Expected

\* "store sign of the result" (utils.c:30): what divide returns has the sign of
\* the quotient whenever it returns something.
SignStored ==
  op = "divide" /\ dpc = "result" /\ y0 # 0 /\ Magnitude_(x0) < Pow2[Word - 2] /\ y0 # LeastInt
    => (result < 0) = (Truncated < 0)
=============================================================================
