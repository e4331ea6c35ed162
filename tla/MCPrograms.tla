----------------------------- MODULE MCPrograms -----------------------------
(***************************************************************************)
(* Library functions and programs that run by themselves, for TLC: a       *)
(* behaviour is a call of one of them.                                     *)
(***************************************************************************)
EXTENDS Printf, Aes, Qsort, Rsort, Division, TLC

VARIABLE called

Widths == ("char" :> 4) @@ ("short" :> 6) @@ ("int" :> 8) @@ ("long" :> 8) @@ ("long long" :> 14)
SomeInts == {-128, -3, 0, 27}
SomeStrings == {<<>>, <<"h", "i", "y", "a">>}

Ramp(n) == [k \in 1 .. n |-> k - 1]
Lengths == {16, 24, 32}
RampKeys == {Ramp(n) : n \in Lengths}
Plaintext == [k \in 1 .. 16 |-> 17 * (k - 1)]

\* FIPS 197, C.1 to C.3.
Ciphertexts ==
  (16 :> <<105, 196, 224, 216, 106, 123, 4, 48, 216, 205, 183, 128, 112, 180, 197, 90>>) @@
  (24 :> <<221, 169, 124, 164, 134, 76, 223, 224, 110, 175, 112, 160, 236, 13, 113, 145>>) @@
  (32 :> <<142, 162, 183, 202, 81, 103, 69, 191, 234, 252, 73, 144, 75, 73, 96, 137>>)
Published == [k \in RampKeys |-> [plain |-> Plaintext, cipher |-> Ciphertexts[Len(k)]]]

\* Whatever is not called stays as one of its initial states.
ProgramsInit ==
  /\ called \in {"printf", "aes", "qsort", "rsort", "division"}
  /\ (called = "printf" \/ (called # "printf" /\ maxlen = 0)) /\ Init
  /\ (called = "aes" \/ (called # "aes" /\ key = Ramp(16))) /\ AesInit
  /\ (called = "qsort" \/ (called # "qsort" /\ a = <<>>)) /\ QsortInit
  /\ (called = "rsort" \/ (called # "rsort" /\ arr = <<>>)) /\ RsortInit
  /\ (called = "division" \/ (called # "division" /\ op = "divide" /\ x0 = 0 /\ y0 = 0))
  /\ DivisionInit

ProgramsNext ==
  /\ \/ called = "printf" /\ _vsnprintf /\ UNCHANGED <<aesVars, qsortVars, rsortVars, divisionVars>>
     \/ called = "aes" /\ AesNext /\ UNCHANGED <<vars, qsortVars, rsortVars, divisionVars>>
     \/ called = "qsort" /\ QsortNext /\ UNCHANGED <<vars, aesVars, rsortVars, divisionVars>>
     \/ called = "rsort" /\ RsortNext /\ UNCHANGED <<vars, aesVars, qsortVars, divisionVars>>
     \/ called = "division" /\ DivisionNext /\ UNCHANGED <<vars, aesVars, qsortVars, rsortVars>>
  /\ UNCHANGED called

ProgramsSpec == ProgramsInit /\ [][ProgramsNext]_<<vars, aesVars, qsortVars, rsortVars, divisionVars, called>>
=============================================================================
