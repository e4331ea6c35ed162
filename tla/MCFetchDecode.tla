---------------------------- MODULE MCFetchDecode ----------------------------
(***************************************************************************)
(* Instances of FetchDecode for TLC: every program of a few words, run *)
(* round and round.                                                       *)
(***************************************************************************)
EXTENDS FetchDecode

CONSTANTS N, Ops

Words == 0 .. N - 1
Ring == [a \in Words |-> (a + 1) % N]

\* Only tgt of instructions that use it varies.
Code == {i \in [op : Ops, tgt : Words] :
           i.op \in {"other", "ecall", "mret", "mul"} => i.tgt = 0}

AllPrograms == [Words -> Code]

\* Execution starts with an instruction that may be executed twice.
BootPrograms == {p \in AllPrograms : p[0].op \in {"other", "jump"}}
CarefulPrograms == {p \in AllPrograms : Careful(p)}
=============================================================================
