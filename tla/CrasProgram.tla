----------------------------- MODULE CrasProgram -----------------------------
(***************************************************************************)
(* The stack of module Cras driven by a program: calls and returns nest,   *)
(* as in the testbench sims/tb_simon.sv, and a return may go to an address *)
(* other than the one its call left (the program's copy of it, in the      *)
(* memory stack frame, was overwritten).                                   *)
(*                                                                         *)
(* A program cannot make a call or a return in every cycle, and a spill or *)
(* a refill takes a bounded number of cycles (some 55 and 98 with 44       *)
(* rounds).  The two constants CallBurst and RetBurst are what that comes  *)
(* to: the calls that fit into one refill, the returns that fit into one   *)
(* spill.                                                                  *)
(***************************************************************************)
EXTENDS Cras, Sequences

CONSTANTS
  Sites,      \* Sites[d]: the return addresses a call at nesting depth d may leave
  Gadgets,    \* addresses a tampered return may go to
  Ports,      \* what the memory stage of the core may hold, see Cras
  Cfgs,       \* the stores to the configuration registers
  Careful,    \* whether software configures only while nothing is spilled
  CallBurst,  \* calls during one refill
  RetBurst,   \* returns during one spill
  MaxDepth    \* bound: nesting depth of the program

Addr == (UNION {Sites[d] : d \in 1 .. MaxDepth}) \cup Gadgets

ASSUME ProgramAssumption ==
  /\ Addr \subseteq Plain \ {Zero, Junk}
  /\ Zero # Junk
  /\ Ports \subseteq {"free", "core", "alias"}
  /\ Cfgs \subseteq Cfg /\ Careful \in BOOLEAN
  /\ CallBurst \in Nat /\ RetBurst \in Nat /\ MaxDepth \in Nat
  /\ MaxDepth <= 2 * MaxPages

VARIABLES
  calls,      \* return addresses of the calls in progress, the youngest last
  hijacked,   \* some return went to an address its call did not leave
  burst       \* calls of this refill, or returns of this spill, so far

vars == <<crasVars, calls, hijacked, burst>>

Refilling == state \in {"dec_read_upper", "dec_read_lower", "dec_read_lower_2",
                        "dec_begin", "dec_wait", "dec_push1", "dec_push2"}
Spilling  == state \in State \ {"idle"} /\ ~Refilling

Init ==
  /\ CrasInit
  /\ calls = <<>>
  /\ hijacked = FALSE
  /\ burst = 0

Nop(p)     == [branch |-> FALSE, ret |-> FALSE, addr |-> Zero, port |-> p, cfg |-> NoCfg]
Call(a, p) == [Nop(p) EXCEPT !.branch = TRUE, !.addr = a]
Ret(a, p)  == [Nop(p) EXCEPT !.ret = TRUE, !.addr = a]

\* The budget of the transfer under way, used by one more call or return.
Spend(counts, budget) ==
  /\ counts => burst < budget
  /\ burst' = IF state' \in {"idle", "enc_pop1"} \/ state = "idle" THEN 0
              ELSE IF counts THEN burst + 1 ELSE burst

Work(p) ==
  /\ Clock(Nop(p))
  /\ Spend(FALSE, 0)
  /\ UNCHANGED <<calls, hijacked>>

MakeCall(a, p) ==
  /\ rdy(Call(a, p))
  /\ Clock(Call(a, p))
  /\ Spend(Refilling, CallBurst)
  /\ calls' = Append(calls, a)
  /\ UNCHANGED hijacked

MakeReturn(a, p) ==
  /\ rdy(Ret(a, p))
  /\ Clock(Ret(a, p))
  /\ Spend(Spilling, RetBurst)
  /\ calls' = SubSeq(calls, 1, Len(calls) - 1)
  /\ hijacked' = (hijacked \/ a # calls[Len(calls)])

\* The instruction stays in decode for as long as rdy is down.
Wait(in) ==
  /\ in.branch \/ in.ret
  /\ ~rdy(in)
  /\ Clock(in)
  /\ Spend(FALSE, 0)
  /\ UNCHANGED <<calls, hijacked>>

\* A store to the configuration registers (gcc/CRAS.c).
Configure(c) ==
  /\ Careful => state = "idle" /\ ~over_thresh /\ page_count = 0
  /\ Clock([Nop("core") EXCEPT !.cfg = c])
  /\ Spend(FALSE, 0)
  /\ UNCHANGED <<calls, hijacked>>

NextSite   == IF Len(calls) < MaxDepth THEN Sites[Len(calls) + 1] ELSE {}
NextTarget == IF calls # <<>> THEN {calls[Len(calls)]} \cup Gadgets ELSE {}

Next ==
  \/ \E p \in Ports :
       \/ Work(p)
       \/ \E a \in NextSite : MakeCall(a, p) \/ Wait(Call(a, p))
       \/ \E a \in NextTarget : MakeReturn(a, p) \/ Wait(Ret(a, p))
  \/ \E c \in Cfgs : Configure(c)

Spec == Init /\ [][Next]_vars

------------------------------------------------------------------------------
(* The entries a program has pushed, wherever they are. *)

InStack == [i \in 1 .. cnt |-> data[i - 1]]

InFlight ==
  CASE state = "enc_pop2"  -> <<pt_i[1]>>
    [] state \in {"enc_begin", "enc_wait", "enc_write_lower", "enc_write_upper"} -> pt_i
    [] state = "dec_push2" -> <<ct_o(1)>>
    [] OTHER               -> <<>>

Pages == IF state = "dec_push2" THEN page_count - 1 ELSE page_count

\* Entry i of the pages, as the current key reads them.
InMemory ==
  [i \in 1 .. 2 * Pages |->
     LET k == (i - 1) \div 2
         p == Decrypt(<<mem[base_addr][2 * k + 1], mem[base_addr][2 * k]>>, key_i)
     IN  IF i % 2 = 1 THEN p[2] ELSE p[1]]

Abs == INSTANCE ReturnStack
         WITH Address <- Addr, stack <- InMemory \o InFlight \o InStack, alarm <- mismatch

------------------------------------------------------------------------------
(* Properties. *)

\* What software sees of the slots, the pair in the crypto core and the
\* encrypted pages is one unbounded stack: no spill, refill or stall loses,
\* duplicates, reorders or corrupts an entry (see ReturnStack).
Implements == Abs!Spec

\* A program none of whose returns was tampered with raises no alarm.  The
\* testbench takes an alarm for an error of the hardware (tb_simon.sv, 151).
NoFalseAlarm == mismatch => hijacked

\* The alarm is up if and only if a return was tampered with: spilled or not,
\* an entry comes back for the return it belongs to, in the same cycle.
AlarmExact == mismatch <=> hijacked
=============================================================================
