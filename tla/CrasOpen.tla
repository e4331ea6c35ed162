------------------------------ MODULE CrasOpen ------------------------------
(***************************************************************************)
(* The return address stack of module Cras with an arbitrary core around   *)
(* it: calls and returns in any order and at any rate, returns on an empty *)
(* stack, loads and stores on the shared memory port, stores to the        *)
(* configuration registers and the reset button at any moment.             *)
(*                                                                         *)
(* Nothing is assumed of the core but that the memory region at a base is  *)
(* large enough for the nesting depth: software chooses base_addr, and the *)
(* hardware does not check it (see InUse).                                 *)
(***************************************************************************)
EXTENDS Cras

CONSTANTS
  Addr,       \* return addresses
  Ports,      \* what the memory stage of the core may hold, see Cras
  Cfgs,       \* the stores to the configuration registers
  Resets      \* whether the reset button may be pressed

ASSUME OpenAssumption ==
  /\ Addr \subseteq Plain
  /\ Ports \subseteq {"free", "core", "alias"}
  /\ Cfgs \subseteq Cfg
  /\ Resets \in BOOLEAN

\* A configuration store is a store: it occupies the memory stage.
Input ==
  {in \in [branch : BOOLEAN, ret : BOOLEAN, addr : Addr, port : Ports,
           cfg : Cfgs \cup {NoCfg}] :
     /\ ~(in.branch /\ in.ret)
     /\ in.cfg # NoCfg => in.port = "core"}

\* Entries popped for a spill that do not count as a page yet, less the one
\* of a page that a refill has pushed already.
Flying ==
  CASE state = "enc_pop2"  -> 1
    [] state \in {"enc_begin", "enc_wait", "enc_write_lower", "enc_write_upper"} -> 2
    [] state = "dec_push2" -> -1
    [] OTHER               -> 0

InUse == cnt + 2 * page_count + Flying

Cycle(in) ==
  /\ in.branch => InUse < 2 * MaxPages
  /\ Clock(in)

Reset(in) ==
  /\ Resets
  /\ CrasReset(in)

Init == CrasInit

Next == \E in \in Input : Cycle(in) \/ Reset(in)

Spec == Init /\ [][Next]_crasVars

\* The clock runs, and the core leaves the memory port free again and again
\* while a transfer waits for it: a stream of loads and stores ends at the
\* next jump, whose delay slot is flushed, and debugging ends.
Fairness == WF_<<fsmVars, simonVars>>(\E in \in Input : in.port # "core" /\ Cycle(in))

FairSpec == Spec /\ Fairness

------------------------------------------------------------------------------
(* Properties. *)

EncBusy == {"enc_begin", "enc_wait", "enc_write_lower", "enc_write_upper"}
DecRead == {"dec_read_upper", "dec_read_lower", "dec_read_lower_2"}
DecBusy == {"dec_begin", "dec_wait", "dec_push1", "dec_push2"}

\* Byte offset of cur_addr from the end of the last page: a spill has written
\* four bytes of a new one, a refill has read four or eight of the last.
AddrOffset ==
  CASE state = "enc_write_upper"                       -> 4
    [] state = "dec_read_lower"                        -> -4
    [] state \in {"dec_read_lower_2"} \cup DecBusy     -> -8
    [] OTHER                                           -> 0

\* The write pointer and the page counter are updated in different states, a
\* spill and a refill in different orders; they always describe the same
\* pages, a refill only starts with a page to read, and the pages stay in
\* their region.
PageAccounting ==
  /\ cur_addr = 8 * page_count + AddrOffset
  /\ page_count \in 0 .. MaxPages
  /\ state \in DecRead \cup DecBusy => page_count > 0
  /\ state \in EncBusy => page_count < MaxPages

\* However fast returns come, and whatever is popped for a spill in the same
\* cycles, a spill takes two entries that are there and the entry counter
\* does not run below zero.
SpillHasEntries ==
  /\ cnt >= 0
  /\ pop_bot => ~empty
  /\ state = "enc_pop1" => cnt >= 2

\* The stack's state machine and the crypto core's agree on who waits for
\* whom: a request is made to an idle core only, the core is at rest while
\* its result is written or pushed, and it never waits for a request that
\* was withdrawn.
Lockstep ==
  /\ state \notin {"enc_begin", "enc_wait", "dec_begin", "dec_wait"}
       => scur = "S_IDLE" /\ ~ready_o
  /\ state = "enc_begin" => \/ scur \in {"S_IDLE", "S_ENC_PRE"} /\ ~ready_o
                            \/ scur = "S_ENC_RUN" /\ ready_o /\ round = 0
  /\ state = "enc_wait"  => scur \in {"S_ENC_RUN", "S_OUTPUT"} /\ ~ready_o
  /\ state = "dec_begin" => \/ scur \in {"S_IDLE", "S_DEC_PRE_KEY", "S_DEC_KEY_RUN", "S_DEC_PRE"} /\ ~ready_o
                            \/ scur = "S_DEC_RUN" /\ ready_o /\ round = 0
  /\ state = "dec_wait"  => scur \in {"S_DEC_RUN", "S_OUTPUT"} /\ ~ready_o

\* No return address leaves the chip in the clear: what the stack writes to
\* memory is the output of the cipher, never a word of the round before.
Confidential == mem \in [Base -> [WordIndex -> Cipher \cup {Junk}]]

\* A stack that filled up, and with it stalled the core, drains.
FullClears == full ~> ~full

\* A return that waits for spilled entries gets them (or a reset intervenes).
EmptyRefills == (empty /\ page_count > 0) ~> (~empty \/ page_count = 0)

\* When no call or return comes any more, spilling and refilling come to an
\* end: the two thresholds do not chase each other.
Settles == <>[][\E in \in Input : ~in.branch /\ ~in.ret /\ Cycle(in)]_crasVars
             => <>[](state = "idle")
=============================================================================
