--------------------------- MODULE MCCrasProgram ---------------------------
(***************************************************************************)
(* Instances of CrasProgram for TLC.  As in sims/tb_simon.sv every depth   *)
(* has a return address of its own, so that an entry that is lost,         *)
(* duplicated or out of order is seen; at the first depth there are two,   *)
(* so that a stale copy of an earlier call is seen as well.                *)
(***************************************************************************)
EXTENDS CrasProgram

CONSTANTS a1, a2, a3, a4, a5, a6, a7, a8, a9, a10, b1, b2

DepthSites == <<{a1, b1}, {a2}, {a3}, {a4}, {a5}, {a6}, {a7}, {a8}, {a9}, {a10}>>

ShortSites == <<{a1, b1}, {a2}, {a3}, {a4}, {a5}, {a6}>>

NoCfgs    == {}
QuietCfgs == {c \in Cfg : c.reg \in {"base", "key"}}
=============================================================================
