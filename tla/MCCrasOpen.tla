----------------------------- MODULE MCCrasOpen -----------------------------
(***************************************************************************)
(* Instances of CrasOpen for TLC.  The words and keys are model values;    *)
(* the set of configuration stores cannot be written in a .cfg file.       *)
(***************************************************************************)
EXTENDS CrasOpen

EnaCfgs == {c \in Cfg : c.reg = "ena"}
=============================================================================
