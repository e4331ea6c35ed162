------------------------------- MODULE Powers -------------------------------
(***************************************************************************)
(* The powers of a number, in particular of two.                           *)
(***************************************************************************)
EXTENDS Integers

Power(x) == LET p[k \in Nat] == IF k = 0 THEN 1 ELSE x * p[k - 1] IN p

Pow2 == Power(2)
=============================================================================
