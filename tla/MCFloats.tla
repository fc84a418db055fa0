------------------------------ MODULE MCFloats ------------------------------
(***************************************************************************)
(* An outcome of f64 for the runs: every numerator from Precision on comes *)
(* out at one end of what the precision allows, roots and quotients of the *)
(* same numerator at opposite ends.                                        *)
(***************************************************************************)
EXTENDS Integers

CONSTANT Precision

MCRounded(n, chain) ==
  IF (chain[1] = "root") # (n % 3 = 0)
  THEN n + n \div Precision
  ELSE n - n \div Precision - (IF chain[1] = "sum" THEN 1 ELSE 0)
=============================================================================
