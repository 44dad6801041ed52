-------------------------------- MODULE Sums --------------------------------
(* The sum of the values of a function with a finite domain.               *)
EXTENDS Integers, FiniteSets, FiniteSetsExt

SumOf(f) == MapThenSumSet(LAMBDA k : f[k], DOMAIN f)
=============================================================================
