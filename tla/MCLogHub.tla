----------------------------- MODULE MCLogHub -----------------------------
(* Instances of LogHub for TLC: two kinds of rows, a filter for one of them, *)
(* one for both, and a negated one that also accepts an overwritten row.     *)
EXTENDS LogHub, TLC

CONSTANTS error, info

MCFilters == {{error, info}, {info, Gone}}
MCPlain == {{info}}
Symmetry  == Permutations(Subs)
=============================================================================
