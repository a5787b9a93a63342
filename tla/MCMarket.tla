------------------------------- MODULE MCMarket --------------------------------
(* Market with finite sets of inputs, for the runs of MCMarket*.cfg. *)
EXTENDS Market, TLC

MCAllowances == {1, UIntMax}

Symmetry == Permutations(Account)

================================================================================
