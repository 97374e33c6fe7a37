------------------------------- MODULE MCArena ------------------------------
(***************************************************************************)
(* Arena on a small instance: three blocks of two units, a size that fits  *)
(* a block, one that needs an oversized block, two alignments.             *)
(***************************************************************************)
EXTENDS Arena, TLC

MCSizes == {1, 3}
MCAlignments == {1, 2}
BlockSymmetry == Permutations(Blocks)
=============================================================================
