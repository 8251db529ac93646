-------------------------- MODULE MCSourceRegistry --------------------------
(***************************************************************************)
(* SourceRegistry with interchangeable sources.                            *)
(***************************************************************************)
EXTENDS SourceRegistry, TLC

SourceSymmetry == Permutations(Sources)
=============================================================================
