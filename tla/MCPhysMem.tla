----------------------------- MODULE MCPhysMem ------------------------------
(* Instances of the memory: so few pages that memory runs out in the middle  *)
(* of every call that allocates.                                            *)
EXTENDS PhysMem, TLC

PageSymmetry == Permutations(Pages) \cup Permutations(Envs)
=============================================================================
