------------------------------ MODULE MCKernel ------------------------------
(***************************************************************************)
(* Two threads, two devices, a stage with two ports and its weights.       *)
(***************************************************************************)
EXTENDS Kernel, TLC

CONSTANTS t, u, d0, d1, r1, r2, r3, g1, g2, s

MCSymmetry ==
  Permutations({t, u}) \cup Permutations({d0, d1}) \cup Permutations({r1, r2, r3})
    \cup Permutations({g1, g2})

=============================================================================
