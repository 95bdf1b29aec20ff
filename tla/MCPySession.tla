---------------------------- MODULE MCPySession ----------------------------
(***************************************************************************)
(* Two threads, three arrays, one of them strided, and names that a model  *)
(* uses for an input and for an output alike.                              *)
(***************************************************************************)
EXTENDS PySession, TLC

CONSTANTS t, u, a, b, strided, m, n, flux, dose, tally

Symmetry == Permutations({t, u}) \cup Permutations({a, b}) \cup Permutations({m, n})
            \cup Permutations({flux, dose})

=============================================================================
