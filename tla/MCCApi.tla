------------------------------- MODULE MCCApi -------------------------------
(***************************************************************************)
(* One thread drives a session and two buffers, another lists packages.    *)
(* One allocation is shared as a descriptor, one as an NT handle.          *)
(***************************************************************************)
EXTENDS CApi, TLC

CONSTANTS s, m, n, d, t, u, h1, h2, h3, vk, dx, in

MCClassOf == (s :> "session") @@ (m :> "memory") @@ (n :> "memory") @@ (d :> "metadata")
MCUserOf  == (s :> t) @@ (m :> t) @@ (n :> t) @@ (d :> u)
MCSharedBy == (vk :> "fd") @@ (dx :> "nt")

Symmetry == Permutations({h1, h2, h3})

=============================================================================
