----------------------------- MODULE MCSession -----------------------------
(***************************************************************************)
(* A composed model in small: an encoder that runs once per field, a       *)
(* kernel that runs per query and the trunk.                               *)
(*                                                                         *)
(*   beam -> [1 encoder] -> latent -> [2 kernel] -> features -> [3 trunk]  *)
(*                                                       latent -> [3]     *)
(*                                                                 -> flux *)
(*                                                                         *)
(* The latent is one row: the kernel reads it repeated for every query,    *)
(* the trunk reads the row itself.                                         *)
(***************************************************************************)
EXTENDS Session

CONSTANTS m1, m2, far, host

MCTensor  == {"beam", "latent", "latent2", "features", "features3", "latent3", "flux"}
MCStageOf == [t \in MCTensor |-> CASE t \in {"beam", "latent"}      -> 1
                                   [] t \in {"latent2", "features"} -> 2
                                   [] OTHER                         -> 3]
MCInput   == {"beam", "latent2", "features3", "latent3"}
MCNameOf  == [t \in MCTensor |-> t]
MCPort    == [t \in MCTensor |-> CASE t \in {"latent", "latent2", "latent3"} -> 1
                                   [] t \in {"features", "features3"}        -> 2
                                   [] OTHER                                  -> 0]
MCPer       == [t \in MCTensor |-> 1]
MCBatched   == MCTensor \ {"latent3"}
MCDeclared  == [b \in 1..2 |-> 1]

\* m1 and m2 hold the larger grid; a plain pointer, an exported allocation that
\* does not know its device, one of another device and one no backend reaches.
MCMem      == {m1, m2}
MCHolds    == [m \in MCMem |-> IF m = m1 THEN 2 ELSE 1]
MCMaxEdits == [m \in MCMem |-> IF m = m2 THEN 1 ELSE 0]
MCRef      == {m1, m2, far, host}
MCReported == [r \in MCRef |-> CASE r = far -> "cuda1" [] r = m1 -> "cuda0" [] OTHER -> "unknown"]
MCView     == [r \in MCRef |-> CASE r = host -> "nopath" [] r = far -> m1 [] OTHER -> r]

=============================================================================
