------------------------------ MODULE MCAdopt ------------------------------
(***************************************************************************)
(* Two allocations on two devices, a session on each and a caller that     *)
(* asks for no device, as the C ABI does.                                  *)
(***************************************************************************)
EXTENDS Adopt

CONSTANTS a0, a1, session0, session1, caller

MCHome == [a \in {a0, a1} |-> IF a = a0 THEN 0 ELSE 1]
MCAsks == [c \in {session0, session1, caller} |->
             CASE c = session0 -> 0 [] c = session1 -> 1 [] OTHER -> -1]

=============================================================================
