----------------------------- MODULE MCBuilder -----------------------------
(***************************************************************************)
(* The CPU and two cards of one family.  PTX and a cubin both need it.     *)
(***************************************************************************)
EXTENDS Builder

CONSTANTS onnx, ptx, cubin, cpu, cuda, any, sm80, sm90

MCFamily == [k \in Kind |-> IF k = onnx THEN cpu ELSE cuda]
MCDevice == {[family |-> cpu, arch |-> any]} \cup [family : {cuda}, arch : {sm80, sm90}]

\* The data flow with graphs alone, or the code of one stage without buffers.
Flow ==
  /\ \A i \in DOMAIN blocks : blocks[i].kind = Onnx /\ blocks[i].arch = AnyArch
  /\ \A i \in DOMAIN stages : stages[i].launches = <<>> /\ stages[i].elements = 0
Code ==
  /\ buffers = <<>> /\ Len(stages) <= 1
  /\ \A i \in DOMAIN stages : stages[i].name = Trunk
  /\ \A i \in DOMAIN blocks : blocks[i].name = Trunk
MCScope == Flow \/ Code

=============================================================================
