------------------------------- MODULE Wiring ------------------------------
(***************************************************************************)
(* The data flow of a composition (src/src/deploy/composition.cpp): stages *)
(* in their recorded order, their tensors, and the buffers that carry      *)
(* values from one to another.  A session runs one; what Composition::     *)
(* validate accepts is one that is WellWired.                              *)
(***************************************************************************)
EXTENDS Integers

CONSTANTS
  NumStages,    \* stage s is the s-th to run
  NumBuffers,   \* the composition's buffers, numbered in its order
  Tensor,       \* every tensor of every stage
  StageOf,      \* [Tensor -> Stage]
  Input,        \* the tensors a stage reads
  Port          \* [Tensor -> 0, or the buffer it is attached to]

Stage  == 1..NumStages
Buffer == 1..NumBuffers

Output        == Tensor \ Input
Inputs(s)     == {t \in Input : StageOf[t] = s}
Outputs(s)    == {t \in Output : StageOf[t] = s}
CallerOwned   == {t \in Tensor : Port[t] = 0}
WriterOf(b)   == CHOOSE t \in Output : Port[t] = b
ProducerOf(b) == StageOf[WriterOf(b)]
Readers(b)    == {t \in Input : Port[t] = b}

\* Every buffer has one writer and at least one reader, and every read is of
\* what an earlier stage wrote.
WellWired ==
  /\ \A b \in Buffer : Readers(b) # {} /\ \E t \in Output : Port[t] = b
  /\ \A t, u \in Output : Port[t] # 0 /\ Port[t] = Port[u] => t = u
  /\ \A t \in Input : Port[t] # 0 => ProducerOf(Port[t]) < StageOf[t]

=============================================================================
