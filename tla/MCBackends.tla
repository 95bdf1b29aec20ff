----------------------------- MODULE MCBackends -----------------------------
(***************************************************************************)
(* Two cards of different architectures, and the builds one ONNX Runtime    *)
(* package allows for, down to none at all.                                 *)
(***************************************************************************)
EXTENDS Backends, TLC

CONSTANTS any, sm80, sm90

MCBuilds ==
  {{}, {"cpu"}, {"onnx", "cpu"}, {"onnx", "cpu", "cuda"}, {"onnx", "cpu", "cuda", "tensorrt"},
   {"onnx", "cpu", "rocm"}, {"onnx", "cpu", "directml"}}

MCCardArch == [d \in {0, 1} |-> IF d = 0 THEN sm80 ELSE sm90]

Form(k, a) == [kind |-> k, arch |-> a]
MCPackage ==
  {{Form("onnx", any)}, {Form("cuda_ptx", any)}, {Form("cuda_cubin", sm90)},
   {Form("hsaco", any)}, {Form("spirv", any)},
   {Form("onnx", any), Form("cuda_cubin", sm80)}}

\* The application's references are alike.
MCSymmetry == Permutations(Ref)

=============================================================================
