---------------------------- MODULE MCContainer ----------------------------
(***************************************************************************)
(* What is written: a plain package, one with other weights in two chunks  *)
(* of it, and one that validate refuses.  What is found and rewritten: a    *)
(* package with everything optional in it, a kind of block and a kind of   *)
(* range this build does not know included.                                *)
(***************************************************************************)
EXTENDS Container

CONSTANTS p1, p2

Tensor(name, role, range, normalizer) ==
  [name |-> Txt(name), role |-> Num(role), semantic |-> Txt(name), shape |-> <<Num(1)>>,
   dtype |-> Num(0), unit |-> Txt("eV"), range |-> range,
   normalizer |-> normalizer, optional |-> Num(0)]
NoRange  == [kind |-> Num(0), payload |-> <<>>]
Identity == [name |-> Txt("identity"), params |-> <<>>]
BlockOf(kind, name, payload) ==
  [kind |-> Txt(kind), name |-> Txt(name), arch |-> Txt(""), payload |-> payload]
Flux  == Tensor("flux", 1, NoRange, Identity)
Trained(when) == <<BlockOf("onnx", "trunk", <<Txt(when)>>),
                   BlockOf("onnx", "encoder", [i \in 1..16 |-> Txt(when)])>>
Plain == [provenance |-> Txt("lab"), io |-> <<Flux>>, geometry |-> [box |-> Txt("box"), voxelization |-> <<>>],
          metrics |-> <<>>, rf3 |-> <<>>, blocks |-> Trained("old")]
Retrained == [Plain EXCEPT !.blocks = Trained("new")]

Wiring == [buffers |-> <<Txt("latent")>>,
           stages |-> <<[name |-> Txt("trunk"), invocation |-> Txt("per_query"), reads |-> <<Txt("latent")>>,
                         writes |-> <<>>, launches |-> <<>>, weights |-> Num(0)]>>]
Beam == Tensor("beam", 0, [kind |-> Num(9), payload |-> <<Txt("who"), Txt("knows")>>],
               [name |-> Txt("squash"), params |-> <<Num(4)>>])
Spectrum == Tensor("spectrum", 1, [kind |-> Num(3), payload |-> <<Num(1), Txt("label")>>],
                   [name |-> Txt("asinh"), params |-> <<Num(2)>>])
Rf3  == [store |-> Num(1), simulation |-> Txt("simulation"), software |-> Txt("software"),
         dynamic |-> <<Txt("layer")>>]
Rich == [Plain EXCEPT !.io = <<Beam, Spectrum>>,
           !.geometry.voxelization = <<Num(4), Num(1)>>,
           !.metrics = <<[name |-> Txt("loss"), value |-> Num(7)]>>,
           !.rf3 = <<Rf3>>,
           !.blocks = <<BlockOf("onnx", "trunk", <<Txt("old")>>),
                        BlockOf("composition", "", EncodeComposition(Wiring)),
                        BlockOf("wasm", "trunk", <<Txt("code")>>)>>]
NoOutputs == [Plain EXCEPT !.io = <<Beam>>]

\* What another producer may have left: nothing, the renumbered version, a
\* later one that adds fields of its own and repeats a metric, a version this
\* build does not read, a package composed twice, bytes nobody signed, and a
\* file that was never finished.
File(version, body) == <<Magic, version, Digest(body)>> \o body
Later == Sized(<<Rich.provenance>> \o ListOf(Rich.io, EncodeTensor) \o EncodeGeometry(Rich.geometry)
               \o ListOf(Rich.metrics \o <<[Rich.metrics[1] EXCEPT !.value = Num(8)]>>, EncodeMetric)
               \o <<Num(3)>> \o Sized(<<Rf3.store>> \o Sized(<<Rf3.simulation, Txt("later")>>)
                                      \o Sized(<<Rf3.software>>) \o Sized(Rf3.dynamic) \o <<Txt("later")>>)
               \o <<Txt("later")>>)
         \o ListOf(Rich.blocks, EncodeBlock) \o <<Txt("later")>>
Twice == [Rich EXCEPT !.blocks = @ \o <<@[2]>>]
MCFound == {<<>>, File(Renumbered, Body(Plain)), File(V1, Later), File(Num(3), Body(Plain)),
            File(V1, Body(Twice)), <<Magic, V1, Txt("unsigned")>> \o Body(Plain),
            SubSeq(File(V1, Body(Rich)), 1, 16)}

ASSUME CodecAssumption == RoundTrips

Symmetry == Permutations({p1, p2})

MCPackages == {Plain, Retrained, NoOutputs}

=============================================================================
