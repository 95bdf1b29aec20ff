-------------------------- MODULE MCFieldInference --------------------------
(***************************************************************************)
(* Three packages: a voxelwise model with a normalized and a plain output, *)
(* one whose second output cannot be inverted, so that a constructor fails *)
(* after its positions are bound, and a whole-volume model of a fixed grid *)
(* whose normalizer is degenerate, so that every run fails after infer().  *)
(***************************************************************************)
EXTENDS FieldInference

CONSTANTS a, b, x, y, m

Both(v) == [l \in {"flux", "error"} |-> v]

PackageOf(kind, fixed, flux, error) ==
  [kind |-> kind, position |-> 3, grid |-> fixed, outputs |-> <<"flux", "error">>,
   dtype |-> Both("F32"), elements |-> Both(1),
   normalizer |-> [l \in {"position", "flux", "error"} |->
     CASE l = "flux" -> flux [] l = "error" -> error [] OTHER -> "scaled"]]

Voxelwise   == PackageOf("VoxelWise", 0, "scaled", "identity")
Unfillable  == PackageOf("VoxelWise", 0, "identity", "custom")
Degenerate  == PackageOf("WholeVolume", 2, "identity", "degenerate")
MCPackages  == {Voxelwise, Unfillable, Degenerate}

MCOwnWidths == [l \in {"flux", "error"} |-> IF l = "error" THEN {2} ELSE {}]
MCNoWidths  == Both({})
Symmetry    == Permutations({a, b}) \cup Permutations({x, y})

MCVoxelwise == {Voxelwise}
=============================================================================
