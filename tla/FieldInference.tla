--------------------------- MODULE FieldInference ---------------------------
(***************************************************************************)
(* `FieldInference` (src/src/core/field_inference.cpp): an object that     *)
(* prepares a session to fill the layers of a field, runs it, and turns    *)
(* what the graph emitted into metric units in place.  Several of them may *)
(* be made over one session, each with a field of its own or a shared one. *)
(*                                                                         *)
(* The session is what it promises: set_voxel_grid drops the bindings,     *)
(* infer() refuses while something is missing and writes through whatever  *)
(* is bound.  Bindings are pointers, so they outlive what they point at.   *)
(* A value is abstracted to the unit it is in and whether the run in       *)
(* progress wrote it; a layer has a few elements, so that an inversion can *)
(* stop half way.                                                          *)
(***************************************************************************)
EXTENDS Naturals, FiniteSets, Sequences, SequencesExt

CONSTANTS
  Filler,       \* the FieldInference objects an application makes
  RadField,     \* the fields it allocates or copies
  Grids,        \* the voxel counts it asks for
  Packages,     \* the packages the session may have been loaded from
  Elements,     \* the elements of a layer that are told apart
  Mirror,       \* device memory an application may attach to a layer
  NoMirror,
  Mirrored,     \* the layers it may attach one to
  OwnWidths,    \* [layer name -> widths of a layer of its own] it adds before a run
  CallerBinds,  \* the slots the application binds on the session itself
  LastMadeOnly, \* whether it runs only the FieldInference it made last
  WithTrunk,    \* whether it runs one only while the session's trunk is enabled
  BoundReturns  \* whether a constructor that has bound every output returns

ASSUME FieldAssumption ==
  /\ Grids \subseteq Nat \ {0}
  /\ Elements \in Nat \ {0}
  /\ NoMirror \notin Mirror
  /\ {LastMadeOnly, WithTrunk, BoundReturns} \subseteq BOOLEAN

\* A package: its kind, the elements and normalizer of its position input, the
\* grid it fixes (0 for none) and its outputs in declaration order, each with
\* its element type, its elements per voxel and its normalizer.
ASSUME PackageAssumption ==
  \A p \in Packages :
    /\ p.kind \in {"VoxelWise", "WholeVolume"}
    /\ p.outputs \in Seq(STRING) /\ Len(p.outputs) > 0
    /\ \A i, j \in DOMAIN p.outputs : p.outputs[i] = p.outputs[j] => i = j
    /\ \A l \in {"position"} \cup ToSet(p.outputs) : l \in DOMAIN p.normalizer
    /\ \A l \in ToSet(p.outputs) : p.elements[l] \in Nat \ {0}
    /\ {"position", "direction"} \cap ToSet(p.outputs) = {}

VARIABLES
  package,   \* session_->get_package(): chosen once, read by every call
  counts,    \* [RadField -> its voxel counts, 0 before it is allocated]
  owned,     \* the fields the application holds a pointer to
  layer,     \* [RadField -> [layer name -> its elements]]: the channel
  width,     \* [RadField -> [layer name -> elements per voxel]]
  mirror,    \* [RadField -> [layer name -> device memory]]
  filler,    \* [Filler -> NoField, or the field_ of a living object]
  grid,      \* the session's grid, 0 for none
  bound,     \* [slot -> the memory the session holds a pointer to]
  trunk,     \* whether the session's trunk runs
  call,      \* the call in progress: [who, at, i, j]
  made,      \* observer: the FieldInference whose construction returned last
  settled,   \* observer: the fields no run is under way or was left half way on
  stored     \* observer: the units that were written to a file

fields == <<counts, owned>>
vars == <<package, fields, layer, width, mirror, filler, grid, bound, trunk,
          call, made, settled, stored>>

----------------------------------------------------------------------------
(* Memory                                                                  *)

NoField == "nofield"
Nothing == <<"unbound">>
Name    == UNION {ToSet(p.outputs) : p \in Packages}
Slot    == {"position", "direction"} \cup Name

ASSUME NameAssumption ==
  /\ NoField \notin RadField /\ "nobody" \notin Filler
  /\ \A l \in Name : OwnWidths[l] \subseteq Nat

PositionsOf(f) == <<"positions", f>>
LayerOf(x, l)  == <<"layer", x, l>>
OnDevice(m)    == <<"mirror", m>>
Callers        == <<"caller", "memory">>

Memory == {PositionsOf(f) : f \in Filler} \cup {Callers}
            \cup {LayerOf(x, l) : x \in RadField, l \in Name}
            \cup {OnDevice(m) : m \in Mirror}

\* A field lives as long as the application or a FieldInference shares it.
Held(x) == x \in owned \/ \E f \in Filler : filler[f] = x

Live(m) ==
  /\ \A f \in Filler : m = PositionsOf(f) => filler[f] # NoField
  /\ \A x \in RadField, l \in Name : m = LayerOf(x, l) => Held(x)

----------------------------------------------------------------------------
(* Units                                                                   *)

\* An element: the unit it is in, and whether the run in progress wrote it.
Element == [unit : {"metric", "graph", "wrong"}, fresh : BOOLEAN]
Zero    == [unit |-> "metric", fresh |-> FALSE]

\* apply and invert refuse an unimplemented normalizer and degenerate parameters.
Applies(n) == n \in {"identity", "scaled"}
Inverts(n) == n \in {"identity", "scaled"}

\* is_invertible asks for the kind only, not for the parameters.
IsInvertible(n) == n # "custom"

Normalizer(l) == package.normalizer[l]
Normalized(l) == Normalizer(l) # "identity"

\* What the graph emits for output l, and what invert makes of a value.
Emitted(l)  == [unit |-> IF Normalized(l) THEN "graph" ELSE "metric", fresh |-> TRUE]
Inverted(v) == [v EXCEPT !.unit = IF @ = "graph" THEN "metric" ELSE "wrong"]

----------------------------------------------------------------------------

Outputs == package.outputs
Idle    == [who |-> "nobody", at |-> "idle", i |-> 0, j |-> 0]
At(phase) == call.at = phase
Me      == call.who
MyField == filler[Me]
Current == Outputs[call.i]

\* Mutant: the loops over the outputs run one too far.
OnePastTheEnd == Len(Outputs) + 1
LastOutput    == Len(Outputs)

Blank == [k \in 1..Elements |-> Zero]

Init ==
  /\ package \in Packages
  /\ counts = [x \in RadField |-> 0] /\ owned = {}
  /\ layer = [x \in RadField |-> [l \in Name |-> Blank]]
  /\ width = [x \in RadField |-> [l \in Name |-> 0]]
  /\ mirror = [x \in RadField |-> [l \in Name |-> NoMirror]]
  /\ filler = [f \in Filler |-> NoField]
  /\ grid = 0
  /\ bound = [s \in Slot |-> Nothing]
  /\ trunk = TRUE
  /\ call = Idle
  /\ made = Nothing
  /\ settled = RadField
  /\ stored = {}

----------------------------------------------------------------------------
(* The application and its fields                                          *)

\* allocate_gpu_field; the counts are those of the geometry or it throws.
Allocate(x, n) ==
  /\ At("idle") /\ counts[x] = 0
  /\ counts' = [counts EXCEPT ![x] = n] /\ owned' = owned \cup {x}
  /\ UNCHANGED <<package, layer, width, mirror, filler, grid, bound, trunk,
                 call, made, settled, stored>>

\* GPUCartesianRadiationField::copy: layers and their contents, not the mirrors.
Copy(x, y) ==
  /\ At("idle") /\ x \in owned /\ counts[y] = 0
  /\ counts' = [counts EXCEPT ![y] = counts[x]] /\ owned' = owned \cup {y}
  /\ layer' = [layer EXCEPT ![y] = layer[x]]
  /\ width' = [width EXCEPT ![y] = width[x]]
  /\ settled' = IF x \in settled THEN settled ELSE settled \ {y}
  /\ UNCHANGED <<package, mirror, filler, grid, bound, trunk, call, made,
                 stored>>

\* The application lets go of a field, or of a FieldInference.
Drop(x) ==
  /\ At("idle") /\ x \in owned
  /\ owned' = owned \ {x}
  /\ UNCHANGED <<package, counts, layer, width, mirror, filler, grid, bound,
                 trunk, call, made, settled, stored>>

Destroy(f) ==
  /\ At("idle") /\ filler[f] # NoField
  /\ filler' = [filler EXCEPT ![f] = NoField]
  /\ UNCHANGED <<package, fields, layer, width, mirror, grid, bound, trunk,
                 call, made, settled, stored>>

\* set_device_memory: a layer need not exist to have a mirror.
SetDeviceMemory(x, l, m) ==
  /\ At("idle") /\ x \in owned
  /\ mirror' = [mirror EXCEPT ![x][l] = m]
  /\ UNCHANGED <<package, fields, layer, width, filler, grid, bound, trunk,
                 call, made, settled, stored>>

\* The application adds a layer of its own before a model is run on the field.
AddOwnLayer(x, l, w) ==
  /\ At("idle") /\ x \in owned /\ width[x][l] = 0
  /\ width' = [width EXCEPT ![x][l] = w]
  /\ UNCHANGED <<package, fields, layer, mirror, filler, grid, bound, trunk,
                 call, made, settled, stored>>

\* to_host_field and store_host_field: every layer's host data, the mirrors
\* left behind.  The application stores a field when a run has returned.
Store(x) ==
  /\ At("idle") /\ x \in owned /\ x \in settled
  /\ stored' = stored \cup
       UNION {{layer[x][l][k].unit : k \in 1..Elements} :
              l \in {n \in Name : width[x][n] # 0}}
  /\ UNCHANGED <<package, fields, layer, width, mirror, filler, grid, bound,
                 trunk, call, made, settled>>

\* The session used directly: bind_input, bind_output, set_stage_enabled.
CallerBind(s) ==
  /\ At("idle") /\ grid # 0
  /\ s \in CallerBinds /\ s \in {"direction", "position"} \cup ToSet(Outputs)
  /\ bound' = [bound EXCEPT ![s] = Callers]
  /\ UNCHANGED <<package, fields, layer, width, mirror, filler, grid, trunk,
                 call, made, settled, stored>>

SetTrunkEnabled(enabled) ==
  /\ At("idle") /\ trunk # enabled
  /\ trunk' = enabled
  /\ UNCHANGED <<package, fields, layer, width, mirror, filler, grid, bound,
                 call, made, settled, stored>>

----------------------------------------------------------------------------
(* Construction                                                            *)

Step(at, i) == call' = [call EXCEPT !.at = at, !.i = i]

\* The pointers are checked and a whole-volume model's grid is compared before
\* anything is touched.  The object counts as living while it is constructed.
Construct(f, x) ==
  /\ At("idle") /\ filler[f] = NoField /\ x \in owned
  /\ (package.kind = "WholeVolume" /\ package.grid # 0)
       => package.grid = counts[x]
  /\ filler' = [filler EXCEPT ![f] = x]
  /\ call' = [who |-> f, at |-> "grid", i |-> 0, j |-> 0]
  /\ UNCHANGED <<package, fields, layer, width, mirror, grid, bound, trunk,
                 made, settled, stored>>

\* set_voxel_grid drops every binding the session had.
\* Mutant: the bindings of an earlier construction survive.
ChooseGridKeepingBindings ==
  /\ At("grid")
  /\ grid' = counts[MyField]
  /\ bound' = bound
  /\ Step(IF package.kind = "VoxelWise" THEN "position" ELSE "layers", 1)
  /\ UNCHANGED <<package, fields, layer, width, mirror, filler, trunk, made,
                 settled, stored>>
ChooseGrid ==
  /\ At("grid")
  /\ grid' = counts[MyField]
  /\ bound' = [s \in Slot |-> Nothing]
  /\ Step(IF package.kind = "VoxelWise" THEN "position" ELSE "layers", 1)
  /\ UNCHANGED <<package, fields, layer, width, mirror, filler, trunk, made,
                 settled, stored>>

\* One centre per voxel, each coordinate in graph units, bound by pointer.
BindPosition ==
  /\ At("position")
  /\ package.position = 3
  /\ Applies(Normalizer("position"))
  /\ bound' = [bound EXCEPT !["position"] = PositionsOf(Me)]
  /\ Step("layers", 1)
  /\ UNCHANGED <<package, fields, layer, width, mirror, filler, grid, trunk,
                 made, settled, stored>>

\* The refusals of the output loop.
Fillable(l) ==
  /\ package.dtype[l] = "F32"
  /\ IsInvertible(Normalizer(l))
  /\ package.kind = "WholeVolume" => package.elements[l] = 1

\* add_output_layer: a layer of that name is kept if it has the width.
AddOutputLayer ==
  /\ At("layers")
  /\ Fillable(Current)
  /\ width[MyField][Current] \in {0, package.elements[Current]}
  /\ width' = [width EXCEPT ![MyField][Current] = package.elements[Current]]
  /\ IF call.i < LastOutput THEN Step("layers", call.i + 1) ELSE Step("bind", 1)
  /\ UNCHANGED <<package, fields, layer, mirror, filler, grid, bound, trunk,
                 made, settled, stored>>

\* A mirror is bound instead of the layer, unless the output must be inverted.
\* Mutant: the mirror of a normalized output is bound as well.
AnyMirror(l) == TRUE
MirrorAllowed(l) == ~Normalized(l)

Target(x, l) == IF mirror[x][l] # NoMirror THEN OnDevice(mirror[x][l]) ELSE LayerOf(x, l)

BindLayer ==
  /\ At("bind")
  /\ mirror[MyField][Current] # NoMirror => MirrorAllowed(Current)
  /\ bound' = [bound EXCEPT ![Current] = Target(MyField, Current)]
  /\ IF call.i < LastOutput THEN Step("bind", call.i + 1) ELSE Step("inputs", 0)
  /\ UNCHANGED <<package, fields, layer, width, mirror, filler, grid, trunk,
                 made, settled, stored>>

\* The names of what the caller still has to bind are listed.
ListInputs ==
  /\ At("inputs")
  /\ call' = Idle
  /\ made' = Me
  /\ UNCHANGED <<package, fields, layer, width, mirror, filler, grid, bound,
                 trunk, settled, stored>>

\* The constructor throws: for a reason of its own, because the session refused
\* the grid or the memory, or for want of memory, for the list it ends with as
\* well.  Its members are destroyed, the session keeps what it was bound to.
ConstructThrows ==
  /\ \/ call.at \in {"grid", "position", "layers", "bind"}
     \/ At("inputs") /\ ~BoundReturns
  /\ \/ UNCHANGED <<grid, bound>>
     \/ At("grid") /\ grid' = counts[MyField] /\ bound' = [s \in Slot |-> Nothing]
  /\ filler' = [filler EXCEPT ![Me] = NoField]
  /\ call' = Idle
  /\ UNCHANGED <<package, fields, layer, width, mirror, trunk, made, settled, stored>>

----------------------------------------------------------------------------
(* run()                                                                   *)

\* What infer() asks for before it runs anything.
Required == ToSet(Outputs) \cup {"direction"}
              \cup (IF package.kind = "VoxelWise" THEN {"position"} ELSE {})

\* Mutant: the outputs are not among the missing.
InputsOnly == {s \in Required \ ToSet(Outputs) : bound[s] = Nothing}
Missing    == {s \in Required : bound[s] = Nothing}

BeginRun(f) ==
  /\ At("idle") /\ filler[f] # NoField
  /\ LastMadeOnly => made = f
  /\ WithTrunk => trunk
  /\ grid # 0 /\ Missing = {}
  /\ call' = [who |-> f, at |-> "infer", i |-> 0, j |-> 0]
  /\ UNCHANGED <<package, fields, layer, width, mirror, filler, grid, bound,
                 trunk, made, settled, stored>>

\* A field's layers after outputs ls have been written through the bindings.
Written(ls) ==
  [x \in RadField |-> [l \in Name |->
     IF l \in ls /\ bound[l] = LayerOf(x, l) /\ Held(x)
       THEN [k \in 1..Elements |-> Emitted(l)]
       ELSE layer[x][l]]]

\* Between two runs nothing is fresh.
Aged(ls) ==
  [x \in RadField |-> [l \in Name |->
     [k \in 1..Elements |-> [ls[x][l][k] EXCEPT !.fresh = FALSE]]]]

\* The fields a run of mine may leave in other units.
Disturbed == {MyField} \cup {x \in RadField : \E l \in ToSet(Outputs) : bound[l] = LayerOf(x, l)}

\* The first normalized output after output i, if there is one.
ToInvert(i) == {k \in DOMAIN Outputs : k > i /\ Normalized(Outputs[k])}
NextInverted(i) ==
  IF ToInvert(i) = {} THEN call' = [call EXCEPT !.at = "returned", !.i = 0, !.j = 0]
  ELSE call' = [call EXCEPT !.at = "invert", !.j = 1,
                  !.i = CHOOSE k \in ToInvert(i) : \A n \in ToInvert(i) : k <= n]

\* infer(): the trunk writes every output, unless it is skipped.
Infer ==
  /\ At("infer")
  /\ layer' = Written(IF trunk THEN ToSet(Outputs) ELSE {})
  /\ settled' = settled \ Disturbed
  /\ NextInverted(0)
  /\ UNCHANGED <<package, fields, width, mirror, filler, grid, bound, trunk,
                 made, stored>>

\* infer() throws with some of the outputs written.
InferThrows ==
  /\ At("infer")
  /\ \E ls \in SUBSET (IF trunk THEN ToSet(Outputs) ELSE {}) :
       layer' = Aged(Written(ls))
  /\ settled' = settled \ Disturbed
  /\ call' = Idle
  /\ UNCHANGED <<package, fields, width, mirror, filler, grid, bound, trunk,
                 made, stored>>

\* One element of the inversion loop: of the field's layer, whatever was bound.
\* Mutant: the loop stops one element early.
ButTheLast == Elements - 1
LastElement == Elements
InvertElement ==
  /\ At("invert")
  /\ Inverts(Normalizer(Current))
  /\ layer' = [layer EXCEPT ![MyField][Current][call.j] = Inverted(@)]
  /\ IF call.j < LastElement THEN call' = [call EXCEPT !.j = @ + 1] ELSE NextInverted(call.i)
  /\ UNCHANGED <<package, fields, width, mirror, filler, grid, bound, trunk,
                 made, settled, stored>>

\* A value invert cannot carry back: the elements before it are inverted.
InvertThrows ==
  /\ At("invert")
  /\ call' = Idle
  /\ layer' = Aged(layer)
  /\ UNCHANGED <<package, fields, width, mirror, filler, grid, bound,
                 trunk, made, settled, stored>>

Return ==
  /\ At("returned")
  /\ call' = Idle
  /\ layer' = Aged(layer)
  /\ settled' = settled \cup {MyField}
  /\ UNCHANGED <<package, fields, width, mirror, filler, grid, bound,
                 trunk, made, stored>>

----------------------------------------------------------------------------

CallStep ==
  \/ ChooseGrid \/ BindPosition \/ AddOutputLayer \/ BindLayer
  \/ ListInputs \/ ConstructThrows
  \/ Infer \/ InferThrows \/ InvertElement \/ InvertThrows \/ Return

Next ==
  \/ \E x \in RadField : Drop(x) \/ Store(x)
  \/ \E x \in RadField, n \in Grids : Allocate(x, n)
  \/ \E x, y \in RadField : Copy(x, y)
  \/ \E x \in RadField, l \in Mirrored, m \in Mirror \cup {NoMirror} : SetDeviceMemory(x, l, m)
  \/ \E x \in RadField, l \in Name : \E w \in OwnWidths[l] : AddOwnLayer(x, l, w)
  \/ \E f \in Filler : Destroy(f) \/ BeginRun(f)
  \/ \E f \in Filler, x \in RadField : Construct(f, x)
  \/ \E s \in Slot : CallerBind(s)
  \/ \E enabled \in BOOLEAN : SetTrunkEnabled(enabled)
  \/ CallStep

Spec == Init /\ [][Next]_vars

----------------------------------------------------------------------------
(* Properties                                                              *)

TypeOK ==
  /\ package \in Packages
  /\ counts \in [RadField -> Grids \cup {0}]
  /\ owned \subseteq RadField
  /\ layer \in [RadField -> [Name -> [1..Elements -> Element]]]
  /\ width \in [RadField -> [Name -> Nat]]
  /\ mirror \in [RadField -> [Name -> Mirror \cup {NoMirror}]]
  /\ filler \in [Filler -> RadField \cup {NoField}]
  /\ grid \in Grids \cup {0}
  /\ bound \in [Slot -> Memory \cup {Nothing}]
  /\ trunk \in BOOLEAN
  /\ call.who \in Filler => filler[call.who] # NoField
  /\ call.at \in {"layers", "bind", "invert"} => call.i \in DOMAIN Outputs
  /\ made \in Filler \cup {Nothing}
  /\ settled \subseteq RadField
  /\ stored \subseteq {"metric", "graph", "wrong"}

\* run() leaves the prediction of this very run in metric units in every layer
\* of its field that has no mirror bound in its place (field_inference.hpp:71):
\* nothing is left in graph units, inverted twice or from an earlier run.  It
\* holds of the FieldInference whose construction returned last (LastMadeOnly),
\* run while the trunk is enabled (WithTrunk), with its outputs left to it.
RunFillsItsField ==
  At("returned") =>
    \A l \in ToSet(Outputs) :
      \/ \E m \in Mirror : bound[l] = OnDevice(m)
      \/ layer[MyField][l] = [k \in 1..Elements |-> [unit |-> "metric", fresh |-> TRUE]]

\* "Afterwards the field's layers hold the prediction IN METRIC UNITS"
\* (field_inference.hpp:71): whether or not this run computed them.
RunLeavesMetric ==
  At("returned") =>
    \A l \in ToSet(Outputs) :
      \/ \E m \in Mirror : bound[l] = OnDevice(m)
      \/ \A k \in 1..Elements : layer[MyField][l][k].unit = "metric"

\* A constructor that throws leaves the session bound to its positions and to
\* some of its layers (field_inference.cpp:125-192).  With every output bound
\* only by a constructor that returned (BoundReturns), the session is not ready
\* then: the object made last (LastMadeOnly) is refused or finds everything it
\* reads and writes alive, the outputs being bound by nobody else.
RunReadsLiveMemory ==
  At("infer") => \A s \in Slot : bound[s] # Nothing => Live(bound[s])

\* A layer is written with as many values as it has, for the grid of its own
\* field: neither another field's grid nor a layer the application had added
\* before with another width is overrun (field_inference.cpp:37-44, :108).
WritesFitTheLayers ==
  \A x \in RadField, l \in Name :
    bound[l] = LayerOf(x, l) /\ At("infer") =>
      counts[x] = grid /\ width[x][l] = package.elements[l]

\* A field that is stored after a run that returned holds metric values only,
\* in every layer: those of other runs, those a copy took along and those a
\* mirror stands in for as well (field_inference.hpp:76-79, :180-184 of the
\* cpp), if what runs is the object made last, with the trunk enabled.
StoredIsMetric == stored \subseteq {"metric"}

=============================================================================
