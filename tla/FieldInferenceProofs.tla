------------------------ MODULE FieldInferenceProofs ------------------------
(***************************************************************************)
(* For any package, fields, grids and objects over one session: the layers *)
(* a session is bound to are as large as what it writes, a run it accepts  *)
(* finds everything it is bound to alive and fills its field, and what is  *)
(* stored is in metric units.  One invariant for each: sizes, lifetimes,   *)
(* bindings, units, and what the types need besides.                       *)
(***************************************************************************)
EXTENDS FieldInference, WellFoundedInduction, TLAPS

----------------------------------------------------------------------------
(* The first invariant: sizes                                              *)

Phase == {"idle", "grid", "position", "layers", "bind", "inputs", "infer", "invert", "returned"}
Call  == [who : Filler \cup {"nobody"}, at : Phase, i : Nat, j : Nat]

Shapes ==
  /\ package \in Packages
  /\ counts \in [RadField -> Nat]
  /\ owned \subseteq RadField
  /\ width \in [RadField -> [Name -> Nat]]
  /\ mirror \in [RadField -> [Name -> Mirror \cup {NoMirror}]]
  /\ filler \in [Filler -> RadField \cup {NoField}]
  /\ bound \in [Slot -> Memory \cup {Nothing}]
  /\ grid \in Nat
  /\ call \in Call

\* A field that is shared has been allocated.
Allocated ==
  /\ \A x \in owned : counts[x] # 0
  /\ \A f \in Filler : filler[f] # NoField => counts[filler[f]] # 0

\* A layer the session is bound to has the grid and the width of what is written.
Fit ==
  \A x \in RadField, l \in Name :
    bound[l] = LayerOf(x, l) =>
      /\ grid # 0 /\ counts[x] = grid
      /\ l \in ToSet(Outputs) /\ width[x][l] = package.elements[l]

\* The first outputs have a layer of their width.
Wide(n) ==
  \A k \in DOMAIN Outputs : k < n => width[MyField][Outputs[k]] = package.elements[Outputs[k]]

\* How far a constructor has come.
Building == call.at \in {"grid", "position", "layers", "bind", "inputs"}
Constructing ==
  Building =>
    /\ Me \in Filler /\ MyField \in RadField
    /\ call.at # "grid" => grid = counts[MyField]
    /\ At("layers") => call.i \in DOMAIN Outputs /\ Wide(call.i)
    /\ At("bind") => call.i \in DOMAIN Outputs /\ Wide(Len(Outputs) + 1)

IInv == Shapes /\ Allocated /\ Fit /\ Constructing

----------------------------------------------------------------------------
(* Memory and outputs                                                      *)

\* Pointers to different things differ.
LEMMA Pointers ==
  /\ \A f, g : PositionsOf(f) = PositionsOf(g) => f = g
  /\ \A x, l, y, n : LayerOf(x, l) = LayerOf(y, n) => x = y /\ l = n
  /\ \A f, x, l : PositionsOf(f) # LayerOf(x, l)
  /\ \A d, x, l : OnDevice(d) # LayerOf(x, l)
  /\ \A d, f : OnDevice(d) # PositionsOf(f)
  /\ \A x, l : Callers # LayerOf(x, l) /\ Nothing # LayerOf(x, l)
  /\ \A f : Callers # PositionsOf(f) /\ Nothing # PositionsOf(f)
  /\ Callers # Nothing
  /\ \A d : OnDevice(d) # Nothing
<1>1. \A f, g : PositionsOf(f) = PositionsOf(g) => f = g
  BY DEF PositionsOf
<1>2. \A x, l, y, n : LayerOf(x, l) = LayerOf(y, n) => x = y /\ l = n
  BY DEF LayerOf
<1>3. /\ \A f : PositionsOf(f)[1] = "positions"
      /\ \A x, l : LayerOf(x, l)[1] = "layer"
      /\ \A d : OnDevice(d)[1] = "mirror"
      /\ Callers[1] = "caller" /\ Nothing[1] = "unbound"
  BY DEF PositionsOf, LayerOf, OnDevice, Callers, Nothing
<1>4. /\ "positions" # "layer" /\ "positions" # "mirror" /\ "positions" # "caller"
      /\ "positions" # "unbound" /\ "layer" # "mirror" /\ "layer" # "caller"
      /\ "layer" # "unbound" /\ "mirror" # "unbound" /\ "caller" # "unbound"
  OBVIOUS
<1> HIDE DEF PositionsOf, LayerOf, OnDevice, Callers, Nothing
<1> QED
  BY <1>1, <1>2, <1>3, <1>4

\* The outputs of a package.
LEMMA OutputsOf ==
  ASSUME package \in Packages
  PROVE  /\ Outputs \in Seq(STRING) /\ Len(Outputs) \in Nat \ {0} /\ DOMAIN Outputs = 1..Len(Outputs)
         /\ ToSet(Outputs) \subseteq Name
         /\ \A k \in DOMAIN Outputs : Outputs[k] \in ToSet(Outputs)
         /\ \A l \in ToSet(Outputs) : package.elements[l] \in Nat \ {0}
         /\ \A l \in ToSet(Outputs) : l # "position" /\ l # "direction"
         /\ Name \subseteq Slot /\ "position" \in Slot
         /\ \A l \in ToSet(Outputs) : \E k \in DOMAIN Outputs : l = Outputs[k]
<1>1. /\ Outputs \in Seq(STRING) /\ Len(Outputs) > 0
      /\ \A l \in ToSet(Outputs) : package.elements[l] \in Nat \ {0}
      /\ {"position", "direction"} \cap ToSet(Outputs) = {}
  BY PackageAssumption DEF Outputs
<1>2. Len(Outputs) \in Nat \ {0} /\ DOMAIN Outputs = 1..Len(Outputs)
  BY <1>1
<1>3. ToSet(Outputs) = {Outputs[k] : k \in DOMAIN Outputs}
  BY DEF ToSet
<1>4. ToSet(Outputs) \subseteq Name
  BY DEF Outputs, Name
<1> QED
  BY <1>1, <1>2, <1>3, <1>4 DEF Slot

\* A set of numbers has a smallest.
LEMMA Smallest ==
  ASSUME NEW S, S \subseteq Nat, S # {}
  PROVE  \E k \in S : \A n \in S : k <= n
<1>1. PICK k \in S : \A n \in S : <<n, k>> \notin OpToRel(<, Nat)
  BY WFMin, NatLessThanWellFounded, Zenon
<1>2. \A n \in S : ~(n < k)
  BY <1>1, Zenon DEF OpToRel
<1> QED
  BY <1>2

----------------------------------------------------------------------------
(* The steps                                                               *)

LEMMA InitInv == Init => IInv
<1> SUFFICES ASSUME Init PROVE IInv
  OBVIOUS
<1>1. Shapes
  <2>1. call \in Call
    BY DEF Init, Idle, Call, Phase
  <2>2. /\ counts \in [RadField -> Nat] /\ width \in [RadField -> [Name -> Nat]]
        /\ mirror \in [RadField -> [Name -> Mirror \cup {NoMirror}]]
    BY DEF Init
  <2>3. filler \in [Filler -> RadField \cup {NoField}] /\ bound \in [Slot -> Memory \cup {Nothing}]
    BY DEF Init
  <2> QED
    BY <2>1, <2>2, <2>3 DEF Init, Shapes, Call, Phase
<1>2. Allocated
  BY DEF Init, Allocated
<1>3. Fit
  <2>1. \A l \in Name : bound[l] = Nothing
    BY DEF Init, Slot
  <2> QED
    BY <2>1, Pointers DEF Fit
<1>4. Constructing
  BY DEF Init, Constructing, Building, Idle
<1> QED
  BY <1>1, <1>2, <1>3, <1>4 DEF IInv

\* A step that leaves sizes and bindings alone.
LEMMA QuietKeeps ==
  ASSUME IInv, UNCHANGED <<package, counts, width, filler, grid, bound>>,
         owned' \subseteq owned,
         mirror' \in [RadField -> [Name -> Mirror \cup {NoMirror}]],
         call' \in Call,
         call' = call \/ ~Building'
  PROVE  IInv'
<1>1. Shapes'
  BY DEF IInv, Shapes, Call, Phase
<1>2. Allocated'
  BY DEF IInv, Allocated
<1>3. Fit'
  BY DEF IInv, Fit, Outputs
<1>4. Constructing'
  <2>1. CASE ~Building'
    BY <2>1 DEF Constructing
  <2>2. CASE call' = call
    BY <2>2 DEF IInv, Constructing, Building, Me, MyField, At, Outputs, Wide
  <2> QED
    BY <2>1, <2>2
<1> QED
  BY <1>1, <1>2, <1>3, <1>4 DEF IInv

\* The steps of the application between two calls.
LEMMA ApplicationKeeps ==
  ASSUME IInv, At("idle"), call' = call, package' = package, grid' = grid,
         Shapes', Allocated', Fit'
  PROVE  IInv'
BY DEF IInv, Constructing, Building, At

LEMMA AllocateKeeps ==
  ASSUME IInv, NEW x \in RadField, NEW n \in Grids, Allocate(x, n)
  PROVE  IInv'
<1> USE DEF Allocate
<1>1. n \in Nat \ {0}
  BY FieldAssumption
<1>2. Shapes'
  BY <1>1 DEF IInv, Shapes, Call, Phase
<1>3. \A y \in RadField : counts[y] # 0 => counts'[y] = counts[y]
  BY DEF IInv, Shapes, Call, Phase
<1>4. Allocated'
  <2>1. counts'[x] # 0
    BY <1>1 DEF IInv, Shapes, Call, Phase
  <2>2. \A f \in Filler : filler[f] # NoField => filler[f] \in RadField
    BY DEF IInv, Shapes, Call, Phase
  <2> QED
    BY <1>3, <2>1, <2>2 DEF IInv, Allocated, Shapes, Call, Phase
<1>5. Fit'
  BY <1>3 DEF IInv, Fit, Outputs
<1> QED
  BY <1>2, <1>4, <1>5, ApplicationKeeps

LEMMA CopyKeeps ==
  ASSUME IInv, NEW x \in RadField, NEW y \in RadField, Copy(x, y)
  PROVE  IInv'
<1> USE DEF Copy
<1>1. counts[x] \in Nat \ {0}
  BY DEF IInv, Shapes, Call, Phase, Allocated
<1>2. Shapes'
  BY <1>1 DEF IInv, Shapes, Call, Phase
<1>3. \A z \in RadField : counts[z] # 0 => counts'[z] = counts[z] /\ width'[z] = width[z]
  BY DEF IInv, Shapes, Call, Phase
<1>4. Allocated'
  <2>1. counts'[y] # 0
    BY <1>1 DEF IInv, Shapes, Call, Phase
  <2>2. \A f \in Filler : filler[f] # NoField => filler[f] \in RadField
    BY DEF IInv, Shapes, Call, Phase
  <2> QED
    BY <1>3, <2>1, <2>2 DEF IInv, Allocated, Shapes, Call, Phase
<1>5. Fit'
  BY <1>3 DEF IInv, Fit, Outputs
<1> QED
  BY <1>2, <1>4, <1>5, ApplicationKeeps

LEMMA AddOwnLayerKeeps ==
  ASSUME IInv, NEW x \in RadField, NEW l \in Name, NEW w \in Nat, AddOwnLayer(x, l, w)
  PROVE  IInv'
<1> USE DEF AddOwnLayer, fields
<1>1. Shapes'
  BY DEF IInv, Shapes, Call, Phase
<1>2. Allocated'
  BY DEF IInv, Allocated
<1>3. \A z \in RadField, n \in Name : width[z][n] # 0 => width'[z][n] = width[z][n]
  BY DEF IInv, Shapes, Call, Phase
<1>4. Fit'
  BY <1>3, OutputsOf DEF IInv, Shapes, Call, Phase, Fit, Outputs
<1> QED
  BY <1>1, <1>2, <1>4, ApplicationKeeps

LEMMA CallerBindKeeps ==
  ASSUME IInv, NEW s \in Slot, CallerBind(s)
  PROVE  IInv'
<1> USE DEF CallerBind, fields
<1>1. Shapes'
  BY DEF IInv, Shapes, Call, Phase, Memory
<1>2. Allocated'
  BY DEF IInv, Allocated
<1>3. \A z \in Slot : bound'[z] \in {bound[z], Callers}
  BY DEF IInv, Shapes, Call, Phase
<1>4. Fit'
  BY <1>3, Pointers DEF IInv, Fit, Outputs, Slot
<1> QED
  BY <1>1, <1>2, <1>4, ApplicationKeeps

LEMMA DestroyKeeps ==
  ASSUME IInv, NEW f \in Filler, Destroy(f)
  PROVE  IInv'
<1> USE DEF Destroy, fields
<1>1. Shapes'
  BY DEF IInv, Shapes, Call, Phase
<1>2. Allocated'
  BY DEF IInv, Allocated, Shapes, Call, Phase
<1>3. Fit'
  BY DEF IInv, Fit, Outputs
<1> QED
  BY <1>1, <1>2, <1>3, ApplicationKeeps

LEMMA ConstructKeeps ==
  ASSUME IInv, NEW f \in Filler, NEW x \in RadField, Construct(f, x)
  PROVE  IInv'
<1> USE DEF Construct, fields
<1>1. Shapes'
  BY DEF IInv, Shapes, Call, Phase
<1>2. Allocated'
  BY DEF IInv, Allocated, Shapes, Call, Phase
<1>3. Fit'
  BY DEF IInv, Fit, Outputs
<1>4. Constructing'
  BY DEF IInv, Shapes, Call, Phase, Constructing, Building, Me, MyField, At
<1> QED
  BY <1>1, <1>2, <1>3, <1>4 DEF IInv

LEMMA ChooseGridKeeps ==
  ASSUME IInv, ChooseGrid
  PROVE  IInv'
<1> USE DEF ChooseGrid, Step, fields
<1>1. At("grid") /\ Me \in Filler /\ MyField \in RadField
  BY DEF IInv, Constructing, Building, At
<1>2. Shapes'
  BY <1>1 DEF IInv, Shapes, Call, Phase
<1>3. Allocated'
  BY DEF IInv, Allocated
<1>4. Fit'
  <2>1. \A l \in Name : bound'[l] = Nothing
    BY DEF Slot
  <2> QED
    BY <2>1, Pointers DEF Fit
<1>5. Constructing'
  <2>1. Me' = Me /\ MyField' = MyField /\ call'.i = 1 /\ call'.at \in {"position", "layers"}
    BY DEF IInv, Shapes, Call, Phase, Me, MyField
  <2>2. 1 \in DOMAIN Outputs' /\ DOMAIN Outputs' \subseteq Nat \ {0}
    BY OutputsOf DEF IInv, Shapes, Call, Phase, Outputs
  <2>3. Wide(1)'
    BY <2>2 DEF Wide
  <2> QED
    BY <1>1, <2>1, <2>2, <2>3 DEF Constructing, Building, At
<1> QED
  BY <1>2, <1>3, <1>4, <1>5 DEF IInv

LEMMA BindPositionKeeps ==
  ASSUME IInv, BindPosition
  PROVE  IInv'
<1> USE DEF BindPosition, Step, fields
<1>1. At("position") /\ Me \in Filler /\ MyField \in RadField /\ grid = counts[MyField]
  BY DEF IInv, Constructing, Building, At
<1>2. Shapes'
  <2>1. PositionsOf(Me) \in Memory
    BY <1>1 DEF Memory
  <2>2. call' \in Call
    BY DEF IInv, Shapes, Call, Phase
  <2>3. bound' \in [Slot -> Memory \cup {Nothing}]
    BY <2>1 DEF IInv, Shapes
  <2> QED
    BY <2>2, <2>3 DEF IInv, Shapes
<1>3. Allocated'
  BY DEF IInv, Allocated
<1>4. \A z \in Slot : bound'[z] \in {bound[z], PositionsOf(Me)}
  BY DEF IInv, Shapes, Call, Phase
<1>5. Fit'
  BY <1>4, Pointers DEF IInv, Fit, Outputs, Slot
<1>6. Constructing'
  <2>1. Me' = Me /\ MyField' = MyField /\ call'.i = 1 /\ call'.at = "layers"
    BY DEF IInv, Shapes, Call, Phase, Me, MyField
  <2>2. 1 \in DOMAIN Outputs' /\ DOMAIN Outputs' \subseteq Nat \ {0}
    BY OutputsOf DEF IInv, Shapes, Call, Phase, Outputs
  <2>3. Wide(1)'
    BY <2>2 DEF Wide
  <2> QED
    BY <1>1, <2>1, <2>2, <2>3 DEF Constructing, Building, At
<1> QED
  BY <1>2, <1>3, <1>5, <1>6 DEF IInv

LEMMA AddOutputLayerKeeps ==
  ASSUME IInv, AddOutputLayer
  PROVE  IInv'
<1> USE DEF AddOutputLayer, Step, fields
<1>1. /\ At("layers") /\ Me \in Filler /\ MyField \in RadField /\ grid = counts[MyField]
      /\ call.i \in DOMAIN Outputs /\ Wide(call.i)
  BY DEF IInv, Constructing, Building, At
<1>2. /\ Current \in Name /\ package.elements[Current] \in Nat \ {0}
      /\ DOMAIN Outputs = 1..Len(Outputs) /\ Len(Outputs) \in Nat \ {0}
  BY <1>1, OutputsOf DEF IInv, Shapes, Call, Phase, Current
<1>3. /\ call' \in Call
      /\ Me' = Me /\ MyField' = MyField
      /\ IF call.i < Len(Outputs) THEN call'.at = "layers" /\ call'.i = call.i + 1
                                  ELSE call'.at = "bind" /\ call'.i = 1
  <2>1. call \in Call /\ call.i \in Nat
    BY DEF IInv, Shapes, Call
  <2>2. CASE call.i < Len(Outputs)
    <3>1. call' = [call EXCEPT !.at = "layers", !.i = call.i + 1]
      BY <2>2 DEF LastOutput
    <3>2. call' = [who |-> call.who, at |-> "layers", i |-> call.i + 1, j |-> call.j]
      BY <2>1, <3>1 DEF Call
    <3>3. call.i + 1 \in Nat /\ call.who \in Filler \cup {"nobody"} /\ call.j \in Nat
      BY <2>1 DEF Call
    <3> QED
      BY <2>2, <3>2, <3>3 DEF Call, Phase, Me, MyField
  <2>3. CASE ~(call.i < Len(Outputs))
    <3>1. call' = [call EXCEPT !.at = "bind", !.i = 1]
      BY <2>3 DEF LastOutput
    <3> QED
      BY <2>1, <2>3, <3>1 DEF Call, Phase, Me, MyField
  <2> QED
    BY <2>2, <2>3
<1>4. width' \in [RadField -> [Name -> Nat]]
  BY <1>1, <1>2 DEF IInv, Shapes, Call, Phase
<1>5. Shapes'
  BY <1>3, <1>4 DEF IInv, Shapes, Call, Phase
<1>6. Allocated'
  BY DEF IInv, Allocated
<1>7. /\ width'[MyField][Current] = package.elements[Current]
      /\ \A x \in RadField, l \in Name : ~(x = MyField /\ l = Current) => width'[x][l] = width[x][l]
  BY <1>1, <1>2 DEF IInv, Shapes, Call, Phase
<1>8. Fit'
  BY <1>7 DEF IInv, Fit, Outputs
<1>9. \A k \in DOMAIN Outputs : k < call.i + 1 =>
        width'[MyField][Outputs[k]] = package.elements[Outputs[k]]
  <2>1. SUFFICES ASSUME NEW k \in DOMAIN Outputs, k < call.i + 1
                 PROVE  width'[MyField][Outputs[k]] = package.elements[Outputs[k]]
    OBVIOUS
  <2>2. Outputs[k] \in Name
    BY OutputsOf DEF IInv, Shapes, Call, Phase
  <2>3. CASE Outputs[k] = Current
    BY <2>3, <1>7
  <2>4. CASE Outputs[k] # Current
    <3>1. k < call.i
      BY <2>1, <2>4, <1>1, <1>2 DEF Current
    <3> QED
      BY <3>1, <2>2, <2>4, <1>1, <1>7 DEF Wide
  <2> QED
    BY <2>3, <2>4
<1>10. Constructing'
  <2>1. CASE call.i < Len(Outputs)
    <3>1. call'.at = "layers" /\ call'.i = call.i + 1
      BY <2>1, <1>3
    <3>2. call'.i \in DOMAIN Outputs' /\ Wide(call.i)'
      BY <3>1, <2>1, <1>1, <1>2, <1>3, <1>9 DEF Outputs, Wide
    <3> QED
      BY <3>1, <3>2, <1>1, <1>3 DEF Constructing, Building, At
  <2>2. CASE ~(call.i < Len(Outputs))
    <3>1. call'.at = "bind" /\ call'.i = 1 /\ call.i = Len(Outputs)
      BY <2>2, <1>3, <1>1, <1>2
    <3>2. call'.i \in DOMAIN Outputs' /\ Wide(Len(Outputs) + 1)'
      BY <3>1, <1>1, <1>2, <1>3, <1>9 DEF Outputs, Wide
    <3> QED
      BY <3>1, <3>2, <1>1, <1>3 DEF Constructing, Building, At
  <2> QED
    BY <2>1, <2>2
<1> QED
  BY <1>5, <1>6, <1>8, <1>10 DEF IInv

LEMMA BindLayerKeeps ==
  ASSUME IInv, BindLayer
  PROVE  IInv'
<1> USE DEF BindLayer, Step, fields
<1>1. /\ At("bind") /\ Me \in Filler /\ MyField \in RadField /\ grid = counts[MyField]
      /\ call.i \in DOMAIN Outputs /\ Wide(Len(Outputs) + 1)
  BY DEF IInv, Constructing, Building, At
<1>2. /\ Current \in Name /\ Current \in ToSet(Outputs) /\ Current \in Slot
      /\ DOMAIN Outputs = 1..Len(Outputs) /\ Len(Outputs) \in Nat \ {0}
  BY <1>1, OutputsOf DEF IInv, Shapes, Call, Phase, Current
<1>3. /\ call' \in Call
      /\ IF call.i < Len(Outputs) THEN call'.at = "bind" /\ call'.i = call.i + 1 /\ Me' = Me
                                  ELSE call'.at = "inputs" /\ Me' = Me
  <2>1. call \in Call /\ call.i \in Nat
    BY DEF IInv, Shapes, Call
  <2>2. CASE call.i < Len(Outputs)
    <3>1. call' = [call EXCEPT !.at = "bind", !.i = call.i + 1]
      BY <2>2 DEF LastOutput
    <3>2. call' = [who |-> call.who, at |-> "bind", i |-> call.i + 1, j |-> call.j]
      BY <2>1, <3>1 DEF Call
    <3>3. call.i + 1 \in Nat /\ call.who \in Filler \cup {"nobody"} /\ call.j \in Nat
      BY <2>1 DEF Call
    <3> QED
      BY <2>2, <3>2, <3>3 DEF Call, Phase, Me
  <2>3. CASE ~(call.i < Len(Outputs))
    <3>1. call' = [call EXCEPT !.at = "inputs", !.i = 0]
      BY <2>3 DEF LastOutput
    <3> QED
      BY <2>1, <2>3, <3>1 DEF Call, Phase, Me
  <2> QED
    BY <2>2, <2>3
<1>4. Target(MyField, Current) \in Memory
  BY <1>1, <1>2 DEF Target, Memory, IInv, Shapes, Call, Phase
<1>5. Shapes'
  BY <1>2, <1>3, <1>4 DEF IInv, Shapes, Call, Phase
<1>6. Allocated'
  BY DEF IInv, Allocated
<1>7. Fit'
  <2>1. \A l \in Name : bound'[l] = IF l = Current THEN Target(MyField, Current) ELSE bound[l]
    BY <1>2 DEF IInv, Shapes, Call, Phase, Slot
  <2>2. width[MyField][Current] = package.elements[Current] /\ counts[MyField] # 0
    BY <1>1, <1>2, NameAssumption DEF Wide, Current, MyField, IInv, Allocated
  <2>3. \A x, l : Target(MyField, Current) = LayerOf(x, l) => x = MyField /\ l = Current
    BY Pointers DEF Target
  <2> QED
    BY <2>1, <2>2, <2>3, <1>1, <1>2 DEF IInv, Fit, Outputs
<1>8. Constructing'
  <2>1. CASE call.i < Len(Outputs)
    <3>1. call'.at = "bind" /\ call'.i \in DOMAIN Outputs' /\ Me' = Me /\ MyField' = MyField
      BY <2>1, <1>1, <1>2, <1>3 DEF Outputs, MyField
    <3>2. Wide(Len(Outputs) + 1)'
      BY <3>1, <1>1 DEF Wide, Outputs
    <3> QED
      BY <3>1, <3>2, <1>1 DEF Constructing, Building, At
  <2>2. CASE ~(call.i < Len(Outputs))
    <3>1. call'.at = "inputs" /\ Me' = Me /\ MyField' = MyField
      BY <2>2, <1>3 DEF MyField
    <3> QED
      BY <3>1, <1>1 DEF Constructing, Building, At
  <2> QED
    BY <2>1, <2>2
<1> QED
  BY <1>5, <1>6, <1>7, <1>8 DEF IInv

LEMMA ListInputsKeeps ==
  ASSUME IInv, ListInputs
  PROVE  IInv'
<1>1. call' \in Call /\ ~Building'
  BY DEF ListInputs, Idle, Call, Phase, Building
<1> QED
  BY <1>1, QuietKeeps DEF ListInputs, fields, IInv, Shapes

LEMMA ConstructThrowsKeeps ==
  ASSUME IInv, ConstructThrows
  PROVE  IInv'
<1> USE DEF ConstructThrows, fields
<1>1. Me \in Filler /\ MyField \in RadField
  BY DEF IInv, Constructing, Building, At
<1>2. Shapes'
  BY <1>1 DEF IInv, Shapes, Call, Phase, Idle
<1>3. Allocated'
  BY DEF IInv, Allocated, Shapes, Call, Phase
<1>4. Fit'
  <2>1. CASE UNCHANGED <<grid, bound>>
    BY <2>1 DEF IInv, Fit, Outputs
  <2>2. CASE bound' = [s \in Slot |-> Nothing]
    <3>1. \A l \in Name : bound'[l] = Nothing
      BY <2>2 DEF Slot
    <3> QED
      BY <3>1, Pointers DEF Fit
  <2> QED
    BY <2>1, <2>2
<1>5. Constructing'
  BY DEF Constructing, Building, Idle
<1> QED
  BY <1>2, <1>3, <1>4, <1>5 DEF IInv

\* run() leaves sizes and bindings alone.
LEMMA RunKeeps ==
  ASSUME IInv, \/ \E f \in Filler : BeginRun(f)
               \/ Infer \/ InferThrows \/ InvertElement \/ InvertThrows \/ Return
  PROVE  IInv'
<1>1. UNCHANGED <<package, counts, owned, width, filler, grid, bound, mirror>>
  BY DEF BeginRun, Infer, InferThrows, InvertElement, InvertThrows, Return, fields
<1>2. \A i : NextInverted(i) =>
        /\ call' \in Call
        /\ ~Building'
  <2>1. SUFFICES ASSUME NEW i, NextInverted(i)
                 PROVE  /\ call' \in Call
                        /\ ~Building'
    OBVIOUS
  <2>2. CASE ToInvert(i) = {}
    <3>1. call' = [call EXCEPT !.at = "returned", !.i = 0, !.j = 0]
      BY <2>1, <2>2 DEF NextInverted
    <3> QED
      BY <3>1 DEF IInv, Shapes, Call, Phase, Building
  <2>3. CASE ToInvert(i) # {}
    <3>1. PICK k \in DOMAIN Outputs : call' = [call EXCEPT !.at = "invert", !.j = 1, !.i = k]
      <4>1. ToInvert(i) \subseteq DOMAIN Outputs /\ DOMAIN Outputs \subseteq Nat
        BY OutputsOf DEF ToInvert, IInv, Shapes
      <4>2. \E k \in ToInvert(i) : \A n \in ToInvert(i) : k <= n
        BY <2>3, <4>1, Smallest
      <4>3. call' = [call EXCEPT !.at = "invert", !.j = 1,
                       !.i = CHOOSE k \in ToInvert(i) : \A n \in ToInvert(i) : k <= n]
        BY <2>1, <2>3 DEF NextInverted
      <4> QED
        BY <4>1, <4>2, <4>3
    <3>2. k \in Nat
      BY OutputsOf DEF IInv, Shapes, Call, Phase
    <3> QED
      BY <3>1, <3>2 DEF IInv, Shapes, Call, Phase, Building
  <2> QED
    BY <2>2, <2>3
<1>3. /\ call' \in Call
      /\ ~Building'
  <2>1. ASSUME NEW f \in Filler, BeginRun(f)
        PROVE  /\ call' \in Call
               /\ ~Building'
    BY <2>1 DEF BeginRun, Building, Call, Phase
  <2>2. CASE Infer
    BY <2>2, <1>2 DEF Infer
  <2>3. CASE InferThrows \/ InvertThrows \/ Return
    BY <2>3 DEF InferThrows, InvertThrows, Return, Idle, Building, Call, Phase
  <2>4. CASE InvertElement
    <3>1. CASE call.j < LastElement
      <4>1. call' = [call EXCEPT !.j = call.j + 1] /\ call.at = "invert"
        BY <2>4, <3>1 DEF InvertElement, At
      <4>2. call' = [who |-> call.who, at |-> "invert", i |-> call.i, j |-> call.j + 1]
        BY <4>1 DEF IInv, Shapes, Call
      <4>3. call.i \in Nat /\ call.who \in Filler \cup {"nobody"} /\ call.j + 1 \in Nat
        BY DEF IInv, Shapes, Call
      <4> QED
        BY <4>2, <4>3 DEF Call, Phase, Building
    <3>2. CASE ~(call.j < LastElement)
      BY <2>4, <3>2, <1>2 DEF InvertElement
    <3> QED
      BY <3>1, <3>2
  <2> QED
    BY <2>1, <2>2, <2>3, <2>4
<1>4. owned' \subseteq owned /\ mirror' \in [RadField -> [Name -> Mirror \cup {NoMirror}]]
  BY <1>1 DEF IInv, Shapes, Call, Phase
<1> QED
  BY <1>1, <1>3, <1>4, QuietKeeps
LEMMA NextInv == IInv /\ [Next]_vars => IInv'
<1> SUFFICES ASSUME IInv, [Next]_vars PROVE IInv'
  OBVIOUS
<1>1. CASE UNCHANGED vars
  BY <1>1, QuietKeeps DEF vars, fields, IInv, Shapes
<1>2. ASSUME NEW x \in RadField, Drop(x) \/ Store(x)
      PROVE  IInv'
  BY <1>2, QuietKeeps DEF Drop, Store, fields, IInv, Shapes
<1>3. ASSUME NEW x \in RadField, NEW l \in Mirrored, NEW m \in Mirror \cup {NoMirror},
             SetDeviceMemory(x, l, m)
      PROVE  IInv'
  <2>1. mirror' \in [RadField -> [Name -> Mirror \cup {NoMirror}]]
    BY <1>3 DEF SetDeviceMemory, IInv, Shapes
  <2> QED
    BY <1>3, <2>1, QuietKeeps DEF SetDeviceMemory, fields, IInv, Shapes
<1>4. ASSUME NEW enabled \in BOOLEAN, SetTrunkEnabled(enabled)
      PROVE  IInv'
  BY <1>4, QuietKeeps DEF SetTrunkEnabled, fields, IInv, Shapes
<1>5. ASSUME NEW x \in RadField, NEW l \in Name, NEW w \in OwnWidths[l], AddOwnLayer(x, l, w)
      PROVE  IInv'
  BY <1>5, AddOwnLayerKeeps, NameAssumption
<1>6. CASE CallStep
  BY <1>6, ChooseGridKeeps, BindPositionKeeps, AddOutputLayerKeeps, BindLayerKeeps,
     ListInputsKeeps, ConstructThrowsKeeps, RunKeeps DEF CallStep
<1>7. ASSUME NEW f \in Filler, Destroy(f) \/ BeginRun(f)
      PROVE  IInv'
  BY <1>7, DestroyKeeps, RunKeeps
<1> QED
  BY <1>1, <1>2, <1>3, <1>4, <1>5, <1>6, <1>7, AllocateKeeps, CopyKeeps, CallerBindKeeps,
     ConstructKeeps DEF Next

----------------------------------------------------------------------------
(* The second invariant: lifetimes                                         *)

Running == call.at \in {"infer", "invert", "returned"}

\* The outputs are all bound.
Complete == \A l \in ToSet(Outputs) : bound[l] # Nothing

\* Pointers object f makes, and those that never dangle.
Mine(m, f) ==
  \/ m \in {Nothing, Callers, PositionsOf(f)}
  \/ \E d \in Mirror : m = OnDevice(d)
  \/ \E l \in Name : m = LayerOf(filler[f], l)
AllMine(f) == \A s \in Slot : Mine(bound[s], f)

\* Once complete, what is bound was bound by the object that was made last,
\* unless it is its constructor, run again, that has not thrown that away yet,
\* or a constructor that has completed the bindings and is about to return.
MadeBoundIt ==
  made \in Filler /\ filler[made] # NoField /\ Complete
    /\ ~(At("grid") /\ Me = made) /\ ~At("inputs") => AllMine(made)

\* A constructor that has dropped the bindings is not complete before its end.
NotYet(n) == \A k \in DOMAIN Outputs : n <= k => bound[Outputs[k]] = Nothing
BindingOwn ==
  /\ call.at \in {"position", "layers", "bind", "inputs"} => AllMine(Me)
  /\ call.at \in {"position", "layers"} => NotYet(1)
  /\ At("bind") => NotYet(call.i)

RunsWhatWasMade == Running => Me \in Filler /\ made = Me /\ filler[Me] # NoField /\ Complete

LInv == MadeBoundIt /\ BindingOwn /\ RunsWhatWasMade

LEMMA LInit == Init => LInv
<1> SUFFICES ASSUME Init PROVE LInv
  OBVIOUS
<1>1. \A f \in Filler : filler[f] = NoField
  BY DEF Init
<1> QED
  BY <1>1 DEF Init, LInv, MadeBoundIt, BindingOwn, RunsWhatWasMade, Running, Idle, At

LEMMA Incomplete ==
  ASSUME IInv, NEW k \in DOMAIN Outputs, bound[Outputs[k]] = Nothing
  PROVE  ~Complete
BY OutputsOf DEF Complete, IInv, Shapes

LEMMA NothingBound ==
  ASSUME IInv, package' = package, bound' = [s \in Slot |-> Nothing]
  PROVE  ~Complete' /\ NotYet(1)' /\ \A f : AllMine(f)'
<1>1. 1 \in DOMAIN Outputs /\ Outputs[1] \in ToSet(Outputs) /\ Outputs' = Outputs
  BY OutputsOf DEF IInv, Shapes, Outputs
<1>2. \A s \in Slot : bound'[s] = Nothing
  OBVIOUS
<1>3. ToSet(Outputs) \subseteq Slot /\ \A k \in DOMAIN Outputs : Outputs[k] \in Slot
  BY OutputsOf DEF IInv, Shapes
<1> QED
  BY <1>1, <1>2, <1>3 DEF Complete, NotYet, AllMine, Mine

\* Steps that leave the bindings and the objects alone, outside constructors.
LEMMA LQuiet ==
  ASSUME IInv, LInv, UNCHANGED <<package, filler, bound, made>>,
         ~Building,
         \/ call' = call
         \/ (Running /\ Running' /\ Me' = Me)
         \/ call'.at \notin {"grid", "position", "layers", "bind", "inputs", "infer", "invert", "returned"}
  PROVE  LInv'
BY DEF LInv, MadeBoundIt, BindingOwn, RunsWhatWasMade, Running, Complete, AllMine, Mine, Outputs, Building, At, Me

LEMMA LCallerBind ==
  ASSUME IInv, LInv, CallerBinds \cap Name = {}, NEW s \in Slot, CallerBind(s)
  PROVE  LInv'
<1> USE DEF CallerBind, fields
<1>1. ToSet(Outputs)' = ToSet(Outputs) /\ ToSet(Outputs) \subseteq Name /\ Name \subseteq Slot
  BY OutputsOf DEF IInv, Shapes, Outputs
<1>2. \A l \in ToSet(Outputs) : bound'[l] = bound[l]
  BY <1>1 DEF IInv, Shapes
<1>3. \A z \in Slot : bound'[z] \in {bound[z], Callers}
  BY DEF IInv, Shapes
<1>4. Complete' = Complete
  BY <1>1, <1>2 DEF Complete
<1>5. \A f \in Filler : AllMine(f) => AllMine(f)'
  BY <1>3 DEF AllMine, Mine
<1> QED
  BY <1>4, <1>5 DEF LInv, MadeBoundIt, BindingOwn, RunsWhatWasMade, Running, At, Me

LEMMA LDestroy ==
  ASSUME IInv, LInv, NEW f \in Filler, Destroy(f)
  PROVE  LInv'
<1> USE DEF Destroy, fields
<1>1. \A g \in Filler : g # f => filler'[g] = filler[g]
  BY DEF IInv, Shapes
<1>2. filler'[f] = NoField
  BY DEF IInv, Shapes
<1>3. Complete' = Complete /\ \A g \in Filler : g # f /\ AllMine(g) => AllMine(g)'
  BY <1>1 DEF Complete, AllMine, Mine, Outputs
<1> QED
  BY <1>1, <1>2, <1>3 DEF LInv, MadeBoundIt, BindingOwn, RunsWhatWasMade, Running, At, Me

LEMMA LConstruct ==
  ASSUME IInv, LInv, NEW f \in Filler, NEW x \in RadField, Construct(f, x)
  PROVE  LInv'
<1> USE DEF Construct, fields
<1>1. \A g \in Filler : g # f => filler'[g] = filler[g]
  BY DEF IInv, Shapes
<1>2. Me' = f /\ call'.at = "grid"
  BY DEF Me
<1>3. Complete' = Complete /\ \A g \in Filler : g # f /\ AllMine(g) => AllMine(g)'
  BY <1>1 DEF Complete, AllMine, Mine, Outputs
<1> QED
  BY <1>1, <1>2, <1>3 DEF LInv, MadeBoundIt, BindingOwn, RunsWhatWasMade, Running, At

LEMMA LChooseGrid ==
  ASSUME IInv, LInv, ChooseGrid
  PROVE  LInv'
<1>1. package' = package /\ bound' = [s \in Slot |-> Nothing] /\ call'.at \in {"position", "layers"}
  BY DEF ChooseGrid, Step, IInv, Shapes, Call
<1> QED
  BY <1>1, NothingBound DEF LInv, MadeBoundIt, BindingOwn, RunsWhatWasMade, Running, At

LEMMA LBindPosition ==
  ASSUME IInv, LInv, BindPosition
  PROVE  LInv'
<1> USE DEF BindPosition, Step, fields
<1>1. Me' = Me /\ call'.at = "layers" /\ At("position")
  BY DEF IInv, Shapes, Call, Me
<1>2. /\ Outputs' = Outputs /\ 1 \in DOMAIN Outputs
      /\ \A k \in DOMAIN Outputs : Outputs[k] # "position" /\ Outputs[k] \in Slot /\ 1 <= k
  BY OutputsOf DEF IInv, Shapes, Outputs
<1>3. \A s \in Slot : bound'[s] = IF s = "position" THEN PositionsOf(Me) ELSE bound[s]
  BY DEF IInv, Shapes
<1>4. AllMine(Me)'
  BY <1>1, <1>3 DEF AllMine, Mine, LInv, BindingOwn, At
<1>5. NotYet(1)'
  BY <1>1, <1>2, <1>3 DEF NotYet, LInv, BindingOwn, At
<1>6. ~Complete'
  BY <1>2, <1>5, OutputsOf DEF NotYet, Complete, IInv, Shapes
<1> QED
  BY <1>1, <1>4, <1>5, <1>6 DEF LInv, MadeBoundIt, BindingOwn, RunsWhatWasMade, Running, At

LEMMA LAddOutputLayer ==
  ASSUME IInv, LInv, AddOutputLayer
  PROVE  LInv'
<1> USE DEF AddOutputLayer, Step, fields
<1>1. /\ Me' = Me /\ At("layers")
      /\ call'.at = "layers" \/ (call'.at = "bind" /\ call'.i = 1)
  BY DEF IInv, Shapes, Call, Me
<1>2. Outputs' = Outputs /\ 1 \in DOMAIN Outputs /\ Outputs[1] \in ToSet(Outputs)
  BY OutputsOf DEF IInv, Shapes, Outputs
<1>3. AllMine(Me)' /\ NotYet(1)'
  BY <1>1, <1>2 DEF AllMine, Mine, NotYet, LInv, BindingOwn, At
<1>4. ~Complete'
  BY <1>2, <1>3 DEF NotYet, Complete
<1> QED
  BY <1>1, <1>3, <1>4 DEF LInv, MadeBoundIt, BindingOwn, RunsWhatWasMade, Running, At

LEMMA LBindLayer ==
  ASSUME IInv, LInv, BindLayer
  PROVE  LInv'
<1> USE DEF BindLayer, Step, fields
<1>1. /\ At("bind") /\ call.i \in DOMAIN Outputs /\ Me \in Filler /\ MyField \in RadField
      /\ AllMine(Me) /\ NotYet(call.i)
  BY DEF IInv, Constructing, Building, At, LInv, BindingOwn
<1>2. /\ Outputs' = Outputs /\ DOMAIN Outputs = 1..Len(Outputs) /\ Len(Outputs) \in Nat
      /\ Current \in Name /\ Current \in Slot
      /\ \A k \in DOMAIN Outputs : Outputs[k] \in Slot /\ Outputs[k] \in ToSet(Outputs)
  BY <1>1, OutputsOf DEF IInv, Shapes, Outputs, Current
<1>3. \A s \in Slot : bound'[s] = IF s = Current THEN Target(MyField, Current) ELSE bound[s]
  BY <1>2 DEF IInv, Shapes
<1>4. \/ \E d \in Mirror : Target(MyField, Current) = OnDevice(d)
      \/ Target(MyField, Current) = LayerOf(MyField, Current)
  BY <1>1, <1>2 DEF Target, IInv, Shapes
<1>5. AllMine(Me)
  BY <1>1
<1>6. \A s \in Slot : Mine(bound'[s], Me)
  <2>1. Mine(Target(MyField, Current), Me)
    BY <1>4, <1>2 DEF Mine, MyField
  <2> QED
    BY <2>1, <1>3, <1>5 DEF AllMine
<1>7. filler' = filler
  OBVIOUS
<1>8. CASE call.i < LastOutput
  <2>1. call'.at = "bind" /\ call'.i = call.i + 1 /\ Me' = Me /\ call.i + 1 \in DOMAIN Outputs
    <3>1. call \in Call /\ call' = [call EXCEPT !.at = "bind", !.i = call.i + 1]
      BY <1>8 DEF IInv, Shapes
    <3>2. call' = [who |-> call.who, at |-> "bind", i |-> call.i + 1, j |-> call.j]
      BY <3>1 DEF Call
    <3>3. call.i + 1 \in DOMAIN Outputs
      BY <1>8, <1>1, <1>2 DEF LastOutput
    <3> QED
      BY <3>2, <3>3 DEF Me
  <2>2. AllMine(Me)'
    BY <2>1, <1>6, <1>7 DEF AllMine, Mine
  <2>3. \A k \in DOMAIN Outputs : call.i + 1 <= k => bound'[Outputs[k]] = Nothing
    <3>1. SUFFICES ASSUME NEW k \in DOMAIN Outputs, call.i + 1 <= k
                   PROVE  bound'[Outputs[k]] = Nothing
      OBVIOUS
    <3>2. call.i # k /\ call.i <= k
      BY <3>1, <1>1, <1>2
    <3>3. Outputs[k] # Current
      BY <3>2, <1>1, PackageAssumption DEF Current, Outputs, IInv, Shapes
    <3> QED
      BY <3>2, <3>3, <1>1, <1>2, <1>3 DEF NotYet
  <2>4. NotYet(call.i)'
    BY <2>1, <2>3, <1>2 DEF NotYet
  <2>5. ~Complete'
    BY <2>1, <2>3, <1>2 DEF Complete
  <2> QED
    BY <2>1, <2>2, <2>4, <2>5 DEF LInv, MadeBoundIt, BindingOwn, RunsWhatWasMade, Running, At
<1>9. CASE ~(call.i < LastOutput)
  <2>1. call'.at = "inputs" /\ Me' = Me
    BY <1>9 DEF IInv, Shapes, Call, Me
  <2>2. AllMine(Me)'
    BY <2>1, <1>6, <1>7 DEF AllMine, Mine
  <2> QED
    BY <2>1, <2>2 DEF LInv, MadeBoundIt, BindingOwn, RunsWhatWasMade, Running, At
<1> QED
  BY <1>8, <1>9

LEMMA LListInputs ==
  ASSUME IInv, LInv, ListInputs
  PROVE  LInv'
<1>1. call'.at = "idle" /\ made' = Me /\ UNCHANGED <<package, filler, bound>>
  BY DEF ListInputs, Idle
<1>2. AllMine(made)'
  BY <1>1 DEF ListInputs, LInv, BindingOwn, AllMine, Mine, At
<1> QED
  BY <1>1, <1>2 DEF LInv, MadeBoundIt, BindingOwn, RunsWhatWasMade, Running, At

LEMMA LConstructThrows ==
  ASSUME IInv, LInv, BoundReturns, ConstructThrows
  PROVE  LInv'
<1> USE DEF ConstructThrows, fields
<1>1. call'.at = "idle" /\ Me \in Filler /\ ~At("inputs")
  BY DEF Idle, IInv, Constructing, Building, At
<1>2. filler'[Me] = NoField /\ \A g \in Filler : g # Me => filler'[g] = filler[g]
  BY <1>1 DEF IInv, Shapes
<1>3. BindingOwn' /\ RunsWhatWasMade'
  BY <1>1 DEF BindingOwn, RunsWhatWasMade, Running, At
<1>4. MadeBoundIt'
  <2>1. CASE bound' = [s \in Slot |-> Nothing]
    BY <2>1, NothingBound DEF MadeBoundIt
  <2>2. CASE UNCHANGED <<grid, bound>>
    <3>1. Complete' = Complete /\ \A g \in Filler : g # Me /\ AllMine(g) => AllMine(g)'
      BY <2>2, <1>2 DEF Complete, AllMine, Mine, Outputs
    <3>2. CASE At("grid")
      BY <3>1, <3>2, <1>1, <1>2 DEF LInv, MadeBoundIt
    <3>3. CASE ~At("grid")
      <4>1. \E k \in DOMAIN Outputs : bound[Outputs[k]] = Nothing
        <5>1. CASE At("bind")
          BY <5>1, OutputsOf DEF LInv, BindingOwn, NotYet, IInv, Shapes, Constructing, Building, At
        <5>2. CASE ~At("bind")
          <6>1. call.at \in {"position", "layers"}
            BY <5>2, <3>3, <1>1 DEF At
          <6>2. NotYet(1) /\ 1 \in DOMAIN Outputs
            BY <6>1, OutputsOf DEF LInv, BindingOwn, IInv, Shapes
          <6> QED
            BY <6>2 DEF NotYet
        <5> QED
          BY <5>1, <5>2
      <4> QED
        BY <4>1, <3>1, Incomplete DEF MadeBoundIt
    <3> QED
      BY <3>2, <3>3
  <2> QED
    BY <2>1, <2>2
<1> QED
  BY <1>3, <1>4 DEF LInv

LEMMA LBeginRun ==
  ASSUME IInv, LInv, LastMadeOnly, NEW f \in Filler, BeginRun(f)
  PROVE  LInv'
<1> USE DEF BeginRun, fields
<1>1. call'.at = "infer" /\ Me' = f /\ made = f /\ At("idle")
  BY DEF Me
<1>2. Complete
  BY DEF Missing, Required, Complete
<1>3. Complete' /\ AllMine(f) => AllMine(f)'
  BY <1>2 DEF Complete, AllMine, Mine, Outputs
<1>4. AllMine(f)
  BY <1>1, <1>2 DEF LInv, MadeBoundIt, At
<1>5. Complete' /\ AllMine(f)'
  BY <1>2, <1>4 DEF Complete, AllMine, Mine, Outputs
<1> QED
  BY <1>1, <1>5 DEF LInv, MadeBoundIt, BindingOwn, RunsWhatWasMade, Running, At

LEMMA LRun ==
  ASSUME IInv, LInv, Infer \/ InferThrows \/ InvertElement \/ InvertThrows \/ Return
  PROVE  LInv'
<1>1. UNCHANGED <<package, filler, bound, made>>
  BY DEF Infer, InferThrows, InvertElement, InvertThrows, Return, fields
<1>2. ~Building
  BY DEF Infer, InferThrows, InvertElement, InvertThrows, Return, At, Building
<1>3. \A i : NextInverted(i) => call'.at \in {"returned", "invert"} /\ Me' = Me
  BY DEF NextInverted, IInv, Shapes, Call, Me
<1>4. \/ call'.at = "idle"
      \/ (Running /\ call'.at \in {"returned", "invert"} /\ Me' = Me)
  <2>1. CASE InferThrows \/ InvertThrows \/ Return
    BY <2>1 DEF InferThrows, InvertThrows, Return, Idle
  <2>2. CASE Infer
    BY <2>2, <1>3 DEF Infer, Running, At
  <2>3. CASE InvertElement
    BY <2>3, <1>3 DEF InvertElement, Running, At, IInv, Shapes, Call, Me
  <2> QED
    BY <2>1, <2>2, <2>3
<1> QED
  BY <1>1, <1>2, <1>4, LQuiet DEF Running

LEMMA LNext ==
  ASSUME LastMadeOnly, BoundReturns, CallerBinds \cap Name = {}
  PROVE  IInv /\ LInv /\ [Next]_vars => LInv'
<1> SUFFICES ASSUME IInv, LInv, [Next]_vars PROVE LInv'
  OBVIOUS
<1>1. CASE UNCHANGED vars
  BY <1>1 DEF vars, fields, LInv, MadeBoundIt, BindingOwn, RunsWhatWasMade, Running, Complete, AllMine, Mine,
     Outputs, At, Me, NotYet
<1>2. ASSUME NEW x \in RadField, Drop(x) \/ Store(x)
      PROVE  LInv'
  BY <1>2, LQuiet DEF Drop, Store, At, Building
<1>3. ASSUME NEW x \in RadField, NEW l, NEW m, SetDeviceMemory(x, l, m)
      PROVE  LInv'
  BY <1>3, LQuiet DEF SetDeviceMemory, At, Building
<1>4. ASSUME NEW enabled \in BOOLEAN, SetTrunkEnabled(enabled)
      PROVE  LInv'
  BY <1>4, LQuiet DEF SetTrunkEnabled, At, Building
<1>5. ASSUME NEW x \in RadField, NEW l, NEW w, AddOwnLayer(x, l, w)
      PROVE  LInv'
  BY <1>5, LQuiet DEF AddOwnLayer, At, Building
<1>6. ASSUME NEW x \in RadField, NEW n, Allocate(x, n)
      PROVE  LInv'
  BY <1>6, LQuiet DEF Allocate, At, Building
<1>7. ASSUME NEW x \in RadField, NEW y, Copy(x, y)
      PROVE  LInv'
  BY <1>7, LQuiet DEF Copy, At, Building
<1>8. CASE CallStep
  BY <1>8, LChooseGrid, LBindPosition, LAddOutputLayer, LBindLayer, LListInputs,
     LConstructThrows, LRun
     DEF CallStep
<1>9. ASSUME NEW f \in Filler, Destroy(f) \/ BeginRun(f)
      PROVE  LInv'
  BY <1>9, LDestroy, LBeginRun
<1> QED
  BY <1>1, <1>2, <1>3, <1>4, <1>5, <1>6, <1>7, <1>8, <1>9, LCallerBind, LConstruct DEF Next

LEMMA MineIsLive ==
  ASSUME IInv, LInv
  PROVE  RunReadsLiveMemory
<1> SUFFICES ASSUME At("infer"), NEW s \in Slot PROVE Live(bound[s])
  BY DEF RunReadsLiveMemory
<1>1. Me \in Filler /\ filler[Me] # NoField /\ Mine(bound[s], Me)
  BY DEF LInv, RunsWhatWasMade, Running, MadeBoundIt, AllMine, At
<1>2. ASSUME NEW f \in Filler, bound[s] = PositionsOf(f)
      PROVE  f = Me
  BY <1>1, <1>2, Pointers DEF Mine
<1>3. ASSUME NEW x \in RadField, NEW l \in Name, bound[s] = LayerOf(x, l)
      PROVE  Held(x)
  BY <1>1, <1>3, Pointers DEF Mine, Held
<1> QED
  BY <1>1, <1>2, <1>3 DEF Live

----------------------------------------------------------------------------
(* The third invariant: what is bound to an output                         *)

\* The package was chosen once and for all.
LEMMA PackageStays == [Next]_vars => package' = package
BY DEF Next, vars, CallStep, Drop, Store, Allocate, Copy, SetDeviceMemory, AddOwnLayer, Destroy,
   BeginRun, Construct, CallerBind, SetTrunkEnabled, ChooseGrid, BindPosition, AddOutputLayer,
   BindLayer, ListInputs, ConstructThrows, Infer, InferThrows, InvertElement, InvertThrows, Return

\* What a step does to the binding of an output's name.
Rebound(l) ==
  \/ bound'[l] \in {bound[l], Nothing}
  \/ l \in CallerBinds /\ bound'[l] = Callers
  \/ /\ MyField \in RadField /\ bound'[l] = Target(MyField, l)
     /\ mirror[MyField][l] # NoMirror => MirrorAllowed(l)

LEMMA StepRebinds ==
  ASSUME IInv, [Next]_vars, NEW l \in Name
  PROVE  Rebound(l)
<1>1. l \in Slot /\ l # "position"
  BY PackageAssumption DEF Slot, Name
<1>2. CASE bound' = bound
  BY <1>2 DEF Rebound
<1>3. CASE bound' = [s \in Slot |-> Nothing]
  BY <1>1, <1>3 DEF Rebound
<1>4. ASSUME NEW s \in Slot, CallerBind(s) PROVE Rebound(l)
  BY <1>1, <1>4 DEF CallerBind, Rebound, IInv, Shapes
<1>5. CASE BindPosition
  BY <1>1, <1>5 DEF BindPosition, Rebound, IInv, Shapes
<1>6. CASE BindLayer
  <2>1. MyField \in RadField /\ bound' = [bound EXCEPT ![Current] = Target(MyField, Current)]
    BY <1>6 DEF BindLayer, IInv, Constructing, Building, At
  <2>2. bound'[l] = IF l = Current THEN Target(MyField, Current) ELSE bound[l]
    BY <1>1, <2>1 DEF IInv, Shapes
  <2> QED
    BY <1>6, <2>1, <2>2 DEF BindLayer, Rebound
<1>7. CASE CallStep
  BY <1>2, <1>3, <1>5, <1>6, <1>7 DEF CallStep, ChooseGrid, AddOutputLayer, ListInputs,
     ConstructThrows, Infer, InferThrows, InvertElement, InvertThrows, Return
<1>8. CASE UNCHANGED vars
  BY <1>2, <1>8 DEF vars
<1>9. CASE \E x \in RadField : Drop(x) \/ Store(x)
  BY <1>2, <1>9 DEF Drop, Store
<1>10. CASE \/ \E x \in RadField, n \in Grids : Allocate(x, n)
            \/ \E x, y \in RadField : Copy(x, y)
  BY <1>2, <1>10 DEF Allocate, Copy
<1>11. CASE \E x \in RadField, n \in Mirrored, m \in Mirror \cup {NoMirror} : SetDeviceMemory(x, n, m)
  BY <1>2, <1>11 DEF SetDeviceMemory
<1>12. CASE \E x \in RadField, n \in Name : \E w \in OwnWidths[n] : AddOwnLayer(x, n, w)
  BY <1>2, <1>12 DEF AddOwnLayer
<1>13. CASE \/ \E f \in Filler : Destroy(f) \/ BeginRun(f)
            \/ \E f \in Filler, x \in RadField : Construct(f, x)
            \/ \E enabled \in BOOLEAN : SetTrunkEnabled(enabled)
  BY <1>2, <1>13 DEF Destroy, BeginRun, Construct, SetTrunkEnabled
<1> QED
  BY <1>4, <1>7, <1>8, <1>9, <1>10, <1>11, <1>12, <1>13 DEF Next

\* A mirror stands in for outputs that need no inversion only.
MirrorsPlain == \A l \in Name, d \in Mirror : bound[l] = OnDevice(d) => ~Normalized(l)

LEMMA MirrorsStay == IInv /\ MirrorsPlain /\ [Next]_vars => MirrorsPlain'
<1> SUFFICES ASSUME IInv, MirrorsPlain, [Next]_vars,
                    NEW l \in Name, NEW d \in Mirror, bound'[l] = OnDevice(d)
             PROVE  ~Normalized(l)
  BY PackageStays DEF MirrorsPlain, Normalized, Normalizer
<1>1. Rebound(l)
  BY StepRebinds
<1>2. CASE bound'[l] = bound[l]
  BY <1>2 DEF MirrorsPlain
<1>3. CASE bound'[l] = Target(MyField, l) /\ (mirror[MyField][l] # NoMirror => MirrorAllowed(l))
  <2>1. mirror[MyField][l] # NoMirror
    BY <1>3, Pointers DEF Target
  <2> QED
    BY <1>3, <2>1 DEF MirrorAllowed
<1> QED
  BY <1>1, <1>2, <1>3, Pointers DEF Rebound, Callers, OnDevice

\* An output is bound to a mirror or to some field's layer of its name.
Apart ==
  \A l \in Name :
    \/ bound[l] = Nothing
    \/ \E d \in Mirror : bound[l] = OnDevice(d)
    \/ \E x \in RadField : bound[l] = LayerOf(x, l)

LEMMA ApartStays ==
  ASSUME CallerBinds \cap Name = {}
  PROVE  IInv /\ Apart /\ [Next]_vars => Apart'
<1> SUFFICES ASSUME IInv, Apart, [Next]_vars, NEW l \in Name
             PROVE  \/ bound'[l] = Nothing
                    \/ \E d \in Mirror : bound'[l] = OnDevice(d)
                    \/ \E x \in RadField : bound'[l] = LayerOf(x, l)
  BY DEF Apart
<1>1. Rebound(l)
  BY StepRebinds
<1>2. CASE bound'[l] \in {bound[l], Nothing}
  BY <1>2 DEF Apart
<1>3. CASE MyField \in RadField /\ bound'[l] = Target(MyField, l)
  BY <1>3 DEF Target, IInv, Shapes
<1> QED
  BY <1>1, <1>2, <1>3 DEF Rebound

\* What an application has to see to: it runs the object made last, while the
\* trunk is enabled, leaves the outputs to it, and a constructor that has bound
\* them returns.
Careful == LastMadeOnly /\ BoundReturns /\ WithTrunk /\ CallerBinds \cap Name = {}

\* It speaks of constants only.
LEMMA StaysCareful == Careful' <=> Careful
BY DEF Careful, Name

CInv == Careful => LInv /\ Apart

LEMMA CInit == Init => CInv
<1>1. Init => Apart
  BY DEF Init, Apart, Slot
<1> QED
  BY <1>1, LInit DEF CInv

LEMMA CNext == IInv /\ CInv /\ [Next]_vars => CInv'
<1> SUFFICES ASSUME IInv, CInv, [Next]_vars, Careful PROVE (LInv /\ Apart)'
  BY StaysCareful DEF CInv
<1>1. LastMadeOnly /\ BoundReturns /\ CallerBinds \cap Name = {}
  BY DEF Careful
<1>2. LInv /\ Apart
  BY DEF CInv
<1> QED
  BY <1>1, <1>2, LNext, ApartStays

\* Of an application that sees to it, a run writes each output into the layer of
\* the field whose layers it inverts, or into a mirror.
LEMMA BindsMyField ==
  ASSUME IInv, CInv, Careful, Running, MyField \in RadField, NEW l \in ToSet(Outputs)
  PROVE  bound[l] = LayerOf(MyField, l) \/ \E d \in Mirror : bound[l] = OnDevice(d)
<1>1. LInv /\ Apart
  BY DEF CInv
<1>2. Me \in Filler /\ made = Me /\ filler[Me] # NoField /\ Complete
  BY <1>1 DEF LInv, RunsWhatWasMade
<1>3. l \in Name /\ l \in Slot
  BY OutputsOf DEF IInv, Shapes
<1>4. SUFFICES ASSUME \A d \in Mirror : bound[l] # OnDevice(d)
               PROVE  bound[l] = LayerOf(MyField, l)
  OBVIOUS
<1>5. PICK x \in RadField : bound[l] = LayerOf(x, l)
  BY <1>1, <1>2, <1>3, <1>4 DEF Apart, Complete
<1>6. Mine(bound[l], Me)
  BY <1>1, <1>2, <1>3 DEF LInv, MadeBoundIt, AllMine, At, Running
<1>7. x = MyField
  BY <1>5, <1>6, Pointers DEF Mine, MyField
<1> QED
  BY <1>5, <1>7

----------------------------------------------------------------------------
(* The fourth invariant: units                                             *)

Metric(elements) == \A k \in 1..Elements : elements[k].unit = "metric"

Channels == layer \in [RadField -> [Name -> [1..Elements -> Element]]]

\* What needs no inversion is never in another unit.
Plain == \A x \in RadField, l \in Name : l \notin ToSet(Outputs) \/ ~Normalized(l) => Metric(layer[x][l])

\* A field no run was left half way on is in metric units, and so is what was
\* stored, if the application sees to its part.
Settled ==
  /\ settled \subseteq RadField
  /\ Careful => \A x \in settled, l \in Name : Metric(layer[x][l])
Stored ==
  /\ stored \subseteq {"metric", "graph", "wrong"}
  /\ Careful => stored \subseteq {"metric"}

\* A run is of an object that lives; its loop inverts what was normalized.
Runs ==
  /\ Running => Me \in Filler /\ MyField \in RadField /\ (WithTrunk => trunk)
  /\ At("invert") => call.i \in DOMAIN Outputs /\ Normalized(Current) /\ call.j \in 1..Elements
  /\ call.at \in {"invert", "returned"} => MyField \notin settled

\* The loop at element j of output i: what is before that is metric, the rest is
\* as the graph emitted it.
Passed(k, e, i, j) == k < i \/ (k = i /\ e < j)
Converted(i, j) ==
  \A k \in DOMAIN Outputs, e \in 1..Elements :
    bound[Outputs[k]] = LayerOf(MyField, Outputs[k]) =>
      layer[MyField][Outputs[k]][e] =
        IF Normalized(Outputs[k]) /\ ~Passed(k, e, i, j) THEN [unit |-> "graph", fresh |-> TRUE]
        ELSE [unit |-> "metric", fresh |-> TRUE]
Progress ==
  /\ At("invert") /\ trunk => Converted(call.i, call.j)
  /\ At("returned") /\ trunk => Converted(Len(Outputs) + 1, 1)

Units == Channels /\ Plain /\ Settled /\ Stored
UInv == Units /\ MirrorsPlain /\ Runs /\ Progress

\* Elements and what is done to them.
LEMMA ElementsOf ==
  /\ Zero \in Element /\ Zero.unit = "metric"
  /\ \A l : Emitted(l) \in Element
  /\ \A l : Emitted(l) = IF Normalized(l) THEN [unit |-> "graph", fresh |-> TRUE]
                         ELSE [unit |-> "metric", fresh |-> TRUE]
  /\ \A v \in Element : Inverted(v) \in Element
  /\ \A v \in Element : v = [unit |-> "graph", fresh |-> TRUE] =>
       Inverted(v) = [unit |-> "metric", fresh |-> TRUE]
  /\ \A v \in Element : [v EXCEPT !.fresh = FALSE] \in Element /\ [v EXCEPT !.fresh = FALSE].unit = v.unit
<1>1. \A v \in Element : /\ v = [unit |-> v.unit, fresh |-> v.fresh]
                        /\ v.unit \in {"metric", "graph", "wrong"} /\ v.fresh \in BOOLEAN
  BY DEF Element
<1>2. \A a \in {"metric", "graph", "wrong"}, b \in BOOLEAN : [unit |-> a, fresh |-> b] \in Element
  BY DEF Element
<1>3. Zero \in Element /\ Zero.unit = "metric"
  BY <1>2 DEF Zero
<1>4. /\ \A l : Emitted(l) \in Element
      /\ \A l : Emitted(l) = IF Normalized(l) THEN [unit |-> "graph", fresh |-> TRUE]
                             ELSE [unit |-> "metric", fresh |-> TRUE]
  BY <1>2 DEF Emitted
<1>5. \A v \in Element : Inverted(v) = [unit |-> IF v.unit = "graph" THEN "metric" ELSE "wrong",
                                      fresh |-> v.fresh]
  BY <1>1 DEF Inverted
<1>6. ASSUME NEW v \in Element, NEW b \in BOOLEAN
      PROVE  /\ [v EXCEPT !.fresh = b] \in Element
             /\ [v EXCEPT !.fresh = b].unit = v.unit
  <2>1. [v EXCEPT !.fresh = b] = [unit |-> v.unit, fresh |-> b]
    BY <1>1
  <2> QED
    BY <2>1, <1>1, <1>2
<1>7. \A v \in Element : Inverted(v) \in Element
  BY <1>1, <1>2, <1>5
<1> HIDE DEF Inverted
<1>8. \A v \in Element : v = [unit |-> "graph", fresh |-> TRUE] =>
        Inverted(v) = [unit |-> "metric", fresh |-> TRUE]
  BY <1>5
<1>9. \A v \in Element : /\ [v EXCEPT !.fresh = FALSE] \in Element
                        /\ [v EXCEPT !.fresh = FALSE].unit = v.unit
  BY <1>6
<1> QED
  BY <1>3, <1>4, <1>7, <1>8, <1>9

\* Ageing changes no unit.
LEMMA AgedUnits ==
  ASSUME NEW ls \in [RadField -> [Name -> [1..Elements -> Element]]]
  PROVE  /\ Aged(ls) \in [RadField -> [Name -> [1..Elements -> Element]]]
         /\ \A x \in RadField, l \in Name, k \in 1..Elements : Aged(ls)[x][l][k].unit = ls[x][l][k].unit
<1>1. ASSUME NEW x \in RadField, NEW l \in Name, NEW k \in 1..Elements
      PROVE  ls[x][l][k] \in Element
  <2>1. ls[x] \in [Name -> [1..Elements -> Element]]
    OBVIOUS
  <2>2. ls[x][l] \in [1..Elements -> Element]
    BY <2>1
  <2> QED
    BY <2>2
<1> DEFINE old(x, l, k) == [ls[x][l][k] EXCEPT !.fresh = FALSE]
<1>2. \A x \in RadField, l \in Name, k \in 1..Elements :
        old(x, l, k) \in Element /\ old(x, l, k).unit = ls[x][l][k].unit
  BY <1>1, ElementsOf
<1>3. Aged(ls) = [x \in RadField |-> [l \in Name |-> [k \in 1..Elements |-> old(x, l, k)]]]
  BY DEF Aged
<1> HIDE DEF old
<1> QED
  BY <1>2, <1>3

\* What a run wrote: all of a layer it is bound to, if that is shared by somebody.
LEMMA WrittenUnits ==
  ASSUME Channels, NEW ls
  PROVE  /\ Written(ls) \in [RadField -> [Name -> [1..Elements -> Element]]]
         /\ \A x \in RadField, l \in Name :
              \/ Written(ls)[x][l] = layer[x][l]
              \/ /\ l \in ls /\ bound[l] = LayerOf(x, l)
                 /\ \A k \in 1..Elements : Written(ls)[x][l][k] = Emitted(l)
         /\ \A x \in RadField, l \in Name :
              l \in ls /\ bound[l] = LayerOf(x, l) /\ Held(x) =>
                \A k \in 1..Elements : Written(ls)[x][l][k] = Emitted(l)
<1> DEFINE new(x, l) == IF l \in ls /\ bound[l] = LayerOf(x, l) /\ Held(x)
                        THEN [k \in 1..Elements |-> Emitted(l)] ELSE layer[x][l]
<1>1. Written(ls) = [x \in RadField |-> [l \in Name |-> new(x, l)]]
  BY DEF Written
<1>2. \A x \in RadField, l \in Name : new(x, l) \in [1..Elements -> Element]
  BY ElementsOf DEF Channels
<1>3. \A x \in RadField, l \in Name :
        /\ l \in ls /\ bound[l] = LayerOf(x, l) /\ Held(x) =>
             \A k \in 1..Elements : new(x, l)[k] = Emitted(l)
        /\ ~(l \in ls /\ bound[l] = LayerOf(x, l) /\ Held(x)) => new(x, l) = layer[x][l]
  OBVIOUS
<1> HIDE DEF new
<1> QED
  BY <1>1, <1>2, <1>3

\* Where a run leaves layers that are not those of a settled field.
LEMMA WrittenKeeps ==
  ASSUME IInv, Units, NEW ls \in SUBSET ToSet(Outputs), package' = package, stored' = stored,
         settled' = settled \ Disturbed,
         layer' \in [RadField -> [Name -> [1..Elements -> Element]]],
         \A x \in RadField, l \in Name, k \in 1..Elements :
           layer'[x][l][k].unit = Written(ls)[x][l][k].unit
  PROVE  Units'
<1>1. Outputs' = Outputs /\ \A l : Normalized(l)' = Normalized(l)
  BY DEF Outputs, Normalized, Normalizer
<1>2. Channels /\ Plain /\ Settled
  BY DEF Units
<1>3. ASSUME NEW x \in RadField, NEW l \in Name, l \notin ToSet(Outputs) \/ ~Normalized(l)
      PROVE  Metric(layer[x][l])'
  <2>1. Metric(layer[x][l])
    BY <1>2, <1>3 DEF Plain
  <2>2. CASE Written(ls)[x][l] = layer[x][l]
    BY <2>1, <2>2 DEF Metric
  <2>3. CASE l \in ls /\ \A k \in 1..Elements : Written(ls)[x][l][k] = Emitted(l)
    BY <1>3, <2>3, ElementsOf DEF Metric
  <2> QED
    BY <1>2, <2>2, <2>3, WrittenUnits
<1>4. ASSUME Careful, NEW x \in settled', NEW l \in Name PROVE Metric(layer[x][l])'
  <2>1. x \in settled /\ x \in RadField /\ Metric(layer[x][l])
    BY <1>2, <1>4 DEF Settled
  <2>2. ~(l \in ls /\ bound[l] = LayerOf(x, l))
    BY <1>4, <2>1 DEF Disturbed
  <2>3. Written(ls)[x][l] = layer[x][l]
    BY <1>2, <2>1, <2>2, WrittenUnits
  <2> QED
    BY <2>1, <2>3 DEF Metric
<1>5. Settled' /\ Stored'
  BY <1>2, <1>4, StaysCareful DEF Settled, Units, Stored
<1> QED
  BY <1>1, <1>2, <1>3, <1>5 DEF Units, Channels, Plain

----------------------------------------------------------------------------
(* The steps                                                               *)

LEMMA UInit == Init => UInv
<1> SUFFICES ASSUME Init PROVE UInv
  OBVIOUS
<1>1. \A x \in RadField, l \in Name : layer[x][l] = Blank
  BY DEF Init
<1>2. Blank \in [1..Elements -> Element] /\ Metric(Blank)
  BY ElementsOf DEF Blank, Metric
<1>3. Units
  BY <1>1, <1>2 DEF Init, Units, Channels, Plain, Settled, Stored
<1>4. MirrorsPlain
  <2>1. \A l \in Name : bound[l] = Nothing
    BY DEF Init, Slot
  <2> QED
    BY <2>1, Pointers DEF MirrorsPlain
<1>5. Runs /\ Progress
  BY DEF Init, Runs, Running, Progress, Idle, At
<1> QED
  BY <1>3, <1>4, <1>5 DEF UInv

\* A step that leaves every value alone.
LEMMA SameUnits ==
  ASSUME Units, UNCHANGED <<package, layer, settled, stored>>
  PROVE  Units'
BY StaysCareful DEF Units, Channels, Plain, Settled, Stored, Outputs, Normalized, Normalizer

\* A step outside runs.
LEMMA Outside ==
  ASSUME Units', MirrorsPlain', ~Running'
  PROVE  UInv'
BY DEF UInv, Runs, Progress, Running, At

LEMMA CopyUnits ==
  ASSUME Units, NEW x \in RadField, NEW y \in RadField, Copy(x, y)
  PROVE  Units'
<1>1. /\ layer' = [layer EXCEPT ![y] = layer[x]] /\ package' = package /\ stored' = stored
      /\ settled' = IF x \in settled THEN settled ELSE settled \ {y}
  BY DEF Copy
<1>2. \A z \in RadField : layer'[z] = IF z = y THEN layer[x] ELSE layer[z]
  BY <1>1 DEF Units, Channels
<1>3. Channels'
  BY <1>1 DEF Units, Channels
<1>4. Plain'
  BY <1>1, <1>2 DEF Units, Plain, Outputs, Normalized, Normalizer, Metric
<1>5. Settled' /\ Stored'
  BY <1>1, <1>2, StaysCareful DEF Units, Settled, Stored, Metric
<1> QED
  BY <1>1, <1>3, <1>4, <1>5 DEF Units

LEMMA StoreUnits ==
  ASSUME Units, NEW x \in RadField, Store(x)
  PROVE  Units'
<1>1. UNCHANGED <<package, layer, settled>>
  BY DEF Store
<1>2. \A l \in Name, k \in 1..Elements : layer[x][l][k].unit \in {"metric", "graph", "wrong"}
  <2>1. layer[x] \in [Name -> [1..Elements -> Element]]
    BY DEF Units, Channels
  <2>2. \A l \in Name : layer[x][l] \in [1..Elements -> Element]
    BY <2>1
  <2> QED
    BY <2>2 DEF Element
<1>3. Careful => \A l \in Name, k \in 1..Elements : layer[x][l][k].unit = "metric"
  BY DEF Store, Units, Settled, Metric
<1> DEFINE units == UNION {{layer[x][l][k].unit : k \in 1..Elements} :
                           l \in {n \in Name : width[x][n] # 0}}
<1>4. stored' = stored \cup units
  BY DEF Store
<1>5. units \subseteq {"metric", "graph", "wrong"} /\ (Careful => units \subseteq {"metric"})
  BY <1>2, <1>3
<1> HIDE DEF units
<1>6. Stored'
  BY <1>4, <1>5, StaysCareful DEF Units, Stored
<1> QED
  BY <1>1, <1>6, StaysCareful DEF Units, Channels, Plain, Settled, Outputs, Normalized, Normalizer

LEMMA BeginsUnits ==
  ASSUME IInv, UInv, MirrorsPlain', NEW f \in Filler, BeginRun(f)
  PROVE  UInv'
<1>1. Units'
  BY SameUnits DEF BeginRun, UInv
<1>2. /\ call'.at = "infer" /\ Me' = f /\ MyField' = filler[f] /\ filler[f] \in RadField
      /\ WithTrunk => trunk'
  BY DEF BeginRun, Me, MyField, IInv, Shapes
<1> QED
  BY <1>1, <1>2 DEF UInv, Runs, Progress, Running, At

\* Which output is inverted next: the first normalized one after output i.
LEMMA NextIs ==
  ASSUME IInv, NEW i, NextInverted(i)
  PROVE  /\ Me' = Me
         /\ \/ call'.at = "returned" /\ ToInvert(i) = {}
            \/ /\ call'.at = "invert" /\ call'.j = 1 /\ call'.i \in ToInvert(i)
               /\ \A n \in ToInvert(i) : call'.i <= n
<1>1. call \in Call
  BY DEF IInv, Shapes
<1>2. CASE ToInvert(i) = {}
  BY <1>1, <1>2 DEF NextInverted, Call, Me
<1>3. CASE ToInvert(i) # {}
  <2>1. ToInvert(i) \subseteq DOMAIN Outputs /\ DOMAIN Outputs \subseteq Nat
    BY OutputsOf DEF ToInvert, IInv, Shapes
  <2>2. \E k \in ToInvert(i) : \A n \in ToInvert(i) : k <= n
    BY <1>3, <2>1, Smallest
  <2>3. PICK k \in ToInvert(i) : /\ \A n \in ToInvert(i) : k <= n
                                 /\ call' = [call EXCEPT !.at = "invert", !.j = 1, !.i = k]
    BY <1>3, <2>2 DEF NextInverted
  <2> QED
    BY <1>1, <2>3 DEF Call, Me
<1> QED
  BY <1>2, <1>3

\* With everything up to output i inverted, the loop goes on with the next.
LEMMA Onwards ==
  ASSUME IInv, NEW i \in Nat, NextInverted(i), UNCHANGED <<package, filler, bound, trunk>>,
         trunk => \A k \in DOMAIN Outputs, e \in 1..Elements :
           bound[Outputs[k]] = LayerOf(MyField, Outputs[k]) =>
             layer'[MyField][Outputs[k]][e] =
               IF Normalized(Outputs[k]) /\ i < k THEN [unit |-> "graph", fresh |-> TRUE]
               ELSE [unit |-> "metric", fresh |-> TRUE]
  PROVE  /\ Progress' /\ Me' = Me /\ MyField' = MyField /\ call'.at \in {"invert", "returned"}
         /\ call'.at = "invert" => /\ call'.i \in DOMAIN Outputs' /\ Normalized(Current)'
                                   /\ call'.j \in 1..Elements
<1>1. /\ Outputs' = Outputs /\ MyField' = MyField /\ Me' = Me
      /\ \A l : Normalized(l)' = Normalized(l)
  BY NextIs DEF Outputs, MyField, Normalized, Normalizer
<1>2. DOMAIN Outputs = 1..Len(Outputs) /\ Len(Outputs) \in Nat
  BY OutputsOf DEF IInv, Shapes
<1>3. CASE call'.at = "returned" /\ ToInvert(i) = {}
  <2>1. \A k \in DOMAIN Outputs : ~(Normalized(Outputs[k]) /\ i < k)
    BY <1>2, <1>3 DEF ToInvert
  <2>2. \A k \in DOMAIN Outputs : \A e : Passed(k, e, Len(Outputs) + 1, 1)
    BY <1>2 DEF Passed
  <2>3. trunk => Converted(Len(Outputs) + 1, 1)'
    BY <1>1, <2>1, <2>2 DEF Converted, Passed
  <2> QED
    BY <1>1, <1>3, <2>3 DEF Progress, At
<1>4. CASE /\ call'.at = "invert" /\ call'.j = 1 /\ call'.i \in ToInvert(i)
           /\ \A n \in ToInvert(i) : call'.i <= n
  <2>1. call'.i \in DOMAIN Outputs /\ Normalized(Outputs[call'.i]) /\ call'.i > i
    BY <1>4 DEF ToInvert
  <2>2. \A k \in DOMAIN Outputs, e \in 1..Elements : Normalized(Outputs[k]) =>
          (i < k <=> ~Passed(k, e, call'.i, 1))
    <3>1. SUFFICES ASSUME NEW k \in DOMAIN Outputs, NEW e \in 1..Elements, Normalized(Outputs[k])
                   PROVE  i < k <=> ~Passed(k, e, call'.i, 1)
      OBVIOUS
    <3>2. k \in Nat /\ call'.i \in Nat /\ e \in Nat /\ e >= 1
      BY <1>2, <2>1, FieldAssumption
    <3>3. i < k => call'.i <= k
      BY <1>4, <3>1, <3>2 DEF ToInvert
    <3> QED
      BY <2>1, <3>2, <3>3 DEF Passed
  <2>3. trunk => Converted(call.i, call.j)'
    BY <1>1, <1>4, <2>2 DEF Converted, Passed
  <2>4. 1 \in 1..Elements
    BY FieldAssumption
  <2> QED
    BY <1>1, <1>4, <2>1, <2>3, <2>4 DEF Progress, At, Current
<1> QED
  BY <1>3, <1>4, NextIs

LEMMA InferUnits ==
  ASSUME IInv, UInv, MirrorsPlain', Infer
  PROVE  UInv'
<1> DEFINE ls == IF trunk THEN ToSet(Outputs) ELSE {}
<1>1. /\ layer' = Written(ls) /\ settled' = settled \ Disturbed /\ NextInverted(0)
      /\ UNCHANGED <<package, filler, bound, trunk, stored>> /\ ls \in SUBSET ToSet(Outputs)
  BY DEF Infer
<1>2. Me \in Filler /\ MyField \in RadField /\ Channels /\ (WithTrunk => trunk)
  BY DEF Infer, UInv, Units, Runs, Running, At
<1>3. Units'
  BY <1>1, <1>2, WrittenUnits, WrittenKeeps DEF UInv
<1>4. Held(MyField)
  BY <1>2 DEF Held, MyField
<1>5. trunk => \A k \in DOMAIN Outputs, e \in 1..Elements :
        bound[Outputs[k]] = LayerOf(MyField, Outputs[k]) =>
          layer'[MyField][Outputs[k]][e] =
            IF Normalized(Outputs[k]) /\ 0 < k THEN [unit |-> "graph", fresh |-> TRUE]
            ELSE [unit |-> "metric", fresh |-> TRUE]
  <2>1. SUFFICES ASSUME trunk, NEW k \in DOMAIN Outputs, NEW e \in 1..Elements,
                        bound[Outputs[k]] = LayerOf(MyField, Outputs[k])
                 PROVE  layer'[MyField][Outputs[k]][e] =
                          IF Normalized(Outputs[k]) /\ 0 < k THEN [unit |-> "graph", fresh |-> TRUE]
                          ELSE [unit |-> "metric", fresh |-> TRUE]
    OBVIOUS
  <2>2. Outputs[k] \in ToSet(Outputs) /\ Outputs[k] \in Name /\ 0 < k
    BY OutputsOf DEF IInv, Shapes
  <2>3. ls = ToSet(Outputs)
    BY <2>1
  <2>4. layer'[MyField][Outputs[k]][e] = Emitted(Outputs[k])
    BY <1>1, <1>2, <1>4, <2>1, <2>2, <2>3, WrittenUnits
  <2> QED
    BY <2>2, <2>4, ElementsOf
<1> HIDE DEF ls
<1>6. /\ Progress' /\ Me' = Me /\ MyField' = MyField /\ call'.at \in {"invert", "returned"}
      /\ call'.at = "invert" => /\ call'.i \in DOMAIN Outputs' /\ Normalized(Current)'
                                /\ call'.j \in 1..Elements
  BY <1>1, <1>5, Onwards
<1>7. MyField' \notin settled'
  BY <1>1, <1>6 DEF Disturbed
<1> QED
  BY <1>1, <1>2, <1>3, <1>6, <1>7 DEF UInv, Runs, Running, At

LEMMA InferThrowsUnits ==
  ASSUME IInv, UInv, MirrorsPlain', InferThrows
  PROVE  UInv'
<1>1. PICK ls \in SUBSET ToSet(Outputs) : layer' = Aged(Written(ls))
  BY DEF InferThrows
<1>2. Written(ls) \in [RadField -> [Name -> [1..Elements -> Element]]]
  BY WrittenUnits DEF UInv, Units
<1>3. Units'
  <2>1. package' = package /\ stored' = stored /\ settled' = settled \ Disturbed
    BY DEF InferThrows
  <2>2. Units
    BY DEF UInv
  <2>3. /\ layer' \in [RadField -> [Name -> [1..Elements -> Element]]]
        /\ \A x \in RadField, l \in Name, k \in 1..Elements :
             layer'[x][l][k].unit = Written(ls)[x][l][k].unit
    BY <1>1, <1>2, AgedUnits
  <2> QED
    BY <2>1, <2>2, <2>3, WrittenKeeps
<1>4. ~Running'
  BY DEF InferThrows, Running, Idle
<1> QED
  BY <1>3, <1>4, Outside

LEMMA InvertElementUnits ==
  ASSUME IInv, UInv, MirrorsPlain', InvertElement
  PROVE  UInv'
<1>1. /\ At("invert") /\ Me \in Filler /\ MyField \in RadField /\ MyField \notin settled
      /\ call.i \in DOMAIN Outputs /\ Normalized(Current) /\ call.j \in 1..Elements
      /\ call \in Call /\ (WithTrunk => trunk)
  BY DEF InvertElement, UInv, Runs, Running, At, IInv, Shapes
<1>2. /\ layer' = [layer EXCEPT ![MyField][Current][call.j] = Inverted(layer[MyField][Current][call.j])]
      /\ UNCHANGED <<package, filler, bound, trunk, settled, stored>>
  BY DEF InvertElement
<1>3. /\ Current \in ToSet(Outputs) /\ Current \in Name /\ DOMAIN Outputs = 1..Len(Outputs)
      /\ Len(Outputs) \in Nat /\ \A k \in DOMAIN Outputs : Outputs[k] \in Name
  BY <1>1, OutputsOf DEF IInv, Shapes, Current
<1>4. Channels /\ Plain /\ Settled /\ Stored
  BY DEF UInv, Units
<1>5. layer[MyField][Current][call.j] \in Element
  <2>1. layer[MyField] \in [Name -> [1..Elements -> Element]]
    BY <1>1, <1>4 DEF Channels
  <2>2. layer[MyField][Current] \in [1..Elements -> Element]
    BY <1>3, <2>1
  <2> QED
    BY <1>1, <2>2
<1>6. /\ Channels'
      /\ layer'[MyField][Current][call.j] = Inverted(layer[MyField][Current][call.j])
      /\ \A x \in RadField, l \in Name, e \in 1..Elements :
           ~(x = MyField /\ l = Current /\ e = call.j) => layer'[x][l][e] = layer[x][l][e]
  <2>1. Inverted(layer[MyField][Current][call.j]) \in Element
    BY <1>5, ElementsOf
  <2> DEFINE v == Inverted(layer[MyField][Current][call.j])
  <2> HIDE DEF v
  <2>2. layer' = [layer EXCEPT ![MyField][Current][call.j] = v] /\ v \in Element
    BY <1>2, <2>1 DEF v
  <2>3. layer \in [RadField -> [Name -> [1..Elements -> Element]]]
    BY <1>4 DEF Channels
  <2>4. layer'[MyField][Current][call.j] = v
    BY <1>1, <1>3, <2>2, <2>3
  <2>5. \A x \in RadField, l \in Name, e \in 1..Elements :
           ~(x = MyField /\ l = Current /\ e = call.j) => layer'[x][l][e] = layer[x][l][e]
    BY <1>1, <1>3, <2>2, <2>3
  <2>6. layer' \in [RadField -> [Name -> [1..Elements -> Element]]]
    BY <1>1, <1>3, <2>2, <2>3
  <2> QED
    BY <2>4, <2>5, <2>6 DEF v, Channels
<1>7. Units'
  <2>1. Plain'
    BY <1>1, <1>2, <1>3, <1>4, <1>6 DEF Plain, Metric, Outputs, Normalized, Normalizer
  <2>2. Settled' /\ Stored'
    BY <1>1, <1>2, <1>4, <1>6, StaysCareful DEF Settled, Stored, Metric
  <2> QED
    BY <1>2, <1>4, <1>6, <2>1, <2>2 DEF Units
<1>8. \A k \in DOMAIN Outputs : Outputs[k] = Current => k = call.i
  BY <1>1, PackageAssumption DEF Current, Outputs, IInv, Shapes
<1>9. ASSUME trunk, NEW k \in DOMAIN Outputs, NEW e \in 1..Elements,
             bound[Outputs[k]] = LayerOf(MyField, Outputs[k])
      PROVE  layer'[MyField][Outputs[k]][e] =
               IF Normalized(Outputs[k]) /\ ~(Passed(k, e, call.i, call.j) \/ (k = call.i /\ e = call.j))
               THEN [unit |-> "graph", fresh |-> TRUE] ELSE [unit |-> "metric", fresh |-> TRUE]
  <2>1. layer[MyField][Outputs[k]][e] =
          IF Normalized(Outputs[k]) /\ ~Passed(k, e, call.i, call.j) THEN [unit |-> "graph", fresh |-> TRUE]
          ELSE [unit |-> "metric", fresh |-> TRUE]
    BY <1>1, <1>9 DEF UInv, Progress, Converted
  <2>2. CASE k = call.i /\ e = call.j
    <3>1. ~Passed(k, e, call.i, call.j) /\ Outputs[k] = Current
      BY <1>1, <1>3, <2>2 DEF Passed, Current
    <3>2. layer[MyField][Current][call.j] = [unit |-> "graph", fresh |-> TRUE]
      BY <1>1, <2>1, <2>2, <3>1
    <3> QED
      BY <1>5, <1>6, <2>2, <3>1, <3>2, ElementsOf
  <2>3. CASE ~(k = call.i /\ e = call.j)
    <3>1. ~(Outputs[k] = Current /\ e = call.j)
      BY <1>8, <2>3
    <3> QED
      BY <1>1, <1>3, <1>6, <2>1, <2>3, <3>1
  <2> QED
    BY <2>2, <2>3
<1>10. Runs' /\ Progress'
  <2>1. CASE call.j < LastElement
    <3>1. call' = [who |-> call.who, at |-> "invert", i |-> call.i, j |-> call.j + 1]
      BY <1>1, <2>1 DEF InvertElement, Call, At
    <3>2. call.j + 1 \in 1..Elements
      BY <1>1, <2>1, FieldAssumption DEF LastElement
    <3>3. \A k \in DOMAIN Outputs, e \in 1..Elements :
            Passed(k, e, call.i, call.j + 1) <=>
              Passed(k, e, call.i, call.j) \/ (k = call.i /\ e = call.j)
      BY <1>1, <1>3, FieldAssumption DEF Passed
    <3>4. /\ Me' = Me /\ MyField' = MyField /\ Outputs' = Outputs /\ Current' = Current
          /\ \A l : Normalized(l)' = Normalized(l)
      BY <1>2, <3>1 DEF Me, MyField, Outputs, Current, Normalized, Normalizer
    <3>5. trunk => Converted(call.i, call.j)'
      BY <1>2, <1>9, <3>1, <3>3, <3>4 DEF Converted, Passed
    <3>6. Progress'
      BY <1>2, <3>1, <3>5 DEF Progress, At
    <3>7. Normalized(Current)'
      BY <1>1, <3>4
    <3> QED
      BY <1>1, <1>2, <3>1, <3>2, <3>4, <3>6, <3>7 DEF Runs, Running, At
  <2>2. CASE ~(call.j < LastElement)
    <3>1. NextInverted(call.i) /\ call.i \in Nat /\ call.j = Elements
      BY <1>1, <1>3, <2>2, FieldAssumption DEF InvertElement, LastElement
    <3>2. \A k \in DOMAIN Outputs, e \in 1..Elements :
            ~(Passed(k, e, call.i, call.j) \/ (k = call.i /\ e = call.j)) <=> call.i < k
      BY <1>1, <1>3, <3>1, FieldAssumption DEF Passed
    <3>3. trunk => \A k \in DOMAIN Outputs, e \in 1..Elements :
            bound[Outputs[k]] = LayerOf(MyField, Outputs[k]) =>
              layer'[MyField][Outputs[k]][e] =
                IF Normalized(Outputs[k]) /\ call.i < k THEN [unit |-> "graph", fresh |-> TRUE]
                ELSE [unit |-> "metric", fresh |-> TRUE]
      BY <1>9, <3>2
    <3>4. /\ Progress' /\ Me' = Me /\ MyField' = MyField /\ call'.at \in {"invert", "returned"}
          /\ call'.at = "invert" => /\ call'.i \in DOMAIN Outputs' /\ Normalized(Current)'
                                    /\ call'.j \in 1..Elements
      BY <1>2, <3>1, <3>3, Onwards
    <3> QED
      BY <1>1, <1>2, <3>4 DEF Runs, Running, At
  <2> QED
    BY <2>1, <2>2
<1> QED
  BY <1>7, <1>10 DEF UInv

LEMMA InvertThrowsUnits ==
  ASSUME IInv, UInv, MirrorsPlain', InvertThrows
  PROVE  UInv'
<1>1. Units
  BY DEF UInv
<1>2. /\ layer' \in [RadField -> [Name -> [1..Elements -> Element]]]
      /\ \A x \in RadField, l \in Name, k \in 1..Elements : layer'[x][l][k].unit = layer[x][l][k].unit
  BY <1>1, AgedUnits DEF InvertThrows, Units, Channels
<1>3. Units'
  <2>1. package' = package /\ settled' = settled /\ stored' = stored
    BY DEF InvertThrows
  <2>2. Plain'
    <3>1. Outputs' = Outputs /\ \A l : Normalized(l)' = Normalized(l)
      BY <2>1 DEF Outputs, Normalized, Normalizer
    <3>2. SUFFICES ASSUME NEW x \in RadField, NEW l \in Name, l \notin ToSet(Outputs) \/ ~Normalized(l)
                   PROVE  Metric(layer[x][l])'
      BY <3>1 DEF Plain
    <3>3. Metric(layer[x][l])
      BY <1>1, <3>2 DEF Units, Plain
    <3> QED
      BY <1>2, <3>3 DEF Metric
  <2>3. Settled' /\ Stored'
    BY <1>1, <1>2, <2>1, StaysCareful DEF Units, Settled, Stored, Metric
  <2> QED
    BY <1>1, <1>2, <2>1, <2>2, <2>3 DEF Units, Channels
<1>4. ~Running'
  BY DEF InvertThrows, Running, Idle
<1> QED
  BY <1>3, <1>4, Outside

\* All a run wrote has been inverted when it returns.
LEMMA AllConverted ==
  ASSUME IInv, UInv, At("returned"), trunk, NEW l \in ToSet(Outputs), bound[l] = LayerOf(MyField, l)
  PROVE  \A e \in 1..Elements : layer[MyField][l][e] = [unit |-> "metric", fresh |-> TRUE]
<1>1. PICK k \in DOMAIN Outputs : l = Outputs[k]
  BY OutputsOf DEF IInv, Shapes
<1>2. k < Len(Outputs) + 1
  BY OutputsOf DEF IInv, Shapes
<1>3. Converted(Len(Outputs) + 1, 1)
  BY DEF UInv, Progress
<1> QED
  BY <1>1, <1>2, <1>3 DEF Converted, Passed

LEMMA ReturnUnits ==
  ASSUME IInv, UInv, CInv, MirrorsPlain', Return
  PROVE  UInv'
<1>1. Units /\ Plain /\ Settled /\ MyField \in RadField /\ Running /\ (WithTrunk => trunk)
  BY DEF UInv, Units, Runs, Running, Return, At
<1>2. /\ layer' \in [RadField -> [Name -> [1..Elements -> Element]]]
      /\ \A x \in RadField, l \in Name, k \in 1..Elements : layer'[x][l][k].unit = layer[x][l][k].unit
  BY <1>1, AgedUnits DEF Return, Units, Channels
<1>3. ASSUME Careful, NEW l \in Name
      PROVE  Metric(layer[MyField][l])
  <2>1. CASE l \notin ToSet(Outputs) \/ ~Normalized(l)
    BY <1>1, <2>1 DEF Plain
  <2>2. CASE l \in ToSet(Outputs) /\ Normalized(l)
    <3>1. bound[l] = LayerOf(MyField, l)
      BY <1>1, <1>3, <2>2, BindsMyField DEF UInv, MirrorsPlain
    <3>2. trunk
      BY <1>1, <1>3 DEF Careful
    <3> QED
      BY <2>2, <3>1, <3>2, AllConverted DEF Metric, Return
  <2> QED
    BY <2>1, <2>2
<1>4. Settled'
  <2>1. \A x \in settled' : x \in settled \/ x = MyField
    BY DEF Return
  <2>2. settled' \subseteq RadField
    BY <1>1, <2>1 DEF Settled
  <2>3. ASSUME Careful, NEW x \in settled', NEW l \in Name PROVE Metric(layer[x][l])'
    <3>1. x \in RadField /\ Metric(layer[x][l])
      BY <1>1, <1>3, <2>1, <2>3 DEF Settled
    <3> QED
      BY <1>2, <3>1 DEF Metric
  <2> QED
    BY <2>2, <2>3, StaysCareful DEF Settled
<1>5. Plain' /\ Stored' /\ package' = package
  <2>1. package' = package /\ stored' = stored
    BY DEF Return
  <2>2. Plain'
    BY <1>1, <1>2, <2>1 DEF Plain, Metric, Outputs, Normalized, Normalizer
  <2>3. Stored'
    BY <1>1, <2>1, StaysCareful DEF Units, Stored
  <2> QED
    BY <2>1, <2>2, <2>3
<1>6. ~Running'
  BY DEF Return, Running, Idle
<1> QED
  BY <1>2, <1>4, <1>5, <1>6, Outside DEF Units, Channels

\* The fifth invariant, of what the types need besides.
TInv ==
  /\ counts \in [RadField -> Grids \cup {0}]
  /\ grid \in Grids \cup {0}
  /\ made \in Filler \cup {Nothing}
  /\ trunk \in BOOLEAN
  /\ At("idle") => Me = "nobody"

LEMMA TInit == Init => TInv
BY DEF Init, TInv, Idle, At, Me

LEMMA TNext == IInv /\ TInv /\ [Next]_vars => TInv'
<1> SUFFICES ASSUME IInv, TInv, [Next]_vars PROVE TInv'
  OBVIOUS
<1>1. call \in Call
  BY DEF IInv, Shapes
<1>2. ASSUME counts' = counts, grid' = grid, made' = made, trunk' \in BOOLEAN,
             call' = call \/ call'.at # "idle" \/ call' = Idle
      PROVE  TInv'
  BY <1>2 DEF TInv, At, Me, Idle
<1>3. \A at, i : Step(at, i) => call'.at = at
  BY <1>1 DEF Step, Call
<1>4. \A i : NextInverted(i) => call'.at # "idle"
  BY <1>1 DEF NextInverted, Call
<1> trunk \in BOOLEAN
  BY DEF TInv
<1>5. CASE UNCHANGED vars
  BY <1>2, <1>5 DEF vars, fields
<1>6. ASSUME NEW x \in RadField, NEW n \in Grids, Allocate(x, n) PROVE TInv'
  BY <1>6 DEF Allocate, TInv, At, Me
<1>7. ASSUME NEW x \in RadField, NEW y \in RadField, Copy(x, y) PROVE TInv'
  BY <1>7 DEF Copy, TInv, At, Me
<1>8. ASSUME NEW x \in RadField,
             \/ Drop(x) \/ Store(x) \/ \E l, m : SetDeviceMemory(x, l, m)
             \/ \E l, w : AddOwnLayer(x, l, w)
      PROVE  TInv'
  BY <1>2, <1>8 DEF Drop, Store, SetDeviceMemory, AddOwnLayer, fields
<1>9. ASSUME NEW f \in Filler, Destroy(f) \/ BeginRun(f) \/ \E x : Construct(f, x)
      PROVE  TInv'
  BY <1>2, <1>9 DEF Destroy, BeginRun, Construct, fields
<1>10. ASSUME (\E s : CallerBind(s)) \/ (\E enabled \in BOOLEAN : SetTrunkEnabled(enabled))
       PROVE  TInv'
  BY <1>2, <1>10 DEF CallerBind, SetTrunkEnabled, fields
<1>11. CASE ChooseGrid \/ ConstructThrows
  <2>1. MyField \in RadField
    BY <1>11 DEF ChooseGrid, ConstructThrows, At, IInv, Constructing, Building
  <2>2. counts[MyField] \in Grids \cup {0} /\ counts' = counts /\ made' = made
      /\ trunk' = trunk
    BY <1>11, <2>1 DEF ChooseGrid, ConstructThrows, TInv, fields
  <2>3. grid' \in {grid, counts[MyField]}
    BY <1>11 DEF ChooseGrid, ConstructThrows
  <2>4. call'.at # "idle" \/ call' = Idle
    BY <1>3, <1>11 DEF ChooseGrid, ConstructThrows
  <2> QED
    BY <2>2, <2>3, <2>4 DEF TInv, At, Me, Idle
<1>12. CASE BindPosition \/ AddOutputLayer \/ BindLayer
  BY <1>2, <1>3, <1>12 DEF BindPosition, AddOutputLayer, BindLayer, fields
<1>13. CASE ListInputs
  <2>1. Me \in Filler
    BY <1>13 DEF ListInputs, At, IInv, Constructing, Building
  <2> QED
    BY <1>13, <2>1 DEF ListInputs, fields, TInv, At, Me, Idle
<1>14. CASE Infer \/ InferThrows \/ InvertThrows \/ Return
  BY <1>2, <1>4, <1>14 DEF Infer, InferThrows, InvertThrows, Return, fields
<1>15. CASE InvertElement
  <2>1. call'.at # "idle"
    BY <1>1, <1>4, <1>15 DEF InvertElement, Call, At
  <2> QED
    BY <1>2, <1>15, <2>1 DEF InvertElement, fields
<1> QED
  BY <1>5, <1>6, <1>7, <1>8, <1>9, <1>10, <1>11, <1>12, <1>13, <1>14, <1>15 DEF Next, CallStep

LEMMA UNext == IInv /\ CInv /\ UInv /\ [Next]_vars => UInv'
<1> SUFFICES ASSUME IInv, CInv, UInv, [Next]_vars PROVE UInv'
  OBVIOUS
<1>1. MirrorsPlain' /\ Units
  BY MirrorsStay DEF UInv
<1>2. CASE UNCHANGED vars
  <2>1. Units'
    BY <1>1, <1>2, SameUnits DEF vars
  <2> QED
    BY <1>1, <1>2, <2>1 DEF vars, UInv, Runs, Progress, Running, Converted, At, Me, MyField, Current,
       Outputs, Normalized, Normalizer
<1>3. ASSUME UNCHANGED <<package, layer, settled, stored>>, ~Running' PROVE UInv'
  BY <1>1, <1>3, SameUnits, Outside
<1>4. ASSUME NEW x \in RadField, Drop(x) \/ \E n : Allocate(x, n) \/ \E l, m : SetDeviceMemory(x, l, m)
      PROVE  UInv'
  BY <1>3, <1>4 DEF Drop, Allocate, SetDeviceMemory, Running, At
<1>5. ASSUME NEW x \in RadField, NEW l, NEW w, AddOwnLayer(x, l, w) PROVE UInv'
  BY <1>3, <1>5 DEF AddOwnLayer, Running, At
<1>6. ASSUME NEW x \in RadField, Store(x) PROVE UInv'
  BY <1>1, <1>6, StoreUnits, Outside DEF Store, Running, At
<1>7. ASSUME NEW x \in RadField, NEW y \in RadField, Copy(x, y) PROVE UInv'
  BY <1>1, <1>7, CopyUnits, Outside DEF Copy, Running, At
<1>8. ASSUME NEW f \in Filler, Destroy(f) \/ \E x : Construct(f, x) PROVE UInv'
  BY <1>3, <1>8 DEF Destroy, Construct, Running, At
<1>9. ASSUME NEW s \in Slot, CallerBind(s) PROVE UInv'
  BY <1>3, <1>9 DEF CallerBind, Running, At
<1>10. ASSUME NEW enabled \in BOOLEAN, SetTrunkEnabled(enabled) PROVE UInv'
  BY <1>3, <1>10 DEF SetTrunkEnabled, Running, At
<1>11. CASE \/ ChooseGrid \/ BindPosition \/ AddOutputLayer \/ BindLayer \/ ListInputs
            \/ ConstructThrows
  <2>1. call \in Call
    BY DEF IInv, Shapes
  <2>2. \A at, i : Step(at, i) => call'.at = at
    BY <2>1 DEF Step, Call
  <2>3. Idle.at = "idle"
    BY DEF Idle
  <2>4. UNCHANGED <<package, layer, settled, stored>>
    BY <1>11 DEF ChooseGrid, BindPosition, AddOutputLayer, BindLayer, ListInputs, ConstructThrows
  <2>5. call'.at \in {"position", "layers", "bind", "inputs", "idle"}
    <3>1. CASE ChooseGrid
      BY <2>2, <3>1 DEF ChooseGrid
    <3>2. CASE BindPosition \/ AddOutputLayer
      BY <2>2, <3>2 DEF BindPosition, AddOutputLayer
    <3>3. CASE BindLayer \/ ListInputs \/ ConstructThrows
      BY <2>2, <2>3, <3>3 DEF BindLayer, ListInputs, ConstructThrows
    <3> QED
      BY <1>11, <3>1, <3>2, <3>3
  <2>6. ~Running'
    BY <2>5 DEF Running
  <2> QED
    BY <1>3, <2>4, <2>6
<1>12. CASE CallStep
  BY <1>1, <1>11, <1>12, InferUnits, InferThrowsUnits, InvertElementUnits, InvertThrowsUnits,
     ReturnUnits DEF CallStep
<1>13. ASSUME NEW f \in Filler, BeginRun(f) PROVE UInv'
  BY <1>1, <1>13, BeginsUnits
<1> QED
  BY <1>2, <1>4, <1>5, <1>6, <1>7, <1>8, <1>9, <1>10, <1>12, <1>13 DEF Next

----------------------------------------------------------------------------
(* Theorems                                                                *)

\* A layer is never overrun: what the session writes has the grid and the width
\* of the layer it is bound to, for any objects, fields, copies, layers of the
\* application's own and constructors that throw (field_inference.cpp:34-57, 108).
THEOREM LayersFit == Spec => []WritesFitTheLayers
<1>1. IInv => WritesFitTheLayers
  BY DEF IInv, Fit, WritesFitTheLayers
<1> QED
  BY <1>1, InitInv, NextInv, PTL DEF Spec

\* An application that runs the object it made last, and leaves the outputs to
\* it, never has a run read or write what is gone, whatever it destroyed and
\* whichever constructors threw after they had bound something, as long as one
\* that has bound the last output returns (field_inference.cpp:106-199).
THEOREM RunsOnTheLiving ==
  ASSUME LastMadeOnly, BoundReturns, CallerBinds \cap Name = {}
  PROVE  Spec => []RunReadsLiveMemory
<1>1. Init => IInv /\ LInv
  BY InitInv, LInit
<1>2. (IInv /\ LInv) /\ [Next]_vars => (IInv /\ LInv)'
  BY NextInv, LNext
<1>3. IInv /\ LInv => RunReadsLiveMemory
  BY MineIsLive
<1> QED
  BY <1>1, <1>2, <1>3, PTL DEF Spec

\* What holds of bindings and units, for any application.
LEMMA UnitsInvariant == Spec => [](IInv /\ CInv /\ UInv)
<1>1. Init => IInv /\ CInv /\ UInv
  BY InitInv, CInit, UInit
<1>2. (IInv /\ CInv /\ UInv) /\ [Next]_vars => (IInv /\ CInv /\ UInv)'
  BY NextInv, CNext, UNext
<1> QED
  BY <1>1, <1>2, PTL DEF Spec

\* Every variable has its type, a call's object lives until it returns, and a
\* loop over the outputs never leaves them, whatever throws
\* (field_inference.cpp:63-193).
THEOREM FieldTypes == Spec => []TypeOK
<1>1. Init => TInv
  BY TInit
<1>2. IInv /\ TInv /\ [Next]_vars => TInv'
  BY TNext
<1>3. ASSUME IInv, UInv, TInv PROVE TypeOK
  <2>1. trunk \in BOOLEAN
    BY <1>3 DEF TInv
  <2>2. ASSUME call.who \in Filler PROVE filler[call.who] # NoField
    <3>1. call.at # "idle"
      BY <1>3, <2>2, NameAssumption DEF TInv, At, Me
    <3>2. Building \/ Running
      BY <1>3, <3>1 DEF IInv, Shapes, Call, Phase, Building, Running
    <3>3. MyField \in RadField
      BY <1>3, <3>2 DEF IInv, Constructing, UInv, Runs
    <3> QED
      BY <3>3, NameAssumption DEF MyField, Me
  <2>3. call.at \in {"layers", "bind", "invert"} => call.i \in DOMAIN Outputs
    BY <1>3 DEF IInv, Constructing, Building, At, UInv, Runs
  <2>4. /\ settled \subseteq RadField /\ stored \subseteq {"metric", "graph", "wrong"}
        /\ layer \in [RadField -> [Name -> [1..Elements -> Element]]]
    BY <1>3 DEF UInv, Units, Settled, Stored, Channels
  <2> QED
    BY <1>3, <2>1, <2>2, <2>3, <2>4 DEF TypeOK, IInv, Shapes, TInv
<1> QED
  BY <1>1, <1>2, <1>3, UnitsInvariant, PTL DEF Spec

\* What an application stores after a run that returned is in metric units, in
\* every layer, whichever runs and copies went before and wherever they threw,
\* if it runs the object it made last, and that with the trunk enabled, leaves
\* the outputs to it and a constructor that has bound them returns
\* (field_inference.hpp:76-79, field_inference.cpp:180-184).
THEOREM FilesAreMetric ==
  ASSUME LastMadeOnly, BoundReturns, WithTrunk, CallerBinds \cap Name = {}
  PROVE  Spec => []StoredIsMetric
<1>1. Careful
  BY DEF Careful
<1>2. IInv /\ CInv /\ UInv => StoredIsMetric
  BY <1>1 DEF UInv, Units, Stored, StoredIsMetric
<1> QED
  BY <1>2, UnitsInvariant, PTL

\* Of the object made last, run while the trunk is enabled, a run fills every
\* layer of its field that no mirror stands in for with this run's prediction,
\* each element inverted exactly once (field_inference.hpp:71,
\* field_inference.cpp:207-236).
THEOREM RunsFillTheirField ==
  ASSUME LastMadeOnly, BoundReturns, WithTrunk, CallerBinds \cap Name = {}
  PROVE  Spec => []RunFillsItsField
<1>1. Careful
  BY DEF Careful
<1>2. ASSUME IInv, CInv, UInv PROVE RunFillsItsField
  <2>1. SUFFICES ASSUME At("returned"), NEW l \in ToSet(Outputs),
                        \A d \in Mirror : bound[l] # OnDevice(d)
                 PROVE  layer[MyField][l] = [k \in 1..Elements |-> [unit |-> "metric", fresh |-> TRUE]]
    BY DEF RunFillsItsField
  <2>2. Running /\ MyField \in RadField /\ trunk
    BY <1>1, <1>2, <2>1 DEF UInv, Runs, Running, At, Careful
  <2>3. l \in Name
    BY <1>2, OutputsOf DEF IInv, Shapes
  <2>4. bound[l] = LayerOf(MyField, l)
    BY <1>1, <1>2, <2>1, <2>2, BindsMyField
  <2>5. \A e \in 1..Elements : layer[MyField][l][e] = [unit |-> "metric", fresh |-> TRUE]
    BY <1>2, <2>1, <2>2, <2>4, AllConverted
  <2>6. layer[MyField] \in [Name -> [1..Elements -> Element]]
    BY <1>2, <2>2 DEF UInv, Units, Channels
  <2>7. layer[MyField][l] \in [1..Elements -> Element]
    BY <2>3, <2>6
  <2> QED
    BY <2>5, <2>7
<1> QED
  BY <1>2, UnitsInvariant, PTL

=============================================================================
