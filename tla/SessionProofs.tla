--------------------------- MODULE SessionProofs ---------------------------
(***************************************************************************)
(* Proofs about Session, for every package Composition::validate accepts,  *)
(* every set of caller memory and every sequence of calls.                 *)
(***************************************************************************)
EXTENDS Session, TLAPS

----------------------------------------------------------------------------
(* The plan                                                                *)

\* A buffer has one writer, which is an output of the stage that produces it.
LEMMA WriterFacts ==
  ASSUME NEW b \in Buffer
  PROVE  /\ WriterOf(b) \in Output
         /\ Port[WriterOf(b)] = b
         /\ ProducerOf(b) \in Stage
         /\ \A t \in Output : Port[t] = b => t = WriterOf(b)
<1>1. PICK t \in Output : Port[t] = b
  BY WiringAssumption DEF WellWired
<1>2. WriterOf(b) \in Output /\ Port[WriterOf(b)] = b
  BY <1>1 DEF WriterOf
<1>3. b # 0
  BY PlanAssumption, SMT DEF Buffer
<1>4. \A u \in Output : Port[u] = b => u = WriterOf(b)
  BY <1>2, <1>3, WiringAssumption DEF WellWired
<1>5. ProducerOf(b) \in Stage
  BY <1>2, PlanAssumption DEF ProducerOf, Output
<1> QED BY <1>2, <1>4, <1>5

\* An attached tensor is attached to a buffer.
LEMMA PortFacts ==
  ASSUME NEW t \in Tensor, Port[t] # 0
  PROVE  Port[t] \in Buffer
BY PlanAssumption, SMT DEF Buffer

\* The product of two naturals is one.
LEMMA ProductNat == \A m, n \in Nat : m * n \in Nat
BY SMT

LEMMA LessThanNext == \A m, n \in Int : m < n + 1 /\ m # n => m < n
BY SMT

\* A tensor has a natural number of elements on any grid.
LEMMA ElementsNat ==
  ASSUME NEW t \in Tensor, NEW q \in QueryCounts
  PROVE  Elements(t, q) \in Nat
<1>1. Per[t] \in Nat /\ RowsFor(StageOf[t], q) \in Nat
  BY PlanAssumption, MemoryAssumption DEF RowsFor
<1> QED BY <1>1, ProductNat DEF Elements

\* A buffer is as large as each tensor attached to it.
LEMMA WidestFacts ==
  ASSUME NEW b \in Buffer, NEW q \in QueryCounts
  PROVE  /\ Widest(b, q) \in Nat
         /\ \A t \in Tensor : Port[t] = b => Elements(t, q) <= Widest(b, q)
<1>1. /\ Widest(b, q) \in PortSizes(b, q)
      /\ \A m \in PortSizes(b, q) : m <= Widest(b, q)
  BY WidestAssumption DEF Widest
<1>2. Widest(b, q) \in Nat
  <2>1. PICK t \in Readers(b) \cup {WriterOf(b)} : Widest(b, q) = Elements(t, q)
    BY <1>1 DEF PortSizes
  <2>2. t \in Tensor
    BY <2>1, WriterFacts, PlanAssumption DEF Readers, Output
  <2> QED BY <2>1, <2>2, ElementsNat
<1>3. ASSUME NEW t \in Tensor, Port[t] = b
      PROVE  t \in Readers(b) \cup {WriterOf(b)}
  BY <1>3, WriterFacts DEF Readers, Output
<1> QED BY <1>1, <1>2, <1>3 DEF PortSizes

----------------------------------------------------------------------------
(* Types                                                                   *)

\* What a run leaves is what some memory held.
LEMMA SettledAtoms ==
  ASSUME NEW v \in SUBSET Atom
  PROVE  Settled(v) \in SUBSET Atom /\ Settled(v) \subseteq v
BY DEF Settled

LEMMA ContentsAtoms ==
  ASSUME TypeOK, NEW t \in Tensor
  PROVE  Contents(t) \in SUBSET Atom
<1>1. CASE bound[t] \in Mem
  BY <1>1 DEF TypeOK, Contents
<1>2. CASE bound[t] = Inner
  <2>1. Port[t] \in Buffer
    BY <1>2, PortFacts DEF TypeOK
  <2> QED BY <1>2, <2>1, MemoryAssumption DEF TypeOK, Contents
<1>3. CASE bound[t] \notin Mem /\ bound[t] # Inner
  BY <1>3 DEF Contents, Atom
<1> QED BY <1>1, <1>2, <1>3

LEMMA ComputedAtoms ==
  ASSUME TypeOK, NEW s \in Stage
  PROVE  /\ Computed(s) \in SUBSET Atom
         /\ Computed(s) \subseteq UNION {Contents(t) : t \in Inputs(s)}
<1>1. \A t \in Inputs(s) : t \in Tensor
  BY PlanAssumption DEF Inputs
<1>2. UNION {Contents(t) : t \in Inputs(s)} \in SUBSET Atom
  BY <1>1, ContentsAtoms
<1> QED BY <1>2, SettledAtoms DEF Computed

LEMMA TypeInit == Init => TypeOK
<1> SUFFICES ASSUME Init PROVE TypeOK
  OBVIOUS
<1>1. data \in [Mem -> SUBSET Atom]
  BY DEF Init, Atom, Edition
<1>2. /\ head \in [Buffer -> SUBSET Atom]
      /\ tail \in [Buffer -> SUBSET Atom]
  BY DEF Init, Atom
<1>3. /\ bound \in [Tensor -> Mem \cup {Unbound, Inner}]
      /\ \A t \in Tensor : bound[t] = Unbound
  BY DEF Init
<1>4. /\ \A t \in Tensor : bound[t] = Inner => Port[t] # 0
      /\ \A t \in Tensor : bound[t] \in Mem => Port[t] = 0
  BY <1>3, MemoryAssumption DEF Unbound, Inner
<1>5. at \in 0..NumStages + 1
  BY PlanAssumption, SMT DEF Init
<1> QED BY <1>1, <1>2, <1>3, <1>4, <1>5 DEF Init, TypeOK

LEMMA TypeNext == TypeOK /\ [Next]_vars => TypeOK'
<1> SUFFICES ASSUME TypeOK, [Next]_vars PROVE TypeOK'
  OBVIOUS
<1> USE DEF TypeOK
<1>1. CASE \E q \in QueryCounts : SetVoxelGrid(q)
  <2>1. PICK q \in QueryCounts : SetVoxelGrid(q)
    BY <1>1
  <2>2. size' \in [Buffer -> Nat]
    BY <2>1, WidestFacts DEF SetVoxelGrid
  <2>3. head' \in [Buffer -> SUBSET Atom] /\ tail' \in [Buffer -> SUBSET Atom]
    BY <2>1 DEF SetVoxelGrid, Atom
  <2>4. /\ bound' \in [Tensor -> Mem \cup {Unbound, Inner}]
        /\ \A t \in Tensor : bound'[t] = Inner => Port[t] # 0
        /\ \A t \in Tensor : bound'[t] \in Mem => Port[t] = 0
    BY <2>1, MemoryAssumption DEF SetVoxelGrid, BindingsOfNewGrid, Unbound, Inner
  <2> QED BY <2>1, <2>2, <2>3, <2>4 DEF SetVoxelGrid
<1>2. CASE \E q \in QueryCounts, k \in 0..NumBuffers : SetVoxelGridThrows(q, k)
  <2>1. PICK q \in QueryCounts, k \in 0..NumBuffers : SetVoxelGridThrows(q, k)
    BY <1>2
  <2>2. size' \in [Buffer -> Nat]
    BY <2>1, WidestFacts DEF SetVoxelGridThrows
  <2>3. head' \in [Buffer -> SUBSET Atom] /\ tail' \in [Buffer -> SUBSET Atom]
    BY <2>1 DEF SetVoxelGridThrows, Atom
  <2>4. /\ bound' \in [Tensor -> Mem \cup {Unbound, Inner}]
        /\ \A t \in Tensor : bound'[t] = Inner => Port[t] # 0
        /\ \A t \in Tensor : bound'[t] \in Mem => Port[t] = 0
    BY <2>1, MemoryAssumption DEF SetVoxelGridThrows, Unbound, Inner
  <2> QED BY <2>1, <2>2, <2>3, <2>4 DEF SetVoxelGridThrows
<1>3. CASE \E t \in Tensor, side \in {Input, Output}, ref \in Ref : Bind(NameOf[t], side, ref)
  <2>1. PICK n \in Tensor, side \in {Input, Output}, ref \in Ref : Bind(NameOf[n], side, ref)
    BY <1>3
  <2>2. PICK t \in Candidates(NameOf[n], side) : bound' = [bound EXCEPT ![t] = View[ref]]
    BY <2>1 DEF Bind
  <2>3. t \in Tensor /\ Port[t] = 0
    BY <2>2 DEF Candidates, CallerOwned
  <2>4. View[ref] \in Mem
    BY <2>1, MemoryAssumption DEF Bind
  <2>5. /\ bound' \in [Tensor -> Mem \cup {Unbound, Inner}]
        /\ \A u \in Tensor : bound'[u] = Inner => Port[u] # 0
        /\ \A u \in Tensor : bound'[u] \in Mem => Port[u] = 0
    BY <2>2, <2>3, <2>4, MemoryAssumption
  <2> QED BY <2>1, <2>5 DEF Bind
<1>4. CASE \E s \in Switchable, enabled \in BOOLEAN : SetStageEnabled(s, enabled)
  <2>1. PICK s \in Switchable, enabled \in BOOLEAN : SetStageEnabled(s, enabled)
    BY <1>4
  <2>2. at = 0 /\ 0 \notin Stage
    BY <2>1, PlanAssumption, SMT DEF SetStageEnabled, Stage
  <2>3. s \in Stage
    BY <2>1, PlanAssumption
  <2> QED BY <2>1, <2>2, <2>3 DEF SetStageEnabled
<1>5. CASE \E m \in Mem : Edit(m)
  <2>1. PICK m \in Mem : Edit(m)
    BY <1>5
  <2>2. edits' \in [Mem -> Nat]
    BY <2>1, SMT DEF Edit
  <2>3. edits[m] + 1 \in Nat
    BY SMT
  <2>4. {<<m, edits[m] + 1>>} \in SUBSET Atom
    BY <2>3 DEF Atom, Edition
  <2>5. data' \in [Mem -> SUBSET Atom]
    BY <2>1, <2>4 DEF Edit
  <2> QED BY <2>1, <2>2, <2>5 DEF Edit, control
<1>6. CASE BeginInfer
  BY <1>6, PlanAssumption, SMT DEF BeginInfer, control
<1>7. CASE SkipStage
  BY <1>7, PlanAssumption, SMT DEF SkipStage, control, Stage
<1>8. CASE RunStage
  <2>1. Computed(at) \in SUBSET Atom
    BY <1>8, ComputedAtoms DEF RunStage
  <2>2. data' \in [Mem -> SUBSET Atom] /\ head' \in [Buffer -> SUBSET Atom]
    BY <1>8, <2>1 DEF RunStage
  <2> QED BY <1>8, <2>2 DEF RunStage, control, Skipped
<1>9. CASE RunThrows
  <2>1. data' \in [Mem -> SUBSET Atom] /\ head' \in [Buffer -> SUBSET Atom]
    BY <1>9 DEF RunThrows, Atom
  <2>2. at' \in 0..NumStages + 1
    BY <1>9, PlanAssumption, SMT DEF RunThrows
  <2> QED BY <1>9, <2>1, <2>2 DEF RunThrows, control
<1>10. CASE RepeatBuffers
  <2>1. tail' \in [Buffer -> SUBSET Atom]
    BY <1>10 DEF RepeatBuffers
  <2>2. at' \in 0..NumStages + 1
    BY <1>10, PlanAssumption, SMT DEF RepeatBuffers, Stage
  <2> QED BY <1>10, <2>1, <2>2 DEF RepeatBuffers, control
<1>11. CASE Return
  <2>1. at' \in 0..NumStages + 1 /\ phase' # "repeat"
    BY <1>11, PlanAssumption, SMT DEF Return, Stage
  <2> QED BY <1>11, <2>1 DEF Return, control
<1>12. CASE \E b \in Buffer : RepeatThrows(b)
  <2>1. PICK b \in Buffer : RepeatThrows(b)
    BY <1>12
  <2>2. tail' \in [Buffer -> SUBSET Atom]
    BY <2>1 DEF RepeatThrows, Atom
  <2>3. at' \in 0..NumStages + 1
    BY <2>1, PlanAssumption, SMT DEF RepeatThrows
  <2> QED BY <2>1, <2>2, <2>3 DEF RepeatThrows, control
<1>13. CASE UNCHANGED vars
  BY <1>13 DEF vars
<1> QED
  BY <1>1, <1>2, <1>3, <1>4, <1>5, <1>6, <1>7, <1>8, <1>9, <1>10, <1>11, <1>12, <1>13
  DEF Next, InferStep

\* Every reachable state is well typed.
THEOREM TypeCorrect == Spec => []TypeOK
BY TypeInit, TypeNext, PTL DEF Spec

----------------------------------------------------------------------------
(* Bindings fit the grid                                                   *)

LEMMA FitInit == Init => BindingsFitTheGrid
BY MemoryAssumption DEF Init, BindingsFitTheGrid, Unbound, Inner

LEMMA FitUnchanged ==
  ASSUME BindingsFitTheGrid, UNCHANGED control
  PROVE  BindingsFitTheGrid'
BY DEF BindingsFitTheGrid, control, Elements, RowsFor

LEMMA FitNext == TypeOK /\ BindingsFitTheGrid /\ [Next]_vars => BindingsFitTheGrid'
<1> SUFFICES ASSUME TypeOK, BindingsFitTheGrid, [Next]_vars
             PROVE  BindingsFitTheGrid'
  OBVIOUS
<1>1. CASE \E q \in QueryCounts : SetVoxelGrid(q)
  <2>1. PICK q \in QueryCounts : SetVoxelGrid(q)
    BY <1>1
  <2>2. queries' = q /\ q # 0
    BY <2>1, MemoryAssumption DEF SetVoxelGrid
  <2>3. ASSUME NEW t \in Tensor
        PROVE  /\ bound'[t] \notin Mem
               /\ bound'[t] = Inner => Port[t] # 0
    BY <2>1, MemoryAssumption DEF SetVoxelGrid, BindingsOfNewGrid, Unbound, Inner
  <2>4. ASSUME NEW t \in Tensor, Port[t] # 0
        PROVE  size'[Port[t]] >= Elements(t, q)
    <3>1. Port[t] \in Buffer
      BY <2>4, PortFacts
    <3>2. size'[Port[t]] = Widest(Port[t], q)
      BY <2>1, <3>1 DEF SetVoxelGrid
    <3>3. Elements(t, q) <= Widest(Port[t], q) /\ Widest(Port[t], q) \in Nat
      BY <3>1, WidestFacts
    <3>4. Elements(t, q) \in Nat
      BY ElementsNat
    <3> QED BY <3>2, <3>3, <3>4, SMT
  <2> QED BY <2>2, <2>3, <2>4 DEF BindingsFitTheGrid, Elements, RowsFor
<1>2. CASE \E q \in QueryCounts, k \in 0..NumBuffers : SetVoxelGridThrows(q, k)
  BY <1>2, MemoryAssumption DEF SetVoxelGridThrows, BindingsFitTheGrid, Unbound, Inner
<1>3. CASE \E t \in Tensor, side \in {Input, Output}, ref \in Ref : Bind(NameOf[t], side, ref)
  <2>1. PICK n \in Tensor, side \in {Input, Output}, ref \in Ref : Bind(NameOf[n], side, ref)
    BY <1>3
  <2>2. PICK t \in Candidates(NameOf[n], side) :
          /\ FitsTensor(View[ref], t)
          /\ bound' = [bound EXCEPT ![t] = View[ref]]
    BY <2>1 DEF Bind
  <2>3. /\ t \in Tensor /\ View[ref] \in Mem
        /\ queries' = queries /\ size' = size /\ queries # 0
    BY <2>1, <2>2, MemoryAssumption DEF Bind, Candidates, CallerOwned
  <2>4. bound'[t] \in Mem /\ bound'[t] # Inner /\ Holds[bound'[t]] >= Elements(t, queries)
    BY <2>2, <2>3, MemoryAssumption DEF TypeOK, FitsTensor
  <2>5. \A u \in Tensor : u # t => bound'[u] = bound[u]
    BY <2>2 DEF TypeOK
  <2> QED BY <2>3, <2>4, <2>5 DEF BindingsFitTheGrid, Elements, RowsFor
<1>4. CASE \E s \in Switchable, enabled \in BOOLEAN : SetStageEnabled(s, enabled)
  BY <1>4 DEF SetStageEnabled, BindingsFitTheGrid, Elements, RowsFor
<1>5. CASE UNCHANGED control
  BY <1>5, FitUnchanged
<1>6. CASE \E m \in Mem : Edit(m)
  BY <1>6, <1>5 DEF Edit
<1>7. CASE BeginInfer \/ InferStep
  BY <1>5, <1>7 DEF BeginInfer, InferStep, SkipStage, RunStage, RunThrows,
                    RepeatBuffers, Return, RepeatThrows
<1>8. CASE UNCHANGED vars
  BY <1>5, <1>8 DEF vars, control
<1> QED
  BY <1>1, <1>2, <1>3, <1>4, <1>6, <1>7, <1>8 DEF Next

\* At every moment every binding is large enough for the grid chosen last.
THEOREM BindingsAlwaysFit == Spec => []BindingsFitTheGrid
<1>1. Init => TypeOK /\ BindingsFitTheGrid
  BY TypeInit, FitInit
<1>2. (TypeOK /\ BindingsFitTheGrid) /\ [Next]_vars => (TypeOK /\ BindingsFitTheGrid)'
  BY TypeNext, FitNext
<1> QED BY <1>1, <1>2, PTL DEF Spec

----------------------------------------------------------------------------
(* What one step of infer() touches                                        *)

\* A stage writes the buffers it is the producer of, and no others.
LEMMA WrittenByProducer ==
  ASSUME TypeOK, NEW s \in Stage, NEW b \in BufferWritten(s)
  PROVE  b \in Buffer /\ ProducerOf(b) = s
<1>1. PICK u \in Outputs(s) : bound[u] = Inner /\ b = Port[u]
  BY DEF BufferWritten
<1>2. u \in Tensor /\ u \in Output /\ StageOf[u] = s /\ Port[u] # 0
  BY <1>1, PlanAssumption DEF Outputs, Output, TypeOK
<1>3. b \in Buffer
  BY <1>1, <1>2, PortFacts
<1>4. u = WriterOf(b)
  BY <1>1, <1>2, <1>3, WriterFacts
<1> QED BY <1>2, <1>3, <1>4 DEF ProducerOf

\* Once the grid is set up, it writes every buffer it is the producer of.
LEMMA ProducerWrites ==
  ASSUME Wired, NEW b \in Buffer
  PROVE  b \in BufferWritten(ProducerOf(b))
<1>1. WriterOf(b) \in Output /\ Port[WriterOf(b)] = b /\ b # 0
  BY WriterFacts, PlanAssumption, SMT DEF Buffer
<1>2. bound[WriterOf(b)] = Inner
  BY <1>1 DEF Wired, Output
<1> QED BY <1>1, <1>2 DEF BufferWritten, Outputs, ProducerOf

\* A stage reads a buffer whose producer runs before it.
LEMMA ReadAfterWrite ==
  ASSUME TypeOK, NEW s \in Stage, NEW t \in Inputs(s), bound[t] = Inner
  PROVE  Port[t] \in Buffer /\ ProducerOf(Port[t]) < s /\ ProducerOf(Port[t]) \in Stage
<1>1. t \in Input /\ t \in Tensor /\ StageOf[t] = s
  BY PlanAssumption DEF Inputs
<1>2. Port[t] # 0
  BY <1>1 DEF TypeOK
<1> QED BY <1>1, <1>2, PortFacts, WriterFacts, WiringAssumption DEF WellWired

\* Without aliases, a run leaves alone whatever any stage reads of the caller's.
LEMMA InputsSurvive ==
  ASSUME NoAlias, NEW s \in Stage, NEW t \in Input, bound[t] \in Mem
  PROVE  bound[t] \notin MemWritten(s)
<1> SUFFICES ASSUME bound[t] \in MemWritten(s) PROVE FALSE
  OBVIOUS
<1>1. PICK u \in Outputs(s) : bound[u] = bound[t]
  BY DEF MemWritten
<1>2. u \in Output /\ u \in Tensor /\ t \in Tensor /\ t # u
  BY <1>1, PlanAssumption DEF Outputs, Output
<1> QED BY <1>1, <1>2 DEF NoAlias

\* Without aliases, two stages write different memory.
LEMMA OutputsDisjoint ==
  ASSUME NoAlias, NEW r \in Stage, NEW s \in Stage, r # s, NEW m \in MemWritten(r)
  PROVE  m \notin MemWritten(s)
<1> SUFFICES ASSUME m \in MemWritten(s) PROVE FALSE
  OBVIOUS
<1>1. PICK t \in Outputs(r), u \in Outputs(s) : bound[t] = m /\ bound[u] = m
  BY DEF MemWritten
<1>2. /\ t \in Output /\ u \in Output /\ t \in Tensor /\ u \in Tensor /\ m \in Mem
      /\ StageOf[t] = r /\ StageOf[u] = s
  BY <1>1 DEF Outputs, Output, MemWritten
<1> QED BY <1>1, <1>2 DEF NoAlias

\* A stage computes the same from the same inputs.
LEMMA ComputedStable ==
  ASSUME TypeOK, NEW s \in Stage, UNCHANGED control,
         \A t \in Inputs(s) : bound[t] \in Mem => data'[bound[t]] = data[bound[t]],
         \A t \in Inputs(s) : bound[t] = Inner =>
           head'[Port[t]] = head[Port[t]] /\ tail'[Port[t]] = tail[Port[t]]
  PROVE  Computed(s)' = Computed(s)
<1>1. ASSUME NEW t \in Inputs(s)
      PROVE  Contents(t)' = Contents(t)
  <2>1. Wide(t)' <=> Wide(t)
    BY DEF Wide, Elements, Produced, RowsFor, control
  <2>2. CASE bound[t] \in Mem
    <3>1. bound' = bound
      BY DEF control
    <3>2. Contents(t) = data[bound[t]]
      BY <2>2, MemoryAssumption DEF Contents
    <3>3. Contents(t)' = data'[bound[t]]
      BY <2>2, <3>1, MemoryAssumption DEF Contents
    <3> QED BY <2>2, <3>2, <3>3
  <2>3. CASE bound[t] = Inner
    <3>1. bound'[t] = Inner /\ Inner \notin Mem
      BY <2>3, MemoryAssumption DEF control
    <3>2. Contents(t) = head[Port[t]] \cup (IF Wide(t) THEN tail[Port[t]] ELSE {})
      BY <2>3, <3>1 DEF Contents
    <3>3. Contents(t)' = head'[Port[t]] \cup (IF Wide(t)' THEN tail'[Port[t]] ELSE {})
      BY <3>1 DEF Contents
    <3> QED BY <2>1, <2>3, <3>2, <3>3
  <2>4. CASE bound[t] \notin Mem /\ bound[t] # Inner
    <3>1. bound' = bound
      BY DEF control
    <3> QED BY <2>4, <3>1 DEF Contents
  <2> QED BY <2>2, <2>3, <2>4
<1> QED BY <1>1 DEF Computed, Settled

----------------------------------------------------------------------------
(* The inductive invariant of the loop in infer()                          *)

\* The stage of buffer b has run in this call, and has been repeated.
Filled(b) == ProducerOf(b) < at \/ (ProducerOf(b) = at /\ phase = "repeat")
Spread(b) == ProducerOf(b) < at

\* infer() does not begin with a caller's tensor unbound, and none is unbound
\* while it runs.
NothingMissing == at # 0 => Missing = {}

\* Every buffer filled so far comes from what the caller's inputs hold now.
FilledFromCurrent ==
  (at # 0 /\ disabled = {} /\ Wired /\ NoAlias) =>
    \A b \in Buffer :
      /\ Filled(b) => head[b] \subseteq Current
      /\ Spread(b) /\ Repeated(b) => tail[b] \subseteq Current

\* Every stage run so far agrees with its inputs, as they are now.
Agrees(s) ==
  /\ \A m \in MemWritten(s) : data[m] = Computed(s)
  /\ \A b \in BufferWritten(s) : head[b] = Computed(s)
  /\ s < at => \A b \in BufferWritten(s) : Repeated(b) => tail[b] = Computed(s)

RunStagesAgree ==
  (at # 0 /\ NoAlias) =>
    \A s \in Stage \ disabled :
      s < at \/ (s = at /\ phase = "repeat") => Agrees(s)

SessionInv ==
  /\ TypeOK /\ BindingsFitTheGrid /\ NothingMissing
  /\ FilledFromCurrent /\ RunStagesAgree

\* Only four steps lead into the loop or on in it.
LEMMA LoopSteps ==
  ASSUME [Next]_vars, at' # 0
  PROVE  BeginInfer \/ SkipStage \/ RunStage \/ RepeatBuffers \/ UNCHANGED vars
BY DEF Next, InferStep, SetVoxelGrid, SetVoxelGridThrows, Bind, SetStageEnabled,
       Edit, RunThrows, RepeatThrows, Return

LEMMA MissingNext == NothingMissing /\ [Next]_vars => NothingMissing'
<1> SUFFICES ASSUME NothingMissing, [Next]_vars, at' # 0 PROVE Missing' = {}
  BY DEF NothingMissing
<1>1. ASSUME UNCHANGED control PROVE Missing' = Missing
  BY <1>1 DEF Missing, control
<1>2. CASE BeginInfer
  BY <1>1, <1>2 DEF BeginInfer
<1>3. ASSUME at # 0, UNCHANGED control PROVE Missing' = {}
  BY <1>1, <1>3 DEF NothingMissing
<1>4. 0 \notin Stage
  BY PlanAssumption, SMT DEF Stage
<1>5. CASE SkipStage \/ RunStage \/ RepeatBuffers
  BY <1>3, <1>4, <1>5 DEF SkipStage, RunStage, RepeatBuffers
<1>6. CASE UNCHANGED vars
  BY <1>3, <1>6 DEF vars, control
<1> QED BY <1>2, <1>5, <1>6, LoopSteps

\* What the stage of the loop reads comes from the caller's inputs as they are.
LEMMA ReadsCurrent ==
  ASSUME TypeOK, BindingsFitTheGrid, NothingMissing, FilledFromCurrent,
         at \in Stage, disabled = {}, Wired, NoAlias,
         NEW t \in Inputs(at)
  PROVE  Contents(t) \subseteq Current
<1>1. t \in Input /\ t \in Tensor /\ StageOf[t] = at /\ at # 0
  BY PlanAssumption, SMT DEF Inputs, Stage
<1>2. CASE bound[t] \in Mem
  <2>1. Contents(t) = data[bound[t]]
    BY <1>2, MemoryAssumption DEF Contents
  <2> QED BY <1>1, <1>2, <2>1 DEF Current
<1>3. CASE bound[t] = Inner
  <2>1. Port[t] \in Buffer /\ ProducerOf(Port[t]) < at
    BY <1>3, ReadAfterWrite
  <2>2. head[Port[t]] \subseteq Current
    BY <1>1, <2>1 DEF FilledFromCurrent, Filled
  <2>3. ASSUME Wide(t) PROVE tail[Port[t]] \subseteq Current
    <3>1. queries # 0 /\ size[Port[t]] >= Elements(t, queries)
      BY <1>1, <1>3 DEF BindingsFitTheGrid
    <3>2. queries \in QueryCounts
      BY <3>1 DEF TypeOK
    <3>3. /\ Elements(t, queries) \in Nat
          /\ Produced(Port[t], queries) \in Nat
          /\ size[Port[t]] \in Nat
      BY <1>1, <2>1, <3>2, ElementsNat, WriterFacts DEF Produced, TypeOK, Output
    <3>4. Repeated(Port[t])
      BY <2>3, <3>1, <3>3, SMT DEF Wide, Repeated
    <3> QED BY <1>1, <2>1, <3>4 DEF FilledFromCurrent, Spread
  <2>4. Contents(t) = head[Port[t]] \cup (IF Wide(t) THEN tail[Port[t]] ELSE {})
    BY <1>3, MemoryAssumption DEF Contents
  <2> QED BY <2>2, <2>3, <2>4
<1>4. CASE bound[t] = Unbound
  <2>1. CASE Port[t] = 0
    BY <1>1, <1>4, <2>1 DEF NothingMissing, Missing, CallerOwned
  <2>2. CASE Port[t] # 0
    BY <1>1, <1>4, <2>2 DEF Wired, Unbound, Inner
  <2> QED BY <2>1, <2>2
<1> QED BY <1>1, <1>2, <1>3, <1>4 DEF TypeOK

LEMMA FilledNext ==
  ASSUME TypeOK, BindingsFitTheGrid, NothingMissing, FilledFromCurrent, [Next]_vars
  PROVE  FilledFromCurrent'
<1> SUFFICES ASSUME at' # 0, disabled' = {}, Wired', NoAlias', NEW b \in Buffer
             PROVE  /\ Filled(b)' => head'[b] \subseteq Current'
                    /\ Spread(b)' /\ Repeated(b)' => tail'[b] \subseteq Current'
  BY DEF FilledFromCurrent
<1>1. ProducerOf(b) \in Stage
  BY WriterFacts
<1>2. 0 \notin Stage /\ Stage \subseteq Int /\ at \in Int /\ \A s \in Stage : ~(s < 1)
  BY PlanAssumption, SMT DEF Stage, TypeOK
<1>3. CASE BeginInfer
  BY <1>1, <1>2, <1>3 DEF BeginInfer, Filled, Spread
<1>4. ASSUME UNCHANGED control
      PROVE  /\ Wired /\ NoAlias /\ disabled = {}
             /\ Repeated(b)' <=> Repeated(b)
  BY <1>4 DEF control, Wired, NoAlias, Repeated, Produced, Elements, RowsFor
<1>5. ASSUME UNCHANGED <<control, data>>
      PROVE  Current' = Current
  BY <1>5 DEF control, Current
<1>6. CASE SkipStage
  BY <1>2, <1>4, <1>6 DEF SkipStage, Skipped
<1>7. CASE RunStage
  <2>1. /\ UNCHANGED control /\ at' = at /\ at \in Stage /\ tail' = tail
        /\ phase = "run" /\ phase' = "repeat"
        /\ data' = [m \in Mem |-> IF m \in MemWritten(at) THEN Computed(at) ELSE data[m]]
        /\ head' = [c \in Buffer |-> IF c \in BufferWritten(at) THEN Computed(at) ELSE head[c]]
    BY <1>7 DEF RunStage
  <2>2. Current' = Current
    <3>1. ASSUME NEW t \in Input, bound[t] \in Mem
          PROVE  data'[bound[t]] = data[bound[t]]
      BY <1>4, <2>1, <3>1, InputsSurvive
    <3> QED BY <2>1, <3>1 DEF Current, control
  <2>3. Computed(at) \subseteq Current
    BY <1>4, <2>1, ReadsCurrent, ComputedAtoms
  <2>4. CASE ProducerOf(b) = at
    BY <1>2, <1>4, <2>1, <2>2, <2>3, <2>4, ProducerWrites, SMT DEF Spread
  <2>5. CASE ProducerOf(b) # at
    <3>1. head'[b] = head[b]
      BY <2>1, <2>5, WrittenByProducer
    <3> QED BY <1>2, <1>4, <2>1, <2>2, <2>5, <3>1 DEF FilledFromCurrent, Filled, Spread
  <2> QED BY <2>4, <2>5
<1>8. CASE RepeatBuffers
  <2>1. /\ UNCHANGED control /\ at' = at + 1 /\ at \in Stage /\ head' = head
        /\ phase = "repeat" /\ phase' = "run"
        /\ tail' = [c \in Buffer |-> IF c \in ToRepeat(at) THEN head[c] ELSE tail[c]]
        /\ Current' = Current
    BY <1>5, <1>8 DEF RepeatBuffers
  <2>2. CASE ProducerOf(b) = at
    <3>1. head[b] \subseteq Current
      BY <1>2, <1>4, <2>1, <2>2 DEF FilledFromCurrent, Filled
    <3>2. Repeated(b) => tail'[b] = head[b]
      BY <2>1, <2>2 DEF ToRepeat
    <3> QED BY <1>4, <2>1, <3>1, <3>2
  <2>3. CASE ProducerOf(b) # at
    <3>1. tail'[b] = tail[b]
      BY <2>1, <2>3 DEF ToRepeat
    <3>2. /\ Filled(b)' => Filled(b)
          /\ Spread(b)' => Spread(b)
      <4>1. ProducerOf(b) \in Int /\ at \in Int /\ at' = at + 1
        BY <1>1, <1>2, <2>1
      <4>2. ProducerOf(b) < at' => ProducerOf(b) < at
        BY <2>3, <4>1, LessThanNext
      <4>3. phase' # "repeat"
        BY <2>1
      <4> QED BY <4>2, <4>3 DEF Filled, Spread
    <3> QED BY <1>2, <1>4, <2>1, <3>1, <3>2 DEF FilledFromCurrent
  <2> QED BY <2>2, <2>3
<1>9. CASE UNCHANGED vars
  <2>1. UNCHANGED <<control, data>> /\ UNCHANGED <<at, phase, head, tail>>
    BY <1>9 DEF vars, control
  <2> QED BY <1>4, <1>5, <2>1 DEF FilledFromCurrent, Filled, Spread
<1> QED BY <1>3, <1>6, <1>7, <1>8, <1>9, LoopSteps

----------------------------------------------------------------------------
(* Agreement of what was written with what was read                        *)

\* A run of stage a disturbs neither what a stage up to a reads nor, if it is
\* not a itself, what that stage wrote.
LEMMA RunKeepsInputs ==
  ASSUME TypeOK, NoAlias, RunStage, NEW s \in Stage, s <= at
  PROVE  Computed(s)' = Computed(s)
<1>1. /\ UNCHANGED control /\ at \in Stage /\ tail' = tail
      /\ data' = [m \in Mem |-> IF m \in MemWritten(at) THEN Computed(at) ELSE data[m]]
      /\ head' = [c \in Buffer |-> IF c \in BufferWritten(at) THEN Computed(at) ELSE head[c]]
  BY DEF RunStage
<1>2. ASSUME NEW t \in Inputs(s), bound[t] \in Mem
      PROVE  data'[bound[t]] = data[bound[t]]
  BY <1>1, <1>2, InputsSurvive DEF Inputs
<1>3. ASSUME NEW t \in Inputs(s), bound[t] = Inner
      PROVE  head'[Port[t]] = head[Port[t]] /\ tail'[Port[t]] = tail[Port[t]]
  <2>1. Port[t] \in Buffer /\ ProducerOf(Port[t]) < s /\ ProducerOf(Port[t]) \in Stage
    BY <1>3, ReadAfterWrite
  <2>2. ProducerOf(Port[t]) # at
    BY <1>1, <2>1, SMT DEF Stage
  <2> QED BY <1>1, <2>1, <2>2, WrittenByProducer
<1> QED BY <1>1, <1>2, <1>3, ComputedStable

LEMMA AgreeNext ==
  ASSUME TypeOK, RunStagesAgree, [Next]_vars
  PROVE  RunStagesAgree'
<1> SUFFICES ASSUME at' # 0, NoAlias', NEW s \in Stage, s \notin disabled',
                    s < at' \/ (s = at' /\ phase' = "repeat")
             PROVE  Agrees(s)'
  BY DEF RunStagesAgree
<1>1. 0 \notin Stage /\ Stage \subseteq Int /\ at \in Int /\ \A r \in Stage : ~(r < 1)
  BY PlanAssumption, SMT DEF Stage, TypeOK
<1>2. CASE BeginInfer
  BY <1>1, <1>2 DEF BeginInfer
<1>3. ASSUME UNCHANGED control
      PROVE  /\ NoAlias /\ s \notin disabled
             /\ MemWritten(s)' = MemWritten(s) /\ BufferWritten(s)' = BufferWritten(s)
             /\ \A b \in Buffer : Repeated(b)' <=> Repeated(b)
  BY <1>3 DEF control, NoAlias, MemWritten, BufferWritten, Repeated, Produced, Elements, RowsFor
<1>4. \A b \in BufferWritten(s) : b \in Buffer /\ ProducerOf(b) = s
  BY WrittenByProducer
<1>5. CASE SkipStage
  <2>1. /\ UNCHANGED control /\ UNCHANGED <<data, head, tail>>
        /\ at \in disabled /\ at \in Stage /\ at' = at + 1 /\ phase' = "run"
    BY <1>5 DEF SkipStage, Skipped
  <2>2. s < at
    BY <1>1, <1>3, <2>1, LessThanNext
  <2>3. Agrees(s)
    BY <1>1, <1>3, <2>1, <2>2 DEF RunStagesAgree
  <2>4. Computed(s)' = Computed(s)
    BY <2>1, ComputedStable
  <2> QED BY <1>3, <1>4, <2>1, <2>2, <2>3, <2>4 DEF Agrees
<1>6. CASE RunStage
  <2>1. /\ UNCHANGED control /\ at \in Stage /\ at' = at /\ tail' = tail
        /\ data' = [m \in Mem |-> IF m \in MemWritten(at) THEN Computed(at) ELSE data[m]]
        /\ head' = [c \in Buffer |-> IF c \in BufferWritten(at) THEN Computed(at) ELSE head[c]]
    BY <1>6 DEF RunStage
  <2>2. s <= at
    BY <1>1, <2>1, SMT
  <2>3. Computed(s)' = Computed(s)
    BY <1>3, <1>6, <2>1, <2>2, RunKeepsInputs
  <2>4. MemWritten(s) \subseteq Mem
    BY DEF MemWritten
  <2>5. CASE s = at
    <3>1. ~(s < at')
      BY <1>1, <2>1, <2>5, SMT
    <3>2. \A m \in MemWritten(s) : data'[m] = Computed(s)
      BY <2>1, <2>4, <2>5
    <3>3. \A b \in BufferWritten(s) : head'[b] = Computed(s)
      BY <1>4, <2>1, <2>5
    <3> QED BY <1>3, <2>1, <2>3, <3>1, <3>2, <3>3 DEF Agrees
  <2>6. CASE s # at
    <3>1. s < at /\ at # 0
      BY <1>1, <2>1, <2>2, <2>6, SMT
    <3>2. Agrees(s)
      BY <1>3, <2>1, <3>1 DEF RunStagesAgree
    <3>3. \A m \in MemWritten(s) : data'[m] = data[m]
      BY <1>3, <2>1, <2>4, <2>6, OutputsDisjoint
    <3>4. \A b \in BufferWritten(s) : head'[b] = head[b]
      BY <1>4, <2>1, <2>6, WrittenByProducer
    <3> QED BY <1>3, <1>4, <2>1, <2>3, <3>1, <3>2, <3>3, <3>4 DEF Agrees
  <2> QED BY <2>5, <2>6
<1>7. CASE RepeatBuffers
  <2>1. /\ UNCHANGED control /\ at \in Stage /\ at' = at + 1 /\ phase = "repeat"
        /\ phase' = "run" /\ data' = data /\ head' = head
        /\ tail' = [c \in Buffer |-> IF c \in ToRepeat(at) THEN head[c] ELSE tail[c]]
    BY <1>7 DEF RepeatBuffers, control
  <2>2. s < at \/ s = at
    BY <1>1, <2>1, LessThanNext
  <2>3. Agrees(s) /\ at # 0
    BY <1>1, <1>3, <2>1, <2>2 DEF RunStagesAgree
  <2>4. ASSUME NEW t \in Inputs(s), bound[t] = Inner
        PROVE  tail'[Port[t]] = tail[Port[t]]
    <3>1. Port[t] \in Buffer /\ ProducerOf(Port[t]) < s /\ ProducerOf(Port[t]) \in Stage
      BY <2>4, ReadAfterWrite
    <3>2. ProducerOf(Port[t]) # at
      BY <1>1, <2>1, <2>2, <3>1, SMT
    <3> QED BY <2>1, <3>1, <3>2 DEF ToRepeat
  <2>5. Computed(s)' = Computed(s)
    BY <2>1, <2>4, ComputedStable
  <2>6. ASSUME NEW b \in BufferWritten(s), Repeated(b)
        PROVE  tail'[b] = Computed(s)
    <3>1. b \in Buffer /\ ProducerOf(b) = s
      BY <1>4
    <3>2. CASE s = at
      <4>1. tail'[b] = head[b]
        BY <2>1, <2>6, <3>1, <3>2 DEF ToRepeat
      <4> QED BY <2>3, <4>1 DEF Agrees
    <3>3. CASE s # at
      <4>1. tail'[b] = tail[b]
        BY <2>1, <3>1, <3>3 DEF ToRepeat
      <4> QED BY <2>2, <2>3, <2>6, <3>3, <4>1 DEF Agrees
    <3> QED BY <3>2, <3>3
  <2> QED BY <1>3, <1>4, <2>1, <2>3, <2>5, <2>6 DEF Agrees
<1>8. CASE UNCHANGED vars
  <2>1. UNCHANGED control /\ UNCHANGED <<at, phase, data, head, tail>>
    BY <1>8 DEF vars, control
  <2>2. Agrees(s)
    BY <1>3, <2>1 DEF RunStagesAgree
  <2>3. Computed(s)' = Computed(s)
    BY <2>1, ComputedStable
  <2> QED BY <1>3, <1>4, <2>1, <2>2, <2>3 DEF Agrees
<1> QED BY <1>2, <1>5, <1>6, <1>7, <1>8, LoopSteps

----------------------------------------------------------------------------
(* The theorems                                                            *)

LEMMA InvInit == Init => SessionInv
BY TypeInit, FitInit
DEF Init, SessionInv, NothingMissing, FilledFromCurrent, RunStagesAgree

LEMMA InvNext == SessionInv /\ [Next]_vars => SessionInv'
BY TypeNext, FitNext, MissingNext, FilledNext, AgreeNext DEF SessionInv

THEOREM SessionCorrect == Spec => []SessionInv
BY InvInit, InvNext, PTL DEF Spec

\* With every stage enabled no stage ever reads anything stale.
THEOREM NeverStale == Spec => []NothingStale
<1>1. SessionInv => NothingStale
  <2> SUFFICES ASSUME SessionInv, at \in Stage, disabled = {}, Wired, NoAlias,
                      NEW t \in Inputs(at)
               PROVE  Contents(t) \subseteq Current
    BY DEF NothingStale
  <2> QED BY ReadsCurrent DEF SessionInv
<1> QED BY <1>1, SessionCorrect, PTL

\* When infer() returns, every stage that ran agrees with its inputs.
THEOREM AlwaysAgrees == Spec => []OutputsAgreeWithInputs
<1>1. SessionInv => OutputsAgreeWithInputs
  <2> SUFFICES ASSUME SessionInv, at = NumStages + 1, NoAlias,
                      NEW s \in Stage, s \notin disabled
               PROVE  /\ \A m \in MemWritten(s) : data[m] = Computed(s)
                      /\ \A b \in BufferWritten(s) :
                           head[b] = Computed(s) /\ (Repeated(b) => tail[b] = Computed(s))
    BY DEF OutputsAgreeWithInputs
  <2>1. s < at /\ at # 0
    BY PlanAssumption, SMT DEF Stage
  <2> QED BY <2>1 DEF SessionInv, RunStagesAgree, Agrees
<1> QED BY <1>1, SessionCorrect, PTL

\* What a skipped stage left in its buffers stays there through every infer().
THEOREM SkippedKept == Spec => SkippedStageKeepsItsBuffers
<1> DEFINE Kept == \A b \in Buffer :
                     at # 0 /\ ProducerOf(b) \in disabled
                       => head'[b] = head[b] /\ tail'[b] = tail[b]
<1>1. TypeOK /\ [Next]_vars => [Kept]_vars
  <2> SUFFICES ASSUME TypeOK, Next, NEW b \in Buffer, at # 0, ProducerOf(b) \in disabled
               PROVE  head'[b] = head[b] /\ tail'[b] = tail[b]
    OBVIOUS
  <2>1. InferStep
    BY DEF Next, SetVoxelGrid, SetVoxelGridThrows, Bind, SetStageEnabled, Edit, BeginInfer
  <2>2. CASE SkipStage \/ Return
    BY <2>2 DEF SkipStage, Return
  <2>3. CASE RunStage
    <3>1. at \in Stage /\ b \notin BufferWritten(at)
      BY <2>3, WrittenByProducer DEF RunStage, Skipped
    <3> QED BY <2>3, <3>1 DEF RunStage, TypeOK
  <2>4. CASE RunThrows
    <3>1. at \in Stage /\ b \notin BufferWritten(at)
      BY <2>4, WrittenByProducer DEF RunThrows, Skipped
    <3> QED BY <2>4, <3>1 DEF RunThrows, TypeOK
  <2>5. CASE RepeatBuffers
    <3>1. b \notin ToRepeat(at)
      BY <2>5 DEF RepeatBuffers, ToRepeat, TypeOK
    <3> QED BY <2>5, <3>1 DEF RepeatBuffers
  <2>6. CASE \E c \in Buffer : RepeatThrows(c)
    <3>1. PICK c \in Buffer : RepeatThrows(c)
      BY <2>6
    <3>2. b \notin ToRepeat(at) /\ b # c
      BY <3>1 DEF RepeatThrows, ToRepeat, TypeOK
    <3> QED BY <3>1, <3>2 DEF RepeatThrows
  <2> QED BY <2>1, <2>2, <2>3, <2>4, <2>5, <2>6 DEF InferStep
<1> QED BY <1>1, TypeCorrect, PTL DEF Spec, SkippedStageKeepsItsBuffers

\* The steps infer() may still take: a stage's run and its repeats, and the
\* return.
Ahead == IF at = 0 THEN 0 ELSE 2 * (NumStages + 1 - at) + (IF phase = "run" THEN 1 ELSE 0)

\* infer() never turns back: whichever stages are skipped, fail or are repeated,
\* no other call comes between and each of its steps leaves fewer to take, out
\* of at most 2 * NumStages + 1 (onnx.cpp:387-406).
THEOREM InferGetsOn ==
  Spec => []( Ahead \in 0..2 * NumStages + 1 ) /\ [][at # 0 => InferStep /\ Ahead' < Ahead]_vars
<1> DEFINE GetsOn == at # 0 => InferStep /\ Ahead' < Ahead
<1>1. ASSUME TypeOK
      PROVE  /\ Ahead \in 0..2 * NumStages + 1
             /\ at # 0 => at \in 1..NumStages + 1 /\ Ahead >= 1
             /\ at \in Stage => Ahead >= 2
  BY <1>1, PlanAssumption, SMT DEF Ahead, TypeOK, Stage
<1>2. TypeOK /\ [Next]_vars => [GetsOn]_vars
  <2> SUFFICES ASSUME TypeOK, Next, at # 0 PROVE InferStep /\ Ahead' < Ahead
    OBVIOUS
  <2>1. InferStep
    BY DEF Next, SetVoxelGrid, SetVoxelGridThrows, Bind, SetStageEnabled, Edit, BeginInfer
  <2>2. at \in 1..NumStages + 1 /\ Ahead >= 1 /\ NumStages \in Nat /\ phase \in {"run", "repeat"}
    BY <1>1, PlanAssumption DEF TypeOK
  <2>3. CASE at' = 0
    BY <1>1, <2>1, <2>2, <2>3, SMT DEF Ahead
  <2>4. CASE SkipStage \/ RepeatBuffers
    <3>1. at' = at + 1 /\ phase' = "run"
      BY <2>4 DEF SkipStage, RepeatBuffers
    <3>2. Ahead' = 2 * (NumStages + 1 - (at + 1)) + 1
      BY <2>2, <3>1, SMT DEF Ahead
    <3>3. Ahead >= 2 * (NumStages + 1 - at)
      BY <2>2, SMT DEF Ahead
    <3>4. Ahead \in Nat
      BY <1>1
    <3> QED BY <2>1, <2>2, <3>2, <3>3, <3>4, SMT
  <2>5. CASE RunStage
    <3>1. at' = at /\ phase = "run" /\ phase' = "repeat"
      BY <2>5 DEF RunStage, control
    <3>2. Ahead = 2 * (NumStages + 1 - at) + 1 /\ Ahead' = 2 * (NumStages + 1 - at)
      BY <2>2, <3>1, SMT DEF Ahead
    <3> QED BY <2>1, <2>2, <3>2, SMT
  <2>6. RunThrows \/ Return \/ (\E b \in Buffer : RepeatThrows(b)) => at' = 0
    BY DEF RunThrows, Return, RepeatThrows
  <2> QED BY <2>1, <2>3, <2>4, <2>5, <2>6 DEF InferStep
<1>3. TypeOK => Ahead \in 0..2 * NumStages + 1
  BY <1>1
<1> QED BY <1>2, <1>3, TypeCorrect, PTL DEF Spec

=============================================================================
