------------------------------ MODULE Session ------------------------------
(***************************************************************************)
(* One inference session: `OrtSession` of src/src/backends/onnx.cpp and    *)
(* the two kinds of stage it drives, `GraphStage` (onnx.cpp) and           *)
(* `KernelStage` (src/src/backends/cuda.cpp).                              *)
(*                                                                         *)
(* A session runs a recorded sequence of stages.  Some of a stage's        *)
(* tensors are bound by the caller, the others are attached to buffers the *)
(* composition declares, which the session allocates when a grid is        *)
(* chosen.  A call is made when `at' is 0; infer() is the one call that    *)
(* takes several steps, so that a stage can fail between two others.       *)
(*                                                                         *)
(* What memory holds is abstracted to where it came from: a value is the   *)
(* set of caller contents it was computed from, each named by the memory   *)
(* and its edition.  A run of a stage writes the union of what it read.    *)
(***************************************************************************)
EXTENDS Wiring

CONSTANTS
  Once,         \* the stages that run once per field, not once per query
  Kernel,       \* the stages that are compiled code; the others are graphs
  Declared,     \* [Buffer -> elements per row]
  NameOf,       \* [Tensor -> the name a caller binds it by]
  Per,          \* [Tensor -> elements], per row if the tensor has a batch axis
  Batched,      \* the tensors with a batch axis
  Switchable,   \* the stages a caller switches off and on (bound)
  QueryCounts,  \* the query counts a caller asks for
  Ref,          \* the references a caller binds
  Reported,     \* [Ref -> the device it reports, or Unknown]
  View,         \* [Ref -> the memory adopt() makes of it, or NoPath]
  NoPath,
  Mem,          \* the allocations callers own
  Holds,        \* [Mem -> its capacity in elements]
  Here,         \* the device of this session
  Unknown,
  MaxEdits      \* [Mem -> how often its owner rewrites it] (bound)

Unbound == "unbound"
Inner   == "inner"       \* bound to the buffer the tensor is attached to

(***************************************************************************)
(* The constants are those of a package Composition::validate accepts:     *)
(* one writer per buffer, at least one reader, every read after its write. *)
(***************************************************************************)
ASSUME PlanAssumption ==
  /\ NumStages \in Nat \ {0} /\ NumBuffers \in Nat
  /\ Once \subseteq Stage /\ Kernel \subseteq Stage /\ Switchable \subseteq Stage
  /\ Declared \in [Buffer -> Nat \ {0}]
  /\ StageOf \in [Tensor -> Stage] /\ Input \subseteq Tensor
  /\ Port \in [Tensor -> 0..NumBuffers]
  /\ Per \in [Tensor -> Nat \ {0}] /\ Batched \subseteq Tensor

ASSUME WiringAssumption == WellWired

\* A kernel declares no tensors of its own: its arguments are its ports.
ASSUME KernelAssumption ==
  \A t \in Tensor : StageOf[t] \in Kernel =>
    Port[t] # 0 /\ t \in Batched /\ Per[t] = Declared[Port[t]]

ASSUME MemoryAssumption ==
  /\ QueryCounts \subseteq Nat \ {0} /\ MaxEdits \in [Mem -> Nat]
  /\ View \in [Ref -> Mem \cup {NoPath}] /\ NoPath \notin Mem
  /\ Unbound \notin Mem /\ Inner \notin Mem
  /\ Holds \in [Mem -> Nat]

VARIABLES
  queries,   \* queries_: 0 until a grid is chosen
  size,      \* [Buffer -> elements allocated, 0 for none]: buffers_
  bound,     \* [Tensor -> what the stage reads or writes there]
  disabled,  \* disabled_
  at,        \* 0 between calls; in infer(), the stage of the loop
  phase,     \* "run", or "repeat" once the stage has run
  data,      \* [Mem -> its contents]
  head,      \* [Buffer -> the part one run of its writer fills]
  tail,      \* [Buffer -> the repeats of that part]
  edits      \* [Mem -> how often the caller rewrote it]

control == <<queries, size, bound, disabled>>
vars == <<queries, size, bound, disabled, at, phase, data, head, tail, edits>>

----------------------------------------------------------------------------
(* Contents                                                                *)

Fresh   == <<"fresh", 0>>     \* an allocation nothing has written yet
Garbled == <<"garbled", 0>>   \* what a run that failed left behind
Edition == Mem \X Nat
Atom    == Edition \cup {Fresh, Garbled}

----------------------------------------------------------------------------
(* Sizes                                                                   *)

\* Stage::rows_for: a stage that runs once has one row whatever the grid.
RowsFor(s, q) == IF s \in Once THEN 1 ELSE q

\* get_elements: the tensor's own shape with its batch axis resolved.
Elements(t, q) == IF t \in Batched THEN Per[t] * RowsFor(StageOf[t], q) ELSE Per[t]

Produced(b, q) == Elements(WriterOf(b), q)
PortSizes(b, q) == {Elements(t, q) : t \in Readers(b) \cup {WriterOf(b)}}
Widest(b, q) == CHOOSE n \in PortSizes(b, q) : \A m \in PortSizes(b, q) : m <= n

\* A buffer has finitely many ports, so one of them is the widest.
ASSUME WidestAssumption ==
  \A b \in Buffer, q \in QueryCounts :
    \E n \in PortSizes(b, q) : \A m \in PortSizes(b, q) : m <= n

\* What allocate_buffers requires of the stages before it allocates buffer b.
Honourable(b, q) ==
  /\ Produced(b, q) = Declared[b] * RowsFor(ProducerOf(b), q)
  /\ \A t \in Readers(b) : Elements(t, q) % Produced(b, q) = 0
  /\ Widest(b, q) > Produced(b, q) => ProducerOf(b) \in Once

\* A reader larger than what one run produces reads the repeats as well.
Repeated(b) == size[b] > Produced(b, queries)
Wide(t)     == Elements(t, queries) > Produced(Port[t], queries)

----------------------------------------------------------------------------
(* What a stage reads                                                      *)

\* What a stage finds behind one of its input tensors.
Contents(t) ==
  CASE bound[t] \in Mem  -> data[bound[t]]
    [] bound[t] = Inner  -> head[Port[t]] \cup (IF Wide(t) THEN tail[Port[t]] ELSE {})
    [] OTHER             -> {Fresh}

\* What is computed from memory without a value has none itself.
Settled(v) == CASE Garbled \in v -> {Garbled}
                [] Fresh \in v   -> {Fresh}
                [] OTHER         -> v

Computed(s) == Settled(UNION {Contents(t) : t \in Inputs(s)})

\* Where stage s writes: caller memory and buffers.
MemWritten(s)    == {bound[t] : t \in Outputs(s)} \cap Mem
BufferWritten(s) == {Port[t] : t \in {u \in Outputs(s) : bound[u] = Inner}}

----------------------------------------------------------------------------
(* Calls                                                                   *)

Init ==
  /\ queries = 0
  /\ size = [b \in Buffer |-> 0]
  /\ bound = [t \in Tensor |-> Unbound]
  /\ disabled = {}
  /\ at = 0 /\ phase = "run"
  /\ data = [m \in Mem |-> {<<m, 0>>}]
  /\ head = [b \in Buffer |-> {Fresh}]
  /\ tail = [b \in Buffer |-> {Fresh}]
  /\ edits = [m \in Mem |-> 0]

\* Stage::set_rows, on every stage, and the binding half of allocate_buffers.
\* Mutant: a caller's bindings survive the change of grid.
BindingsKept == [t \in Tensor |-> IF Port[t] = 0 THEN bound[t] ELSE Inner]
BindingsOfNewGrid == [t \in Tensor |-> IF Port[t] = 0 THEN Unbound ELSE Inner]

\* set_voxel_grid: the grid, the row counts, then the buffers.
SetVoxelGrid(q) ==
  /\ at = 0
  /\ \A b \in Buffer : Honourable(b, q)
  /\ queries' = q
  /\ size' = [b \in Buffer |-> Widest(b, q)]
  /\ head' = [b \in Buffer |-> {Fresh}]
  /\ tail' = [b \in Buffer |-> {Fresh}]
  /\ bound' = BindingsOfNewGrid
  /\ UNCHANGED <<disabled, at, phase, data, edits>>

\* set_voxel_grid throwing in allocate_buffers, with the first k buffers made:
\* the next one cannot be honoured, or there is no memory for it.  The grid is
\* already chosen, every binding is already dropped and none of them is made.
SetVoxelGridThrows(q, k) ==
  /\ at = 0
  /\ k < NumBuffers
  /\ \A b \in 1..k : Honourable(b, q)
  /\ queries' = q
  /\ size' = [b \in Buffer |-> IF b <= k THEN Widest(b, q) ELSE 0]
  /\ head' = [b \in Buffer |-> {Fresh}]
  /\ tail' = [b \in Buffer |-> {Fresh}]
  /\ bound' = [t \in Tensor |-> Unbound]
  /\ UNCHANGED <<disabled, at, phase, data, edits>>

\* stage_declaring: the caller's tensors of that name, on that side.
\* Mutant: a tensor the composition supplies is a candidate too.
AnyOfThatName(name, side) == {t \in side : NameOf[t] = name}
Candidates(name, side) == {t \in side \cap CallerOwned : NameOf[t] = name}

\* GraphStage::bind: capacity is checked in elements.
FitsTensor(m, t) == Holds[m] >= Elements(t, queries)

\* bind: the device the reference reports, adopt, the tensor, the capacity.
Bind(name, side, ref) ==
  /\ at = 0
  /\ queries # 0
  /\ Reported[ref] \in {Here, Unknown}
  /\ View[ref] # NoPath
  /\ \E t \in Candidates(name, side) :
       /\ Candidates(name, side) = {t}
       /\ FitsTensor(View[ref], t)
       /\ bound' = [bound EXCEPT ![t] = View[ref]]
  /\ UNCHANGED <<queries, size, disabled, at, phase, data, head, tail, edits>>

SetStageEnabled(s, enabled) ==
  /\ at = 0
  /\ disabled' = IF enabled THEN disabled \ {s} ELSE disabled \cup {s}
  /\ UNCHANGED <<queries, size, bound, at, phase, data, head, tail, edits>>

\* The caller rewrites memory it owns, bound or not, between two calls.
Edit(m) ==
  /\ at = 0
  /\ edits[m] < MaxEdits[m]
  /\ edits' = [edits EXCEPT ![m] = @ + 1]
  /\ data' = [data EXCEPT ![m] = {<<m, edits[m] + 1>>}]
  /\ UNCHANGED <<control, at, phase, head, tail>>

----------------------------------------------------------------------------
(* infer()                                                                 *)

\* Every tensor the caller owes, of every stage, a disabled one included.
Missing == {t \in CallerOwned : bound[t] = Unbound}

BeginInfer ==
  /\ at = 0
  /\ queries # 0
  /\ Missing = {}
  /\ at' = 1 /\ phase' = "run"
  /\ UNCHANGED <<control, data, head, tail, edits>>

\* Mutants: the switch is ignored; a stage that runs once is never run again.
NeverSkipped(s) == FALSE
OnceIsCached(s) ==
  s \in disabled \/ (s \in Once /\ \A b \in BufferWritten(s) : Fresh \notin head[b])
Skipped(s) == s \in disabled

SkipStage ==
  /\ at \in Stage /\ phase = "run"
  /\ Skipped(at)
  /\ at' = at + 1
  /\ UNCHANGED <<control, phase, data, head, tail, edits>>

\* Stage::run.  A kernel refuses to launch with anything unbound; what a graph
\* does about a tensor it was given nothing for is ONNX Runtime's to decide.
RunStage ==
  /\ at \in Stage /\ phase = "run"
  /\ ~Skipped(at)
  /\ at \in Kernel => \A t \in Tensor : StageOf[t] = at => bound[t] # Unbound
  /\ data' = [m \in Mem |-> IF m \in MemWritten(at) THEN Computed(at) ELSE data[m]]
  /\ head' = [b \in Buffer |-> IF b \in BufferWritten(at) THEN Computed(at) ELSE head[b]]
  /\ phase' = "repeat"
  /\ UNCHANGED <<control, at, tail, edits>>

\* Stage::run throwing: before it wrote anything, or part of the way through.
RunThrows ==
  /\ at \in Stage /\ phase = "run"
  /\ ~Skipped(at)
  /\ \/ UNCHANGED <<data, head>>
     \/ /\ data' = [m \in Mem |-> IF m \in MemWritten(at) THEN {Garbled} ELSE data[m]]
        /\ head' = [b \in Buffer |-> IF b \in BufferWritten(at) THEN {Garbled} ELSE head[b]]
  /\ at' = 0 /\ phase' = "run"
  /\ UNCHANGED <<control, tail, edits>>

\* SharedBuffer::repeat for each buffer the stage writes that is larger than a run.
\* Mutant: a buffer is never repeated.
NothingToRepeat(s) == {}
ToRepeat(s) == {b \in Buffer : ProducerOf(b) = s /\ Repeated(b)}

RepeatBuffers ==
  /\ at \in Stage /\ phase = "repeat"
  /\ tail' = [b \in Buffer |-> IF b \in ToRepeat(at) THEN head[b] ELSE tail[b]]
  /\ at' = at + 1 /\ phase' = "run"
  /\ UNCHANGED <<control, data, head, edits>>

\* A copy fails: the buffers before b are repeated, b in part, the others not.
RepeatThrows(b) ==
  /\ at \in Stage /\ phase = "repeat"
  /\ b \in ToRepeat(at)
  /\ tail' = [c \in Buffer |-> CASE c \in ToRepeat(at) /\ c < b -> head[c]
                                [] c = b                     -> {Garbled}
                                [] OTHER                     -> tail[c]]
  /\ at' = 0 /\ phase' = "run"
  /\ UNCHANGED <<control, data, head, edits>>

Return ==
  /\ at = NumStages + 1
  /\ at' = 0
  /\ UNCHANGED <<control, phase, data, head, tail, edits>>

----------------------------------------------------------------------------

InferStep ==
  \/ SkipStage \/ RunStage \/ RunThrows \/ RepeatBuffers \/ Return
  \/ \E b \in Buffer : RepeatThrows(b)

Next ==
  \/ \E q \in QueryCounts : SetVoxelGrid(q)
  \/ \E q \in QueryCounts, k \in 0..NumBuffers : SetVoxelGridThrows(q, k)
  \/ \E t \in Tensor, side \in {Input, Output}, ref \in Ref : Bind(NameOf[t], side, ref)
  \/ \E s \in Switchable, enabled \in BOOLEAN : SetStageEnabled(s, enabled)
  \/ \E m \in Mem : Edit(m)
  \/ BeginInfer
  \/ InferStep

Spec == Init /\ [][Next]_vars

----------------------------------------------------------------------------
(* Properties                                                              *)

\* Types, and the split bind and allocate_buffers keep between them: what the
\* caller owes is never attached to a buffer, what the composition supplies is
\* never bound to the caller's memory (stage_declaring, onnx.cpp:607-609).
TypeOK ==
  /\ queries \in QueryCounts \cup {0}
  /\ size \in [Buffer -> Nat]
  /\ bound \in [Tensor -> Mem \cup {Unbound, Inner}]
  /\ \A t \in Tensor : bound[t] = Inner => Port[t] # 0
  /\ \A t \in Tensor : bound[t] \in Mem => Port[t] = 0
  /\ disabled \subseteq Stage
  /\ at \in 0..NumStages + 1
  /\ phase \in {"run", "repeat"}
  /\ phase = "repeat" => at \in Stage \ disabled
  /\ data \in [Mem -> SUBSET Atom]
  /\ head \in [Buffer -> SUBSET Atom]
  /\ tail \in [Buffer -> SUBSET Atom]
  /\ edits \in [Mem -> Nat]

\* Whatever is bound is large enough for the grid that is chosen now, not for
\* the one it was bound under: set_rows drops the bindings of the old grid
\* (onnx.cpp:153-161), bind checks the capacity in elements (:174-181) and a
\* buffer is as large as the widest tensor attached to it (:687-715).
BindingsFitTheGrid ==
  \A t \in Tensor :
    /\ bound[t] \in Mem => queries # 0 /\ Holds[bound[t]] >= Elements(t, queries)
    /\ bound[t] = Inner => queries # 0 /\ size[Port[t]] >= Elements(t, queries)

\* set_voxel_grid returned: every attached tensor has its buffer.
Wired == \A t \in Tensor : Port[t] # 0 => bound[t] = Inner

\* No caller memory a stage writes is bound anywhere else.
NoAlias ==
  \A t \in Output, u \in Tensor :
    bound[t] \in Mem /\ bound[u] = bound[t] => u = t

\* What the caller's inputs hold at this moment.
Current == UNION {data[bound[t]] : t \in {u \in Input : bound[u] \in Mem}}

\* With every stage enabled, whatever a stage is about to read was computed in
\* this infer() from what the caller's inputs hold now: never from an earlier
\* run, an earlier edition of an input, an earlier grid or memory nothing wrote
\* (R-I1, in-place edits; the ordering rule of composition.cpp:306-314; the
\* repeats of onnx.cpp:252-270).
NothingStale ==
  (at \in Stage /\ phase = "run" /\ disabled = {} /\ Wired /\ NoAlias) =>
    \A t \in Inputs(at) : Contents(t) \subseteq Current

\* When infer() returns, every stage that was not skipped stands in its
\* relation to its inputs: all it wrote, the repeats included, is what one run
\* makes of what its inputs hold still.  A skipped stage contributes what its
\* buffer holds, and no later stage has disturbed an earlier one's result.
OutputsAgreeWithInputs ==
  (at = NumStages + 1 /\ NoAlias) =>
    \A s \in Stage \ disabled :
      /\ \A m \in MemWritten(s) : data[m] = Computed(s)
      /\ \A b \in BufferWritten(s) :
           head[b] = Computed(s) /\ (Repeated(b) => tail[b] = Computed(s))

\* A skipped stage's buffers are left exactly as the last run left them, for as
\* long as the grid stands (session.hpp:175-178): other stages run, fail and
\* repeat around them.
SkippedStageKeepsItsBuffers ==
  [][ \A b \in Buffer :
        at # 0 /\ ProducerOf(b) \in disabled
          => head'[b] = head[b] /\ tail'[b] = tail[b] ]_vars

=============================================================================
