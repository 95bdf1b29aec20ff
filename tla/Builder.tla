------------------------------ MODULE Builder ------------------------------
(***************************************************************************)
(* A package from its producer to a session: PackageBuilder and            *)
(* StageBuilder (src/src/deploy/builder.cpp) assemble it call by call,     *)
(* Package::validate and Composition::validate accept or refuse it, and    *)
(* the session's constructor (src/src/backends/onnx.cpp) chooses what runs *)
(* each stage on one device.                                               *)
(*                                                                         *)
(* A package's tensor descriptors are taken to be valid, its launches to   *)
(* name an entry point, and its producer to leave the composition and the  *)
(* weights to the builder.                                                 *)
(***************************************************************************)
EXTENDS Integers, Sequences, Functions

CONSTANTS
  StageName, Trunk,
  BufferName,
  TensorName,
  Kind,          \* kinds of executable block, Onnx among them
  Onnx,
  Family,        \* [Kind -> the hardware family it needs, or NoFamily]
  NoFamily,
  Arch,          \* architectures, AnyArch among them
  AnyArch,
  Payload,       \* the bytes weights() may be given, Empty among them
  Empty,
  None,
  Device,        \* [family, arch]; the CPU's family is NoFamily, any other's
                 \* backend can launch kernels (rocm.cpp's cannot)
  MaxBuffers, MaxStages, MaxPorts, MaxLaunches, MaxBlocks  \* (bounds)

ASSUME BuilderAssumption ==
  /\ Trunk \in StageName /\ Onnx \in Kind
  /\ AnyArch \in Arch /\ Empty \in Payload
  /\ "weights" \notin Kind
  /\ \E d \in Device : d.family = NoFamily  \* the CPU is always there

VARIABLES
  blocks,    \* package_.blocks but the composition's
  buffers,   \* composition.buffers
  stages,    \* composition.stages, in their recorded order
  session    \* None, or the session loaded from what build() returned

vars == <<blocks, buffers, stages, session>>

Blocks   == [kind : Kind \cup {"weights"}, name : StageName, arch : Arch, payload : Payload]
Buffers  == [name : BufferName, elements : {0, 1}]
Ports    == [tensor : TensorName, buffer : BufferName]
Launches == [kind : Kind, arch : Arch]
Stages   == [name : StageName, once : BOOLEAN, reads : Seq(Ports), writes : Seq(Ports),
             launches : Seq(Launches), elements : {0, 1}]

----------------------------------------------------------------------------
(* What a package carries                                                  *)

\* The composition block is made by the first buffer or stage.
Composed == buffers # <<>> \/ stages # <<>>

HasGraph(n) == \E b \in Range(blocks) : b.kind = Onnx /\ b.name = n

\* get_weights: the first block of weights that has the stage's name.
WeightsBlocks(n) == {i \in DOMAIN blocks : blocks[i].kind = "weights" /\ blocks[i].name = n}
WeightsOf(n) ==
  IF WeightsBlocks(n) = {} THEN Empty
  ELSE blocks[CHOOSE i \in WeightsBlocks(n) : \A j \in WeightsBlocks(n) : i <= j].payload

\* select_block: the first block of this very architecture, or else the first
\* that runs on the device at all.
Forms(n, d) ==
  {i \in DOMAIN blocks :
     /\ blocks[i].name = n /\ blocks[i].kind \in Kind
     /\ Family[blocks[i].kind] # NoFamily /\ Family[blocks[i].kind] = d.family
     /\ blocks[i].arch \in {AnyArch, d.arch}}
Exact(n, d) == {i \in Forms(n, d) : blocks[i].arch = d.arch}
Selected(n, d) ==
  LET best == IF Exact(n, d) # {} THEN Exact(n, d) ELSE Forms(n, d)
  IN  blocks[CHOOSE i \in best : \A j \in best : i <= j]

\* get_launch_for: the launch of this kind and architecture, or a portable one.
\* Mutant: whichever of the kind the stage lists.
AnyOfTheKind(s, b) == {l \in Range(s.launches) : l.kind = b.kind}
LaunchesFor(s, b) ==
  LET of(a) == {l \in Range(s.launches) : l.kind = b.kind /\ l.arch = a}
  IN  IF of(b.arch) # {} THEN of(b.arch) ELSE of(AnyArch)

----------------------------------------------------------------------------
(* Validation                                                              *)

Executables == {b.name : b \in {c \in Range(blocks) : c.kind \in Kind}}

NamedOnce(s) == \A i, j \in DOMAIN s : s[i].name = s[j].name => i = j

\* What is asked of a stage by itself.
StageAccepted(s) ==
  LET ports == s.reads \o s.writes
  IN  /\ s.name \in Executables
      /\ \A i, j \in DOMAIN ports : ports[i].tensor = ports[j].tensor => i = j
      /\ \A i \in DOMAIN ports : \E b \in Range(buffers) : b.name = ports[i].buffer
      /\ s.elements > 0 => WeightsBlocks(s.name) # {}
      /\ \A l \in Range(s.launches) : l.kind # Onnx

\* The places a buffer is written and read: <<stage, port>>.
WritesOf(b) ==
  UNION {{<<i, j>> : j \in {k \in DOMAIN stages[i].writes : stages[i].writes[k].buffer = b}} :
           i \in DOMAIN stages}
ReadsOf(b) ==
  UNION {{<<i, j>> : j \in {k \in DOMAIN stages[i].reads : stages[i].reads[k].buffer = b}} :
           i \in DOMAIN stages}

\* One writer per buffer, every read after it, and nothing written per query
\* read by a stage that runs once.
\* Mutant: a stage may read what it writes itself.
NotLater(b) ==
  \A r \in ReadsOf(b) : \E w \in WritesOf(b) :
    w[1] <= r[1] /\ (stages[r[1]].once => stages[w[1]].once)
ReadAfterWritten(b) ==
  \A r \in ReadsOf(b) : \E w \in WritesOf(b) :
    w[1] < r[1] /\ (stages[r[1]].once => stages[w[1]].once)

Flows(b) ==
  /\ \A v, w \in WritesOf(b) : v = w
  /\ ReadAfterWritten(b)

\* Composition::validate.
CompositionAccepted ==
  /\ stages # <<>>
  /\ NamedOnce(buffers) /\ \A i \in DOMAIN buffers : buffers[i].elements # 0
  /\ NamedOnce(stages) /\ \A i \in DOMAIN stages : StageAccepted(stages[i])
  /\ stages[Len(stages)].name = Trunk /\ ~stages[Len(stages)].once
  /\ \A i \in DOMAIN buffers : Flows(buffers[i].name) /\ ReadsOf(buffers[i].name) # {}

\* Package::validate, when build() hands the package over and when it is loaded.
Accepted == Trunk \in Executables /\ (Composed => CompositionAccepted)

----------------------------------------------------------------------------
(* A producer's calls                                                      *)

Init ==
  /\ blocks = <<>> /\ buffers = <<>> /\ stages = <<>>
  /\ session = None

\* PackageBuilder::graph and block.
AddBlock(k, n, a) ==
  /\ session = None /\ Len(blocks) < MaxBlocks
  /\ blocks' = Append(blocks, [kind |-> k, name |-> n, arch |-> a, payload |-> Empty])
  /\ UNCHANGED <<buffers, stages, session>>

AddBuffer(n, e) ==
  /\ session = None /\ Len(buffers) < MaxBuffers
  /\ buffers' = Append(buffers, [name |-> n, elements |-> e])
  /\ UNCHANGED <<blocks, stages, session>>

AddStage(n, once) ==
  /\ session = None /\ Len(stages) < MaxStages
  /\ stages' = Append(stages, [name |-> n, once |-> once, reads |-> <<>>, writes |-> <<>>,
                               launches |-> <<>>, elements |-> 0])
  /\ UNCHANGED <<blocks, buffers, session>>

\* StageBuilder::amend, through stage() or edit_stage(): the first of the name.
Amends(i) == session = None /\ \A j \in 1..i - 1 : stages[j].name # stages[i].name

AddRead(i, p) ==
  /\ Amends(i) /\ Len(stages[i].reads) < MaxPorts
  /\ stages' = [stages EXCEPT ![i].reads = Append(@, p)]
  /\ UNCHANGED <<blocks, buffers, session>>

AddWrite(i, p) ==
  /\ Amends(i) /\ Len(stages[i].writes) < MaxPorts
  /\ stages' = [stages EXCEPT ![i].writes = Append(@, p)]
  /\ UNCHANGED <<blocks, buffers, session>>

AddLaunch(i, l) ==
  /\ Amends(i) /\ Len(stages[i].launches) < MaxLaunches
  /\ stages' = [stages EXCEPT ![i].launches = Append(@, l)]
  /\ UNCHANGED <<blocks, buffers, session>>

\* The block weights() stores; no bytes, no block.
\* Mutant: an empty block is stored.
StoredAlways(n, bytes) == <<[kind |-> "weights", name |-> n, arch |-> AnyArch, payload |-> bytes]>>
Stored(n, bytes) ==
  IF bytes = Empty THEN <<>>
  ELSE <<[kind |-> "weights", name |-> n, arch |-> AnyArch, payload |-> bytes]>>

\* StageBuilder::weights: the bytes go into a block, what they mean to the stage.
SetWeights(i, bytes, e) ==
  /\ Amends(i) /\ Len(blocks) < MaxBlocks
  /\ blocks' = blocks \o Stored(stages[i].name, bytes)
  /\ stages' = [stages EXCEPT ![i].elements = e]
  /\ UNCHANGED <<buffers, session>>

----------------------------------------------------------------------------
(* A session                                                               *)

\* plan_: the composition's stages, or the trunk alone.
Plan ==
  IF Composed THEN stages
  ELSE <<[name |-> Trunk, once |-> FALSE, reads |-> <<>>, writes |-> <<>>,
          launches |-> <<>>, elements |-> 0]>>

\* is_portable: a graph for every stage.
Portable == \A i \in DOMAIN Plan : HasGraph(Plan[i].name)

\* require_runnable_on: code of some form for every stage.
Runnable(d) == \A i \in DOMAIN Plan : HasGraph(Plan[i].name) \/ Forms(Plan[i].name, d) # {}

\* build_stage: the graph, or the selected form with a launch that fits it.
\* Mutant: the compiled form wins where there is one.
CodeFirst(s, d) ==
  IF Forms(s.name, d) # {}
    THEN {[block |-> Selected(s.name, d), launch |-> l] :
            l \in IF Composed THEN LaunchesFor(s, Selected(s.name, d)) ELSE {}}
    ELSE {[block |-> Onnx, launch |-> None]}
Built(s, d) ==
  IF HasGraph(s.name)
    THEN {[block |-> Onnx, launch |-> None]}
    ELSE {[block |-> Selected(s.name, d), launch |-> l] :
            l \in IF Composed THEN LaunchesFor(s, Selected(s.name, d)) ELSE {}}

Loads(d) == Runnable(d) /\ \A i \in DOMAIN Plan : Built(Plan[i], d) # {}

\* OrtSession's constructor on a package build() accepted.
Load(d) ==
  /\ session = None
  /\ Accepted /\ Loads(d)
  /\ \E code \in [DOMAIN Plan -> UNION {Built(Plan[i], d) : i \in DOMAIN Plan}] :
       /\ \A i \in DOMAIN Plan : code[i] \in Built(Plan[i], d)
       /\ session' = [code |-> code,
                      weights |-> [i \in DOMAIN Plan |-> WeightsOf(Plan[i].name)]]
  /\ UNCHANGED <<blocks, buffers, stages>>

Close ==
  /\ session # None
  /\ session' = None
  /\ UNCHANGED <<blocks, buffers, stages>>

Next ==
  \/ \E k \in Kind, n \in StageName, a \in Arch : AddBlock(k, n, a)
  \/ \E n \in BufferName, e \in {0, 1} : AddBuffer(n, e)
  \/ \E n \in StageName, once \in BOOLEAN : AddStage(n, once)
  \/ \E i \in DOMAIN stages, p \in Ports : AddRead(i, p) \/ AddWrite(i, p)
  \/ \E i \in DOMAIN stages, l \in Launches : AddLaunch(i, l)
  \/ \E i \in DOMAIN stages, bytes \in Payload, e \in {0, 1} : SetWeights(i, bytes, e)
  \/ \E d \in Device : Load(d)
  \/ Close

Spec == Init /\ [][Next]_vars

----------------------------------------------------------------------------
(* What the session is given, as the module Wiring has it                  *)

InputsOf  == UNION {{<<i, p.tensor>> : p \in Range(stages[i].reads)} : i \in DOMAIN stages}
OutputsOf == UNION {{<<i, p.tensor>> : p \in Range(stages[i].writes)} : i \in DOMAIN stages}

\* The buffers of a tensor's ports.
Attached(t) ==
  {k \in DOMAIN buffers :
     \E p \in Range(stages[t[1]].reads) \cup Range(stages[t[1]].writes) :
       p.tensor = t[2] /\ p.buffer = buffers[k].name}

W == INSTANCE Wiring WITH
       NumStages  <- Len(stages),
       NumBuffers <- Len(buffers),
       Tensor     <- InputsOf \cup OutputsOf,
       Input      <- InputsOf,
       StageOf    <- [t \in InputsOf \cup OutputsOf |-> t[1]],
       Port       <- [t \in InputsOf \cup OutputsOf |-> CHOOSE k \in Attached(t) : TRUE]

----------------------------------------------------------------------------
(* Properties                                                              *)

\* Types; that weights are stored under the name of a stage the composition
\* has, and none of them are empty (builder.cpp:188-192).
TypeOK ==
  /\ blocks \in Seq(Blocks) /\ buffers \in Seq(Buffers) /\ stages \in Seq(Stages)
  /\ \A i \in DOMAIN blocks : blocks[i].kind = "weights" =>
       blocks[i].payload # Empty /\ \E j \in DOMAIN stages : stages[j].name = blocks[i].name

\* What validate accepts is what a session relies on (the assumptions of module
\* Session; onnx.cpp:658-661): in whatever order the calls were made and
\* whichever stages were returned to, every buffer has one writer and a reader,
\* and nothing is read before it is written.
BuiltIsWellWired == Accepted /\ Composed => W!WellWired

\* is_portable is the question a producer asks of a package before it ships
\* (package.cpp:316-319): a portable one loads on every device, and one that is
\* not is refused by some.
PortableMeansEverywhere == Accepted => (Portable <=> \A d \in Device : Loads(d))

\* "A package that cannot run is never written to disk" (builder.hpp:149-151):
\* some device loads what build() hands over (package.cpp:315-350 asks neither
\* for a launch nor for a composition to find one in; onnx.cpp:552-562 does).
BuiltRunsSomewhere == Accepted => \E d \in Device : Loads(d)

\* A compiled stage is called through the launch of the very form that was
\* selected, where there is one (onnx.cpp:544-547).
LaunchIsOfTheForm ==
  session # None => \A i \in DOMAIN session.code :
    LET c == session.code[i]
    IN  c.block # Onnx =>
          /\ c.launch.kind = c.block.kind
          /\ c.launch.arch # c.block.arch =>
               /\ c.launch.arch = AnyArch
               /\ \A l \in Range(stages[i].launches) :
                    <<l.kind, l.arch>> # <<c.block.kind, c.block.arch>>

=============================================================================
