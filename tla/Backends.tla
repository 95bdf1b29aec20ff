------------------------------ MODULE Backends ------------------------------
(***************************************************************************)
(* The five compute backends behind one interface (src/src/backends/): what *)
(* a build has compiled in, what each backend says it can do on the machine *)
(* it finds, the session that is loaded on one of its devices               *)
(* (src/src/core/session.cpp, the constructor in src/src/backends/onnx.cpp) *)
(* and the memory that session accepts, whatever API it came from.          *)
(*                                                                         *)
(* A stage's execution is module Session's, the registry of live imports    *)
(* module Adopt's, the driver's calls module DeviceMemory's.                *)
(***************************************************************************)
EXTENDS Integers

CONSTANTS
  Builds,     \* the sets of features a build may have
  MaxCards,   \* (bound)
  CardArch,   \* [card -> its architecture], of the NVIDIA cards there may be
  Package,    \* a trunk's forms: sets of [kind, arch]
  Ref,        \* references the application holds
  AnyArch,
  None,
  Strays      \* may a session be given memory that lives on another device?

Feature == {"onnx", "cpu", "cuda", "tensorrt", "rocm", "directml"}
Backend == {"cpu", "cuda", "tensorrt", "rocm", "directml"}
Domain  == {"host", "cuda", "hip", "vulkan", "d3d11", "d3d12"}
Nvidia  == {"cuda", "tensorrt"}
Card    == 0..MaxCards - 1
Automatic == -1

\* CMakeLists.txt: TensorRT is a CUDA library, every provider is ONNX Runtime's.
ASSUME BackendsAssumption ==
  /\ Builds \subseteq SUBSET Feature
  /\ \A b \in Builds : "tensorrt" \in b => "cuda" \in b
  /\ \A b \in Builds : (Nvidia \cup {"rocm", "directml"}) \cap b # {} => "onnx" \in b
  /\ MaxCards \in Nat \ {0} /\ DOMAIN CardArch = Card
  /\ Strays \in BOOLEAN

VARIABLES
  build,    \* the features compiled in
  cards,    \* how many NVIDIA cards the driver shows
  current,  \* the thread's current CUDA device
  ref,      \* [Ref -> a reference, or None]
  session,  \* the session, or None
  bound     \* what its provider was told of the last tensor bound, or None

vars == <<build, cards, current, ref, session, bound>>

\* What a reference's address is: memory, the number of a shared handle, or a
\* D3D12 resource.  An exported one knows the card its allocation lives on (or
\* that its UUID is zero) and where it has been imported.
ZeroUuid  == -1
NotExported == -2
Vmm         == -3   \* allocate's own: it can be exported
Reference ==
  [domain : Domain, device : Card \cup {-1}, holds : {"memory", "handle", "resource"},
   home : Card \cup {ZeroUuid, NotExported, Vmm}, at : Card \cup {-1}]
Session == [backend : Backend, device : Card, runs : {"graph", "kernel"}]
Tensor  == [allocator : {"Cpu", "Cuda", "Hip", "DML"}, device : Card, memory : Reference]

Memory(domain, device) ==
  [domain |-> domain, device |-> device, holds |-> "memory", home |-> NotExported, at |-> -1]
Exported(domain, holds, home) ==
  [domain |-> domain, device |-> -1, holds |-> holds, home |-> home, at |-> -1]

----------------------------------------------------------------------------
(* What a backend says of itself                                           *)

\* The CPU provider is ONNX Runtime's own.
Available(b) == b \in build /\ (b = "cpu" => "onnx" \in build)

\* The cards a CUDA call reaches.
Visible == IF "cuda" \in build THEN cards ELSE 0

\* The five classes: the domain the provider computes in, the APIs it can share
\* memory with whatever is compiled in, how many devices it has, the hardware
\* family compiled blocks are keyed by, ONNX Runtime's name for its allocator,
\* where allocate() puts a buffer, the domain upload(), download() and
\* copy_within() ask for, and whether it runs compiled code.  "none" is a throw.
Cpu ==
  [domain |-> "host", imports |-> {}, devices |-> 1, target |-> "none",
   allocator |-> "none", allocates |-> "host", copies |-> "host", kernels |-> FALSE]
Cuda ==
  [domain |-> "cuda", imports |-> {"vulkan", "d3d11", "d3d12"}, devices |-> Visible, target |-> "cuda",
   allocator |-> "Cuda", allocates |-> "cuda", copies |-> "cuda", kernels |-> "cuda" \in build]
TensorRt == Cuda   \* but for its name
Rocm ==
  [domain |-> "hip", imports |-> {"vulkan", "d3d11", "d3d12"}, devices |-> 0, target |-> "rocm",
   allocator |-> "Hip", allocates |-> "none", copies |-> "none", kernels |-> FALSE]
DirectMl ==
  [Cpu EXCEPT !.domain = "d3d12", !.imports = {"d3d12"}, !.allocator = "DML"]

Of(b) ==
  CASE b = "cpu" -> Cpu [] b = "cuda" -> Cuda [] b = "tensorrt" -> TensorRt
    [] b = "rocm" -> Rocm [] b = "directml" -> DirectMl

\* Mutant: the family is the provider's name.
OwnName(b) == b
BlockTarget(b) == Of(b).target
DeviceArch(b, d) == IF b \in Nvidia /\ d < Visible THEN CardArch[d] ELSE "unknown"

\* allocate: the references it may return.
Allocation(b, d) ==
  CASE Of(b).allocates = "host" -> {Memory("host", -1)}
    [] Of(b).allocates = "cuda" -> IF d < Visible THEN {[Memory("cuda", d) EXCEPT !.home = Vmm]} ELSE {}
    [] OTHER                    -> {}

----------------------------------------------------------------------------
(* adopt()                                                                 *)

\* Mutant: a session takes memory of any device.
Nowhere(on, d) == FALSE
Elsewhere(on, d) == on >= 0 /\ d >= 0 /\ on # d

\* get_device_for_uuid
ImportDevice(m) == IF m.home = ZeroUuid THEN current ELSE m.home

\* Whether adopt gets as far as the driver, whose device it then makes current.
Imports(b, m) ==
  /\ m.domain \notin {Of(b).domain, "host"}
  /\ m.home \in Card \cup {ZeroUuid} /\ m.domain \in Of(b).imports
  /\ b \in Nvidia /\ ImportDevice(m) < Visible

\* An import of this handle, on a device the caller accepts, may still live:
\* the registry answers.
Registered(b, d, m) ==
  /\ Imports(b, m) /\ m.at >= 0 /\ d \in {-1, m.at}

Imported(m, d) == [m EXCEPT !.domain = "cuda", !.device = d, !.holds = "memory", !.at = -1]

\* What adopt returns: the reference itself if its domain is the backend's,
\* nothing for host memory, an import of what was exported.
\* Mutant: host memory is taken everywhere.
HostToo(b, d, m) ==
  {x \in {m} : m.domain \in {Of(b).domain, "host"} /\ ~Elsewhere(m.device, d)}
    \cup {Imported(m, ImportDevice(m)) : x \in {y \in {m} : Imports(b, y) /\ y.holds = "handle"}}
    \cup {Imported(m, m.at) : x \in {y \in {m} : Registered(b, d, y)}}
Adopted(b, d, m) ==
  {x \in {m} : m.domain = Of(b).domain /\ ~Elsewhere(m.device, d)}
    \cup {Imported(m, ImportDevice(m)) : x \in {y \in {m} : Imports(b, y) /\ y.holds = "handle"}}
    \cup {Imported(m, m.at) : x \in {y \in {m} : Registered(b, d, y)}}

\* What adopt leaves behind, having returned m: the current device and, in the
\* exported reference, where it was imported.
AfterAdopt(b, d, r, m) ==
  IF m = ref[r] THEN current' = current /\ ref' = ref
  ELSE /\ current' = m.device \/ (Registered(b, d, ref[r]) /\ m.device = ref[r].at /\ current' = current)
       /\ ref' = [ref EXCEPT ![r].at = m.device]

----------------------------------------------------------------------------
(* Loading                                                                 *)

\* A zero ordinal for "whatever the backend's current device is".
Resolved(asked) == IF asked = Automatic THEN 0 ELSE asked

\* append_provider: the provider is there and has some device to run on (the
\* NVIDIA ones: external).
ProviderTakes(b) == b \in {"cpu", "directml"} \/ (b \in Nvidia /\ Visible > 0)

\* Only an ordinal that was asked for is checked.
\* Mutant: the device after the last is a device.
OneTooMany(b, asked) == asked <= Of(b).devices
DeviceThere(b, asked) == asked < Of(b).devices

\* select_block: a form whose family is the backend's and whose architecture,
\* if it names one, the device's.
FamilyOf(kind) ==
  CASE kind \in {"cuda_ptx", "cuda_cubin"} -> "cuda" [] kind = "hsaco" -> "rocm"
    [] kind \in {"opencl", "spirv"} -> kind [] OTHER -> "graph"
RunsOn(f, b, d) ==
  /\ FamilyOf(f.kind) = BlockTarget(b)
  /\ f.arch \in {AnyArch, DeviceArch(b, d)}
HasGraph(p) == \E f \in p : f.kind = "onnx"

\* build_stage: the graph, or a kernel, whose weights are put into memory the
\* backend allocated.
BuildsGraph(p) == HasGraph(p)
BuildsKernel(p, b, d) ==
  /\ ~HasGraph(p)
  /\ Of(b).kernels
  /\ \E m \in Allocation(b, d) : m.domain = Of(b).copies

\* nn::load and OrtSession's constructor, and what runs the trunk.
LoadsAs(b, asked, p, what) ==
  LET d == Resolved(asked) IN
  /\ "onnx" \in build /\ Available(b)
  /\ ProviderTakes(b)
  /\ asked = Automatic \/ DeviceThere(b, asked)
  /\ HasGraph(p) \/ \E f \in p : RunsOn(f, b, d)
  /\ IF what = "graph" THEN BuildsGraph(p) ELSE BuildsKernel(p, b, d)

Load(b, asked, p) ==
  /\ session = None
  /\ \E what \in {"graph", "kernel"} :
       /\ LoadsAs(b, asked, p, what)
       /\ session' = [backend |-> b, device |-> Resolved(asked), runs |-> what]
  /\ UNCHANGED <<build, cards, current, ref, bound>>

Close ==
  /\ session # None
  /\ session' = None /\ bound' = None
  /\ UNCHANGED <<build, cards, current, ref>>

----------------------------------------------------------------------------
(* Binding                                                                 *)

\* memory_info_for: host memory is the CPU's, any other must be the backend's.
TensorFor(b, d, m) ==
  {[allocator |-> IF m.domain = "host" THEN "Cpu" ELSE Of(b).allocator, device |-> d, memory |-> m] :
     x \in {y \in {m} : y.domain = "host" \/ (y.domain = Of(b).domain /\ Of(b).allocator # "none")}}

\* A caller that does not stray gives a session what lives on its device.
Near(m) ==
  Strays \/ m.home = NotExported \/ m.domain \notin {"vulkan", "d3d11", "d3d12"} \/ ImportDevice(m) = session.device

\* InferenceSession::bind_input, bind_output.
Bind(r) ==
  /\ session # None /\ ref[r] # None
  /\ Near(ref[r])
  /\ ~Elsewhere(ref[r].device, session.device)
  /\ \E m \in Adopted(session.backend, session.device, ref[r]) :
       /\ bound' \in TensorFor(session.backend, session.device, m)
       /\ AfterAdopt(session.backend, session.device, r, m)
  /\ UNCHANGED <<build, cards, session>>

\* set_voxel_grid: a buffer between two stages is bound as it was allocated.
BindBuffer ==
  /\ session # None
  /\ \E m \in Allocation(session.backend, session.device) :
       bound' \in TensorFor(session.backend, session.device, m)
  /\ UNCHANGED <<build, cards, current, ref, session>>

----------------------------------------------------------------------------
(* The application                                                         *)

Init ==
  /\ build \in Builds
  /\ cards \in 0..MaxCards
  /\ current = 0
  /\ ref = [r \in Ref |-> None]
  /\ session = None /\ bound = None

\* cuda::set_device: the card must be there.
SetDevice(d) ==
  /\ d < Visible
  /\ current' = d
  /\ UNCHANGED <<build, cards, ref, session, bound>>

Hold(r, m) ==
  /\ ref[r] = None
  /\ ref' = [ref EXCEPT ![r] = m]
  /\ UNCHANGED <<build, cards, current, session, bound>>

\* A vector or an array of the caller's.
Wrap(r) == Hold(r, Memory("host", -1))

\* A renderer's allocation, exported as a shared handle.
Export(r, domain, home) == Hold(r, Exported(domain, "handle", home))

\* rfnn_memory_from_d3d12_resource: DirectML wraps what it will not import.
WrapResource(r) == Hold(r, [Memory("d3d12", -1) EXCEPT !.holds = "resource"])

\* ComputeBackend::allocate, for a caller; CUDA makes the device current.
Allocate(r, b, d) ==
  /\ ref[r] = None
  /\ \E m \in Allocation(b, d) :
       /\ ref' = [ref EXCEPT ![r] = m]
       /\ current' = IF m.device >= 0 THEN m.device ELSE current
  /\ UNCHANGED <<build, cards, session, bound>>

\* __cuda_array_interface__: an address without an ordinal, which device_of asks
\* the driver for.
WrapPointer(r, d) ==
  /\ d < cards
  /\ Hold(r, Memory("cuda", IF d < Visible THEN d ELSE -1))

\* export_external_memory: a handle of what allocate made, of no known device.
ExportOwn(q, r, domain) ==
  /\ ref[q] # None /\ ref[r] = None
  /\ ref[q].home = Vmm
  /\ ref' = [ref EXCEPT ![r] = Exported(domain, "handle", ZeroUuid)]
  /\ current' = ref[q].device
  /\ UNCHANGED <<build, cards, session, bound>>

\* rfnn_import_*: a reference is described, adopted on whatever device it is on
\* and let go, what adopt returned is kept.
ImportInto(r, b, domain, home) ==
  /\ ref[r] = None
  /\ \E m \in Adopted(b, Automatic, Exported(domain, "handle", home)) :
       /\ ref' = [ref EXCEPT ![r] = m]
       /\ current' = IF m.device >= 0 THEN m.device ELSE current
  /\ UNCHANGED <<build, cards, session, bound>>

\* An adoption whose import the driver refuses has made the device current.
AdoptFails(b, domain, home) ==
  LET m == Exported(domain, "handle", home) IN
  /\ Imports(b, m)
  /\ current' = ImportDevice(m)
  /\ UNCHANGED <<build, cards, ref, session, bound>>

\* upload and download, between the caller's array and a reference.
Transfer(r, b) ==
  /\ ref[r] # None /\ ref[r].domain = Of(b).copies
  /\ b \in Nvidia => "cuda" \in build
  /\ current' = IF ref[r].device >= 0 THEN ref[r].device ELSE current
  /\ UNCHANGED <<build, cards, ref, session, bound>>

Drop(r) ==
  /\ ref[r] # None
  /\ ref' = [ref EXCEPT ![r] = None]
  /\ UNCHANGED <<build, cards, current, session, bound>>

Graphics == {"vulkan", "d3d11", "d3d12"}
Homes == {h \in Card : h < cards} \cup {ZeroUuid}

Next ==
  \/ \E d \in Card : SetDevice(d)
  \/ \E r \in Ref : Wrap(r) \/ WrapResource(r) \/ Drop(r) \/ Bind(r)
  \/ \E r \in Ref, d \in Card : WrapPointer(r, d)
  \/ \E r \in Ref, a \in Graphics, h \in Homes : Export(r, a, h)
  \/ \E q \in Ref, r \in Ref, a \in Graphics : ExportOwn(q, r, a)
  \/ \E r \in Ref, b \in Backend, a \in Graphics, h \in Homes : ImportInto(r, b, a, h)
  \/ \E b \in Backend, a \in Graphics, h \in Homes : AdoptFails(b, a, h)
  \/ \E r \in Ref, b \in Backend, d \in Card : Allocate(r, b, d)
  \/ \E r \in Ref, b \in Backend : Transfer(r, b)
  \/ \E b \in Backend, d \in Card \cup {Automatic, cards}, p \in Package : Load(b, d, p)
  \/ Close
  \/ BindBuffer

Spec == Init /\ [][Next]_vars

----------------------------------------------------------------------------
(* Properties                                                              *)

\* Types; a session's device is one its backend has, and so is the thread's.
TypeOK ==
  /\ build \in Builds /\ cards \in 0..MaxCards
  /\ current \in Card /\ (current = 0 \/ current < cards)
  /\ ref \in [Ref -> Reference \cup {None}]
  /\ session \in Session \cup {None}
  /\ bound \in Tensor \cup {None}
  /\ session # None => session.device < Of(session.backend).devices

\* "BINDING NEVER COPIES" (adopt.cpp:91-104): what a provider is told of is of
\* its own memory, or a buffer the session allocated, and never the number of a
\* handle nobody imported.  DirectML apart, for which see
\* TensorsNameWhatTheyHold.
BoundIsItsOwnMemory ==
  bound # None /\ session.backend # "directml" =>
    /\ bound.memory.domain = Of(session.backend).domain
    /\ bound.memory.holds = "memory"

\* "Memory from another device is refused at bind rather than faulting"
\* (README.md:41-42; session.hpp:85-86): what is bound is on the session's
\* device, however many backends, imports and changes of the thread's device it
\* has been through.
BoundWhereItRuns == bound # None => bound.memory.device \in {-1, session.device}

\* A session is had exactly where the machine can run the package: its backend
\* is compiled in, the device is there, and there is a graph or code for that
\* very card; CUDA and TensorRT, two providers on one card, answer alike, and
\* what the check of the forms let pass is never refused by the stage
\* (onnx.cpp:326-335, compute_backend.hpp:75-83).
CardRuns(f, d) == f.kind \in {"cuda_ptx", "cuda_cubin"} /\ f.arch \in {AnyArch, CardArch[d]}
LoadsWhatTheCardRuns ==
  \A p \in Package :
    /\ \A b \in Nvidia, d \in Card :
         (\E what \in {"graph", "kernel"} : LoadsAs(b, d, p, what)) <=>
           b \in build /\ d < cards /\ (HasGraph(p) \/ \E f \in p : CardRuns(f, d))
    /\ \A b \in Backend \ Nvidia :
         (\E what \in {"graph", "kernel"} : LoadsAs(b, 0, p, what)) <=>
           b \in build /\ "onnx" \in build /\ b # "rocm" /\ HasGraph(p)

----------------------------------------------------------------------------
(* A claim of a comment the code does not keep                             *)

\* DirectML's allocator may be named only because a resource "is turned into an
\* opaque DML allocation ... before it reaches a tensor" (directml.cpp:59-66).
TensorsNameWhatTheyHold ==
  bound # None /\ bound.allocator = "DML" => bound.memory.holds = "memory"

=============================================================================
