# Verification of RadFiled3D-nn

This directory holds TLA+ models of RadFiled3D-nn, the C++ library that runs
trained radiation-field models on a voxel grid, together with the TLC
configurations that model-check them and the TLAPS proofs of their main
properties. All paths are relative to the repository; line numbers refer to the
commit the models were written from.

## The system

A *package* (`deploy/`) is a container of blocks: graphs, compiled kernels,
weights, descriptors, and optionally a *composition* that says which stages run
in which order and through which named buffers they hand values on. An
*inference session* (`backends/onnx.cpp`) is built from a package for one
backend and one device. The caller chooses a grid, binds its own memory to the
session's inputs and outputs, and calls `infer()` as often as it likes. Memory
travels as a `MemoryRef`; `ComputeBackend::adopt` makes a reference of another
API usable by the session's backend. `FieldInference` drives a session for a
RadFiled3D voxel field. A C ABI and Python bindings wrap all of this.

| part | state it keeps | operations | what is hard |
|---|---|---|---|
| Inference session, `src/backends/onnx.cpp` | grid, buffers, bindings, skipped stages | `set_voxel_grid`, `bind_input/output`, `set_stage_enabled`, `infer` | long sequences of calls; a call that fails half way; data left by an earlier call |
| Kernel stage and CUDA, `src/backends/cuda.cpp` | rows, bound references, arguments, a module | `set_rows`, `bind`, `run`, loading, teardown | addresses copied from references, the thread's current device, launch geometry in 32 bits |
| adopt and memory, `src/memory/` | registry of live imports, spent descriptors, driver objects | `adopt`, `allocate`, `import`, `export`, release | handles reused by the system, weak references, two devices, driver calls that fail half way |
| Other backends, `src/backends/{cpu,rocm,tensorrt,directml}.cpp` | none | what each says of itself | six ways memory meets a provider that cannot take it |
| Field inference, `src/core/field_inference.cpp` | the field's layers, a session it may share | construction, `run` | units of the layers after a partial or repeated run |
| Composition, `src/deploy/composition.cpp` | none (a value) | `validate`, queries | is what it accepts enough for the session? |
| Package and builder, `src/deploy/` | the container's blocks, a file | add, amend, validate, write, read, list, select | half-made amendments, torn and overlapped files, selection against what was promised |
| C ABI, `src/capi/c_api.cpp`, `nn/c_api.hpp` | handles, a message per thread | one function per operation, move-only wrappers | who owns what, whose message it is |
| Python, `python/bindings/bindings.cpp` | owners of bound arrays | the session's calls, memory, mirrors | collection while `infer()` runs without the interpreter's lock |
| Tools, examples | none of their own | | |

What makes each part correct:

- **Session**: every stage of an `infer()` works on values of that same call;
  what is bound always fits the chosen grid; a call that throws leaves a state
  from which the next call does what it says; a skipped stage's buffers stay.
- **adopt**: the reference it returns is a view of the allocation it was asked
  for, on the device of the session; one allocation is imported once while the
  import lives; a spent descriptor is never handed to the driver again.
- **Field inference**: after `run()` each layer is in metric units, once.
- **Composition**: an accepted composition never lets a stage read a buffer
  before its producer has filled it.
- **Package**: a package a producer is told is portable loads everywhere; a
  kernel is called the way its own form asks; what is accepted can run
  somewhere; what is written is read back.
- **Memory**: what is used is mapped, on the device current at the call, and
  nothing of a failed call stays behind.
- **C ABI**: each object is freed once, a reference may be released while it is
  bound, a message is that of its own call.
- **Python**: nothing a running `infer()` works on is collected.

## Modules

| module | models | theorems |
|---|---|---|
| `Wiring` | the data flow of a composition and what it is to be well wired | |
| `Session` (extends `Wiring`) | `OrtSession`, `GraphStage`, `KernelStage` as a session sees them | `SessionProofs` |
| `Adopt` | `ComputeBackend::adopt`, its registry and imports, among clients and an exporting application | `AdoptProofs` |
| `Builder` (instance of `Wiring`) | `PackageBuilder`, `Package::validate`, block and launch selection up to a loaded session | `PackageProofs` |
| `Backends` | the five backends, what they say of themselves, and memory of every kind on its way to a tensor | `BackendsProofs` |
| `DeviceMemory` | CUDA allocations and imports, driver call by driver call | `KernelProofs` |
| `Kernel` (extends `DeviceMemory`) | the compiled stage over them: loading, arguments, launches, repeats | `KernelProofs` |
| `FieldInference` | a field's layers around `infer()` | `FieldInferenceProofs` |
| `Codec` | the layout of the container: writer, reader, full read, listing | |
| `Container` (extends `Codec`) | the file, its writers and readers, crashes | `PackageProofs` |
| `PackageFile` | the abstract register a package file is to be | `Container` implements it (`PackageProofs`) |
| `CApi` | handles, wrappers, messages of the C ABI | `CApiProofs` |
| `PySession` | owners, mirrors and the released lock of the Python bindings | `PySessionProofs` |

Each has an `MC` module with the small instance its run checks.

How they fit together. `Builder` ends where `Session` begins: `Session` assumes
its plan `WellWired`; `Builder` proves that every composition `validate` accepts
is (`AcceptedRunsInOrder`), through an instance of the same module `Wiring` whose
constants are read off the builder's state. What `Session` takes from `adopt` is
the constant `View`, the memory a reference is a view of; `Adopt` shows when that
is the memory the caller meant (`ViewsCorrect`) and when it is not
(`adopt_recycled`), `Backends` on which device and in which domain it is.
`Session` takes a kernel's run as one step that reads what is bound and writes
its outputs: `Kernel` looks inside that step, at the addresses it was handed, the
device it runs on and the rows it covers, and likewise inside `SharedBuffer::repeat`,
which `Session` takes to fill the repeats. `FieldInference`, `CApi` and
`PySession` stand on the session's promises and keep of it only what is bound,
whether a grid is chosen and whether the trunk runs.

## The session (`Session`)

State. `queries` is `queries_`, `size` the elements of each buffer in
`buffers_`, `bound` what each stage has for each of its tensors (`"inner"` is
the buffer the tensor is attached to), `disabled` is `disabled_`. `at` and
`phase` are the program counter of the loop in `infer()` (onnx.cpp:395-404): 0
between calls, otherwise the stage the loop has reached, before its `run()` or
before its `repeat()`. `data` is the contents of the memory callers own, `head`
and `tail` those of a buffer: the part one run of the writer fills, and the
copies `SharedBuffer::repeat` makes of it.

Contents are abstracted to provenance. A memory's value is the set of editions
of caller memory it was computed from, or a mark: *fresh* (an allocation nothing
has written) or *garbled* (what a failing run left). A run of a stage writes the
union of what it read. Two computations that read the same editions are thus
equal, and every property about staleness can be said without numbers.

Actions. `SetVoxelGrid`, `Bind`, `SetStageEnabled`, `BeginInfer` are the calls.
A call that throws before it changes anything is no step. `SetVoxelGridThrows`
is the one that throws after: the grid is chosen and every binding dropped
(onnx.cpp:353-356) before `allocate_buffers` can fail on the k-th buffer. In
`infer()`, `SkipStage`, `RunStage`, `RepeatBuffers` and `Return` are the loop,
`RunThrows` and `RepeatThrows` its failures, which return to the caller with
whatever was written. `Edit` is the caller rewriting its own memory between two
calls, without rebinding.

Constants are a package and a machine: the plan, its ports, the tensors' shapes,
the references a caller may bind and what `adopt` makes of them. Their
assumptions are what `Composition::validate` establishes
(`WiringAssumption`, composition.cpp:283-337), what a kernel's ports are
(`KernelAssumption`, cuda.cpp:232-262), and that a buffer has a widest port
(`WidestAssumption`; a buffer has finitely many ports).

Not in the model: construction of a session (`Builder`, `Backends`), and two
threads in one session at a time (the header leaves that to the caller).

Fairness. None is assumed, here or in any other module, and no property is a
liveness property. Nothing in this library waits for another thread: there is one
lock, adopt's, held within one call; what runs, runs on its caller's thread. The
one loop that could be asked to end, that of `infer()` (onnx.cpp:395-404), goes
once through a list of finite length, so that it ends by its shape; `InferGetsOn`
(below) states that no step of it turns back.

### Runs

`session` explores a plan of three stages: an encoder that runs once and feeds
both a kernel (repeated for each query) and the trunk (one row), the kernel
feeding the trunk. Two grids of 1 and 2 queries, so that repeats are needed
under one and not under the other; two memories, one of which only fits the
smaller grid; one edit of one memory (`MaxEdits`); the encoder and the trunk can
be skipped; references that the session must refuse. About 56 000 states. A third
memory or an edit of both makes no case possible that these do not have: every
property relates one memory to one stage or two memories to each other. A kernel
that is skipped too (611 000 states) was explored as well and adds none.

- `BindingsFitTheGrid`: whatever is bound is large enough for the present grid.
- `NothingStale`: with all stages enabled and no output aliased, what a stage
  reads was computed in this call from the inputs as they are.
- `OutputsAgreeWithInputs`: when `infer()` returns, every stage that ran agrees
  with its inputs, even after failures, skips and edits before the call.
- `SkippedStageKeepsItsBuffers`: no step of `infer()` touches the buffers of a
  skipped stage.

Caller memory bound twice, once to an output, is excluded by `NoAlias` in the
second and third: nothing in the code refuses it, and a stage may then overwrite
its own input.

### Proofs

`SessionProofs` proves the four safety properties above and the type invariant
for every plan, every grid and every set of memories, from the named assumptions.

The type invariant and `BindingsFitTheGrid` are inductive together. The other
two properties speak of one point of the loop, so they need an invariant of the
loop: `SessionInv` adds that nothing is missing while `infer()` runs, that every
buffer *filled* so far holds only what comes from the present inputs
(`FilledFromCurrent`), and that every stage that has run still agrees with its
inputs (`RunStagesAgree`). The argument is short once stated: a stage writes only
the buffers it is the producer of (`WrittenByProducer`), reads only buffers of
earlier producers (`ReadAfterWrite`), and without aliases touches nothing a
stage up to it has read (`InputsSurvive`, `RunKeepsInputs`) or written
(`OutputsDisjoint`).

`InferGetsOn` proves that no other call comes between the steps of `infer()`, and
that each of them leaves fewer to take, out of at most two for each stage and the
return (`Ahead`).

## adopt and its registry (`Adopt`)

State. `registry` is the map of `adopt.cpp:62-69` from a key (kind of handle,
number, device) to a weak reference: a slot of `import`, expired, or absent.
`import` holds the live `ImportedMemoryRef`s, `view` what each client holds, and
`ref`, `open` belong to the application: its references with `spent` for
`ExternalOrigin`'s consumed flag, and which handle numbers name which allocation.

`adopt` holds the registry's lock from the lookup to the registration, so a call
is one step: `AdoptExisting` (a live import is found), `AdoptImports`,
`AdoptMapsNothing` (the driver took the descriptor and then could not map it),
`AdoptThrows` (the descriptor was consumed) and `AdoptOwn` (memory already of
this backend). The last holder of a view ends the import outside the lock
(`Release`), so expiry and lookup interleave freely. `Export`, `Share` and `Drop`
are the application; the system gives a number out again once nothing names it.

Run `adopt`: two allocations on two devices, three references, a session on each
device and a caller that asks for no device. One handle number of each kind is
enough, and the point: everything that can go wrong needs two allocations
under one number. Three clients, since a lookup for no device passes an expired
entry of one device and a live one of another.

- `TypeOK`: no weak reference dangles and no view outlives its import.
- `ViewIsOfItsAllocation`: a client gets the allocation it asked for.
- `OneMapping`: no handle is mapped twice at a time.
- `RegistryFindsTheLiving`: a live import is under its key.

These hold under two conditions, each a constant: numbers are not given out again
while an import made under them lives (`Recycles`), and nobody asks for memory of
another device than it is on (`Strays`). `adopt_recycled` drops the first and lets
the system reuse a descriptor's number as soon as the driver has closed it, which
POSIX does: `adopt` then returns a view of another allocation. What the second
hides is the subject of `backends_stray`.

`AdoptProofs` proves the four properties for any number of clients, devices and
handles under those two conditions. The invariant `AdoptInv` adds that all who
remember a number (open handles, references, imports) agree on its allocation
(`Agree`) and that an import is on its allocation's device (`AtHome`); without
`Agree` a lookup by number could not be known to find the right allocation, and
without `AtHome` two clients with different devices in mind could miss each
other's import.

Not in the model: regions at offsets in one handle. The all-zero UUID, which
resolves to whichever device the calling thread has selected (cuda.cpp:51-57), is
in `Backends`.

## From a producer to a session (`Builder`)

State. `blocks` is `package_.blocks` without the composition's block; `buffers`
and `stages` are what that block decodes to, which every builder call reads out
and writes back (builder.cpp:108-130). `session` is the loaded session: for each
stage the block and launch `build_stage` chose and the weights `Model` took.

Actions are the producer's calls. A `StageBuilder` remembers a name, so a call
through it goes to the first stage of that name (`Amends`), whether it came from
`stage()` or `edit_stage()`, and in any interleaving of several of them.
`Accepted` is `Package::validate`; `Load` is the session's constructor on a
device. A session works on a copy of the package, so the producer's calls while
one lives have no effect on it and are left out; after `Close` they go on.

Run `builder` explores two scopes (`MCScope`, a constraint): three stages, a
buffer that may be declared twice, two tensor names and one port of each
direction per stage, enough for a missing, a repeated and a self-read buffer, a
read before its write, two writers and a name given twice; and one stage that may
be a graph, PTX and cubins, with two launches and two blocks, against a CPU and
two cards. The two are apart because wiring and code meet only in `validate`'s
conjunction. About 324 000 states.

- `BuiltIsWellWired`: what is accepted is what `Session` assumes.
- `PortableMeansEverywhere`: a package loads on every device if and only if
  `is_portable()` says so.
- `LaunchIsOfTheForm`: compiled code is called through a launch for the form
  selected on this device, never that of another.
- `TypeOK` includes that weights belong to a stage and are never empty.

`MCBuilderRefused.cfg` asks for what builder.hpp:149-151 says of `build()`, that a
package that cannot run is never written (`BuiltRunsSomewhere`), and ends with one
that cannot: `validate` wants code for the trunk, not a launch for that code, nor a
composition to find one in. `LaunchIsOfTheForm` and `PortableMeansEverywhere` say
nothing about such a package, which no session loads.

`PackageProofs` proves all four for any number of stages, ports and blocks.
The work is in `AcceptedIsWellWired`: ports are named by strings and buffers
found by name, while `WellWired` speaks of tensors and buffers as such. `OnePort`
and `PortAttaches` show that an accepted stage's port determines one buffer;
`TensorsAndPorts` and `PlacesAreTensors` carry the ports' places over to tensors;
`FlowOfTensors` is then what the scan of composition.cpp:288-337 says.
`LaunchIsOfTheForm` needs an invariant (`LaunchesFit`), since the session's
choice is kept while the package could otherwise change.

Descriptors are taken to be valid (package.cpp:324-339), as they do not touch
the composition; a backend with a family is taken to be able to launch kernels,
which ROCm's stub is not. A producer that hands `block()` its own composition
or weights bypasses the builder and is left out.

## Five backends and the memory they are offered (`Backends`)

State. `build` is what was compiled in, `cards` how many NVIDIA cards the driver
shows, `current` the thread's current device, `ref` the references an application
holds, `session` a loaded session, `bound` what its provider was last told of. A
reference keeps what the decisions are made on: its domain, its device if it
knows one, whether its address is memory, the number of a shared handle or a D3D12
resource, the card it really lives on and where it has been imported.

Each backend is one record of answers (`Cpu`, `Cuda`, `TensorRt`, `Rocm`,
`DirectMl`): its domain, what it imports, its devices, its family of compiled
code, ONNX Runtime's name for its allocator, where it allocates, what it copies.
On these stand `Adopted` (adopt.cpp, without the registry), `TensorFor`
(`memory_info_for`), `LoadsAs` (`nn::load`, `append_provider`,
`require_runnable_on`, `build_stage`) and the application's ways to get memory:
wrap, export, allocate, import, through the C++ interface or the C ABI.

Run `backends`: seven builds, none to two cards of two architectures, six
packages, two references. About 75 000 states.

- `BoundIsItsOwnMemory`: what a provider computes on is of its own domain, and
  is memory, not the number of a handle.
- `BoundWhereItRuns`: it is on the session's device, given that an application
  shares memory of that device's card (`Strays = FALSE`).
- `LoadsWhatTheCardRuns`: a package loads exactly where the machine can run it,
  alike for the two providers of one card.

`BackendsProofs` proves all of these for any builds, cards and packages.

Two runs show what two comments say and the code does not do.
`backends_stray` drops the condition: an exported reference reports no device, so
`bind` cannot compare it, and `adopt` returns it on the card it lives on.
README.md:41-42 says such memory is refused. `backends_directml` binds a D3D12
resource to DirectML: the tensor is made of the resource's pointer, while the
comment in directml.cpp:59-66 says it is turned into an allocation first.

## Driver call by driver call (`DeviceMemory`, `Kernel`)

State. In `DeviceMemory`, the driver's: the current device of each thread,
which allocations exist, which address regions are reserved, what is mapped
there, where access was granted. The library's: `ref`, an object from its first
driver call to its last; `todo`, the driver call to be made about it next (`live`
when it can be used); `held`, those somebody shares; and for each thread `mine`,
the references its call has still to make or destroy, with `at`, the one it has
begun with. `Kernel` adds the stage (device, rows, what is bound, the arguments as
they were laid out), `phase`, where the call that is in it has got to, `within`,
the stage a thread's call is in, the loaded modules and `SharedBuffer::repeat` in
progress.

A call is a sequence of driver calls; each is a step and any may fail. `First`
and the action of each driver call say what follows it, `Undo` is the order of the
destructors and `Unwinding` where the code begins to undo when a call fails. When
a stage lets go of references nobody else shares, its thread destroys these before
it goes on with the stage. Between any two driver calls other threads make calls of
their own, and something else on the thread may have changed the current device
between two calls of the library. The driver gives a freed region out again at once.

Run `kernel`: two threads, two devices, three references, two regions, one stage
of two ports with its weights. Rows of 1 and 7 with blocks of 3 give a launch of one block, a
last block that is partly used, and, with the 32-bit word shrunk to 8, the largest
count that fits. A buffer of 5 takes three doublings, the last one cut. About
239 000 states. Each property is about one object against one intruder, which two
threads and three references provide.

- `LiveIsMapped`: a reference that can be used is mapped in a region of its own,
  whatever is torn down and handed out beside it.
- `NothingLeaks`: whichever driver call fails, nothing stays in the driver that
  no object owns.
- `InItsContext`: every driver call about an object is made with its device current.
- `ReadsTheBound`: a running kernel's addresses are those of what is bound, alive.
- `LaunchCoversTheRows`, `RepeatFillsTheBuffer`: the two pieces of arithmetic.

Two conditions. `EntryPointsExist`: with a module that lacks the entry point its
launch names, `NothingLeaks` fails, because the constructor of `KernelStage`
throws after it has loaded the module (cuda.cpp:257-261) and a constructor that
throws runs no destructor. And `RowCounts` below `Word`: from 2^32 rows on, the
count is cut to 32 bits without a word (cuda.cpp, `rebuild_arguments`;
composition.cpp:110). The run chooses constants that satisfy both. `MCKernelRows.cfg`
drops the second: with 25 rows, blocks of 3 and a word of 8, a launch of 9 blocks
becomes one of a single block, and the kernel is told of one row.

`KernelProofs` proves all seven for any number of threads, devices, references,
regions, stages and ports, any block size and word. The invariant has three parts,
each of which is what the one before leaves open. `MInv` matches what the driver
holds with what is to be done next: the object whose next call is `access` has a
handle, a region and a mapping and no access yet, and likewise for every step of
making, undoing and destroying. Since the order of the steps differs for the three
kinds of object, `Stepwise` says which steps a kind has. Regions are used again, so
`Regions` says that one in use is that of exactly one object, without which freeing
one could pull the mapping from under another. `PInv` is about threads: one call is
in a stage at a time, and between the call that makes a device current and those that
need it the thread does nothing else. `HInv` is about sharing: what a stage shares
is live, the weights it is being given are nobody else's, and the arguments are the
addresses of what is bound. `NothingLeaks` is then proved where `EntryPointsExist`
holds and `LaunchCoversTheRows` where the rows stay below `Word`; the other five need
neither. The assumptions on constants say that `None` is no reference, region,
stage or record (`DeviceAssumption`, `KernelAssumption`, `ObjectAssumption`,
`StageAssumption`) and that counts are positive and what a package records fits a word.

## A field around `infer()` (`FieldInference`)

State. Fields with their layers, the width of each layer, a device mirror for
some; the living `FieldInference` objects; of the session the grid, what each
slot is bound to and whether the trunk runs; and `call`, where the constructor or
`run()` in progress has got to. Bindings are pointers: they name memory, whether
or not it is still there. An element of a layer is abstracted to the unit it is
in and whether this run wrote it.

The constructor is one step for the grid, one for the positions, one for each
layer added, one for each bound and one for the list of the caller's inputs it
ends with (`ListInputs`), with `ConstructThrows` between any two; `run()` is
`infer()`, whole or half way, and one step for each element that is inverted.

Run `field`: two objects over one session, two fields, one mirror, three packages
(voxelwise; one with an output that cannot be filled, so that the constructor
fails late; whole-volume with a degenerate normalizer, so that every run fails
after `infer()`), two grids, two elements. About 1 140 000 states, a minute.

- `RunFillsItsField`: when `run()` returns, each of its layers holds this run's
  prediction in metric units, converted exactly once.
- `RunReadsLiveMemory`: whatever constructors threw and objects were dropped
  before, a run the session accepts finds everything it is bound to alive.
- `WritesFitTheLayers`: a layer is as large as what is written into it.
- `StoredIsMetric`: what is stored after a run that returned is metric, in layers
  of earlier runs, of copies and behind mirrors too.

All but `WritesFitTheLayers` hold under conditions the code does not see to. Each is
a constant of the module, and two have a configuration that drops them and ends in
a counterexample.

- `LastMadeOnly`: an application runs the `FieldInference` it made last over a
  session. Otherwise `run()` of the earlier one writes into the layers of the later
  one and inverts its own once more; nothing in field_inference.hpp says so. One the
  application makes itself, by binding an output of the session elsewhere, is kept
  out by `CallerBinds`.
- `WithTrunk`: it runs one only while the session's trunk is enabled. `run()` inverts
  every layer whether or not this run wrote it (field_inference.cpp:215-231), so with
  the trunk skipped the metric values of the run before are inverted again and
  `run()` returns, against field_inference.hpp:71. `MCFieldInferenceSkipped.cfg` shows
  it, for `RunLeavesMetric`, which asks only for the units and not for a fresh prediction.
- `BoundReturns`: a constructor that has bound every output returns. It still lists
  the caller's inputs then (field_inference.cpp:195-199), which allocates and may
  throw; its positions are destroyed, the session misses nothing, and another
  object's `run()` reads them (`MCFieldInferenceOutOfMemory.cfg`). A constructor that
  throws earlier leaves some output unbound and the session refuses to run.

`FieldInferenceProofs` proves the four and the types for any packages, fields,
objects and numbers of elements: `WritesFitTheLayers` without a condition,
`RunReadsLiveMemory` where `LastMadeOnly` and `BoundReturns` hold, `RunFillsItsField`
and `StoredIsMetric` where `WithTrunk` does as well, these three for an application
that binds no output itself. None is inductive.

- `IInv` (sizes) says how far a constructor has come: which layers it has already
  checked or added at the package's width, and that a layer bound earlier still
  has the session's grid.
- `LInv` (lifetimes) says what the check at the start of `infer()` is worth: what is
  bound was bound by the object made last, or by the one being made while some
  output is still unbound or its list still to be made, so a constructor that threw
  after binding leaves a session that refuses to run.
- `Apart` says that an output is bound to a mirror or to some field's layer of its
  own name.
- `UInv` (units) follows the inversion loop. At element `j` of output `i`, what the
  loop has passed is metric and written by this run, the rest of what the run wrote
  is as the graph emitted it (`Converted`); a field is `settled` only in metric
  units; what needs no inversion is never in another unit; and a mirror stands in
  for such outputs only (`MirrorsPlain`). The last is what makes `StoredIsMetric`
  hold behind mirrors: a run that inverts a layer it did not write would show there.

## The package file (`Codec`, `Container`, `PackageFile`)

`Codec` translates the container's writer and reader: every part that encodes
itself, the full read, the listing that skips payloads, and the container's share
of `validate`. Bytes are abstracted to tokens, one for a primitive, a string or a
record of fixed layout; lists, sized regions, optional parts, kinds and the digest
are kept, as these decide what a reader makes of bytes it does not know.

`Container` puts a file and two processes around it. `write_file` truncates the
file and writes chunk by chunk at an offset of its own; readers read chunk by
chunk; a write may fail, a process die, and the machine lose power and with it a
tail of what was written. There is no lock and no rename in the code, so all of
this interleaves. Nor is there a flush: `write_file` tests its stream after
`out.write` and returns (package.cpp:393-395), what the stream still holds is written
by its destructor, and a failure there is nobody's. `TailLost` is that outcome, under
the constant `FlushFails`: the call returns and the last chunk is not in the file.

`PackageFile` says in one page what such a file can promise: it is a register of
packages that may be found damaged but never lies. After a write that overlapped no
other and returned, a reader gets that package, or, where the last flush may fail,
is refused; what was torn, overlapped or cut is refused or is one of the packages
somebody wrote. `IsARegister` is the refinement. `IsAStore` is the stronger one, in
which a write that returned is stored, as rf3m_roundtrip.cpp:650 has it:
`MCContainerFlush.cfg` ends with a write that returned and was not.

Run `container`: two processes, three packages (one that `validate` refuses),
files left by other producers at the start (empty, the renumbered version, a
version with fields this build does not know, an unknown version, a package
composed twice, an unsigned body, the first sixteen tokens of a write that was never
finished). A chunk is 16 tokens, so that the plain package takes three of them and
two packages share some but not all; the last flush may fail. 77 574 states.

- `ListingAgrees`: the listing tells what the full read finds, unknown fields,
  kinds and ranges included.
- `IsARegister` would fail if, say, the digest did not cover the blocks.

The second half of `PackageProofs` proves the refinement (`FileIsARegister`) and the
types (`FileTypes`) for any number of processes, any packages, any files found at
the start and any size of a chunk. What reading makes of a list of tokens is a fold,
about which nothing can be proved here for every list; the proof needs one fact of
it, `RoundTrips`, its only hypothesis: what write makes of a package that validate
accepts is read as that package. `MCContainer` states it as an assumption, so TLC
evaluates it on the packages of the run, everything optional in them included.

That is enough because the digest is one token of the header and covers all that
follows. Whatever mixture of writes, gaps and cuts a file is, what it reads as, if
it reads at all, is what the digest in it was made of (`ReadIsSigned`): `Signed`
names that package whether or not the rest of it is there. The inductive invariant
`FileInv` says that the file, and what every reader has of it so far, is `Signed`
by a package somebody handed over, or by none (`NeverForged`); the lemmas
`TornIsSigned`, `OverlaidIsSigned` and `ContinuedIsSigned` show that losing a tail,
writing over a part and reading on keep this, as each takes the third token from
one source. For the other half of the promise, that an undisturbed write is
stored unless its tail is lost and an undisturbed read is exact, `FileInv` keeps what such a process has
moved so far as a prefix (`Undisturbed`, `PrefixGrows`). `FileInv` was model-checked
on the instance of the run before it was proved. `RegisterNext` then maps each step:
a chunk written or read is a stutter of the register, every other action one of its
actions.

## The C ABI (`CApi`)

State. `heap` the library's objects, `var` the plugin's move-only wrappers, `refs`
the shares in each import, `shared` and `mine` whether a descriptor or handle is
open and whether the plugin takes it to be its own, `message` the thread-local
last error, `failing` a failed call whose wrapper has yet to ask for its message.

Run `capi`: two threads, a session, two memories and a listing, three addresses
the heap reuses, one allocation shared by descriptor and one by handle. 220 954
states.

- `HandlesHaveOneOwner`: however wrappers are made, moved over one another,
  overwritten and destroyed, no object is freed twice or lost.
- `ImportsLiveWhileHeld`: an import is mapped while a handle or a session's
  binding holds it, and no longer.
- `MessageIsOfItsCall`: an exception carries its own call's message.

`CApiProofs` proves the three and the types for any number of threads, wrappers,
names and addresses. `HandlesHaveOneOwner` comes first: only the object a wrapper owns
changes, and the shares of all others stay. `ImportsLiveWhileHeld` then counts: the
holders of an import are pairs of a handle and a share, a finite set, and exchanging
one object's shares for another's changes its cardinality by exactly what `refs` is
changed by. A wrapper is taken to be used by one thread.

## Python (`PySession`)

State. What a script's variables refer to, its `Memory` objects, the field's
device mirrors, what the C++ session is bound to, `bound_`, and for each thread
what its `infer()` works on. An array is collected as soon as nothing refers to it.
Every call holds the interpreter's lock and is one step; `infer()` alone lets go
of it, so it is two, and any call of any other thread may come between. `disturbed`
observes which of the threads inside have had the session rebound under them.

What `to_memory` takes (`Accepted`) depends on how an array is told: of an array
interface it asks strides and type, of a torch tensor whether it is contiguous and
not what its elements are (bindings.cpp:229-241), of a plain buffer its format and
not its strides (bindings.cpp:244-250). The docstring at 624-626 promises
contiguous float32 of all (`WrapsDenseFloats`). `WrappedIsDense` proves it where
every array answers an array interface; `MCPySessionLayouts.cfg` ends with a tensor
or a buffer that does not.

Run `python`: two threads, two dense tensors and a strided array, two `Memory`
objects, two names used on both sides. About 338 000 states.

- `InferredIntoTheLiving`: what a running `infer()` works on is not collected, whatever
  other threads forget, wrap, fail at or infer, unless one of them rebinds the session
  or chooses a grid meanwhile.
- `PinsOnlyWhatIsBound`: `bound_` keeps nothing that is not bound, unless
  `set_voxel_grid` threw.

The exception in the first is the code's: nothing keeps a second thread's `bind` from
letting go of the array the first one's `infer()` writes, although the comment at
bindings.cpp:253-254 makes none. `MCPySessionRebound.cfg` asks without it
(`CollectedNever`) and ends with such an array. `KeepsLent` is the script's to keep:
arrays put behind a mirror, or bound by way of `get_device_memory`, are kept by the
script, since the bindings keep the reference and not its owner.

`PySessionProofs` proves both for any scripts that do so and any number of threads.
The invariant says that a slot is bound to what its owner is, or to something lent,
and that what a running and undisturbed `infer()` works on is what is bound.

## What is proved, what is only checked

Proved by TLAPS, for every value of the constants that satisfies the named
assumptions: every property of `adopt`, `session`, `builder`,
`backends`, `kernel`, `field`, `capi`, `python` and `container` (but the listing), the
refinement of `PackageFile` among them. Each follows from an inductive invariant:
initial states have it, each action keeps it (one step of the proof for each), and it
implies the property. The invariants were model-checked on the instances of the runs
first. Theorems with a condition beyond the assumptions state
it: `NothingLeaksHolds`, `LaunchCoversTheRowsHolds`, `RunsOnTheLiving`,
`RunsFillTheirField`, `FilesAreMetric`, `BoundOnItsDevice`, `InferredLive`,
`WrappedIsDense`, `FileTypes`, `FileIsARegister` and those of `adopt`; each section above says why the condition is
there.

Checked by TLC on the instances above only:

- `ListingAgrees`, and `RoundTrips`, which the theorems about the file take as their
  hypothesis: reading is defined by folds over a list of tokens, and what those yield
  for every input is an induction over data.

Deadlock is checked everywhere but in `builder`, where a bounded package may be
full and a producer has nothing left to call.

## Where documents and code differ

With a run: `adopt_recycled`, `backends_stray` and `backends_directml`, above.

With a configuration that ends in a counterexample, kept beside the runs for whoever
changes that code (`tlc -config <it> <the module of its run>`):

| configuration | module | property | the code | what is said |
|---|---|---|---|---|
| `MCFieldInferenceSkipped.cfg` | `MCFieldInference` | `RunLeavesMetric` | `run()` inverts layers a skipped trunk did not write (field_inference.cpp:215-231) | field_inference.hpp:71, after it the layers are in metric units |
| `MCFieldInferenceOutOfMemory.cfg` | `MCFieldInference` | `RunReadsLiveMemory` | the constructor may throw once everything is bound (field_inference.cpp:197-198) | field_inference.hpp:45-48, the object owns the bindings' lifetime |
| `MCContainerFlush.cfg` | `MCContainer` | `IsAStore` | the last flush is the destructor's (package.cpp:393-395) | rf3m_roundtrip.cpp:650, a package survives the trip |
| `MCPySessionRebound.cfg` | `MCPySession` | `CollectedNever` | `bind` beside a running `infer()` (bindings.cpp:278-296) | bindings.cpp:253-254, nothing is collected while it runs |
| `MCPySessionLayouts.cfg` | `MCPySession` | `WrapsDenseFloats` | dtype of a tensor, strides of a buffer (bindings.cpp:229-250) | bindings.cpp:624-626, anything but contiguous float32 raises |
| `MCBuilderRefused.cfg` | `MCBuilder` | `BuiltRunsSomewhere` | code without a launch is accepted (package.cpp:315-323) | builder.hpp:149-151, what cannot run is never written |
| `MCKernelRows.cfg` | `MCKernel` | `LaunchCoversTheRows` | counts cut to 32 bits (composition.cpp:110, cuda.cpp:370) | composition.hpp:160-161, `ceil(rows / block_size)` |

Met while modelling and described here only:

- After a `set_voxel_grid` that threw (onnx.cpp:353-357), `infer()` passes the check
  at onnx.cpp:376-391, since attached tensors are never missing, although the comment
  at 392-394 says everything was bound when the grid was set.
- session.hpp:175-177 says a skipped stage's output stays as the last run left
  it; a grid change in between allocates it anew (`Session` keeps the promise to a
  single grid).
- builder.hpp:45-47 speaks of one buffer of weights per stage; `weights()` called
  twice adds a second block, and the first is the one that is read
  (builder.cpp:191-192, package.cpp:231-232).
- session.hpp:196 says a specialised block wins over the graph; the graph wins
  (onnx.cpp:517-523).
- c_api.h:222-224 says the session normalizes inputs; session.hpp:138-145 says it
  does not, and it does not.
- c_api.h:126-127 says a Vulkan descriptor is consumed on success. A failed import
  may have consumed it as well, and one served from the registry does not consume it
  (adopt.cpp:136-147).
- package.hpp:73 and :321 ask for an ONNX block named `trunk`; `validate` does not
  (package.cpp:316-323).
- compute_backend.hpp:62-63 says host memory is handed back as it is; device backends
  refuse it (adopt.cpp:101). For DirectML, :96-102 says intermediates live in the
  backend's own domain; they live on the host (directml.cpp:77-82).
- session.hpp:75 and :90 say `Device::automatic()` is the backend's current device; it
  is always 0.
- adopt.cpp:118-121 puts "impossible" pairings before those that are merely not
  compiled in; memory without an origin is reported before either.

## Not modelled

- The command line tools and the examples call the library once, in order, and
  keep no state of their own.
- The builder's calls that only fill in descriptors and metadata; the getters of
  the C ABI and the calls that hand on to the session unchanged; the conversion of
  metadata to Python dictionaries. They read, or copy a value, and touch nothing the
  properties speak of.
- The checks of null and zero arguments in the graphics interop descriptors.
- The arithmetic of normalizers and positions: a value's unit is kept, its number
  is not.
- Regions at offsets in one exported handle, in `Adopt`.
- Hazards without a property: a descriptor that `bind` consumes before it finds the
  tensor missing (onnx.cpp:751), for which no document promises anything; a grid of
  2^63 voxels (onnx.cpp:353), which no machine can hold; what a disabled stage still
  owes (onnx.cpp:376), which a property could only repeat; a longer reference served by
  a shorter import (adopt.cpp:27) and a second block of weights (builder.cpp:192), since
  the models give a reference one size and keep no count of elements; a package every
  session refuses, and arrays that are not dense floats, which the code lets through as
  the table above says.

What could come next: offsets in `Adopt`.
