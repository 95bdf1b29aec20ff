------------------------------- MODULE Kernel -------------------------------
(***************************************************************************)
(* A stage that is compiled code: `KernelStage` of src/src/backends/       *)
(* cuda.cpp over the device memory of DeviceMemory, with the session's     *)
(* share in it (src/src/backends/onnx.cpp: build_stage, set_voxel_grid and *)
(* SharedBuffer::repeat).                                                  *)
(*                                                                         *)
(* A stage belongs to one session, and one thread at a time calls it;      *)
(* threads that allocate, import and let go of memory run beside it.       *)
(***************************************************************************)
EXTENDS DeviceMemory

CONSTANTS
  Stage,
  NumPorts,      \* the reads, then the writes
  RowCounts,     \* the row counts a session asks for
  Word,          \* 2^32, in small
  BlockSizes,    \* threads per block, as packages record them
  Recorded,      \* blocks per grid, as packages record them; 0 is derived
  RepeatCounts,  \* how many times a buffer holds what one run writes
  EntryPointsExist \* does every module hold the entry point its launch names?

Port == 1..NumPorts

ASSUME KernelAssumption ==
  /\ NumPorts \in Nat /\ Word \in Nat \ {0, 1}
  /\ RowCounts \subseteq Nat \ {0} /\ RepeatCounts \subseteq Nat \ {0}
  /\ BlockSizes \subseteq 0..Word - 1 /\ Recorded \subseteq 0..Word - 1
  /\ EntryPointsExist \in BOOLEAN
  /\ None \notin Stage

VARIABLES
  stage,    \* [Stage -> the object's members, or None]
  phase,    \* [Stage -> what the call that is in it does next]
  within,   \* [Thread -> the stage whose call it is in, or None]
  modules,  \* the driver: the stages whose module is loaded
  repeat    \* [Thread -> SharedBuffer::repeat in progress, or None]

stageVars == <<stage, phase, within, modules, repeat>>
vars == <<memoryVars, stageVars>>

\* The members of a stage the launch reads.  args are the values arguments_
\* points at: the weights, then the ports; None stands for a null address.
Argument == {0} \cup Port
KernelStage ==
  [device : Device, rows : RowCounts \cup {0}, block : BlockSizes, grid : Recorded,
   bound : [Port -> Ref \cup {None}], weights : Ref \cup {None},
   args : [Argument -> Region \cup {None}], count : 0..Word - 1]

ASSUME StageAssumption == None \notin KernelStage

NothingBound == [p \in Port |-> None]

Phase ==
  {"none", "construct", "load", "function", "weights", "upload", "layout", "idle",
   "begin", "launch", "sync", "repeat", "leave", "unload", "dead"}

\* The shares a stage has in references.
SharedBy(k) == IF k = None THEN {} ELSE {k.weights} \cup {k.bound[p] : p \in Port}

\* Of the references `rs`, those nobody shares, the stages being `stages`.
Unshared(rs, stages) ==
  {r \in rs \cap Ref : r \notin held /\ \A s \in Stage : r \notin SharedBy(stages[s])}

\* A thread between calls; one that calls a stage nothing else is in; one whose
\* call is in a stage, with no reference to see to first.
Free(t)        == Idle(t) /\ within[t] = None
Enters(t, s)   == Free(t) /\ phase[s] = "idle"
Turn(t, s, op) == within[t] = s /\ Idle(t) /\ phase[s] = op

\* What the call does next, or that it has returned.
Goes(t, s, op) ==
  phase' = [phase EXCEPT ![s] = op] /\ within' = [within EXCEPT ![t] = s]
Returns(t, s, op) ==
  phase' = [phase EXCEPT ![s] = op] /\ within' = [within EXCEPT ![t] = None]

----------------------------------------------------------------------------
(* Arguments and launches                                                  *)

\* The address of what is bound, null where nothing is.
AddressOf(r) == IF r = None THEN None ELSE ref[r].range

Shared(k, p) == IF p = 0 THEN k.weights ELSE k.bound[p]

\* rebuild_arguments; the row count is cast to 32 bits.
\* Mutant: an argument that has been filled in is left as it is.
FilledOnce(k) ==
  [k EXCEPT !.args = [p \in Argument |->
                        IF k.args[p] # None THEN k.args[p] ELSE AddressOf(Shared(k, p))],
            !.count = k.rows % Word]
Arguments(k) ==
  [k EXCEPT !.args = [p \in Argument |-> AddressOf(Shared(k, p))], !.count = k.rows % Word]

\* KernelLaunch::get_grid_for, its x: ceil(rows / block) when it is derived.
\* Mutant: the last block, which is not full, is left out.
FullBlocks(rows, block, grid) ==
  IF grid # 0 THEN grid ELSE (rows \div (IF block = 0 THEN 1 ELSE block)) % Word
GridFor(rows, block, grid) ==
  LET b == IF block = 0 THEN 1 ELSE block
  IN IF grid # 0 THEN grid ELSE ((rows + b - 1) \div b) % Word

----------------------------------------------------------------------------
(* Building and destroying a stage                                         *)

KernelInit ==
  /\ MemoryInit
  /\ stage = [s \in Stage |-> None]
  /\ phase = [s \in Stage |-> "none"]
  /\ within = [t \in Thread |-> None]
  /\ modules = {}
  /\ repeat = [t \in Thread |-> None]

\* build_stage begins: the constructor.
BuildStage(t, s, d, block, grid) ==
  /\ Free(t) /\ phase[s] = "none"
  /\ stage' = [stage EXCEPT ![s] =
       [device |-> d, rows |-> 0, block |-> block, grid |-> grid,
        bound |-> NothingBound, weights |-> None,
        args |-> [p \in Argument |-> None], count |-> 0]]
  /\ Goes(t, s, "construct")
  /\ UNCHANGED <<memoryVars, modules, repeat>>

\* cuModuleLoadData
Load(t, s) ==
  /\ Turn(t, s, "load") /\ Goes(t, s, "function")
  /\ modules' = modules \cup {s}
  /\ UNCHANGED <<memoryVars, stage, repeat>>

\* cuModuleGetFunction; the stage is constructed and its weights are allocated.
GetFunction(t, s, w, bytes) ==
  /\ Turn(t, s, "function") /\ Goes(t, s, "weights")
  /\ Allocate(t, w, stage[s].device, bytes)
  /\ stage' = [stage EXCEPT ![s].weights = w]
  /\ UNCHANGED <<modules, repeat>>

\* The module cannot be loaded, or has no such entry point.  A constructor that
\* throws runs no destructor.
LoadFails(t, s) ==
  /\ Turn(t, s, "load") \/ (Turn(t, s, "function") /\ ~EntryPointsExist)
  /\ Goes(t, s, "dead")
  /\ UNCHANGED <<memoryVars, stage, modules, repeat>>

\* The weights are allocated: they are the stage's, and nobody else's yet.
KeepWeights(t, s) ==
  LET w == stage[s].weights
  IN /\ within[t] = s /\ phase[s] = "weights"
     /\ Calls(t, "return", w) /\ Ends(t, w, "live")
     /\ Goes(t, s, "upload")
     /\ UNCHANGED <<driver, ref, held, stage, modules, repeat>>

\* There is no memory for them, or for what another thread asks for: a stage
\* that waits for its weights is destroyed.
AllocateFails(t, r) ==
  /\ DriverFails(t, r)
  /\ IF within[t] = None THEN UNCHANGED <<stage, phase>>
     ELSE /\ stage' = [stage EXCEPT ![within[t]].weights = None]
          /\ phase' = [phase EXCEPT ![within[t]] = "leave"]
  /\ UNCHANGED <<within, modules, repeat>>

\* The upload of the weights, on their device.
Upload(t, s) ==
  /\ Turn(t, s, "upload") /\ Goes(t, s, "layout")
  /\ current' = IF ref[stage[s].weights].kind = "empty" THEN current
                ELSE [current EXCEPT ![t] = ref[stage[s].weights].device]
  /\ UNCHANGED <<handles, reserved, mapped, usable, ref, todo, held, mine, at,
                 stage, modules, repeat>>

\* They cannot be uploaded: they go, and then the stage.
UploadFails(t, s) ==
  /\ Turn(t, s, "upload") /\ Goes(t, s, "leave")
  /\ ref[stage[s].weights].kind # "empty"
  /\ stage' = [stage EXCEPT ![s].weights = None]
  /\ Destroy(t, {stage[s].weights})
  /\ UNCHANGED <<driver, held, modules, repeat>>

\* The session is destroyed: ~KernelStage unloads the module, then its members
\* go, and what it alone shares.
DestroyStage(t, s) ==
  /\ Enters(t, s) /\ Goes(t, s, "leave")
  /\ UNCHANGED <<memoryVars, stage, modules, repeat>>

\* cuModuleUnload
Unload(t, s) ==
  LET without == [stage EXCEPT ![s].weights = None, ![s].bound = NothingBound]
  IN /\ Turn(t, s, "unload") /\ Goes(t, s, "dead")
     /\ modules' = modules \ {s}
     /\ stage' = without
     /\ Destroy(t, Unshared(SharedBy(stage[s]), without))
     /\ UNCHANGED <<driver, held, repeat>>

\* The object is no more.
Dead(t, s) ==
  /\ Turn(t, s, "dead") /\ Returns(t, s, "none")
  /\ stage' = [stage EXCEPT ![s] = None]
  /\ UNCHANGED <<memoryVars, modules, repeat>>

\* The application or a session's buffer lets go of a reference.
Drop(t, r) ==
  /\ Free(t) /\ r \in held
  /\ held' = held \ {r}
  /\ IF \E s \in Stage : r \in SharedBy(stage[s]) THEN UNCHANGED <<ref, todo, mine, at>>
     ELSE Destroy(t, {r})
  /\ UNCHANGED <<driver, stageVars>>

----------------------------------------------------------------------------
(* Driving a stage                                                         *)

\* set_rows: the bindings of the old row count go.
SetRows(t, s, rows) ==
  LET unbound == [stage EXCEPT ![s].rows = rows, ![s].bound = NothingBound]
  IN /\ Enters(t, s) /\ Goes(t, s, "layout")
     /\ stage' = unbound
     /\ Destroy(t, Unshared(SharedBy(stage[s]), unbound))
     /\ UNCHANGED <<driver, held, modules, repeat>>

\* bind: by the session, which has chosen the rows and compared the devices.
Bind(t, s, p, r) ==
  LET rebound == [stage EXCEPT ![s].bound[p] = r]
  IN /\ Enters(t, s) /\ Goes(t, s, "layout")
     /\ stage[s].rows # 0
     /\ r \in held /\ ref[r].device = stage[s].device
     /\ stage' = rebound
     /\ Destroy(t, Unshared(SharedBy(stage[s]), rebound))
     /\ UNCHANGED <<driver, held, modules, repeat>>

\* rebuild_arguments, with which set_rows, bind and set_weights end.
Layout(t, s) ==
  /\ Turn(t, s, "layout") /\ Returns(t, s, "idle")
  /\ stage' = [stage EXCEPT ![s] = Arguments(@)]
  /\ UNCHANGED <<memoryVars, modules, repeat>>

\* run, and the repeat of the buffer it wrote: refused with anything unbound.
\* Mutant: the device is taken to be current still.
TakenAsCurrent == "launch"
FirstOfRun == "begin"
Run(t, s, n) ==
  /\ Enters(t, s) /\ Goes(t, s, FirstOfRun)
  /\ stage[s].rows # 0
  /\ \A p \in Port : stage[s].bound[p] # None
  /\ repeat' = [repeat EXCEPT ![t] = [count |-> n, filled |-> 1, blocks |-> {1}]]
  /\ UNCHANGED <<memoryVars, stage, modules>>

\* use_primary_context in the constructor and in run, cudaSetDevice in the
\* destructor.
Activate(t, s) ==
  /\ \/ Turn(t, s, "construct") /\ Goes(t, s, "load")
     \/ Turn(t, s, "begin") /\ Goes(t, s, "launch")
     \/ Turn(t, s, "leave") /\ Goes(t, s, "unload")
  /\ current' = [current EXCEPT ![t] = stage[s].device]
  /\ UNCHANGED <<handles, reserved, mapped, usable, ref, todo, held, mine, at,
                 stage, modules, repeat>>

\* cuLaunchKernel, cuCtxSynchronize
Launch(t, s) ==
  /\ \/ Turn(t, s, "launch") /\ Goes(t, s, "sync")
     \/ Turn(t, s, "sync") /\ Goes(t, s, "repeat")
  /\ UNCHANGED <<memoryVars, stage, modules, repeat>>

\* One copy of SharedBuffer::repeat: the filled part, as far as it goes, behind
\* itself.  Mutant: the last copy is not cut.
AllThatIsFilled(filled, count) == filled
Chunk(filled, count) == IF filled <= count - filled THEN filled ELSE count - filled
Repeat(t, s) ==
  LET r == repeat[t]
      n == Chunk(r.filled, r.count)
  IN /\ Turn(t, s, "repeat")
     /\ r.filled < r.count
     /\ repeat' = [repeat EXCEPT ![t] =
          [count |-> r.count, filled |-> r.filled + n,
           blocks |-> r.blocks \cup {r.filled + i : i \in r.blocks \cap 1..n}]]
     /\ current' = [current EXCEPT ![t] = stage[s].device]
     /\ UNCHANGED <<handles, reserved, mapped, usable, ref, todo, held, mine, at,
                    stage, phase, within, modules>>

\* run returns; or throws, because the kernel cannot be launched, or faults.
RunEnds(t, s) ==
  /\ \/ Turn(t, s, "repeat") \* all of it is filled, or a copy fails
     \/ Turn(t, s, "launch")
     \/ Turn(t, s, "sync")
  /\ Returns(t, s, "idle")
  /\ repeat' = [repeat EXCEPT ![t] = None]
  /\ UNCHANGED <<memoryVars, stage, modules>>

----------------------------------------------------------------------------

StageStep(t, s) ==
  \/ Activate(t, s) \/ Load(t, s) \/ LoadFails(t, s) \/ KeepWeights(t, s)
  \/ Upload(t, s) \/ UploadFails(t, s) \/ Layout(t, s)
  \/ Launch(t, s) \/ Repeat(t, s) \/ RunEnds(t, s)
  \/ Unload(t, s) \/ Dead(t, s)
  \/ \E w \in Ref, bytes \in {0, 1} : GetFunction(t, s, w, bytes)

StageCall(t, s) ==
  \/ \E d \in Device, b \in BlockSizes, g \in Recorded : BuildStage(t, s, d, b, g)
  \/ \E n \in RowCounts : SetRows(t, s, n)
  \/ \E p \in Port, r \in Ref : Bind(t, s, p, r)
  \/ \E n \in RepeatCounts : Run(t, s, n)
  \/ DestroyStage(t, s)

\* What a thread does that is in no stage.
MemoryCall(t) ==
  \/ \E d \in Device : AmbientSetDevice(t, d)
  \/ \E r \in Ref : \/ \E d \in Device : Allocate(t, r, d, 1) \/ Import(t, r, d)
                    \/ Import(t, r, Unspecified)
                    \/ Transfer(t, r) \/ ReturnRef(t, r)

Next ==
  \E t \in Thread :
    \/ within[t] = None /\ MemoryCall(t) /\ UNCHANGED stageVars
    \/ \E r \in Ref : \/ DriverStep(t, r) /\ UNCHANGED stageVars
                      \/ AllocateFails(t, r) \/ Drop(t, r)
    \/ \E s \in Stage : StageStep(t, s) \/ StageCall(t, s)

Spec == KernelInit /\ [][Next]_vars

----------------------------------------------------------------------------
(* Properties                                                              *)

\* Types, of the memory and of the stage.
TypeOK ==
  /\ MemoryTypeOK
  /\ stage \in [Stage -> KernelStage \cup {None}]
  /\ phase \in [Stage -> Phase] /\ within \in [Thread -> Stage \cup {None}]
  /\ modules \subseteq Stage

\* Nothing is left in the driver: an allocation, an address region and a module
\* belong to an object that exists or is in the middle of its making, whichever
\* driver call failed on the way (the unwinding of cuda.cpp:184-203, 346-352 and
\* of build_stage). Only where each module holds the entry point its launch names
\* (EntryPointsExist): where it does not, the constructor throws at cuda.cpp:257-261
\* with the module loaded, and no destructor runs to unload it.
NothingLeaks ==
  /\ \A r \in handles : ref[r] # None
  /\ \A g \in reserved : \E r \in Ref : ref[r] # None /\ ref[r].range = g
  /\ \A s \in modules : stage[s] # None

\* A driver call about an object is made with the object's device current on
\* that thread, whatever the thread did before ("A function loaded on device 1
\* and launched while device 0 is current is an invalid handle", cuda.cpp:330-334).
InItsContext ==
  \A t \in Thread :
    /\ \A s \in Stage, op \in {"load", "function", "launch", "sync", "unload"} :
         Turn(t, s, op) => current[t] = stage[s].device
    /\ \A r \in Ref, op \in MayFail \cup {"unmap", "addressFree", "free", "release"} :
         Calls(t, op, r) => current[t] = ref[r].device

\* While a kernel runs, every address it was handed is that of what is bound
\* there and is live memory, other threads letting go of theirs meanwhile.
ReadsTheBound ==
  \A s \in Stage : phase[s] = "sync" =>
    \A p \in Argument :
      LET r == Shared(stage[s], p)
      IN r \in Ref /\ Live(r) /\ stage[s].args[p] = ref[r].range

\* A derived launch covers every row, with no block to spare, and tells the
\* kernel how many rows there are: as long as they are fewer than Word.
LaunchCoversTheRows ==
  \A s \in Stage : phase[s] = "launch" =>
    LET k == stage[s]
        n == GridFor(k.rows, k.block, k.grid)
    IN k.grid = 0 /\ k.block # 0 =>
         k.count = k.rows /\ n * k.block >= k.rows /\ (n - 1) * k.block < k.rows

\* Repeating a row leaves it in every block of the buffer and in nothing else:
\* no copy reads what is not filled yet, overlaps itself or passes the end.
RepeatFillsTheBuffer ==
  \A t \in Thread : repeat[t] # None =>
    /\ repeat[t].filled <= repeat[t].count
    /\ repeat[t].blocks = 1..repeat[t].filled
=============================================================================
