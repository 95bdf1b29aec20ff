----------------------------- MODULE PySession -----------------------------
(***************************************************************************)
(* The Python bindings of a session and of a field's device mirrors        *)
(* (src/python/bindings/bindings.cpp).                                     *)
(*                                                                         *)
(* A session reads and writes Python arrays by pointer, and an array is    *)
(* collected as soon as no variable of the script and no object of the     *)
(* bindings refers to it.  What keeps a bound array alive is `bound_`, the *)
(* map of owners PySession keeps beside the bindings of the C++ session.   *)
(* Every call holds the interpreter's lock, and so is one step; infer()    *)
(* alone releases it, and other threads run scripts meanwhile.             *)
(***************************************************************************)
EXTENDS FiniteSets

CONSTANTS
  Thread,
  Array,        \* the arrays scripts make
  Interfaced,   \* those that answer an array interface: NumPy's, CUDA tensors
  Tensors,      \* those that answer as a torch tensor does; the rest are buffers
  Dense,        \* those without strides of their own
  Float32,      \* those of 32-bit floats
  Memory,       \* the Memory objects scripts hold
  Layer,        \* the field's layers
  Name,         \* what tensors are called, on either side
  Nothing,
  KeepsLent     \* do scripts keep the arrays the bindings have no owner of?

Side == {"in:", "out:"}
Key  == Side \X Name

ASSUME PySessionAssumption ==
  /\ Interfaced \cup Tensors \cup Dense \cup Float32 \subseteq Array
  /\ Nothing \notin Array
  /\ KeepsLent \in BOOLEAN

VARIABLES
  named,    \* the arrays a variable of a script refers to
  memory,   \* [Memory -> the Memory object a script holds, or Nothing]
  mirror,   \* [Layer -> the array behind the layer's device mirror, or Nothing]
  bound,    \* [Key -> the array the C++ session reads or writes, or Nothing]
  owners,   \* bound_: [Key -> the array it keeps, or Nothing]
  grid,     \* has a grid been chosen?
  inside,   \* [Thread -> the arrays its infer() works on, or Nothing]
  disturbed,\* observer: the threads inside while another rebinds the session
  refused   \* observer: set_voxel_grid threw and nothing has cleared bound_ since

vars == <<named, memory, mirror, bound, owners, grid, inside, disturbed, refused>>

\* PyMemory: the reference, and the Python object that owns what it refers to.
PyMemory == [ref : Array, owner : Array \cup {Nothing}]

\* What is never collected: anything a script or the bindings refer to.
Alive(a) ==
  \/ a \in named
  \/ \E m \in Memory : memory[m] # Nothing /\ memory[m].owner = a
  \/ \E k \in Key : owners[k] = a

\* What the bindings refer to without an owner: the device mirrors, and what
\* was wrapped or bound by way of one.
Lent ==
  {mirror[l] : l \in Layer} \cup {bound[k] : k \in {j \in Key : owners[j] = Nothing}}
    \cup {memory[m].ref : m \in {i \in Memory : memory[i] # Nothing /\ memory[i].owner = Nothing}}

Inside == {t \in Thread : inside[t] # Nothing}

\* A thread may make a call on the session while others are inside infer().
Calls(t) == inside[t] = Nothing

----------------------------------------------------------------------------
(* Scripts                                                                 *)

\* An array that is nowhere referred to is a new one.
Make(a) ==
  /\ ~Alive(a)
  /\ \A t \in Inside : a \notin inside[t]
  /\ \A k \in Key : bound[k] # a
  /\ \A l \in Layer : mirror[l] # a
  /\ named' = named \cup {a}
  /\ UNCHANGED <<memory, mirror, bound, owners, grid, inside, disturbed, refused>>

\* del: the variable goes, and the array with it if it was the last to refer to it.
Forget(a) ==
  /\ a \in named
  /\ KeepsLent => a \notin Lent
  /\ named' = named \ {a}
  /\ UNCHANGED <<memory, mirror, bound, owners, grid, inside, disturbed, refused>>

\* What to_memory asks depends on how an array is told: of an array interface
\* its strides and its type, of a tensor its strides only, of a buffer its
\* format only.
Accepted ==
  {a \in Array : IF a \in Interfaced THEN a \in Dense \cap Float32
                 ELSE IF a \in Tensors THEN a \in Dense
                 ELSE a \in Float32}

\* to_memory: an array is wrapped or refused; a Memory object is taken with the
\* owner it has.
\* Mutant: a strided array is taken as though it were dense.
AnyLayout == {[ref |-> a, owner |-> a] : a \in named}
Wrappings == {[ref |-> a, owner |-> a] : a \in named \cap Accepted}
ToMemory  == Wrappings \cup ({memory[m] : m \in Memory} \ {Nothing})

\* memory.Memory(buffer)
Wrap(m, p) ==
  /\ memory[m] = Nothing
  /\ p \in ToMemory
  /\ memory' = [memory EXCEPT ![m] = p]
  /\ UNCHANGED <<named, mirror, bound, owners, grid, inside, disturbed, refused>>

ForgetMemory(m) ==
  /\ memory[m] # Nothing
  /\ memory' = [memory EXCEPT ![m] = Nothing]
  /\ UNCHANGED <<named, mirror, bound, owners, grid, inside, disturbed, refused>>

----------------------------------------------------------------------------
(* The field's mirrors                                                     *)

\* set_device_memory: the reference alone, without its owner.
SetDeviceMemory(l, m) ==
  /\ memory[m] # Nothing
  /\ KeepsLent => memory[m].ref \in named
  /\ mirror' = [mirror EXCEPT ![l] = memory[m].ref]
  /\ UNCHANGED <<named, memory, bound, owners, grid, inside, disturbed, refused>>

\* get_device_memory: a Memory whose owner is None.
GetDeviceMemory(l, m) ==
  /\ mirror[l] # Nothing /\ memory[m] = Nothing
  /\ memory' = [memory EXCEPT ![m] = [ref |-> mirror[l], owner |-> Nothing]]
  /\ UNCHANGED <<named, mirror, bound, owners, grid, inside, disturbed, refused>>

----------------------------------------------------------------------------
(* The session                                                             *)

Emptied == [k \in Key |-> Nothing]

\* set_voxel_grid: the session drops its bindings first, then bound_ is cleared.
\* Mutant: bound_ is left as it is.
Kept == owners
OwnersOnceSet == Emptied
SetVoxelGrid(t) ==
  /\ Calls(t)
  /\ grid' = TRUE
  /\ bound' = Emptied
  /\ owners' = OwnersOnceSet
  /\ disturbed' = Inside
  /\ refused' = FALSE
  /\ UNCHANGED <<named, memory, mirror, inside>>

\* It throws: a grid it will not have leaves everything, want of memory leaves
\* no binding.  Either way bound_ is not reached.
\* Mutant: bound_ is cleared on the way in.
ClearedFirst == Emptied
OwnersOnceRefused == owners
SetVoxelGridThrows(t) ==
  /\ Calls(t)
  /\ \/ UNCHANGED <<grid, bound, disturbed>>
     \/ grid' = TRUE /\ bound' = Emptied /\ disturbed' = Inside
  /\ owners' = OwnersOnceRefused
  /\ refused' = TRUE
  /\ UNCHANGED <<named, memory, mirror, inside>>

\* bind: the session's own bind, which may throw and then changes nothing; then
\* the owner takes the place of the one before it, under the side and the name.
BySideAndName(key, p) == [owners EXCEPT ![key] = p.owner]

Bind(t, key, p) ==
  /\ Calls(t)
  /\ grid
  /\ p \in ToMemory
  /\ bound' = [bound EXCEPT ![key] = p.ref]
  /\ owners' = BySideAndName(key, p)
  /\ disturbed' = Inside
  /\ UNCHANGED <<named, memory, mirror, grid, inside, refused>>

\* infer: nothing is missing, and the lock is released for as long as it takes.
Infer(t) ==
  /\ Calls(t)
  /\ grid
  /\ \A k \in Key : bound[k] # Nothing
  /\ inside' = [inside EXCEPT ![t] = {bound[k] : k \in Key}]
  /\ UNCHANGED <<named, memory, mirror, bound, owners, grid, disturbed, refused>>

\* It returns or throws, with the lock taken again.
Return(t) ==
  /\ inside[t] # Nothing
  /\ inside' = [inside EXCEPT ![t] = Nothing]
  /\ disturbed' = disturbed \ {t}
  /\ UNCHANGED <<named, memory, mirror, bound, owners, grid, refused>>

----------------------------------------------------------------------------

Init ==
  /\ named = {}
  /\ memory = [m \in Memory |-> Nothing]
  /\ mirror = [l \in Layer |-> Nothing]
  /\ bound = Emptied
  /\ owners = Emptied
  /\ grid = FALSE
  /\ inside = [t \in Thread |-> Nothing]
  /\ disturbed = {}
  /\ refused = FALSE

Next ==
  \/ \E a \in Array : Make(a) \/ Forget(a)
  \/ \E m \in Memory : ForgetMemory(m)
  \/ \E m \in Memory, p \in ToMemory : Wrap(m, p)
  \/ \E l \in Layer, m \in Memory : SetDeviceMemory(l, m) \/ GetDeviceMemory(l, m)
  \/ \E t \in Thread : \/ SetVoxelGrid(t) \/ SetVoxelGridThrows(t) \/ Infer(t) \/ Return(t)
                       \/ \E key \in Key, p \in ToMemory : Bind(t, key, p)

Spec == Init /\ [][Next]_vars

----------------------------------------------------------------------------
(* Properties                                                              *)

TypeOK ==
  /\ named \subseteq Array
  /\ memory \in [Memory -> PyMemory \cup {Nothing}]
  /\ mirror \in [Layer -> Array \cup {Nothing}]
  /\ bound \in [Key -> Accepted \cup {Nothing}]
  /\ owners \in [Key -> Array \cup {Nothing}]
  /\ grid \in BOOLEAN /\ refused \in BOOLEAN
  /\ inside \in [Thread -> (SUBSET Array) \cup {Nothing}]
  /\ disturbed \subseteq Inside

\* "Wrap a buffer.  Raises ValueError if it is not contiguous float32"
\* (bindings.cpp:624-626): what a Memory object refers to may be read and
\* written as one run of floats.
WrapsDenseFloats ==
  \A m \in Memory : memory[m] # Nothing => memory[m].ref \in Dense \cap Float32

\* "Owns the bound Python objects, so what inference writes into cannot be
\* collected while it runs" (bindings.cpp:253-254): what a running infer() works
\* on is alive, whatever scripts of any thread forget, wrap, infer or fail at
\* meanwhile, as long as none rebinds the session or chooses a grid beside it
\* (disturbed) and scripts keep what the bindings have no owner of (KeepsLent).
\* Nothing in bindings.cpp:278-296 sees to the former.
InferredIntoTheLiving ==
  \A t \in Inside \ disturbed : \A a \in inside[t] : Alive(a)

\* The same as the comment has it, rebound or not.
CollectedNever == \A t \in Inside : \A a \in inside[t] : Alive(a)

\* bound_ pins nothing the session has let go of, "rather than pinning arrays
\* nothing is bound to any more" (bindings.cpp:262-264), but for what a grid
\* that was refused has left there.
PinsOnlyWhatIsBound ==
  ~refused => \A k \in Key : owners[k] \in {bound[k], Nothing}

=============================================================================
