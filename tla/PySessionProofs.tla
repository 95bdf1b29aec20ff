--------------------------- MODULE PySessionProofs ---------------------------
(***************************************************************************)
(* For any number of threads, arrays, names and layers: the owners beside a *)
(* session's bindings are those of the arrays it is bound to; for scripts   *)
(* that wrap nothing but what answers an array interface, those are dense   *)
(* floats; and for scripts that keep what the bindings have no owner of, an  *)
(* infer() beside which nobody rebinds the session works on the living.     *)
(***************************************************************************)
EXTENDS PySession, TLAPS

\* A Memory's owner is the array it refers to or nobody, a mirror and a Memory
\* are of arrays to_memory takes, and an owner is that of the binding where there
\* is one.
IInv ==
  /\ TypeOK
  /\ \A m \in Memory : memory[m] # Nothing =>
       memory[m].ref \in Accepted /\ memory[m].owner \in {memory[m].ref, Nothing}
  /\ \A l \in Layer : mirror[l] \in Accepted \cup {Nothing}
  /\ \A k \in Key : bound[k] # Nothing => owners[k] \in {bound[k], Nothing}
  /\ PinsOnlyWhatIsBound

\* What has no owner has a variable of a script, and an infer() under way that
\* nobody disturbed works on what is bound now.
MirrorsAreKept  == \A l \in Layer : mirror[l] # Nothing => mirror[l] \in named
BindingsAreKept == \A k \in Key : owners[k] = Nothing /\ bound[k] # Nothing => bound[k] \in named
MemoriesAreKept ==
  \A m \in Memory : memory[m] # Nothing /\ memory[m].owner = Nothing => memory[m].ref \in named
InsideIsBound ==
  \A t \in Inside \ disturbed :
    \A a \in inside[t] : \E k \in Key : a = bound[k] /\ a # Nothing
LInv == MirrorsAreKept /\ BindingsAreKept /\ MemoriesAreKept /\ InsideIsBound

----------------------------------------------------------------------------

LEMMA AcceptedArrays == Accepted \subseteq Array /\ Nothing \notin Array
  BY PySessionAssumption DEF Accepted

\* to_memory: what a call takes was accepted, and is owned by itself or by nobody.
LEMMA Taken ==
  ASSUME IInv, NEW p \in ToMemory
  PROVE  /\ p \in PyMemory /\ p.ref \in Accepted /\ p.owner \in {p.ref, Nothing}
         /\ p \in Wrappings \/ \E m \in Memory : p = memory[m] /\ memory[m] # Nothing
<1>1. CASE p \in Wrappings
  <2>1. PICK a \in named \cap Accepted : p = [ref |-> a, owner |-> a]
    BY <1>1 DEF Wrappings
  <2>2. a \in Array
    BY AcceptedArrays
  <2> QED
    BY <1>1, <2>1, <2>2 DEF PyMemory
<1>2. CASE \E m \in Memory : p = memory[m] /\ memory[m] # Nothing
  BY <1>2 DEF IInv, TypeOK
<1> QED
  BY <1>1, <1>2 DEF ToMemory

LEMMA InitInv == Init => IInv /\ LInv
<1> SUFFICES ASSUME Init PROVE IInv /\ LInv
  OBVIOUS
<1>1. TypeOK
  BY DEF Init, TypeOK, Emptied
<1>2. IInv
  BY <1>1 DEF Init, IInv, PinsOnlyWhatIsBound, Emptied
<1>3. LInv
  BY DEF Init, LInv, MirrorsAreKept, BindingsAreKept, MemoriesAreKept, InsideIsBound, Inside, Emptied
<1> QED
  BY <1>2, <1>3

LEMMA BindKeeps ==
  ASSUME IInv, NEW t \in Thread, NEW key \in Key, NEW p \in ToMemory, Bind(t, key, p)
  PROVE  IInv'
<1>1. p.ref \in Accepted /\ p.owner \in {p.ref, Nothing} /\ p.owner \in Array \cup {Nothing}
  BY Taken, AcceptedArrays
<1>2. bound' = [bound EXCEPT ![key] = p.ref] /\ owners' = [owners EXCEPT ![key] = p.owner]
  BY DEF Bind, BySideAndName
<1>3. bound' \in [Key -> Accepted \cup {Nothing}] /\ owners' \in [Key -> Array \cup {Nothing}]
  BY <1>1, <1>2 DEF IInv, TypeOK, Inside
<1>4. TypeOK'
  BY <1>3 DEF IInv, TypeOK, Inside, Bind
<1>5. \A k \in Key : bound'[k] # Nothing => owners'[k] \in {bound'[k], Nothing}
  BY <1>1, <1>2 DEF IInv, TypeOK, Inside
<1>6. PinsOnlyWhatIsBound'
  BY <1>1, <1>2 DEF IInv, TypeOK, Inside, PinsOnlyWhatIsBound, Bind
<1> QED
  BY <1>4, <1>5, <1>6 DEF IInv, Bind

LEMMA NextInv == IInv /\ [Next]_vars => IInv'
<1> SUFFICES ASSUME IInv, [Next]_vars PROVE IInv'
  OBVIOUS
<1>1. CASE \E a \in Array : Make(a)
  BY <1>1 DEF Make, IInv, TypeOK, Inside, PinsOnlyWhatIsBound
<1>2. CASE \E a \in Array : Forget(a)
  BY <1>2 DEF Forget, IInv, TypeOK, Inside, PinsOnlyWhatIsBound
<1>3. CASE \E m \in Memory : ForgetMemory(m)
  BY <1>3 DEF ForgetMemory, IInv, TypeOK, Inside, PinsOnlyWhatIsBound
<1>4. CASE \E m \in Memory, p \in ToMemory : Wrap(m, p)
  <2>1. PICK m \in Memory, p \in ToMemory : Wrap(m, p)
    BY <1>4
  <2>2. p \in PyMemory /\ p.ref \in Accepted /\ p.owner \in {p.ref, Nothing}
    BY Taken
  <2> QED
    BY <2>1, <2>2 DEF Wrap, IInv, TypeOK, Inside, PinsOnlyWhatIsBound
<1>5. CASE \E l \in Layer, m \in Memory : SetDeviceMemory(l, m)
  BY <1>5, AcceptedArrays DEF SetDeviceMemory, IInv, TypeOK, Inside, PinsOnlyWhatIsBound
<1>6. CASE \E l \in Layer, m \in Memory : GetDeviceMemory(l, m)
  <2>1. PICK l \in Layer, m \in Memory : GetDeviceMemory(l, m)
    BY <1>6
  <2> DEFINE p == [ref |-> mirror[l], owner |-> Nothing]
  <2>2. p \in PyMemory /\ p.ref \in Accepted /\ p.owner = Nothing
    BY <2>1, AcceptedArrays DEF GetDeviceMemory, IInv, TypeOK, Inside, PyMemory
  <2>3. memory' = [memory EXCEPT ![m] = p]
    BY <2>1 DEF GetDeviceMemory
  <2> HIDE DEF p
  <2> QED
    BY <2>1, <2>2, <2>3 DEF GetDeviceMemory, IInv, TypeOK, Inside, PinsOnlyWhatIsBound
<1>7. CASE \E t \in Thread : SetVoxelGrid(t)
  BY <1>7 DEF SetVoxelGrid, OwnersOnceSet, Emptied, IInv, TypeOK, Inside, PinsOnlyWhatIsBound
<1>8. CASE \E t \in Thread : SetVoxelGridThrows(t)
  BY <1>8 DEF SetVoxelGridThrows, OwnersOnceRefused, Emptied, IInv, TypeOK, Inside, PinsOnlyWhatIsBound
<1>9. CASE \E t \in Thread : Infer(t)
  <2>1. PICK t \in Thread : Infer(t)
    BY <1>9
  <2>2. PICK all \in SUBSET Array : inside' = [inside EXCEPT ![t] = all]
    BY <2>1, AcceptedArrays DEF Infer, IInv, TypeOK
  <2>3. inside[t] = Nothing /\ disturbed' = disturbed
    BY <2>1 DEF Infer, Calls
  <2>4. disturbed' \subseteq Inside'
    BY <2>2, <2>3 DEF IInv, TypeOK, Inside
  <2>5. inside' \in [Thread -> (SUBSET Array) \cup {Nothing}]
    BY <2>2 DEF IInv, TypeOK
  <2> QED
    BY <2>1, <2>4, <2>5 DEF Infer, IInv, TypeOK, PinsOnlyWhatIsBound
<1>10. CASE \E t \in Thread : Return(t)
  <2>1. PICK t \in Thread : Return(t)
    BY <1>10
  <2>2. inside' \in [Thread -> (SUBSET Array) \cup {Nothing}]
    BY <2>1 DEF Return, IInv, TypeOK, Inside
  <2> QED
    BY <2>1, <2>2 DEF Return, IInv, TypeOK, Inside, PinsOnlyWhatIsBound
<1>11. CASE \E t \in Thread, key \in Key, p \in ToMemory : Bind(t, key, p)
  BY <1>11, BindKeeps
<1>12. CASE UNCHANGED vars
  BY <1>12 DEF vars, IInv, TypeOK, Inside, PinsOnlyWhatIsBound
<1> QED
  BY <1>1, <1>2, <1>3, <1>4, <1>5, <1>6, <1>7, <1>8, <1>9, <1>10, <1>11, <1>12 DEF Next

----------------------------------------------------------------------------

\* A call that takes a Memory by way of a Memory object without an owner takes
\* one that is kept.
LEMMA TakenIsKept ==
  ASSUME IInv, MemoriesAreKept, NEW p \in ToMemory, p.owner = Nothing
  PROVE  p.ref \in named
<1>1. p \notin Wrappings
  BY AcceptedArrays DEF Wrappings
<1>2. PICK m \in Memory : p = memory[m] /\ memory[m] # Nothing
  BY <1>1 DEF ToMemory
<1> QED
  BY <1>2 DEF MemoriesAreKept

\* A call that rebinds the session disturbs every infer() under way.
LEMMA CallsDisturb ==
  ASSUME inside' = inside, disturbed' = Inside
  PROVE  InsideIsBound'
BY DEF Inside, InsideIsBound

LEMMA ScriptsKeep ==
  ASSUME IInv, LInv, KeepsLent, NEW a \in Array, Make(a) \/ Forget(a)
  PROVE  LInv'
<1>1. InsideIsBound'
  BY DEF Make, Forget, LInv, InsideIsBound, Inside
<1>2. CASE Make(a)
  BY <1>1, <1>2 DEF Make, LInv, MirrorsAreKept, BindingsAreKept, MemoriesAreKept
<1>3. CASE Forget(a)
  <2>1. a \notin Lent
    BY <1>3 DEF Forget
  <2>2. named' = named \ {a} /\ UNCHANGED <<memory, mirror, bound, owners>>
    BY <1>3 DEF Forget
  <2>3. MirrorsAreKept'
    <3>1. \A l \in Layer : mirror[l] # a
      BY <2>1 DEF Lent
    <3> QED
      BY <2>2, <3>1 DEF LInv, MirrorsAreKept
  <2>4. BindingsAreKept'
    <3>1. \A k \in Key : owners[k] = Nothing => bound[k] # a
      BY <2>1 DEF Lent
    <3> QED
      BY <2>2, <3>1 DEF LInv, BindingsAreKept
  <2>5. MemoriesAreKept'
    <3>1. \A m \in Memory : memory[m] # Nothing /\ memory[m].owner = Nothing => memory[m].ref # a
      BY <2>1 DEF Lent
    <3> QED
      BY <2>2, <3>1 DEF LInv, MemoriesAreKept
  <2> QED
    BY <1>1, <2>3, <2>4, <2>5 DEF LInv
<1> QED
  BY <1>2, <1>3

LEMMA MemoriesKeep ==
  ASSUME IInv, LInv, KeepsLent, NEW m \in Memory,
         \/ ForgetMemory(m)
         \/ \E p \in ToMemory : Wrap(m, p)
         \/ \E l \in Layer : SetDeviceMemory(l, m) \/ GetDeviceMemory(l, m)
  PROVE  LInv'
<1>1. InsideIsBound' /\ BindingsAreKept'
  BY DEF ForgetMemory, Wrap, SetDeviceMemory, GetDeviceMemory, LInv, InsideIsBound, Inside, BindingsAreKept
<1>2. CASE ForgetMemory(m)
  BY <1>1, <1>2 DEF ForgetMemory, LInv, MirrorsAreKept, MemoriesAreKept, IInv, TypeOK
<1>3. CASE \E p \in ToMemory : Wrap(m, p)
  <2>1. PICK p \in ToMemory : Wrap(m, p)
    BY <1>3
  <2>2. p.owner = Nothing => p.ref \in named
    BY TakenIsKept DEF LInv
  <2> QED
    BY <1>1, <2>1, <2>2 DEF Wrap, LInv, MirrorsAreKept, MemoriesAreKept, IInv, TypeOK
<1>4. CASE \E l \in Layer : SetDeviceMemory(l, m)
  BY <1>1, <1>4 DEF SetDeviceMemory, LInv, MirrorsAreKept, MemoriesAreKept, IInv, TypeOK
<1>5. CASE \E l \in Layer : GetDeviceMemory(l, m)
  <2>1. PICK l \in Layer : GetDeviceMemory(l, m)
    BY <1>5
  <2>2. mirror[l] \in named
    BY <2>1 DEF GetDeviceMemory, LInv, MirrorsAreKept
  <2>3. MirrorsAreKept'
    BY <2>1 DEF GetDeviceMemory, LInv, MirrorsAreKept
  <2>4. MemoriesAreKept'
    BY <2>1, <2>2 DEF GetDeviceMemory, LInv, MemoriesAreKept, IInv, TypeOK
  <2> QED
    BY <1>1, <2>3, <2>4 DEF LInv
<1> QED
  BY <1>2, <1>3, <1>4, <1>5

LEMMA SessionKeeps ==
  ASSUME IInv, LInv, NEW t \in Thread,
         \/ SetVoxelGrid(t) \/ SetVoxelGridThrows(t) \/ Infer(t) \/ Return(t)
         \/ \E key \in Key, p \in ToMemory : Bind(t, key, p)
  PROVE  LInv'
<1>1. MirrorsAreKept' /\ MemoriesAreKept'
  BY DEF SetVoxelGrid, SetVoxelGridThrows, Infer, Return, Bind, LInv, MirrorsAreKept, MemoriesAreKept
<1>2. CASE SetVoxelGrid(t)
  <2>1. InsideIsBound'
    BY <1>2, CallsDisturb DEF SetVoxelGrid, LInv
  <2> QED
    BY <1>1, <1>2, <2>1 DEF SetVoxelGrid, LInv, BindingsAreKept, Emptied
<1>3. CASE SetVoxelGridThrows(t)
  <2>1. InsideIsBound'
    <3>1. CASE UNCHANGED <<bound, disturbed>>
      BY <1>3, <3>1 DEF SetVoxelGridThrows, LInv, InsideIsBound, Inside
    <3>2. CASE disturbed' = Inside
      BY <1>3, <3>2, CallsDisturb DEF SetVoxelGridThrows
    <3> QED
      BY <1>3, <3>1, <3>2 DEF SetVoxelGridThrows
  <2>2. BindingsAreKept'
    BY <1>3 DEF SetVoxelGridThrows, OwnersOnceRefused, LInv, BindingsAreKept, Emptied
  <2> QED
    BY <1>1, <2>1, <2>2 DEF LInv
<1>4. CASE Infer(t)
  <2>1. BindingsAreKept'
    BY <1>4 DEF Infer, LInv, BindingsAreKept
  <2>2. inside' = [inside EXCEPT ![t] = {bound[k] : k \in Key}]
        /\ bound' = bound /\ disturbed' = disturbed
    BY <1>4 DEF Infer
  <2>3. \A k \in Key : bound[k] # Nothing
    BY <1>4 DEF Infer
  <2>4. InsideIsBound'
    BY <2>2, <2>3 DEF LInv, InsideIsBound, Inside, IInv, TypeOK
  <2> QED
    BY <1>1, <2>1, <2>4 DEF LInv
<1>5. CASE Return(t)
  BY <1>1, <1>5 DEF Return, LInv, BindingsAreKept, InsideIsBound, Inside, IInv, TypeOK
<1>6. CASE \E key \in Key, p \in ToMemory : Bind(t, key, p)
  <2>1. PICK key \in Key, p \in ToMemory : Bind(t, key, p)
    BY <1>6
  <2>2. p.owner = Nothing => p.ref \in named
    BY TakenIsKept DEF LInv
  <2>3. InsideIsBound'
    BY <2>1, CallsDisturb DEF Bind, LInv
  <2>4. BindingsAreKept'
    BY <2>1, <2>2 DEF Bind, BySideAndName, LInv, BindingsAreKept, IInv, TypeOK
  <2> QED
    BY <1>1, <2>3, <2>4 DEF LInv
<1> QED
  BY <1>2, <1>3, <1>4, <1>5, <1>6

LEMMA NextLive ==
  ASSUME KeepsLent
  PROVE  IInv /\ LInv /\ [Next]_vars => LInv'
<1> SUFFICES ASSUME IInv, LInv, [Next]_vars PROVE LInv'
  OBVIOUS
<1>1. CASE Next
  BY <1>1, ScriptsKeep, MemoriesKeep, SessionKeeps DEF Next
<1>2. CASE UNCHANGED vars
  BY <1>2 DEF vars, LInv, MirrorsAreKept, BindingsAreKept, MemoriesAreKept, InsideIsBound, Inside
<1> QED
  BY <1>1, <1>2

\* What is bound is owned under its own key, or kept by its variable.
LEMMA BoundIsAlive == IInv /\ LInv => InferredIntoTheLiving
<1> SUFFICES ASSUME IInv, LInv, NEW t \in Inside \ disturbed, NEW a \in inside[t]
  PROVE Alive(a)
  BY DEF InferredIntoTheLiving
<1>1. PICK k \in Key : a = bound[k] /\ a # Nothing
  BY DEF LInv, InsideIsBound
<1>2. CASE owners[k] = a
  BY <1>2 DEF Alive
<1>3. CASE owners[k] = Nothing
  BY <1>1, <1>3 DEF LInv, BindingsAreKept, Alive
<1> QED
  BY <1>1, <1>2, <1>3 DEF IInv

----------------------------------------------------------------------------

\* Whatever scripts do, and from however many threads: a session is bound to
\* nothing but what to_memory takes (bindings.cpp:212-251), by way of whichever
\* Memory objects and mirrors, and every owner is an array.
THEOREM PySessionTypes == Spec => []TypeOK
<1>1. IInv => TypeOK
  BY DEF IInv
<1> QED
  BY <1>1, InitInv, NextInv, PTL DEF Spec

\* Of scripts that wrap nothing but what answers an array interface (NumPy's
\* arrays, CUDA tensors), a Memory object refers to contiguous float32, the one
\* got back from a layer's mirror as well.  Of tensors and plain buffers it need
\* not (bindings.cpp:229-250).
THEOREM WrappedIsDense ==
  ASSUME Array \subseteq Interfaced
  PROVE  Spec => []WrapsDenseFloats
<1>1. Accepted \subseteq Dense \cap Float32
  BY DEF Accepted
<1>2. IInv => WrapsDenseFloats
  BY <1>1 DEF IInv, WrapsDenseFloats
<1> QED
  BY <1>2, InitInv, NextInv, PTL DEF Spec

\* bound_ and the bindings of the C++ session, two maps that every call changes
\* one after the other, never part but where set_voxel_grid threw.
THEOREM PinsOnly == Spec => []PinsOnlyWhatIsBound
<1>1. IInv => PinsOnlyWhatIsBound
  BY DEF IInv
<1> QED
  BY <1>1, InitInv, NextInv, PTL DEF Spec

\* For scripts that keep what was bound by way of a layer's mirror: what infer()
\* works on, with the interpreter's lock released, is not collected under it,
\* while other threads make, wrap and forget arrays and are inside infer()
\* themselves, as long as none of them rebinds the session meanwhile
\* (bindings.cpp:253-254, :278-283).
THEOREM InferredLive ==
  ASSUME KeepsLent
  PROVE  Spec => []InferredIntoTheLiving
<1>1. Init => IInv /\ LInv
  BY InitInv
<1>2. IInv /\ LInv /\ [Next]_vars => IInv' /\ LInv'
  BY NextInv, NextLive
<1>3. IInv /\ LInv => InferredIntoTheLiving
  BY BoundIsAlive
<1> QED
  BY <1>1, <1>2, <1>3, PTL DEF Spec

=============================================================================
