-------------------------------- MODULE CApi --------------------------------
(***************************************************************************)
(* The C ABI (src/src/capi/c_api.cpp) and the move-only C++ wrappers over  *)
(* it (include/RadFiled3D/nn/c_api.hpp), as a plugin uses them.            *)
(*                                                                         *)
(* A handle is an object on the library's heap.  A wrapper is a variable   *)
(* of the plugin that owns one handle or none, and is used by one thread.  *)
(* A call that fails leaves its message in that thread's slot and returns  *)
(* a status; the wrapper asks for the message in a second call, and other  *)
(* threads make calls of their own in between.  What adopt() does with an  *)
(* exported allocation is module Adopt's business: here it makes, or finds *)
(* again, the one import of it, which lives while it is referenced; an     *)
(* allocation is always exported under the same number.                    *)
(***************************************************************************)
EXTENDS Naturals, FiniteSets

CONSTANTS
  Thread,
  Var,        \* the plugin's wrapper objects
  ClassOf,    \* [Var -> Class]
  UserOf,     \* [Var -> the thread that uses it]
  Handle,     \* addresses of the library's heap
  Alloc,      \* the allocations the plugin's engine owns
  SharedBy,   \* [Alloc -> "fd", a descriptor, or "nt", a handle that is duplicated]
  Name,       \* the names a session binds memory by
  Raised,     \* the kinds of exception calls end in
  Nothing

Class == {"metadata", "memory", "session"}

ASSUME CApiAssumption ==
  /\ IsFiniteSet(Handle) /\ IsFiniteSet(Name)
  /\ ClassOf \in [Var -> Class] /\ UserOf \in [Var -> Thread]
  /\ SharedBy \in [Alloc -> {"fd", "nt"}]

VARIABLES
  heap,      \* [Handle -> the object there, or Nothing]
  var,       \* [Var -> handle_: its handle, or Nothing]
  refs,      \* [Alloc -> the references to its import; 0 if there is none]
  shared,    \* [Alloc -> is its descriptor or handle open?]
  mine,      \* [Alloc -> does the plugin hold that it is its own to close?]
  message,   \* [Thread -> g_last_error, or Nothing]
  failing    \* [Thread -> the failed call whose message its wrapper is to throw]

vars == <<heap, var, refs, shared, mine, message, failing>>

----------------------------------------------------------------------------
(* What handles refer to                                                   *)

\* A reference: to memory a provider takes as it is (the plugin's own, or for
\* DirectML a D3D12 resource), to an import, or one that describes a D3D11
\* resource, with a shared handle of it or without.
Reference == [to : {"plain"}] \cup [to : {"import", "resource", "described"}, alloc : Alloc]

Metadata    == [class |-> "metadata"]
Memory(r)   == [class |-> "memory", ref |-> r]
Session(b, g) == [class |-> "session", bound |-> b, grid |-> g]
Unbound     == [n \in Name |-> Nothing]

Object == {Metadata} \cup {Memory(r) : r \in Reference}
            \cup {Session(b, g) : b \in [Name -> Reference \cup {Nothing}], g \in BOOLEAN}

ASSUME NothingAssumption == Nothing \notin Handle \cup Object

Imported(a) == [to |-> "import", alloc |-> a]

\* The shares the object has in the import of a: a session, one for each name.
Share == {"itself"} \cup Name
Held(object, a) ==
  IF object = Nothing \/ object = Metadata THEN {}
  ELSE IF object.class = "memory" THEN {n \in {"itself"} : object.ref = Imported(a)}
  ELSE {n \in Name : object.bound[n] = Imported(a)}

\* The references once `old` has become `new`: shared_ptr, in both directions.
\* Mutant: a session borrows what is bound to it.
Borrowed(old, new) ==
  [a \in Alloc |-> IF new # Nothing /\ new.class = "session" THEN refs[a]
                   ELSE refs[a] + Cardinality(Held(new, a)) - Cardinality(Held(old, a))]
Counted(old, new) ==
  [a \in Alloc |-> refs[a] + Cardinality(Held(new, a)) - Cardinality(Held(old, a))]

Becomes(h, new) ==
  /\ heap' = [heap EXCEPT ![h] = new]
  /\ refs' = Counted(heap[h], new)

----------------------------------------------------------------------------
(* The boundary                                                            *)

Kind == {"not_found", "io", "feature_disabled", "invalid_argument", "unsupported_interop",
         "bad_package", "foreign"}
ASSUME RaisedAssumption == Raised \subseteq Kind

Status == {"invalid_argument", "not_found", "bad_package", "feature_disabled", "io", "internal"}

\* status_of, and guard for what is no Exception of the library's.
\* Mutant: every kind has a status of its own name.
SameName(kind) == kind
StatusOf(kind) ==
  IF kind = "unsupported_interop" THEN "invalid_argument"
  ELSE IF kind = "foreign" THEN "internal"
  ELSE kind

\* thread_local.
\* Mutant: one message for all the threads.
OneSlot(t) == CHOOSE u \in Thread : TRUE
SlotOf(t) == t

\* A thread that is in no call and has no message to ask for.
Idle(t) == failing[t] = Nothing

\* fail(): the message of call `what`, and the status it returns.
Fails(t, what, status) ==
  /\ failing' = [failing EXCEPT ![t] = [call |-> what, status |-> status]]
  /\ message' = [message EXCEPT ![SlotOf(t)] = [call |-> what, status |-> status]]

\* RFNN_OK: the message of an earlier failure is left alone.
Succeeds == UNCHANGED <<failing, message>>

\* A call that ends in an exception of the library, caught by guard.
GuardCatches(t, what) == \E kind \in Raised : Fails(t, what, StatusOf(kind))

\* detail::check throws, with the message the thread has then.
Check(t) ==
  /\ failing[t] # Nothing
  /\ failing' = [failing EXCEPT ![t] = Nothing]
  /\ UNCHANGED <<heap, var, refs, shared, mine, message>>

----------------------------------------------------------------------------
(* Handles                                                                 *)

\* The object behind the handle a wrapper passes, which is none once it has been
\* moved from.
ObjectOf(v) == heap[var[v]]

\* A constructor: a new object, and the wrapper that owns it.
Makes(v, object) ==
  \E h \in Handle :
    /\ heap[h] = Nothing
    /\ Becomes(h, object)
    /\ var' = [var EXCEPT ![v] = h]

\* A constructor that throws: out was set to null before anything could fail.
MakesNothing == UNCHANGED <<heap, var, refs>>

Constructing(v, class) == Idle(UserOf[v]) /\ ClassOf[v] = class /\ var[v] = Nothing

ReadMetadata(v) ==
  /\ Constructing(v, "metadata")
  /\ \/ Makes(v, Metadata) /\ Succeeds
     \/ MakesNothing /\ GuardCatches(UserOf[v], "metadata_read")
  /\ UNCHANGED <<shared, mine>>

LoadSession(v) ==
  /\ Constructing(v, "session")
  /\ \/ Makes(v, Session(Unbound, FALSE)) /\ Succeeds
     \/ MakesNothing /\ GuardCatches(UserOf[v], "session_load")
  /\ UNCHANGED <<shared, mine>>

\* rfnn_memory_from_host, which refuses a null pointer with a size, and
\* rfnn_memory_from_d3d12_resource, which another build may not have.
PlainMemory(v) ==
  /\ Constructing(v, "memory")
  /\ \/ Makes(v, Memory([to |-> "plain"])) /\ Succeeds
     \/ MakesNothing /\ Fails(UserOf[v], "memory_from_host", "invalid_argument")
     \/ MakesNothing /\ GuardCatches(UserOf[v], "memory_from_d3d12_resource")
  /\ UNCHANGED <<shared, mine>>

\* rfnn_memory_from_d3d11_resource, with a shared handle and without: nothing
\* is imported yet.
ResourceMemory(v, a) ==
  /\ Constructing(v, "memory") /\ SharedBy[a] = "nt"
  /\ \/ \E to \in {"resource", "described"} :
          Makes(v, Memory([to |-> to, alloc |-> a])) /\ Succeeds
     \/ MakesNothing /\ Fails(UserOf[v], "memory_from_d3d11_resource", "invalid_argument")
  /\ UNCHANGED <<shared, mine>>

\* The engine exports: vkGetMemoryFdKHR, CreateSharedHandle.
Export(a) ==
  /\ ~shared[a]
  /\ shared' = [shared EXCEPT ![a] = TRUE] /\ mine' = [mine EXCEPT ![a] = TRUE]
  /\ UNCHANGED <<heap, var, refs, message, failing>>

\* And closes what it holds to be its own.
Close(a) ==
  /\ mine[a]
  /\ shared' = [shared EXCEPT ![a] = FALSE] /\ mine' = [mine EXCEPT ![a] = FALSE]
  /\ UNCHANGED <<heap, var, refs, message, failing>>

\* import_external_memory: a descriptor is the driver's from now on.
Consumed(a) == [shared EXCEPT ![a] = @ /\ SharedBy[a] # "fd"]

\* adopt(): the living import of that handle, or a new one made through it.
Adopted(a) == IF refs[a] > 0 THEN shared' = shared ELSE shared[a] /\ shared' = Consumed(a)

\* rfnn_memory_import_*: on success a descriptor is no longer the caller's.
Import(v, a) ==
  /\ Constructing(v, "memory") /\ mine[a]
  /\ Adopted(a)
  /\ Makes(v, Memory(Imported(a)))
  /\ mine' = [mine EXCEPT ![a] = SharedBy[a] = "nt"]
  /\ Succeeds

\* It fails before the driver has the descriptor, or after (a region that
\* cannot be mapped).
ImportFails(v, a) ==
  /\ Constructing(v, "memory") /\ mine[a]
  /\ MakesNothing
  /\ shared' \in {shared} \cup (IF refs[a] = 0 THEN {Consumed(a)} ELSE {})
  /\ GuardCatches(UserOf[v], "memory_import")
  /\ UNCHANGED mine

\* ~Metadata, ~Memory, ~Session: freeing null is a no-op.
Freed(v) == IF var[v] = Nothing THEN UNCHANGED <<heap, refs>> ELSE Becomes(var[v], Nothing)

Destroy(v) ==
  /\ Idle(UserOf[v])
  /\ Freed(v)
  /\ var' = [var EXCEPT ![v] = Nothing]
  /\ UNCHANGED <<shared, mine, message, failing>>

\* operator=(&&): frees what v owned and takes w's handle with std::exchange.
\* Mutant: the source keeps its pointer.
Copied(v, w) == [var EXCEPT ![v] = var[w]]
Exchanged(v, w) == [var EXCEPT ![v] = var[w], ![w] = Nothing]

MoveAssign(v, w) ==
  /\ Idle(UserOf[v]) /\ UserOf[v] = UserOf[w] /\ ClassOf[v] = ClassOf[w]
  /\ v # w
  /\ Freed(v)
  /\ var' = Exchanged(v, w)
  /\ UNCHANGED <<shared, mine, message, failing>>

----------------------------------------------------------------------------
(* Sessions                                                                *)

\* A null handle, or a memory that was moved from, is refused.
NullSession(v, what) ==
  /\ ClassOf[v] = "session" /\ Idle(UserOf[v]) /\ var[v] = Nothing
  /\ Fails(UserOf[v], what, "invalid_argument")
  /\ UNCHANGED <<heap, var, refs, shared, mine>>

OfSession(v) == ClassOf[v] = "session" /\ Idle(UserOf[v]) /\ var[v] # Nothing

\* set_voxel_grid drops the bindings, also when it throws for want of buffers;
\* a grid it refuses outright changes nothing.
SetVoxelGrid(v) ==
  /\ OfSession(v)
  /\ \/ Becomes(var[v], Session(Unbound, TRUE)) /\ Succeeds
     \/ Becomes(var[v], Session(Unbound, TRUE)) /\ GuardCatches(UserOf[v], "set_voxel_grid")
     \/ UNCHANGED <<heap, refs>> /\ GuardCatches(UserOf[v], "set_voxel_grid")
  /\ UNCHANGED <<var, shared, mine>>

\* What bind makes of the reference: imports and a provider's own memory are
\* taken as they are, and an exported resource is adopted first.
Bindable(r) == r.to \in {"plain", "import"} \/ (r.to = "resource" /\ (shared[r.alloc] \/ refs[r.alloc] > 0))
AsBound(r) == IF r.to = "resource" THEN Imported(r.alloc) ELSE r

Bind(v, n, m) ==
  /\ OfSession(v) /\ ObjectOf(v).grid
  /\ ClassOf[m] = "memory" /\ UserOf[m] = UserOf[v] /\ var[m] # Nothing
  /\ Bindable(ObjectOf(m).ref)
  /\ Becomes(var[v], [ObjectOf(v) EXCEPT !.bound[n] = AsBound(ObjectOf(m).ref)])
  /\ Succeeds
  /\ UNCHANGED <<var, shared, mine>>

\* A null memory; no grid yet; no such tensor, no room, nothing to adopt.
BindFails(v, m) ==
  /\ OfSession(v)
  /\ ClassOf[m] = "memory" /\ UserOf[m] = UserOf[v]
  /\ IF var[m] = Nothing THEN Fails(UserOf[v], "bind", "invalid_argument")
                         ELSE GuardCatches(UserOf[v], "bind")
  /\ UNCHANGED <<heap, var, refs, shared, mine>>

\* A run changes what memory holds, and no handle.
InferFails(v) ==
  /\ OfSession(v)
  /\ GuardCatches(UserOf[v], "infer")
  /\ UNCHANGED <<heap, var, refs, shared, mine>>

----------------------------------------------------------------------------

Init ==
  /\ heap = [h \in Handle |-> Nothing]
  /\ var = [v \in Var |-> Nothing]
  /\ refs = [a \in Alloc |-> 0]
  /\ shared = [a \in Alloc |-> FALSE]
  /\ mine = [a \in Alloc |-> FALSE]
  /\ message = [t \in Thread |-> Nothing]
  /\ failing = [t \in Thread |-> Nothing]

Next ==
  \/ \E t \in Thread : Check(t)
  \/ \E a \in Alloc : Export(a) \/ Close(a)
  \/ \E v \in Var :
       \/ ReadMetadata(v) \/ LoadSession(v) \/ PlainMemory(v)
       \/ Destroy(v) \/ SetVoxelGrid(v) \/ InferFails(v)
       \/ \E a \in Alloc : ResourceMemory(v, a) \/ Import(v, a) \/ ImportFails(v, a)
       \/ \E w \in Var : MoveAssign(v, w) \/ BindFails(v, w)
       \/ \E w \in Var, n \in Name : Bind(v, n, w)
       \/ \E what \in {"set_voxel_grid", "bind", "infer"} : NullSession(v, what)

Spec == Init /\ [][Next]_vars

----------------------------------------------------------------------------
(* Properties                                                              *)

TypeOK ==
  /\ heap \in [Handle -> Object \cup {Nothing}]
  /\ var \in [Var -> Handle \cup {Nothing}]
  /\ refs \in [Alloc -> Nat]
  /\ shared \in [Alloc -> BOOLEAN] /\ mine \in [Alloc -> BOOLEAN]
  /\ \A t \in Thread : failing[t] # Nothing => failing[t].status \in Status

\* "Handles are freed exactly once" (c_api.h:16): however wrappers are made,
\* moved, overwritten and destroyed, and whichever constructor throws, every
\* object on the heap has exactly one owner, of its own class, and no wrapper
\* points at an object that is gone.
HandlesHaveOneOwner ==
  /\ \A v \in Var : var[v] # Nothing => heap[var[v]] # Nothing /\ heap[var[v]].class = ClassOf[v]
  /\ \A h \in Handle : heap[h] # Nothing => \E v \in Var : var[v] = h
  /\ \A v, w \in Var : var[v] # Nothing /\ var[v] = var[w] => v = w

\* The shares there are in the import of a, each of an object on the heap.
Holders(objects, a) == {s \in Handle \X Share : s[2] \in Held(objects[s[1]], a)}

\* "A handle may be freed as soon as it is bound: the session keeps its own
\* reference, so the underlying mapping outlives the handle" (c_api.h:108-110):
\* what infer() reaches is mapped, and an import nobody refers to is gone.
ImportsLiveWhileHeld ==
  \A a \in Alloc : refs[a] = Cardinality(Holders(heap, a))

\* An exception of the wrappers carries the message of its own call, whatever
\* fails on other threads between the call and rfnn_last_error (c_api.h:13-14,
\* c_api.hpp:32-36).
MessageIsOfItsCall ==
  \A t \in Thread : failing[t] # Nothing => message[SlotOf(t)] = failing[t]

=============================================================================
