---------------------------- MODULE DeviceMemory ----------------------------
(***************************************************************************)
(* Device memory of the CUDA backend (src/src/memory/cuda.cpp): what the   *)
(* library allocates through the driver's virtual memory API, and what it  *)
(* imports from a graphics API.                                            *)
(*                                                                         *)
(* A call is a sequence of driver calls, and other threads' calls come in  *)
(* between any two of them; each may fail, and what the earlier ones made  *)
(* is then undone.  The driver hands an address region out again as soon as *)
(* it has been freed.                                                      *)
(***************************************************************************)
EXTENDS Naturals

CONSTANTS
  Thread,
  Device,
  Ref,         \* the MemoryRef objects that can exist at once (bound)
  Region,       \* the address regions the driver gives out (bound)
  Unspecified, \* the UUID of an origin that names no device
  None

ASSUME DeviceAssumption ==
  /\ Device # {} /\ Unspecified \notin Device
  /\ None \notin Ref \cup Region

VARIABLES
  current,   \* the driver: [Thread -> its current device]
  handles,   \* the driver: the references whose allocation or import exists
  reserved,  \* the driver: the address regions in use
  mapped,    \* the driver: [Region -> the reference whose allocation is there]
  usable,    \* the driver: the regions access was granted to
  ref,       \* [Ref -> the object's members, from its first driver call to its last]
  todo,      \* [Ref -> the driver call to be made about it next]
  held,      \* the references the application or a session's buffers share
  mine,      \* [Thread -> the references its call has still to make or destroy]
  at         \* [Thread -> the one of those it has begun with, or None]

driver == <<current, handles, reserved, mapped, usable>>
memoryVars == <<driver, ref, todo, held, mine, at>>

Kind == {"owned", "imported", "empty"}

\* OwnedMemoryRef, ImportedMemoryRef, EmptyMemoryRef.
Object == [kind : Kind, device : Device, range : Region \cup {None}]

ASSUME ObjectAssumption == None \notin Object

Live(r) == todo[r] = "live"

Idle(t) == mine[t] = {}

\* The driver call a thread makes next, in its call: it finishes with one
\* reference before it turns to another.
Calls(t, op, r) == todo[r] = op /\ r \in mine[t] /\ at[t] \in {None, r}

----------------------------------------------------------------------------
(* The order of the driver calls                                           *)

\* allocate and import_external_memory, once the device is current.
First(kind) ==
  IF kind = "owned" THEN "create" ELSE IF kind = "imported" THEN "import" ELSE "return"

\* The destructors.
Leaving(kind) == IF kind = "empty" THEN "gone" ELSE "leave"

\* Mutant: the region goes before what is mapped there.
RegionFirst(kind, op) ==
  IF op = "leave" THEN IF kind = "owned" THEN "addressFree" ELSE "free"
  ELSE IF op = "addressFree" THEN "unmap"
  ELSE IF op \in {"unmap", "free"} THEN "release"
  ELSE "gone"
Undo(kind, op) ==
  IF op = "leave" THEN IF kind = "owned" THEN "unmap" ELSE "free"
  ELSE IF op = "unmap" THEN "addressFree"
  ELSE IF op \in {"addressFree", "free"} THEN "release"
  ELSE "gone"

\* Where the undoing begins when a driver call of allocate or import fails.
\* Mutant: the region of a failed mapping is forgotten.
RegionKept(op) ==
  IF op \in {"create", "import"} THEN "gone" ELSE IF op = "access" THEN "unmap" ELSE "release"
Unwinding(op) ==
  IF op \in {"create", "import"} THEN "gone"
  ELSE IF op \in {"reserve", "view"} THEN "release"
  ELSE IF op = "map" THEN "addressFree"
  ELSE "unmap"

MayFail == {"create", "import", "reserve", "view", "map", "access"}

Op == MayFail \cup {"none", "setDevice", "return", "live", "leave", "unmap", "addressFree",
                    "free", "release", "gone"}

\* One call made: the next one about the same reference, or none.
Then(t, r, op) ==
  /\ todo' = [todo EXCEPT ![r] = op]
  /\ at' = [at EXCEPT ![t] = r]
  /\ UNCHANGED mine
Ends(t, r, op) ==
  /\ todo' = [todo EXCEPT ![r] = op]
  /\ at' = [at EXCEPT ![t] = None]
  /\ mine' = [mine EXCEPT ![t] = @ \ {r}]

----------------------------------------------------------------------------
(* Calls                                                                   *)

MemoryInit ==
  /\ current \in [Thread -> Device]
  /\ handles = {} /\ reserved = {} /\ usable = {}
  /\ mapped = [g \in Region |-> None]
  /\ ref = [r \in Ref |-> None]
  /\ todo = [r \in Ref |-> "none"]
  /\ held = {}
  /\ mine = [t \in Thread |-> {}]
  /\ at = [t \in Thread |-> None]

\* cudaSetDevice, by the application or by another library on that thread.
AmbientSetDevice(t, d) ==
  /\ Idle(t)
  /\ current' = [current EXCEPT ![t] = d]
  /\ UNCHANGED <<handles, reserved, mapped, usable, ref, todo, held, mine, at>>

Begin(t, r, kind, d) ==
  /\ Idle(t) /\ todo[r] = "none"
  /\ ref' = [ref EXCEPT ![r] = [kind |-> kind, device |-> d, range |-> None]]
  /\ todo' = [todo EXCEPT ![r] = "setDevice"]
  /\ mine' = [mine EXCEPT ![t] = {r}]
  /\ UNCHANGED <<driver, held, at>>

\* allocate; zero bytes make a reference that refers to nothing.
Allocate(t, r, d, bytes) == Begin(t, r, IF bytes = 0 THEN "empty" ELSE "owned", d)

\* get_device_for_uuid: without a UUID, whatever device the thread is on.
\* Mutant: a UUID that names none is looked for as though it did.
AsGiven(t, uuid) == uuid
DeviceFor(t, uuid) == IF uuid = Unspecified THEN current[t] ELSE uuid

\* Backend::import_external_memory
Import(t, r, uuid) == Begin(t, r, "imported", DeviceFor(t, uuid))

\* upload, download, copy_within between references the caller holds: the
\* device of the memory becomes the thread's.
Transfer(t, r) ==
  /\ Idle(t) /\ r \in held
  /\ ref[r].kind # "empty"
  /\ current' = [current EXCEPT ![t] = ref[r].device]
  /\ UNCHANGED <<handles, reserved, mapped, usable, ref, todo, held, mine, at>>

----------------------------------------------------------------------------
(* The driver's calls                                                      *)

\* The region an object was given is part of the object.
AtRange(r, g) == ref' = [ref EXCEPT ![r].range = g]

\* cudaSetDevice, with which a call begins and a destructor too.
SetDevice(t, r) ==
  /\ \/ Calls(t, "setDevice", r) /\ Then(t, r, First(ref[r].kind))
     \/ Calls(t, "leave", r) /\ Then(t, r, Undo(ref[r].kind, "leave"))
  /\ current' = [current EXCEPT ![t] = ref[r].device]
  /\ UNCHANGED <<handles, reserved, mapped, usable, ref, held>>

\* cuMemCreate, cudaImportExternalMemory
Create(t, r) ==
  /\ \/ Calls(t, "create", r) /\ Then(t, r, "reserve")
     \/ Calls(t, "import", r) /\ Then(t, r, "view")
  /\ handles' = handles \cup {r}
  /\ UNCHANGED <<current, reserved, mapped, usable, ref, held>>

\* cuMemAddressReserve
Reserve(t, r, g) ==
  /\ Calls(t, "reserve", r) /\ Then(t, r, "map")
  /\ g \notin reserved
  /\ reserved' = reserved \cup {g}
  /\ AtRange(r, g)
  /\ UNCHANGED <<current, handles, mapped, usable, held>>

\* cuMemMap
Map(t, r) ==
  /\ Calls(t, "map", r) /\ Then(t, r, "access")
  /\ mapped' = [mapped EXCEPT ![ref[r].range] = r]
  /\ UNCHANGED <<current, handles, reserved, usable, ref, held>>

\* cuMemSetAccess
Access(t, r) ==
  /\ Calls(t, "access", r) /\ Then(t, r, "return")
  /\ usable' = usable \cup {ref[r].range}
  /\ UNCHANGED <<current, handles, reserved, mapped, ref, held>>

\* cudaExternalMemoryGetMappedBuffer: a region of the driver's choosing, ready to use.
View(t, r, g) ==
  /\ Calls(t, "view", r) /\ Then(t, r, "return")
  /\ g \notin reserved
  /\ reserved' = reserved \cup {g} /\ usable' = usable \cup {g}
  /\ mapped' = [mapped EXCEPT ![g] = r]
  /\ AtRange(r, g)
  /\ UNCHANGED <<current, handles, held>>

\* cuMemUnmap
Unmap(t, r) ==
  /\ Calls(t, "unmap", r) /\ Then(t, r, Undo(ref[r].kind, "unmap"))
  /\ mapped' = [mapped EXCEPT ![ref[r].range] = None]
  /\ usable' = usable \ {ref[r].range}
  /\ UNCHANGED <<current, handles, reserved, ref, held>>

\* cuMemAddressFree
AddressFree(t, r) ==
  /\ Calls(t, "addressFree", r) /\ Then(t, r, Undo(ref[r].kind, "addressFree"))
  /\ reserved' = reserved \ {ref[r].range}
  /\ UNCHANGED <<current, handles, mapped, usable, ref, held>>

\* cudaFree of a mapped buffer, which is both.
FreeView(t, r) ==
  /\ Calls(t, "free", r) /\ Then(t, r, Undo(ref[r].kind, "free"))
  /\ mapped' = [mapped EXCEPT ![ref[r].range] = None]
  /\ usable' = usable \ {ref[r].range}
  /\ reserved' = reserved \ {ref[r].range}
  /\ UNCHANGED <<current, handles, ref, held>>

\* cuMemRelease, cudaDestroyExternalMemory
ReleaseHandle(t, r) ==
  /\ Calls(t, "release", r) /\ Then(t, r, Undo(ref[r].kind, "release"))
  /\ handles' = handles \ {r}
  /\ UNCHANGED <<current, reserved, mapped, usable, ref, held>>

\* The last step of a destructor, or of an exception: there is no such object.
Gone(t, r) ==
  /\ Calls(t, "gone", r) /\ Ends(t, r, "none")
  /\ ref' = [ref EXCEPT ![r] = None]
  /\ UNCHANGED <<driver, held>>

\* The reference is returned: its caller holds it.
ReturnRef(t, r) ==
  /\ Calls(t, "return", r) /\ Ends(t, r, "live")
  /\ held' = held \cup {r}
  /\ UNCHANGED <<driver, ref>>

\* A driver call fails.
DriverFails(t, r) ==
  /\ \E op \in MayFail : Calls(t, op, r) /\ Then(t, r, Unwinding(op))
  /\ UNCHANGED <<driver, ref, held>>

DriverStep(t, r) ==
  \/ SetDevice(t, r) \/ Create(t, r) \/ Map(t, r) \/ Access(t, r)
  \/ Unmap(t, r) \/ AddressFree(t, r) \/ FreeView(t, r) \/ ReleaseHandle(t, r) \/ Gone(t, r)
  \/ \E g \in Region : Reserve(t, r, g) \/ View(t, r, g)

\* The last shares of references `rs` go, and their destructors run on the
\* thread that let go of them, one after the other in some order.
Destroy(t, rs) ==
  /\ todo' = [r \in Ref |-> IF r \in rs THEN Leaving(ref[r].kind) ELSE todo[r]]
  /\ mine' = [mine EXCEPT ![t] = rs]
  /\ UNCHANGED <<ref, at>>

----------------------------------------------------------------------------
(* Properties                                                              *)

MemoryTypeOK ==
  /\ current \in [Thread -> Device]
  /\ handles \subseteq Ref /\ reserved \subseteq Region /\ usable \subseteq Region
  /\ mapped \in [Region -> Ref \cup {None}]
  /\ ref \in [Ref -> Object \cup {None}]
  /\ todo \in [Ref -> Op]
  /\ mine \in [Thread -> SUBSET Ref] /\ at \in [Thread -> Ref \cup {None}]
  /\ held \subseteq {r \in Ref : Live(r)}

\* A reference that can be used is mapped: its region is its own, its own
\* allocation is behind it and access has been granted, whatever other threads
\* allocate, import and destroy meanwhile ("Unmapping after releasing the
\* handle, or freeing the address region while it is still mapped, is
\* undefined", cuda.cpp:101-103).
LiveIsMapped ==
  \A r \in Ref : Live(r) =>
    IF ref[r].kind = "empty" THEN ref[r].range = None
    ELSE /\ r \in handles
         /\ ref[r].range \in reserved \cap usable
         /\ mapped[ref[r].range] = r
=============================================================================
