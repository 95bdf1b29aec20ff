------------------------------- MODULE Adopt -------------------------------
(***************************************************************************)
(* `ComputeBackend::adopt` (src/src/memory/adopt.cpp): the registry of     *)
(* live imports, and the import of a graphics allocation into CUDA         *)
(* (src/src/memory/cuda.cpp).                                              *)
(*                                                                         *)
(* An application exports its allocations as handles, wraps a handle in a  *)
(* reference and hands the reference to its clients: sessions that bind    *)
(* it, or callers that only want a view.  adopt() holds the registry's     *)
(* lock from lookup to registration, so it is one step; between two of     *)
(* them any client may let go of its view, the application may close a     *)
(* handle, and the system may give the handle's number to another          *)
(* allocation.                                                             *)
(***************************************************************************)
EXTENDS Integers, FiniteSets

CONSTANTS
  Alloc,        \* the allocations the application owns
  Home,         \* [Alloc -> Device], what the allocation's UUID resolves to
  NumDevices,
  Handle,       \* the numbers a handle may have
  Ref,          \* the references the application makes
  Client,       \* sessions, and callers that hold a view
  Asks,         \* [Client -> its device, or AnyDevice]
  None,
  Strays,       \* may a client ask for a view on a device that is not its own?
  Recycles      \* may a number be given out again before it is forgotten?

Device    == 0..NumDevices - 1
AnyDevice == -1

\* A descriptor is consumed by its import, an NT handle is duplicated.
Kind == {"fd", "nt"}

ASSUME AdoptAssumption ==
  /\ NumDevices \in Nat \ {0}
  /\ Home \in [Alloc -> Device]
  /\ Asks \in [Client -> Device \cup {AnyDevice}]
  /\ Strays \in BOOLEAN /\ Recycles \in BOOLEAN

VARIABLES
  open,      \* [Kind -> [Handle -> the allocation it names, or None]]
  ref,       \* [Ref -> what it was wrapped around, or None]
  import,    \* [Slot -> a live import, or None]
  registry,  \* [Key -> a slot, "expired", or "absent"]
  view       \* [Client -> the import it got and the allocation it asked for, or None]

vars == <<open, ref, import, registry, view>>

\* No more imports live than clients hold views of.
Slot == Client

\* AdoptKey, without the offset and the target, which are one in this model.
Key == [kind : Kind, handle : Handle, device : Device]

Reference == [kind : Kind, handle : Handle, alloc : Alloc, spent : BOOLEAN]
Import    == [kind : Kind, handle : Handle, alloc : Alloc, device : Device]
View      == [slot : Slot, alloc : Alloc]

ASSUME NoneAssumption ==
  /\ None \notin Alloc \cup Reference \cup Import \cup View
  /\ "expired" \notin Slot /\ "absent" \notin Slot

\* The import client c holds a view of.
Held(c) == view[c].slot
Holders(s) == {c \in Client : view[c] # None /\ Held(c) = s}

----------------------------------------------------------------------------

Init ==
  /\ open = [k \in Kind |-> [h \in Handle |-> None]]
  /\ ref = [r \in Ref |-> None]
  /\ import = [s \in Slot |-> None]
  /\ registry = [k \in Key |-> "absent"]
  /\ view = [c \in Client |-> None]

(* The application and the system                                          *)

\* A number the system may give out: it names nothing and, unless numbers
\* recycle, no reference was wrapped around it and no import made through it.
Available(k, h) ==
  /\ open[k][h] = None
  /\ Recycles \/ \A x \in {ref[r] : r \in Ref} \cup {import[s] : s \in Slot} :
       x # None => <<x.kind, x.handle>> # <<k, h>>

\* vkGetMemoryFdKHR, CreateSharedHandle: an allocation gets a handle, wrapped
\* in the one reference that owns it.
Export(r, a, k, h) ==
  /\ ref[r] = None
  /\ Available(k, h)
  /\ open' = [open EXCEPT ![k][h] = a]
  /\ ref' = [ref EXCEPT ![r] = [kind |-> k, handle |-> h, alloc |-> a, spent |-> FALSE]]
  /\ UNCHANGED <<import, registry, view>>

\* The references around one NT handle, which the exporter keeps open for them.
Share(r, q) ==
  /\ ref[r] = None /\ ref[q] # None
  /\ ref[q].kind = "nt"
  /\ ref' = [ref EXCEPT ![r] = ref[q]]
  /\ UNCHANGED <<open, import, registry, view>>

SameHandle(r, q) ==
  ref[q] # None /\ ref[q].kind = ref[r].kind /\ ref[q].handle = ref[r].handle

\* The application drops a reference, and closes its handle if that is the
\* last reference to it and no importer took the handle.
Drop(r) ==
  /\ ref[r] # None
  /\ ref' = [ref EXCEPT ![r] = None]
  /\ open' = IF ref[r].spent \/ \E q \in Ref \ {r} : SameHandle(r, q) /\ ~ref[q].spent
               THEN open
               ELSE [open EXCEPT ![ref[r].kind][ref[r].handle] = None]
  /\ UNCHANGED <<import, registry, view>>

----------------------------------------------------------------------------
(* adopt()                                                                 *)

\* Every entry of this handle on a device the client accepts.
\* Mutant: the kind of the handle is not part of the key.
AnyKind(c, r) ==
  {k \in Key : k.handle = ref[r].handle /\ Asks[c] \in {AnyDevice, k.device}}
Entries(c, r) ==
  {k \in Key : /\ k.kind = ref[r].kind /\ k.handle = ref[r].handle
               /\ Asks[c] \in {AnyDevice, k.device}}

Living(c, r) == {k \in Entries(c, r) : registry[k] \in Slot}

\* The lookup goes through the entries by device, erasing the expired ones,
\* and stops at the first whose import lives.
\* Mutant: the entry that is found is erased too.
AllOfThem(c, r) == Entries(c, r)
Passed(c, r) == {k \in Entries(c, r) : \A l \in Living(c, r) : k.device < l.device}
Swept(c, r)  == [k \in Key |-> IF k \in Passed(c, r) THEN "absent" ELSE registry[k]]

\* Who may ask: a session is loaded on the device of the memory it binds.
Asking(c, r) ==
  /\ view[c] = None /\ ref[r] # None
  /\ Strays \/ Asks[c] \in {AnyDevice, Home[ref[r].alloc]}

\* weak_ptr::lock: the import lives, and the client holds it too.
AdoptExisting(c, r) ==
  /\ Asking(c, r)
  /\ \E k \in Living(c, r) :
       /\ \A l \in Living(c, r) : k.device <= l.device
       /\ view' = [view EXCEPT ![c] = [slot |-> registry[k], alloc |-> ref[r].alloc]]
  /\ registry' = Swept(c, r)
  /\ UNCHANGED <<open, ref, import>>

\* Nothing lives and the handle is gone, or the driver refuses: adopt throws,
\* after the lookup has erased what had expired.
AdoptThrows(c, r) ==
  /\ Asking(c, r)
  /\ Living(c, r) = {}
  /\ registry' = Swept(c, r)
  /\ UNCHANGED <<open, ref, import, view>>

\* std::map::emplace under the resolved device: an entry that is there stays.
\* Mutant: the entry is made under the device the client asked for.
UnderAsked(c, r, s) ==
  LET key == [kind |-> ref[r].kind, handle |-> ref[r].handle,
              device |-> IF Asks[c] = AnyDevice THEN 0 ELSE Asks[c]]
  IN  IF Swept(c, r)[key] = "absent"
        THEN [Swept(c, r) EXCEPT ![key] = s] ELSE Swept(c, r)
Registered(c, r, s) ==
  LET key == [kind |-> ref[r].kind, handle |-> ref[r].handle,
              device |-> Home[ref[r].alloc]]
  IN  IF Swept(c, r)[key] = "absent"
        THEN [Swept(c, r) EXCEPT ![key] = s] ELSE Swept(c, r)

\* import_external_memory: what the driver maps is what the number names now,
\* on the device the UUID resolves to.  A descriptor is closed by the driver.
AdoptImports(c, r) ==
  /\ Asking(c, r)
  /\ Living(c, r) = {}
  /\ ~ref[r].spent
  /\ open[ref[r].kind][ref[r].handle] # None
  /\ \E s \in Slot :
       /\ import[s] = None
       /\ import' = [import EXCEPT ![s] =
            [kind |-> ref[r].kind, handle |-> ref[r].handle,
             alloc |-> open[ref[r].kind][ref[r].handle], device |-> Home[ref[r].alloc]]]
       /\ registry' = Registered(c, r, s)
       /\ view' = [view EXCEPT ![c] = [slot |-> s, alloc |-> ref[r].alloc]]
  /\ IF ref[r].kind = "fd"
       THEN /\ open' = [open EXCEPT !["fd"][ref[r].handle] = None]
            /\ ref' = [ref EXCEPT ![r].spent = TRUE]
       ELSE UNCHANGED <<open, ref>>

\* The driver takes the handle but cannot map the region: the import is undone
\* and adopt throws before it marks the reference.
AdoptMapsNothing(c, r) ==
  /\ Asking(c, r)
  /\ Living(c, r) = {}
  /\ ref[r].kind = "fd" /\ ~ref[r].spent
  /\ open["fd"][ref[r].handle] # None
  /\ open' = [open EXCEPT !["fd"][ref[r].handle] = None]
  /\ registry' = Swept(c, r)
  /\ UNCHANGED <<ref, import, view>>

\* adopt() of memory that is the backend's own: handed straight back, if it is
\* on the device asked for.  Client c takes over a view that d holds.
AdoptOwn(c, d) ==
  /\ view[c] = None /\ view[d] # None
  /\ Asks[c] \in {AnyDevice, import[Held(d)].device}
  /\ view' = [view EXCEPT ![c] = view[d]]
  /\ UNCHANGED <<open, ref, import, registry>>

----------------------------------------------------------------------------
(* A client lets go                                                        *)

\* The weak references to an import nobody holds any more.
\* Mutant: the registry keeps pointing at it.
KeptIn(s) == registry
Expired(s) == [k \in Key |-> IF registry[k] = s THEN "expired" ELSE registry[k]]

Release(c) ==
  /\ view[c] # None
  /\ view' = [view EXCEPT ![c] = None]
  /\ IF Holders(Held(c)) = {c}
       THEN /\ import' = [import EXCEPT ![Held(c)] = None]
            /\ registry' = Expired(Held(c))
       ELSE UNCHANGED <<import, registry>>
  /\ UNCHANGED <<open, ref>>

Next ==
  \/ \E r \in Ref, a \in Alloc, k \in Kind, h \in Handle : Export(r, a, k, h)
  \/ \E r, q \in Ref : Share(r, q)
  \/ \E r \in Ref : Drop(r)
  \/ \E c \in Client, r \in Ref :
       \/ AdoptExisting(c, r) \/ AdoptThrows(c, r)
       \/ AdoptImports(c, r) \/ AdoptMapsNothing(c, r)
  \/ \E c, d \in Client : AdoptOwn(c, d)
  \/ \E c \in Client : Release(c)

Spec == Init /\ [][Next]_vars

----------------------------------------------------------------------------
(* Properties                                                              *)

\* Types, and that a weak reference is either to a live import of its own key
\* or has expired: no entry of the registry dangles.
TypeOK ==
  /\ open \in [Kind -> [Handle -> Alloc \cup {None}]]
  /\ ref \in [Ref -> Reference \cup {None}]
  /\ import \in [Slot -> Import \cup {None}]
  /\ registry \in [Key -> Slot \cup {"expired", "absent"}]
  /\ view \in [Client -> View \cup {None}]
  /\ \A k \in Key : registry[k] \in Slot =>
       LET i == import[registry[k]]
       IN  i # None /\ k = [kind |-> i.kind, handle |-> i.handle, device |-> i.device]
  /\ \A c \in Client : view[c] # None => import[Held(c)] # None

\* What a client was handed is a view of the allocation it asked for ("a second
\* view of the SAME allocation", onnx.cpp:748-749): whatever was imported, let
\* go, closed and numbered again before.
ViewIsOfItsAllocation ==
  \A c \in Client : view[c] # None => import[Held(c)].alloc = view[c].alloc

\* No handle is mapped twice at once: "importing the same external allocation
\* twice yields two independent mappings of one piece of memory", which the
\* registry exists to prevent (adopt.cpp:7-12).
OneMapping ==
  \A s, t \in Slot :
    import[s] # None /\ import[t] # None /\ s # t
      => import[s].kind # import[t].kind \/ import[s].handle # import[t].handle

\* An import is in the registry for as long as it lives: neither the expiry of
\* an earlier one nor a lookup for another device takes it out.
RegistryFindsTheLiving ==
  \A s \in Slot : import[s] # None =>
    registry[[kind   |-> import[s].kind, handle |-> import[s].handle,
              device |-> import[s].device]] = s

=============================================================================
