---------------------------- MODULE KernelProofs ----------------------------
(***************************************************************************)
(* For any threads, devices, references, regions and stages: what a        *)
(* reference holds in the driver, where its making or its destruction has  *)
(* got to; and what a stage shares, whoever lets go of what beside it.     *)
(***************************************************************************)
EXTENDS Kernel, TLAPS

----------------------------------------------------------------------------
(* The first invariant: what the driver holds                              *)

Steps(kind) ==
  IF kind = "empty" THEN {"setDevice", "return", "live", "gone"}
  ELSE IF kind = "owned"
    THEN {"setDevice", "create", "reserve", "map", "access", "return", "live",
          "leave", "unmap", "addressFree", "release", "gone"}
    ELSE {"setDevice", "import", "view", "return", "live", "leave", "free", "release", "gone"}

\* The parts of an allocation an object has, by the call that is next.
HasHandle(r) ==
  /\ ref[r] # None /\ ref[r].kind # "empty"
  /\ todo[r] \notin {"setDevice", "create", "import", "gone"}
HasRegion(r) == HasHandle(r) /\ todo[r] \notin {"reserve", "view", "release"}
IsMapped(r)  == HasRegion(r) /\ todo[r] \notin {"map", "addressFree"}
IsUsable(r)  == HasRegion(r) /\ todo[r] \in {"return", "live", "leave"}

\* An object exists from its first call to its last, and has the steps of its kind.
Stepwise ==
  \A r \in Ref :
    IF ref[r] = None THEN todo[r] = "none"
    ELSE todo[r] \in Steps(ref[r].kind) /\ (ref[r].kind = "empty" => ref[r].range = None)

Handles == \A r \in Ref : r \in handles <=> HasHandle(r)

\* A region in use is that of exactly one object.
Regions ==
  /\ \A r \in Ref : HasRegion(r) => ref[r].range \in reserved
  /\ \A g \in reserved : \E r \in Ref : HasRegion(r) /\ ref[r].range = g
  /\ \A r, o \in Ref : HasRegion(r) /\ HasRegion(o) /\ ref[r].range = ref[o].range => r = o

Mappings ==
  /\ \A r \in Ref : IsMapped(r) => mapped[ref[r].range] = r
  /\ \A r \in Ref : IsUsable(r) => ref[r].range \in usable

\* A reference that is being made or destroyed is so by one thread.
Workers ==
  /\ \A t \in Thread : \A r \in mine[t] : todo[r] \notin {"none", "live"}
  /\ \A t, u \in Thread : \A r \in Ref : r \in mine[t] /\ r \in mine[u] => t = u

\* A thread that has begun with one is on its device, the others wait.
Contexts ==
  /\ \A t \in Thread : at[t] # None => at[t] \in mine[t] /\ current[t] = ref[at[t]].device
  /\ \A t \in Thread : \A r \in mine[t] : at[t] # r => todo[r] \in {"setDevice", "leave", "gone"}

MInv == MemoryTypeOK /\ Stepwise /\ Handles /\ Regions /\ Mappings /\ Workers /\ Contexts

----------------------------------------------------------------------------
(* The second invariant: who is in a stage                                 *)

StageTypes ==
  /\ stage \in [Stage -> KernelStage \cup {None}]
  /\ phase \in [Stage -> Phase] /\ within \in [Thread -> Stage \cup {None}]
  /\ modules \subseteq Stage
  /\ \A s \in Stage : stage[s] = None <=> phase[s] = "none"

OneAtATime ==
  /\ \A t, u \in Thread : within[t] # None /\ within[t] = within[u] => t = u
  /\ \A t \in Thread : within[t] # None => phase[within[t]] \notin {"none", "idle"}

\* Between the call that made the device current and those that need it, the
\* thread does nothing else.
InContext == {"load", "function", "launch", "sync", "unload"}
StageContexts ==
  \A t \in Thread, s \in Stage :
    within[t] = s /\ phase[s] \in InContext => Idle(t) /\ current[t] = stage[s].device

\* A module is loaded from the constructor to the destructor.
Modules == \A s \in modules : phase[s] \notin {"none", "construct", "load", "dead"}

\* A repetition is under way while a stage runs, and has filled a prefix.
Running == {"begin", "launch", "sync", "repeat"}
Filled(r) ==
  /\ r = [count |-> r.count, filled |-> r.filled, blocks |-> r.blocks]
  /\ r.count \in Nat /\ r.filled \in Nat \ {0} /\ r.filled <= r.count
  /\ r.blocks = 1..r.filled
Repetition ==
  /\ repeat = [t \in Thread |-> repeat[t]]
  /\ \A t \in Thread :
       repeat[t] # None \/ (within[t] # None /\ phase[within[t]] \in Running) => Filled(repeat[t])

PInv == StageTypes /\ OneAtATime /\ StageContexts /\ Repetition

----------------------------------------------------------------------------
(* The third invariant: what a stage shares                                *)

Making == {"setDevice", "create", "import", "reserve", "view", "map", "access", "return"}

\* Before it has weights a stage shares nothing.
Empty(s) ==
  /\ phase[s] \in {"construct", "load", "function"} => SharedBy(stage[s]) \subseteq {None}
  /\ phase[s] \in {"weights", "upload"} =>
       stage[s].weights \in Ref /\ stage[s].bound = NothingBound

\* The weights that are being allocated are the business of the thread in the
\* stage, and until the stage is built nobody else shares them.
Weights(s) ==
  /\ phase[s] = "weights" =>
       /\ todo[stage[s].weights] \in Making
       /\ \E t \in Thread : within[t] = s /\ stage[s].weights \in mine[t]
  /\ phase[s] \in {"weights", "upload"} =>
       /\ stage[s].weights \notin held
       /\ \A u \in Stage : stage[s].weights \in SharedBy(stage[u]) => u = s
  /\ phase[s] \in {"layout", "idle"} \cup Running => stage[s].weights \in Ref

\* What a stage shares can be used.
SharesLive(s) ==
  \A r \in SharedBy(stage[s]) : r # None /\ phase[s] # "weights" => Live(r)

\* The arguments are those of what is shared, and complete when it is launched.
LaidOut(s) ==
  /\ phase[s] \in {"idle"} \cup Running =>
       /\ stage[s].count = stage[s].rows % Word
       /\ \A p \in Argument : stage[s].args[p] = AddressOf(Shared(stage[s], p))
  /\ phase[s] \in Running =>
       stage[s].rows # 0 /\ \A p \in Port : stage[s].bound[p] # None

Shares(s) == Empty(s) /\ Weights(s) /\ SharesLive(s) /\ LaidOut(s)

HInv == \A s \in Stage : Shares(s)

KInv == MInv /\ PInv /\ HInv

----------------------------------------------------------------------------
(* What a step leaves alone                                                *)

\* A step of one thread is not one of another.
Elsewhere(t) ==
  \A u \in Thread : u # t => mine'[u] = mine[u] /\ current'[u] = current[u]

\* A driver call about one reference says nothing of the others.
Beside(t, r) ==
  /\ Elsewhere(t) /\ held' = held
  /\ r \in mine[t] /\ todo[r] \notin {"none", "live"}
  /\ \A x \in Ref : x # r => todo'[x] = todo[x] /\ ref'[x] = ref[x]
  /\ \A x \in mine[t] : x # r \/ todo[r] \in Making => x \in mine'[t]

----------------------------------------------------------------------------
(* The first invariant holds                                               *)

LEMMA MemoryTypes ==
  ASSUME MInv, NEW r \in Ref
  PROVE  /\ None \notin Ref /\ None \notin Region
         /\ todo[r] \in Op
         /\ ref[r] # None => /\ ref[r] \in Object /\ ref[r].kind \in Kind
                             /\ ref[r].device \in Device /\ ref[r].range \in Region \cup {None}
                             /\ todo[r] \in Steps(ref[r].kind) /\ todo[r] # "none"
         /\ todo[r] # "none" => ref[r] # None
         /\ \A t \in Thread : \A o \in mine[t] : o \in Ref
<1>1. None \notin Ref /\ None \notin Region
  BY DeviceAssumption
<1>2. todo[r] \in Op /\ \A t \in Thread : \A o \in mine[t] : o \in Ref
  BY DEF MInv, MemoryTypeOK
<1>3. ref[r] # None => ref[r] \in Object /\ ref[r].kind \in Kind
                         /\ ref[r].device \in Device /\ ref[r].range \in Region \cup {None}
  BY DEF MInv, MemoryTypeOK, Object
<1>4. ref[r] # None => todo[r] \in Steps(ref[r].kind) /\ todo[r] # "none"
  BY DEF MInv, Stepwise, Steps
<1>5. todo[r] # "none" => ref[r] # None
  BY DEF MInv, Stepwise
<1> QED
  BY <1>1, <1>2, <1>3, <1>4, <1>5

\* An object that exists, and a step that takes it from the call `o` to the call
\* `op`: the other references and the other threads stay where they are.
Known(r) ==
  /\ ref[r] # None /\ ref[r] \in Object /\ ref[r].kind \in Kind
  /\ ref[r].device \in Device /\ ref[r].range \in Region \cup {None}
  /\ todo[r] \in Steps(ref[r].kind)
Moved ==
  /\ current' \in [Thread -> Device] /\ todo' \in [Ref -> Op]
  /\ mine' \in [Thread -> SUBSET Ref] /\ at' \in [Thread -> Ref \cup {None}]
  /\ held' \subseteq {x \in Ref : Live(x)'}
  /\ Workers' /\ Contexts'
Others(r) ==
  \A x \in Ref : x # r =>
       /\ todo'[x] = todo[x] /\ ref'[x] = ref[x]
       /\ HasHandle(x)' <=> HasHandle(x)
       /\ HasRegion(x)' <=> HasRegion(x)
       /\ IsMapped(x)' <=> IsMapped(x)
       /\ IsUsable(x)' <=> IsUsable(x)

LEMMA Onward ==
  ASSUME MInv, NEW t \in Thread, NEW r \in Ref, NEW o \in Op, NEW op \in Op \ {"none", "live"},
         Calls(t, o, r), Then(t, r, op), held' = held,
         ref[r] # None => ref'[r] # None /\ ref'[r].device = ref[r].device,
         \A x \in Ref : x # r => ref'[x] = ref[x],
         \/ current' = [current EXCEPT ![t] = ref[r].device]
         \/ current' = current /\ o \notin {"setDevice", "leave", "gone"}
  PROVE  Known(r) /\ Moved /\ Others(r) /\ Beside(t, r) /\ todo[r] = o /\ todo'[r] = op
<1>1. /\ todo[r] = o /\ r \in mine[t] /\ at[t] \in {None, r}
      /\ todo' = [todo EXCEPT ![r] = op] /\ at' = [at EXCEPT ![t] = r] /\ mine' = mine
  BY DEF Calls, Then
<1>2. o # "none" /\ o # "live"
  BY <1>1 DEF MInv, Workers
<1>3. Known(r) /\ None \notin Ref
  BY <1>1, <1>2, MemoryTypes DEF Known
<1>4. todo' \in [Ref -> Op] /\ at' \in [Thread -> Ref \cup {None}] /\ mine' \in [Thread -> SUBSET Ref]
  BY <1>1 DEF MInv, MemoryTypeOK
<1>5. current' \in [Thread -> Device]
  BY <1>3 DEF MInv, MemoryTypeOK, Known
<1>6. todo'[r] = op /\ \A x \in Ref : x # r => todo'[x] = todo[x]
  BY <1>1 DEF MInv, MemoryTypeOK
<1>7. held' \subseteq {x \in Ref : Live(x)'}
  BY <1>1, <1>2, <1>6 DEF MInv, MemoryTypeOK, Live
<1>8. Workers'
  BY <1>1, <1>4, <1>6 DEF MInv, Workers, MemoryTypeOK
<1>9. Contexts'
  <2>1. \A u \in Thread : at'[u] = IF u = t THEN r ELSE at[u]
    BY <1>1 DEF MInv, MemoryTypeOK
  <2>2. current'[t] = ref[r].device /\ \A u \in Thread : u # t => current'[u] = current[u]
    <3>1. CASE current' = [current EXCEPT ![t] = ref[r].device]
      BY <3>1 DEF MInv, MemoryTypeOK
    <3>2. CASE current' = current /\ o \notin {"setDevice", "leave", "gone"}
      <4>1. at[t] = r
        BY <3>2, <1>1 DEF MInv, Contexts
      <4> QED
        BY <4>1, <3>2, <1>3 DEF MInv, Contexts
    <3> QED
      BY <3>1, <3>2
  <2>3. \A u \in Thread : u # t /\ at[u] # None => at[u] \in Ref /\ at[u] \in mine[u] /\ ref[at[u]] # None
    BY MemoryTypes DEF MInv, Contexts, Workers, MemoryTypeOK, Stepwise
  <2>4. \A u \in Thread : at'[u] # None => at'[u] \in mine'[u] /\ current'[u] = ref'[at'[u]].device
    BY <2>1, <2>2, <2>3, <1>1, <1>3 DEF MInv, Contexts, Known
  <2>5. \A u \in Thread : \A x \in mine'[u] : at'[u] # x => todo'[x] \in {"setDevice", "leave", "gone"}
    <3>1. SUFFICES ASSUME NEW u \in Thread, NEW x \in mine'[u], at'[u] # x
                   PROVE  todo'[x] \in {"setDevice", "leave", "gone"}
      OBVIOUS
    <3>2. x \in mine[u] /\ x \in Ref
      BY <1>1, <3>1, MemoryTypes
    <3>3. x # r
      BY <2>1, <3>1, <3>2, <1>1 DEF MInv, Workers
    <3>4. at[u] # x
      BY <2>1, <3>1, <3>3, <3>2, <1>1, <1>3
    <3> QED
      BY <3>2, <3>3, <3>4, <1>6 DEF MInv, Contexts
  <2> QED
    BY <2>4, <2>5 DEF Contexts
<1>10. \A x \in Ref : x # r =>
         /\ HasHandle(x)' <=> HasHandle(x)
         /\ HasRegion(x)' <=> HasRegion(x)
         /\ IsMapped(x)' <=> IsMapped(x)
         /\ IsUsable(x)' <=> IsUsable(x)
  BY <1>6 DEF HasHandle, HasRegion, IsMapped, IsUsable
<1>11. Beside(t, r)
  BY <1>1, <1>2, <1>6 DEF MInv, MemoryTypeOK, Beside, Elsewhere
<1> QED
  BY <1>1, <1>3, <1>4, <1>5, <1>6, <1>7, <1>8, <1>9, <1>10, <1>11 DEF Moved, Others

\* The device is made current, and nothing else happens.
LEMMA SetDeviceHolds ==
  ASSUME MInv, NEW t \in Thread, NEW r \in Ref, SetDevice(t, r)
  PROVE  MInv' /\ Beside(t, r) /\ (todo[r] \in Making => todo'[r] \in Making)
<1>1. ref' = ref
  BY DEF SetDevice
<1>2. ref[r] # None => ref'[r] = ref[r]
  BY <1>1
<1>3. /\ Known(r) /\ Moved /\ Others(r) /\ Beside(t, r)
      /\ \/ /\ todo[r] = "setDevice"
            /\ \/ ref[r].kind = "empty" /\ todo'[r] = "return"
               \/ ref[r].kind = "owned" /\ todo'[r] = "create"
               \/ ref[r].kind = "imported" /\ todo'[r] = "import"
         \/ /\ todo[r] = "leave"
            /\ \/ ref[r].kind = "owned" /\ todo'[r] = "unmap"
               \/ ref[r].kind = "imported" /\ todo'[r] = "free"
  <2>1. CASE Calls(t, "setDevice", r) /\ Then(t, r, First(ref[r].kind))
    <3>1. First(ref[r].kind) \in Op \ {"none", "live"}
      BY DEF First, Op, MayFail
    <3>2. /\ Known(r) /\ Moved /\ Others(r) /\ Beside(t, r)
          /\ todo[r] = "setDevice" /\ todo'[r] = First(ref[r].kind)
      BY <2>1, <3>1, <1>1, <1>2, Onward DEF SetDevice, Op
    <3> QED
      BY <3>2 DEF Known, Kind, First
  <2>2. CASE Calls(t, "leave", r) /\ Then(t, r, Undo(ref[r].kind, "leave"))
    <3>1. Undo(ref[r].kind, "leave") \in Op \ {"none", "live"}
      BY DEF Undo, Op
    <3>2. /\ Known(r) /\ Moved /\ Others(r) /\ Beside(t, r)
          /\ todo[r] = "leave" /\ todo'[r] = Undo(ref[r].kind, "leave")
      BY <2>2, <3>1, <1>1, <1>2, Onward DEF SetDevice, Op
    <3> QED
      BY <3>2 DEF Known, Kind, Undo, Steps
  <2> QED
    BY <2>1, <2>2 DEF SetDevice
<1>4. ref[r].kind = "empty" => todo[r] = "setDevice" /\ ref[r].range = None
  BY <1>3 DEF Known, Steps, MInv, Stepwise
<1>5. MemoryTypeOK'
  BY <1>1, <1>2, <1>3 DEF SetDevice, Known, Moved, MInv, MemoryTypeOK
<1>6. Stepwise'
  BY <1>1, <1>2, <1>3, <1>4 DEF Known, Others, MInv, Stepwise, Steps, Kind
<1>7. Handles'
  BY <1>1, <1>2, <1>3, <1>4 DEF SetDevice, Known, Others, MInv, Handles, HasHandle
<1>8. Regions'
  BY <1>1, <1>2, <1>3, <1>4 DEF SetDevice, Known, Others, MInv, Regions, HasHandle, HasRegion
<1>9. Mappings'
  BY <1>1, <1>2, <1>3, <1>4
  DEF SetDevice, Known, Others, MInv, MemoryTypeOK, Regions, Mappings, HasHandle,
      HasRegion, IsMapped, IsUsable
<1> QED
  BY <1>3, <1>5, <1>6, <1>7, <1>8, <1>9 DEF Moved, MInv, Making

\* cuMemCreate, cudaImportExternalMemory: the handle exists.
LEMMA CreateHolds ==
  ASSUME MInv, NEW t \in Thread, NEW r \in Ref, Create(t, r)
  PROVE  MInv' /\ Beside(t, r) /\ (todo[r] \in Making => todo'[r] \in Making)
<1>1. ref' = ref
  BY DEF Create
<1>2. ref[r] # None => ref'[r] = ref[r]
  BY <1>1
<1>3. /\ Known(r) /\ Moved /\ Others(r) /\ Beside(t, r)
      /\ \/ todo[r] = "create" /\ todo'[r] = "reserve"
         \/ todo[r] = "import" /\ todo'[r] = "view"
  <2>1. CASE Calls(t, "create", r) /\ Then(t, r, "reserve")
    BY <2>1, <1>1, <1>2, Onward DEF Create, Op, MayFail
  <2>2. CASE Calls(t, "import", r) /\ Then(t, r, "view")
    BY <2>2, <1>1, <1>2, Onward DEF Create, Op, MayFail
  <2> QED
    BY <2>1, <2>2 DEF Create
<1>4. ref[r].kind # "empty"
  BY <1>3 DEF Known, Steps
<1>5. MemoryTypeOK'
  BY <1>1, <1>2, <1>3 DEF Create, Known, Moved, MInv, MemoryTypeOK
<1>6. Stepwise'
  BY <1>1, <1>2, <1>3, <1>4 DEF Known, Others, MInv, Stepwise, Steps, Kind
<1>7. Handles'
  BY <1>1, <1>2, <1>3, <1>4 DEF Create, Known, Others, MInv, Handles, HasHandle
<1>8. Regions'
  BY <1>1, <1>2, <1>3, <1>4 DEF Create, Known, Others, MInv, Regions, HasHandle, HasRegion
<1>9. Mappings'
  BY <1>1, <1>2, <1>3, <1>4
  DEF Create, Known, Others, MInv, MemoryTypeOK, Regions, Mappings, HasHandle, HasRegion,
      IsMapped, IsUsable
<1> QED
  BY <1>3, <1>5, <1>6, <1>7, <1>8, <1>9 DEF Moved, MInv, Making

\* cuMemAddressReserve: a region nobody has.
LEMMA ReserveHolds ==
  ASSUME MInv, NEW t \in Thread, NEW r \in Ref, NEW g \in Region, Reserve(t, r, g)
  PROVE  MInv' /\ Beside(t, r) /\ (todo[r] \in Making => todo'[r] \in Making)
<1>1. \A x \in Ref : x # r => ref'[x] = ref[x]
  BY DEF Reserve, AtRange, MInv, MemoryTypeOK
<1>2. ref[r] # None => /\ ref'[r] \in Object /\ ref'[r] # None /\ ref'[r].kind = ref[r].kind
                       /\ ref'[r].device = ref[r].device /\ ref'[r].range = g
  <2>1. SUFFICES ASSUME ref[r] # None
                 PROVE  /\ ref'[r] \in Object /\ ref'[r].kind = ref[r].kind
                        /\ ref'[r].device = ref[r].device /\ ref'[r].range = g
    BY ObjectAssumption
  <2>2. ref'[r] = [ref[r] EXCEPT !.range = g]
    BY DEF Reserve, AtRange, MInv, MemoryTypeOK
  <2> QED
    BY <2>1, <2>2, MemoryTypes DEF Object
<1>3. Known(r) /\ Moved /\ Others(r) /\ Beside(t, r) /\ (todo[r] = "reserve" /\ todo'[r] = "map")
  <2>1. Calls(t, "reserve", r) /\ Then(t, r, "map")
    BY DEF Reserve
  <2> QED
    BY <2>1, <1>1, <1>2, Onward DEF Reserve, Op, MayFail
<1>4. ref[r].kind # "empty"
  BY <1>3 DEF Known, Steps
<1>5. MemoryTypeOK'
  <2>1. ref' \in [Ref -> Object \cup {None}]
    BY <1>2, <1>3 DEF Reserve, AtRange, Known, MInv, MemoryTypeOK
  <2> QED
    BY <2>1, <1>2, <1>3 DEF Reserve, Known, Moved, MInv, MemoryTypeOK
<1>6. Stepwise'
  BY <1>1, <1>2, <1>3, <1>4 DEF Known, Others, MInv, Stepwise, Steps, Kind
<1>7. Handles'
  BY <1>1, <1>2, <1>3, <1>4 DEF Reserve, Known, Others, MInv, Handles, HasHandle
<1>8. Regions'
  BY <1>1, <1>2, <1>3, <1>4 DEF Reserve, Known, Others, MInv, Regions, HasHandle, HasRegion
<1>9. Mappings'
  BY <1>1, <1>2, <1>3, <1>4
  DEF Reserve, Known, Others, MInv, MemoryTypeOK, Regions, Mappings, HasHandle, HasRegion,
      IsMapped, IsUsable
<1> QED
  BY <1>3, <1>5, <1>6, <1>7, <1>8, <1>9 DEF Moved, MInv, Making

\* cuMemMap: into the region that was reserved for it.
LEMMA MapHolds ==
  ASSUME MInv, NEW t \in Thread, NEW r \in Ref, Map(t, r)
  PROVE  MInv' /\ Beside(t, r) /\ (todo[r] \in Making => todo'[r] \in Making)
<1>1. ref' = ref
  BY DEF Map
<1>2. ref[r] # None => ref'[r] = ref[r]
  BY <1>1
<1>3. Known(r) /\ Moved /\ Others(r) /\ Beside(t, r) /\ (todo[r] = "map" /\ todo'[r] = "access")
  <2>1. Calls(t, "map", r) /\ Then(t, r, "access")
    BY DEF Map
  <2> QED
    BY <2>1, <1>1, <1>2, Onward DEF Map, Op, MayFail
<1>4. ref[r].kind # "empty"
  BY <1>3 DEF Known, Steps
<1>5. MemoryTypeOK'
  BY <1>1, <1>2, <1>3 DEF Map, Known, Moved, MInv, MemoryTypeOK
<1>6. Stepwise'
  BY <1>1, <1>2, <1>3, <1>4 DEF Known, Others, MInv, Stepwise, Steps, Kind
<1>7. Handles'
  BY <1>1, <1>2, <1>3, <1>4 DEF Map, Known, Others, MInv, Handles, HasHandle
<1>8. Regions'
  BY <1>1, <1>2, <1>3, <1>4 DEF Map, Known, Others, MInv, Regions, HasHandle, HasRegion
<1>9. Mappings'
  BY <1>1, <1>2, <1>3, <1>4
  DEF Map, Known, Others, MInv, MemoryTypeOK, Regions, Mappings, HasHandle, HasRegion,
      IsMapped, IsUsable
<1> QED
  BY <1>3, <1>5, <1>6, <1>7, <1>8, <1>9 DEF Moved, MInv, Making

\* cuMemSetAccess.
LEMMA AccessHolds ==
  ASSUME MInv, NEW t \in Thread, NEW r \in Ref, Access(t, r)
  PROVE  MInv' /\ Beside(t, r) /\ (todo[r] \in Making => todo'[r] \in Making)
<1>1. ref' = ref
  BY DEF Access
<1>2. ref[r] # None => ref'[r] = ref[r]
  BY <1>1
<1>3. Known(r) /\ Moved /\ Others(r) /\ Beside(t, r) /\ (todo[r] = "access" /\ todo'[r] = "return")
  <2>1. Calls(t, "access", r) /\ Then(t, r, "return")
    BY DEF Access
  <2> QED
    BY <2>1, <1>1, <1>2, Onward DEF Access, Op, MayFail
<1>4. ref[r].kind # "empty"
  BY <1>3 DEF Known, Steps
<1>5. MemoryTypeOK'
  BY <1>1, <1>2, <1>3, <1>4 DEF Access, Known, Moved, MInv, MemoryTypeOK, Regions, HasRegion, HasHandle
<1>6. Stepwise'
  BY <1>1, <1>2, <1>3, <1>4 DEF Known, Others, MInv, Stepwise, Steps, Kind
<1>7. Handles'
  BY <1>1, <1>2, <1>3, <1>4 DEF Access, Known, Others, MInv, Handles, HasHandle
<1>8. Regions'
  BY <1>1, <1>2, <1>3, <1>4 DEF Access, Known, Others, MInv, Regions, HasHandle, HasRegion
<1>9. Mappings'
  BY <1>1, <1>2, <1>3, <1>4
  DEF Access, Known, Others, MInv, MemoryTypeOK, Regions, Mappings, HasHandle, HasRegion,
      IsMapped, IsUsable
<1> QED
  BY <1>3, <1>5, <1>6, <1>7, <1>8, <1>9 DEF Moved, MInv, Making

\* cudaExternalMemoryGetMappedBuffer: a region nobody has, ready to use.
LEMMA ViewHolds ==
  ASSUME MInv, NEW t \in Thread, NEW r \in Ref, NEW g \in Region, View(t, r, g)
  PROVE  MInv' /\ Beside(t, r) /\ (todo[r] \in Making => todo'[r] \in Making)
<1>1. \A x \in Ref : x # r => ref'[x] = ref[x]
  BY DEF View, AtRange, MInv, MemoryTypeOK
<1>2. ref[r] # None => /\ ref'[r] \in Object /\ ref'[r] # None /\ ref'[r].kind = ref[r].kind
                       /\ ref'[r].device = ref[r].device /\ ref'[r].range = g
  <2>1. SUFFICES ASSUME ref[r] # None
                 PROVE  /\ ref'[r] \in Object /\ ref'[r].kind = ref[r].kind
                        /\ ref'[r].device = ref[r].device /\ ref'[r].range = g
    BY ObjectAssumption
  <2>2. ref'[r] = [ref[r] EXCEPT !.range = g]
    BY DEF View, AtRange, MInv, MemoryTypeOK
  <2> QED
    BY <2>1, <2>2, MemoryTypes DEF Object
<1>3. Known(r) /\ Moved /\ Others(r) /\ Beside(t, r) /\ (todo[r] = "view" /\ todo'[r] = "return")
  <2>1. Calls(t, "view", r) /\ Then(t, r, "return")
    BY DEF View
  <2> QED
    BY <2>1, <1>1, <1>2, Onward DEF View, Op, MayFail
<1>4. ref[r].kind # "empty"
  BY <1>3 DEF Known, Steps
<1>5. MemoryTypeOK'
  <2>1. ref' \in [Ref -> Object \cup {None}]
    BY <1>2, <1>3 DEF View, AtRange, Known, MInv, MemoryTypeOK
  <2> QED
    BY <2>1, <1>2, <1>3 DEF View, Known, Moved, MInv, MemoryTypeOK
<1>6. Stepwise'
  BY <1>1, <1>2, <1>3, <1>4 DEF Known, Others, MInv, Stepwise, Steps, Kind
<1>7. Handles'
  BY <1>1, <1>2, <1>3, <1>4 DEF View, Known, Others, MInv, Handles, HasHandle
<1>8. Regions'
  BY <1>1, <1>2, <1>3, <1>4 DEF View, Known, Others, MInv, Regions, HasHandle, HasRegion
<1>9. Mappings'
  BY <1>1, <1>2, <1>3, <1>4
  DEF View, Known, Others, MInv, MemoryTypeOK, Regions, Mappings, HasHandle, HasRegion,
      IsMapped, IsUsable
<1> QED
  BY <1>3, <1>5, <1>6, <1>7, <1>8, <1>9 DEF Moved, MInv, Making

\* cuMemUnmap: its own region, which no other object is mapped in.
LEMMA UnmapHolds ==
  ASSUME MInv, NEW t \in Thread, NEW r \in Ref, Unmap(t, r)
  PROVE  MInv' /\ Beside(t, r) /\ (todo[r] \in Making => todo'[r] \in Making)
<1>1. ref' = ref
  BY DEF Unmap
<1>2. ref[r] # None => ref'[r] = ref[r]
  BY <1>1
<1>3. Known(r) /\ Moved /\ Others(r) /\ Beside(t, r) /\ (todo[r] = "unmap" /\ todo'[r] = "addressFree")
  <2>1. Calls(t, "unmap", r) /\ Then(t, r, "addressFree")
    BY DEF Unmap, Undo
  <2> QED
    BY <2>1, <1>1, <1>2, Onward DEF Unmap, Op, MayFail
<1>4. ref[r].kind # "empty"
  BY <1>3 DEF Known, Steps
<1>5. MemoryTypeOK'
  BY <1>1, <1>2, <1>3 DEF Unmap, Known, Moved, MInv, MemoryTypeOK
<1>6. Stepwise'
  BY <1>1, <1>2, <1>3, <1>4 DEF Known, Others, MInv, Stepwise, Steps, Kind
<1>7. Handles'
  BY <1>1, <1>2, <1>3, <1>4 DEF Unmap, Known, Others, MInv, Handles, HasHandle
<1>8. Regions'
  BY <1>1, <1>2, <1>3, <1>4 DEF Unmap, Known, Others, MInv, Regions, HasHandle, HasRegion
<1>9. Mappings'
  BY <1>1, <1>2, <1>3, <1>4
  DEF Unmap, Known, Others, MInv, MemoryTypeOK, Regions, Mappings, HasHandle, HasRegion,
      IsMapped, IsUsable
<1> QED
  BY <1>3, <1>5, <1>6, <1>7, <1>8, <1>9 DEF Moved, MInv, Making

\* cuMemAddressFree: the region is nobody's.
LEMMA AddressFreeHolds ==
  ASSUME MInv, NEW t \in Thread, NEW r \in Ref, AddressFree(t, r)
  PROVE  MInv' /\ Beside(t, r) /\ (todo[r] \in Making => todo'[r] \in Making)
<1>1. ref' = ref
  BY DEF AddressFree
<1>2. ref[r] # None => ref'[r] = ref[r]
  BY <1>1
<1>3. Known(r) /\ Moved /\ Others(r) /\ Beside(t, r) /\ (todo[r] = "addressFree" /\ todo'[r] = "release")
  <2>1. Calls(t, "addressFree", r) /\ Then(t, r, "release")
    BY DEF AddressFree, Undo
  <2> QED
    BY <2>1, <1>1, <1>2, Onward DEF AddressFree, Op, MayFail
<1>4. ref[r].kind # "empty"
  BY <1>3 DEF Known, Steps
<1>5. MemoryTypeOK'
  BY <1>1, <1>2, <1>3 DEF AddressFree, Known, Moved, MInv, MemoryTypeOK
<1>6. Stepwise'
  BY <1>1, <1>2, <1>3, <1>4 DEF Known, Others, MInv, Stepwise, Steps, Kind
<1>7. Handles'
  BY <1>1, <1>2, <1>3, <1>4 DEF AddressFree, Known, Others, MInv, Handles, HasHandle
<1>8. Regions'
  BY <1>1, <1>2, <1>3, <1>4 DEF AddressFree, Known, Others, MInv, Regions, HasHandle, HasRegion
<1>9. Mappings'
  BY <1>1, <1>2, <1>3, <1>4
  DEF AddressFree, Known, Others, MInv, MemoryTypeOK, Regions, Mappings, HasHandle,
      HasRegion, IsMapped, IsUsable
<1> QED
  BY <1>3, <1>5, <1>6, <1>7, <1>8, <1>9 DEF Moved, MInv, Making

\* cudaFree of a mapped buffer: unmapped and nobody's.
LEMMA FreeViewHolds ==
  ASSUME MInv, NEW t \in Thread, NEW r \in Ref, FreeView(t, r)
  PROVE  MInv' /\ Beside(t, r) /\ (todo[r] \in Making => todo'[r] \in Making)
<1>1. ref' = ref
  BY DEF FreeView
<1>2. ref[r] # None => ref'[r] = ref[r]
  BY <1>1
<1>3. Known(r) /\ Moved /\ Others(r) /\ Beside(t, r) /\ (todo[r] = "free" /\ todo'[r] = "release")
  <2>1. Calls(t, "free", r) /\ Then(t, r, "release")
    BY DEF FreeView, Undo
  <2> QED
    BY <2>1, <1>1, <1>2, Onward DEF FreeView, Op, MayFail
<1>4. ref[r].kind # "empty"
  BY <1>3 DEF Known, Steps
<1>5. MemoryTypeOK'
  BY <1>1, <1>2, <1>3 DEF FreeView, Known, Moved, MInv, MemoryTypeOK
<1>6. Stepwise'
  BY <1>1, <1>2, <1>3, <1>4 DEF Known, Others, MInv, Stepwise, Steps, Kind
<1>7. Handles'
  BY <1>1, <1>2, <1>3, <1>4 DEF FreeView, Known, Others, MInv, Handles, HasHandle
<1>8. Regions'
  BY <1>1, <1>2, <1>3, <1>4 DEF FreeView, Known, Others, MInv, Regions, HasHandle, HasRegion
<1>9. Mappings'
  BY <1>1, <1>2, <1>3, <1>4
  DEF FreeView, Known, Others, MInv, MemoryTypeOK, Regions, Mappings, HasHandle, HasRegion,
      IsMapped, IsUsable
<1> QED
  BY <1>3, <1>5, <1>6, <1>7, <1>8, <1>9 DEF Moved, MInv, Making

\* cuMemRelease, cudaDestroyExternalMemory.
LEMMA ReleaseHandleHolds ==
  ASSUME MInv, NEW t \in Thread, NEW r \in Ref, ReleaseHandle(t, r)
  PROVE  MInv' /\ Beside(t, r) /\ (todo[r] \in Making => todo'[r] \in Making)
<1>1. ref' = ref
  BY DEF ReleaseHandle
<1>2. ref[r] # None => ref'[r] = ref[r]
  BY <1>1
<1>3. Known(r) /\ Moved /\ Others(r) /\ Beside(t, r) /\ (todo[r] = "release" /\ todo'[r] = "gone")
  <2>1. Calls(t, "release", r) /\ Then(t, r, "gone")
    BY DEF ReleaseHandle, Undo
  <2> QED
    BY <2>1, <1>1, <1>2, Onward DEF ReleaseHandle, Op, MayFail
<1>4. ref[r].kind # "empty"
  BY <1>3 DEF Known, Steps
<1>5. MemoryTypeOK'
  BY <1>1, <1>2, <1>3 DEF ReleaseHandle, Known, Moved, MInv, MemoryTypeOK
<1>6. Stepwise'
  BY <1>1, <1>2, <1>3, <1>4 DEF Known, Others, MInv, Stepwise, Steps, Kind
<1>7. Handles'
  BY <1>1, <1>2, <1>3, <1>4 DEF ReleaseHandle, Known, Others, MInv, Handles, HasHandle
<1>8. Regions'
  BY <1>1, <1>2, <1>3, <1>4 DEF ReleaseHandle, Known, Others, MInv, Regions, HasHandle, HasRegion
<1>9. Mappings'
  BY <1>1, <1>2, <1>3, <1>4
  DEF ReleaseHandle, Known, Others, MInv, MemoryTypeOK, Regions, Mappings, HasHandle,
      HasRegion, IsMapped, IsUsable
<1> QED
  BY <1>3, <1>5, <1>6, <1>7, <1>8, <1>9 DEF Moved, MInv, Making

\* A driver call fails, and the undoing starts where there is something to undo.
LEMMA DriverFailsHolds ==
  ASSUME MInv, NEW t \in Thread, NEW r \in Ref, DriverFails(t, r)
  PROVE  MInv' /\ Beside(t, r)
<1>1. ref' = ref
  BY DEF DriverFails
<1>2. ref[r] # None => ref'[r] = ref[r]
  BY <1>1
<1>3. /\ Known(r) /\ Moved /\ Others(r) /\ Beside(t, r)
      /\ \/ todo[r] \in {"create", "import"} /\ todo'[r] = "gone"
         \/ todo[r] \in {"reserve", "view"} /\ todo'[r] = "release"
         \/ todo[r] = "map" /\ todo'[r] = "addressFree"
         \/ todo[r] = "access" /\ todo'[r] = "unmap"
  <2>1. PICK o \in MayFail : Calls(t, o, r) /\ Then(t, r, Unwinding(o))
    BY DEF DriverFails
  <2>2. /\ o \in Op /\ o \notin {"setDevice", "leave", "gone"}
        /\ Unwinding(o) \in Op \ {"none", "live"}
    BY <2>1 DEF Unwinding, Op, MayFail
  <2>3. current' = current /\ held' = held
    BY DEF DriverFails, driver
  <2>4. Known(r) /\ Moved /\ Others(r) /\ Beside(t, r) /\ todo[r] = o /\ todo'[r] = Unwinding(o)
    BY <2>1, <2>2, <2>3, <1>1, <1>2, Onward
  <2>5. \/ o \in {"create", "import"} /\ Unwinding(o) = "gone"
        \/ o \in {"reserve", "view"} /\ Unwinding(o) = "release"
        \/ o = "map" /\ Unwinding(o) = "addressFree"
        \/ o = "access" /\ Unwinding(o) = "unmap"
    BY DEF Unwinding, MayFail
  <2> QED
    BY <2>4, <2>5
<1>4. ref[r].kind # "empty"
  BY <1>3 DEF Known, Steps
<1>5. MemoryTypeOK'
  BY <1>1, <1>2, <1>3 DEF DriverFails, driver, Known, Moved, MInv, MemoryTypeOK
<1>6. Stepwise'
  BY <1>1, <1>2, <1>3, <1>4 DEF Known, Others, MInv, Stepwise, Steps, Kind, driver
<1>7. Handles'
  BY <1>1, <1>2, <1>3, <1>4 DEF DriverFails, Known, Others, MInv, Handles, HasHandle, driver
<1>8. Regions'
  BY <1>1, <1>2, <1>3, <1>4 DEF DriverFails, Known, Others, MInv, Regions, HasHandle, HasRegion, driver
<1>9. Mappings'
  BY <1>1, <1>2, <1>3, <1>4
  DEF DriverFails, Known, Others, MInv, MemoryTypeOK, Regions, Mappings, HasHandle,
      HasRegion, IsMapped, IsUsable, driver
<1> QED
  BY <1>3, <1>5, <1>6, <1>7, <1>8, <1>9 DEF Moved, MInv

\* What the driver holds is not touched, nor are the parts any object has.
Untouched ==
  /\ handles' = handles /\ reserved' = reserved /\ mapped' = mapped /\ usable' = usable
  /\ \A x \in Ref : /\ HasHandle(x)' <=> HasHandle(x)
                    /\ HasRegion(x)' <=> HasRegion(x)
                    /\ IsMapped(x)' <=> IsMapped(x)
                    /\ IsUsable(x)' <=> IsUsable(x)
                    /\ HasHandle(x) => ref'[x] = ref[x]

LEMMA UntouchedHolds ==
  ASSUME MInv, Untouched
  PROVE  Handles' /\ Regions' /\ Mappings'
<1>1. Handles'
  BY DEF Untouched, MInv, Handles
<1>2. \A x \in Ref : /\ HasRegion(x) => HasHandle(x)
                     /\ IsMapped(x) => HasRegion(x)
                     /\ IsUsable(x) => HasRegion(x)
  BY DEF HasRegion, IsMapped, IsUsable
<1>3. Regions'
  BY <1>2 DEF Untouched, MInv, Regions
<1>4. Mappings'
  BY <1>2 DEF Untouched, MInv, Mappings
<1> QED
  BY <1>1, <1>3, <1>4

\* The object is no more: it had nothing left.
LEMMA GoneHolds ==
  ASSUME MInv, NEW t \in Thread, NEW r \in Ref, Gone(t, r)
  PROVE  MInv' /\ Beside(t, r) /\ todo[r] \notin Making
<1>1. /\ todo[r] = "gone" /\ r \in mine[t] /\ at[t] \in {None, r}
      /\ current' = current /\ held' = held
  BY DEF Gone, Calls, driver
<1>2. /\ todo'[r] = "none" /\ ref'[r] = None
      /\ \A x \in Ref : x # r => todo'[x] = todo[x] /\ ref'[x] = ref[x]
      /\ at'[t] = None /\ \A u \in Thread : u # t => at'[u] = at[u]
      /\ mine'[t] = mine[t] \ {r} /\ \A u \in Thread : u # t => mine'[u] = mine[u]
  BY DEF Gone, Ends, MInv, MemoryTypeOK
<1>3. MemoryTypeOK'
  BY <1>1, <1>2 DEF Gone, Ends, driver, Op, Live, MInv, MemoryTypeOK
<1>4. Stepwise'
  BY <1>2 DEF MInv, Stepwise
<1>5. Untouched
  <2>1. ~HasHandle(r) /\ ~HasHandle(r)'
    BY <1>1, <1>2 DEF HasHandle
  <2> QED
    BY <2>1, <1>2 DEF Gone, driver, Untouched, HasHandle, HasRegion, IsMapped, IsUsable
<1>6. \A u \in Thread : r \in mine[u] => u = t
  BY <1>1 DEF MInv, Workers
<1>7. Workers'
  BY <1>1, <1>2, <1>6 DEF MInv, Workers, MemoryTypeOK
<1>8. Contexts'
  <2>1. \A u \in Thread : u # t /\ at[u] # None => at[u] \in mine[u] /\ at[u] # r /\ at[u] \in Ref
    BY <1>6 DEF MInv, Contexts, MemoryTypeOK
  <2>2. \A u \in Thread : at'[u] # None => at'[u] \in mine'[u] /\ current'[u] = ref'[at'[u]].device
    BY <2>1, <1>1, <1>2 DEF MInv, Contexts
  <2>3. \A u \in Thread : \A x \in mine'[u] : at'[u] # x => todo'[x] \in {"setDevice", "leave", "gone"}
    BY <1>1, <1>2, <1>6 DEF MInv, Contexts, MemoryTypeOK
  <2> QED
    BY <2>2, <2>3 DEF Contexts
<1>9. Beside(t, r) /\ todo[r] \notin Making
  BY <1>1, <1>2 DEF Beside, Elsewhere, Making, MInv, MemoryTypeOK
<1> QED
  BY <1>3, <1>4, <1>5, <1>7, <1>8, <1>9, UntouchedHolds DEF MInv

\* It has been made, and has all its parts.
LEMMA MadeHolds ==
  ASSUME MInv, NEW t \in Thread, NEW r \in Ref, Calls(t, "return", r), Ends(t, r, "live"),
         UNCHANGED <<driver, ref>>, held' = held \/ held' = held \cup {r}
  PROVE  MInv'
<1>1. /\ todo[r] = "return" /\ r \in mine[t] /\ at[t] \in {None, r}
      /\ current' = current /\ ref' = ref
  BY DEF Calls, driver
<1>2. /\ todo'[r] = "live"
      /\ \A x \in Ref : x # r => todo'[x] = todo[x]
      /\ at'[t] = None /\ \A u \in Thread : u # t => at'[u] = at[u]
      /\ mine'[t] = mine[t] \ {r} /\ \A u \in Thread : u # t => mine'[u] = mine[u]
  BY DEF Ends, MInv, MemoryTypeOK
<1>3. MemoryTypeOK'
  BY <1>1, <1>2 DEF Ends, driver, Op, Live, MInv, MemoryTypeOK
<1>4. Stepwise'
  BY <1>1, <1>2 DEF MInv, Stepwise, Steps
<1>5. Untouched
  BY <1>1, <1>2 DEF driver, Untouched, HasHandle, HasRegion, IsMapped, IsUsable
<1>6. \A u \in Thread : r \in mine[u] => u = t
  BY <1>1 DEF MInv, Workers
<1>7. Workers'
  BY <1>1, <1>2, <1>6 DEF MInv, Workers, MemoryTypeOK
<1>8. Contexts'
  <2>1. \A u \in Thread : u # t /\ at[u] # None => at[u] \in mine[u] /\ at[u] # r /\ at[u] \in Ref
    BY <1>6 DEF MInv, Contexts, MemoryTypeOK
  <2>2. \A u \in Thread : at'[u] # None => at'[u] \in mine'[u] /\ current'[u] = ref'[at'[u]].device
    BY <2>1, <1>1, <1>2 DEF MInv, Contexts
  <2>3. \A u \in Thread : \A x \in mine'[u] : at'[u] # x => todo'[x] \in {"setDevice", "leave", "gone"}
    BY <1>1, <1>2, <1>6 DEF MInv, Contexts, MemoryTypeOK
  <2> QED
    BY <2>2, <2>3 DEF Contexts
<1> QED
  BY <1>3, <1>4, <1>5, <1>7, <1>8, UntouchedHolds DEF MInv

\* A reference is to be made: of a kind and on a device, and nothing of it yet.
LEMMA BeginHolds ==
  ASSUME MInv, NEW t \in Thread, NEW r \in Ref, NEW kind \in Kind, NEW d \in Device,
         Begin(t, r, kind, d)
  PROVE  MInv'
<1>1. /\ mine[t] = {} /\ todo[r] = "none" /\ ref[r] = None
      /\ current' = current /\ held' = held /\ at' = at
  BY DEF Begin, Idle, driver, MInv, Stepwise, Steps
<1>2. /\ todo'[r] = "setDevice" /\ ref'[r] = [kind |-> kind, device |-> d, range |-> None]
      /\ \A x \in Ref : x # r => todo'[x] = todo[x] /\ ref'[x] = ref[x]
      /\ mine'[t] = {r} /\ \A u \in Thread : u # t => mine'[u] = mine[u]
  BY DEF Begin, MInv, MemoryTypeOK
<1>3. [kind |-> kind, device |-> d, range |-> None] \in Object
  BY DEF Object
<1>4. MemoryTypeOK'
  <2>1. ref' \in [Ref -> Object \cup {None}] /\ todo' \in [Ref -> Op]
    BY <1>3 DEF Begin, Op, MInv, MemoryTypeOK
  <2>2. mine' \in [Thread -> SUBSET Ref]
    BY DEF Begin, MInv, MemoryTypeOK
  <2>3. held' \subseteq {x \in Ref : Live(x)'}
    BY <1>1, <1>2 DEF Live, MInv, MemoryTypeOK
  <2>4. UNCHANGED <<current, handles, reserved, usable, mapped, at>>
    BY DEF Begin, driver
  <2> QED
    BY <2>1, <2>2, <2>3, <2>4 DEF MInv, MemoryTypeOK
<1>5. Stepwise'
  <2>1. ref'[r] # None
    BY <1>2, <1>3, ObjectAssumption
  <2>2. "setDevice" \in Steps(ref'[r].kind) /\ ref'[r].range = None
    BY <1>2 DEF Steps
  <2> QED
    BY <2>1, <2>2, <1>2 DEF MInv, Stepwise
<1>6. Untouched
  <2>1. ~HasHandle(r) /\ ~HasHandle(r)'
    BY <1>1, <1>2 DEF HasHandle
  <2> QED
    BY <2>1, <1>2 DEF Begin, driver, Untouched, HasHandle, HasRegion, IsMapped, IsUsable
<1>7. \A u \in Thread : r \notin mine[u]
  BY <1>1 DEF MInv, Workers
<1>8. Workers'
  BY <1>1, <1>2, <1>7 DEF MInv, Workers, MemoryTypeOK
<1>9. Contexts'
  <2>1. at[t] = None /\ \A u \in Thread : at[u] # None => at[u] \in mine[u] /\ at[u] # r /\ at[u] \in Ref
    BY <1>1, <1>7 DEF MInv, Contexts, MemoryTypeOK
  <2>2. \A u \in Thread : at'[u] # None => at'[u] \in mine'[u] /\ current'[u] = ref'[at'[u]].device
    BY <2>1, <1>1, <1>2 DEF MInv, Contexts
  <2>3. \A u \in Thread : \A x \in mine'[u] : at'[u] # x => todo'[x] \in {"setDevice", "leave", "gone"}
    BY <1>1, <1>2, <1>7 DEF MInv, Contexts, MemoryTypeOK
  <2> QED
    BY <2>2, <2>3 DEF Contexts
<1> QED
  BY <1>4, <1>5, <1>6, <1>8, <1>9, UntouchedHolds DEF MInv

\* References that can be used, and nobody holds any more, are to be destroyed.
LEMMA DestroyHolds ==
  ASSUME MInv, NEW t \in Thread, NEW rs, Idle(t), Destroy(t, rs), UNCHANGED driver,
         rs \subseteq {x \in Ref : Live(x)}, held' \subseteq held, rs \cap held' = {}
  PROVE  MInv'
<1>1. mine[t] = {} /\ ref' = ref /\ at' = at /\ current' = current
  BY DEF Destroy, Idle, driver
<1>2. /\ \A x \in rs : x \in Ref /\ todo[x] = "live" /\ todo'[x] = Leaving(ref[x].kind)
      /\ \A x \in Ref : x \notin rs => todo'[x] = todo[x]
      /\ mine'[t] = rs /\ \A u \in Thread : u # t => mine'[u] = mine[u]
  BY DEF Destroy, Live, MInv, MemoryTypeOK
<1>3. \A x \in rs : /\ ref[x] # None
                    /\ todo'[x] = IF ref[x].kind = "empty" THEN "gone" ELSE "leave"
  BY <1>2, MemoryTypes DEF Leaving
<1>4. MemoryTypeOK'
  <2>1. todo' \in [Ref -> Op]
    BY DEF Destroy, Leaving, Op, MInv, MemoryTypeOK
  <2>2. held' \subseteq {x \in Ref : Live(x)'}
    BY <1>2 DEF Live, MInv, MemoryTypeOK
  <2> QED
    BY <2>1, <2>2, <1>1, <1>2 DEF Destroy, driver, MInv, MemoryTypeOK
<1>5. Stepwise'
  <2>1. SUFFICES ASSUME NEW x \in rs
                 PROVE  todo'[x] \in Steps(ref[x].kind)
    BY <1>1, <1>2, <1>3 DEF MInv, Stepwise
  <2> QED
    BY <1>3, <1>2, MemoryTypes DEF Steps, Kind
<1>6. Untouched
  <2>1. \A x \in rs : /\ HasHandle(x)' <=> HasHandle(x)
                      /\ HasRegion(x)' <=> HasRegion(x)
                      /\ IsMapped(x)' <=> IsMapped(x)
                      /\ IsUsable(x)' <=> IsUsable(x)
    BY <1>1, <1>2, <1>3 DEF HasHandle, HasRegion, IsMapped, IsUsable
  <2>2. \A x \in Ref \ rs : /\ HasHandle(x)' <=> HasHandle(x)
                            /\ HasRegion(x)' <=> HasRegion(x)
                            /\ IsMapped(x)' <=> IsMapped(x)
                            /\ IsUsable(x)' <=> IsUsable(x)
    BY <1>1, <1>2 DEF HasHandle, HasRegion, IsMapped, IsUsable
  <2> QED
    BY <2>1, <2>2, <1>1 DEF driver, Untouched
<1>7. \A u \in Thread : \A x \in mine[u] : x \notin rs /\ x \in Ref
  BY <1>2 DEF MInv, Workers, MemoryTypeOK
<1>8. Workers'
  BY <1>1, <1>2, <1>3, <1>7 DEF MInv, Workers
<1>9. Contexts'
  <2>1. at[t] = None
    BY <1>1 DEF MInv, Contexts
  <2>2. \A u \in Thread : at'[u] # None => at'[u] \in mine'[u] /\ current'[u] = ref'[at'[u]].device
    BY <2>1, <1>1, <1>2 DEF MInv, Contexts
  <2>3. \A u \in Thread : \A x \in mine'[u] : at'[u] # x => todo'[x] \in {"setDevice", "leave", "gone"}
    BY <1>1, <1>2, <1>3, <1>7 DEF MInv, Contexts
  <2> QED
    BY <2>2, <2>3 DEF Contexts
<1> QED
  BY <1>4, <1>5, <1>6, <1>8, <1>9, UntouchedHolds DEF MInv

\* A thread that is making nothing changes its device.
LEMMA OnDeviceHolds ==
  ASSUME MInv, NEW t \in Thread, NEW d \in Device, Idle(t),
         current' = current \/ current' = [current EXCEPT ![t] = d],
         UNCHANGED <<handles, reserved, mapped, usable, ref, todo, mine, at>>,
         held' \subseteq held
  PROVE  MInv'
<1>1. Untouched
  BY DEF Untouched, HasHandle, HasRegion, IsMapped, IsUsable
<1>2. MemoryTypeOK'
  BY DEF MInv, MemoryTypeOK, Live
<1>3. Stepwise' /\ Workers'
  BY DEF MInv, Stepwise, Workers
<1>4. Contexts'
  BY DEF MInv, Contexts, Idle, MemoryTypeOK
<1> QED
  BY <1>1, <1>2, <1>3, <1>4, UntouchedHolds DEF MInv

LEMMA StutterHolds == MInv /\ UNCHANGED memoryVars => MInv'
<1>1. SUFFICES ASSUME MInv, UNCHANGED memoryVars PROVE MInv'
  OBVIOUS
<1>2. Untouched
  BY <1>1 DEF memoryVars, driver, Untouched, HasHandle, HasRegion, IsMapped, IsUsable
<1>3. MemoryTypeOK' /\ Stepwise' /\ Workers' /\ Contexts'
  BY <1>1 DEF memoryVars, driver, MInv, MemoryTypeOK, Live, Stepwise, Workers, Contexts
<1> QED
  BY <1>1, <1>2, <1>3, UntouchedHolds DEF MInv

LEMMA MemoryStarts == MemoryInit => MInv
<1>1. SUFFICES ASSUME MemoryInit PROVE MInv
  OBVIOUS
<1>2. MemoryTypeOK
  BY <1>1 DEF MemoryInit, MemoryTypeOK, Op
<1>3. Stepwise /\ Workers /\ Contexts
  BY <1>1 DEF MemoryInit, Stepwise, Workers, Contexts
<1>4. \A r \in Ref : ~HasHandle(r)
  BY <1>1 DEF MemoryInit, HasHandle
<1>5. Handles /\ Regions /\ Mappings
  BY <1>1, <1>4 DEF MemoryInit, Handles, Regions, Mappings, HasRegion, IsMapped, IsUsable
<1> QED
  BY <1>2, <1>3, <1>5 DEF MInv

LEMMA DriverStepHolds ==
  ASSUME MInv, NEW t \in Thread, NEW r \in Ref, DriverStep(t, r)
  PROVE  MInv' /\ Beside(t, r) /\ (todo[r] \in Making => todo'[r] \in Making)
BY SetDeviceHolds, CreateHolds, ReserveHolds, MapHolds, AccessHolds, ViewHolds, UnmapHolds,
   AddressFreeHolds, FreeViewHolds, ReleaseHandleHolds, GoneHolds DEF DriverStep

----------------------------------------------------------------------------
(* The second invariant holds                                              *)

\* A step that is in no stage, or that makes or destroys a reference.
LEMMA PhasesBeside ==
  ASSUME PInv, NEW t \in Thread, Elsewhere(t), within[t] = None \/ ~Idle(t), UNCHANGED stageVars
  PROVE  PInv'
<1>1. StageContexts'
  BY KernelAssumption DEF PInv, StageContexts, Elsewhere, Idle, stageVars
<1>2. StageTypes' /\ OneAtATime' /\ Repetition'
  BY DEF PInv, StageTypes, OneAtATime, Repetition, stageVars
<1> QED
  BY <1>1, <1>2 DEF PInv

LEMMA RunningIsFilled ==
  ASSUME PInv, NEW t \in Thread, NEW s \in Stage, within[t] = s, phase[s] \in Running
  PROVE  Filled(repeat[t])
<1>1. s # None
  BY KernelAssumption
<1> QED
  BY <1>1 DEF PInv, Repetition

\* A call goes on: it is in the stage, and alone there.
LEMMA GoesHolds ==
  ASSUME PInv, NEW t \in Thread, NEW s \in Stage, NEW op \in Phase \ {"none", "idle"},
         Goes(t, s, op),
         within[t] = s \/ (within[t] = None /\ phase[s] \in {"none", "idle"}),
         NEW k \in KernelStage, stage' = [stage EXCEPT ![s] = k],
         op \in InContext => Idle(t)' /\ current'[t] = k.device,
         Elsewhere(t), modules' \subseteq modules \cup {s},
         NEW q, repeat' = [repeat EXCEPT ![t] = q],
         q # None \/ op \in Running => Filled(q)
  PROVE  PInv'
<1>1. /\ phase'[s] = op /\ \A u \in Stage : u # s => phase'[u] = phase[u]
      /\ within'[t] = s /\ \A v \in Thread : v # t => within'[v] = within[v]
      /\ stage'[s] = k /\ \A u \in Stage : u # s => stage'[u] = stage[u]
      /\ repeat'[t] = q /\ \A v \in Thread : v # t => repeat'[v] = repeat[v]
  BY DEF Goes, PInv, StageTypes, Repetition
<1>2. s # None /\ k # None
  BY KernelAssumption, StageAssumption
<1>3. \A v \in Thread : v # t => within[v] # s
  BY <1>2 DEF PInv, OneAtATime
<1>4. StageTypes'
  BY <1>1, <1>2 DEF Goes, PInv, StageTypes
<1>5. OneAtATime'
  BY <1>1, <1>2, <1>3 DEF PInv, OneAtATime, StageTypes
<1>6. StageContexts'
  BY <1>1, <1>3 DEF PInv, StageContexts, Elsewhere, Idle
<1>7. Repetition'
  <2>1. repeat' = [v \in Thread |-> repeat'[v]]
    BY DEF PInv, Repetition
  <2>2. SUFFICES ASSUME NEW v \in Thread,
                        repeat'[v] # None \/ (within'[v] # None /\ phase'[within'[v]] \in Running)
                 PROVE  Filled(repeat'[v])
    BY <2>1 DEF Repetition, Filled
  <2> QED
    BY <2>2, <1>1, <1>2, <1>3 DEF PInv, Repetition, StageTypes
<1> QED
  BY <1>4, <1>5, <1>6, <1>7 DEF PInv

\* A call returns.
LEMMA ReturnsHolds ==
  ASSUME PInv, NEW t \in Thread, NEW s \in Stage, NEW op \in {"none", "idle"},
         Returns(t, s, op), within[t] = s,
         NEW k \in KernelStage \cup {None}, stage' = [stage EXCEPT ![s] = k],
         k = None <=> op = "none",
         Elsewhere(t), modules' = modules,
         NEW q, repeat' = [repeat EXCEPT ![t] = q], q # None => Filled(q)
  PROVE  PInv'
<1>1. /\ phase'[s] = op /\ \A u \in Stage : u # s => phase'[u] = phase[u]
      /\ within'[t] = None /\ \A v \in Thread : v # t => within'[v] = within[v]
      /\ stage'[s] = k /\ \A u \in Stage : u # s => stage'[u] = stage[u]
      /\ repeat'[t] = q /\ \A v \in Thread : v # t => repeat'[v] = repeat[v]
  BY DEF Returns, PInv, StageTypes, Repetition
<1>2. \A u \in Stage : u # None
  BY KernelAssumption
<1>3. \A v \in Thread : v # t => within[v] # s
  BY <1>2 DEF PInv, OneAtATime
<1>4. StageTypes'
  BY <1>1, <1>2 DEF Returns, PInv, StageTypes, Phase
<1>5. OneAtATime'
  BY <1>1, <1>2, <1>3 DEF PInv, OneAtATime, StageTypes
<1>6. StageContexts'
  BY <1>1, <1>2, <1>3 DEF PInv, StageContexts, Elsewhere, Idle, InContext
<1>7. Repetition'
  <2>1. repeat' = [v \in Thread |-> repeat'[v]]
    BY DEF PInv, Repetition
  <2>2. SUFFICES ASSUME NEW v \in Thread,
                        repeat'[v] # None \/ (within'[v] # None /\ phase'[within'[v]] \in Running)
                 PROVE  Filled(repeat'[v])
    BY <2>1 DEF Repetition, Filled
  <2> QED
    BY <2>2, <1>1, <1>2, <1>3 DEF PInv, Repetition, StageTypes
<1> QED
  BY <1>4, <1>5, <1>6, <1>7 DEF PInv

----------------------------------------------------------------------------
(* The third invariant holds where a step does not touch the stage         *)

\* The parts of a stage, and what they are shares in.
LEMMA StageParts ==
  ASSUME PInv, NEW s \in Stage, phase[s] # "none"
  PROVE  /\ stage[s] \in KernelStage /\ stage[s] # None
         /\ \A p \in Argument : Shared(stage[s], p) \in SharedBy(stage[s])
         /\ SharedBy(stage[s]) \subseteq Ref \cup {None}
<1>1. stage[s] \in KernelStage /\ stage[s] # None
  BY StageAssumption DEF PInv, StageTypes
<1>2. \A p \in Argument : Shared(stage[s], p) \in SharedBy(stage[s])
  BY <1>1 DEF Argument, Shared, SharedBy
<1>3. stage[s].weights \in Ref \cup {None} /\ stage[s].bound \in [Port -> Ref \cup {None}]
  BY <1>1 DEF KernelStage
<1> QED
  BY <1>1, <1>2, <1>3 DEF SharedBy

LEMMA NothingShared ==
  ASSUME PInv, NEW s \in Stage, phase[s] = "none"
  PROVE  SharedBy(stage[s]) = {}
BY DEF PInv, StageTypes, SharedBy

LEMMA OtherStage ==
  ASSUME PInv, HInv, NEW s \in Stage, stage'[s] = stage[s], phase'[s] = phase[s],
         \A x \in SharedBy(stage[s]) : x # None /\ Live(x) => Live(x)' /\ ref'[x] = ref[x],
         phase[s] = "weights" =>
           /\ todo'[stage[s].weights] \in Making
           /\ \E t \in Thread : within'[t] = s /\ stage[s].weights \in mine'[t],
         phase[s] \in {"weights", "upload"} =>
           /\ stage[s].weights \notin held'
           /\ \A u \in Stage : stage[s].weights \in SharedBy(stage'[u]) => u = s
  PROVE  Shares(s)'
<1>1. Empty(s)'
  BY DEF HInv, Shares, Empty
<1>2. Weights(s)'
  BY DEF HInv, Shares, Weights
<1>3. SharesLive(s)'
  BY DEF HInv, Shares, SharesLive
<1>4. LaidOut(s)'
  <2>1. CASE phase[s] \in {"idle"} \cup Running
    <3>1. \A p \in Argument : Shared(stage[s], p) \in SharedBy(stage[s])
      BY <2>1, StageParts DEF Running
    <3>2. \A x \in SharedBy(stage[s]) : x = None \/ ref'[x] = ref[x]
      BY <2>1 DEF HInv, Shares, SharesLive, Running
    <3>3. \A p \in Argument : AddressOf(Shared(stage[s], p))' = AddressOf(Shared(stage[s], p))
      <4>1. \A p \in Argument : Shared(stage[s], p)' = Shared(stage[s], p)
        BY DEF Shared
      <4> QED
        BY <4>1, <3>1, <3>2 DEF AddressOf
    <3> QED
      BY <3>3, <2>1 DEF HInv, Shares, LaidOut
  <2>2. CASE phase[s] \notin ({"idle"} \cup Running)
    BY <2>2 DEF LaidOut
  <2> QED
    BY <2>1, <2>2
<1> QED
  BY <1>1, <1>2, <1>3, <1>4 DEF Shares

\* The stages a step of a thread is not about.
LEMMA OtherStages ==
  ASSUME MInv, PInv, HInv, NEW t \in Thread, NEW S \in SUBSET Stage, within[t] \in S \cup {None},
         \A u \in Stage \ S : stage'[u] = stage[u] /\ phase'[u] = phase[u],
         \A v \in Thread : v # t => within'[v] = within[v] /\ mine'[v] = mine[v],
         \A u \in Stage \ S : \A x \in SharedBy(stage[u]) :
           x \in Ref /\ Live(x) => Live(x)' /\ ref'[x] = ref[x],
         \A v \in Thread : v # t => \A x \in mine[v] : todo'[x] = todo[x],
         held' \subseteq held \cup mine[t],
         \A u \in S : SharedBy(stage'[u]) \subseteq
           SharedBy(stage[u]) \cup held \cup {None} \cup {x \in Ref : todo[x] = "none"}
  PROVE  \A u \in Stage \ S : Shares(u)'
<1>1. SUFFICES ASSUME NEW u \in Stage \ S PROVE Shares(u)'
  OBVIOUS
<1> DEFINE w == stage[u].weights
<1>2. Empty(u) /\ Weights(u) /\ SharesLive(u)
  BY DEF HInv, Shares
<1>3. u # None /\ None \notin Ref /\ within[t] # u
  BY <1>1, DeviceAssumption, KernelAssumption
<1>4. phase[u] = "weights" =>
        \E v \in Thread : v # t /\ within[v] = u /\ w \in mine[v] /\ todo[w] \in Making
  BY <1>2, <1>3 DEF Weights
<1>5. phase[u] = "upload" => todo[w] = "live"
  BY <1>2, <1>3, StageParts DEF SharesLive, Empty, Live, SharedBy
<1>6. phase[u] \in {"weights", "upload"} => w \in Ref /\ w \notin held /\ w \notin mine[t] /\ todo[w] # "none"
  BY <1>2, <1>4, <1>5 DEF Weights, Empty, Making, MInv, Workers
<1>7. phase[u] \in {"weights", "upload"} => \A v \in Stage : w \in SharedBy(stage'[v]) => v = u
  BY <1>1, <1>2, <1>3, <1>6 DEF Weights
<1>8. phase[u] = "weights" =>
        todo'[w] \in Making /\ \E v \in Thread : within'[v] = u /\ w \in mine'[v]
  BY <1>4
<1>9. SharedBy(stage[u]) \subseteq Ref \cup {None}
  BY StageParts, NothingShared
<1> QED
  BY <1>1, <1>6, <1>7, <1>8, <1>9, OtherStage

LEMMA BesideStage ==
  ASSUME MInv, PInv, HInv, NEW t \in Thread, NEW s \in Stage, within[t] \in {s, None},
         \A u \in Stage : u # s => stage'[u] = stage[u] /\ phase'[u] = phase[u],
         \A v \in Thread : v # t => within'[v] = within[v] /\ mine'[v] = mine[v],
         \A u \in Stage : u # s =>
           \A x \in SharedBy(stage[u]) : x \in Ref /\ Live(x) => Live(x)' /\ ref'[x] = ref[x],
         \A v \in Thread : v # t => \A x \in mine[v] : todo'[x] = todo[x],
         held' \subseteq held,
         SharedBy(stage'[s]) \subseteq
           SharedBy(stage[s]) \cup held \cup {None} \cup {x \in Ref : todo[x] = "none"}
  PROVE  \A u \in Stage : u # s => Shares(u)'
<1> DEFINE S == {s}
<1>1. /\ S \in SUBSET Stage /\ within[t] \in S \cup {None}
      /\ \A u \in Stage : u # s <=> u \in Stage \ S
      /\ \A u \in S : SharedBy(stage'[u]) \subseteq
           SharedBy(stage[u]) \cup held \cup {None} \cup {x \in Ref : todo[x] = "none"}
  OBVIOUS
<1> HIDE DEF S
<1>2. \A u \in Stage \ S : Shares(u)'
  BY <1>1, OtherStages
<1> QED
  BY <1>1, <1>2

----------------------------------------------------------------------------
(* All three hold: what threads do that are in no stage                    *)

\* Such a step leaves what stages share as it is, and other threads' references.
LEMMA MemoryBeside ==
  ASSUME KInv, NEW t \in Thread, within[t] = None, UNCHANGED stageVars, MInv', Elsewhere(t),
         \A u \in Stage : \A x \in SharedBy(stage[u]) :
           x \in Ref /\ Live(x) => Live(x)' /\ ref'[x] = ref[x],
         \A v \in Thread : v # t => \A x \in mine[v] : todo'[x] = todo[x],
         held' \subseteq held \cup mine[t]
  PROVE  KInv'
<1>1. PInv'
  BY PhasesBeside DEF KInv
<1>2. \A u \in Stage \ {} : Shares(u)'
  BY OtherStages DEF KInv, Elsewhere, stageVars
<1> QED
  BY <1>1, <1>2 DEF KInv, HInv

LEMMA BeginBeside ==
  ASSUME KInv, NEW t \in Thread, within[t] = None, UNCHANGED stageVars,
         NEW r \in Ref, NEW kind \in Kind, NEW d \in Device, Begin(t, r, kind, d)
  PROVE  KInv'
<1>1. MInv'
  BY BeginHolds DEF KInv
<1>2. todo[r] = "none" /\ held' = held /\ current' = current
  BY DEF Begin, driver
<1>3. /\ \A x \in Ref : x # r => todo'[x] = todo[x] /\ ref'[x] = ref[x]
      /\ \A v \in Thread : v # t => mine'[v] = mine[v]
  BY DEF Begin, KInv, MInv, MemoryTypeOK
<1>4. \A v \in Thread : \A x \in mine[v] : x \in Ref /\ x # r
  BY <1>2 DEF KInv, MInv, Workers, MemoryTypeOK
<1> QED
  BY <1>1, <1>2, <1>3, <1>4, MemoryBeside DEF Elsewhere, Live

LEMMA OnDeviceBeside ==
  ASSUME KInv, NEW t \in Thread, within[t] = None, UNCHANGED stageVars, NEW d \in Device,
         Idle(t), current' = [current EXCEPT ![t] = d],
         UNCHANGED <<handles, reserved, mapped, usable, ref, todo, held, mine, at>>
  PROVE  KInv'
<1>1. MInv'
  BY OnDeviceHolds DEF KInv
<1>2. Elsewhere(t)
  BY DEF Elsewhere, KInv, MInv, MemoryTypeOK
<1>3. \A x \in Ref : Live(x)' <=> Live(x)
  BY DEF Live
<1> QED
  BY <1>1, <1>2, <1>3, MemoryBeside

LEMMA ReturnRefBeside ==
  ASSUME KInv, NEW t \in Thread, within[t] = None, UNCHANGED stageVars,
         NEW r \in Ref, ReturnRef(t, r)
  PROVE  KInv'
<1>1. MInv'
  BY MadeHolds DEF ReturnRef, KInv
<1>2. todo[r] = "return" /\ r \in mine[t] /\ held' = held \cup {r} /\ current' = current /\ ref' = ref
  BY DEF ReturnRef, Calls, driver
<1>3. /\ todo'[r] = "live" /\ \A x \in Ref : x # r => todo'[x] = todo[x]
      /\ \A v \in Thread : v # t => mine'[v] = mine[v]
  BY DEF ReturnRef, Ends, KInv, MInv, MemoryTypeOK
<1>4. \A v \in Thread : v # t => r \notin mine[v] /\ mine[v] \subseteq Ref
  BY <1>2 DEF KInv, MInv, Workers, MemoryTypeOK
<1>5. \A x \in Ref : Live(x) => Live(x)'
  BY <1>3 DEF Live
<1> QED
  BY <1>1, <1>2, <1>3, <1>4, <1>5, MemoryBeside DEF Elsewhere

LEMMA MemoryCallKeeps ==
  ASSUME KInv, NEW t \in Thread, within[t] = None, MemoryCall(t), UNCHANGED stageVars
  PROVE  KInv'
<1>1. ASSUME NEW d \in Device, AmbientSetDevice(t, d) PROVE KInv'
  BY <1>1, OnDeviceBeside DEF AmbientSetDevice
<1>2. ASSUME NEW r \in Ref, NEW d \in Device, Allocate(t, r, d, 1) PROVE KInv'
  BY <1>2, BeginBeside DEF Allocate, Kind
<1>3. ASSUME NEW r \in Ref, NEW d \in Device \cup {Unspecified}, Import(t, r, d) PROVE KInv'
  <2>1. DeviceFor(t, d) \in Device
    BY DEF DeviceFor, KInv, MInv, MemoryTypeOK
  <2> QED
    BY <1>3, <2>1, BeginBeside DEF Import, Kind
<1>4. ASSUME NEW r \in Ref, Transfer(t, r) PROVE KInv'
  <2>1. ref[r].device \in Device
    BY <1>4, MemoryTypes DEF Transfer, Live, KInv, MInv, MemoryTypeOK
  <2> QED
    BY <1>4, <2>1, OnDeviceBeside DEF Transfer
<1>5. ASSUME NEW r \in Ref, ReturnRef(t, r) PROVE KInv'
  BY <1>5, ReturnRefBeside
<1> QED
  BY <1>1, <1>2, <1>3, <1>4, <1>5 DEF MemoryCall

----------------------------------------------------------------------------
(* The driver calls of a reference, in a stage or not                      *)

LEMMA DriverStepKeeps ==
  ASSUME KInv, NEW t \in Thread, NEW r \in Ref, DriverStep(t, r), UNCHANGED stageVars
  PROVE  KInv'
<1>1. MInv' /\ Beside(t, r) /\ (todo[r] \in Making => todo'[r] \in Making)
  BY DriverStepHolds DEF KInv
<1>2. ~Idle(t) /\ Elsewhere(t) /\ held' = held
  BY <1>1 DEF Beside, Idle
<1>3. PInv'
  BY <1>2, PhasesBeside DEF KInv
<1>4. \A x \in Ref : Live(x) => Live(x)' /\ ref'[x] = ref[x]
  BY <1>1 DEF Beside, Live
<1>5. \A v \in Thread : v # t => \A x \in mine[v] : todo'[x] = todo[x] /\ mine'[v] = mine[v]
  BY <1>1 DEF Beside, Elsewhere, KInv, MInv, Workers, MemoryTypeOK
<1>6. CASE within[t] = None
  BY <1>1, <1>2, <1>4, <1>5, <1>6, MemoryBeside
<1>7. ASSUME NEW s \in Stage, within[t] = s PROVE KInv'
  <2> DEFINE w == stage[s].weights
  <2>1. s # None /\ Weights(s) /\ UNCHANGED <<stage, phase, within>>
    BY KernelAssumption DEF KInv, HInv, Shares, stageVars
  <2>2. \A u \in Stage : u # s => Shares(u)'
    BY <1>2, <1>4, <1>5, <1>7, <2>1, BesideStage DEF KInv, Elsewhere
  <2>3. phase[s] = "weights" =>
          todo'[w] \in Making /\ \E v \in Thread : within'[v] = s /\ w \in mine'[v]
    <3>1. SUFFICES ASSUME phase[s] = "weights"
                   PROVE  todo'[w] \in Making /\ w \in mine'[t]
      BY <1>7, <2>1
    <3>2. todo[w] \in Making /\ w \in mine[t] /\ w \in Ref
      BY <3>1, <1>7, <2>1 DEF Weights, KInv, PInv, OneAtATime, MInv, MemoryTypeOK
    <3> QED
      BY <3>2, <1>1 DEF Beside
  <2>4. \A x \in SharedBy(stage[s]) : x # None /\ Live(x) => Live(x)' /\ ref'[x] = ref[x]
    BY <1>4, <2>1, StageParts, NothingShared DEF KInv
  <2>5. phase[s] \in {"weights", "upload"} =>
          w \notin held' /\ \A u \in Stage : w \in SharedBy(stage'[u]) => u = s
    BY <1>2, <2>1 DEF Weights
  <2>6. Shares(s)'
    BY <2>1, <2>3, <2>4, <2>5, OtherStage DEF KInv
  <2> QED
    BY <1>1, <1>3, <2>2, <2>6 DEF KInv, HInv
<1> QED
  BY <1>6, <1>7 DEF KInv, PInv, StageTypes

\* The allocation of the weights fails, or another.
LEMMA AllocateFailsKeeps ==
  ASSUME KInv, NEW t \in Thread, NEW r \in Ref, AllocateFails(t, r)
  PROVE  KInv'
<1>1. MInv' /\ Beside(t, r)
  BY DriverFailsHolds DEF AllocateFails, KInv
<1>2. ~Idle(t) /\ Elsewhere(t) /\ held' = held /\ UNCHANGED <<within, modules, repeat>>
  BY <1>1 DEF Beside, Idle, AllocateFails
<1>3. \A x \in Ref : Live(x) => Live(x)' /\ ref'[x] = ref[x]
  BY <1>1 DEF Beside, Live
<1>4. \A v \in Thread : v # t => \A x \in mine[v] : todo'[x] = todo[x] /\ mine'[v] = mine[v]
  BY <1>1 DEF Beside, Elsewhere, KInv, MInv, Workers, MemoryTypeOK
<1>5. CASE within[t] = None
  <2>1. UNCHANGED stageVars
    BY <1>2, <1>5 DEF AllocateFails, stageVars
  <2> QED
    BY <1>1, <1>2, <1>3, <1>4, <1>5, <2>1, MemoryBeside
<1>6. ASSUME NEW s \in Stage, within[t] = s PROVE KInv'
  <2> DEFINE k == [stage[s] EXCEPT !.weights = None]
  <2>1. phase[s] # "none" /\ s # None
    BY <1>6, KernelAssumption DEF KInv, PInv, OneAtATime
  <2>2. stage[s] \in KernelStage /\ k \in KernelStage
    BY <2>1, StageParts DEF KInv, KernelStage
  <2>3. stage' = [stage EXCEPT ![s] = k] /\ Goes(t, s, "leave")
    BY <1>2, <1>6, <2>1 DEF AllocateFails, Goes, KInv, PInv, StageTypes
  <2>4. PInv'
    <3>1. "leave" \in Phase \ {"none", "idle"} /\ "leave" \notin InContext \cup Running
      BY DEF Phase, InContext, Running
    <3>2. repeat' = [repeat EXCEPT ![t] = repeat[t]] /\ (repeat[t] # None => Filled(repeat[t]))
      BY <1>2 DEF KInv, PInv, Repetition
    <3> QED
      BY <1>2, <1>6, <2>1, <2>2, <2>3, <3>1, <3>2, GoesHolds DEF KInv
  <2>5. /\ stage'[s] = k /\ phase'[s] = "leave"
        /\ \A u \in Stage : u # s => stage'[u] = stage[u] /\ phase'[u] = phase[u]
    BY <2>1, <2>3 DEF Goes, KInv, PInv, StageTypes
  <2>6. k.weights = None /\ k.bound = stage[s].bound /\ k # None /\ stage[s] # None
    BY <2>2, StageAssumption DEF KernelStage
  <2>7. SharedBy(k) \subseteq SharedBy(stage[s]) \cup {None}
    BY <2>6 DEF SharedBy
  <2>8. \A u \in Stage : u # s => Shares(u)'
    <3>1. SharedBy(stage'[s]) \subseteq
            SharedBy(stage[s]) \cup held \cup {None} \cup {x \in Ref : todo[x] = "none"}
      BY <2>5, <2>7
    <3> HIDE DEF k
    <3> QED
      BY <1>2, <1>3, <1>4, <1>6, <2>5, <3>1, BesideStage DEF KInv, Elsewhere
  <2>9. Shares(s)'
    <3>1. ASSUME NEW x \in SharedBy(k), x # None PROVE Live(x)'
      <4>1. x \in SharedBy(stage[s]) /\ x \in Ref
        BY <3>1, <2>1, <2>7, StageParts DEF KInv
      <4>2. phase[s] # "weights"
        BY <3>1, <2>1, <2>6 DEF SharedBy, KInv, HInv, Shares, Empty, NothingBound
      <4> QED
        BY <3>1, <4>1, <4>2, <2>1, <1>3 DEF KInv, HInv, Shares, SharesLive
    <3> HIDE DEF k
    <3>2. SharesLive(s)'
      BY <2>5, <3>1 DEF SharesLive
    <3> QED
      BY <2>5, <3>2 DEF Shares, Empty, Weights, LaidOut, Running
  <2> QED
    BY <1>1, <2>4, <2>8, <2>9 DEF KInv, HInv
<1> QED
  BY <1>5, <1>6 DEF KInv, PInv, StageTypes

----------------------------------------------------------------------------
(* A call in a stage                                                       *)

\* What a call in one stage owes the others, and its own.
LEMMA StageKeeps ==
  ASSUME KInv, NEW t \in Thread, NEW s \in Stage, within[t] \in {s, None},
         MInv', PInv', Elsewhere(t), held' \subseteq held,
         NEW k, stage' = [stage EXCEPT ![s] = k], NEW op, Goes(t, s, op) \/ Returns(t, s, op),
         \A u \in Stage : u # s =>
           \A x \in SharedBy(stage[u]) : x \in Ref /\ Live(x) => Live(x)' /\ ref'[x] = ref[x],
         \A v \in Thread : v # t => \A x \in mine[v] : todo'[x] = todo[x],
         SharedBy(k) \subseteq
           SharedBy(stage[s]) \cup held \cup {None} \cup {x \in Ref : todo[x] = "none"},
         stage'[s] = k /\ phase'[s] = op => Shares(s)'
  PROVE  KInv'
<1>1. /\ phase'[s] = op /\ stage'[s] = k
      /\ \A u \in Stage : u # s => stage'[u] = stage[u] /\ phase'[u] = phase[u]
      /\ \A v \in Thread : v # t => within'[v] = within[v] /\ mine'[v] = mine[v]
  BY DEF Goes, Returns, Elsewhere, KInv, PInv, StageTypes
<1>2. SharedBy(stage'[s]) \subseteq
        SharedBy(stage[s]) \cup held \cup {None} \cup {x \in Ref : todo[x] = "none"}
  BY <1>1
<1>3. \A u \in Stage : u # s => Shares(u)'
  BY <1>1, <1>2, BesideStage DEF KInv
<1> QED
  BY <1>1, <1>3 DEF KInv, HInv

\* What a stage is like when the call that is next is `op`.
Apt(k, op) ==
  /\ op \in {"construct", "load", "function"} => SharedBy(k) \subseteq {None}
  /\ op \in {"layout", "idle"} \cup Running => k.weights \in Ref
  /\ op \in {"idle"} \cup Running =>
       /\ k.count = k.rows % Word
       /\ \A p \in Argument : k.args[p] = AddressOf(Shared(k, p))
  /\ op \in Running => k.rows # 0 /\ \A p \in Port : k.bound[p] # None

\* A call that makes, destroys and gives away no reference.
LEMMA StillKeeps ==
  ASSUME KInv, NEW t \in Thread, NEW s \in Stage, within[t] \in {s, None},
         MInv', PInv', Elsewhere(t), UNCHANGED <<ref, todo, mine, held>>,
         NEW k, stage' = [stage EXCEPT ![s] = k], NEW op, Goes(t, s, op) \/ Returns(t, s, op),
         SharedBy(k) \subseteq SharedBy(stage[s]) \cup {None},
         phase[s] # "weights", op \notin {"weights", "upload"},
         Apt(k, op)
  PROVE  KInv'
<1>1. \A x \in Ref \cup {None} : (Live(x)' <=> Live(x)) /\ AddressOf(x)' = AddressOf(x)
  BY DEF Live, AddressOf
<1>2. ASSUME stage'[s] = k, phase'[s] = op PROVE Shares(s)'
  <2>1. Empty(s)' /\ Weights(s)'
    BY <1>2 DEF Apt, Empty, Weights
  <2>2. SharesLive(s)'
    BY <1>2 DEF SharesLive, Live, KInv, HInv, Shares
  <2>3. LaidOut(s)'
    <3>1. \A p \in Argument : AddressOf(Shared(stage[s], p))' = AddressOf(Shared(k, p))
      BY <1>2 DEF AddressOf, Shared
    <3> QED
      BY <1>2, <3>1 DEF Apt, LaidOut
  <2> QED
    BY <2>1, <2>2, <2>3 DEF Shares
<1>3. \A u \in Stage : u # s =>
        \A x \in SharedBy(stage[u]) : x \in Ref /\ Live(x) => Live(x)' /\ ref'[x] = ref[x]
  BY <1>1
<1>4. /\ held' \subseteq held /\ \A v \in Thread : v # t => \A x \in mine[v] : todo'[x] = todo[x]
      /\ SharedBy(k) \subseteq
           SharedBy(stage[s]) \cup held \cup {None} \cup {x \in Ref : todo[x] = "none"}
  OBVIOUS
<1>5. stage'[s] = k /\ phase'[s] = op => Shares(s)'
  BY <1>2
<1> QED
  BY <1>3, <1>4, <1>5, StageKeeps

\* A call that goes on, and leaves the stage's members alone.
LEMMA PassKeeps ==
  ASSUME KInv, NEW t \in Thread, NEW s \in Stage, Enters(t, s) \/ within[t] = s,
         NEW op \in Phase \ {"none", "idle", "construct", "weights", "upload"}, Goes(t, s, op),
         phase[s] \notin {"none", "weights"},
         MInv', Elsewhere(t), UNCHANGED <<ref, todo, mine, held, stage>>,
         modules' \subseteq modules \cup {s},
         op \in InContext => Idle(t) /\ current'[t] = stage[s].device,
         NEW q, repeat' = [repeat EXCEPT ![t] = q], q # None \/ op \in Running => Filled(q),
         op \in {"load", "function"} => phase[s] \in {"construct", "load"},
         op \in {"layout"} \cup Running => phase[s] \in {"upload", "idle"} \cup Running,
         op \in Running =>
           \/ phase[s] \in Running
           \/ phase[s] = "idle" /\ stage[s].rows # 0 /\ \A p \in Port : stage[s].bound[p] # None
  PROVE  KInv'
<1> DEFINE k == stage[s]
<1>1. k \in KernelStage /\ within[t] \in {s, None} /\ stage' = [stage EXCEPT ![s] = k]
  BY StageParts DEF Enters, Free, KInv, PInv, StageTypes
<1>2. Shares(s)
  BY DEF KInv, HInv
<1> HIDE DEF k
<1>3. PInv'
  BY <1>1, GoesHolds DEF k, KInv, Enters, Free, Idle
<1>4. Apt(k, op)
  <2>1. op \in {"construct", "load", "function"} => SharedBy(k) \subseteq {None}
    BY <1>2 DEF k, Shares, Empty
  <2>2. op \in {"layout", "idle"} \cup Running => k.weights \in Ref
    BY <1>2 DEF k, Shares, Empty, Weights
  <2>3. op \in {"idle"} \cup Running =>
          /\ k.count = k.rows % Word
          /\ \A p \in Argument : k.args[p] = AddressOf(Shared(k, p))
    BY <1>2 DEF k, Shares, LaidOut
  <2>4. op \in Running => k.rows # 0 /\ \A p \in Port : k.bound[p] # None
    BY <1>2 DEF k, Shares, LaidOut
  <2> QED
    BY <2>1, <2>2, <2>3, <2>4 DEF Apt
<1>5. SharedBy(k) \subseteq SharedBy(stage[s]) \cup {None}
  BY DEF k
<1> QED
  BY <1>1, <1>3, <1>4, <1>5, StillKeeps

\* What changes nothing in memory.
LEMMA Untold ==
  ASSUME KInv, NEW t \in Thread, UNCHANGED memoryVars
  PROVE  MInv' /\ Elsewhere(t) /\ UNCHANGED <<ref, todo, mine, held, current>>
BY StutterHolds DEF KInv, Elsewhere, memoryVars, driver

LEMMA Repeats ==
  ASSUME KInv, NEW t \in Thread
  PROVE  /\ repeat = [repeat EXCEPT ![t] = repeat[t]]
         /\ repeat[t] # None => Filled(repeat[t])
         /\ \A s \in Stage : within[t] = s /\ phase[s] \in Running => Filled(repeat[t])
BY RunningIsFilled DEF KInv, PInv, Repetition

LEMMA LoadKeeps ==
  ASSUME KInv, NEW t \in Thread, NEW s \in Stage, Load(t, s)
  PROVE  KInv'
<1>1. /\ Turn(t, s, "load") /\ Goes(t, s, "function") /\ UNCHANGED <<memoryVars, stage, repeat>>
      /\ modules' \subseteq modules \cup {s}
  BY DEF Load
<1>2. within[t] = s /\ phase[s] = "load" /\ Idle(t) /\ current[t] = stage[s].device
  BY <1>1 DEF Turn, KInv, PInv, StageContexts, InContext
<1> QED
  BY <1>1, <1>2, Untold, Repeats, PassKeeps DEF Phase, InContext, Running

LEMMA LoadFailsKeeps ==
  ASSUME KInv, NEW t \in Thread, NEW s \in Stage, LoadFails(t, s)
  PROVE  KInv'
<1>1. /\ Goes(t, s, "dead") /\ UNCHANGED <<memoryVars, stage, repeat, modules>>
      /\ within[t] = s /\ phase[s] \in {"load", "function"}
  BY DEF LoadFails, Turn
<1> QED
  BY <1>1, Untold, Repeats, PassKeeps DEF Phase, InContext, Running

LEMMA DestroyStageKeeps ==
  ASSUME KInv, NEW t \in Thread, NEW s \in Stage, DestroyStage(t, s)
  PROVE  KInv'
<1>1. /\ Enters(t, s) /\ Goes(t, s, "leave") /\ UNCHANGED <<memoryVars, stage, repeat, modules>>
      /\ phase[s] = "idle"
  BY DEF DestroyStage, Enters
<1> QED
  BY <1>1, Untold, Repeats, PassKeeps DEF Phase, InContext, Running

LEMMA LaunchKeeps ==
  ASSUME KInv, NEW t \in Thread, NEW s \in Stage, Launch(t, s)
  PROVE  KInv'
<1>1. /\ UNCHANGED <<memoryVars, stage, repeat, modules>>
      /\ within[t] = s /\ Idle(t)
      /\ \/ phase[s] = "launch" /\ Goes(t, s, "sync")
         \/ phase[s] = "sync" /\ Goes(t, s, "repeat")
  BY DEF Launch, Turn
<1>2. current[t] = stage[s].device /\ Filled(repeat[t])
  BY <1>1, Repeats DEF KInv, PInv, StageContexts, InContext, Running
<1> QED
  BY <1>1, <1>2, Untold, Repeats, PassKeeps DEF Phase, InContext, Running

LEMMA RunKeeps ==
  ASSUME KInv, NEW t \in Thread, NEW s \in Stage, NEW n \in RepeatCounts, Run(t, s, n)
  PROVE  KInv'
<1> DEFINE q == [count |-> n, filled |-> 1, blocks |-> {1}]
<1>1. /\ Enters(t, s) /\ Goes(t, s, "begin") /\ UNCHANGED <<memoryVars, stage, modules>>
      /\ phase[s] = "idle" /\ stage[s].rows # 0 /\ \A p \in Port : stage[s].bound[p] # None
      /\ repeat' = [repeat EXCEPT ![t] = q]
  BY DEF Run, Enters, FirstOfRun
<1>2. Filled(q)
  BY KernelAssumption DEF Filled
<1>3. /\ "begin" \in Phase \ {"none", "idle", "construct", "weights", "upload"}
      /\ "begin" \notin InContext /\ "begin" \in Running
  BY DEF Phase, InContext, Running
<1>4. /\ MInv' /\ Elsewhere(t) /\ UNCHANGED <<ref, todo, mine, held, stage>>
      /\ modules' \subseteq modules \cup {s}
  BY <1>1, Untold
<1> HIDE DEF q
<1> QED
  BY <1>1, <1>2, <1>3, <1>4, PassKeeps

LEMMA ActivateKeeps ==
  ASSUME KInv, NEW t \in Thread, NEW s \in Stage, Activate(t, s)
  PROVE  KInv'
<1>1. /\ within[t] = s /\ Idle(t) /\ current' = [current EXCEPT ![t] = stage[s].device]
      /\ UNCHANGED <<handles, reserved, mapped, usable, ref, todo, held, mine, at,
                     stage, modules, repeat>>
      /\ \/ phase[s] = "construct" /\ Goes(t, s, "load")
         \/ phase[s] = "begin" /\ Goes(t, s, "launch")
         \/ phase[s] = "leave" /\ Goes(t, s, "unload")
  BY DEF Activate, Turn
<1>2. stage[s].device \in Device
  BY <1>1, StageParts DEF KernelStage, KInv
<1>3. /\ MInv' /\ current'[t] = stage[s].device /\ Elsewhere(t)
      /\ modules' \subseteq modules \cup {s}
      /\ UNCHANGED <<ref, todo, mine, held, stage>> /\ UNCHANGED repeat
  BY <1>1, <1>2, OnDeviceHolds DEF Elsewhere, KInv, MInv, MemoryTypeOK
<1> QED
  BY <1>1, <1>3, Repeats, PassKeeps DEF Phase, InContext, Running

LEMMA UploadKeeps ==
  ASSUME KInv, NEW t \in Thread, NEW s \in Stage, Upload(t, s)
  PROVE  KInv'
<1> DEFINE w == stage[s].weights
<1>1. /\ within[t] = s /\ Idle(t) /\ phase[s] = "upload" /\ Goes(t, s, "layout")
      /\ current' = current \/ current' = [current EXCEPT ![t] = ref[w].device]
      /\ UNCHANGED <<handles, reserved, mapped, usable, ref, todo, held, mine, at,
                     stage, modules, repeat>>
  BY DEF Upload, Turn
<1>2. w \in Ref /\ todo[w] = "live"
  BY <1>1, StageParts, DeviceAssumption
  DEF SharedBy, KInv, HInv, Shares, Empty, SharesLive, Live
<1>3. ref[w].device \in Device
  BY <1>2, MemoryTypes DEF KInv
<1>4. /\ MInv' /\ Elsewhere(t) /\ modules' \subseteq modules \cup {s}
      /\ UNCHANGED <<ref, todo, mine, held, stage>> /\ UNCHANGED repeat
  BY <1>1, <1>3, OnDeviceHolds DEF Elsewhere, KInv, MInv, MemoryTypeOK
<1> QED
  BY <1>1, <1>4, Repeats, PassKeeps DEF Phase, InContext, Running

\* One more copy is filled.
LEMMA ChunkFills ==
  ASSUME NEW r, Filled(r), r.filled < r.count
  PROVE  LET n == Chunk(r.filled, r.count)
         IN Filled([count |-> r.count, filled |-> r.filled + n,
                    blocks |-> r.blocks \cup {r.filled + i : i \in r.blocks \cap 1..n}])
<1> DEFINE n == Chunk(r.filled, r.count)
<1>1. /\ r.count \in Nat /\ r.filled \in Nat \ {0} /\ r.blocks = 1..r.filled
      /\ n \in Nat \ {0} /\ n <= r.filled /\ r.filled + n <= r.count
  BY DEF Filled, Chunk
<1> HIDE DEF n
<1>2. r.blocks \cup {r.filled + i : i \in r.blocks \cap 1..n} = 1..(r.filled + n)
  <2>1. ASSUME NEW j \in 1..(r.filled + n), j > r.filled
        PROVE  j \in {r.filled + i : i \in r.blocks \cap 1..n}
    <3>1. j - r.filled \in r.blocks \cap 1..n /\ j = r.filled + (j - r.filled)
      BY <1>1, <2>1
    <3> QED
      BY <3>1
  <2>2. ASSUME NEW i \in r.blocks \cap 1..n PROVE r.filled + i \in 1..(r.filled + n)
    BY <1>1, <2>2
  <2>3. \A j \in 1..(r.filled + n) : j \in 1..r.filled \/ j > r.filled
    BY <1>1
  <2>4. 1..r.filled \subseteq 1..(r.filled + n)
    BY <1>1
  <2> QED
    BY <1>1, <2>1, <2>2, <2>3, <2>4
<1> QED
  BY <1>1, <1>2 DEF Filled, n

LEMMA RepeatKeeps ==
  ASSUME KInv, NEW t \in Thread, NEW s \in Stage, Repeat(t, s)
  PROVE  KInv'
<1> DEFINE r == repeat[t]
           n == Chunk(r.filled, r.count)
           q == [count |-> r.count, filled |-> r.filled + n,
                 blocks |-> r.blocks \cup {r.filled + i : i \in r.blocks \cap 1..n}]
<1>1. /\ within[t] = s /\ Idle(t) /\ phase[s] = "repeat" /\ r.filled < r.count
      /\ repeat' = [repeat EXCEPT ![t] = q]
      /\ current' = [current EXCEPT ![t] = stage[s].device]
      /\ UNCHANGED <<handles, reserved, mapped, usable, ref, todo, held, mine, at,
                     stage, phase, within, modules>>
  BY DEF Repeat, Turn
<1>2. Filled(q)
  BY <1>1, Repeats, ChunkFills DEF Running
<1> HIDE DEF q
<1>3. stage[s].device \in Device
  BY <1>1, StageParts DEF KernelStage, KInv
<1>4. /\ MInv' /\ Elsewhere(t) /\ modules' \subseteq modules \cup {s}
      /\ UNCHANGED <<ref, todo, mine, held, stage>>
  BY <1>1, <1>3, OnDeviceHolds DEF Elsewhere, KInv, MInv, MemoryTypeOK
<1>5. Goes(t, s, "repeat")
  BY <1>1 DEF Goes, KInv, PInv, StageTypes
<1>6. /\ "repeat" \in Phase \ {"none", "idle", "construct", "weights", "upload"}
      /\ "repeat" \notin InContext /\ "repeat" \in Running
      /\ phase[s] \in Running
  BY <1>1 DEF Phase, InContext, Running
<1> QED
  BY <1>1, <1>2, <1>4, <1>5, <1>6, PassKeeps

\* rebuild_arguments
LEMMA ArgumentsAre ==
  ASSUME KInv, NEW s \in Stage, phase[s] = "layout"
  PROVE  LET k == stage[s]
             a == Arguments(k)
         IN /\ a \in KernelStage /\ a.count = a.rows % Word
            /\ a.weights = k.weights /\ a.bound = k.bound
            /\ \A p \in Argument : a.args[p] = AddressOf(Shared(a, p))
            /\ SharedBy(a) = SharedBy(k)
<1> DEFINE k == stage[s]
           a == Arguments(k)
           args == [p \in Argument |-> AddressOf(Shared(k, p))]
<1>1. k \in KernelStage /\ k # None /\ \A p \in Argument : Shared(k, p) \in SharedBy(k)
  BY StageParts DEF KInv
<1>2. \A p \in Argument : AddressOf(Shared(k, p)) \in Region \cup {None}
  <2>1. SUFFICES ASSUME NEW p \in Argument, Shared(k, p) # None
                 PROVE  ref[Shared(k, p)].range \in Region \cup {None}
    BY DEF AddressOf
  <2>2. Shared(k, p) \in Ref /\ Live(Shared(k, p))
    BY <1>1, <2>1, StageParts DEF KInv, HInv, Shares, SharesLive
  <2> QED
    BY <2>2, MemoryTypes DEF Live, KInv
<1>3. args \in [Argument -> Region \cup {None}]
  BY <1>2
<1>4. k.rows \in Nat /\ k.rows % Word \in 0..Word - 1
  <2>1. k.rows \in RowCounts \cup {0}
    BY <1>1 DEF KernelStage
  <2>2. \A n \in Nat, w \in Nat \ {0} : n % w \in 0..w - 1
    OBVIOUS
  <2>3. RowCounts \subseteq Nat /\ 0 \in Nat /\ Word \in Nat \ {0}
    BY KernelAssumption
  <2> QED
    BY <2>1, <2>2, <2>3
<1>5. a = [k EXCEPT !.args = args, !.count = k.rows % Word]
  BY DEF Arguments
<1> HIDE DEF args, a
<1>6. /\ a \in KernelStage /\ a.count = k.rows % Word /\ a.rows = k.rows /\ a.args = args
      /\ a.weights = k.weights /\ a.bound = k.bound
  BY <1>1, <1>3, <1>4, <1>5 DEF KernelStage
<1> HIDE DEF k
<1>7. \A p \in Argument : Shared(a, p) = Shared(k, p)
  BY <1>6 DEF Shared
<1>8. SharedBy(a) = SharedBy(k)
  BY <1>1, <1>6, StageAssumption DEF SharedBy
<1> QED
  BY <1>6, <1>7, <1>8 DEF args, a, k

LEMMA LayoutKeeps ==
  ASSUME KInv, NEW t \in Thread, NEW s \in Stage, Layout(t, s)
  PROVE  KInv'
<1> DEFINE k == Arguments(stage[s])
<1>1. /\ within[t] = s /\ phase[s] = "layout" /\ Returns(t, s, "idle")
      /\ stage' = [stage EXCEPT ![s] = k]
      /\ UNCHANGED <<memoryVars, modules, repeat>>
  BY DEF Layout, Turn
<1>2. /\ k \in KernelStage /\ k.count = k.rows % Word /\ k.weights = stage[s].weights
      /\ \A p \in Argument : k.args[p] = AddressOf(Shared(k, p))
      /\ SharedBy(k) = SharedBy(stage[s])
  BY <1>1, ArgumentsAre
<1>3. k # None
  BY <1>2, StageAssumption
<1> HIDE DEF k
<1>4. MInv' /\ Elsewhere(t) /\ UNCHANGED <<ref, todo, mine, held>>
  BY <1>1, Untold
<1>5. PInv'
  BY <1>1, <1>2, <1>3, <1>4, Repeats, ReturnsHolds DEF KInv
<1>6. Apt(k, "idle")
  <2>1. k.weights \in Ref
    BY <1>1, <1>2 DEF KInv, HInv, Shares, Weights
  <2> QED
    BY <1>2, <2>1 DEF Apt, Running
<1> QED
  BY <1>1, <1>2, <1>4, <1>5, <1>6, StillKeeps

LEMMA RunEndsKeeps ==
  ASSUME KInv, NEW t \in Thread, NEW s \in Stage, RunEnds(t, s)
  PROVE  KInv'
<1> DEFINE k == stage[s]
<1>1. /\ within[t] = s /\ phase[s] \in Running /\ Returns(t, s, "idle")
      /\ repeat' = [repeat EXCEPT ![t] = None]
      /\ UNCHANGED <<memoryVars, stage, modules>>
  BY DEF RunEnds, Turn, Running
<1>2. k \in KernelStage /\ k # None /\ stage' = [stage EXCEPT ![s] = k]
  BY <1>1, StageParts DEF Running, KInv, PInv, StageTypes
<1>3. Apt(k, "idle")
  <2>1. /\ k.count = k.rows % Word /\ k.weights \in Ref
        /\ \A p \in Argument : k.args[p] = AddressOf(Shared(k, p))
    BY <1>1 DEF KInv, HInv, Shares, LaidOut, Weights
  <2> QED
    BY <2>1 DEF Apt, Running
<1>4. SharedBy(k) \subseteq SharedBy(stage[s]) \cup {None}
  OBVIOUS
<1> HIDE DEF k
<1>5. MInv' /\ Elsewhere(t) /\ UNCHANGED <<ref, todo, mine, held>>
  BY <1>1, Untold
<1>6. PInv'
  BY <1>1, <1>2, <1>5, ReturnsHolds DEF KInv
<1>7. phase[s] # "weights"
  BY <1>1 DEF Running
<1> QED
  BY <1>1, <1>2, <1>3, <1>4, <1>5, <1>6, <1>7, StillKeeps

LEMMA DeadKeeps ==
  ASSUME KInv, NEW t \in Thread, NEW s \in Stage, Dead(t, s)
  PROVE  KInv'
<1>1. /\ within[t] = s /\ phase[s] = "dead" /\ Returns(t, s, "none")
      /\ stage' = [stage EXCEPT ![s] = None]
      /\ UNCHANGED <<memoryVars, modules, repeat>>
  BY DEF Dead, Turn
<1>2. MInv' /\ Elsewhere(t) /\ UNCHANGED <<ref, todo, mine, held>>
  BY <1>1, Untold
<1>3. PInv'
  BY <1>1, <1>2, Repeats, ReturnsHolds DEF KInv
<1>4. SharedBy(None) = {}
  BY DEF SharedBy
<1>5. Apt(None, "none")
  BY DEF Apt, Running
<1> QED
  BY <1>1, <1>2, <1>3, <1>4, <1>5, StillKeeps

LEMMA BuildStageKeeps ==
  ASSUME KInv, NEW t \in Thread, NEW s \in Stage,
         NEW d \in Device, NEW b \in BlockSizes, NEW g \in Recorded, BuildStage(t, s, d, b, g)
  PROVE  KInv'
<1> DEFINE k == [device |-> d, rows |-> 0, block |-> b, grid |-> g,
                 bound |-> NothingBound, weights |-> None,
                 args |-> [p \in Argument |-> None], count |-> 0]
<1>1. /\ within[t] = None /\ phase[s] = "none" /\ Goes(t, s, "construct")
      /\ stage' = [stage EXCEPT ![s] = k]
      /\ UNCHANGED <<memoryVars, modules, repeat>>
  BY DEF BuildStage, Free
<1>2. k \in KernelStage
  BY KernelAssumption DEF KernelStage, NothingBound
<1>3. SharedBy(k) \subseteq {None}
  BY DEF SharedBy, NothingBound
<1> HIDE DEF k
<1>4. MInv' /\ Elsewhere(t) /\ UNCHANGED <<ref, todo, mine, held>>
  BY <1>1, Untold
<1>5. "construct" \in Phase \ {"none", "idle"} /\ "construct" \notin InContext \cup Running
  BY DEF Phase, InContext, Running
<1>6. PInv'
  BY <1>1, <1>2, <1>4, <1>5, Repeats, GoesHolds DEF KInv
<1>7. Apt(k, "construct")
  BY <1>3, <1>5 DEF Apt
<1> QED
  BY <1>1, <1>3, <1>4, <1>6, <1>7, StillKeeps

\* A reference something has a share in exists.
LEMMA SharedExists ==
  ASSUME KInv, NEW s \in Stage, NEW x \in SharedBy(stage[s]), x # None
  PROVE  /\ x \in Ref /\ todo[x] # "none"
         /\ phase[s] # "weights" => Live(x)
         /\ phase[s] = "weights" => x = stage[s].weights
<1>1. phase[s] # "none" /\ x \in Ref
  BY StageParts, NothingShared DEF KInv
<1>2. phase[s] # "weights" => Live(x)
  BY DEF KInv, HInv, Shares, SharesLive
<1>3. ASSUME phase[s] = "weights" PROVE x = stage[s].weights /\ todo[x] # "none"
  <2>1. stage[s].bound = NothingBound /\ todo[stage[s].weights] \in Making
    BY <1>3 DEF KInv, HInv, Shares, Empty, Weights
  <2>2. x = stage[s].weights
    BY <1>1, <2>1, StageParts DEF SharedBy, NothingBound, KInv
  <2> QED
    BY <2>1, <2>2 DEF Making
<1> QED
  BY <1>1, <1>2, <1>3 DEF Live

\* A call that goes on to what needs no device and runs nothing.
LEMMA QuietHolds ==
  ASSUME KInv, NEW t \in Thread, NEW s \in Stage, NEW op \in Phase \ {"none", "idle"},
         op \notin InContext, op \notin Running, Goes(t, s, op),
         within[t] = s \/ (within[t] = None /\ phase[s] \in {"none", "idle"}),
         NEW k \in KernelStage, stage' = [stage EXCEPT ![s] = k],
         Elsewhere(t), modules' \subseteq modules \cup {s}, repeat' = repeat
  PROVE  PInv'
BY Repeats, GoesHolds DEF KInv

\* A call with which shares of a stage end: what nobody else shares is destroyed.
LetsGo(t, s, k, rs, op) ==
  /\ within[t] \in {s, None} /\ Idle(t)
  /\ within[t] = s \/ phase[s] = "idle"
  /\ phase[s] # "weights"
  /\ k \in KernelStage /\ stage' = [stage EXCEPT ![s] = k]
  /\ Destroy(t, rs) /\ UNCHANGED <<driver, held, repeat>>
  /\ rs \subseteq {x \in Ref : Live(x)} /\ rs \cap held = {}
  /\ \A u \in Stage : rs \cap SharedBy(stage'[u]) = {}
  /\ SharedBy(k) \subseteq SharedBy(stage[s]) \cup held \cup {None}
  /\ op \in {"layout", "leave", "dead"} /\ Goes(t, s, op)
  /\ op # "layout" \/ k.weights \in Ref
  /\ modules' \subseteq modules \cup {s}

LEMMA LetGo ==
  ASSUME KInv, NEW t \in Thread, NEW s \in Stage, NEW k, NEW rs, NEW op, LetsGo(t, s, k, rs, op)
  PROVE  KInv'
<1> USE DEF LetsGo
<1>1. MInv'
  BY DestroyHolds DEF KInv
<1>2. Elsewhere(t) /\ ref' = ref /\ \A x \in Ref : x \notin rs => todo'[x] = todo[x]
  BY DEF Elsewhere, Destroy, driver, KInv, MInv, MemoryTypeOK
<1>3. op \in Phase \ {"none", "idle"} /\ op \notin InContext /\ op \notin Running
  BY DEF Phase, InContext, Running
<1>4. PInv'
  BY <1>2, <1>3, QuietHolds
<1>5. /\ stage'[s] = k /\ phase'[s] = op
      /\ \A u \in Stage : u # s => stage'[u] = stage[u]
  BY DEF Goes, KInv, PInv, StageTypes
<1>6. \A u \in Stage : u # s =>
        \A x \in SharedBy(stage[u]) : x \in Ref /\ Live(x) => Live(x)' /\ ref'[x] = ref[x]
  BY <1>2, <1>5 DEF Live
<1>7. \A v \in Thread : v # t => \A x \in mine[v] : todo'[x] = todo[x]
  <2>1. \A v \in Thread : \A x \in mine[v] : x \in Ref /\ ~Live(x)
    BY DEF Live, KInv, MInv, Workers, MemoryTypeOK
  <2> QED
    BY <1>2, <2>1
<1>8. Shares(s)'
  <2>1. ASSUME NEW x \in SharedBy(k), x # None PROVE Live(x)'
    <3>1. x \in Ref /\ Live(x)
      BY <2>1, SharedExists DEF KInv, MInv, MemoryTypeOK
    <3>2. x \notin rs
      BY <1>5
    <3> QED
      BY <3>1, <3>2, <1>2 DEF Live
  <2>2. SharesLive(s)'
    BY <1>5, <2>1 DEF SharesLive
  <2>3. Empty(s)' /\ Weights(s)' /\ LaidOut(s)'
    BY <1>3, <1>5 DEF Empty, Weights, LaidOut
  <2> QED
    BY <2>2, <2>3 DEF Shares
<1>9. SharedBy(k) \subseteq
        SharedBy(stage[s]) \cup held \cup {None} \cup {x \in Ref : todo[x] = "none"}
  OBVIOUS
<1> QED
  BY <1>1, <1>2, <1>4, <1>6, <1>7, <1>8, <1>9, StageKeeps

\* Which those are.
LEMMA UnsharedIs ==
  ASSUME KInv, NEW s \in Stage, phase[s] # "weights", NEW stages
  PROVE  LET rs == Unshared(SharedBy(stage[s]), stages)
         IN /\ rs \subseteq {x \in Ref : Live(x)} /\ rs \cap held = {}
            /\ \A u \in Stage : rs \cap SharedBy(stages[u]) = {}
<1>1. \A x \in SharedBy(stage[s]) \cap Ref : Live(x)
  BY SharedExists, DeviceAssumption
<1> QED
  BY <1>1 DEF Unshared

LEMMA SetRowsKeeps ==
  ASSUME KInv, NEW t \in Thread, NEW s \in Stage, NEW rows \in RowCounts, SetRows(t, s, rows)
  PROVE  KInv'
<1> DEFINE k == [stage[s] EXCEPT !.rows = rows, !.bound = NothingBound]
           rs == Unshared(SharedBy(stage[s]), [stage EXCEPT ![s].rows = rows, ![s].bound = NothingBound])
<1>1. /\ within[t] = None /\ Idle(t) /\ phase[s] = "idle" /\ Goes(t, s, "layout")
      /\ UNCHANGED <<driver, held, modules, repeat>> /\ Destroy(t, rs)
      /\ stage' = [stage EXCEPT ![s].rows = rows, ![s].bound = NothingBound]
  BY DEF SetRows, Enters, Free
<1>2. stage[s] \in KernelStage /\ stage[s] # None
  BY <1>1, StageParts DEF KInv
<1>3. stage' = [stage EXCEPT ![s] = k]
  BY <1>1 DEF KInv, PInv, StageTypes
<1>4. k \in KernelStage /\ k.weights = stage[s].weights /\ k.bound = NothingBound
  BY <1>2 DEF KernelStage, NothingBound
<1>5. rs = Unshared(SharedBy(stage[s]), stage')
  BY <1>1
<1> HIDE DEF k, rs
<1>6. /\ rs \subseteq {x \in Ref : Live(x)} /\ rs \cap held = {}
      /\ \A u \in Stage : rs \cap SharedBy(stage'[u]) = {}
  BY <1>1, <1>5, UnsharedIs
<1>7. SharedBy(k) \subseteq SharedBy(stage[s]) \cup held \cup {None}
  BY <1>2, <1>4 DEF SharedBy, NothingBound
<1>8. k.weights \in Ref
  BY <1>1, <1>4 DEF KInv, HInv, Shares, Weights
<1>9. /\ within[t] \in {s, None} /\ phase[s] # "weights"
      /\ Idle(t) /\ Goes(t, s, "layout") /\ phase[s] = "idle"
      /\ UNCHANGED <<driver, held, repeat>> /\ Destroy(t, rs) /\ modules' \subseteq modules \cup {s}
  BY <1>1
<1>10. LetsGo(t, s, k, rs, "layout")
  BY <1>3, <1>4, <1>6, <1>7, <1>8, <1>9 DEF LetsGo
<1> QED
  BY <1>10, LetGo

LEMMA BindKeeps ==
  ASSUME KInv, NEW t \in Thread, NEW s \in Stage, NEW p \in Port, NEW r \in Ref, Bind(t, s, p, r)
  PROVE  KInv'
<1> DEFINE k == [stage[s] EXCEPT !.bound = [@ EXCEPT ![p] = r]]
           rs == Unshared(SharedBy(stage[s]), [stage EXCEPT ![s].bound[p] = r])
<1>1. /\ within[t] = None /\ Idle(t) /\ phase[s] = "idle" /\ Goes(t, s, "layout")
      /\ UNCHANGED <<driver, held, modules, repeat>> /\ Destroy(t, rs) /\ r \in held
      /\ stage' = [stage EXCEPT ![s].bound[p] = r]
  BY DEF Bind, Enters, Free
<1>2. stage[s] \in KernelStage /\ stage[s] # None
  BY <1>1, StageParts DEF KInv
<1>3. stage' = [stage EXCEPT ![s] = k]
  BY <1>1 DEF KInv, PInv, StageTypes
<1>4. k \in KernelStage /\ k.weights = stage[s].weights /\ k.bound = [stage[s].bound EXCEPT ![p] = r]
  BY <1>2 DEF KernelStage
<1>5. rs = Unshared(SharedBy(stage[s]), stage')
  BY <1>1
<1> HIDE DEF k, rs
<1>6. /\ rs \subseteq {x \in Ref : Live(x)} /\ rs \cap held = {}
      /\ \A u \in Stage : rs \cap SharedBy(stage'[u]) = {}
  BY <1>1, <1>5, UnsharedIs
<1>7. SharedBy(k) \subseteq SharedBy(stage[s]) \cup held \cup {None}
  BY <1>1, <1>2, <1>4 DEF SharedBy, KernelStage
<1>8. k.weights \in Ref
  BY <1>1, <1>4 DEF KInv, HInv, Shares, Weights
<1>9. /\ within[t] \in {s, None} /\ phase[s] # "weights"
      /\ Idle(t) /\ Goes(t, s, "layout") /\ phase[s] = "idle"
      /\ UNCHANGED <<driver, held, repeat>> /\ Destroy(t, rs) /\ modules' \subseteq modules \cup {s}
  BY <1>1
<1>10. LetsGo(t, s, k, rs, "layout")
  BY <1>3, <1>4, <1>6, <1>7, <1>8, <1>9 DEF LetsGo
<1> QED
  BY <1>10, LetGo

LEMMA UnloadKeeps ==
  ASSUME KInv, NEW t \in Thread, NEW s \in Stage, Unload(t, s)
  PROVE  KInv'
<1> DEFINE k == [stage[s] EXCEPT !.weights = None, !.bound = NothingBound]
           rs == Unshared(SharedBy(stage[s]),
                          [stage EXCEPT ![s].weights = None, ![s].bound = NothingBound])
<1>1. /\ within[t] = s /\ Idle(t) /\ phase[s] = "unload" /\ Goes(t, s, "dead")
      /\ UNCHANGED <<driver, held, repeat>> /\ Destroy(t, rs) /\ modules' \subseteq modules \cup {s}
      /\ stage' = [stage EXCEPT ![s].weights = None, ![s].bound = NothingBound]
  BY DEF Unload, Turn
<1>2. stage[s] \in KernelStage /\ stage[s] # None
  BY <1>1, StageParts DEF KInv
<1>3. stage' = [stage EXCEPT ![s] = k]
  BY <1>1 DEF KInv, PInv, StageTypes
<1>4. k \in KernelStage /\ k.weights = None /\ k.bound = NothingBound
  BY <1>2 DEF KernelStage, NothingBound
<1>5. rs = Unshared(SharedBy(stage[s]), stage')
  BY <1>1
<1> HIDE DEF k, rs
<1>6. /\ rs \subseteq {x \in Ref : Live(x)} /\ rs \cap held = {}
      /\ \A u \in Stage : rs \cap SharedBy(stage'[u]) = {}
  BY <1>1, <1>5, UnsharedIs
<1>7. SharedBy(k) \subseteq SharedBy(stage[s]) \cup held \cup {None}
  BY <1>4 DEF SharedBy, NothingBound
<1>8. /\ within[t] \in {s, None} /\ phase[s] # "weights"
      /\ Idle(t) /\ Goes(t, s, "dead") /\ within[t] = s /\ "dead" # "layout"
      /\ UNCHANGED <<driver, held, repeat>> /\ Destroy(t, rs) /\ modules' \subseteq modules \cup {s}
  BY <1>1
<1>9. LetsGo(t, s, k, rs, "dead")
  BY <1>3, <1>4, <1>6, <1>7, <1>8 DEF LetsGo
<1> QED
  BY <1>9, LetGo

LEMMA UploadFailsKeeps ==
  ASSUME KInv, NEW t \in Thread, NEW s \in Stage, UploadFails(t, s)
  PROVE  KInv'
<1> DEFINE k == [stage[s] EXCEPT !.weights = None]
           w == stage[s].weights
<1>1. /\ within[t] = s /\ Idle(t) /\ phase[s] = "upload" /\ Goes(t, s, "leave")
      /\ UNCHANGED <<driver, held, modules, repeat>> /\ Destroy(t, {w})
      /\ stage' = [stage EXCEPT ![s].weights = None]
  BY DEF UploadFails, Turn
<1>2. stage[s] \in KernelStage /\ stage[s] # None
  BY <1>1, StageParts DEF KInv
<1>3. stage' = [stage EXCEPT ![s] = k]
  BY <1>1 DEF KInv, PInv, StageTypes
<1>4. k \in KernelStage /\ k.weights = None /\ k.bound = stage[s].bound
  BY <1>2 DEF KernelStage
<1>5. /\ w \in Ref /\ w \notin held /\ stage[s].bound = NothingBound
      /\ \A u \in Stage : w \in SharedBy(stage[u]) => u = s
  BY <1>1 DEF KInv, HInv, Shares, Empty, Weights
<1>6. w \in SharedBy(stage[s]) /\ w # None
  BY <1>2, <1>5, DeviceAssumption DEF SharedBy
<1>7. Live(w)
  BY <1>1, <1>6, SharedExists
<1> HIDE DEF k
<1>8. SharedBy(k) \subseteq {None}
  BY <1>4, <1>5 DEF SharedBy, NothingBound
<1>9. \A u \in Stage : {w} \cap SharedBy(stage'[u]) = {}
  BY <1>3, <1>5, <1>6, <1>8 DEF KInv, PInv, StageTypes
<1> HIDE DEF w
<1>10. /\ {w} \subseteq {x \in Ref : Live(x)} /\ {w} \cap held = {}
       /\ SharedBy(k) \subseteq SharedBy(stage[s]) \cup held \cup {None}
       /\ "leave" \in {"layout", "leave", "dead"} /\ "leave" # "layout" /\ phase[s] # "weights"
  BY <1>1, <1>5, <1>7, <1>8
<1>11. LetsGo(t, s, k, {w}, "leave")
  BY <1>1, <1>3, <1>4, <1>9, <1>10 DEF LetsGo
<1> QED
  BY <1>11, LetGo

\* The weights are asked for: of nobody's yet.
LEMMA GetFunctionKeeps ==
  ASSUME KInv, NEW t \in Thread, NEW s \in Stage, NEW w \in Ref, NEW bytes,
         GetFunction(t, s, w, bytes)
  PROVE  KInv'
<1> DEFINE k == [stage[s] EXCEPT !.weights = w]
           kind == IF bytes = 0 THEN "empty" ELSE "owned"
<1>1. /\ within[t] = s /\ Idle(t) /\ phase[s] = "function" /\ Goes(t, s, "weights")
      /\ UNCHANGED <<modules, repeat>> /\ Begin(t, w, kind, stage[s].device)
      /\ stage' = [stage EXCEPT ![s].weights = w]
  BY DEF GetFunction, Turn, Allocate
<1>2. stage[s] \in KernelStage /\ stage[s] # None /\ stage[s].device \in Device /\ kind \in Kind
  BY <1>1, StageParts DEF KInv, KernelStage, Kind
<1>3. stage' = [stage EXCEPT ![s] = k]
  BY <1>1 DEF KInv, PInv, StageTypes
<1>4. k \in KernelStage /\ k.weights = w /\ k.bound = stage[s].bound
  BY <1>2 DEF KernelStage
<1>5. stage[s].bound = NothingBound
  <2>1. stage[s].bound \in [Port -> Ref \cup {None}] /\ SharedBy(stage[s]) \subseteq {None}
    BY <1>1, <1>2 DEF KernelStage, KInv, HInv, Shares, Empty
  <2>2. \A p \in Port : stage[s].bound[p] = None
    BY <1>2, <2>1 DEF SharedBy
  <2> QED
    BY <2>1, <2>2 DEF NothingBound
<1>6. MInv'
  BY <1>1, <1>2, BeginHolds DEF KInv
<1>7. /\ todo[w] = "none" /\ held' = held /\ current' = current
      /\ todo'[w] = "setDevice" /\ mine'[t] = {w} /\ w \notin held
      /\ \A x \in Ref : x # w => todo'[x] = todo[x] /\ ref'[x] = ref[x]
      /\ \A v \in Thread : v # t => mine'[v] = mine[v]
  BY <1>1 DEF Begin, driver, Live, KInv, MInv, MemoryTypeOK
<1>8. \A v \in Thread : \A x \in mine[v] : x \in Ref /\ x # w
  BY <1>7 DEF KInv, MInv, Workers, MemoryTypeOK
<1>9. \A u \in Stage : w \notin SharedBy(stage[u])
  BY <1>7, SharedExists, DeviceAssumption
<1> HIDE DEF k, kind
<1>10. Elsewhere(t)
  BY <1>7 DEF Elsewhere
<1>11. "weights" \in Phase \ {"none", "idle"} /\ "weights" \notin InContext /\ "weights" \notin Running
  BY DEF Phase, InContext, Running
<1>12. PInv'
  BY <1>1, <1>3, <1>4, <1>10, <1>11, QuietHolds
<1>13. SharedBy(k) \subseteq {w, None}
  BY <1>4, <1>5 DEF SharedBy, NothingBound
<1>14. ASSUME stage'[s] = k, phase'[s] = "weights" PROVE Shares(s)'
  <2>1. within'[t] = s /\ w \in mine'[t] /\ todo'[w] \in Making
    BY <1>1, <1>7 DEF Goes, Making, KInv, PInv, StageTypes
  <2>2. \A u \in Stage : w \in SharedBy(stage'[u]) => u = s
    BY <1>3, <1>9 DEF KInv, PInv, StageTypes
  <2>3. Empty(s)' /\ SharesLive(s)' /\ LaidOut(s)'
    BY <1>4, <1>5, <1>11, <1>14 DEF Empty, SharesLive, LaidOut
  <2>4. Weights(s)'
    BY <1>4, <1>7, <1>11, <1>14, <2>1, <2>2 DEF Weights
  <2> QED
    BY <2>3, <2>4 DEF Shares
<1>15. /\ \A u \in Stage : u # s =>
            \A x \in SharedBy(stage[u]) : x \in Ref /\ Live(x) => Live(x)' /\ ref'[x] = ref[x]
       /\ \A v \in Thread : v # t => \A x \in mine[v] : todo'[x] = todo[x]
       /\ SharedBy(k) \subseteq
            SharedBy(stage[s]) \cup held \cup {None} \cup {x \in Ref : todo[x] = "none"}
  BY <1>7, <1>8, <1>9, <1>13 DEF Live
<1>16. held' \subseteq held /\ (stage'[s] = k /\ phase'[s] = "weights" => Shares(s)')
  BY <1>7, <1>14
<1>17. within[t] \in {s, None} /\ Goes(t, s, "weights")
  BY <1>1
<1> QED
  BY <1>3, <1>6, <1>10, <1>12, <1>15, <1>16, <1>17, StageKeeps

\* They are made, and the stage's alone.
LEMMA KeepWeightsKeeps ==
  ASSUME KInv, NEW t \in Thread, NEW s \in Stage, KeepWeights(t, s)
  PROVE  KInv'
<1> DEFINE w == stage[s].weights
           k == stage[s]
<1>1. /\ within[t] = s /\ phase[s] = "weights" /\ Goes(t, s, "upload")
      /\ Calls(t, "return", w) /\ Ends(t, w, "live")
      /\ UNCHANGED <<driver, ref, held, stage, modules, repeat>>
  BY DEF KeepWeights
<1>2. /\ w \in Ref /\ stage[s].bound = NothingBound /\ w \notin held
      /\ \A u \in Stage : w \in SharedBy(stage[u]) => u = s
  BY <1>1 DEF KInv, HInv, Shares, Empty, Weights
<1>3. MInv'
  BY <1>1, <1>2, MadeHolds DEF KInv
<1>4. /\ todo[w] = "return" /\ w \in mine[t] /\ current' = current
      /\ todo'[w] = "live" /\ \A x \in Ref : x # w => todo'[x] = todo[x]
      /\ \A v \in Thread : v # t => mine'[v] = mine[v]
  BY <1>1, <1>2 DEF Calls, Ends, driver, KInv, MInv, MemoryTypeOK
<1>5. k \in KernelStage /\ k # None /\ stage' = [stage EXCEPT ![s] = k]
  BY <1>1, StageParts DEF KInv, PInv, StageTypes
<1>6. Elsewhere(t)
  BY <1>4 DEF Elsewhere
<1>7. "upload" \in Phase \ {"none", "idle"} /\ "upload" \notin InContext /\ "upload" \notin Running
  BY DEF Phase, InContext, Running
<1>8. PInv'
  BY <1>1, <1>5, <1>6, <1>7, QuietHolds
<1>9. SharedBy(stage[s]) \subseteq {w, None}
  BY <1>2, <1>5 DEF SharedBy, NothingBound
<1>10. ASSUME stage'[s] = k, phase'[s] = "upload" PROVE Shares(s)'
  <2>1. SharesLive(s)'
    BY <1>4, <1>9, <1>10 DEF SharesLive, Live
  <2>2. Empty(s)' /\ Weights(s)' /\ LaidOut(s)'
    BY <1>1, <1>2, <1>7, <1>10 DEF Empty, Weights, LaidOut
  <2> QED
    BY <2>1, <2>2 DEF Shares
<1>11. \A x \in Ref : Live(x) => Live(x)' /\ ref'[x] = ref[x]
  BY <1>1, <1>4 DEF Live
<1>12. \A v \in Thread : v # t => \A x \in mine[v] : todo'[x] = todo[x]
  BY <1>2, <1>4 DEF KInv, MInv, Workers, MemoryTypeOK
<1> HIDE DEF k, w
<1> QED
  BY <1>1, <1>3, <1>5, <1>6, <1>8, <1>10, <1>11, <1>12, StageKeeps DEF k

\* A share of the application's goes: with the reference, if it was the last.
LEMMA DropKeeps ==
  ASSUME KInv, NEW t \in Thread, NEW r \in Ref, Drop(t, r)
  PROVE  KInv'
<1>1. /\ within[t] = None /\ Idle(t) /\ r \in held /\ held' = held \ {r}
      /\ UNCHANGED <<driver, stageVars>>
  BY DEF Drop, Free
<1>2. Live(r) /\ current' = current
  BY <1>1 DEF driver, KInv, MInv, MemoryTypeOK
<1>3. CASE UNCHANGED <<ref, todo, mine, at>>
  <2>1. MInv'
    BY <1>1, <1>3, OnDeviceHolds DEF driver, KInv, MInv, MemoryTypeOK
  <2>2. Elsewhere(t) /\ \A x \in Ref : Live(x) => Live(x)' /\ ref'[x] = ref[x]
    BY <1>2, <1>3 DEF Elsewhere, Live
  <2> QED
    BY <1>1, <1>3, <2>1, <2>2, MemoryBeside
<1>4. CASE Destroy(t, {r}) /\ \A s \in Stage : r \notin SharedBy(stage[s])
  <2>1. MInv'
    BY <1>1, <1>2, <1>4, DestroyHolds DEF KInv
  <2>2. Elsewhere(t) /\ ref' = ref /\ \A x \in Ref : x # r => todo'[x] = todo[x]
    BY <1>2, <1>4 DEF Elsewhere, Destroy, KInv, MInv, MemoryTypeOK
  <2>3. \A v \in Thread : \A x \in mine[v] : x \in Ref /\ x # r
    BY <1>2 DEF Live, KInv, MInv, Workers, MemoryTypeOK
  <2>4. \A u \in Stage : \A x \in SharedBy(stage[u]) :
          x \in Ref /\ Live(x) => Live(x)' /\ ref'[x] = ref[x]
    BY <1>4, <2>2 DEF Live
  <2>5. held' \subseteq held \cup mine[t]
    BY <1>1
  <2> QED
    BY <1>1, <2>1, <2>2, <2>3, <2>4, <2>5, MemoryBeside
<1> QED
  BY <1>3, <1>4 DEF Drop

----------------------------------------------------------------------------
(* What holds of every stage and every reference                           *)

LEMMA KStarts == KernelInit => KInv
<1>1. SUFFICES ASSUME KernelInit PROVE KInv
  OBVIOUS
<1>2. MInv
  BY <1>1, MemoryStarts DEF KernelInit
<1>3. PInv
  BY <1>1, KernelAssumption
  DEF KernelInit, PInv, StageTypes, OneAtATime, StageContexts, Repetition, Phase, InContext
<1>4. HInv
  BY <1>1 DEF KernelInit, HInv, Shares, Empty, Weights, SharesLive, LaidOut, SharedBy, Running
<1> QED
  BY <1>2, <1>3, <1>4 DEF KInv

LEMMA KSteps == KInv /\ [Next]_vars => KInv'
<1>1. SUFFICES ASSUME KInv, [Next]_vars PROVE KInv'
  OBVIOUS
<1>2. CASE UNCHANGED vars
  <2>1. MInv'
    BY <1>1, <1>2, StutterHolds DEF vars, KInv
  <2>2. PInv'
    BY <1>1, <1>2 DEF vars, memoryVars, driver, stageVars, KInv, PInv, StageTypes, OneAtATime,
                      StageContexts, Repetition, Idle
  <2>3. HInv'
    BY <1>1, <1>2 DEF vars, memoryVars, driver, stageVars, KInv, HInv, Shares, Empty, Weights,
                      SharesLive, Live, LaidOut, AddressOf
  <2> QED
    BY <2>1, <2>2, <2>3 DEF KInv
<1>3. ASSUME NEW t \in Thread, within[t] = None /\ MemoryCall(t) /\ UNCHANGED stageVars
      PROVE  KInv'
  BY <1>1, <1>3, MemoryCallKeeps
<1>4. ASSUME NEW t \in Thread, NEW r \in Ref,
             \/ DriverStep(t, r) /\ UNCHANGED stageVars
             \/ AllocateFails(t, r) \/ Drop(t, r)
      PROVE  KInv'
  BY <1>1, <1>4, DriverStepKeeps, AllocateFailsKeeps, DropKeeps
<1>5. ASSUME NEW t \in Thread, NEW s \in Stage, StageStep(t, s)
      PROVE  KInv'
  BY <1>1, <1>5, ActivateKeeps, LoadKeeps, LoadFailsKeeps, KeepWeightsKeeps, UploadKeeps,
     UploadFailsKeeps, LayoutKeeps, LaunchKeeps, RepeatKeeps, RunEndsKeeps, UnloadKeeps,
     DeadKeeps, GetFunctionKeeps DEF StageStep
<1>6. ASSUME NEW t \in Thread, NEW s \in Stage, StageCall(t, s)
      PROVE  KInv'
  BY <1>1, <1>6, BuildStageKeeps, SetRowsKeeps, BindKeeps, RunKeeps, DestroyStageKeeps
  DEF StageCall
<1> QED
  BY <1>1, <1>2, <1>3, <1>4, <1>5, <1>6 DEF Next

LEMMA KInvariant == Spec => []KInv
BY KStarts, KSteps, PTL DEF Spec

\* Members, driver calls and phases have their types (the classes of cuda.cpp).
THEOREM TypeOKHolds == Spec => []TypeOK
<1>1. KInv => TypeOK
  BY DEF KInv, MInv, PInv, StageTypes, TypeOK
<1> QED
  BY <1>1, KInvariant, PTL

\* A reference that can be used is mapped, in a region of its own that access was
\* granted to, whatever other threads allocate, import and destroy meanwhile.
THEOREM LiveIsMappedHolds == Spec => []LiveIsMapped
<1>1. KInv => LiveIsMapped
  <2>1. SUFFICES ASSUME KInv, NEW r \in Ref, Live(r), ref[r].kind # "empty"
                 PROVE  /\ r \in handles /\ ref[r].range \in reserved \cap usable
                        /\ mapped[ref[r].range] = r
    BY MemoryTypes DEF KInv, MInv, Stepwise, LiveIsMapped, Live
  <2>2. HasHandle(r) /\ HasRegion(r) /\ IsMapped(r) /\ IsUsable(r)
    <3>1. todo[r] = "live" /\ ref[r] # None
      BY <2>1, MemoryTypes DEF KInv, Live
    <3> QED
      BY <2>1, <3>1 DEF HasHandle, HasRegion, IsMapped, IsUsable
  <2> QED
    BY <2>1, <2>2 DEF KInv, MInv, Handles, Regions, Mappings
<1> QED
  BY <1>1, KInvariant, PTL

LEMMA ModulesHold ==
  ASSUME KInv, Modules, EntryPointsExist, [Next]_vars
  PROVE  Modules'
<1>1. CASE UNCHANGED <<phase, modules>>
  BY <1>1 DEF Modules
<1>2. ASSUME NEW t \in Thread, NEW r \in Ref, AllocateFails(t, r) PROVE Modules'
  BY <1>2 DEF AllocateFails, Modules, KInv, PInv, StageTypes
<1>3. ASSUME NEW t \in Thread, NEW s \in Stage, StageStep(t, s) PROVE Modules'
  <2> USE DEF Modules, KInv, PInv, StageTypes, Turn, Goes, Returns
  <2>1. CASE Activate(t, s)
    BY <2>1 DEF Activate
  <2>2. CASE Load(t, s) \/ LoadFails(t, s)
    BY <2>2 DEF Load, LoadFails
  <2>3. CASE KeepWeights(t, s)
    BY <2>3 DEF KeepWeights
  <2>4. CASE Upload(t, s) \/ UploadFails(t, s) \/ Layout(t, s)
    BY <2>4 DEF Upload, UploadFails, Layout
  <2>5. CASE Launch(t, s) \/ Repeat(t, s) \/ RunEnds(t, s)
    BY <2>5 DEF Launch, Repeat, RunEnds
  <2>6. CASE Unload(t, s)
    BY <2>6 DEF Unload
  <2>7. CASE Dead(t, s)
    BY <2>7 DEF Dead
  <2>8. ASSUME NEW w \in Ref, NEW bytes, GetFunction(t, s, w, bytes) PROVE Modules'
    BY <2>8 DEF GetFunction
  <2> QED
    BY <1>3, <2>1, <2>2, <2>3, <2>4, <2>5, <2>6, <2>7, <2>8 DEF StageStep
<1>4. ASSUME NEW t \in Thread, NEW s \in Stage, StageCall(t, s) PROVE Modules'
  <2>1. modules' = modules
    BY <1>4 DEF StageCall, BuildStage, SetRows, Bind, Run, DestroyStage
  <2>2. \E op \in {"construct", "layout", "begin", "leave"} : Goes(t, s, op)
    BY <1>4 DEF StageCall, BuildStage, SetRows, Bind, Run, DestroyStage, FirstOfRun
  <2>3. phase[s] \in {"none", "idle"} /\ (Goes(t, s, "construct") => phase[s] = "none")
    BY <1>4 DEF StageCall, BuildStage, SetRows, Bind, Run, DestroyStage, Enters, Goes, FirstOfRun,
                KInv, PInv, StageTypes
  <2> QED
    BY <2>1, <2>2, <2>3 DEF Modules, Goes, KInv, PInv, StageTypes
<1> QED
  BY <1>1, <1>2, <1>3, <1>4 DEF Next, vars, stageVars, Drop

\* Nothing is left in the driver that no object owns, whichever driver call
\* failed: as long as the modules hold the entry points their launches name.
THEOREM NothingLeaksHolds == ASSUME EntryPointsExist PROVE Spec => []NothingLeaks
<1>1. KernelInit => Modules
  BY DEF KernelInit, Modules
<1>2. KInv /\ KInv' /\ Modules /\ [Next]_vars => Modules'
  BY ModulesHold
<1>3. KInv /\ Modules => NothingLeaks
  <2>1. SUFFICES ASSUME KInv, Modules PROVE NothingLeaks
    OBVIOUS
  <2>2. \A r \in handles : ref[r] # None
    BY <2>1 DEF KInv, MInv, MemoryTypeOK, Handles, HasHandle
  <2>3. \A g \in reserved : \E r \in Ref : ref[r] # None /\ ref[r].range = g
    BY <2>1 DEF KInv, MInv, Regions, HasRegion, HasHandle
  <2>4. \A s \in modules : stage[s] # None
    BY <2>1 DEF KInv, PInv, StageTypes, Modules
  <2> QED
    BY <2>2, <2>3, <2>4 DEF NothingLeaks
<1> QED
  BY <1>1, <1>2, <1>3, KInvariant, PTL DEF Spec

\* Every driver call about an object is made with its device current on the
\* thread, whatever the thread did before (cuda.cpp:330-334).
THEOREM InItsContextHolds == Spec => []InItsContext
<1>1. KInv => InItsContext
  <2>1. SUFFICES ASSUME KInv, NEW t \in Thread PROVE
          /\ \A s \in Stage, op \in {"load", "function", "launch", "sync", "unload"} :
               Turn(t, s, op) => current[t] = stage[s].device
          /\ \A r \in Ref, op \in MayFail \cup {"unmap", "addressFree", "free", "release"} :
               Calls(t, op, r) => current[t] = ref[r].device
    BY DEF InItsContext
  <2>2. ASSUME NEW s \in Stage, NEW op \in {"load", "function", "launch", "sync", "unload"},
               Turn(t, s, op)
        PROVE  current[t] = stage[s].device
    BY <2>1, <2>2 DEF Turn, InContext, KInv, PInv, StageContexts
  <2>3. ASSUME NEW r \in Ref, NEW op \in MayFail \cup {"unmap", "addressFree", "free", "release"},
               Calls(t, op, r)
        PROVE  current[t] = ref[r].device
    <3>1. op \notin {"setDevice", "leave", "gone"}
      BY DEF MayFail
    <3>2. at[t] = r
      BY <2>1, <2>3, <3>1 DEF Calls, KInv, MInv, Contexts
    <3> QED
      BY <2>1, <3>2, DeviceAssumption DEF KInv, MInv, Contexts
  <2> QED
    BY <2>2, <2>3
<1> QED
  BY <1>1, KInvariant, PTL

\* While a kernel runs, the addresses it was handed are those of what is bound
\* there, and all of it is live, whatever other threads let go of meanwhile.
THEOREM ReadsTheBoundHolds == Spec => []ReadsTheBound
<1>1. KInv => ReadsTheBound
  <2>1. SUFFICES ASSUME KInv, NEW s \in Stage, phase[s] = "sync", NEW p \in Argument
                 PROVE  LET r == Shared(stage[s], p)
                        IN r \in Ref /\ Live(r) /\ stage[s].args[p] = ref[r].range
    BY DEF ReadsTheBound
  <2> DEFINE r == Shared(stage[s], p)
  <2>2. stage[s].weights \in Ref /\ \A q \in Port : stage[s].bound[q] # None
    BY <2>1 DEF Running, KInv, HInv, Shares, Weights, LaidOut
  <2>3. r \in SharedBy(stage[s]) /\ r # None
    BY <2>1, <2>2, StageParts, DeviceAssumption DEF KInv, Shared, Argument
  <2>4. r \in Ref /\ Live(r)
    BY <2>1, <2>3, SharedExists
  <2>5. stage[s].args[p] = AddressOf(r)
    BY <2>1 DEF Running, KInv, HInv, Shares, LaidOut
  <2> QED
    BY <2>3, <2>4, <2>5 DEF AddressOf
<1> QED
  BY <1>1, KInvariant, PTL

\* A repeated row is in every block of the part of the buffer that is filled and
\* in nothing else, and that part never passes the end (onnx.cpp:261-270).
THEOREM RepeatFillsTheBufferHolds == Spec => []RepeatFillsTheBuffer
<1>1. KInv => RepeatFillsTheBuffer
  BY DEF KInv, PInv, Repetition, Filled, RepeatFillsTheBuffer
<1> QED
  BY <1>1, KInvariant, PTL

\* get_grid_for: enough blocks for every row, and none to spare.
LEMMA GridCovers ==
  ASSUME NEW rows \in 1..Word - 1, NEW block \in Nat \ {0}
  PROVE  LET n == GridFor(rows, block, 0)
         IN n * block >= rows /\ (n - 1) * block < rows
<1> DEFINE n == (rows + block - 1) \div block
<1>1. rows \in Nat \ {0} /\ rows < Word /\ Word \in Nat /\ rows + block - 1 \in Nat
  BY KernelAssumption
<1>2. \A a \in Nat, b \in Nat \ {0} :
        a \div b \in Nat /\ (a \div b) * b <= a /\ a < (a \div b) * b + b
  OBVIOUS
<1>3. n \in Nat /\ n * block <= rows + block - 1 /\ rows + block - 1 < n * block + block
  BY <1>1, <1>2
<1> HIDE DEF n
<1>4. \A m \in Nat, b \in Nat \ {0}, r \in Nat \ {0} :
        m * b <= r + b - 1 /\ r + b - 1 < m * b + b =>
          m <= r /\ m * b >= r /\ (m - 1) * b < r
  OBVIOUS
<1>5. n <= rows /\ n * block >= rows /\ (n - 1) * block < rows
  BY <1>1, <1>3, <1>4
<1>6. \A a, b \in Nat : a < b => a % b = a
  OBVIOUS
<1>7. n % Word = n
  BY <1>1, <1>3, <1>5, <1>6
<1>8. GridFor(rows, block, 0) = n % Word
  BY DEF GridFor, n
<1> QED
  BY <1>5, <1>7, <1>8

\* A launch whose grid is derived covers every row with no block to spare, and
\* tells the kernel the row count: as long as that fits into 32 bits.
THEOREM LaunchCoversTheRowsHolds ==
  ASSUME RowCounts \subseteq 1..Word - 1
  PROVE  Spec => []LaunchCoversTheRows
<1>1. KInv => LaunchCoversTheRows
  <2>1. SUFFICES ASSUME KInv, NEW s \in Stage, phase[s] = "launch",
                        stage[s].grid = 0, stage[s].block # 0
                 PROVE  LET k == stage[s]
                            n == GridFor(k.rows, k.block, k.grid)
                        IN k.count = k.rows /\ n * k.block >= k.rows /\ (n - 1) * k.block < k.rows
    BY DEF LaunchCoversTheRows
  <2> DEFINE k == stage[s]
  <2>2. k.rows \in RowCounts \cup {0} /\ k.block \in BlockSizes
    BY <2>1, StageParts DEF KernelStage, KInv
  <2>3. k.rows # 0 /\ k.count = k.rows % Word
    BY <2>1 DEF Running, KInv, HInv, Shares, LaidOut
  <2>4. k.rows \in 1..Word - 1 /\ k.block \in Nat \ {0}
    <3>1. k.block # 0 /\ RowCounts \subseteq 1..Word - 1 /\ BlockSizes \subseteq Nat
      BY <2>1, KernelAssumption
    <3> HIDE DEF k
    <3> QED
      BY <3>1, <2>2, <2>3
  <2>5. \A a, b \in Nat : a < b => a % b = a
    OBVIOUS
  <2>6. k.rows \in Nat /\ Word \in Nat /\ k.rows < Word
    BY <2>4, KernelAssumption
  <2>7. k.count = k.rows
    BY <2>3, <2>5, <2>6
  <2> HIDE DEF k
  <2>8. /\ GridFor(k.rows, k.block, 0) * k.block >= k.rows
        /\ (GridFor(k.rows, k.block, 0) - 1) * k.block < k.rows
    BY <2>4, GridCovers
  <2> QED
    BY <2>1, <2>7, <2>8 DEF k
<1> QED
  BY <1>1, KInvariant, PTL

=============================================================================
