--------------------------- MODULE BackendsProofs ---------------------------
(***************************************************************************)
(* For any number of cards, builds, packages and references: what a session *)
(* binds is its backend's own memory, on its own device where the caller    *)
(* does not stray, and a session is had exactly where a card runs a form.   *)
(*                                                                         *)
(* TypeOK and BoundIsItsOwnMemory are not inductive: what adopt hands       *)
(* straight back is as good as the reference it was given, so the invariant *)
(* says of every reference that it names a card there is, and that an       *)
(* address in a compute domain is memory.                                   *)
(***************************************************************************)
EXTENDS Backends, TLAPS

WellFormed(m) ==
  /\ m.device < cards /\ m.at < cards
  /\ m.domain \in {"host", "cuda", "hip"} => m.holds = "memory"
  /\ m.home = Vmm => m.device \in Card

IInv ==
  /\ TypeOK
  /\ session = None => bound = None
  /\ \A r \in Ref : ref[r] # None => WellFormed(ref[r])
  /\ BoundIsItsOwnMemory
  /\ ~Strays => BoundWhereItRuns

----------------------------------------------------------------------------
(* The five classes                                                        *)

\* get_compute_backend, name by name.
LEMMA EachBackend ==
  /\ Of("cpu") = Cpu /\ Of("cuda") = Cuda /\ Of("tensorrt") = Cuda
  /\ Of("rocm") = Rocm /\ Of("directml") = DirectMl
BY DEF Of, TensorRt

\* What the five have in common, as far as the properties ask.
LEMMA Table ==
  ASSUME NEW b \in Backend
  PROVE  /\ Of(b).devices = IF b \in Nvidia THEN Visible ELSE IF b = "rocm" THEN 0 ELSE 1
         /\ Of(b).target = IF b \in Nvidia THEN "cuda" ELSE IF b = "rocm" THEN "rocm" ELSE "none"
         /\ Of(b).allocator \in {"Cuda", "Hip", "DML", "none"}
         /\ b # "directml" => Of(b).domain \in {"host", "cuda", "hip"}
         /\ b \in Nvidia => Of(b).domain = "cuda" /\ Of(b).allocates = "cuda" /\ Of(b).copies = "cuda"
         /\ Of(b).kernels <=> b \in Nvidia /\ "cuda" \in build
         /\ Of(b).imports \subseteq Graphics
<1>1. CASE b = "cpu"
  BY <1>1, EachBackend DEF Cpu, Nvidia, Graphics
<1>2. CASE b \in Nvidia
  <2>1. Of(b) = Cuda
    BY <1>2, EachBackend DEF Nvidia
  <2>2. Of(b).kernels <=> "cuda" \in build
    <3>1. Cuda.kernels = ("cuda" \in build)
      BY Zenon DEF Cuda
    <3>2. Of(b).kernels = ("cuda" \in build)
      BY <2>1, <3>1, Zenon
    <3> QED
      BY <3>2, Zenon
  <2> DEFINE c == Cuda
  <2>3. /\ c.devices = Visible /\ c.target = "cuda" /\ c.allocator = "Cuda" /\ c.domain = "cuda"
        /\ c.allocates = "cuda" /\ c.copies = "cuda" /\ c.imports = Graphics
    BY Zenon DEF Cuda, Graphics
  <2> HIDE DEF c
  <2> QED
    BY <1>2, <2>1, <2>2, <2>3 DEF c
<1>3. CASE b = "rocm"
  BY <1>3, EachBackend DEF Rocm, Nvidia, Graphics
<1>4. CASE b = "directml"
  BY <1>4, EachBackend DEF Cpu, DirectMl, Nvidia, Graphics
<1> QED
  BY <1>1, <1>2, <1>3, <1>4 DEF Backend, Nvidia

\* A build and the cards a driver shows do not change under a process.
LEMMA Still ==
  ASSUME build' = build, cards' = cards, NEW b \in Backend
  PROVE  Of(b)' = Of(b) /\ Visible' = Visible
BY DEF Of, Cpu, Cuda, TensorRt, Rocm, DirectMl, Visible

LEMMA VisibleCards ==
  ASSUME cards \in 0..MaxCards
  PROVE  Visible \in Nat /\ Visible <= cards
BY BackendsAssumption DEF Visible

\* BlockKind::get_target: only the two CUDA kinds are CUDA's, and none is
\* that of a backend without a family.
LEMMA Families ==
  ASSUME NEW kind
  PROVE  /\ FamilyOf(kind) = "cuda" <=> kind \in {"cuda_ptx", "cuda_cubin"}
         /\ FamilyOf(kind) # "none"
BY DEF FamilyOf

\* allocate() on a CUDA device there is, and what it returns anywhere.
LEMMA Allocated ==
  ASSUME TypeOK, NEW b \in Backend, NEW d \in Card
  PROVE  /\ \A m \in Allocation(b, d) :
              /\ m \in Reference /\ WellFormed(m)
              /\ m.holds = "memory" /\ m.device \in {-1, d}
              /\ b # "directml" => m.domain = Of(b).domain
         /\ b \in Nvidia /\ d < Visible => \E m \in Allocation(b, d) : m.domain = "cuda"
<1> DEFINE host == Memory("host", -1)
           mine == [Memory("cuda", d) EXCEPT !.home = Vmm]
<1>0. cards \in Nat /\ Visible <= cards /\ Visible \in Nat /\ d \in Nat
  BY VisibleCards, BackendsAssumption DEF TypeOK, Card
<1>1. host \in Reference /\ WellFormed(host) /\ host.domain = "host" /\ host.holds = "memory" /\ host.device = -1
  BY <1>0 DEF Memory, Reference, WellFormed, Domain, NotExported, Vmm
<1>2. /\ mine \in Reference /\ mine.domain = "cuda" /\ mine.holds = "memory" /\ mine.device = d
      /\ d < Visible => WellFormed(mine)
  BY <1>0 DEF Memory, Reference, WellFormed, Domain, NotExported, Vmm
<1> HIDE DEF host, mine
<1>3. CASE b = "cpu" \/ b = "directml"
  <2>1. Of(b).allocates = "host"
    <3>1. CASE b = "cpu"
      BY <3>1, EachBackend DEF Cpu
    <3>2. CASE b = "directml"
      BY <3>2, EachBackend DEF Cpu, DirectMl
    <3> QED
      BY <1>3, <3>1, <3>2
  <2>3. (b = "cpu" => Of(b).domain = "host") /\ b \notin Nvidia
    BY <1>3, EachBackend DEF Cpu, Nvidia
  <2>2. Allocation(b, d) = {host}
    BY <2>1, Zenon DEF Allocation, host
  <2> QED
    BY <1>1, <1>3, <2>2, <2>3
<1>4. CASE b \in Nvidia
  <2>1. Of(b).allocates = "cuda" /\ Of(b).domain = "cuda"
    BY <1>4, Table
  <2>2. Allocation(b, d) = IF d < Visible THEN {mine} ELSE {}
    BY <2>1, Zenon DEF Allocation, mine
  <2> QED
    BY <1>2, <2>1, <2>2
<1>5. CASE b = "rocm"
  <2>1. Of(b).allocates = "none" /\ b \notin Nvidia
    BY <1>5, EachBackend DEF Rocm, Nvidia
  <2>2. Allocation(b, d) = {}
    BY <2>1, Zenon DEF Allocation
  <2> QED
    BY <2>1, <2>2
<1> QED
  BY <1>3, <1>4, <1>5 DEF Backend, Nvidia

\* adopt() hands out memory of the backend's own domain: the reference it was
\* given, or an import on a card there is.
LEMMA AdoptGives ==
  ASSUME TypeOK, NEW b \in Backend, NEW d \in Card \cup {Automatic},
         NEW m \in Reference, WellFormed(m), NEW x \in Adopted(b, d, m)
  PROVE  /\ x \in Reference /\ WellFormed(x) /\ x.domain = Of(b).domain
         /\ b # "directml" => x.holds = "memory"
         /\ \/ x = m /\ ~Elsewhere(m.device, d)
            \/ /\ m.domain \in Graphics /\ m.home # NotExported
               /\ x.device \in Card /\ x.device < cards
               /\ x.device = ImportDevice(m) \/ (x.device = m.at /\ d \in {-1, m.at})
<1>0. cards \in Nat /\ Visible <= cards /\ Visible \in Nat
  BY VisibleCards, BackendsAssumption DEF TypeOK
<1>1. \/ x = m /\ m.domain = Of(b).domain /\ ~Elsewhere(m.device, d)
      \/ Imports(b, m) /\ x = Imported(m, ImportDevice(m))
      \/ Imports(b, m) /\ m.at >= 0 /\ d \in {-1, m.at} /\ x = Imported(m, m.at)
  BY DEF Adopted, Registered
<1>2. CASE x = m /\ m.domain = Of(b).domain /\ ~Elsewhere(m.device, d)
  BY <1>2, Table DEF WellFormed
<1>3. ASSUME Imports(b, m)
      PROVE  /\ b \in Nvidia /\ m.domain \in Graphics /\ m.home # NotExported
             /\ ImportDevice(m) \in Card /\ ImportDevice(m) < cards
  <2>1. b \in Nvidia /\ m.domain \in Graphics /\ ImportDevice(m) < Visible
    BY <1>3, Table DEF Imports
  <2>2. m.home \in Card \cup {ZeroUuid}
    BY <1>3 DEF Imports
  <2>3. ImportDevice(m) \in Card
    BY <2>2 DEF ImportDevice, TypeOK
  <2> QED
    BY <1>0, <2>1, <2>2, <2>3, BackendsAssumption DEF NotExported, ZeroUuid, Card
<1>4. ASSUME NEW on \in Card, on < cards, Imports(b, m), x = Imported(m, on)
      PROVE  /\ x \in Reference /\ WellFormed(x) /\ x.domain = Of(b).domain
             /\ x.holds = "memory" /\ x.device = on
  <2>1. Of(b).domain = "cuda"
    BY <1>3, <1>4, Table
  <2>2. x = [m EXCEPT !.domain = "cuda", !.device = on, !.holds = "memory", !.at = -1]
    BY <1>4 DEF Imported
  <2>3. /\ x \in Reference /\ x.domain = "cuda" /\ x.device = on /\ x.holds = "memory"
        /\ x.at = -1 /\ x.home = m.home
    BY <2>2 DEF Reference, Domain
  <2> QED
    BY <1>0, <1>4, <2>1, <2>3 DEF WellFormed
<1>5. CASE Imports(b, m) /\ x = Imported(m, ImportDevice(m))
  BY <1>3, <1>4, <1>5
<1>6. CASE Imports(b, m) /\ m.at >= 0 /\ d \in {-1, m.at} /\ x = Imported(m, m.at)
  <2>1. m.at \in Card /\ m.at < cards
    BY <1>6, BackendsAssumption DEF WellFormed, Reference, Card
  <2> QED
    BY <1>3, <1>4, <1>6, <2>1
<1> QED
  BY <1>1, <1>2, <1>5, <1>6

----------------------------------------------------------------------------
(* The steps                                                               *)

LEMMA InitInv == Init => IInv
<1> SUFFICES ASSUME Init PROVE IInv
  OBVIOUS
<1>1. cards \in Nat /\ 0 \in Card
  BY BackendsAssumption DEF Init, Card
<1> QED
  BY <1>1 DEF Init, IInv, TypeOK, BoundIsItsOwnMemory, BoundWhereItRuns

\* A step that leaves the session and what it has bound alone.
LEMMA ReferencesChange ==
  ASSUME IInv, build' = build, cards' = cards, session' = session, bound' = bound,
         current' \in Card, current' = 0 \/ current' < cards,
         ref' \in [Ref -> Reference \cup {None}],
         \A r \in Ref : ref'[r] # None => ref'[r] = ref[r] \/ WellFormed(ref'[r])
  PROVE  IInv'
<1>1. session # None => session.backend \in Backend /\ Of(session.backend)' = Of(session.backend)
  BY Still DEF IInv, TypeOK, Session
<1>2. TypeOK'
  BY <1>1 DEF IInv, TypeOK
<1>3. (\A r \in Ref : ref[r] # None => WellFormed(ref[r]))'
  BY DEF IInv, WellFormed
<1>4. BoundIsItsOwnMemory'
  BY <1>1 DEF IInv, BoundIsItsOwnMemory
<1>5. ~Strays => BoundWhereItRuns'
  BY DEF IInv, BoundWhereItRuns
<1> QED
  BY <1>2, <1>3, <1>4, <1>5 DEF IInv

\* One reference is made, marked or let go.
LEMMA OneReference ==
  ASSUME IInv, build' = build, cards' = cards, session' = session, bound' = bound,
         current' \in Card, current' = 0 \/ current' < cards,
         NEW r \in Ref, NEW m \in Reference \cup {None},
         ref' = [ref EXCEPT ![r] = m],
         m # None => WellFormed(m)
  PROVE  IInv'
<1>1. ref' \in [Ref -> Reference \cup {None}]
  BY DEF IInv, TypeOK
<1>2. \A q \in Ref : ref'[q] # None => ref'[q] = ref[q] \/ WellFormed(ref'[q])
  BY DEF IInv, TypeOK
<1> QED
  BY <1>1, <1>2, ReferencesChange

\* bind(), the caller's memory or a buffer: what is bound is one of a session's
\* own, near it.
LEMMA Binding ==
  ASSUME IInv, build' = build, cards' = cards, session' = session, session # None,
         current' \in Card, current' = 0 \/ current' < cards,
         ref' \in [Ref -> Reference \cup {None}],
         \A r \in Ref : ref'[r] # None => WellFormed(ref'[r]),
         NEW m \in Reference,
         bound' \in TensorFor(session.backend, session.device, m),
         session.backend # "directml" => m.domain = Of(session.backend).domain /\ m.holds = "memory",
         ~Strays => m.device \in {-1, session.device}
  PROVE  IInv'
<1>1. session.backend \in Backend /\ session.device \in Card /\ Of(session.backend)' = Of(session.backend)
  BY Still DEF IInv, TypeOK, Session
<1>2. bound' \in Tensor /\ bound'.memory = m
  <2>1. Of(session.backend).allocator \in {"Cuda", "Hip", "DML", "none"}
    BY <1>1, Table
  <2> QED
    BY <1>1, <2>1 DEF TensorFor, Tensor
<1>3. TypeOK'
  BY <1>1, <1>2 DEF IInv, TypeOK
<1>4. (\A r \in Ref : ref[r] # None => WellFormed(ref[r]))'
  BY DEF WellFormed
<1>5. BoundIsItsOwnMemory'
  BY <1>1, <1>2 DEF BoundIsItsOwnMemory
<1>6. ~Strays => BoundWhereItRuns'
  BY <1>2 DEF BoundWhereItRuns
<1> QED
  BY <1>3, <1>4, <1>5, <1>6 DEF IInv

LEMMA LoadKeeps ==
  ASSUME IInv, NEW b \in Backend, NEW d \in Card \cup {Automatic, cards}, NEW p \in Package, Load(b, d, p)
  PROVE  IInv'
<1>0. cards \in Nat /\ Visible <= cards /\ Visible \in Nat /\ cards <= MaxCards /\ MaxCards \in Nat \ {0}
  BY VisibleCards, BackendsAssumption DEF IInv, TypeOK
<1>1. PICK what \in {"graph", "kernel"} :
        LoadsAs(b, d, p, what) /\ session' = [backend |-> b, device |-> Resolved(d), runs |-> what]
  BY DEF Load
<1>2. ProviderTakes(b) /\ (d = Automatic \/ d < Of(b).devices)
  BY <1>1 DEF LoadsAs, DeviceThere
<1>3. Of(b).devices = IF b \in Nvidia THEN Visible ELSE IF b = "rocm" THEN 0 ELSE 1
  BY Table
<1>4. Resolved(d) \in Card /\ Resolved(d) < Of(b).devices
  BY <1>0, <1>2, <1>3 DEF ProviderTakes, Resolved, Automatic, Card, Nvidia
<1>5. session' \in Session
  BY <1>1, <1>4 DEF Session
<1>6. Of(b)' = Of(b)
  BY Still DEF Load
<1>7. session'.backend = b /\ session'.device = Resolved(d)
  BY <1>1
<1>8. TypeOK'
  BY <1>4, <1>5, <1>6, <1>7 DEF IInv, TypeOK, Load
<1>9. bound' = None /\ ref' = ref /\ cards' = cards
  BY DEF IInv, Load
<1> QED
  BY <1>8, <1>9 DEF IInv, WellFormed, BoundIsItsOwnMemory, BoundWhereItRuns

LEMMA BindKeeps ==
  ASSUME IInv, NEW r \in Ref, Bind(r)
  PROVE  IInv'
<1> DEFINE b == session.backend
           d == session.device
<1>0. b \in Backend /\ d \in Card /\ ref[r] \in Reference /\ WellFormed(ref[r])
  BY DEF Bind, IInv, TypeOK, Session
<1>1. PICK m \in Adopted(b, d, ref[r]) :
        bound' \in TensorFor(b, d, m) /\ AfterAdopt(b, d, r, m)
  BY DEF Bind
<1>2. /\ m \in Reference /\ WellFormed(m) /\ m.domain = Of(b).domain
      /\ b # "directml" => m.holds = "memory"
      /\ \/ m = ref[r] /\ ~Elsewhere(ref[r].device, d)
         \/ /\ ref[r].domain \in Graphics /\ ref[r].home # NotExported
            /\ m.device \in Card /\ m.device < cards
            /\ m.device = ImportDevice(ref[r]) \/ (m.device = ref[r].at /\ d \in {-1, ref[r].at})
  BY <1>0, <1>1, AdoptGives DEF IInv
<1>3. ~Strays => m.device \in {-1, d}
  <2>1. CASE m = ref[r] /\ ~Elsewhere(ref[r].device, d)
    BY <1>0, <2>1, BackendsAssumption DEF Elsewhere, Reference, Card
  <2>2. CASE /\ ref[r].domain \in Graphics /\ ref[r].home # NotExported
             /\ m.device = ImportDevice(ref[r]) \/ (m.device = ref[r].at /\ d \in {-1, ref[r].at})
    <3>1. ~Strays => ImportDevice(ref[r]) = d
      BY <2>2 DEF Bind, Near, Graphics
    <3>2. d # -1
      BY <1>0, BackendsAssumption DEF Card
    <3> QED
      BY <2>2, <3>1, <3>2
  <2> QED
    BY <1>2, <2>1, <2>2
<1>4. /\ current' \in Card /\ (current' = 0 \/ current' < cards)
      /\ ref' \in [Ref -> Reference \cup {None}]
      /\ \A q \in Ref : ref'[q] # None => WellFormed(ref'[q])
  <2>1. CASE m = ref[r]
    BY <1>1, <2>1 DEF AfterAdopt, IInv, TypeOK
  <2>2. CASE m # ref[r]
    <3> DEFINE x == [ref[r] EXCEPT !.at = m.device]
    <3>1. m.device \in Card /\ m.device < cards
      BY <1>2, <2>2
    <3>2. ref' = [ref EXCEPT ![r] = x] /\ current' \in {m.device, current}
      BY <1>1, <2>2 DEF AfterAdopt
    <3>3. x \in Reference /\ WellFormed(x)
      BY <1>0, <3>1 DEF Reference, WellFormed
    <3> HIDE DEF x
    <3> QED
      BY <3>1, <3>2, <3>3 DEF IInv, TypeOK
  <2> QED
    BY <2>1, <2>2
<1> QED
  BY <1>1, <1>2, <1>3, <1>4, Binding DEF Bind

LEMMA BindBufferKeeps ==
  ASSUME IInv, BindBuffer
  PROVE  IInv'
<1> DEFINE b == session.backend
           d == session.device
<1>0. b \in Backend /\ d \in Card
  BY DEF BindBuffer, IInv, TypeOK, Session
<1>1. PICK m \in Allocation(b, d) : bound' \in TensorFor(b, d, m)
  BY DEF BindBuffer
<1>2. m \in Reference /\ m.holds = "memory" /\ m.device \in {-1, d} /\ (b # "directml" => m.domain = Of(b).domain)
  BY <1>0, Allocated DEF IInv
<1>3. /\ current' \in Card /\ (current' = 0 \/ current' < cards)
      /\ ref' \in [Ref -> Reference \cup {None}]
      /\ \A q \in Ref : ref'[q] # None => WellFormed(ref'[q])
  BY DEF BindBuffer, IInv, TypeOK
<1> QED
  BY <1>1, <1>2, <1>3, Binding DEF BindBuffer

LEMMA NextInv == IInv /\ [Next]_vars => IInv'
<1> SUFFICES ASSUME IInv, [Next]_vars PROVE IInv'
  OBVIOUS
<1>0. /\ cards \in Nat /\ Visible <= cards /\ Visible \in Nat /\ current \in Card
      /\ current = 0 \/ current < cards
  BY VisibleCards, BackendsAssumption DEF IInv, TypeOK
<1>1. CASE \E d \in Card : SetDevice(d)
  <2>1. PICK d \in Card : SetDevice(d)
    BY <1>1
  <2>2. d < cards /\ current' = d /\ ref' = ref
    BY <1>0, <2>1, BackendsAssumption DEF SetDevice, Card
  <2>3. ref' \in [Ref -> Reference \cup {None}]
    BY <2>2 DEF IInv, TypeOK
  <2> QED
    BY <2>1, <2>2, <2>3, ReferencesChange DEF SetDevice
<1>2. ASSUME NEW r \in Ref, NEW m \in Reference, WellFormed(m), Hold(r, m)
      PROVE  IInv'
  BY <1>0, <1>2, OneReference DEF Hold
<1>3. CASE \E r \in Ref : Wrap(r)
  <2> DEFINE m == Memory("host", -1)
  <2>1. m \in Reference /\ WellFormed(m)
    BY <1>0 DEF Memory, Reference, WellFormed, Domain, NotExported, Vmm
  <2> QED
    BY <1>2, <1>3, <2>1 DEF Wrap
<1>4. CASE \E r \in Ref : WrapResource(r)
  <2> DEFINE m == [Memory("d3d12", -1) EXCEPT !.holds = "resource"]
  <2>1. m \in Reference /\ WellFormed(m)
    BY <1>0 DEF Memory, Reference, WellFormed, Domain, NotExported, Vmm
  <2> QED
    BY <1>2, <1>4, <2>1 DEF WrapResource
<1>5. CASE \E r \in Ref, d \in Card : WrapPointer(r, d)
  <2>1. PICK r \in Ref, d \in Card : WrapPointer(r, d)
    BY <1>5
  <2> DEFINE m == Memory("cuda", IF d < Visible THEN d ELSE -1)
  <2>2. m \in Reference /\ WellFormed(m)
    BY <1>0, <2>1 DEF Memory, Reference, WellFormed, Domain, NotExported, Vmm, WrapPointer
  <2>3. Hold(r, m)
    BY <2>1 DEF WrapPointer
  <2> QED
    BY <1>2, <2>2, <2>3
<1>6. ASSUME NEW a \in Graphics, NEW h \in Card \cup {ZeroUuid}
      PROVE  Exported(a, "handle", h) \in Reference /\ WellFormed(Exported(a, "handle", h))
  BY <1>0, BackendsAssumption DEF Exported, Reference, WellFormed, Domain, Graphics, Vmm, ZeroUuid, Card
<1>7. CASE \E r \in Ref, a \in Graphics, h \in Homes : Export(r, a, h)
  <2>1. PICK r \in Ref, a \in Graphics, h \in Homes : Export(r, a, h)
    BY <1>7
  <2>2. h \in Card \cup {ZeroUuid}
    BY DEF Homes
  <2> QED
    BY <1>2, <1>6, <2>1, <2>2 DEF Export
<1>8. CASE \E r \in Ref : Drop(r)
  <2>1. PICK r \in Ref : Drop(r)
    BY <1>8
  <2>2. current' \in Card /\ (current' = 0 \/ current' < cards)
    BY <1>0, <2>1 DEF Drop
  <2>3. None \in Reference \cup {None} /\ ref' = [ref EXCEPT ![r] = None]
    BY <2>1 DEF Drop
  <2> QED
    BY <2>1, <2>2, <2>3, OneReference DEF Drop
<1>9. CASE \E q \in Ref, r \in Ref, a \in Graphics : ExportOwn(q, r, a)
  <2>1. PICK q \in Ref, r \in Ref, a \in Graphics : ExportOwn(q, r, a)
    BY <1>9
  <2>2. Exported(a, "handle", ZeroUuid) \in Reference /\ WellFormed(Exported(a, "handle", ZeroUuid))
    BY <1>6
  <2>3. current' = ref[q].device /\ ref[q].device \in Card /\ ref[q].device < cards
    BY <2>1 DEF ExportOwn, IInv, WellFormed
  <2> QED
    BY <2>1, <2>2, <2>3, OneReference DEF ExportOwn
<1>10. CASE \E r \in Ref, b \in Backend, a \in Graphics, h \in Homes : ImportInto(r, b, a, h)
  <2>1. PICK r \in Ref, b \in Backend, a \in Graphics, h \in Homes : ImportInto(r, b, a, h)
    BY <1>10
  <2> DEFINE x == Exported(a, "handle", h)
  <2>2. PICK m \in Adopted(b, Automatic, x) :
          ref' = [ref EXCEPT ![r] = m] /\ current' = IF m.device >= 0 THEN m.device ELSE current
    BY <2>1 DEF ImportInto
  <2>3. x \in Reference /\ WellFormed(x)
    BY <1>6 DEF Homes
  <2>4. m \in Reference /\ WellFormed(m)
    <3> HIDE DEF x
    <3> QED
      BY <2>2, <2>3, AdoptGives DEF IInv
  <2>5. current' \in Card /\ (current' = 0 \/ current' < cards)
    BY <1>0, <2>2, <2>4, BackendsAssumption DEF Reference, WellFormed, Card
  <2> QED
    BY <2>1, <2>2, <2>4, <2>5, OneReference DEF ImportInto
<1>11. CASE \E b \in Backend, a \in Graphics, h \in Homes : AdoptFails(b, a, h)
  <2>1. PICK b \in Backend, a \in Graphics, h \in Homes : AdoptFails(b, a, h)
    BY <1>11
  <2> DEFINE x == Exported(a, "handle", h)
  <2>2. ImportDevice(x) \in Card /\ ImportDevice(x) < cards /\ current' = ImportDevice(x)
    <3>1. x.home = h /\ h \in Card \cup {ZeroUuid}
      BY DEF Exported, Homes
    <3>2. Imports(b, x) /\ current' = ImportDevice(x)
      BY <2>1 DEF AdoptFails
    <3> HIDE DEF x
    <3> QED
      BY <1>0, <3>1, <3>2 DEF Imports, ImportDevice, Card
  <2> QED
    BY <2>1, <2>2, ReferencesChange DEF AdoptFails, IInv, TypeOK
<1>12. CASE \E r \in Ref, b \in Backend, d \in Card : Allocate(r, b, d)
  <2>1. PICK r \in Ref, b \in Backend, d \in Card : Allocate(r, b, d)
    BY <1>12
  <2>2. PICK m \in Allocation(b, d) :
          ref' = [ref EXCEPT ![r] = m] /\ current' = IF m.device >= 0 THEN m.device ELSE current
    BY <2>1 DEF Allocate
  <2>3. m \in Reference /\ WellFormed(m)
    BY <2>2, Allocated DEF IInv
  <2>4. current' \in Card /\ (current' = 0 \/ current' < cards)
    BY <1>0, <2>2, <2>3, BackendsAssumption DEF Reference, WellFormed, Card
  <2> QED
    BY <2>1, <2>2, <2>3, <2>4, OneReference DEF Allocate
<1>13. CASE \E r \in Ref, b \in Backend : Transfer(r, b)
  <2>1. PICK r \in Ref, b \in Backend : Transfer(r, b)
    BY <1>13
  <2>2. ref[r] \in Reference /\ WellFormed(ref[r])
    BY <2>1 DEF Transfer, IInv, TypeOK
  <2>3. current' \in Card /\ (current' = 0 \/ current' < cards)
    BY <1>0, <2>1, <2>2, BackendsAssumption DEF Transfer, Reference, WellFormed, Card
  <2> QED
    BY <2>1, <2>3, ReferencesChange DEF Transfer, IInv, TypeOK
<1>14. CASE Close
  BY <1>14 DEF Close, IInv, TypeOK, WellFormed, BoundIsItsOwnMemory, BoundWhereItRuns
<1>15. CASE UNCHANGED vars
  <2>1. /\ build' = build /\ cards' = cards /\ session' = session /\ bound' = bound
        /\ current' = current /\ ref' = ref
    BY <1>15 DEF vars
  <2>2. ref' \in [Ref -> Reference \cup {None}]
    BY <2>1 DEF IInv, TypeOK
  <2> QED
    BY <1>0, <2>1, <2>2, ReferencesChange
<1>16. CASE Next
  <2>1. CASE \E b \in Backend, d \in Card \cup {Automatic, cards}, p \in Package : Load(b, d, p)
    BY <2>1, LoadKeeps
  <2>2. CASE \E r \in Ref : Bind(r)
    BY <2>2, BindKeeps
  <2>3. CASE BindBuffer
    BY <2>3, BindBufferKeeps
  <2> QED
    BY <1>1, <1>3, <1>4, <1>5, <1>7, <1>8, <1>9, <1>10, <1>11, <1>12, <1>13, <1>14, <1>16,
       <2>1, <2>2, <2>3 DEF Next
<1> QED
  BY <1>15, <1>16

----------------------------------------------------------------------------
(* Theorems                                                                *)

\* A session's device is one its backend has and the thread's current device is
\* one the driver shows, whatever is imported, allocated or copied.
THEOREM BackendsTypes == Spec => []TypeOK
<1>1. IInv => TypeOK
  BY DEF IInv
<1> QED
  BY <1>1, InitInv, NextInv, PTL DEF Spec

\* Nothing is bound that the session's backend does not own, and never the
\* number of a handle (adopt, memory_info_for).
THEOREM BoundToItsOwn == Spec => []BoundIsItsOwnMemory
<1>1. IInv => BoundIsItsOwnMemory
  BY DEF IInv
<1> QED
  BY <1>1, InitInv, NextInv, PTL DEF Spec

\* What is bound is on the session's own card, for callers that bind exported
\* memory to a session on the card it lives on (OrtSession::bind, adopt).
THEOREM BoundOnItsDevice ==
  ASSUME ~Strays
  PROVE  Spec => []BoundWhereItRuns
<1>1. IInv => BoundWhereItRuns
  BY DEF IInv
<1> QED
  BY <1>1, InitInv, NextInv, PTL DEF Spec

LEMMA NvidiaLoads ==
  ASSUME TypeOK, NEW p \in Package, NEW b \in Nvidia, NEW d \in Card
  PROVE  (\E what \in {"graph", "kernel"} : LoadsAs(b, d, p, what)) <=>
           b \in build /\ d < cards /\ (HasGraph(p) \/ \E f \in p : CardRuns(f, d))
<1>0. /\ cards \in Nat /\ Visible <= cards /\ Visible \in Nat /\ d \in Nat /\ b \in Backend
      /\ d # Automatic /\ Resolved(d) = d /\ b # "cpu"
  BY VisibleCards, BackendsAssumption DEF TypeOK, Card, Backend, Nvidia, Automatic, Resolved
<1>1. b \in build => "onnx" \in build /\ "cuda" \in build /\ Visible = cards
  BY BackendsAssumption DEF TypeOK, Nvidia, Visible
<1>2. /\ Of(b).devices = Visible /\ Of(b).target = "cuda" /\ Of(b).copies = "cuda"
      /\ Of(b).kernels <=> "cuda" \in build
  BY <1>0, Table
<1>3. ProviderTakes(b) /\ DeviceThere(b, d) <=> d < Visible
  BY <1>0, <1>2 DEF ProviderTakes, DeviceThere, Nvidia
<1>4. ASSUME d < Visible, NEW f
      PROVE  RunsOn(f, b, d) <=> CardRuns(f, d)
  <2>1. DeviceArch(b, d) = CardArch[d]
    BY <1>4 DEF DeviceArch
  <2>2. FamilyOf(f.kind) = "cuda" <=> f.kind \in {"cuda_ptx", "cuda_cubin"}
    BY Families
  <2> QED
    BY <1>2, <2>1, <2>2 DEF RunsOn, CardRuns, BlockTarget
<1>5. d < Visible /\ "cuda" \in build => (BuildsGraph(p) \/ BuildsKernel(p, b, d))
  <2>1. d < Visible => \E m \in Allocation(b, d) : m.domain = Of(b).copies
    BY <1>0, <1>2, Allocated
  <2> QED
    BY <1>2, <2>1 DEF BuildsGraph, BuildsKernel
<1>6. (\E what \in {"graph", "kernel"} : LoadsAs(b, d, p, what)) <=>
        /\ "onnx" \in build /\ b \in build /\ d < Visible
        /\ HasGraph(p) \/ \E f \in p : RunsOn(f, b, d)
        /\ BuildsGraph(p) \/ BuildsKernel(p, b, d)
  BY <1>0, <1>3 DEF LoadsAs, Available
<1> QED
  BY <1>0, <1>1, <1>4, <1>5, <1>6

LEMMA OthersLoad ==
  ASSUME TypeOK, NEW p \in Package, NEW b \in Backend \ Nvidia
  PROVE  (\E what \in {"graph", "kernel"} : LoadsAs(b, 0, p, what)) <=>
           b \in build /\ "onnx" \in build /\ b # "rocm" /\ HasGraph(p)
<1>1. ~Of(b).kernels /\ (b # "rocm" => Of(b).devices = 1 /\ Of(b).target = "none")
  BY Table
<1>2. ProviderTakes(b) /\ DeviceThere(b, 0) <=> b # "rocm"
  BY <1>1 DEF ProviderTakes, DeviceThere, Nvidia, Backend
<1>3. ASSUME NEW f, b # "rocm" PROVE ~RunsOn(f, b, 0)
  BY <1>1, <1>3, Families DEF RunsOn, BlockTarget
<1>4. (\E what \in {"graph", "kernel"} : LoadsAs(b, 0, p, what)) <=>
        /\ "onnx" \in build /\ b \in build /\ b # "rocm"
        /\ HasGraph(p) \/ \E f \in p : RunsOn(f, b, 0)
        /\ BuildsGraph(p) \/ BuildsKernel(p, b, 0)
  BY <1>2 DEF LoadsAs, Available, Automatic, Resolved
<1> QED
  BY <1>1, <1>3, <1>4 DEF BuildsGraph, BuildsKernel

\* A session is had exactly where the machine can run the package, for any
\* package and any card: what require_runnable_on lets pass is never refused by
\* the stage, and CUDA and TensorRT answer alike.
THEOREM LoadsWhereItRuns == Spec => []LoadsWhatTheCardRuns
<1>1. IInv => LoadsWhatTheCardRuns
  BY NvidiaLoads, OthersLoad DEF IInv, LoadsWhatTheCardRuns
<1> QED
  BY <1>1, InitInv, NextInv, PTL DEF Spec

=============================================================================
