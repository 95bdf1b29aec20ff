---------------------------- MODULE AdoptProofs ----------------------------
(***************************************************************************)
(* Proofs about Adopt, for any number of allocations, handles, devices,    *)
(* references and clients, as long as no client asks for a device that is  *)
(* not the allocation's (~Strays) and no number is given out again before  *)
(* it is forgotten (~Recycles).                                            *)
(***************************************************************************)
EXTENDS Adopt, TLAPS

\* A handle's number means one allocation to all that remember it.
Agree ==
  /\ \A r \in Ref : ref[r] # None =>
       open[ref[r].kind][ref[r].handle] \in {None, ref[r].alloc}
  /\ \A r, q \in Ref :
       ref[r] # None /\ ref[q] # None /\ ref[r].kind = ref[q].kind
         /\ ref[r].handle = ref[q].handle => ref[r].alloc = ref[q].alloc
  /\ \A s \in Slot : import[s] # None =>
       open[import[s].kind][import[s].handle] \in {None, import[s].alloc}
  /\ \A s \in Slot, r \in Ref :
       import[s] # None /\ ref[r] # None /\ import[s].kind = ref[r].kind
         /\ import[s].handle = ref[r].handle => import[s].alloc = ref[r].alloc

AtHome == \A s \in Slot : import[s] # None => import[s].device = Home[import[s].alloc]

AdoptInv ==
  /\ TypeOK /\ Agree /\ AtHome
  /\ RegistryFindsTheLiving /\ OneMapping /\ ViewIsOfItsAllocation

----------------------------------------------------------------------------
(* Lookups                                                                 *)

\* A lookup only ever takes out entries that point nowhere.
LEMMA SweptFacts ==
  ASSUME TypeOK, NEW c \in Client, NEW r \in Ref, ref[r] # None
  PROVE  /\ Swept(c, r) \in [Key -> Slot \cup {"expired", "absent"}]
         /\ \A k \in Key : registry[k] \in Slot => Swept(c, r)[k] = registry[k]
         /\ \A k \in Key : Swept(c, r)[k] \in Slot => Swept(c, r)[k] = registry[k]
<1>1. \A k \in Key : registry[k] \in Slot => k \notin Passed(c, r)
  <2> SUFFICES ASSUME NEW k \in Key, registry[k] \in Slot, k \in Passed(c, r)
               PROVE  FALSE
    OBVIOUS
  <2>1. k \in Living(c, r)
    BY DEF Passed, Living
  <2>2. k.device < k.device /\ k.device \in Int
    BY <2>1, AdoptAssumption, SMT DEF Passed, Key, Device
  <2> QED BY <2>2, SMT
<1>2. Swept(c, r) = [k \in Key |-> IF k \in Passed(c, r) THEN "absent" ELSE registry[k]]
  BY DEF Swept
<1> QED BY <1>1, <1>2, NoneAssumption DEF TypeOK

\* A live import of the handle, on its own device, is found.
LEMMA LivingFacts ==
  ASSUME AdoptInv, NEW c \in Client, NEW r \in Ref, ref[r] # None,
         Asks[c] \in {AnyDevice, Home[ref[r].alloc]},
         NEW s \in Slot, import[s] # None,
         import[s].kind = ref[r].kind, import[s].handle = ref[r].handle
  PROVE  Living(c, r) # {}
<1> DEFINE key == [kind |-> import[s].kind, handle |-> import[s].handle,
                   device |-> import[s].device]
<1>1. import[s].alloc = ref[r].alloc /\ import[s].device = Home[ref[r].alloc]
  BY DEF AdoptInv, Agree, AtHome
<1>2. import[s] \in Import
  BY DEF AdoptInv, TypeOK
<1>3. key \in Key /\ registry[key] = s
  BY <1>2 DEF AdoptInv, RegistryFindsTheLiving, Key, Import
<1>4. key \in Entries(c, r)
  BY <1>1, <1>3 DEF Entries
<1> QED BY <1>3, <1>4 DEF Living

----------------------------------------------------------------------------
(* The invariant                                                           *)

LEMMA AdoptInit == Init => AdoptInv
<1> SUFFICES ASSUME Init PROVE AdoptInv
  OBVIOUS
<1>1. TypeOK
  BY NoneAssumption DEF Init, TypeOK
<1> QED BY <1>1 DEF Init, AdoptInv, Agree, AtHome, RegistryFindsTheLiving,
                    OneMapping, ViewIsOfItsAllocation

\* A step that leaves imports and views alone, and of the registry changes only
\* what points nowhere, keeps what is said of them.
LEMMA SweepKeeps ==
  ASSUME AdoptInv, UNCHANGED <<import, view>>,
         registry' \in [Key -> Slot \cup {"expired", "absent"}],
         \A k \in Key : registry[k] \in Slot => registry'[k] = registry[k],
         \A k \in Key : registry'[k] \in Slot => registry'[k] = registry[k],
         open' \in [Kind -> [Handle -> Alloc \cup {None}]],
         ref' \in [Ref -> Reference \cup {None}], Agree'
  PROVE  AdoptInv'
<1>1. TypeOK'
  BY DEF AdoptInv, TypeOK, Held
<1>2. AtHome' /\ OneMapping' /\ ViewIsOfItsAllocation'
  BY DEF AdoptInv, AtHome, OneMapping, ViewIsOfItsAllocation, Held
<1>3. RegistryFindsTheLiving'
  <2> SUFFICES ASSUME NEW s \in Slot, import[s] # None
               PROVE  registry'[[kind |-> import[s].kind, handle |-> import[s].handle,
                                 device |-> import[s].device]] = s
    BY DEF RegistryFindsTheLiving
  <2>1. import[s] \in Import
    BY DEF AdoptInv, TypeOK
  <2>2. [kind |-> import[s].kind, handle |-> import[s].handle,
         device |-> import[s].device] \in Key
    BY <2>1 DEF Import, Key
  <2> QED BY <2>2 DEF AdoptInv, RegistryFindsTheLiving
<1> QED BY <1>1, <1>2, <1>3 DEF AdoptInv

LEMMA ExportKeeps ==
  ASSUME AdoptInv, Recycles = FALSE,
         NEW r \in Ref, NEW a \in Alloc, NEW k \in Kind, NEW h \in Handle,
         Export(r, a, k, h)
  PROVE  AdoptInv'
<1> DEFINE new == [kind |-> k, handle |-> h, alloc |-> a, spent |-> FALSE]
<1>1. /\ open' = [open EXCEPT ![k][h] = a] /\ ref' = [ref EXCEPT ![r] = new]
      /\ UNCHANGED <<import, registry, view>>
      /\ open[k][h] = None /\ ref[r] = None
  BY DEF Export, Available
<1>2. /\ \A q \in Ref : ref[q] # None => ref[q].kind # k \/ ref[q].handle # h
      /\ \A s \in Slot : import[s] # None => import[s].kind # k \/ import[s].handle # h
  BY DEF Export, Available
<1>3. /\ open' \in [Kind -> [Handle -> Alloc \cup {None}]]
      /\ ref' \in [Ref -> Reference \cup {None}]
  BY <1>1 DEF AdoptInv, TypeOK, Reference
<1>4. /\ \A q \in Ref : ref'[q] = IF q = r THEN new ELSE ref[q]
      /\ \A l \in Kind, g \in Handle : open'[l][g] = IF l = k /\ g = h THEN a ELSE open[l][g]
  BY <1>1 DEF AdoptInv, TypeOK
<1>5. /\ \A q \in Ref : ref[q] # None => ref[q] \in Reference
      /\ \A s \in Slot : import[s] # None => import[s] \in Import
  BY DEF AdoptInv, TypeOK
<1>6. Agree'
  <2>1. \A q \in Ref : ref'[q] # None =>
          open'[ref'[q].kind][ref'[q].handle] \in {None, ref'[q].alloc}
    BY <1>2, <1>4, <1>5 DEF AdoptInv, Agree, Reference
  <2>2. \A p, q \in Ref :
          ref'[p] # None /\ ref'[q] # None /\ ref'[p].kind = ref'[q].kind
            /\ ref'[p].handle = ref'[q].handle => ref'[p].alloc = ref'[q].alloc
    BY <1>2, <1>4, <1>5 DEF AdoptInv, Agree, Reference
  <2>3. \A s \in Slot : import[s] # None =>
          open'[import[s].kind][import[s].handle] \in {None, import[s].alloc}
    BY <1>2, <1>4, <1>5 DEF AdoptInv, Agree, Import
  <2>4. \A s \in Slot, q \in Ref :
          import[s] # None /\ ref'[q] # None /\ import[s].kind = ref'[q].kind
            /\ import[s].handle = ref'[q].handle => import[s].alloc = ref'[q].alloc
    BY <1>2, <1>4 DEF AdoptInv, Agree
  <2> QED BY <1>1, <2>1, <2>2, <2>3, <2>4 DEF Agree
<1>7. registry' \in [Key -> Slot \cup {"expired", "absent"}]
  BY <1>1 DEF AdoptInv, TypeOK
<1> QED BY <1>1, <1>3, <1>6, <1>7, SweepKeeps

LEMMA ShareKeeps ==
  ASSUME AdoptInv, NEW r \in Ref, NEW q \in Ref, Share(r, q)
  PROVE  AdoptInv'
<1>1. /\ ref' = [ref EXCEPT ![r] = ref[q]] /\ ref[q] # None
      /\ UNCHANGED <<open, import, registry, view>>
  BY DEF Share
<1>2. /\ open' \in [Kind -> [Handle -> Alloc \cup {None}]]
      /\ ref' \in [Ref -> Reference \cup {None}]
      /\ registry' \in [Key -> Slot \cup {"expired", "absent"}]
  BY <1>1 DEF AdoptInv, TypeOK
<1>3. \A p \in Ref : ref'[p] = IF p = r THEN ref[q] ELSE ref[p]
  BY <1>1 DEF AdoptInv, TypeOK
<1>4. Agree'
  BY <1>1, <1>3 DEF AdoptInv, Agree
<1> QED BY <1>1, <1>2, <1>4, SweepKeeps

\* Forgetting references and closing handles leaves the rest in agreement.
LEMMA ForgetAgrees ==
  ASSUME AdoptInv, UNCHANGED import,
         \A q \in Ref : ref'[q] \in {None, ref[q]},
         \A k \in Kind, h \in Handle : open'[k][h] \in {None, open[k][h]}
  PROVE  Agree'
<1>1. /\ \A q \in Ref : ref[q] # None => ref[q].kind \in Kind /\ ref[q].handle \in Handle
      /\ \A s \in Slot : import[s] # None =>
           import[s].kind \in Kind /\ import[s].handle \in Handle
  BY DEF AdoptInv, TypeOK, Reference, Import
<1>2. \A q \in Ref : ref'[q] # None => ref'[q] = ref[q] /\ ref[q] # None
  OBVIOUS
<1>3. \A q \in Ref : ref'[q] # None =>
        open'[ref'[q].kind][ref'[q].handle] \in {None, ref'[q].alloc}
  BY <1>1, <1>2 DEF AdoptInv, Agree
<1>4. \A p, q \in Ref :
        ref'[p] # None /\ ref'[q] # None /\ ref'[p].kind = ref'[q].kind
          /\ ref'[p].handle = ref'[q].handle => ref'[p].alloc = ref'[q].alloc
  BY <1>2 DEF AdoptInv, Agree
<1>5. \A s \in Slot : import[s] # None =>
        open'[import[s].kind][import[s].handle] \in {None, import[s].alloc}
  BY <1>1 DEF AdoptInv, Agree
<1>6. \A s \in Slot, q \in Ref :
        import[s] # None /\ ref'[q] # None /\ import[s].kind = ref'[q].kind
          /\ import[s].handle = ref'[q].handle => import[s].alloc = ref'[q].alloc
  BY <1>2 DEF AdoptInv, Agree
<1> QED BY <1>3, <1>4, <1>5, <1>6 DEF Agree

LEMMA DropKeeps ==
  ASSUME AdoptInv, NEW r \in Ref, Drop(r)
  PROVE  AdoptInv'
<1>1. /\ ref' = [ref EXCEPT ![r] = None] /\ ref[r] # None
      /\ \/ open' = open
         \/ open' = [open EXCEPT ![ref[r].kind][ref[r].handle] = None]
      /\ UNCHANGED <<import, registry, view>>
  BY DEF Drop
<1>2. ref[r].kind \in Kind /\ ref[r].handle \in Handle
  BY <1>1 DEF AdoptInv, TypeOK, Reference
<1>3. /\ open' \in [Kind -> [Handle -> Alloc \cup {None}]]
      /\ ref' \in [Ref -> Reference \cup {None}]
      /\ registry' \in [Key -> Slot \cup {"expired", "absent"}]
  BY <1>1 DEF AdoptInv, TypeOK
<1>4. /\ \A q \in Ref : ref'[q] \in {None, ref[q]}
      /\ \A k \in Kind, h \in Handle : open'[k][h] \in {None, open[k][h]}
  BY <1>1, <1>2 DEF AdoptInv, TypeOK
<1>5. Agree'
  BY <1>1, <1>4, ForgetAgrees
<1> QED BY <1>1, <1>3, <1>5, SweepKeeps

LEMMA ThrowsKeeps ==
  ASSUME AdoptInv, NEW c \in Client, NEW r \in Ref,
         AdoptThrows(c, r) \/ AdoptMapsNothing(c, r)
  PROVE  AdoptInv'
<1>1. /\ ref[r] # None /\ registry' = Swept(c, r)
      /\ UNCHANGED <<ref, import, view>>
      /\ \/ open' = open
         \/ open' = [open EXCEPT !["fd"][ref[r].handle] = None]
  BY DEF AdoptThrows, AdoptMapsNothing, Asking
<1>2. ref[r].handle \in Handle
  BY <1>1 DEF AdoptInv, TypeOK, Reference
<1>3. /\ open' \in [Kind -> [Handle -> Alloc \cup {None}]]
      /\ ref' \in [Ref -> Reference \cup {None}]
  BY <1>1 DEF AdoptInv, TypeOK
<1>4. \A k \in Kind, h \in Handle : open'[k][h] \in {None, open[k][h]}
  BY <1>1, <1>2 DEF AdoptInv, TypeOK, Kind
<1>5. Agree'
  BY <1>1, <1>4, ForgetAgrees
<1>6. TypeOK
  BY DEF AdoptInv
<1> QED BY <1>1, <1>3, <1>5, <1>6, SweptFacts, SweepKeeps

LEMMA ExistingKeeps ==
  ASSUME AdoptInv, NEW c \in Client, NEW r \in Ref, AdoptExisting(c, r)
  PROVE  AdoptInv'
<1>1. PICK k \in Living(c, r) :
        view' = [view EXCEPT ![c] = [slot |-> registry[k], alloc |-> ref[r].alloc]]
  BY DEF AdoptExisting
<1>2. /\ ref[r] # None /\ view[c] = None /\ registry' = Swept(c, r)
      /\ UNCHANGED <<open, ref, import>>
  BY DEF AdoptExisting, Asking
<1>3. /\ k \in Key /\ registry[k] \in Slot
      /\ k.kind = ref[r].kind /\ k.handle = ref[r].handle
  BY DEF Living, Entries
<1>4. /\ import[registry[k]] # None
      /\ import[registry[k]].kind = ref[r].kind
      /\ import[registry[k]].handle = ref[r].handle
  BY <1>3 DEF AdoptInv, TypeOK
<1>5. import[registry[k]].alloc = ref[r].alloc /\ ref[r].alloc \in Alloc
  BY <1>2, <1>3, <1>4 DEF AdoptInv, Agree, TypeOK, Reference
<1>6. TypeOK
  BY DEF AdoptInv
<1>7. /\ Swept(c, r) \in [Key -> Slot \cup {"expired", "absent"}]
      /\ \A l \in Key : registry[l] \in Slot => Swept(c, r)[l] = registry[l]
      /\ \A l \in Key : Swept(c, r)[l] \in Slot => Swept(c, r)[l] = registry[l]
  BY <1>2, <1>6, SweptFacts
<1>8. \A d \in Client : view'[d] = IF d = c THEN [slot |-> registry[k], alloc |-> ref[r].alloc]
                                   ELSE view[d]
  BY <1>1, <1>6 DEF TypeOK
<1>9. view' \in [Client -> View \cup {None}]
  BY <1>1, <1>3, <1>5, <1>6 DEF TypeOK, View
<1>10. TypeOK'
  BY <1>2, <1>4, <1>6, <1>7, <1>8, <1>9 DEF TypeOK, Held
<1>11. ViewIsOfItsAllocation'
  BY <1>2, <1>5, <1>8 DEF AdoptInv, ViewIsOfItsAllocation, Held
<1>12. Agree' /\ AtHome' /\ OneMapping'
  BY <1>2 DEF AdoptInv, Agree, AtHome, OneMapping
<1>13. RegistryFindsTheLiving'
  <2> SUFFICES ASSUME NEW s \in Slot, import[s] # None
               PROVE  registry'[[kind |-> import[s].kind, handle |-> import[s].handle,
                                 device |-> import[s].device]] = s
    BY <1>2 DEF RegistryFindsTheLiving
  <2>1. [kind |-> import[s].kind, handle |-> import[s].handle,
         device |-> import[s].device] \in Key
    BY <1>6 DEF TypeOK, Import, Key
  <2> QED BY <1>2, <1>7, <2>1 DEF AdoptInv, RegistryFindsTheLiving
<1> QED BY <1>10, <1>11, <1>12, <1>13 DEF AdoptInv

LEMMA ImportsKeeps ==
  ASSUME AdoptInv, Strays = FALSE, NEW c \in Client, NEW r \in Ref, AdoptImports(c, r)
  PROVE  AdoptInv'
<1> DEFINE k == ref[r].kind
           h == ref[r].handle
           a == ref[r].alloc
           new == [kind |-> k, handle |-> h, alloc |-> a, device |-> Home[a]]
           key == [kind |-> k, handle |-> h, device |-> Home[a]]
<1>1. TypeOK /\ ref[r] # None /\ open[k][h] # None /\ Living(c, r) = {}
      /\ Asks[c] \in {AnyDevice, Home[a]} /\ view[c] = None
  BY DEF AdoptImports, Asking, AdoptInv
<1>2. k \in Kind /\ h \in Handle /\ a \in Alloc /\ Home[a] \in Device /\ open[k][h] = a
  BY <1>1, AdoptAssumption DEF AdoptInv, Agree, TypeOK, Reference
<1>3. PICK s \in Slot :
        /\ import[s] = None
        /\ import' = [import EXCEPT ![s] = new]
        /\ registry' = Registered(c, r, s)
        /\ view' = [view EXCEPT ![c] = [slot |-> s, alloc |-> a]]
  BY <1>2 DEF AdoptImports
<1>4. key \in Key /\ new \in Import /\ new # None
  BY <1>2, NoneAssumption DEF Key, Import
<1>5. \A t \in Slot : import[t] # None => import[t].kind # k \/ import[t].handle # h
  BY <1>1, LivingFacts
<1>6. /\ Swept(c, r) \in [Key -> Slot \cup {"expired", "absent"}]
      /\ \A l \in Key : registry[l] \in Slot => Swept(c, r)[l] = registry[l]
      /\ \A l \in Key : Swept(c, r)[l] \in Slot => Swept(c, r)[l] = registry[l]
  BY <1>1, SweptFacts
<1>7. Swept(c, r)[key] = "absent"
  <2>1. key \in Entries(c, r)
    BY <1>1, <1>4 DEF Entries
  <2>2. key \in Passed(c, r)
    BY <1>1, <2>1 DEF Passed
  <2> QED BY <1>4, <2>2 DEF Swept
<1>8. registry' = [Swept(c, r) EXCEPT ![key] = s]
  BY <1>3, <1>7 DEF Registered
<1>9. \A l \in Key : registry'[l] = IF l = key THEN s ELSE Swept(c, r)[l]
  BY <1>4, <1>6, <1>8
<1>10. registry' \in [Key -> Slot \cup {"expired", "absent"}]
  BY <1>6, <1>8
<1>11. /\ import' \in [Slot -> Import \cup {None}]
       /\ \A t \in Slot : import'[t] = IF t = s THEN new ELSE import[t]
  BY <1>1, <1>3, <1>4 DEF TypeOK
<1>12. /\ view' \in [Client -> View \cup {None}]
       /\ \A d \in Client : view'[d] = IF d = c THEN [slot |-> s, alloc |-> a] ELSE view[d]
  BY <1>1, <1>2, <1>3 DEF TypeOK, View
<1>13. /\ open' \in [Kind -> [Handle -> Alloc \cup {None}]]
       /\ \A l \in Kind, g \in Handle : open'[l][g] \in {None, open[l][g]}
  BY <1>1, <1>2 DEF AdoptImports, TypeOK, Kind
<1>14. /\ ref' \in [Ref -> Reference \cup {None}]
       /\ \A q \in Ref : (ref'[q] # None) <=> (ref[q] # None)
       /\ \A q \in Ref : ref[q] # None =>
            /\ ref'[q].kind = ref[q].kind /\ ref'[q].handle = ref[q].handle
            /\ ref'[q].alloc = ref[q].alloc
  <2>1. CASE ref' = ref
    BY <1>1, <2>1 DEF TypeOK
  <2>2. CASE ref' = [ref EXCEPT ![r].spent = TRUE]
    <3>1. ref[r] \in Reference
      BY <1>1 DEF TypeOK
    <3>2. [ref[r] EXCEPT !.spent = TRUE] \in Reference
      BY <3>1 DEF Reference
    <3>3. \A q \in Ref : ref'[q] = IF q = r THEN [ref[r] EXCEPT !.spent = TRUE] ELSE ref[q]
      BY <1>1, <2>2 DEF TypeOK
    <3>4. ref' \in [Ref -> Reference \cup {None}]
      BY <1>1, <2>2, <3>2 DEF TypeOK
    <3>5. [ref[r] EXCEPT !.spent = TRUE] # None
      BY <3>2, NoneAssumption
    <3> QED BY <1>1, <3>1, <3>3, <3>4, <3>5 DEF Reference
  <2> QED BY <2>1, <2>2 DEF AdoptImports
<1>15. TypeOK'
  <2>1. ASSUME NEW l \in Key, registry'[l] \in Slot
        PROVE  /\ import'[registry'[l]] # None
               /\ l = [kind |-> import'[registry'[l]].kind,
                       handle |-> import'[registry'[l]].handle,
                       device |-> import'[registry'[l]].device]
    <3>1. CASE l = key
      BY <1>4, <1>9, <1>11, <3>1
    <3>2. CASE l # key
      <4>1. registry'[l] = registry[l] /\ registry[l] \in Slot
        BY <1>6, <1>9, <2>1, <3>2
      <4>2. registry[l] # s
        BY <1>1, <1>3, <4>1 DEF TypeOK
      <4> QED BY <1>1, <1>11, <4>1, <4>2 DEF TypeOK
    <3> QED BY <3>1, <3>2
  <2>2. ASSUME NEW d \in Client, view'[d] # None
        PROVE  import'[view'[d].slot] # None
    <3>1. CASE d = c
      BY <1>4, <1>11, <1>12, <3>1
    <3>2. CASE d # c
      <4>1. import[view[d].slot] # None /\ view[d].slot \in Slot
        BY <1>1, <1>12, <2>2, <3>2 DEF TypeOK, View, Held
      <4> QED BY <1>3, <1>11, <1>12, <3>2, <4>1
    <3> QED BY <3>1, <3>2
  <2> QED BY <1>10, <1>11, <1>12, <1>13, <1>14, <2>1, <2>2 DEF TypeOK, Held
<1>16. Agree'
  <2>1. \A q \in Ref : ref'[q] # None =>
          open'[ref'[q].kind][ref'[q].handle] \in {None, ref'[q].alloc}
    BY <1>1, <1>13, <1>14 DEF AdoptInv, Agree, TypeOK, Reference
  <2>2. \A p, q \in Ref :
          ref'[p] # None /\ ref'[q] # None /\ ref'[p].kind = ref'[q].kind
            /\ ref'[p].handle = ref'[q].handle => ref'[p].alloc = ref'[q].alloc
    BY <1>14 DEF AdoptInv, Agree
  <2>3. \A t \in Slot : import'[t] # None =>
          open'[import'[t].kind][import'[t].handle] \in {None, import'[t].alloc}
    BY <1>1, <1>2, <1>11, <1>13 DEF AdoptInv, Agree, TypeOK, Import
  <2>4. \A t \in Slot, q \in Ref :
          import'[t] # None /\ ref'[q] # None /\ import'[t].kind = ref'[q].kind
            /\ import'[t].handle = ref'[q].handle => import'[t].alloc = ref'[q].alloc
    BY <1>1, <1>11, <1>14 DEF AdoptInv, Agree
  <2> QED BY <2>1, <2>2, <2>3, <2>4 DEF Agree
<1>17. AtHome'
  BY <1>11 DEF AdoptInv, AtHome
<1>18. RegistryFindsTheLiving'
  <2> SUFFICES ASSUME NEW t \in Slot, import'[t] # None
               PROVE  registry'[[kind |-> import'[t].kind, handle |-> import'[t].handle,
                                 device |-> import'[t].device]] = t
    BY DEF RegistryFindsTheLiving
  <2>1. CASE t = s
    BY <1>4, <1>9, <1>11, <2>1
  <2>2. CASE t # s
    <3> DEFINE own == [kind |-> import[t].kind, handle |-> import[t].handle,
                       device |-> import[t].device]
    <3>1. import'[t] = import[t] /\ import[t] # None
      BY <1>11, <2>2
    <3>2. own \in Key
      BY <1>1, <3>1 DEF TypeOK, Import, Key
    <3>3. own # key
      BY <1>5, <3>1
    <3>4. registry[own] = t
      BY <3>1 DEF AdoptInv, RegistryFindsTheLiving
    <3> QED BY <1>6, <1>9, <3>1, <3>2, <3>3, <3>4
  <2> QED BY <2>1, <2>2
<1>19. OneMapping'
  BY <1>5, <1>11 DEF AdoptInv, OneMapping
<1>20. ViewIsOfItsAllocation'
  <2> SUFFICES ASSUME NEW d \in Client, view'[d] # None
               PROVE  import'[view'[d].slot].alloc = view'[d].alloc
    BY DEF ViewIsOfItsAllocation, Held
  <2>1. CASE d = c
    BY <1>11, <1>12, <2>1
  <2>2. CASE d # c
    <3>1. view'[d] = view[d] /\ view[d] # None
      BY <1>12, <2>2
    <3>2. view[d].slot \in Slot /\ import[view[d].slot] # None
      BY <1>1, <3>1 DEF TypeOK, View, Held
    <3> QED BY <1>3, <1>11, <3>1, <3>2 DEF AdoptInv, ViewIsOfItsAllocation, Held
  <2> QED BY <2>1, <2>2
<1> QED BY <1>15, <1>16, <1>17, <1>18, <1>19, <1>20 DEF AdoptInv

LEMMA OwnKeeps ==
  ASSUME AdoptInv, NEW c \in Client, NEW d \in Client, AdoptOwn(c, d)
  PROVE  AdoptInv'
<1>1. /\ view[d] # None /\ view' = [view EXCEPT ![c] = view[d]]
      /\ UNCHANGED <<open, ref, import, registry>>
  BY DEF AdoptOwn
<1>2. TypeOK
  BY DEF AdoptInv
<1>3. \A e \in Client : view'[e] = IF e = c THEN view[d] ELSE view[e]
  BY <1>1, <1>2 DEF TypeOK
<1>4. view' \in [Client -> View \cup {None}]
  BY <1>1, <1>2 DEF TypeOK
<1>5. TypeOK'
  BY <1>1, <1>2, <1>3, <1>4 DEF TypeOK, Held
<1>6. ViewIsOfItsAllocation'
  BY <1>1, <1>3 DEF AdoptInv, ViewIsOfItsAllocation, Held
<1>7. Agree' /\ AtHome' /\ OneMapping' /\ RegistryFindsTheLiving'
  BY <1>1 DEF AdoptInv, Agree, AtHome, OneMapping, RegistryFindsTheLiving
<1> QED BY <1>5, <1>6, <1>7 DEF AdoptInv

LEMMA ReleaseKeeps ==
  ASSUME AdoptInv, NEW c \in Client, Release(c)
  PROVE  AdoptInv'
<1> DEFINE s == view[c].slot
<1>1. /\ view[c] # None /\ view' = [view EXCEPT ![c] = None]
      /\ UNCHANGED <<open, ref>>
  BY DEF Release
<1>2. TypeOK
  BY DEF AdoptInv
<1>3. s \in Slot
  BY <1>1, <1>2 DEF TypeOK, View
<1>4. /\ view' \in [Client -> View \cup {None}]
      /\ \A d \in Client : view'[d] = IF d = c THEN None ELSE view[d]
  BY <1>1, <1>2 DEF TypeOK
<1>5. CASE import' = import /\ registry' = registry
  <2>1. TypeOK'
    BY <1>1, <1>2, <1>4, <1>5 DEF TypeOK, Held
  <2>2. ViewIsOfItsAllocation'
    BY <1>4, <1>5 DEF AdoptInv, ViewIsOfItsAllocation, Held
  <2>3. Agree' /\ AtHome' /\ OneMapping' /\ RegistryFindsTheLiving'
    BY <1>1, <1>5 DEF AdoptInv, Agree, AtHome, OneMapping, RegistryFindsTheLiving
  <2> QED BY <2>1, <2>2, <2>3 DEF AdoptInv
<1>6. CASE /\ Holders(s) = {c}
           /\ import' = [import EXCEPT ![s] = None]
           /\ registry' = Expired(s)
  <2>1. /\ import' \in [Slot -> Import \cup {None}]
        /\ \A t \in Slot : import'[t] = IF t = s THEN None ELSE import[t]
    BY <1>2, <1>3, <1>6 DEF TypeOK
  <2>2. /\ registry' \in [Key -> Slot \cup {"expired", "absent"}]
        /\ \A k \in Key : registry'[k] = IF registry[k] = s THEN "expired" ELSE registry[k]
    BY <1>2, <1>6 DEF TypeOK, Expired
  <2>3. \A d \in Client : view'[d] # None => view'[d] = view[d] /\ view[d].slot # s
    BY <1>4, <1>6 DEF Holders, Held
  <2>4. \A d \in Client : view'[d] # None =>
          /\ view[d].slot \in Slot /\ import[view[d].slot] # None
          /\ import'[view[d].slot] = import[view[d].slot]
    BY <1>2, <2>1, <2>3 DEF TypeOK, View, Held
  <2>5. \A k \in Key : registry'[k] \in Slot => registry'[k] = registry[k] /\ registry[k] # s
    BY <2>2, NoneAssumption
  <2>6. TypeOK'
    BY <1>1, <1>2, <1>4, <2>1, <2>2, <2>3, <2>4, <2>5 DEF TypeOK, Held
  <2>7. ViewIsOfItsAllocation'
    BY <2>3, <2>4 DEF AdoptInv, ViewIsOfItsAllocation, Held
  <2>8. Agree' /\ AtHome' /\ OneMapping'
    BY <1>1, <2>1 DEF AdoptInv, Agree, AtHome, OneMapping
  <2>9. RegistryFindsTheLiving'
    <3> SUFFICES ASSUME NEW t \in Slot, import'[t] # None
                 PROVE  registry'[[kind |-> import'[t].kind, handle |-> import'[t].handle,
                                   device |-> import'[t].device]] = t
      BY DEF RegistryFindsTheLiving
    <3> DEFINE own == [kind |-> import[t].kind, handle |-> import[t].handle,
                       device |-> import[t].device]
    <3>1. t # s /\ import'[t] = import[t] /\ import[t] # None
      BY <2>1
    <3>2. own \in Key
      BY <1>2, <3>1 DEF TypeOK, Import, Key
    <3>3. registry[own] = t
      BY <3>1 DEF AdoptInv, RegistryFindsTheLiving
    <3> QED BY <2>2, <3>1, <3>2, <3>3
  <2> QED BY <2>6, <2>7, <2>8, <2>9 DEF AdoptInv
<1> QED BY <1>5, <1>6 DEF Release, Held

LEMMA AdoptNext ==
  ASSUME Strays = FALSE, Recycles = FALSE, AdoptInv, [Next]_vars
  PROVE  AdoptInv'
<1>1. CASE \E r \in Ref, a \in Alloc, k \in Kind, h \in Handle : Export(r, a, k, h)
  BY <1>1, ExportKeeps
<1>2. CASE \E r, q \in Ref : Share(r, q)
  BY <1>2, ShareKeeps
<1>3. CASE \E r \in Ref : Drop(r)
  BY <1>3, DropKeeps
<1>4. CASE \E c \in Client, r \in Ref : AdoptExisting(c, r)
  BY <1>4, ExistingKeeps
<1>5. CASE \E c \in Client, r \in Ref : AdoptThrows(c, r) \/ AdoptMapsNothing(c, r)
  BY <1>5, ThrowsKeeps
<1>6. CASE \E c \in Client, r \in Ref : AdoptImports(c, r)
  BY <1>6, ImportsKeeps
<1>7. CASE \E c, d \in Client : AdoptOwn(c, d)
  BY <1>7, OwnKeeps
<1>8. CASE \E c \in Client : Release(c)
  BY <1>8, ReleaseKeeps
<1>9. CASE UNCHANGED vars
  BY <1>9 DEF vars, AdoptInv, TypeOK, Held, Agree, AtHome, OneMapping,
              RegistryFindsTheLiving, ViewIsOfItsAllocation
<1> QED BY <1>1, <1>2, <1>3, <1>4, <1>5, <1>6, <1>7, <1>8, <1>9 DEF Next

----------------------------------------------------------------------------
(* Theorems                                                                *)

\* The inductive invariant: besides the properties, a handle's number means one
\* allocation to every reference and import that remembers it, and an import
\* is on its allocation's own device.
THEOREM AdoptCorrect ==
  ASSUME Strays = FALSE, Recycles = FALSE
  PROVE  Spec => []AdoptInv
<1>1. AdoptInv /\ [Next]_vars => AdoptInv'
  BY AdoptNext
<1> QED BY <1>1, AdoptInit, PTL DEF Spec

\* No weak reference dangles and no client's view is of an import that has
\* ended (the lock and the reference counts of adopt.cpp:131-170).
THEOREM RegistryNeverDangles ==
  ASSUME Strays = FALSE, Recycles = FALSE
  PROVE  Spec => []TypeOK
<1>1. AdoptInv => TypeOK
  BY DEF AdoptInv
<1> QED BY <1>1, AdoptCorrect, PTL

\* Whatever was imported, let go and closed before, adopt hands a client a view
\* of the allocation it asked for (adopt.cpp:136-168).
THEOREM ViewsCorrect ==
  ASSUME Strays = FALSE, Recycles = FALSE
  PROVE  Spec => []ViewIsOfItsAllocation
<1>1. AdoptInv => ViewIsOfItsAllocation
  BY DEF AdoptInv
<1> QED BY <1>1, AdoptCorrect, PTL

\* The registry does what it is there for (adopt.cpp:7-12): no handle is mapped
\* twice at once, whichever clients ask and in whatever order they let go.
THEOREM MappedOnce ==
  ASSUME Strays = FALSE, Recycles = FALSE
  PROVE  Spec => []OneMapping
<1>1. AdoptInv => OneMapping
  BY DEF AdoptInv
<1> QED BY <1>1, AdoptCorrect, PTL

\* A live import is always found under its key: neither an expiry nor a lookup
\* takes it out of the registry (adopt.cpp:136-147).
THEOREM LivingIsFound ==
  ASSUME Strays = FALSE, Recycles = FALSE
  PROVE  Spec => []RegistryFindsTheLiving
<1>1. AdoptInv => RegistryFindsTheLiving
  BY DEF AdoptInv
<1> QED BY <1>1, AdoptCorrect, PTL

=============================================================================
