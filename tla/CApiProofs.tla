----------------------------- MODULE CApiProofs -----------------------------
(***************************************************************************)
(* For any number of threads, wrappers, allocations and names: every object *)
(* behind the C ABI has one owner, an import as many references as there    *)
(* are shares in it, and every exception its own message.                   *)
(***************************************************************************)
EXTENDS CApi, FiniteSetTheorems, TLAPS

\* The heap holds objects and the wrappers hold handles.
Typed ==
  /\ heap \in [Handle -> Object \cup {Nothing}]
  /\ var \in [Var -> Handle \cup {Nothing}]

Owned == Typed /\ HandlesHaveOneOwner

----------------------------------------------------------------------------
(* Objects                                                                 *)

LEMMA Objects ==
  /\ Metadata \in Object /\ Metadata.class = "metadata"
  /\ \A r \in Reference : Memory(r) \in Object /\ Memory(r).class = "memory"
  /\ \A b \in [Name -> Reference \cup {Nothing}], g \in BOOLEAN :
       Session(b, g) \in Object /\ Session(b, g).class = "session"
<1>1. Metadata \in Object /\ Metadata.class = "metadata"
  BY DEF Object, Metadata
<1>2. \A r \in Reference : Memory(r) \in Object /\ Memory(r).class = "memory"
  BY DEF Object, Memory
<1>3. ASSUME NEW b \in [Name -> Reference \cup {Nothing}], NEW g \in BOOLEAN
      PROVE  Session(b, g) \in Object /\ Session(b, g).class = "session"
  <2>1. Session(b, g) \in Object
    BY DEF Object
  <2> QED
    BY <2>1 DEF Session
<1> QED
  BY <1>1, <1>2, <1>3

LEMMA EmptySession ==
  \A g \in BOOLEAN : Session(Unbound, g) \in Object /\ Session(Unbound, g).class = "session"
<1>1. Unbound \in [Name -> Reference \cup {Nothing}]
  BY DEF Unbound
<1> QED
  BY <1>1, Objects

\* What a class says of an object.
LEMMA ByClass ==
  ASSUME NEW x \in Object
  PROVE  /\ x.class = "memory" => \E r \in Reference : x = Memory(r)
         /\ x.class = "session" => \E b \in [Name -> Reference \cup {Nothing}], g \in BOOLEAN : x = Session(b, g)
BY DEF Object, Metadata, Memory, Session

LEMMA BoundIsReference ==
  ASSUME NEW r \in Reference, Bindable(r)
  PROVE  AsBound(r) \in Reference
<1>1. CASE r.to = "resource"
  <2>1. r.alloc \in Alloc
    BY <1>1 DEF Reference
  <2> QED
    BY <1>1, <2>1 DEF AsBound, Imported, Reference
<1>2. CASE r.to # "resource"
  BY <1>2 DEF AsBound
<1> QED
  BY <1>1, <1>2

----------------------------------------------------------------------------
(* Handles                                                                 *)

\* A constructor that succeeds.
LEMMA MakesKeeps ==
  ASSUME Owned, NEW v \in Var, var[v] = Nothing,
         NEW x \in Object, x.class = ClassOf[v], Makes(v, x)
  PROVE  Owned'
<1>1. PICK h \in Handle :
        heap[h] = Nothing /\ heap' = [heap EXCEPT ![h] = x] /\ var' = [var EXCEPT ![v] = h]
  BY DEF Makes, Becomes
<1>2. Typed'
  BY <1>1 DEF Owned, Typed
<1>3. x # Nothing /\ h # Nothing
  BY NothingAssumption
<1>4. \A w \in Var : var[w] # h
  BY <1>1, <1>3 DEF Owned, HandlesHaveOneOwner
<1>5. \A w \in Var : var'[w] # Nothing => heap'[var'[w]] # Nothing /\ heap'[var'[w]].class = ClassOf[w]
  BY <1>1, <1>3, <1>4 DEF Owned, Typed, HandlesHaveOneOwner
<1>6. \A g \in Handle : heap'[g] # Nothing => \E w \in Var : var'[w] = g
  BY <1>1, <1>3, <1>4, NothingAssumption DEF Owned, Typed, HandlesHaveOneOwner
<1>7. \A w, u \in Var : var'[w] # Nothing /\ var'[w] = var'[u] => w = u
  BY <1>1, <1>3, <1>4 DEF Owned, Typed, HandlesHaveOneOwner
<1> QED
  BY <1>2, <1>5, <1>6, <1>7 DEF Owned, HandlesHaveOneOwner

\* A call that changes the object a wrapper owns.
LEMMA BecomesKeeps ==
  ASSUME Owned, NEW v \in Var, var[v] # Nothing,
         NEW x \in Object, x.class = ClassOf[v], Becomes(var[v], x), var' = var
  PROVE  Owned'
<1>1. heap' = [heap EXCEPT ![var[v]] = x]
  BY DEF Becomes
<1>2. x # Nothing /\ var[v] \in Handle
  BY NothingAssumption DEF Owned, Typed
<1> QED
  BY <1>1, <1>2 DEF Owned, Typed, HandlesHaveOneOwner

\* Freeing what v owns and giving it what w owned, which then owns nothing.
LEMMA MoveKeeps ==
  ASSUME Owned, NEW v \in Var, NEW w \in Var, MoveAssign(v, w)
  PROVE  Owned'
<1>1. v # w /\ ClassOf[v] = ClassOf[w] /\ Freed(v)
  BY DEF MoveAssign
<1>2. var' = [var EXCEPT ![v] = var[w], ![w] = Nothing]
  BY DEF MoveAssign, Exchanged
<1>3. /\ var' \in [Var -> Handle \cup {Nothing}]
      /\ var'[v] = var[w] /\ var'[w] = Nothing
      /\ \A u \in Var \ {v, w} : var'[u] = var[u]
  BY <1>1, <1>2 DEF Owned, Typed
<1>4. /\ heap' \in [Handle -> Object \cup {Nothing}]
      /\ \A h \in Handle : heap'[h] = IF h = var[v] /\ var[v] # Nothing THEN Nothing ELSE heap[h]
  <2>1. CASE var[v] = Nothing
    BY <1>1, <2>1 DEF Freed, Owned, Typed
  <2>2. CASE var[v] # Nothing
    BY <1>1, <2>2 DEF Freed, Becomes, Owned, Typed
  <2> QED
    BY <2>1, <2>2
<1>5. \A u \in Var : var'[u] # Nothing =>
        var'[u] \in Handle /\ heap'[var'[u]] = heap[var'[u]]
  BY <1>1, <1>3, <1>4 DEF Owned, HandlesHaveOneOwner
<1>6. \A u \in Var : var'[u] # Nothing => heap'[var'[u]] # Nothing /\ heap'[var'[u]].class = ClassOf[u]
  BY <1>1, <1>3, <1>5 DEF Owned, HandlesHaveOneOwner
<1>7. \A h \in Handle : heap'[h] # Nothing => \E u \in Var : var'[u] = h
  <2> SUFFICES ASSUME NEW h \in Handle, heap'[h] # Nothing PROVE \E u \in Var : var'[u] = h
    OBVIOUS
  <2>1. heap[h] # Nothing /\ h # var[v]
    BY <1>4, NothingAssumption
  <2>2. PICK u \in Var : var[u] = h
    BY <2>1 DEF Owned, HandlesHaveOneOwner
  <2>3. CASE u = w
    BY <1>3, <2>2, <2>3
  <2>4. CASE u # w
    BY <1>3, <2>1, <2>2, <2>4
  <2> QED
    BY <2>3, <2>4
<1>8. \A u, x \in Var : var'[u] # Nothing /\ var'[u] = var'[x] => u = x
  BY <1>1, <1>3 DEF Owned, HandlesHaveOneOwner
<1> QED
  BY <1>3, <1>4, <1>6, <1>7, <1>8 DEF Owned, Typed, HandlesHaveOneOwner

LEMMA DestroyKeeps ==
  ASSUME Owned, NEW v \in Var, Destroy(v)
  PROVE  Owned'
<1>1. var' = [var EXCEPT ![v] = Nothing]
  BY DEF Destroy
<1>2. CASE var[v] = Nothing
  BY <1>1, <1>2 DEF Destroy, Freed, Owned, Typed, HandlesHaveOneOwner
<1>3. CASE var[v] # Nothing
  <2>1. heap' = [heap EXCEPT ![var[v]] = Nothing]
    BY <1>3 DEF Destroy, Freed, Becomes
  <2> QED
    BY <1>1, <1>3, <2>1 DEF Owned, Typed, HandlesHaveOneOwner
<1> QED
  BY <1>2, <1>3

\* A call that makes, changes and frees nothing.
LEMMA RestKeeps == Owned /\ heap' = heap /\ var' = var => Owned'
BY DEF Owned, Typed, HandlesHaveOneOwner

\* The constructors.
LEMMA ConstructorsKeep ==
  ASSUME Owned, NEW v \in Var, ReadMetadata(v) \/ LoadSession(v) \/ PlainMemory(v)
  PROVE  Owned'
<1>1. CASE MakesNothing
  BY <1>1, RestKeeps DEF MakesNothing
<1>2. CASE ReadMetadata(v)
  BY <1>1, <1>2, MakesKeeps, Objects DEF ReadMetadata, Constructing
<1>3. CASE LoadSession(v)
  BY <1>1, <1>3, MakesKeeps, EmptySession DEF LoadSession, Constructing
<1>4. CASE PlainMemory(v)
  <2>1. [to |-> "plain"] \in Reference
    BY DEF Reference
  <2> QED
    BY <1>1, <1>4, <2>1, MakesKeeps, Objects DEF PlainMemory, Constructing
<1> QED
  BY <1>2, <1>3, <1>4

LEMMA SharersKeep ==
  ASSUME Owned, NEW v \in Var, NEW a \in Alloc,
         ResourceMemory(v, a) \/ Import(v, a) \/ ImportFails(v, a)
  PROVE  Owned'
<1>1. CASE MakesNothing
  BY <1>1, RestKeeps DEF MakesNothing
<1>2. CASE ResourceMemory(v, a)
  <2>1. \A to \in {"resource", "described"} : [to |-> to, alloc |-> a] \in Reference
    BY DEF Reference
  <2> QED
    BY <1>1, <1>2, <2>1, MakesKeeps, Objects DEF ResourceMemory, Constructing
<1>3. CASE Import(v, a)
  <2>1. Imported(a) \in Reference
    BY DEF Imported, Reference
  <2> QED
    BY <1>3, <2>1, MakesKeeps, Objects DEF Import, Constructing
<1>4. CASE ImportFails(v, a)
  BY <1>1, <1>4 DEF ImportFails
<1> QED
  BY <1>2, <1>3, <1>4

\* A session's grid and bindings change; what it is does not.
LEMMA SetVoxelGridKeeps ==
  ASSUME Owned, NEW v \in Var, SetVoxelGrid(v)
  PROVE  Owned'
<1>1. ClassOf[v] = "session" /\ var[v] # Nothing /\ var' = var
  BY DEF SetVoxelGrid, OfSession
<1>2. Session(Unbound, TRUE) \in Object /\ Session(Unbound, TRUE).class = "session"
  BY EmptySession
<1>3. CASE Becomes(var[v], Session(Unbound, TRUE))
  BY <1>1, <1>2, <1>3, BecomesKeeps
<1>4. CASE heap' = heap
  BY <1>1, <1>4, RestKeeps
<1> QED
  BY <1>3, <1>4 DEF SetVoxelGrid

LEMMA BindsAnObject ==
  ASSUME Owned, NEW v \in Var, NEW m \in Var, NEW n \in Name, Bind(v, n, m)
  PROVE  LET x == [ObjectOf(v) EXCEPT !.bound[n] = AsBound(ObjectOf(m).ref)]
         IN x \in Object /\ x.class = "session"
<1>1. /\ ClassOf[v] = "session" /\ var[v] # Nothing /\ ClassOf[m] = "memory" /\ var[m] # Nothing
      /\ Bindable(heap[var[m]].ref)
  BY DEF Bind, OfSession, ObjectOf
<1>2. /\ heap[var[v]] \in Object /\ heap[var[v]].class = "session"
      /\ heap[var[m]] \in Object /\ heap[var[m]].class = "memory"
  BY <1>1 DEF Owned, Typed, HandlesHaveOneOwner
<1>3. PICK r \in Reference : heap[var[m]] = Memory(r)
  BY <1>2, ByClass
<1>4. PICK b \in [Name -> Reference \cup {Nothing}], g \in BOOLEAN : heap[var[v]] = Session(b, g)
  BY <1>2, ByClass
<1>5. AsBound(r) \in Reference /\ heap[var[m]].ref = r
  BY <1>1, <1>3, BoundIsReference DEF Memory
<1>6. [heap[var[v]] EXCEPT !.bound[n] = AsBound(r)] = Session([b EXCEPT ![n] = AsBound(r)], g)
  BY <1>4 DEF Session
<1>7. [b EXCEPT ![n] = AsBound(r)] \in [Name -> Reference \cup {Nothing}]
  BY <1>5
<1>8. /\ Session([b EXCEPT ![n] = AsBound(r)], g) \in Object
      /\ Session([b EXCEPT ![n] = AsBound(r)], g).class = "session"
  BY <1>7, Objects
<1>9. ObjectOf(v) = heap[var[v]] /\ ObjectOf(m).ref = r
  BY <1>5 DEF ObjectOf
<1> QED
  BY <1>6, <1>8, <1>9

LEMMA BindKeeps ==
  ASSUME Owned, NEW v \in Var, NEW m \in Var, NEW n \in Name, Bind(v, n, m)
  PROVE  Owned'
<1>1. ClassOf[v] = "session" /\ var[v] # Nothing /\ var' = var
  BY DEF Bind, OfSession
<1> QED
  BY <1>1, BindsAnObject, BecomesKeeps DEF Bind

LEMMA InitOwned == Init => Owned
BY NothingAssumption DEF Init, Owned, Typed, HandlesHaveOneOwner

LEMMA NextOwned == Owned /\ [Next]_vars => Owned'
<1> SUFFICES ASSUME Owned, [Next]_vars PROVE Owned'
  OBVIOUS
<1>1. CASE \E t \in Thread : Check(t)
  BY <1>1, RestKeeps DEF Check
<1>2. CASE \E a \in Alloc : Export(a) \/ Close(a)
  BY <1>2, RestKeeps DEF Export, Close
<1>3. CASE \E v \in Var : ReadMetadata(v) \/ LoadSession(v) \/ PlainMemory(v)
  BY <1>3, ConstructorsKeep
<1>4. CASE \E v \in Var, a \in Alloc : ResourceMemory(v, a) \/ Import(v, a) \/ ImportFails(v, a)
  BY <1>4, SharersKeep
<1>5. CASE \E v \in Var : Destroy(v)
  BY <1>5, DestroyKeeps
<1>6. CASE \E v \in Var : SetVoxelGrid(v)
  BY <1>6, SetVoxelGridKeeps
<1>7. CASE \E v \in Var : InferFails(v)
  BY <1>7, RestKeeps DEF InferFails
<1>8. CASE \E v, w \in Var : MoveAssign(v, w)
  BY <1>8, MoveKeeps
<1>9. CASE \E v, w \in Var : BindFails(v, w)
  BY <1>9, RestKeeps DEF BindFails
<1>10. CASE \E v, w \in Var, n \in Name : Bind(v, n, w)
  BY <1>10, BindKeeps
<1>11. CASE \E v \in Var, what \in {"set_voxel_grid", "bind", "infer"} : NullSession(v, what)
  BY <1>11, RestKeeps DEF NullSession
<1>12. CASE UNCHANGED vars
  BY <1>12, RestKeeps DEF vars
<1> QED
  BY <1>1, <1>2, <1>3, <1>4, <1>5, <1>6, <1>7, <1>8, <1>9, <1>10, <1>11, <1>12 DEF Next

----------------------------------------------------------------------------
(* References                                                              *)

\* Every import has as many references as there are shares in it.
Counts == refs \in [Alloc -> Nat] /\ ImportsLiveWhileHeld

LEMMA Pairs ==
  ASSUME NEW h, NEW S, IsFiniteSet(S)
  PROVE  IsFiniteSet({h} \X S) /\ Cardinality({h} \X S) = Cardinality(S)
<1>1. IsFiniteSet({h}) /\ Cardinality({h}) = 1
  BY FS_Singleton
<1>2. IsFiniteSet({h} \X S) /\ Cardinality({h} \X S) = 1 * Cardinality(S)
  BY <1>1, FS_Product
<1>3. Cardinality(S) \in Nat
  BY FS_CardinalityType
<1> QED
  BY <1>2, <1>3

LEMMA Finite ==
  /\ \A x, a : Held(x, a) \subseteq Share /\ IsFiniteSet(Held(x, a))
  /\ \A H, a : IsFiniteSet(Holders(H, a))
<1>1. IsFiniteSet(Name) /\ IsFiniteSet(Handle)
  BY CApiAssumption
<1>2. IsFiniteSet(Share)
  <2>1. IsFiniteSet({"itself"})
    BY FS_Singleton
  <2> QED
    BY <1>1, <2>1, FS_Union DEF Share
<1>3. IsFiniteSet(Handle \X Share)
  BY <1>1, <1>2, FS_Product
<1>4. ASSUME NEW x, NEW a PROVE Held(x, a) \subseteq Share /\ IsFiniteSet(Held(x, a))
  <2>1. Held(x, a) \subseteq Share
    BY DEF Held, Share
  <2> QED
    BY <1>2, <2>1, FS_Subset
<1>5. ASSUME NEW H, NEW a PROVE IsFiniteSet(Holders(H, a))
  <2>1. Holders(H, a) \subseteq Handle \X Share
    BY DEF Holders
  <2> QED
    BY <1>3, <2>1, FS_Subset
<1> QED
  BY <1>4, <1>5

\* A set that loses one part and gets another, neither in the rest.
LEMMA Exchange ==
  ASSUME NEW C, NEW A, NEW B, IsFiniteSet(C), IsFiniteSet(A), IsFiniteSet(B),
         C \cap A = {}, C \cap B = {}
  PROVE  Cardinality(C \cup B) = Cardinality(C \cup A) + Cardinality(B) - Cardinality(A)
<1>1. Cardinality({}) = 0
  BY FS_EmptySet
<1>2. /\ Cardinality(C \cup A) = Cardinality(C) + Cardinality(A) - 0
      /\ Cardinality(C \cup B) = Cardinality(C) + Cardinality(B) - 0
  BY <1>1, FS_Union
<1>3. Cardinality(A) \in Nat /\ Cardinality(B) \in Nat /\ Cardinality(C) \in Nat
  BY FS_CardinalityType
<1> QED
  BY <1>1, <1>2, <1>3

\* An object takes the place of another: what it shares is counted, and what the
\* other shared no more.
LEMMA BecomesCounts ==
  ASSUME Typed, Counts, NEW h \in Handle, NEW x \in Object \cup {Nothing}, Becomes(h, x)
  PROVE  Counts'
<1>1. heap' = [heap EXCEPT ![h] = x] /\ refs' = Counted(heap[h], x)
  BY DEF Becomes
<1>2. heap'[h] = x /\ \A g \in Handle : g # h => heap'[g] = heap[g]
  BY <1>1 DEF Typed
<1>3. ASSUME NEW a \in Alloc
      PROVE  refs'[a] \in Nat /\ refs'[a] = Cardinality(Holders(heap', a))
  <2> DEFINE A == {h} \X Held(heap[h], a)
             B == {h} \X Held(x, a)
             C == Holders(heap, a) \ A
  <2>1. /\ Held(heap[h], a) \subseteq Share /\ IsFiniteSet(Held(heap[h], a))
        /\ Held(x, a) \subseteq Share /\ IsFiniteSet(Held(x, a))
        /\ IsFiniteSet(Holders(heap, a)) /\ IsFiniteSet(Holders(heap', a))
    BY Finite
  <2>2. /\ IsFiniteSet(A) /\ Cardinality(A) = Cardinality(Held(heap[h], a))
        /\ IsFiniteSet(B) /\ Cardinality(B) = Cardinality(Held(x, a))
    BY <2>1, Pairs
  <2>3. IsFiniteSet(C)
    BY <2>1, FS_Difference
  <2>4. Holders(heap, a) = C \cup A
    BY <2>1 DEF Holders
  <2>5. Holders(heap', a) = C \cup B
    BY <1>2, <2>1 DEF Holders
  <2>6. C \cap A = {} /\ C \cap B = {}
    BY <2>1 DEF Holders
  <2> HIDE DEF A, B, C
  <2>7. Cardinality(C \cup B) = Cardinality(C \cup A) + Cardinality(B) - Cardinality(A)
    BY <2>2, <2>3, <2>6, Exchange
  <2>8. refs[a] = Cardinality(Holders(heap, a))
    BY DEF Counts, ImportsLiveWhileHeld
  <2>9. refs'[a] = refs[a] + Cardinality(Held(x, a)) - Cardinality(Held(heap[h], a))
    BY <1>1 DEF Counted
  <2>10. Cardinality(Holders(heap', a)) \in Nat
    BY <2>1, FS_CardinalityType
  <2> QED
    BY <2>2, <2>4, <2>5, <2>7, <2>8, <2>9, <2>10
<1>4. refs' = [a \in Alloc |-> refs'[a]]
  BY <1>1 DEF Counted
<1>5. refs' \in [Alloc -> Nat]
  BY <1>3, <1>4
<1>6. ImportsLiveWhileHeld'
  BY <1>3 DEF ImportsLiveWhileHeld
<1> QED
  BY <1>5, <1>6 DEF Counts

\* A call makes, changes or frees one object, or none.
OneObject ==
  \/ UNCHANGED <<heap, refs>>
  \/ \E h \in Handle, x \in Object \cup {Nothing} : Becomes(h, x)

LEMMA OneObjectCounts == Typed /\ Counts /\ OneObject => Counts'
<1>1. ASSUME Counts, UNCHANGED <<heap, refs>> PROVE Counts'
  BY <1>1 DEF Counts, ImportsLiveWhileHeld, Holders
<1> QED
  BY <1>1, BecomesCounts DEF OneObject

LEMMA MakesOne ==
  ASSUME NEW v \in Var, NEW x \in Object, Makes(v, x) \/ MakesNothing
  PROVE  OneObject
BY DEF Makes, MakesNothing, OneObject

LEMMA FreesOne ==
  ASSUME Typed, NEW v \in Var, Freed(v)
  PROVE  OneObject
BY DEF Freed, Typed, OneObject

LEMMA MakersCount ==
  ASSUME NEW v \in Var,
         \/ ReadMetadata(v) \/ LoadSession(v) \/ PlainMemory(v)
         \/ \E a \in Alloc : ResourceMemory(v, a) \/ Import(v, a) \/ ImportFails(v, a)
  PROVE  OneObject
<1>1. CASE ReadMetadata(v)
  BY <1>1, MakesOne, Objects DEF ReadMetadata
<1>2. CASE LoadSession(v)
  BY <1>2, MakesOne, EmptySession DEF LoadSession
<1>3. CASE PlainMemory(v)
  <2>1. [to |-> "plain"] \in Reference
    BY DEF Reference
  <2> QED
    BY <1>3, <2>1, MakesOne, Objects DEF PlainMemory
<1>4. ASSUME NEW a \in Alloc, ResourceMemory(v, a) PROVE OneObject
  <2>1. \A to \in {"resource", "described"} : [to |-> to, alloc |-> a] \in Reference
    BY DEF Reference
  <2> QED
    BY <1>4, <2>1, MakesOne, Objects DEF ResourceMemory
<1>5. ASSUME NEW a \in Alloc, Import(v, a) PROVE OneObject
  <2>1. Imported(a) \in Reference
    BY DEF Imported, Reference
  <2> QED
    BY <1>5, <2>1, MakesOne, Objects DEF Import
<1>6. ASSUME NEW a \in Alloc, ImportFails(v, a) PROVE OneObject
  BY <1>6, MakesOne, Objects DEF ImportFails
<1> QED
  BY <1>1, <1>2, <1>3, <1>4, <1>5, <1>6

LEMMA SessionsCount ==
  ASSUME Owned, NEW v \in Var,
         \/ SetVoxelGrid(v) \/ InferFails(v) \/ \E w \in Var : BindFails(v, w)
         \/ \E w \in Var, n \in Name : Bind(v, n, w)
         \/ \E what : NullSession(v, what)
  PROVE  OneObject
<1>1. CASE SetVoxelGrid(v)
  <2>1. var[v] \in Handle /\ Session(Unbound, TRUE) \in Object
    BY <1>1, EmptySession DEF SetVoxelGrid, OfSession, Owned, Typed
  <2> QED
    BY <1>1, <2>1 DEF SetVoxelGrid, OneObject
<1>2. CASE InferFails(v) \/ (\E w \in Var : BindFails(v, w)) \/ \E what : NullSession(v, what)
  BY <1>2 DEF InferFails, BindFails, NullSession, OneObject
<1>3. ASSUME NEW w \in Var, NEW n \in Name, Bind(v, n, w) PROVE OneObject
  <2>1. var[v] \in Handle
    BY <1>3 DEF Bind, OfSession, Owned, Typed
  <2> QED
    BY <1>3, <2>1, BindsAnObject DEF Bind, OneObject
<1> QED
  BY <1>1, <1>2, <1>3

LEMMA NextCounts == Owned /\ Counts /\ [Next]_vars => Counts'
<1> SUFFICES ASSUME Owned, Counts, [Next]_vars PROVE Counts'
  OBVIOUS
<1>1. Typed
  BY DEF Owned
<1>2. CASE \E t \in Thread : Check(t)
  BY <1>1, <1>2, OneObjectCounts DEF Check, OneObject
<1>3. CASE \E a \in Alloc : Export(a) \/ Close(a)
  BY <1>1, <1>3, OneObjectCounts DEF Export, Close, OneObject
<1>4. ASSUME NEW v \in Var,
             \/ ReadMetadata(v) \/ LoadSession(v) \/ PlainMemory(v)
             \/ \E a \in Alloc : ResourceMemory(v, a) \/ Import(v, a) \/ ImportFails(v, a)
      PROVE  Counts'
  BY <1>1, <1>4, MakersCount, OneObjectCounts
<1>5. ASSUME NEW v \in Var, Destroy(v) \/ \E w \in Var : MoveAssign(v, w)
      PROVE  Counts'
  BY <1>1, <1>5, FreesOne, OneObjectCounts DEF Destroy, MoveAssign
<1>6. ASSUME NEW v \in Var,
             \/ SetVoxelGrid(v) \/ InferFails(v) \/ \E w \in Var : BindFails(v, w)
             \/ \E w \in Var, n \in Name : Bind(v, n, w)
             \/ \E what : NullSession(v, what)
      PROVE  Counts'
  BY <1>1, <1>6, SessionsCount, OneObjectCounts
<1>7. CASE UNCHANGED vars
  BY <1>1, <1>7, OneObjectCounts DEF vars, OneObject
<1> QED
  BY <1>2, <1>3, <1>4, <1>5, <1>6, <1>7 DEF Next

LEMMA InitCounts == Init => Counts
<1> SUFFICES ASSUME Init PROVE Counts
  OBVIOUS
<1>1. \A a : Holders(heap, a) = {}
  BY DEF Init, Holders, Held
<1>2. Cardinality({}) = 0
  BY FS_EmptySet
<1> QED
  BY <1>1, <1>2 DEF Init, Counts, ImportsLiveWhileHeld

----------------------------------------------------------------------------
(* Messages                                                                *)

Slots ==
  /\ message = [t \in Thread |-> message[t]]
  /\ failing = [t \in Thread |-> failing[t]]
Told == Slots /\ MessageIsOfItsCall

\* What a call says of itself: nothing, or in its own thread's slot.
Reports(t) == Succeeds \/ \E what, status : Fails(t, what, status)

LEMMA ReportKeeps ==
  ASSUME Told, NEW t \in Thread, Reports(t)
  PROVE  Told'
<1>1. CASE Succeeds
  BY <1>1 DEF Succeeds, Told, Slots, MessageIsOfItsCall, SlotOf
<1>2. CASE \E what, status : Fails(t, what, status)
  <2>1. PICK what, status : Fails(t, what, status)
    BY <1>2
  <2> DEFINE x == [call |-> what, status |-> status]
  <2>2. message' = [message EXCEPT ![t] = x] /\ failing' = [failing EXCEPT ![t] = x]
    BY <2>1 DEF Fails, SlotOf
  <2> HIDE DEF x
  <2>3. Slots'
    BY <2>2 DEF Told, Slots
  <2>4. message'[t] = x /\ failing'[t] = x
    BY <2>2 DEF Told, Slots
  <2>5. \A u \in Thread \ {t} : message'[u] = message[u] /\ failing'[u] = failing[u]
    BY <2>2 DEF Told, Slots
  <2> QED
    BY <2>3, <2>4, <2>5 DEF Told, MessageIsOfItsCall, SlotOf
<1> QED
  BY <1>1, <1>2 DEF Reports

LEMMA CheckKeeps ==
  ASSUME Told, NEW t \in Thread, Check(t)
  PROVE  Told'
BY DEF Check, Told, Slots, MessageIsOfItsCall, SlotOf

LEMMA CaughtReports ==
  ASSUME NEW t \in Thread, NEW what, GuardCatches(t, what)
  PROVE  Reports(t)
BY DEF GuardCatches, Reports

LEMMA InitTold == Init => Told
BY DEF Init, Told, Slots, MessageIsOfItsCall

LEMMA NextTold == Told /\ [Next]_vars => Told'
<1> SUFFICES ASSUME Told, [Next]_vars PROVE Told'
  OBVIOUS
<1> USE CApiAssumption
<1>1. CASE \E t \in Thread : Check(t)
  BY <1>1, CheckKeeps
<1>2. CASE UNCHANGED <<message, failing>>
  BY <1>2 DEF Told, Slots, MessageIsOfItsCall, SlotOf
<1>3. CASE \E a \in Alloc : Export(a) \/ Close(a)
  BY <1>2, <1>3 DEF Export, Close
<1>4. CASE \E v \in Var : Reports(UserOf[v])
  BY <1>4, ReportKeeps
<1>5. CASE \E v \in Var : ReadMetadata(v) \/ LoadSession(v) \/ PlainMemory(v)
  BY <1>4, <1>5, CaughtReports DEF ReadMetadata, LoadSession, PlainMemory, Reports
<1>6. CASE \E v \in Var, a \in Alloc : ResourceMemory(v, a) \/ Import(v, a) \/ ImportFails(v, a)
  BY <1>4, <1>6, CaughtReports DEF ResourceMemory, Import, ImportFails, Reports
<1>7. CASE \E v \in Var : Destroy(v) \/ SetVoxelGrid(v) \/ InferFails(v)
  BY <1>2, <1>4, <1>7, CaughtReports DEF Destroy, SetVoxelGrid, InferFails, Reports
<1>8. CASE \E v, w \in Var : MoveAssign(v, w) \/ BindFails(v, w)
  BY <1>2, <1>4, <1>8, CaughtReports DEF MoveAssign, BindFails, Reports
<1>9. CASE \E v, w \in Var, n \in Name : Bind(v, n, w)
  BY <1>4, <1>9 DEF Bind, Reports
<1>10. CASE \E v \in Var, what \in {"set_voxel_grid", "bind", "infer"} : NullSession(v, what)
  BY <1>4, <1>10 DEF NullSession, Reports
<1>11. CASE UNCHANGED vars
  BY <1>2, <1>11 DEF vars
<1> QED
  BY <1>1, <1>3, <1>5, <1>6, <1>7, <1>8, <1>9, <1>10, <1>11 DEF Next

----------------------------------------------------------------------------
(* Types                                                                   *)

Flags == shared \in [Alloc -> BOOLEAN] /\ mine \in [Alloc -> BOOLEAN]
Statuses ==
  /\ failing = [t \in Thread |-> failing[t]]
  /\ \A t \in Thread : failing[t] # Nothing => failing[t].status \in Status

LEMMA StatusIsOne == \A kind \in Raised : StatusOf(kind) \in Status
BY RaisedAssumption DEF Kind, StatusOf, Status

\* What a call says of itself, with a status the ABI has.
Answers(t) == Succeeds \/ \E what : \E status \in Status : Fails(t, what, status)

LEMMA AnswerKeeps ==
  ASSUME Statuses, NEW t \in Thread, Answers(t)
  PROVE  Statuses'
<1>1. CASE Succeeds
  BY <1>1 DEF Succeeds, Statuses
<1>2. ASSUME NEW what, NEW status \in Status, Fails(t, what, status)
      PROVE  Statuses'
  <2> DEFINE x == [call |-> what, status |-> status]
  <2>1. failing' = [failing EXCEPT ![t] = x] /\ x.status \in Status
    BY <1>2 DEF Fails
  <2> HIDE DEF x
  <2> QED
    BY <2>1 DEF Statuses
<1> QED
  BY <1>1, <1>2 DEF Answers

LEMMA GuardAnswers ==
  ASSUME NEW t \in Thread, NEW what, GuardCatches(t, what)
  PROVE  Answers(t)
BY StatusIsOne DEF GuardCatches, Answers

LEMMA NextStatuses == Statuses /\ [Next]_vars => Statuses'
<1> SUFFICES ASSUME Statuses, [Next]_vars PROVE Statuses'
  OBVIOUS
<1> USE CApiAssumption
<1>1. CASE \E t \in Thread : Check(t)
  BY <1>1 DEF Check, Statuses
<1>2. CASE UNCHANGED <<message, failing>>
  BY <1>2 DEF Statuses
<1>3. CASE \E a \in Alloc : Export(a) \/ Close(a)
  BY <1>2, <1>3 DEF Export, Close
<1>4. CASE \E v \in Var : Answers(UserOf[v])
  BY <1>4, AnswerKeeps
<1>5. "invalid_argument" \in Status
  BY DEF Status
<1>6. CASE \E v \in Var : ReadMetadata(v) \/ LoadSession(v) \/ PlainMemory(v)
  BY <1>4, <1>5, <1>6, GuardAnswers DEF ReadMetadata, LoadSession, PlainMemory, Answers
<1>7. CASE \E v \in Var, a \in Alloc : ResourceMemory(v, a) \/ Import(v, a) \/ ImportFails(v, a)
  BY <1>4, <1>5, <1>7, GuardAnswers DEF ResourceMemory, Import, ImportFails, Answers
<1>8. CASE \E v \in Var : Destroy(v) \/ SetVoxelGrid(v) \/ InferFails(v)
  BY <1>2, <1>4, <1>8, GuardAnswers DEF Destroy, SetVoxelGrid, InferFails, Answers
<1>9. CASE \E v, w \in Var : MoveAssign(v, w) \/ BindFails(v, w)
  BY <1>2, <1>4, <1>5, <1>9, GuardAnswers DEF MoveAssign, BindFails, Answers
<1>10. CASE \E v, w \in Var, n \in Name : Bind(v, n, w)
  BY <1>4, <1>10 DEF Bind, Answers
<1>11. CASE \E v \in Var, what \in {"set_voxel_grid", "bind", "infer"} : NullSession(v, what)
  BY <1>4, <1>5, <1>11 DEF NullSession, Answers
<1>12. CASE UNCHANGED vars
  BY <1>2, <1>12 DEF vars
<1> QED
  BY <1>1, <1>3, <1>6, <1>7, <1>8, <1>9, <1>10, <1>11, <1>12 DEF Next

LEMMA NextFlags == Flags /\ [Next]_vars => Flags'
<1> SUFFICES ASSUME Flags, [Next]_vars PROVE Flags'
  OBVIOUS
<1>1. CASE UNCHANGED <<shared, mine>>
  BY <1>1 DEF Flags
<1>2. ASSUME NEW a \in Alloc, Export(a) \/ Close(a) PROVE Flags'
  BY <1>2 DEF Export, Close, Flags
<1>3. ASSUME NEW a \in Alloc PROVE Consumed(a) \in [Alloc -> BOOLEAN]
  BY DEF Consumed, Flags
<1>4. ASSUME NEW v \in Var, NEW a \in Alloc, Import(v, a) PROVE Flags'
  <2>1. shared' \in {shared, Consumed(a)}
    BY <1>4 DEF Import, Adopted
  <2>2. mine' = [mine EXCEPT ![a] = (SharedBy[a] = "nt")]
    BY <1>4 DEF Import
  <2> QED
    BY <2>1, <2>2, <1>3 DEF Flags
<1>5. ASSUME NEW v \in Var, NEW a \in Alloc, ImportFails(v, a) PROVE Flags'
  <2>1. shared' \in {shared, Consumed(a)} /\ mine' = mine
    BY <1>5 DEF ImportFails
  <2> QED
    BY <2>1, <1>3 DEF Flags
<1>6. CASE \E t \in Thread : Check(t)
  BY <1>1, <1>6 DEF Check
<1>7. CASE \E v \in Var :
        \/ ReadMetadata(v) \/ LoadSession(v) \/ PlainMemory(v)
        \/ Destroy(v) \/ SetVoxelGrid(v) \/ InferFails(v)
        \/ \E a \in Alloc : ResourceMemory(v, a)
  BY <1>1, <1>7 DEF ReadMetadata, LoadSession, PlainMemory, Destroy, SetVoxelGrid, InferFails,
     ResourceMemory
<1>8. CASE \E v \in Var :
        \/ \E w \in Var : MoveAssign(v, w) \/ BindFails(v, w)
        \/ \E w \in Var, n \in Name : Bind(v, n, w)
        \/ \E what : NullSession(v, what)
  BY <1>1, <1>8 DEF MoveAssign, BindFails, Bind, NullSession
<1>9. CASE UNCHANGED vars
  BY <1>1, <1>9 DEF vars
<1> QED
  BY <1>2, <1>4, <1>5, <1>6, <1>7, <1>8, <1>9 DEF Next

CInv == Owned /\ Counts /\ Flags /\ Statuses

LEMMA InitC == Init => CInv
<1> SUFFICES ASSUME Init PROVE CInv
  OBVIOUS
<1>1. Flags /\ Statuses
  BY DEF Init, Flags, Statuses
<1> QED
  BY <1>1, InitOwned, InitCounts DEF CInv

LEMMA NextC == CInv /\ [Next]_vars => CInv'
BY NextOwned, NextCounts, NextFlags, NextStatuses DEF CInv

----------------------------------------------------------------------------

\* No sequence of constructors, moves, assignments, calls and destructors, with
\* exceptions anywhere, frees an object twice, leaks one or leaves a wrapper
\* with a handle that has been freed.
THEOREM OneOwner == Spec => []HandlesHaveOneOwner
<1>1. Owned => HandlesHaveOneOwner
  BY DEF Owned
<1> QED
  BY <1>1, InitOwned, NextOwned, PTL DEF Spec

\* The heap holds objects, the wrappers handles, and every failed call has one of
\* the six statuses of the ABI, whatever kind of exception it ended in.
THEOREM CApiTypes == Spec => []TypeOK
<1>1. CInv => TypeOK
  BY DEF CInv, Owned, Typed, Counts, Flags, Statuses, TypeOK
<1> QED
  BY <1>1, InitC, NextC, PTL DEF Spec

\* Whoever moves, frees, binds and chooses grids, an import has exactly as many
\* references as there are handles and bindings of it: it is mapped as long as
\* there is one (c_api.h:108-110), and gone with the last.
THEOREM ImportsLive == Spec => []ImportsLiveWhileHeld
<1>1. CInv => ImportsLiveWhileHeld
  BY DEF CInv, Counts
<1> QED
  BY <1>1, InitC, NextC, PTL DEF Spec

\* However the calls of other threads fail between a failed call and the
\* wrapper's question for its message, the exception carries its own.
THEOREM OwnMessage == Spec => []MessageIsOfItsCall
<1>1. Told => MessageIsOfItsCall
  BY DEF Told
<1> QED
  BY <1>1, InitTold, NextTold, PTL DEF Spec

=============================================================================
