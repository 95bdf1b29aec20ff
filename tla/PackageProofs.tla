--------------------------- MODULE PackageProofs ---------------------------
(***************************************************************************)
(* Theorems about a package from its producer to its reader.  First about  *)
(* the module Builder, for every package a producer can assemble: what     *)
(* validate accepts is what a session relies on.  Then about the module    *)
(* Container, for any number of processes: the file that holds packages is *)
(* the register PackageFile promises.                                      *)
(***************************************************************************)
EXTENDS Builder, Container, SequenceTheorems, TLAPS

----------------------------------------------------------------------------
(* Types                                                                   *)

\* Every stage a call leaves where it was keeps its name.
LEMMA AmendKeepsTypes ==
  ASSUME stages \in Seq(Stages), NEW i \in DOMAIN stages, NEW s \in Stages,
         s.name = stages[i].name,
         stages' = [stages EXCEPT ![i] = s]
  PROVE  /\ stages' \in Seq(Stages)
         /\ DOMAIN stages' = DOMAIN stages
         /\ \A j \in DOMAIN stages : stages'[j].name = stages[j].name
  OBVIOUS

LEMMA TypesInductive == TypeOK /\ [Next]_vars => TypeOK'
<1>0. "weights" \notin Kind /\ AnyArch \in Arch /\ Empty \in Payload
  BY BuilderAssumption
<1> SUFFICES ASSUME TypeOK, [Next]_vars PROVE TypeOK'
  OBVIOUS
<1>1. ASSUME NEW k \in Kind, NEW n \in StageName, NEW a \in Arch, AddBlock(k, n, a)
      PROVE  TypeOK'
  <2>1. blocks' \in Seq(Blocks)
    BY <1>0, <1>1 DEF AddBlock, TypeOK, Blocks
  <2>2. \A i \in DOMAIN blocks' : blocks'[i].kind = "weights" => i \in DOMAIN blocks /\ blocks'[i] = blocks[i]
    BY <1>0, <1>1 DEF AddBlock, TypeOK, Blocks
  <2> QED
    BY <1>1, <2>1, <2>2 DEF AddBlock, TypeOK
<1>2. ASSUME NEW n \in BufferName, NEW e \in {0, 1}, AddBuffer(n, e)
      PROVE  TypeOK'
  BY <1>2 DEF AddBuffer, TypeOK, Buffers
<1>3. ASSUME NEW n \in StageName, NEW once \in BOOLEAN, AddStage(n, once)
      PROVE  TypeOK'
  <2>1. stages' \in Seq(Stages)
    BY <1>3 DEF AddStage, TypeOK, Stages
  <2>2. \A j \in DOMAIN stages : j \in DOMAIN stages' /\ stages'[j] = stages[j]
    BY <1>3 DEF AddStage, TypeOK
  <2> QED
    BY <1>3, <2>1, <2>2 DEF AddStage, TypeOK
<1>4. ASSUME NEW i \in DOMAIN stages, NEW p \in Ports, AddRead(i, p)
      PROVE  TypeOK'
  <2> DEFINE more == Append(stages[i].reads, p)
             s == [stages[i] EXCEPT !.reads = more]
  <2>1. stages[i] \in Stages
    BY DEF TypeOK
  <2>2. more \in Seq(Ports)
    BY <2>1 DEF Stages
  <2>3. s \in Stages /\ s.name = stages[i].name
    <3> HIDE DEF more
    <3> QED
      BY <2>1, <2>2 DEF Stages
  <2>4. stages' = [stages EXCEPT ![i] = s]
    BY <1>4 DEF AddRead
  <2> QED
    BY <1>4, <2>3, <2>4, AmendKeepsTypes DEF AddRead, TypeOK
<1>5. ASSUME NEW i \in DOMAIN stages, NEW p \in Ports, AddWrite(i, p)
      PROVE  TypeOK'
  <2> DEFINE more == Append(stages[i].writes, p)
             s == [stages[i] EXCEPT !.writes = more]
  <2>1. stages[i] \in Stages
    BY DEF TypeOK
  <2>2. more \in Seq(Ports)
    BY <2>1 DEF Stages
  <2>3. s \in Stages /\ s.name = stages[i].name
    <3> HIDE DEF more
    <3> QED
      BY <2>1, <2>2 DEF Stages
  <2>4. stages' = [stages EXCEPT ![i] = s]
    BY <1>5 DEF AddWrite
  <2> QED
    BY <1>5, <2>3, <2>4, AmendKeepsTypes DEF AddWrite, TypeOK
<1>6. ASSUME NEW i \in DOMAIN stages, NEW l \in Launches, AddLaunch(i, l)
      PROVE  TypeOK'
  <2> DEFINE more == Append(stages[i].launches, l)
             s == [stages[i] EXCEPT !.launches = more]
  <2>1. stages[i] \in Stages
    BY DEF TypeOK
  <2>2. more \in Seq(Launches)
    BY <2>1 DEF Stages
  <2>3. s \in Stages /\ s.name = stages[i].name
    <3> HIDE DEF more
    <3> QED
      BY <2>1, <2>2 DEF Stages
  <2>4. stages' = [stages EXCEPT ![i] = s]
    BY <1>6 DEF AddLaunch
  <2> QED
    BY <1>6, <2>3, <2>4, AmendKeepsTypes DEF AddLaunch, TypeOK
<1>7. ASSUME NEW i \in DOMAIN stages, NEW bytes \in Payload, NEW e \in {0, 1},
             SetWeights(i, bytes, e)
      PROVE  TypeOK'
  <2> DEFINE s == [stages[i] EXCEPT !.elements = e]
             w == [kind |-> "weights", name |-> stages[i].name, arch |-> AnyArch, payload |-> bytes]
  <2>0. stages[i] \in Stages
    BY DEF TypeOK
  <2>1. s \in Stages /\ s.name = stages[i].name
    BY <2>0 DEF Stages
  <2>2. stages' = [stages EXCEPT ![i] = s]
    BY <1>7 DEF SetWeights
  <2>3. /\ stages' \in Seq(Stages) /\ DOMAIN stages' = DOMAIN stages
        /\ \A j \in DOMAIN stages : stages'[j].name = stages[j].name
    BY <2>1, <2>2, AmendKeepsTypes DEF TypeOK
  <2>4. stages[i].name \in StageName
    BY <2>0 DEF Stages
  <2>5. w \in Blocks
    BY <1>0, <2>4 DEF Blocks
  <2>6. blocks' \in Seq(Blocks)
    BY <1>7, <2>5 DEF SetWeights, Stored, TypeOK
  <2>7. \A j \in DOMAIN blocks' :
          \/ j \in DOMAIN blocks /\ blocks'[j] = blocks[j]
          \/ blocks'[j] = w /\ bytes # Empty
    BY <1>7, <2>5 DEF SetWeights, Stored, TypeOK
  <2>9. ASSUME NEW j \in DOMAIN blocks', blocks'[j].kind = "weights"
        PROVE  blocks'[j].payload # Empty /\ \E m \in DOMAIN stages' : stages'[m].name = blocks'[j].name
    <3>1. CASE j \in DOMAIN blocks /\ blocks'[j] = blocks[j]
      <4>1. blocks[j].payload # Empty /\ \E m \in DOMAIN stages : stages[m].name = blocks[j].name
        BY <2>9, <3>1 DEF TypeOK
      <4> QED
        BY <2>3, <3>1, <4>1
    <3>2. CASE blocks'[j] = w /\ bytes # Empty
      BY <2>3, <3>2
    <3> QED
      BY <2>7, <3>1, <3>2
  <2> QED
    BY <1>7, <2>3, <2>6, <2>9 DEF SetWeights, TypeOK
<1>8. ASSUME NEW d \in Device, Load(d)
      PROVE  TypeOK'
  BY <1>8 DEF Load, TypeOK
<1>9. CASE Close
  BY <1>9 DEF Close, TypeOK
<1>10. CASE UNCHANGED vars
  BY <1>10 DEF vars, TypeOK
<1> QED
  BY <1>1, <1>2, <1>3, <1>4, <1>5, <1>6, <1>7, <1>8, <1>9, <1>10 DEF Next

\* Weights are stored under the name of a stage the composition has, in every
\* order of the producer's calls, and a block of them is never empty
\* (builder.cpp:186-196).
THEOREM BuilderTypes == Spec => []TypeOK
<1>1. Init => TypeOK
  BY BuilderAssumption DEF Init, TypeOK
<1> QED
  BY <1>1, TypesInductive, PTL DEF Spec

----------------------------------------------------------------------------
(* Ports                                                                   *)

PortsOf(i) == Range(stages[i].reads) \cup Range(stages[i].writes)

\* No tensor of an accepted stage has two ports, so none is both read and
\* written, and none is attached to two buffers.
LEMMA OnePort ==
  ASSUME TypeOK, CompositionAccepted, NEW i \in DOMAIN stages
  PROVE  /\ \A p, q \in PortsOf(i) : p.tensor = q.tensor => p = q
         /\ \A p \in Range(stages[i].reads), q \in Range(stages[i].writes) : p.tensor # q.tensor
<1> DEFINE rs == stages[i].reads
           ws == stages[i].writes
           ports == rs \o ws
<1>1. stages[i] \in Stages /\ StageAccepted(stages[i])
  BY DEF TypeOK, CompositionAccepted
<1>2. rs \in Seq(Ports) /\ ws \in Seq(Ports)
  BY <1>1 DEF Stages
<1>3. \A j, k \in DOMAIN ports : ports[j].tensor = ports[k].tensor => j = k
  BY <1>1 DEF StageAccepted
<1> HIDE DEF rs, ws
<1>4. \A p \in Range(rs) : \E j \in DOMAIN ports : j <= Len(rs) /\ ports[j] = p
  BY <1>2 DEF Range
<1>5. \A q \in Range(ws) : \E j \in DOMAIN ports : j > Len(rs) /\ ports[j] = q
  <2> SUFFICES ASSUME NEW k \in DOMAIN ws
               PROVE  \E j \in DOMAIN ports : j > Len(rs) /\ ports[j] = ws[k]
    BY DEF Range
  <2>1. Len(rs) + k \in DOMAIN ports /\ Len(rs) + k > Len(rs) /\ ports[Len(rs) + k] = ws[k]
    BY <1>2
  <2> QED
    BY <2>1
<1>6. \A p \in Range(rs), q \in Range(ws) : p.tensor # q.tensor
  <2> SUFFICES ASSUME NEW p \in Range(rs), NEW q \in Range(ws), p.tensor = q.tensor
               PROVE  FALSE
    OBVIOUS
  <2>1. PICK j \in DOMAIN ports : j <= Len(rs) /\ ports[j] = p
    BY <1>4
  <2>2. PICK k \in DOMAIN ports : k > Len(rs) /\ ports[k] = q
    BY <1>5
  <2>3. j \in Int /\ k \in Int /\ Len(rs) \in Int
    BY <1>2
  <2>4. j = k
    BY <1>3, <2>1, <2>2
  <2> HIDE DEF ports
  <2> QED
    BY <2>1, <2>2, <2>3, <2>4
<1>7. \A p, q \in Range(rs) \cup Range(ws) : p.tensor = q.tensor => p = q
  <2> SUFFICES ASSUME NEW p \in Range(rs) \cup Range(ws), NEW q \in Range(rs) \cup Range(ws),
                      p.tensor = q.tensor
               PROVE  p = q
    OBVIOUS
  <2>1. PICK j \in DOMAIN ports : ports[j] = p
    BY <1>4, <1>5
  <2>2. PICK k \in DOMAIN ports : ports[k] = q
    BY <1>4, <1>5
  <2> QED
    BY <1>3, <2>1, <2>2
<1> QED
  BY <1>6, <1>7 DEF PortsOf, rs, ws

\* A port's tensor is attached to the one buffer the port names.
LEMMA PortAttaches ==
  ASSUME TypeOK, CompositionAccepted, NEW i \in DOMAIN stages, NEW p \in PortsOf(i)
  PROVE  \E k \in DOMAIN buffers : buffers[k].name = p.buffer /\ Attached(<<i, p.tensor>>) = {k}
<1>1. StageAccepted(stages[i]) /\ stages[i] \in Stages
  BY DEF TypeOK, CompositionAccepted
<1> DEFINE rs == stages[i].reads
           ws == stages[i].writes
           ports == rs \o ws
<1>2. rs \in Seq(Ports) /\ ws \in Seq(Ports)
  BY <1>1 DEF Stages
<1>3. \A j \in DOMAIN ports : \E b \in Range(buffers) : b.name = ports[j].buffer
  BY <1>1 DEF StageAccepted
<1>4. \E j \in DOMAIN ports : ports[j] = p
  <2>1. CASE p \in Range(rs)
    <3> HIDE DEF rs, ws
    <3> QED
      BY <2>1, <1>2 DEF Range
  <2>2. CASE p \in Range(ws)
    <3> HIDE DEF rs, ws
    <3>1. PICK j \in DOMAIN ws : ws[j] = p
      BY <2>2 DEF Range
    <3>2. Len(rs) + j \in DOMAIN ports /\ ports[Len(rs) + j] = p
      BY <1>2, <3>1
    <3> QED
      BY <3>2
  <2> QED
    BY <2>1, <2>2 DEF PortsOf
<1>5. PICK k \in DOMAIN buffers : buffers[k].name = p.buffer
  BY <1>3, <1>4 DEF Range
<1>6. \A m \in DOMAIN buffers : buffers[m].name = p.buffer => m = k
  BY <1>5 DEF CompositionAccepted, NamedOnce
<1>7. \A q \in PortsOf(i) : q.tensor = p.tensor => q = p
  BY OnePort
<1>8. Attached(<<i, p.tensor>>) = {k}
  BY <1>5, <1>6, <1>7 DEF Attached, PortsOf
<1> QED
  BY <1>5, <1>8

----------------------------------------------------------------------------
(* The data flow                                                           *)

AllTensors == InputsOf \cup OutputsOf
PortOf     == [t \in AllTensors |-> CHOOSE k \in Attached(t) : TRUE]

\* The tensors of the session are the tensors of the ports, inputs and outputs
\* apart, each at the buffer its port names.
LEMMA TensorsAndPorts ==
  ASSUME TypeOK, CompositionAccepted
  PROVE  /\ \A t \in InputsOf : \E i \in DOMAIN stages : \E j \in DOMAIN stages[i].reads :
              /\ t = <<i, stages[i].reads[j].tensor>>
              /\ PortOf[t] \in DOMAIN buffers
              /\ buffers[PortOf[t]].name = stages[i].reads[j].buffer
         /\ \A t \in OutputsOf : \E i \in DOMAIN stages : \E j \in DOMAIN stages[i].writes :
              /\ t = <<i, stages[i].writes[j].tensor>>
              /\ PortOf[t] \in DOMAIN buffers
              /\ buffers[PortOf[t]].name = stages[i].writes[j].buffer
         /\ InputsOf \cap OutputsOf = {}
<1>1. ASSUME NEW i \in DOMAIN stages, NEW p \in PortsOf(i), <<i, p.tensor>> \in AllTensors
      PROVE  /\ PortOf[<<i, p.tensor>>] \in DOMAIN buffers
             /\ buffers[PortOf[<<i, p.tensor>>]].name = p.buffer
  <2>1. PICK k \in DOMAIN buffers : buffers[k].name = p.buffer /\ Attached(<<i, p.tensor>>) = {k}
    BY PortAttaches
  <2>2. PortOf[<<i, p.tensor>>] = k
    BY <1>1, <2>1 DEF PortOf
  <2> QED
    BY <2>1, <2>2
<1>2. ASSUME NEW t \in InputsOf
      PROVE  \E i \in DOMAIN stages : \E j \in DOMAIN stages[i].reads :
               /\ t = <<i, stages[i].reads[j].tensor>>
               /\ PortOf[t] \in DOMAIN buffers
               /\ buffers[PortOf[t]].name = stages[i].reads[j].buffer
  <2>1. PICK i \in DOMAIN stages : \E j \in DOMAIN stages[i].reads :
               t = <<i, stages[i].reads[j].tensor>>
    BY DEF InputsOf, Range
  <2>2. PICK j \in DOMAIN stages[i].reads : t = <<i, stages[i].reads[j].tensor>>
    BY <2>1
  <2>3. stages[i].reads[j] \in PortsOf(i)
    BY DEF PortsOf, Range
  <2>4. t \in AllTensors
    BY DEF AllTensors
  <2> QED
    BY <1>1, <2>2, <2>3, <2>4
<1>3. ASSUME NEW t \in OutputsOf
      PROVE  \E i \in DOMAIN stages : \E j \in DOMAIN stages[i].writes :
               /\ t = <<i, stages[i].writes[j].tensor>>
               /\ PortOf[t] \in DOMAIN buffers
               /\ buffers[PortOf[t]].name = stages[i].writes[j].buffer
  <2>1. PICK i \in DOMAIN stages : \E j \in DOMAIN stages[i].writes :
               t = <<i, stages[i].writes[j].tensor>>
    BY DEF OutputsOf, Range
  <2>2. PICK j \in DOMAIN stages[i].writes : t = <<i, stages[i].writes[j].tensor>>
    BY <2>1
  <2>3. stages[i].writes[j] \in PortsOf(i)
    BY DEF PortsOf, Range
  <2>4. t \in AllTensors
    BY DEF AllTensors
  <2> QED
    BY <1>1, <2>2, <2>3, <2>4
<1>4. InputsOf \cap OutputsOf = {}
  <2> SUFFICES ASSUME NEW t \in InputsOf, t \in OutputsOf PROVE FALSE
    OBVIOUS
  <2>1. PICK i \in DOMAIN stages : \E p \in Range(stages[i].reads) : t = <<i, p.tensor>>
    BY DEF InputsOf
  <2>2. PICK m \in DOMAIN stages : \E q \in Range(stages[m].writes) : t = <<m, q.tensor>>
    BY DEF OutputsOf
  <2>3. PICK p \in Range(stages[i].reads) : t = <<i, p.tensor>>
    BY <2>1
  <2>4. PICK q \in Range(stages[m].writes) : t = <<m, q.tensor>>
    BY <2>2
  <2>5. i = m /\ p.tensor = q.tensor
    BY <2>3, <2>4
  <2> QED
    BY <2>5, OnePort
<1> QED
  BY <1>2, <1>3, <1>4

\* A place a buffer is read or written is a tensor attached to it.
LEMMA PlacesAreTensors ==
  ASSUME TypeOK, CompositionAccepted, NEW k \in DOMAIN buffers
  PROVE  /\ \A r \in ReadsOf(buffers[k].name) :
              \E t \in InputsOf : PortOf[t] = k /\ t[1] = r[1]
         /\ \A w \in WritesOf(buffers[k].name) :
              \E t \in OutputsOf : PortOf[t] = k /\ t[1] = w[1]
<1>1. ASSUME NEW i \in DOMAIN stages, NEW p \in PortsOf(i), p.buffer = buffers[k].name,
             <<i, p.tensor>> \in AllTensors
      PROVE  PortOf[<<i, p.tensor>>] = k
  <2>1. PICK m \in DOMAIN buffers : buffers[m].name = p.buffer /\ Attached(<<i, p.tensor>>) = {m}
    BY PortAttaches
  <2>2. m = k
    BY <1>1, <2>1 DEF CompositionAccepted, NamedOnce
  <2> QED
    BY <1>1, <2>1, <2>2 DEF PortOf
<1>2. ASSUME NEW r \in ReadsOf(buffers[k].name)
      PROVE  \E t \in InputsOf : PortOf[t] = k /\ t[1] = r[1]
  <2>0. PICK i \in DOMAIN stages : \E j \in DOMAIN stages[i].reads :
          r = <<i, j>> /\ stages[i].reads[j].buffer = buffers[k].name
    BY DEF ReadsOf
  <2>1. PICK j \in DOMAIN stages[i].reads :
          r = <<i, j>> /\ stages[i].reads[j].buffer = buffers[k].name
    BY <2>0
  <2> DEFINE p == stages[i].reads[j]
  <2>2. p \in PortsOf(i)
    BY DEF PortsOf, Range
  <2>3. <<i, p.tensor>> \in InputsOf
    BY DEF InputsOf, Range
  <2>4. <<i, p.tensor>> \in AllTensors
    BY <2>3 DEF AllTensors
  <2>5. PortOf[<<i, p.tensor>>] = k
    BY <1>1, <2>1, <2>2, <2>4
  <2> QED
    BY <2>1, <2>3, <2>5
<1>3. ASSUME NEW w \in WritesOf(buffers[k].name)
      PROVE  \E t \in OutputsOf : PortOf[t] = k /\ t[1] = w[1]
  <2>0. PICK i \in DOMAIN stages : \E j \in DOMAIN stages[i].writes :
          w = <<i, j>> /\ stages[i].writes[j].buffer = buffers[k].name
    BY DEF WritesOf
  <2>1. PICK j \in DOMAIN stages[i].writes :
          w = <<i, j>> /\ stages[i].writes[j].buffer = buffers[k].name
    BY <2>0
  <2> DEFINE p == stages[i].writes[j]
  <2>2. p \in PortsOf(i)
    BY DEF PortsOf, Range
  <2>3. <<i, p.tensor>> \in OutputsOf
    BY DEF OutputsOf, Range
  <2>4. <<i, p.tensor>> \in AllTensors
    BY <2>3 DEF AllTensors
  <2>5. PortOf[<<i, p.tensor>>] = k
    BY <1>1, <2>1, <2>2, <2>4
  <2> QED
    BY <2>1, <2>3, <2>5
<1> QED
  BY <1>2, <1>3

\* What the checks of composition.cpp:283-337 come to, said of tensors: every
\* buffer is written and read, by one tensor, and read only later.
LEMMA FlowOfTensors ==
  ASSUME TypeOK, CompositionAccepted
  PROVE  /\ \A k \in DOMAIN buffers : /\ \E t \in InputsOf : PortOf[t] = k
                                      /\ \E t \in OutputsOf : PortOf[t] = k
         /\ \A t, u \in OutputsOf : PortOf[t] = PortOf[u] => t = u
         /\ \A t \in InputsOf, u \in OutputsOf : PortOf[t] = PortOf[u] => u[1] < t[1]
<1>1. \A k \in DOMAIN buffers : Flows(buffers[k].name) /\ ReadsOf(buffers[k].name) # {}
  BY DEF CompositionAccepted
<1>2. ASSUME NEW k \in DOMAIN buffers
      PROVE  (\E t \in InputsOf : PortOf[t] = k) /\ \E t \in OutputsOf : PortOf[t] = k
  <2>1. PICK r \in ReadsOf(buffers[k].name) : TRUE
    BY <1>1
  <2>2. PICK w \in WritesOf(buffers[k].name) : TRUE
    BY <1>1, <2>1 DEF Flows, ReadAfterWritten
  <2> QED
    BY <2>1, <2>2, PlacesAreTensors
<1>3. ASSUME NEW t \in OutputsOf
      PROVE  \E j : /\ t[1] \in DOMAIN stages /\ j \in DOMAIN stages[t[1]].writes
                    /\ t = <<t[1], stages[t[1]].writes[j].tensor>>
                    /\ PortOf[t] \in DOMAIN buffers
                    /\ <<t[1], j>> \in WritesOf(buffers[PortOf[t]].name)
  <2>1. PICK i \in DOMAIN stages : \E j \in DOMAIN stages[i].writes :
              /\ t = <<i, stages[i].writes[j].tensor>>
              /\ PortOf[t] \in DOMAIN buffers
              /\ buffers[PortOf[t]].name = stages[i].writes[j].buffer
    BY TensorsAndPorts
  <2>2. PICK j \in DOMAIN stages[i].writes :
              /\ t = <<i, stages[i].writes[j].tensor>>
              /\ PortOf[t] \in DOMAIN buffers
              /\ buffers[PortOf[t]].name = stages[i].writes[j].buffer
    BY <2>1
  <2>3. t[1] = i
    BY <2>2
  <2>4. <<i, j>> \in WritesOf(buffers[PortOf[t]].name)
    BY <2>2 DEF WritesOf
  <2> QED
    BY <2>2, <2>3, <2>4
<1>4. ASSUME NEW t \in OutputsOf, NEW u \in OutputsOf, PortOf[t] = PortOf[u]
      PROVE  t = u
  <2>1. PICK j : /\ j \in DOMAIN stages[t[1]].writes
                 /\ t = <<t[1], stages[t[1]].writes[j].tensor>>
                 /\ PortOf[t] \in DOMAIN buffers
                 /\ <<t[1], j>> \in WritesOf(buffers[PortOf[t]].name)
    BY <1>3
  <2>2. PICK m : /\ m \in DOMAIN stages[u[1]].writes
                 /\ u = <<u[1], stages[u[1]].writes[m].tensor>>
                 /\ <<u[1], m>> \in WritesOf(buffers[PortOf[u]].name)
    BY <1>3
  <2>3. <<t[1], j>> = <<u[1], m>>
    BY <1>1, <1>4, <2>1, <2>2 DEF Flows
  <2>4. t[1] = u[1] /\ j = m
    BY <2>3
  <2> QED
    BY <2>1, <2>2, <2>4
<1>5. ASSUME NEW t \in InputsOf, NEW u \in OutputsOf, PortOf[t] = PortOf[u]
      PROVE  u[1] < t[1]
  <2>1. PICK i \in DOMAIN stages : \E j \in DOMAIN stages[i].reads :
              /\ t = <<i, stages[i].reads[j].tensor>>
              /\ PortOf[t] \in DOMAIN buffers
              /\ buffers[PortOf[t]].name = stages[i].reads[j].buffer
    BY TensorsAndPorts
  <2>2. PICK j \in DOMAIN stages[i].reads :
              /\ t = <<i, stages[i].reads[j].tensor>>
              /\ PortOf[t] \in DOMAIN buffers
              /\ buffers[PortOf[t]].name = stages[i].reads[j].buffer
    BY <2>1
  <2>3. <<i, j>> \in ReadsOf(buffers[PortOf[t]].name) /\ t[1] = i
    BY <2>2 DEF ReadsOf
  <2>4. PICK w \in WritesOf(buffers[PortOf[t]].name) : w[1] < <<i, j>>[1]
    BY <1>1, <2>2, <2>3 DEF Flows, ReadAfterWritten
  <2>5. PICK m : <<u[1], m>> \in WritesOf(buffers[PortOf[t]].name)
    BY <1>3, <1>5
  <2>6. w = <<u[1], m>>
    BY <1>1, <2>2, <2>5 DEF Flows
  <2> QED
    BY <2>3, <2>4, <2>6
<1> QED
  BY <1>2, <1>4, <1>5

LEMMA AcceptedIsWellWired == TypeOK => BuiltIsWellWired
<1> SUFFICES ASSUME TypeOK, CompositionAccepted PROVE W!WellWired
  BY DEF BuiltIsWellWired, Accepted
<1>1. W!Buffer = DOMAIN buffers
  BY DEF W!Buffer, TypeOK
<1>2. W!Output = OutputsOf
  BY TensorsAndPorts DEF W!Output
<1>3. \A b : W!Readers(b) = {t \in InputsOf : PortOf[t] = b}
  BY DEF W!Readers, PortOf, AllTensors
<1>4. \A b : W!WriterOf(b) = CHOOSE t \in OutputsOf : PortOf[t] = b
  BY <1>2 DEF W!WriterOf, PortOf, AllTensors
<1>5. ASSUME NEW t \in InputsOf, NEW u \in OutputsOf, PortOf[u] = PortOf[t]
      PROVE  W!ProducerOf(PortOf[t]) = u[1]
  <2>1. W!WriterOf(PortOf[t]) = u
    BY <1>4, <1>5, FlowOfTensors
  <2> QED
    BY <2>1 DEF W!ProducerOf
<1>6. \A b \in W!Buffer : W!Readers(b) # {} /\ \E t \in W!Output : PortOf[t] = b
  BY <1>1, <1>2, <1>3, FlowOfTensors
<1>7. \A t, u \in W!Output : PortOf[t] = PortOf[u] => t = u
  BY <1>2, FlowOfTensors
<1>8. ASSUME NEW t \in InputsOf
      PROVE  W!ProducerOf(PortOf[t]) < t[1]
  <2>1. PortOf[t] \in DOMAIN buffers
    BY TensorsAndPorts
  <2>2. PICK u \in OutputsOf : PortOf[u] = PortOf[t]
    BY <2>1, FlowOfTensors
  <2>3. u[1] < t[1]
    BY <2>2, FlowOfTensors
  <2> QED
    BY <1>5, <2>2, <2>3
<1> QED
  BY <1>6, <1>7, <1>8 DEF W!WellWired, PortOf, AllTensors

\* What validate accepts, however it was assembled, is a composition every
\* buffer of which has one writer and a reader and is read only after it was
\* written (composition.cpp:283-337): what module Session assumes.
THEOREM AcceptedRunsInOrder == Spec => []BuiltIsWellWired
  BY BuilderTypes, AcceptedIsWellWired, PTL

----------------------------------------------------------------------------
(* What runs a stage                                                       *)

LEMMA NoFormOnTheCpu ==
  ASSUME NEW n, NEW d \in Device, d.family = NoFamily
  PROVE  Forms(n, d) = {}
  BY DEF Forms

LEMMA PortableIsEverywhere == PortableMeansEverywhere
<1>1. ASSUME Portable, NEW d \in Device PROVE Loads(d)
  <2>1. Runnable(d)
    BY <1>1 DEF Portable, Runnable
  <2>2. \A i \in DOMAIN Plan : Built(Plan[i], d) = {[block |-> Onnx, launch |-> None]}
    BY <1>1 DEF Portable, Built
  <2> QED
    BY <2>1, <2>2 DEF Loads
<1>2. ASSUME \A d \in Device : Loads(d) PROVE Portable
  <2>1. PICK d \in Device : d.family = NoFamily
    BY BuilderAssumption
  <2>2. Runnable(d)
    BY <1>2 DEF Loads
  <2> QED
    BY <2>1, <2>2, NoFormOnTheCpu DEF Runnable, Portable
<1> QED
  BY <1>1, <1>2 DEF PortableMeansEverywhere

\* A package build() accepts loads on every device exactly when is_portable
\* says so (package.cpp:262-268, 316-319).
THEOREM PortableLoadsEverywhere == Spec => []PortableMeansEverywhere
  BY PortableIsEverywhere, PTL

\* Every compiled stage of a session is called through a launch for the form
\* that was selected.  Nothing of the package changes under a session.
LaunchesFit ==
  session # None => \A i \in DOMAIN session.code :
    session.code[i].block # Onnx =>
      session.code[i].launch \in LaunchesFor(stages[i], session.code[i].block)

LEMMA LaunchesFitInductive == LaunchesFit /\ [Next]_vars => LaunchesFit'
<1> SUFFICES ASSUME LaunchesFit, [Next]_vars, session' # None PROVE LaunchesFit'
  BY DEF LaunchesFit
<1>1. ASSUME NEW d \in Device, Load(d)
      PROVE  LaunchesFit'
  <2>1. /\ DOMAIN session'.code = DOMAIN Plan
        /\ \A i \in DOMAIN Plan : session'.code[i] \in Built(Plan[i], d)
    BY <1>1 DEF Load
  <2>2. ASSUME NEW i \in DOMAIN Plan, session'.code[i].block # Onnx
        PROVE  session'.code[i].launch \in LaunchesFor(stages[i], session'.code[i].block)
    <3>1. session'.code[i] \in {[block |-> Selected(Plan[i].name, d), launch |-> l] :
             l \in IF Composed THEN LaunchesFor(Plan[i], Selected(Plan[i].name, d)) ELSE {}}
      <4>1. session'.code[i] \in Built(Plan[i], d)
        BY <2>1, <2>2
      <4>2. ~HasGraph(Plan[i].name)
        <5> SUFFICES ASSUME HasGraph(Plan[i].name) PROVE FALSE
          OBVIOUS
        <5>1. session'.code[i] = [block |-> Onnx, launch |-> None]
          BY <4>1 DEF Built
        <5> QED
          BY <2>2, <5>1
      <4> QED
        BY <4>1, <4>2 DEF Built
    <3>2. Composed /\ session'.code[i].launch \in LaunchesFor(Plan[i], session'.code[i].block)
      BY <3>1
    <3> QED
      BY <3>2 DEF Plan
  <2>3. stages' = stages
    BY <1>1 DEF Load
  <2> QED
    BY <2>1, <2>2, <2>3 DEF LaunchesFit, LaunchesFor
<1>2. CASE UNCHANGED vars
  BY <1>2 DEF vars, LaunchesFit, LaunchesFor
<1>3. CASE Next /\ ~\E d \in Device : Load(d)
  <2>1. (session' = session /\ session = None) \/ session' = None
    BY <1>3 DEF Next, AddBlock, AddBuffer, AddStage, AddRead, AddWrite, AddLaunch,
                SetWeights, Amends, Close
  <2> QED
    BY <2>1
<1> QED
  BY <1>1, <1>2, <1>3

LEMMA FittingLaunch == LaunchesFit => LaunchIsOfTheForm
<1> SUFFICES ASSUME LaunchesFit, session # None, NEW i \in DOMAIN session.code,
                    session.code[i].block # Onnx
             PROVE  LET c == session.code[i]
                    IN  /\ c.launch.kind = c.block.kind
                        /\ c.launch.arch # c.block.arch =>
                             /\ c.launch.arch = AnyArch
                             /\ \A l \in Range(stages[i].launches) :
                                  <<l.kind, l.arch>> # <<c.block.kind, c.block.arch>>
  BY DEF LaunchIsOfTheForm
<1> DEFINE c == session.code[i]
           of(a) == {l \in Range(stages[i].launches) : l.kind = c.block.kind /\ l.arch = a}
<1>1. c.launch \in IF of(c.block.arch) # {} THEN of(c.block.arch) ELSE of(AnyArch)
  BY DEF LaunchesFit, LaunchesFor
<1> HIDE DEF c
<1>2. CASE of(c.block.arch) # {}
  BY <1>1, <1>2 DEF c
<1>3. CASE of(c.block.arch) = {}
  <2>1. c.launch \in of(AnyArch)
    BY <1>1, <1>3
  <2>2. \A l \in Range(stages[i].launches) : ~(l.kind = c.block.kind /\ l.arch = c.block.arch)
    BY <1>3
  <2> QED
    BY <2>1, <2>2 DEF c
<1> QED
  BY <1>2, <1>3

\* A compiled stage is called through the launch of the form selected for the
\* device where the stage has one, a portable one of the same kind otherwise
\* (onnx.cpp:544-558, composition.cpp:169-180).
THEOREM SelectedFormIsLaunched == Spec => []LaunchIsOfTheForm
<1>1. Init => LaunchesFit
  BY DEF Init, LaunchesFit
<1> QED
  BY <1>1, LaunchesFitInductive, FittingLaunch, PTL DEF Spec

----------------------------------------------------------------------------
(* A package file                                                          *)

\* What can stand in the file: what was found in it, what write puts into it
\* and the zeros of a gap.
Token ==
  (UNION {ToSet(f) : f \in Found}) \cup (UNION {ToSet(Bytes(k)) : k \in {q \in Known : Valid(q)}})
    \cup {Txt("gap")}

OneOf(offers) == offers \cup {Refused}
SignedIn(tokens) == Signed(tokens) \in OneOf(offered)

Shapes ==
  /\ file \in Seq(Token)
  /\ pc \in [Proc -> {"idle", "write", "read"}]
  /\ wants \in [Proc -> OneOf(Known)]
  /\ data \in [Proc -> Seq(Token)]
  /\ at \in [Proc -> Nat]
  /\ offered \subseteq Known
  /\ heard \in [Proc -> OneOf(offered)]
  /\ alone \subseteq Writing /\ quiet \subseteq Reading

\* The stream of a process: a writer's is at some offset of the bytes of the
\* package it was handed, a reader's at the end of what it has read.
StreamOf(p) ==
  /\ pc[p] = "idle" => data[p] = <<>> /\ at[p] = 0
  /\ pc[p] = "write" => /\ wants[p] \in offered /\ Valid(wants[p])
                        /\ data[p] = Bytes(wants[p]) /\ at[p] <= Len(data[p])
  /\ pc[p] # "write" => wants[p] = Refused
  /\ pc[p] = "read" => at[p] = Len(data[p])
Streams == \A p \in Proc : StreamOf(p)

\* Whatever was overlapped, broken off or torn, the digest in the file and in
\* what is being read of it was made of a package somebody handed over.
NeverForged == SignedIn(file) /\ \A p \in Proc : SignedIn(data[p])

\* A writer nobody has overlapped has written a prefix; a reader nobody has
\* written during has read one.
Undisturbed ==
  /\ \A p \in alone : Writing = {p} /\ file = SubSeq(data[p], 1, at[p])
  /\ \A p \in quiet : Writing = {} /\ data[p] = SubSeq(file, 1, at[p]) /\ at[p] <= Len(file)

FileInv == Shapes /\ Streams /\ holds = Read(file) /\ NeverForged /\ Undisturbed

----------------------------------------------------------------------------
(* What the codec makes of a file                                          *)

\* A reader that has thrown yields nothing.
LEMMA NothingOfAFailure ==
  ASSUME NEW s, s.ok = FALSE
  PROVE  ReadParts(s) = Refused
  BY Zenon DEF ReadParts

\* What reads at all is what its digest was made of (v1.cpp:140-179).
LEMMA ReadIsSigned ==
  ASSUME NEW tokens
  PROVE  Read(tokens) \in {Signed(tokens), Refused}
<1> DEFINE body == SubSeq(tokens, HeaderLen + 1, Len(tokens))
<1>1. CASE Intact(tokens, body)
  <2>1. Split(tokens) = SplitBody(body)
    BY <1>1, Zenon DEF Split
  <2>2. Len(tokens) >= HeaderLen /\ tokens[3] = Raw(body)
    BY <1>1, Zenon DEF Intact, Digest
  <2> HIDE DEF body
  <2>3. Raw(body)[2] = body
    BY DEF Raw
  <2>4. Signed(tokens) = ReadParts(SplitBody(body))
    BY <2>2, <2>3, Zenon DEF Signed
  <2> QED
    BY <2>1, <2>4, Zenon DEF Read
<1>2. CASE ~Intact(tokens, body)
  <2>1. Split(tokens) = Fail(Reader(<<>>))
    BY <1>2, Zenon DEF Split
  <2>2. Fail(Reader(<<>>)).ok = FALSE
    BY DEF Fail, Reader
  <2>3. ReadParts(Split(tokens)) = Refused
    BY <2>1, <2>2, NothingOfAFailure, Zenon
  <2> QED
    BY <2>3, Zenon DEF Read
<1> QED
  BY <1>1, <1>2

\* The digest is one token, the third.
LEMMA SignedByTheThird ==
  ASSUME NEW one, NEW other, Len(one) \in Nat, Len(other) \in Nat,
         Len(one) >= HeaderLen => Len(other) >= HeaderLen /\ one[3] = other[3]
  PROVE  Signed(one) \in {Signed(other), Refused}
<1>1. CASE Len(one) >= HeaderLen
  BY <1>1, Zenon DEF Signed
<1>2. CASE ~(Len(one) >= HeaderLen)
  BY <1>2, Zenon DEF Signed
<1> QED
  BY <1>1, <1>2

LEMMA UnsignedGap ==
  ASSUME NEW tokens, tokens[3] = Txt("gap")
  PROVE  Signed(tokens) = Refused
<1>1. Txt("gap") # Raw(Txt("gap")[2])
  BY DEF Txt, Raw
<1> QED
  BY <1>1, Zenon DEF Signed

\* Writing, reading and losing the end of the file move tokens and make none
\* up but the zeros of a gap (package.cpp:357-395).
LEMMA PartOfASequence ==
  ASSUME NEW T, NEW s \in Seq(T), NEW from \in Nat, NEW to \in Nat, to <= Len(s)
  PROVE  /\ SubSeq(s, from + 1, to) \in Seq(T)
         /\ Len(SubSeq(s, from + 1, to)) = IF from <= to THEN to - from ELSE 0
         /\ \A i \in 1..to - from : SubSeq(s, from + 1, to)[i] = s[from + i]
  OBVIOUS

LEMMA UptoLimits ==
  ASSUME NEW T, NEW s \in Seq(T), NEW n \in Nat
  PROVE  Upto(s, n) \in 0..Len(s) /\ Upto(s, n) <= n /\ (n <= Len(s) => Upto(s, n) = n)
  BY DEF Upto

LEMMA OverlayTokens ==
  ASSUME NEW T, Txt("gap") \in T, NEW old \in Seq(T), NEW from \in Nat, NEW tokens \in Seq(T)
  PROVE  /\ Overlay(old, from, tokens) \in Seq(T)
         /\ Len(Overlay(old, from, tokens)) =
              IF Len(old) > from + Len(tokens) THEN Len(old) ELSE from + Len(tokens)
         /\ \A i \in 1..Len(Overlay(old, from, tokens)) :
              Overlay(old, from, tokens)[i] =
                IF i \in from + 1..from + Len(tokens) THEN tokens[i - from]
                ELSE IF i <= Len(old) THEN old[i] ELSE Txt("gap")
  BY DEF Overlay

LEMMA TokensOfASequence ==
  ASSUME NEW T, NEW s \in Seq(T)
  PROVE  s \in Seq(ToSet(s))
  BY DEF ToSet

LEMMA MoreTokens ==
  ASSUME NEW S, NEW T, S \subseteq T, NEW s \in Seq(S)
  PROVE  s \in Seq(T)
  OBVIOUS

LEMMA FoundTokens == \A f \in Found : f \in Seq(Token)
<1> SUFFICES ASSUME NEW f \in Found PROVE f \in Seq(Token)
  OBVIOUS
<1>1. f \in Seq(ToSet(f))
  BY ContainerAssumption
<1>2. ToSet(f) \subseteq Token
  BY Zenon DEF Token
<1> QED
  BY <1>1, <1>2, MoreTokens

\* What write makes of a package is read as that package, and its digest was
\* made of it.
LEMMA BytesOfAPackage ==
  ASSUME RoundTrips, NEW k \in Known, Valid(k)
  PROVE  Bytes(k) \in Seq(Token) /\ Read(Bytes(k)) = k /\ Signed(Bytes(k)) = k
<1>1. Body(k) \in Seq(ToSet(Body(k))) /\ Read(Bytes(k)) = k
  BY Zenon DEF RoundTrips
<1>2. Bytes(k) \in Seq(ToSet(Bytes(k)))
  <2> DEFINE body == Body(k)
             all == ToSet(body) \cup {Magic, V1, Digest(body)}
  <2>1. <<Magic, V1, Digest(body)>> \in Seq(all)
    <3> HIDE DEF body
    <3> QED
      OBVIOUS
  <2>2. body \in Seq(all)
    <3>1. ToSet(body) \subseteq all
      OBVIOUS
    <3> QED
      BY <1>1, <3>1, MoreTokens
  <2>3. Bytes(k) = <<Magic, V1, Digest(body)>> \o body
    BY Zenon DEF Bytes
  <2> HIDE DEF body, all
  <2>4. <<Magic, V1, Digest(body)>> \o body \in Seq(all)
    BY <2>1, <2>2
  <2> QED
    BY <2>3, <2>4, TokensOfASequence
<1>3. ToSet(Bytes(k)) \subseteq Token
  BY Zenon DEF Token
<1>4. Bytes(k) \in Seq(Token)
  BY <1>2, <1>3, MoreTokens
<1>5. k # Refused
  BY Zenon DEF Known
<1>6. Read(Bytes(k)) \in {Signed(Bytes(k)), Refused}
  BY ReadIsSigned
<1> QED
  BY <1>1, <1>4, <1>5, <1>6, Zenon

LEMMA GapToken == Txt("gap") \in Token
  BY Zenon DEF Token

LEMMA EmptyFile == Signed(<<>>) = Refused /\ Read(<<>>) = Refused
<1>1. Signed(<<>>) = Refused
  <2>1. ~(Len(<<>>) >= HeaderLen)
    BY DEF HeaderLen
  <2> QED
    BY <2>1, Zenon DEF Signed
<1> QED
  BY <1>1, ReadIsSigned

LEMMA ReadOfTheOffered ==
  ASSUME NEW tokens, NEW offers, Signed(tokens) \in OneOf(offers)
  PROVE  Read(tokens) \in OneOf(offers)
  BY ReadIsSigned DEF OneOf

\* Whatever is lost, written over or left out, the digest is that of the file
\* before or of what is written, or of nothing.
LEMMA TornIsSigned ==
  ASSUME NEW T, NEW s \in Seq(T), NEW n \in 0..Len(s)
  PROVE  /\ SubSeq(s, 1, n) \in Seq(T)
         /\ Signed(SubSeq(s, 1, n)) \in {Signed(s), Refused}
<1> DEFINE torn == SubSeq(s, 1, n)
<1>1. torn \in Seq(T) /\ Len(torn) = n
  OBVIOUS
<1>2. n >= 3 => torn[3] = s[3]
  OBVIOUS
<1> HIDE DEF torn
<1>3. Signed(torn) \in {Signed(s), Refused}
  BY <1>1, <1>2, SignedByTheThird DEF HeaderLen
<1> QED
  BY <1>1, <1>3 DEF torn

LEMMA OverlaidIsSigned ==
  ASSUME NEW T, Txt("gap") \in T, NEW old \in Seq(T), NEW whole \in Seq(T),
         NEW from \in 0..Len(whole), NEW to \in from..Len(whole)
  PROVE  /\ Overlay(old, from, SubSeq(whole, from + 1, to)) \in Seq(T)
         /\ Signed(Overlay(old, from, SubSeq(whole, from + 1, to)))
              \in {Signed(old), Signed(whole), Refused}
<1> DEFINE chunk == SubSeq(whole, from + 1, to)
           new == Overlay(old, from, chunk)
<1>1. /\ chunk \in Seq(T)
      /\ Len(chunk) = to - from
      /\ \A i \in 1..to - from : chunk[i] = whole[from + i]
  BY PartOfASequence
<1>2. /\ new \in Seq(T)
      /\ Len(new) = IF Len(old) > to THEN Len(old) ELSE to
      /\ \A i \in 1..Len(new) :
           new[i] = IF i \in from + 1..to THEN chunk[i - from]
                    ELSE IF i <= Len(old) THEN old[i] ELSE Txt("gap")
  <2> HIDE DEF chunk
  <2> QED
    BY <1>1, OverlayTokens
<1> HIDE DEF chunk, new
<1>3. CASE Len(new) >= 3
  <2>1. CASE 3 \in from + 1..to
    <3>1. new[3] = whole[3] /\ Len(whole) >= 3
      BY <1>1, <1>2, <1>3, <2>1
    <3> QED
      BY <1>2, <1>3, <3>1, SignedByTheThird DEF HeaderLen, new, chunk
  <2>2. CASE 3 \notin from + 1..to /\ 3 <= Len(old)
    <3>1. new[3] = old[3]
      BY <1>2, <1>3, <2>2
    <3> QED
      BY <1>2, <1>3, <2>2, <3>1, SignedByTheThird DEF HeaderLen, new, chunk
  <2>3. CASE 3 \notin from + 1..to /\ ~(3 <= Len(old))
    <3>1. new[3] = Txt("gap")
      BY <1>2, <1>3, <2>3
    <3> QED
      BY <1>2, <3>1, UnsignedGap DEF new, chunk
  <2> QED
    BY <2>1, <2>2, <2>3
<1>4. CASE ~(Len(new) >= 3)
  BY <1>2, <1>4, SignedByTheThird DEF HeaderLen, new, chunk
<1> QED
  BY <1>3, <1>4

LEMMA ContinuedIsSigned ==
  ASSUME NEW T, NEW s \in Seq(T), NEW old \in Seq(T), NEW to \in Len(s)..Len(old)
  PROVE  /\ s \o SubSeq(old, Len(s) + 1, to) \in Seq(T)
         /\ Len(s \o SubSeq(old, Len(s) + 1, to)) = to
         /\ Signed(s \o SubSeq(old, Len(s) + 1, to)) \in {Signed(s), Signed(old), Refused}
         /\ s = SubSeq(old, 1, Len(s)) => s \o SubSeq(old, Len(s) + 1, to) = SubSeq(old, 1, to)
<1> DEFINE n == Len(s)
           more == SubSeq(old, n + 1, to)
           all == s \o more
<1>1. n \in Nat /\ to \in n..Len(old) /\ Len(old) \in Nat
  OBVIOUS
<1>2. /\ more \in Seq(T)
      /\ Len(more) = to - n
      /\ \A i \in 1..to - n : more[i] = old[n + i]
  <2> HIDE DEF n
  <2> QED
    BY <1>1, PartOfASequence
<1> HIDE DEF more
<1>3. /\ all \in Seq(T)
      /\ Len(all) = to
      /\ \A i \in 1..to : all[i] = IF i <= n THEN s[i] ELSE old[i]
  <2>1. all \in Seq(T) /\ Len(all) = n + (to - n)
    BY <1>1, <1>2
  <2>2. \A i \in 1..to : all[i] = IF i <= n THEN s[i] ELSE more[i - n]
    BY <1>1, <1>2
  <2>3. \A i \in 1..to : i > n => i - n \in 1..to - n /\ n + (i - n) = i
    BY <1>1
  <2> HIDE DEF n, all
  <2>4. \A i \in 1..to : i > n => more[i - n] = old[i]
    BY <1>2, <2>3
  <2>5. Len(all) = to
    BY <1>1, <2>1
  <2>6. ASSUME NEW i \in 1..to PROVE all[i] = IF i <= n THEN s[i] ELSE old[i]
    <3>1. CASE i <= n
      BY <2>2, <3>1
    <3>2. CASE i > n
      BY <1>1, <2>2, <2>4, <3>2
    <3> QED
      BY <1>1, <3>1, <3>2
  <2> QED
    BY <2>1, <2>5, <2>6
<1> HIDE DEF all
<1>4. Signed(all) \in {Signed(s), Signed(old), Refused}
  <2>1. CASE to >= 3 /\ n >= 3
    BY <1>1, <1>3, <2>1, SignedByTheThird DEF HeaderLen
  <2>2. CASE to >= 3 /\ ~(n >= 3)
    BY <1>1, <1>3, <2>2, SignedByTheThird DEF HeaderLen
  <2>3. CASE ~(to >= 3)
    BY <1>1, <1>3, <2>3, SignedByTheThird DEF HeaderLen
  <2> QED
    BY <2>1, <2>2, <2>3
<1>5. ASSUME s = SubSeq(old, 1, n) PROVE all = SubSeq(old, 1, to)
  <2>1. \A i \in 1..n : s[i] = old[i]
    BY <1>1, <1>5
  <2>2. SubSeq(old, 1, to) \in Seq(T) /\ Len(SubSeq(old, 1, to)) = to
    BY <1>1
  <2>3. \A i \in 1..to : SubSeq(old, 1, to)[i] = old[i]
    BY <1>1
  <2>4. \A i \in 1..to : all[i] = old[i]
    BY <1>1, <1>3, <2>1
  <2> QED
    BY <1>3, <2>2, <2>3, <2>4, SeqEqual
<1> QED
  BY <1>3, <1>4, <1>5 DEF all, more

\* A writer that has written a prefix of its bytes goes on with the next.
LEMMA PrefixGrows ==
  ASSUME NEW T, Txt("gap") \in T, NEW whole \in Seq(T),
         NEW from \in 0..Len(whole), NEW to \in from..Len(whole)
  PROVE  Overlay(SubSeq(whole, 1, from), from, SubSeq(whole, from + 1, to)) = SubSeq(whole, 1, to)
<1> DEFINE old == SubSeq(whole, 1, from)
           chunk == SubSeq(whole, from + 1, to)
           new == Overlay(old, from, chunk)
           wanted == SubSeq(whole, 1, to)
<1>1. /\ chunk \in Seq(T) /\ Len(chunk) = to - from
      /\ \A i \in 1..to - from : chunk[i] = whole[from + i]
  BY PartOfASequence
<1>2. old \in Seq(T) /\ Len(old) = from /\ \A i \in 1..from : old[i] = whole[i]
  OBVIOUS
<1>3. wanted \in Seq(T) /\ Len(wanted) = to /\ \A i \in 1..to : wanted[i] = whole[i]
  OBVIOUS
<1> HIDE DEF old, chunk, wanted
<1>4. /\ new \in Seq(T)
      /\ Len(new) = to
      /\ \A i \in 1..to :
           new[i] = IF i \in from + 1..to THEN chunk[i - from]
                    ELSE IF i <= from THEN old[i] ELSE Txt("gap")
  <2>1. Len(old) = from /\ from + Len(chunk) = to /\ from \in Nat /\ ~(from > to)
    BY <1>1, <1>2
  <2> QED
    BY <1>1, <1>2, <2>1, OverlayTokens
<1> HIDE DEF new
<1>5. ASSUME NEW i \in 1..to PROVE new[i] = wanted[i]
  <2>1. CASE i <= from
    BY <1>2, <1>3, <1>4, <2>1
  <2>2. CASE i > from
    <3>1. i - from \in 1..to - from /\ from + (i - from) = i /\ i \in from + 1..to
      BY <2>2
    <3>2. chunk[i - from] = whole[i]
      BY <1>1, <3>1
    <3> QED
      BY <1>3, <1>4, <3>1, <3>2
  <2> QED
    BY <2>1, <2>2
<1>6. new = wanted
  BY <1>3, <1>4, <1>5, SeqEqual
<1> QED
  BY <1>6 DEF new, wanted, old, chunk

----------------------------------------------------------------------------
(* The calls                                                               *)

\* Packages a producer hands over, or read out of the file before.
LEMMA HandedOver ==
  ASSUME Shapes
  PROVE  /\ Packages \subseteq Known
         /\ \A p \in Proc : heard[p] # Refused => heard[p] \in Known
<1>1. Packages \subseteq Known
  BY ContainerAssumption, Zenon DEF Known
<1>2. ASSUME NEW p \in Proc, heard[p] # Refused PROVE heard[p] \in Known
  BY <1>2 DEF Shapes, OneOf
<1> QED
  BY <1>1, <1>2

LEMMA FileInitInv == FileInit => FileInv
<1> SUFFICES ASSUME FileInit PROVE FileInv
  OBVIOUS
<1>1. Signed(file) \in OneOf(offered)
  BY DEF FileInit, OneOf
<1>2. offered \subseteq Known
  BY Zenon DEF FileInit, Known
<1>3. file \in Seq(Token)
  BY FoundTokens DEF FileInit
<1>4. Shapes
  BY <1>2, <1>3 DEF FileInit, Shapes, OneOf
<1>5. Streams
  BY DEF FileInit, Streams, StreamOf
<1>6. NeverForged
  BY <1>1, EmptyFile DEF FileInit, NeverForged, SignedIn, OneOf
<1>7. Undisturbed
  BY DEF FileInit, Undisturbed
<1>8. holds = Read(file)
  BY DEF FileInit
<1> QED
  BY <1>4, <1>5, <1>6, <1>7, <1>8 DEF FileInv

LEMMA OpenForWritingInv ==
  ASSUME RoundTrips, FileInv, NEW p \in Proc, NEW k \in Known, OpenForWriting(p, k)
  PROVE  FileInv'
<1>1. /\ Valid(k) /\ k # Refused /\ k \in offered'
      /\ Bytes(k) \in Seq(Token) /\ Signed(Bytes(k)) = k
  <2>1. Valid(k) /\ k \in offered'
    BY DEF OpenForWriting, Writable
  <2>2. k # Refused
    BY Zenon DEF Known
  <2> QED
    BY <2>1, <2>2, BytesOfAPackage
<1>2. Shapes /\ Streams /\ NeverForged
  BY DEF FileInv
<1>3. OneOf(offered) \subseteq OneOf(offered') /\ Refused \in OneOf(offered')
  BY DEF OpenForWriting, OneOf
<1>4. Shapes'
  <2>1. file' \in Seq(Token) /\ pc' \in [Proc -> {"idle", "write", "read"}] /\ at' \in [Proc -> Nat]
    BY <1>2 DEF OpenForWriting, Shapes
  <2>2. wants' \in [Proc -> OneOf(Known)] /\ data' \in [Proc -> Seq(Token)]
    BY <1>1, <1>2 DEF OpenForWriting, Shapes, OneOf
  <2>3. offered' \subseteq Known /\ heard' \in [Proc -> OneOf(offered')]
    BY <1>2, <1>3 DEF OpenForWriting, Shapes
  <2>4. alone' \subseteq Writing' /\ quiet' \subseteq Reading'
    BY <1>2 DEF OpenForWriting, Shapes, Writing
  <2> QED
    BY <2>1, <2>2, <2>3, <2>4 DEF Shapes
<1>5. Streams'
  <2> SUFFICES ASSUME NEW q \in Proc PROVE StreamOf(q)'
    BY DEF Streams
  <2>1. CASE q = p
    <3>1. /\ pc'[p] = "write" /\ wants'[p] = k /\ data'[p] = Bytes(k) /\ at'[p] = 0
      BY <1>2 DEF OpenForWriting, Shapes
    <3>2. 0 <= Len(Bytes(k))
      BY <1>1
    <3> QED
      BY <1>1, <2>1, <3>1, <3>2 DEF StreamOf
  <2>2. CASE q # p
    <3>1. pc'[q] = pc[q] /\ wants'[q] = wants[q] /\ data'[q] = data[q] /\ at'[q] = at[q]
      BY <1>2, <2>2 DEF OpenForWriting, Shapes
    <3> QED
      BY <1>2, <3>1 DEF OpenForWriting, StreamOf, Streams
  <2> QED
    BY <2>1, <2>2
<1>6. NeverForged'
  <2>1. SignedIn(file)'
    BY <1>3, EmptyFile DEF OpenForWriting, SignedIn
  <2>2. ASSUME NEW q \in Proc PROVE SignedIn(data[q])'
    <3>1. CASE q = p
      BY <1>1, <1>2, <1>3, <3>1 DEF OpenForWriting, Shapes, SignedIn, OneOf
    <3>2. CASE q # p
      <4>1. data'[q] = data[q]
        BY <1>2, <3>2 DEF OpenForWriting, Shapes
      <4> QED
        BY <1>2, <1>3, <4>1 DEF NeverForged, SignedIn
    <3> QED
      BY <3>1, <3>2
  <2> QED
    BY <2>1, <2>2 DEF NeverForged
<1>7. Undisturbed'
  <2>1. ASSUME NEW q \in alone' PROVE Writing' = {q} /\ file' = SubSeq(data'[q], 1, at'[q])
    <3>1. q = p /\ Writing = {}
      BY <2>1 DEF OpenForWriting
    <3>2. Writing' = {p}
      BY <1>2, <3>1 DEF OpenForWriting, Writing, Shapes
    <3>3. data'[p] = Bytes(k) /\ at'[p] = 0 /\ file' = <<>>
      BY <1>2 DEF OpenForWriting, Shapes
    <3>4. SubSeq(Bytes(k), 1, 0) = <<>>
      BY <1>1
    <3> QED
      BY <3>1, <3>2, <3>3, <3>4
  <2>2. quiet' = {}
    BY DEF OpenForWriting
  <2> QED
    BY <2>1, <2>2 DEF Undisturbed
<1>8. (holds = Read(file))'
  BY EmptyFile DEF OpenForWriting
<1> QED
  BY <1>4, <1>5, <1>6, <1>7, <1>8 DEF FileInv

LEMMA WriteChunkInv ==
  ASSUME RoundTrips, FileInv, NEW p \in Proc, WriteChunk(p)
  PROVE  FileInv'
<1> DEFINE to == Upto(data[p], at[p] + Chunk)
<1>1. Shapes /\ Streams /\ NeverForged /\ Undisturbed
  BY DEF FileInv
<1>2. /\ pc[p] = "write" /\ data[p] \in Seq(Token) /\ at[p] \in 0..Len(data[p]) /\ file \in Seq(Token)
      /\ at \in [Proc -> Nat]
  BY <1>1 DEF WriteChunk, Shapes, Streams, StreamOf
<1>3. to \in at[p]..Len(data[p])
  <2>1. Chunk \in Nat
    BY ContainerAssumption
  <2>2. at[p] + Chunk \in Nat /\ at[p] + Chunk >= at[p]
    BY <1>2, <2>1
  <2> QED
    BY <1>2, <2>2 DEF Upto
<1> HIDE DEF to
<1>4. NextChunk(p) = SubSeq(data[p], at[p] + 1, to) /\ Len(NextChunk(p)) = to - at[p]
  <2>1. NextChunk(p) = SubSeq(data[p], at[p] + 1, to)
    BY DEF NextChunk, to
  <2>2. Len(SubSeq(data[p], at[p] + 1, to)) = to - at[p]
    BY <1>2, <1>3, PartOfASequence
  <2> QED
    BY <2>1, <2>2
<1>5. /\ file' = Overlay(file, at[p], SubSeq(data[p], at[p] + 1, to))
      /\ at' = [at EXCEPT ![p] = to]
      /\ holds' = Read(file')
      /\ UNCHANGED <<pc, wants, data, heard, offered, alone, quiet>>
  <2>1. at[p] + (to - at[p]) = to
    BY <1>2, <1>3
  <2> QED
    BY <1>4, <2>1 DEF WriteChunk
<1>6. file' \in Seq(Token) /\ Signed(file') \in {Signed(file), Signed(data[p]), Refused}
  BY <1>2, <1>3, <1>5, GapToken, OverlaidIsSigned
<1>7. Shapes'
  <2>1. at' \in [Proc -> Nat]
    BY <1>2, <1>3, <1>5
  <2> QED
    BY <1>1, <1>5, <1>6, <2>1 DEF Shapes, Writing, Reading
<1>8. Streams'
  <2> SUFFICES ASSUME NEW q \in Proc PROVE StreamOf(q)'
    BY DEF Streams
  <2>1. StreamOf(q)
    BY <1>1 DEF Streams
  <2>2. CASE q = p
    <3>1. at'[p] = to
      BY <1>2, <1>5
    <3> QED
      BY <1>2, <1>3, <1>5, <2>1, <2>2, <3>1 DEF StreamOf
  <2>3. CASE q # p
    <3>1. at'[q] = at[q]
      BY <1>2, <1>5, <2>3
    <3> QED
      BY <1>5, <2>1, <3>1 DEF StreamOf
  <2> QED
    BY <2>2, <2>3
<1>9. NeverForged'
  BY <1>1, <1>5, <1>6 DEF NeverForged, SignedIn, OneOf
<1>10. Undisturbed'
  <2>1. Writing' = Writing /\ p \in Writing
    BY <1>2, <1>5 DEF Writing
  <2>2. quiet' = {}
    BY <1>1, <1>5, <2>1 DEF Undisturbed
  <2>3. ASSUME NEW q \in alone' PROVE Writing' = {q} /\ file' = SubSeq(data'[q], 1, at'[q])
    <3>1. q = p /\ Writing' = {q} /\ file = SubSeq(data[p], 1, at[p])
      BY <1>1, <1>5, <2>1, <2>3 DEF Undisturbed
    <3>2. Overlay(file, at[p], SubSeq(data[p], at[p] + 1, to)) = SubSeq(data[p], 1, to)
      BY <1>2, <1>3, <3>1, GapToken, PrefixGrows
    <3>3. at'[p] = to /\ data' = data
      BY <1>2, <1>5
    <3> QED
      BY <1>5, <3>1, <3>2, <3>3
  <2> QED
    BY <2>2, <2>3 DEF Undisturbed
<1> QED
  BY <1>5, <1>7, <1>8, <1>9, <1>10 DEF FileInv

\* A call that is over, however it ended.
LEMMA StopInv ==
  ASSUME FileInv, NEW p \in Proc, Stop(p), UNCHANGED <<file, holds, offered>>,
         alone' = alone \ {p}, quiet' = quiet \ {p}, heard' \in [Proc -> OneOf(offered)]
  PROVE  FileInv' /\ Writing' = Writing \ {p} /\ Reading' = Reading \ {p}
<1>1. Shapes /\ Streams /\ NeverForged /\ Undisturbed
  BY DEF FileInv
<1>2. /\ pc' = [pc EXCEPT ![p] = "idle"] /\ wants' = [wants EXCEPT ![p] = Refused]
      /\ data' = [data EXCEPT ![p] = <<>>] /\ at' = [at EXCEPT ![p] = 0]
  BY DEF Stop
<1>3. /\ pc'[p] = "idle" /\ wants'[p] = Refused /\ data'[p] = <<>> /\ at'[p] = 0
      /\ \A q \in Proc : q # p =>
           pc'[q] = pc[q] /\ wants'[q] = wants[q] /\ data'[q] = data[q] /\ at'[q] = at[q]
  BY <1>1, <1>2 DEF Shapes
<1>4. Writing' = Writing \ {p} /\ Reading' = Reading \ {p}
  BY <1>3 DEF Writing, Reading
<1>5. Shapes'
  <2>1. pc' \in [Proc -> {"idle", "write", "read"}] /\ at' \in [Proc -> Nat]
    BY <1>1, <1>2 DEF Shapes
  <2>2. wants' \in [Proc -> OneOf(Known)] /\ data' \in [Proc -> Seq(Token)]
    BY <1>1, <1>2 DEF Shapes, OneOf
  <2>3. alone' \subseteq Writing' /\ quiet' \subseteq Reading'
    BY <1>1, <1>4 DEF Shapes
  <2> QED
    BY <1>1, <2>1, <2>2, <2>3 DEF Shapes, OneOf
<1>6. Streams'
  <2> SUFFICES ASSUME NEW q \in Proc PROVE StreamOf(q)'
    BY DEF Streams
  <2>1. CASE q = p
    BY <1>3, <2>1 DEF StreamOf
  <2>2. CASE q # p
    BY <1>1, <1>3, <2>2 DEF StreamOf, Streams
  <2> QED
    BY <2>1, <2>2
<1>7. NeverForged'
  <2>1. ASSUME NEW q \in Proc PROVE SignedIn(data[q])'
    <3>1. CASE q = p
      BY <1>3, <3>1, EmptyFile DEF SignedIn, OneOf
    <3>2. CASE q # p
      BY <1>1, <1>3, <3>2 DEF NeverForged, SignedIn
    <3> QED
      BY <3>1, <3>2
  <2> QED
    BY <1>1, <2>1 DEF NeverForged, SignedIn
<1>8. Undisturbed'
  <2>1. ASSUME NEW q \in alone' PROVE Writing' = {q} /\ file' = SubSeq(data'[q], 1, at'[q])
    <3>1. q # p /\ q \in alone /\ q \in Proc
      BY <1>1, <2>1 DEF Shapes, Writing
    <3>2. Writing = {q} /\ file = SubSeq(data[q], 1, at[q])
      BY <1>1, <3>1 DEF Undisturbed
    <3> QED
      BY <1>3, <1>4, <3>1, <3>2
  <2>2. ASSUME NEW q \in quiet'
        PROVE  Writing' = {} /\ data'[q] = SubSeq(file', 1, at'[q]) /\ at'[q] <= Len(file')
    <3>1. q # p /\ q \in quiet /\ q \in Proc
      BY <1>1, <2>2 DEF Shapes, Reading
    <3>2. Writing = {} /\ data[q] = SubSeq(file, 1, at[q]) /\ at[q] <= Len(file)
      BY <1>1, <3>1 DEF Undisturbed
    <3> QED
      BY <1>3, <1>4, <3>1, <3>2
  <2> QED
    BY <2>1, <2>2 DEF Undisturbed
<1>9. (holds = Read(file))'
  BY DEF FileInv
<1> QED
  BY <1>4, <1>5, <1>6, <1>7, <1>8, <1>9 DEF FileInv

LEMMA WrittenInv ==
  ASSUME FileInv, NEW p \in Proc, Written(p)
  PROVE  FileInv' /\ Writing' = Writing \ {p} /\ Reading' = Reading
<1>1. p \in Writing /\ p \notin Reading /\ p \notin quiet /\ wants[p] \in offered
  BY DEF FileInv, Written, Writing, Reading, Shapes, Streams, StreamOf
<1>2. heard' \in [Proc -> OneOf(offered)]
  BY <1>1 DEF FileInv, Written, Shapes, OneOf
<1>3. /\ Stop(p) /\ UNCHANGED <<file, holds, offered>>
      /\ alone' = alone \ {p} /\ quiet' = quiet \ {p}
  BY <1>1 DEF Written
<1> QED
  BY <1>1, <1>2, <1>3, StopInv

LEMMA TailLostInv ==
  ASSUME FileInv, NEW p \in Proc, TailLost(p)
  PROVE  FileInv' /\ Writing' = Writing \ {p} /\ Reading' = Reading
<1>1. p \in Writing /\ p \notin Reading /\ p \notin quiet /\ wants[p] \in offered
  BY DEF FileInv, TailLost, Writing, Reading, Shapes, Streams, StreamOf
<1>2. heard' \in [Proc -> OneOf(offered)]
  BY <1>1 DEF FileInv, TailLost, Shapes, OneOf
<1>3. /\ Stop(p) /\ UNCHANGED <<file, holds, offered>>
      /\ alone' = alone \ {p} /\ quiet' = quiet \ {p}
  BY <1>1 DEF TailLost
<1> QED
  BY <1>1, <1>2, <1>3, StopInv

LEMMA WriteBreaksInv ==
  ASSUME FileInv, NEW p \in Proc, WriteBreaks(p)
  PROVE  FileInv' /\ Writing' = Writing \ {p} /\ Reading' = Reading
<1>1. p \in Writing /\ p \notin Reading /\ p \notin quiet
  BY DEF FileInv, WriteBreaks, Writing, Reading, Shapes
<1>2. heard' \in [Proc -> OneOf(offered)]
  BY DEF FileInv, WriteBreaks, Shapes
<1>3. /\ Stop(p) /\ UNCHANGED <<file, holds, offered>>
      /\ alone' = alone \ {p} /\ quiet' = quiet \ {p}
  BY <1>1 DEF WriteBreaks
<1> QED
  BY <1>1, <1>2, <1>3, StopInv

LEMMA ParseInv ==
  ASSUME FileInv, NEW p \in Proc, Parse(p)
  PROVE  FileInv' /\ Writing' = Writing /\ Reading' = Reading \ {p}
<1>1. p \in Reading /\ p \notin Writing /\ p \notin alone
  BY DEF FileInv, Parse, Writing, Reading, Shapes
<1>2. Read(data[p]) \in OneOf(offered)
  BY ReadOfTheOffered DEF FileInv, NeverForged, SignedIn
<1>3. heard' \in [Proc -> OneOf(offered)]
  <2> DEFINE got == Read(data[p])
  <2>1. heard \in [Proc -> OneOf(offered)] /\ heard' = [heard EXCEPT ![p] = got]
    BY DEF FileInv, Parse, Shapes
  <2> HIDE DEF got
  <2>2. got \in OneOf(offered)
    BY <1>2 DEF got
  <2> QED
    BY <2>1, <2>2
<1>4. /\ Stop(p) /\ UNCHANGED <<file, holds, offered>>
      /\ alone' = alone \ {p} /\ quiet' = quiet \ {p}
  BY <1>1 DEF Parse
<1> QED
  BY <1>1, <1>3, <1>4, StopInv

LEMMA OpenForReadingInv ==
  ASSUME FileInv, NEW p \in Proc, OpenForReading(p)
  PROVE  FileInv' /\ Writing' = Writing /\ Reading' = Reading \cup {p}
<1>1. Shapes /\ Streams /\ NeverForged /\ Undisturbed /\ holds = Read(file)
  BY DEF FileInv
<1>2. /\ pc[p] = "idle" /\ pc' = [pc EXCEPT ![p] = "read"] /\ heard' = [heard EXCEPT ![p] = Refused]
      /\ quiet' = IF Writing = {} THEN quiet \cup {p} ELSE quiet
      /\ UNCHANGED <<file, wants, data, at, holds, offered, alone>>
  BY DEF OpenForReading
<1>3. pc'[p] = "read" /\ \A q \in Proc : q # p => pc'[q] = pc[q]
  BY <1>1, <1>2 DEF Shapes
<1>4. Writing' = Writing /\ Reading' = Reading \cup {p}
  BY <1>2, <1>3 DEF Writing, Reading
<1>5. Shapes'
  BY <1>1, <1>2, <1>4 DEF Shapes, OneOf
<1>6. Streams'
  <2> SUFFICES ASSUME NEW q \in Proc PROVE StreamOf(q)'
    BY DEF Streams
  <2>1. StreamOf(q)
    BY <1>1 DEF Streams
  <2>2. CASE q = p
    BY <1>2, <1>3, <2>1, <2>2 DEF StreamOf
  <2>3. CASE q # p
    BY <1>2, <1>3, <2>1, <2>3 DEF StreamOf
  <2> QED
    BY <2>2, <2>3
<1>7. NeverForged'
  BY <1>1, <1>2 DEF NeverForged, SignedIn
<1>8. Undisturbed'
  <2>1. \A q \in alone' : Writing' = {q} /\ file' = SubSeq(data'[q], 1, at'[q])
    BY <1>1, <1>2, <1>4 DEF Undisturbed
  <2>2. ASSUME NEW q \in quiet'
        PROVE  Writing' = {} /\ data'[q] = SubSeq(file', 1, at'[q]) /\ at'[q] <= Len(file')
    <3>1. CASE q \in quiet
      BY <1>1, <1>2, <1>4, <3>1 DEF Undisturbed
    <3>2. CASE q \notin quiet
      <4>1. q = p /\ Writing = {}
        BY <1>2, <2>2, <3>2
      <4>2. data[p] = <<>> /\ at[p] = 0
        BY <1>1, <1>2 DEF Streams, StreamOf
      <4>3. file \in Seq(Token)
        BY <1>1 DEF Shapes
      <4>4. SubSeq(file, 1, 0) = <<>> /\ 0 <= Len(file)
        BY <4>3
      <4> QED
        BY <1>2, <1>4, <4>1, <4>2, <4>4
    <3> QED
      BY <3>1, <3>2
  <2> QED
    BY <2>1, <2>2 DEF Undisturbed
<1>9. (holds = Read(file))'
  BY <1>1, <1>2
<1> QED
  BY <1>4, <1>5, <1>6, <1>7, <1>8, <1>9 DEF FileInv

LEMMA ReadChunkInv ==
  ASSUME FileInv, NEW p \in Proc, ReadChunk(p)
  PROVE  FileInv'
<1> DEFINE to == Upto(file, at[p] + Chunk)
           more == data[p] \o SubSeq(file, at[p] + 1, to)
<1>1. Shapes /\ Streams /\ NeverForged /\ Undisturbed /\ holds = Read(file)
  BY DEF FileInv
<1>2. /\ pc[p] = "read" /\ data[p] \in Seq(Token) /\ file \in Seq(Token)
      /\ at[p] = Len(data[p]) /\ at[p] \in Nat /\ at[p] < Len(file)
  BY <1>1 DEF ReadChunk, Shapes, Streams, StreamOf
<1>3. to \in at[p]..Len(file)
  <2>1. Chunk \in Nat
    BY ContainerAssumption
  <2>2. at[p] + Chunk \in Nat /\ at[p] + Chunk >= at[p]
    BY <1>2, <2>1
  <2> QED
    BY <1>2, <2>2 DEF Upto
<1>4. /\ data' = [data EXCEPT ![p] = more] /\ at' = [at EXCEPT ![p] = to]
      /\ UNCHANGED <<file, pc, wants, heard, holds, offered, alone, quiet>>
  BY DEF ReadChunk
<1> HIDE DEF to
<1>5. /\ more \in Seq(Token) /\ Len(more) = to
      /\ Signed(more) \in {Signed(data[p]), Signed(file), Refused}
      /\ data[p] = SubSeq(file, 1, at[p]) => more = SubSeq(file, 1, to)
  <2> DEFINE s == data[p]
  <2>1. /\ s \in Seq(Token) /\ file \in Seq(Token) /\ to \in Len(s)..Len(file)
        /\ at[p] = Len(s) /\ more = s \o SubSeq(file, Len(s) + 1, to)
    BY <1>2, <1>3
  <2> HIDE DEF s, more
  <2>2. /\ more \in Seq(Token) /\ Len(more) = to
        /\ Signed(more) \in {Signed(s), Signed(file), Refused}
        /\ s = SubSeq(file, 1, at[p]) => more = SubSeq(file, 1, to)
    BY <2>1, ContinuedIsSigned
  <2> QED
    BY <2>2 DEF s
<1> HIDE DEF more
<1>6. /\ data'[p] = more /\ at'[p] = to
      /\ \A q \in Proc : q # p => data'[q] = data[q] /\ at'[q] = at[q]
  BY <1>1, <1>4 DEF Shapes
<1>7. Shapes'
  <2>1. data' \in [Proc -> Seq(Token)] /\ at' \in [Proc -> Nat]
    BY <1>1, <1>2, <1>3, <1>4, <1>5 DEF Shapes
  <2> QED
    BY <1>1, <1>4, <2>1 DEF Shapes, Writing, Reading
<1>8. Streams'
  <2> SUFFICES ASSUME NEW q \in Proc PROVE StreamOf(q)'
    BY DEF Streams
  <2>1. StreamOf(q)
    BY <1>1 DEF Streams
  <2>2. CASE q = p
    BY <1>2, <1>4, <1>5, <1>6, <2>1, <2>2 DEF StreamOf
  <2>3. CASE q # p
    BY <1>4, <1>6, <2>1, <2>3 DEF StreamOf
  <2> QED
    BY <2>2, <2>3
<1>9. NeverForged'
  <2>1. SignedIn(file)'
    BY <1>1, <1>4 DEF NeverForged, SignedIn
  <2>2. ASSUME NEW q \in Proc PROVE SignedIn(data[q])'
    <3>1. CASE q = p
      BY <1>1, <1>4, <1>5, <1>6, <3>1 DEF NeverForged, SignedIn, OneOf
    <3>2. CASE q # p
      BY <1>1, <1>4, <1>6, <3>2 DEF NeverForged, SignedIn
    <3> QED
      BY <3>1, <3>2
  <2> QED
    BY <2>1, <2>2 DEF NeverForged
<1>10. Undisturbed'
  <2>1. Writing' = Writing /\ p \notin Writing
    BY <1>2, <1>4 DEF Writing
  <2>2. ASSUME NEW q \in alone' PROVE Writing' = {q} /\ file' = SubSeq(data'[q], 1, at'[q])
    <3>1. Writing = {q} /\ file = SubSeq(data[q], 1, at[q]) /\ q \in Proc /\ q # p
      BY <1>1, <1>4, <2>1, <2>2 DEF Undisturbed, Shapes, Writing
    <3> QED
      BY <1>4, <1>6, <2>1, <3>1
  <2>3. ASSUME NEW q \in quiet'
        PROVE  Writing' = {} /\ data'[q] = SubSeq(file', 1, at'[q]) /\ at'[q] <= Len(file')
    <3>1. Writing = {} /\ data[q] = SubSeq(file, 1, at[q]) /\ at[q] <= Len(file) /\ q \in Proc
      BY <1>1, <1>4, <2>3 DEF Undisturbed, Shapes, Reading
    <3>2. CASE q = p
      <4>1. to <= Len(file)
        BY <1>2, <1>3
      <4> QED
        BY <1>4, <1>5, <1>6, <2>1, <3>1, <3>2, <4>1
    <3>3. CASE q # p
      BY <1>4, <1>6, <2>1, <3>1, <3>3
    <3> QED
      BY <3>2, <3>3
  <2> QED
    BY <2>2, <2>3 DEF Undisturbed
<1>11. (holds = Read(file))'
  BY <1>1, <1>4
<1> QED
  BY <1>7, <1>8, <1>9, <1>10, <1>11 DEF FileInv

LEMMA PowerLossInv ==
  ASSUME FileInv, PowerLoss
  PROVE  FileInv' /\ Writing' = {} /\ Reading' = {}
<1>1. Shapes /\ Streams /\ NeverForged /\ Undisturbed /\ holds = Read(file)
  BY DEF FileInv
<1>2. file' \in Seq(Token) /\ Signed(file') \in {Signed(file), Refused}
  <2>1. PICK n \in 0..Len(file) : file' = SubSeq(file, 1, n)
    BY DEF PowerLoss
  <2>2. file \in Seq(Token)
    BY <1>1 DEF Shapes
  <2> QED
    BY <2>1, <2>2, TornIsSigned
<1>3. /\ pc' = [p \in Proc |-> "idle"] /\ wants' = [p \in Proc |-> Refused]
      /\ data' = [p \in Proc |-> <<>>] /\ at' = [p \in Proc |-> 0]
      /\ heard' = [p \in Proc |-> Refused]
      /\ alone' = {} /\ quiet' = {} /\ offered' = offered /\ holds' = Read(file')
  BY DEF PowerLoss
<1>4. Writing' = {} /\ Reading' = {}
  BY <1>3 DEF Writing, Reading
<1>5. Shapes'
  BY <1>1, <1>2, <1>3 DEF Shapes, OneOf
<1>6. Streams'
  BY <1>3 DEF Streams, StreamOf
<1>7. NeverForged'
  BY <1>1, <1>2, <1>3, EmptyFile DEF NeverForged, SignedIn, OneOf
<1>8. Undisturbed'
  BY <1>3 DEF Undisturbed
<1> QED
  BY <1>3, <1>4, <1>5, <1>6, <1>7, <1>8 DEF FileInv

LEMMA FileInvInductive ==
  ASSUME RoundTrips
  PROVE  FileInv /\ [FileNext]_fileVars => FileInv'
<1> SUFFICES ASSUME FileInv, [FileNext]_fileVars PROVE FileInv'
  OBVIOUS
<1>1. ASSUME NEW p \in Proc, NEW package \in Packages, OpenForWriting(p, package) PROVE FileInv'
  <2>1. package \in Known
    BY HandedOver DEF FileInv
  <2> QED
    BY <1>1, <2>1, OpenForWritingInv
<1>2. ASSUME NEW p \in Proc, heard[p] # Refused, OpenForWriting(p, heard[p]) PROVE FileInv'
  <2>1. heard[p] \in Known
    BY <1>2, HandedOver DEF FileInv
  <2> QED
    BY <1>2, <2>1, OpenForWritingInv
<1>3. ASSUME NEW p \in Proc, WriteChunk(p) PROVE FileInv'
  BY <1>3, WriteChunkInv
<1>4. ASSUME NEW p \in Proc, Written(p) PROVE FileInv'
  BY <1>4, WrittenInv
<1>5. ASSUME NEW p \in Proc, TailLost(p) \/ WriteBreaks(p) PROVE FileInv'
  BY <1>5, TailLostInv, WriteBreaksInv
<1>6. ASSUME NEW p \in Proc, OpenForReading(p) PROVE FileInv'
  BY <1>6, OpenForReadingInv
<1>7. ASSUME NEW p \in Proc, ReadChunk(p) PROVE FileInv'
  BY <1>7, ReadChunkInv
<1>8. ASSUME NEW p \in Proc, Parse(p) PROVE FileInv'
  BY <1>8, ParseInv
<1>9. CASE PowerLoss
  BY <1>9, PowerLossInv
<1>10. CASE UNCHANGED fileVars
  BY <1>10 DEF fileVars, FileInv, Shapes, Streams, StreamOf, NeverForged, SignedIn, Undisturbed,
               Writing, Reading
<1> QED
  BY <1>1, <1>2, <1>3, <1>4, <1>5, <1>6, <1>7, <1>8, <1>9, <1>10, Zenon DEF FileNext

LEMMA FileInvTypes == FileInv => FileTypeOK
<1> SUFFICES ASSUME FileInv PROVE FileTypeOK
  OBVIOUS
<1>1. \A p \in Proc : pc[p] = "write" => at[p] \in 0..Len(data[p])
  BY DEF FileInv, Shapes, Streams, StreamOf
<1>2. \A p \in Proc : /\ pc[p] = "idle" => data[p] = <<>> /\ at[p] = 0
                      /\ pc[p] = "read" => at[p] = Len(data[p])
  BY DEF FileInv, Streams, StreamOf
<1>3. quiet # {} => Writing = {}
  BY DEF FileInv, Undisturbed
<1> QED
  BY <1>1, <1>2, <1>3 DEF FileInv, Shapes, FileTypeOK

\* Every stream stands where its call left it, and nobody is counted as
\* undisturbed who is not at work, or while a writer is (package.cpp:357-395).
THEOREM FileTypes ==
  ASSUME RoundTrips
  PROVE  FileSpec => []FileTypeOK
<1>1. FileInit => FileInv
  BY FileInitInv
<1>2. FileInv /\ [FileNext]_fileVars => FileInv'
  BY FileInvInductive
<1>3. FileInv => FileTypeOK
  BY FileInvTypes
<1> QED
  BY <1>1, <1>2, <1>3, PTL DEF FileSpec

----------------------------------------------------------------------------
(* The file is a register                                                  *)

LEMMA WritersAreThoseThatWant ==
  ASSUME FileInv
  PROVE  Register!Writing = Writing
<1>1. \A p \in Proc : pc[p] = "write" => wants[p] # Refused
  BY Zenon DEF FileInv, Shapes, Streams, StreamOf, Known
<1>2. \A p \in Proc : pc[p] # "write" => wants[p] = Refused
  BY DEF FileInv, Streams, StreamOf
<1> QED
  BY <1>1, <1>2 DEF Register!Writing, Writing

LEMMA RegisterInit == FileInit => Register!Init
<1> SUFFICES ASSUME FileInit PROVE Register!Init
  OBVIOUS
<1>1. FileInv
  BY FileInitInv
<1>2. Writing = {} /\ Reading = {}
  BY DEF FileInit, Writing, Reading
<1>3. holds \in OneOf(offered)
  BY <1>1, ReadOfTheOffered DEF FileInv, NeverForged, SignedIn
<1>4. offered \subseteq Known
  BY <1>1 DEF FileInv, Shapes
<1> QED
  BY <1>2, <1>3, <1>4 DEF FileInit, Register!Init, OneOf

\* What the file holds when the last writer has left it.
LEMMA HeldIsOffered ==
  ASSUME FileInv
  PROVE  holds \in OneOf(offered)
  BY ReadOfTheOffered DEF FileInv, NeverForged, SignedIn

\* A writer that was alone and has not finished leaves what it was handed, whole
\* to a reader, or nothing that can be read.
LEMMA AloneIsNeverForged ==
  ASSUME RoundTrips, FileInv, NEW p \in alone
  PROVE  Writing = {p} /\ holds \in {wants[p], Refused}
<1>1. Writing = {p} /\ file = SubSeq(data[p], 1, at[p])
  BY DEF FileInv, Undisturbed
<1>2. /\ p \in Proc /\ wants[p] \in Known /\ Valid(wants[p]) /\ data[p] = Bytes(wants[p])
      /\ at[p] <= Len(data[p])
  BY <1>1 DEF FileInv, Shapes, Streams, StreamOf, Writing
<1>3. data[p] \in Seq(Token) /\ at[p] \in Nat
  BY <1>2 DEF FileInv, Shapes
<1>4. Signed(data[p]) = wants[p]
  BY <1>2, BytesOfAPackage
<1>5. Signed(file) \in {wants[p], Refused}
  BY <1>1, <1>2, <1>3, <1>4, TornIsSigned
<1>6. Read(file) \in {wants[p], Refused}
  BY <1>5, ReadIsSigned
<1> QED
  BY <1>1, <1>6 DEF FileInv

\* A writer that was alone leaves what it was handed.
LEMMA AloneIsStored ==
  ASSUME RoundTrips, FileInv, NEW p \in alone, at[p] = Len(data[p])
  PROVE  Writing = {p} /\ holds = wants[p]
<1>1. Writing = {p} /\ file = SubSeq(data[p], 1, at[p])
  BY DEF FileInv, Undisturbed
<1>2. p \in Proc /\ wants[p] \in Known /\ Valid(wants[p]) /\ data[p] = Bytes(wants[p])
  BY <1>1 DEF FileInv, Shapes, Streams, StreamOf, Writing
<1>3. data[p] \in Seq(Token)
  BY <1>2 DEF FileInv, Shapes
<1>4. file = data[p]
  BY <1>1, <1>3
<1>5. Read(data[p]) = wants[p]
  BY <1>2, BytesOfAPackage
<1> QED
  BY <1>1, <1>4, <1>5 DEF FileInv

LEMMA RegisterNext ==
  ASSUME RoundTrips
  PROVE  FileInv /\ [FileNext]_fileVars => [Register!Next]_Register!vars
<1> SUFFICES ASSUME FileInv, [FileNext]_fileVars PROVE [Register!Next]_Register!vars
  OBVIOUS
<1>0. Register!Writing = Writing
  BY WritersAreThoseThatWant
<1> DEFINE value == IF Writing = {} THEN holds ELSE Refused
<1>1. ASSUME NEW p \in Proc, NEW k \in Known, OpenForWriting(p, k)
      PROVE  Register!BeginWrite(p, k)
  <2>1. p \notin Writing /\ p \notin Reading
    BY <1>1 DEF OpenForWriting, Writing, Reading
  <2>2. Writing' = Writing \cup {p} /\ Reading' = Reading
    BY <1>1 DEF OpenForWriting, Writing, Reading, FileInv, Shapes
  <2>3. value' = Refused
    BY <2>2
  <2> QED
    BY <1>0, <1>1, <2>1, <2>2, <2>3 DEF OpenForWriting, Register!BeginWrite, Register!Busy
<1>2. ASSUME NEW p \in Proc, WriteChunk(p) PROVE UNCHANGED Register!vars
  <2>1. Writing' = Writing /\ Reading' = Reading /\ p \in Writing
    BY <1>2 DEF WriteChunk, Writing, Reading
  <2>2. value' = value
    BY <2>1
  <2> QED
    BY <1>2, <2>1, <2>2 DEF WriteChunk, Register!vars
<1>3. ASSUME NEW p \in Proc, Written(p) PROVE Register!EndWrite(p)
  <2>1. Writing' = Writing \ {p} /\ Reading' = Reading /\ p \in Writing
    BY <1>3, WrittenInv DEF Written, Writing
  <2>2. holds' = holds /\ offered' = offered
    BY <1>3 DEF Written
  <2>3. value' \in Register!Left(p)
    BY <1>0, <2>1, <2>2, HeldIsOffered DEF Register!Left, OneOf
  <2>4. p \in alone => value' = wants[p]
    BY <1>3, <2>1, <2>2, AloneIsStored DEF Written
  <2> QED
    BY <1>0, <1>3, <2>1, <2>3, <2>4 DEF Written, Stop, Register!EndWrite, Register!Stored
<1>13. ASSUME NEW p \in Proc, TailLost(p) PROVE Register!EndWrite(p)
  <2>1. Writing' = Writing \ {p} /\ Reading' = Reading /\ p \in Writing
    BY <1>13, TailLostInv DEF TailLost, Writing
  <2>2. holds' = holds /\ offered' = offered
    BY <1>13 DEF TailLost
  <2>3. value' \in Register!Left(p)
    BY <1>0, <2>1, <2>2, HeldIsOffered DEF Register!Left, OneOf
  <2>4. p \in alone => value' \in Register!Stored(p)
    BY <1>13, <2>1, <2>2, AloneIsNeverForged DEF TailLost, Register!Stored
  <2> QED
    BY <1>0, <1>13, <2>1, <2>3, <2>4 DEF TailLost, Stop, Register!EndWrite
<1>4. ASSUME NEW p \in Proc, WriteBreaks(p) PROVE Register!BreakWrite(p)
  <2>1. Writing' = Writing \ {p} /\ Reading' = Reading /\ p \in Writing
    BY <1>4, WriteBreaksInv DEF WriteBreaks, Writing
  <2>2. value' \in Register!Left(p)
    BY <1>0, <1>4, <2>1, HeldIsOffered DEF WriteBreaks, Register!Left, OneOf
  <2> QED
    BY <1>0, <1>4, <2>1, <2>2 DEF WriteBreaks, Stop, Register!BreakWrite
<1>5. ASSUME NEW p \in Proc, OpenForReading(p) PROVE Register!BeginRead(p)
  <2>1. Writing' = Writing /\ Reading' = Reading \cup {p}
    BY <1>5, OpenForReadingInv
  <2>2. p \notin Writing /\ p \notin Reading
    BY <1>5 DEF OpenForReading, Writing, Reading
  <2> QED
    BY <1>0, <1>5, <2>1, <2>2 DEF OpenForReading, Register!BeginRead, Register!Busy
<1>6. ASSUME NEW p \in Proc, ReadChunk(p) PROVE UNCHANGED Register!vars
  BY <1>6 DEF ReadChunk, Writing, Reading, Register!vars
<1>7. ASSUME NEW p \in Proc, Parse(p) PROVE Register!EndRead(p)
  <2>1. Writing' = Writing /\ Reading' = Reading \ {p} /\ p \in Reading
    BY <1>7, ParseInv DEF Parse, Reading
  <2>2. Read(data[p]) \in IF p \in quiet THEN {value} ELSE offered \cup {Refused}
    <3>1. CASE p \in quiet
      <4>1. /\ Writing = {} /\ data[p] = SubSeq(file, 1, at[p]) /\ at[p] <= Len(file)
            /\ file \in Seq(Token) /\ at[p] \in Nat
        BY <3>1 DEF FileInv, Undisturbed, Shapes
      <4>2. data[p] = file
        <5>1. at[p] = Len(file)
          BY <1>7, <4>1 DEF Parse
        <5> QED
          BY <4>1, <5>1
      <4> QED
        BY <3>1, <4>1, <4>2 DEF FileInv
    <3>2. CASE p \notin quiet
      BY <3>2, ReadOfTheOffered DEF FileInv, NeverForged, SignedIn, OneOf
    <3> QED
      BY <3>1, <3>2
  <2>3. value' = value
    BY <1>7, <2>1 DEF Parse
  <2>4. \E result \in IF p \in quiet THEN {value} ELSE offered \cup {Refused} :
          heard' = [heard EXCEPT ![p] = result]
    <3> DEFINE got == Read(data[p])
    <3>1. heard' = [heard EXCEPT ![p] = got]
      BY <1>7 DEF Parse
    <3> HIDE DEF got, value
    <3> QED
      BY <2>2, <3>1, Zenon DEF got
  <2>5. wants' = wants
    <3>1. wants[p] = Refused /\ wants' = [wants EXCEPT ![p] = Refused]
      BY <1>7 DEF FileInv, Streams, StreamOf, Parse, Stop
    <3> QED
      BY <3>1 DEF FileInv, Shapes
  <2>6. quiet' = quiet \ {p} /\ offered' = offered /\ alone' = alone
    BY <1>7 DEF Parse
  <2> HIDE DEF value
  <2> QED
    BY <2>1, <2>3, <2>4, <2>5, <2>6 DEF value, Register!EndRead
<1>8. ASSUME PowerLoss PROVE Register!PowerLoss
  <2>1. Writing' = {} /\ Reading' = {} /\ FileInv'
    BY <1>8, PowerLossInv
  <2>2. holds' \in OneOf(offered) /\ offered' = offered
    <3>1. Signed(file') \in OneOf(offered') /\ holds' = Read(file') /\ offered' = offered
      BY <1>8, <2>1 DEF PowerLoss, FileInv, NeverForged, SignedIn
    <3> QED
      BY <3>1, ReadOfTheOffered
  <2> QED
    BY <1>8, <2>1, <2>2 DEF PowerLoss, Register!PowerLoss, OneOf
<1>9. CASE UNCHANGED fileVars
  BY <1>9 DEF fileVars, Writing, Reading, Register!vars
<1>10. ASSUME NEW p \in Proc, NEW package \in Packages, OpenForWriting(p, package)
       PROVE  Register!Next
  <2>1. package \in Known
    BY HandedOver DEF FileInv
  <2> QED
    BY <1>1, <1>10, <2>1, Zenon DEF Register!Next
<1>11. ASSUME NEW p \in Proc, heard[p] # Refused, OpenForWriting(p, heard[p])
       PROVE  Register!Next
  <2>1. heard[p] \in Known
    BY <1>11, HandedOver DEF FileInv
  <2> QED
    BY <1>1, <1>11, <2>1, Zenon DEF Register!Next
<1>12. FileNext => Register!Next \/ UNCHANGED Register!vars
  BY <1>2, <1>3, <1>4, <1>5, <1>6, <1>7, <1>8, <1>10, <1>11, <1>13, Zenon DEF FileNext, Register!Next
<1> QED
  BY <1>9, <1>12

\* The file is a register of packages that may be damaged but never lies:
\* whatever is interrupted, overlapped or torn, a reader gets a package some
\* producer handed over, whole, or is refused, and an undisturbed write that
\* returned is read back as it was written, where its last flush cannot fail
\* unseen, and else is read back so or refused (package.cpp:357-395,
\* v1.cpp:48-70 and :140-179).  What is left to the codec is that it reads what
\* it wrote.
THEOREM FileIsARegister ==
  ASSUME RoundTrips
  PROVE  FileSpec => IsARegister
<1>1. FileInit => FileInv /\ Register!Init
  BY FileInitInv, RegisterInit
<1>2. FileInv /\ [FileNext]_fileVars => FileInv'
  BY FileInvInductive
<1>3. FileInv /\ [FileNext]_fileVars => [Register!Next]_Register!vars
  BY RegisterNext
<1> QED
  BY <1>1, <1>2, <1>3, PTL DEF FileSpec, IsARegister, Register!Spec

=============================================================================
