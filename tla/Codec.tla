------------------------------- MODULE Codec -------------------------------
(***************************************************************************)
(* The container format: `Writer` and `Reader` (deploy/codec.hpp), the     *)
(* parts that encode themselves (descriptor.cpp, composition.cpp,          *)
(* package.cpp) and the V1 layout over them (v1.cpp).                      *)
(*                                                                         *)
(* The bytes are abstracted to a sequence of tokens, one for a primitive   *)
(* or a string, with lengths counted in tokens; a record of fixed layout   *)
(* is one token.  Lists, sized regions, the optional parts and the digest  *)
(* are kept, since these decide what a reader makes of bytes it does not   *)
(* know, or of bytes that are not all there.                               *)
(***************************************************************************)
EXTENDS Naturals, Sequences, SequencesExt, FiniteSets

Upto(tokens, n) == IF n < Len(tokens) THEN n ELSE Len(tokens)

Num(n) == <<"number", n>>
Txt(s) == <<"text", s>>
Raw(x) == <<"bytes", x>>

IsNum(token) == token[1] = "number"

----------------------------------------------------------------------------
(* Writer                                                                  *)

\* A length or a count, then what it counts.
Sized(tokens)      == <<Num(Len(tokens))>> \o tokens
ListOf(items, F(_)) == <<Num(Len(items))>> \o FlattenSeq([i \in DOMAIN items |-> F(items[i])])
Single(token)      == <<token>>

----------------------------------------------------------------------------
(* Reader: what is read, how far, whether it has thrown, and the values.   *)

Reader(tokens) == [of |-> tokens, at |-> 0, ok |-> TRUE, got |-> <<>>]
Remaining(r)   == Len(r.of) - r.at
Fail(r)        == [r EXCEPT !.ok = FALSE]
Value(r)       == r.got[Len(r.got)]

\* take: never past the end.
Take(r) ==
  IF r.ok /\ Remaining(r) > 0
    THEN [r EXCEPT !.at = @ + 1, !.got = Append(@, r.of[r.at + 1])]
    ELSE Fail(r)

\* Reading goes on unless something has been thrown.
After(c, Next(_)) == IF c.ok THEN Next(c) ELSE c

Count(r)    == After(Take(r), LAMBDA c : [c EXCEPT !.ok = IsNum(Value(c))])
Below(r, n) == After(Count(r), LAMBDA c : [c EXCEPT !.ok = Value(c)[2] < n])

\* Reader q, with what it read since r put together as one value.
Yields(r, q, v) == [q EXCEPT !.got = Append(r.got, v)]
Assembled(r, q, F(_)) == After(q, LAMBDA e : Yields(r, e, F(e.got)))
Fresh(r) == [r EXCEPT !.got = <<>>]

\* boolean: any number but zero is true.
Flag(r) == After(Count(r), LAMBDA c : Yields(r, c, Num(IF Value(c)[2] = 0 THEN 0 ELSE 1)))

\* n times, and list: the count, then that many items.
Times(r, n, Item(_)) ==
  Assembled(r, FoldLeft(LAMBDA q, i : After(q, Item), Fresh(r), [i \in 1..n |-> i]), LAMBDA v : v)
Many(r, Item(_)) ==
  After(Count(Fresh(r)), LAMBDA c : Assembled(r, Times(Fresh(c), Value(c)[2], Item), LAMBDA v : v[1]))

\* sized, sized_u64: a region with a reader of its own; what it leaves unread
\* is skipped.
Within(r, c, n, inner) ==
  IF Remaining(c) >= n THEN [c EXCEPT !.at = @ + n, !.ok = inner.ok, !.got = r.got \o inner.got]
  ELSE Fail(c)
Region(r, Inside(_)) ==
  After(Count(r), LAMBDA c :
    Within(r, c, Value(c)[2], Inside(Reader(SubSeq(c.of, c.at + 1, c.at + Value(c)[2])))))

Rest(r) == [r EXCEPT !.at = Len(r.of), !.got = Append(@, SubSeq(r.of, r.at + 1, Len(r.of)))]

\* What a whole region was, or that it could not be read.
Parsed(end, F(_)) == [ok |-> end.ok, value |-> IF end.ok THEN F(end.got) ELSE <<>>]

----------------------------------------------------------------------------
(* Tensor descriptors                                                      *)

\* The fields a range of a known kind has; a categorical one has labels.  Of
\* another kind the bytes are kept (those of a map too: it is not opened here).
RangeFields(kind) == CASE kind = 0 -> 0 [] kind = 1 -> 2 [] kind = 2 -> 3
Categorical == 3

EncodeRange(range) == <<range.kind>> \o Sized(range.payload)

DecodePayload(kind, q) ==
  CASE kind \in 0..2       -> Times(q, RangeFields(kind), Take)
    [] kind = Categorical -> Assembled(q, Many(q, Take), LAMBDA v : ListOf(v[1], Single))
    [] OTHER              -> Rest(q)

DecodeRange(r) ==
  Assembled(r, After(Count(Fresh(r)), LAMBDA k : Region(k, LAMBDA q : DecodePayload(Value(k)[2], q))),
        LAMBDA v : [kind |-> v[1], payload |-> v[2]])

EncodeNormalizer(n) == <<n.name>> \o ListOf(n.params, Single)

DecodeNormalizer(r) ==
  Assembled(r, Many(Take(Fresh(r)), Take), LAMBDA v : [name |-> v[1], params |-> v[2]])

EncodeTensor(d) ==
  <<d.name, d.role, d.semantic>> \o ListOf(d.shape, Single) \o <<d.dtype, d.unit>>
    \o EncodeRange(d.range) \o EncodeNormalizer(d.normalizer) \o <<d.optional>>

\* A role or an element type this build has no name for is refused.
DecodeTensor(r) ==
  Assembled(r, Flag(DecodeNormalizer(DecodeRange(Take(Below(
             Many(Take(Below(Take(Fresh(r)), 2)), Take), 4))))),
        LAMBDA v : [name |-> v[1], role |-> v[2], semantic |-> v[3], shape |-> v[4], dtype |-> v[5],
                    unit |-> v[6], range |-> v[7], normalizer |-> v[8], optional |-> v[9]])

----------------------------------------------------------------------------
(* Composition                                                             *)

\* A stage: its name and invocation, its ports and launches (fixed layouts,
\* one token each) and the description of its weights.
EncodeStage(s) ==
  <<s.name, s.invocation>> \o ListOf(s.reads, Single) \o ListOf(s.writes, Single)
    \o ListOf(s.launches, Single) \o <<s.weights>>

DecodeStage(r) ==
  Assembled(r, Take(Many(Many(Many(Take(Take(Fresh(r))), Take), Take), Take)),
        LAMBDA v : [name |-> v[1], invocation |-> v[2], reads |-> v[3], writes |-> v[4],
                    launches |-> v[5], weights |-> v[6]])

EncodeComposition(c) == ListOf(c.buffers, Single) \o ListOf(c.stages, EncodeStage)

DecodeComposition(tokens) ==
  Parsed(Many(Many(Reader(tokens), Take), DecodeStage),
         LAMBDA v : [buffers |-> v[1], stages |-> v[2]])

----------------------------------------------------------------------------
(* The package's own metadata                                              *)

\* A present part, or the flag alone.
Optional(has, tokens) == IF has THEN <<Num(1)>> \o tokens ELSE <<Num(0)>>
Maybe(r, Part(_)) ==
  After(Flag(r), LAMBDA f : IF Value(f)[2] = 0 THEN Yields(r, f, <<>>)
                            ELSE Assembled(r, Part(Fresh(f)), LAMBDA v : v))

EncodeGeometry(g) == <<g.box>> \o Optional(g.voxelization # <<>>, g.voxelization)
DecodeGeometry(r) ==
  Assembled(r, Maybe(Take(Fresh(r)), LAMBDA q : Take(Take(q))),
        LAMBDA v : [box |-> v[1], voxelization |-> v[2]])

\* Rf3Metadata: two sized halves, each of which a newer producer may extend.
EncodeRf3(m) == <<m.store>> \o Sized(<<m.simulation>>) \o Sized(<<m.software>>) \o Sized(m.dynamic)
DecodeRf3(r) ==
  Assembled(r, Region(Region(Region(Take(Fresh(r)), Take), Take), Rest),
        LAMBDA v : [store |-> v[1], simulation |-> v[2], software |-> v[3], dynamic |-> v[4]])

EncodeMetric(m) == <<m.name, m.value>>
DecodeMetric(r) ==
  Assembled(r, Take(Take(Fresh(r))), LAMBDA v : [name |-> v[1], value |-> v[2]])

\* A metric named twice keeps its first value.
FirstOfEach(metrics) ==
  SelectSeq(metrics, LAMBDA m : m = metrics[CHOOSE i \in DOMAIN metrics :
    metrics[i].name = m.name /\ \A j \in 1..i - 1 : metrics[j].name # m.name])

EncodeMetadata(p) ==
  <<p.provenance>> \o ListOf(p.io, EncodeTensor) \o EncodeGeometry(p.geometry)
    \o ListOf(p.metrics, EncodeMetric)
    \o Optional(p.rf3 # <<>>, Sized(FlattenSeq([i \in DOMAIN p.rf3 |-> EncodeRf3(p.rf3[i])])))

DecodeMetadata(tokens) ==
  Parsed(Maybe(Many(DecodeGeometry(Many(Take(Reader(tokens)), DecodeTensor)), DecodeMetric),
               LAMBDA q : Region(q, DecodeRf3)),
         LAMBDA v : [provenance |-> v[1], io |-> v[2], geometry |-> v[3],
                     metrics |-> FirstOfEach(v[4]), rf3 |-> v[5]])

----------------------------------------------------------------------------
(* Blocks                                                                  *)

EncodeBlock(b) == Sized(<<b.kind, b.name, b.arch>> \o b.payload)

DecodeBlock(r) ==
  Assembled(r, Region(Fresh(r), LAMBDA q : Rest(Take(Take(Take(q))))),
        LAMBDA v : [kind |-> v[1], name |-> v[2], arch |-> v[3], payload |-> v[4]])

\* The scan: the directory entry, with the payload's length in its place; a
\* composition is decoded on the way, and one that cannot be is an error.
IsComposition(b) == b.kind = Txt("composition")
\* Mutant: the length is asked for once the composition has been read.
LengthLeft(b)    == IF IsComposition(b) THEN 0 ELSE Len(b.payload)
LengthListed(b)  == Len(b.payload)
Listed(b, composition) ==
  [info |-> [kind |-> b.kind, name |-> b.name, arch |-> b.arch, bytes |-> LengthListed(b)],
   composition |-> composition]
Scanned(r, b, c) ==
  IF IsComposition(Value(b)) THEN [Yields(r, b, Listed(Value(b), <<c.value>>)) EXCEPT !.ok = c.ok]
  ELSE Yields(r, b, Listed(Value(b), <<>>))
ScanBlock(r) ==
  After(DecodeBlock(Fresh(r)), LAMBDA b : Scanned(r, b, DecodeComposition(Value(b).payload)))

----------------------------------------------------------------------------
(* Package::validate, as far as the container is concerned                 *)

Executable(b) == b.kind \in {Txt("onnx"), Txt("cuda_ptx"), Txt("cuda_cubin")}
Compositions(p) == SelectSeq(p.blocks, IsComposition)
IsNamed(p, name) == \E i \in DOMAIN p.blocks : p.blocks[i].name = name /\ Executable(p.blocks[i])

IsComposed(p, c) ==
  c.ok /\ \A s \in DOMAIN c.value.stages : IsNamed(p, c.value.stages[s].name)

Valid(p) ==
  /\ IsNamed(p, Txt("trunk"))
  /\ \E i \in DOMAIN p.io : p.io[i].role = Num(1)
  /\ \A i \in DOMAIN p.io : p.io[i].shape # <<>> /\ Num(0) \notin ToSet(p.io[i].shape)
  /\ \A i, j \in DOMAIN p.io : p.io[i].name = p.io[j].name => i = j
  /\ Len(Compositions(p)) <= 1
  /\ \A i \in DOMAIN Compositions(p) :
       IsComposed(p, DecodeComposition(Compositions(p)[i].payload))

----------------------------------------------------------------------------
(* The V1 layout                                                           *)

Magic       == Txt("RF3M")
V1          == Num(1)
Renumbered  == Num(2)
HeaderLen   == 3

\* The digest tells any two bodies apart.  It covers what follows the header.
\* Mutant: the digest covers the metadata only.
MetadataDigest(body) ==
  Raw(IF body # <<>> /\ IsNum(body[1]) THEN SubSeq(body, 1, Upto(body, body[1][2])) ELSE <<>>)
Digest(body) == Raw(body)

Body(p) == Sized(EncodeMetadata(p)) \o ListOf(p.blocks, EncodeBlock)

\* Serializer::write: what it refuses has no bytes.
Bytes(p) == <<Magic, V1, Digest(Body(p))>> \o Body(p)

\* peek_version and split: the metadata region and a reader at the blocks.
Intact(tokens, body) ==
  /\ Len(tokens) >= HeaderLen
  /\ tokens[1] = Magic
  /\ tokens[2] \in {V1, Renumbered}
  /\ tokens[3] = Digest(body)
SplitBody(body) == Region(Reader(body), Rest)
Split(tokens) ==
  LET body == SubSeq(tokens, HeaderLen + 1, Len(tokens))
  IN IF Intact(tokens, body) THEN SplitBody(body) ELSE Fail(Reader(<<>>))

Refused == [refused |-> TRUE]

\* Serializer::read.
Checked(p) == IF Valid(p) THEN p ELSE Refused
Joined(m, b) ==
  IF m.ok /\ b.ok
    THEN Checked([provenance |-> m.value.provenance, io |-> m.value.io,
                   geometry |-> m.value.geometry, metrics |-> m.value.metrics,
                   rf3 |-> m.value.rf3, blocks |-> b.got[1]])
    ELSE Refused
ReadParts(s) ==
  IF s.ok THEN Joined(DecodeMetadata(s.got[1]), Many(Fresh(s), DecodeBlock)) ELSE Refused
Read(tokens) == ReadParts(Split(tokens))

\* Serializer::read_metadata: not validated.
LastOf(found) == IF found = <<>> THEN <<>> ELSE found[Len(found)].composition
Listing(m, b) ==
  IF m.ok /\ b.ok
    THEN [parts |-> m.value, blocks |-> [i \in DOMAIN b.got[1] |-> b.got[1][i].info],
          composition |-> LastOf(SelectSeq(b.got[1], LAMBDA e : e.composition # <<>>))]
    ELSE Refused
ListParts(s) ==
  IF s.ok THEN Listing(DecodeMetadata(s.got[1]), Many(Fresh(s), ScanBlock)) ELSE Refused
ReadMetadata(tokens) == ListParts(Split(tokens))

=============================================================================
