----------------------------- MODULE Container -----------------------------
(***************************************************************************)
(* A package file on disk and the processes that write it, read it and     *)
(* rewrite it: Package::write_file, Package::read_file and `rf3m convert`. *)
(*                                                                         *)
(* write_file opens the file in place, which empties it, and then writes   *)
(* chunk by chunk at its own offset; a reader takes it chunk by chunk too. *)
(* No lock and no rename is involved, so all of this interleaves, and      *)
(* stops at any point when a write fails or a machine goes down.  What the *)
(* chunks mean is the business of Codec.                                   *)
(***************************************************************************)
EXTENDS Codec

CONSTANTS
  Proc,       \* processes with a writer, a reader or a converter in them
  Packages,   \* the packages producers write
  Found,      \* what the file may contain at first
  Chunk,      \* how much a write or a read moves at a time
  FlushFails  \* whether the last flush, in the stream's destructor, may fail

ASSUME ContainerAssumption ==
  /\ Chunk \in Nat \ {0}
  /\ \A f \in Found : f \in Seq(ToSet(f))
  /\ Refused \notin Packages
  /\ FlushFails \in BOOLEAN

VARIABLES
  file,    \* the contents
  pc,      \* [Proc -> "idle", "write" or "read"]
  wants,   \* [Proc -> the package it is writing, or Refused]
  data,    \* [Proc -> what it has to write, or has read so far]
  at,      \* [Proc -> the offset of its stream]
  heard,   \* [Proc -> the package its last call stored or read, or Refused]
  holds,   \* observer: what a reader would make of the file as it is
  offered, alone, quiet  \* observers, as in PackageFile

fileVars == <<file, pc, wants, data, at, heard, holds, offered, alone, quiet>>

Writing == {p \in Proc : pc[p] = "write"}
Reading == {p \in Proc : pc[p] = "read"}

\* The package the digest of a file was made of, whatever else is in it: a
\* file that is found may have been left half written.
Signed(tokens) ==
  IF Len(tokens) >= HeaderLen /\ tokens[3] = Raw(tokens[3][2])
    THEN ReadParts(SplitBody(tokens[3][2]))
    ELSE Refused

FileInit ==
  /\ file \in Found
  /\ pc = [p \in Proc |-> "idle"]
  /\ data = [p \in Proc |-> <<>>]
  /\ at = [p \in Proc |-> 0]
  /\ heard = [p \in Proc |-> Refused]
  /\ wants = [p \in Proc |-> Refused]
  /\ holds = Read(file)
  /\ offered = {Signed(file)} \ {Refused}
  /\ alone = {} /\ quiet = {}

----------------------------------------------------------------------------
(* Writing                                                                 *)

\* to_bytes, then open with trunc: a package validate refuses leaves the file
\* alone.
Writable(package) == Valid(package)

OpenForWriting(p, package) ==
  /\ pc[p] = "idle"
  /\ Writable(package)
  /\ file' = <<>> /\ holds' = Refused
  /\ pc' = [pc EXCEPT ![p] = "write"]
  /\ wants' = [wants EXCEPT ![p] = package]
  /\ data' = [data EXCEPT ![p] = Bytes(package)]
  /\ at' = [at EXCEPT ![p] = 0]
  /\ offered' = offered \cup {package}
  /\ alone' = IF Writing = {} THEN {p} ELSE {}
  /\ quiet' = {}
  /\ heard' = [heard EXCEPT ![p] = Refused]

\* The file once tokens are written at an offset: a gap before it is filled.
Overlay(old, from, tokens) ==
  [i \in 1..(IF Len(old) > from + Len(tokens) THEN Len(old) ELSE from + Len(tokens)) |->
     IF i \in from + 1..from + Len(tokens) THEN tokens[i - from]
     ELSE IF i <= Len(old) THEN old[i] ELSE Txt("gap")]

NextChunk(p) == SubSeq(data[p], at[p] + 1, Upto(data[p], at[p] + Chunk))

WriteChunk(p) ==
  /\ pc[p] = "write" /\ at[p] < Len(data[p])
  /\ file' = Overlay(file, at[p], NextChunk(p))
  /\ holds' = Read(file')
  /\ at' = [at EXCEPT ![p] = @ + Len(NextChunk(p))]
  /\ UNCHANGED <<pc, wants, data, heard, offered, alone, quiet>>

\* Mutant: the offset of the call before is left behind.
StopInPlace(p) ==
  /\ wants' = [wants EXCEPT ![p] = Refused]
  /\ pc' = [pc EXCEPT ![p] = "idle"]
  /\ data' = [data EXCEPT ![p] = <<>>]
  /\ at' = at
Stop(p) ==
  /\ wants' = [wants EXCEPT ![p] = Refused]
  /\ pc' = [pc EXCEPT ![p] = "idle"]
  /\ data' = [data EXCEPT ![p] = <<>>]
  /\ at' = [at EXCEPT ![p] = 0]

Written(p) ==
  /\ pc[p] = "write" /\ at[p] = Len(data[p])
  /\ Stop(p)
  /\ heard' = [heard EXCEPT ![p] = wants[p]]
  /\ alone' = alone \ {p}
  /\ UNCHANGED <<file, holds, offered, quiet>>

\* write_file tests its stream before the buffer is flushed: what remains is
\* left to the stream's destructor, and a failure there to nobody.
TailLost(p) ==
  /\ FlushFails
  /\ pc[p] = "write"
  /\ at[p] < Len(data[p]) /\ at[p] + Chunk >= Len(data[p])
  /\ Stop(p)
  /\ heard' = [heard EXCEPT ![p] = wants[p]]
  /\ alone' = alone \ {p}
  /\ UNCHANGED <<file, holds, offered, quiet>>

\* write_file throws, or its process dies: what was written stays.
WriteBreaks(p) ==
  /\ pc[p] = "write"
  /\ Stop(p)
  /\ alone' = alone \ {p}
  /\ UNCHANGED <<file, heard, holds, offered, quiet>>

----------------------------------------------------------------------------
(* Reading                                                                 *)

OpenForReading(p) ==
  /\ pc[p] = "idle"
  /\ pc' = [pc EXCEPT ![p] = "read"]
  /\ quiet' = IF Writing = {} THEN quiet \cup {p} ELSE quiet
  /\ heard' = [heard EXCEPT ![p] = Refused]
  /\ UNCHANGED <<file, wants, data, at, holds, offered, alone>>

ReadChunk(p) ==
  /\ pc[p] = "read" /\ at[p] < Len(file)
  /\ LET upto == Upto(file, at[p] + Chunk)
     IN /\ data' = [data EXCEPT ![p] = @ \o SubSeq(file, at[p] + 1, upto)]
        /\ at' = [at EXCEPT ![p] = upto]
  /\ UNCHANGED <<file, pc, wants, heard, holds, offered, alone, quiet>>

\* The end of the file, and the parse of what was read.
Parse(p) ==
  /\ pc[p] = "read" /\ at[p] >= Len(file)
  /\ heard' = [heard EXCEPT ![p] = Read(data[p])]
  /\ Stop(p)
  /\ quiet' = quiet \ {p}
  /\ UNCHANGED <<file, holds, offered, alone>>

----------------------------------------------------------------------------

\* The machine goes down: every process with it, and the end of the file that
\* was never brought to the disk.
PowerLoss ==
  /\ \E n \in 0..Len(file) : n % Chunk = 0 /\ file' = SubSeq(file, 1, n)
  /\ holds' = Read(file')
  /\ pc' = [p \in Proc |-> "idle"]
  /\ wants' = [p \in Proc |-> Refused]
  /\ data' = [p \in Proc |-> <<>>]
  /\ at' = [p \in Proc |-> 0]
  /\ heard' = [p \in Proc |-> Refused]
  /\ alone' = {} /\ quiet' = {}
  /\ UNCHANGED offered

FileNext ==
  \/ \E p \in Proc, package \in Packages : OpenForWriting(p, package)
  \/ \E p \in Proc : heard[p] # Refused /\ OpenForWriting(p, heard[p])
  \/ \E p \in Proc : \/ WriteChunk(p) \/ Written(p) \/ TailLost(p) \/ WriteBreaks(p)
                     \/ OpenForReading(p) \/ ReadChunk(p) \/ Parse(p)
  \/ PowerLoss

FileSpec == FileInit /\ [][FileNext]_fileVars

----------------------------------------------------------------------------
(* Properties                                                              *)

FileTypeOK ==
  /\ pc \in [Proc -> {"idle", "write", "read"}]
  /\ \A p \in Proc : pc[p] = "idle" => data[p] = <<>> /\ at[p] = 0
  /\ \A p \in Proc : pc[p] = "write" => at[p] \in 0..Len(data[p])
  /\ \A p \in Proc : pc[p] = "read" => at[p] = Len(data[p])
  /\ alone \subseteq Writing /\ quiet \subseteq Reading
  /\ quiet # {} => Writing = {}

\* The packages that can come into the file.
Known == (Packages \cup {Signed(f) : f \in Found}) \ {Refused}

\* What the codec does for them: what write makes of a package it accepts is a
\* list of tokens that read makes that package of (v1.cpp:48-70, :140-179).
RoundTrips ==
  \A p \in Known : Valid(p) => Body(p) \in Seq(ToSet(Body(p))) /\ Read(Bytes(p)) = p

\* The file is a register of packages that may be damaged but never lies
\* (PackageFile): whatever is interrupted, overlapped or torn, a reader gets a
\* package some producer handed over, whole, or is refused; an undisturbed
\* write that returned is read back as it was written, unknown blocks, ranges
\* and semantics included, or, if its last flush failed, refused; and what could
\* not be read again is never written (package.cpp:357-395, v1.cpp:48-70 and
\* :140-179).
Register == INSTANCE PackageFile WITH
    Package <- Known,
    value   <- IF Writing = {} THEN holds ELSE Refused,
    reading <- Reading
IsARegister == Register!Spec

\* "a package must survive a trip through the filesystem unchanged"
\* (src/tests/rf3m_roundtrip.cpp:650): the same register, in which a write that
\* was alone and returned has stored its package.
Store == INSTANCE PackageFile WITH
    Package    <- Known,
    FlushFails <- FALSE,
    value      <- IF Writing = {} THEN holds ELSE Refused,
    reading    <- Reading
IsAStore == Store!Spec

\* The scan that skips the payloads tells what the full read finds, wherever
\* the full read accepts (v1.cpp:93-105): the same descriptors, one entry for
\* each block with the length of its payload, and the composition a session
\* would take.  The scan of package.cpp takes the first composition block and
\* that of v1.cpp the last.
ListingAgrees ==
  LET whole == holds
      m == ReadMetadata(file)
  IN whole # Refused =>
       /\ m # Refused
       /\ m.parts = [n \in DOMAIN m.parts |-> whole[n]]
       /\ m.blocks = [i \in DOMAIN whole.blocks |->
            [kind |-> whole.blocks[i].kind, name |-> whole.blocks[i].name,
             arch |-> whole.blocks[i].arch, bytes |-> Len(whole.blocks[i].payload)]]
       /\ m.composition = IF Compositions(whole) = <<>> THEN <<>>
                          ELSE <<DecodeComposition(Compositions(whole)[1].payload).value>>

=============================================================================
