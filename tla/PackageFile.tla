---------------------------- MODULE PackageFile ----------------------------
(***************************************************************************)
(* What a package file promises to the processes that share it: a register *)
(* of packages that may be found damaged but never lies.                   *)
(*                                                                         *)
(* While somebody writes it, the file holds no package.  A write that was  *)
(* alone and returned has stored its package, or, where the last flush can *)
(* fail unseen, left damage.  Writes that overlap, or that break off,      *)
(* leave one of the packages that were offered, or damage.                 *)
(* A read nobody wrote during yields exactly what the file holds; any      *)
(* other yields a package that was offered, or is refused.                 *)
(***************************************************************************)
CONSTANTS
  Proc,      \* the processes
  Package,   \* the packages there are
  Refused,   \* what a reader of a damaged file gets
  FlushFails \* whether a write may return although its last flush failed

VARIABLES
  value,     \* the package the file holds, or Refused
  offered,   \* the packages that were ever written to it
  wants,     \* [Proc -> the package it is writing, or Refused]
  alone,     \* those of them no other process has overlapped
  reading,   \* the processes that are reading it
  quiet,     \* those of them nobody has written during
  heard      \* [Proc -> the package its last call stored or read, or Refused]

vars == <<value, offered, wants, alone, reading, quiet, heard>>

\* The processes that are writing it.
Writing == {p \in Proc : wants[p] # Refused}
Busy    == Writing \cup reading

Init ==
  /\ offered \subseteq Package
  /\ value \in offered \cup {Refused}
  /\ wants = [p \in Proc |-> Refused]
  /\ alone = {} /\ reading = {} /\ quiet = {}
  /\ heard = [p \in Proc |-> Refused]

BeginWrite(p, package) ==
  /\ p \notin Busy
  /\ offered' = offered \cup {package}
  /\ value' = Refused
  /\ wants' = [wants EXCEPT ![p] = package]
  /\ alone' = IF Writing = {} THEN {p} ELSE {}
  /\ quiet' = {}
  /\ heard' = [heard EXCEPT ![p] = Refused]
  /\ UNCHANGED reading

\* What the file holds once p writes no more.
Left(p) == IF Writing = {p} THEN offered \cup {Refused} ELSE {Refused}

\* What it holds once p, never overlapped, has returned.
Stored(p) == {wants[p]} \cup (IF FlushFails THEN {Refused} ELSE {})

\* A write that returns.
EndWrite(p) ==
  /\ p \in Writing
  /\ wants' = [wants EXCEPT ![p] = Refused] /\ alone' = alone \ {p}
  /\ value' \in IF p \in alone THEN Stored(p) ELSE Left(p)
  /\ heard' = [heard EXCEPT ![p] = wants[p]]
  /\ UNCHANGED <<offered, reading, quiet>>

\* A write that fails, or whose process dies: nothing, or what it had finished.
BreakWrite(p) ==
  /\ p \in Writing
  /\ wants' = [wants EXCEPT ![p] = Refused] /\ alone' = alone \ {p}
  /\ value' \in Left(p)
  /\ UNCHANGED <<offered, reading, quiet, heard>>

BeginRead(p) ==
  /\ p \notin Busy
  /\ reading' = reading \cup {p}
  /\ quiet' = IF Writing = {} THEN quiet \cup {p} ELSE quiet
  /\ heard' = [heard EXCEPT ![p] = Refused]
  /\ UNCHANGED <<value, offered, wants, alone>>

EndRead(p) ==
  /\ p \in reading
  /\ reading' = reading \ {p} /\ quiet' = quiet \ {p}
  /\ \E result \in IF p \in quiet THEN {value} ELSE offered \cup {Refused} :
       heard' = [heard EXCEPT ![p] = result]
  /\ UNCHANGED <<value, offered, wants, alone>>

\* The machine stops: every call is gone, and so may be what was written.
PowerLoss ==
  /\ value' \in {value, Refused} \cup offered
  /\ wants' = [p \in Proc |-> Refused] /\ alone' = {} /\ reading' = {} /\ quiet' = {}
  /\ heard' = [p \in Proc |-> Refused]
  /\ UNCHANGED offered

Next ==
  \/ \E p \in Proc, package \in Package : BeginWrite(p, package)
  \/ \E p \in Proc : EndWrite(p) \/ BreakWrite(p) \/ BeginRead(p) \/ EndRead(p)
  \/ PowerLoss

Spec == Init /\ [][Next]_vars

=============================================================================
