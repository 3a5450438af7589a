------------------------------ MODULE EvidenceLog ------------------------------
(***************************************************************************)
(* evidence.jsonl under the calls of EvidenceStore.append, made by the     *)
(* threads of one or more processes that share the directory.  A record is *)
(* two pieces, the second of which ends the line: the system may take one  *)
(* and report a short write, so what a crash, a full disk or another       *)
(* writer leaves between them is visible.  The file is opened for          *)
(* appending, written under a lock of its process, and synced.             *)
(***************************************************************************)
EXTENDS Naturals, Sequences, SequencesExt, FiniteSets

CONSTANTS Calls,      \* calls of append
          ProcessOf,  \* [Calls -> process]
          MaxOutages  \* bound: power losses explored

ASSUME OutagesAssumption == MaxOutages \in Nat

VARIABLES
  pc,      \* [Calls -> {"idle", "append", "done", "failed", "dead"}]
  left,    \* [Calls -> 0..2]: pieces of the record still to be written
  file,    \* sequence of pieces
  synced,  \* length of the file that is known to be on the disk
  outages

vars == <<pc, left, file, synced, outages>>

Piece(c, n) == [call |-> c, part |-> n]
Line(c) == <<Piece(c, 1), Piece(c, 2)>>
Goto(c, label) == pc' = [pc EXCEPT ![c] = label]

\* n more pieces of c's record reach the end of the file.
Put(c, n) ==
  /\ file' = file \o SubSeq(Line(c), 3 - left[c], 2 - left[c] + n)
  /\ left' = [left EXCEPT ![c] = @ - n]

Init ==
  /\ pc = [c \in Calls |-> "idle"]
  /\ left = [c \in Calls |-> 2]
  /\ file = <<>>
  /\ synced = 0
  /\ outages = 0

-----------------------------------------------------------------------------
\* The kind is empty, or the record has no UTF-8 encoding (a body preview with
\* an unpaired surrogate): append raises before it touches the file.
Refuse(c) ==
  /\ pc[c] = "idle"
  /\ Goto(c, "failed")
  /\ UNCHANGED <<left, file, synced, outages>>

\* Mutant: the file is written without the lock.
OpenUnlocked(c) ==
  /\ pc[c] = "idle"
  /\ Goto(c, "append")
  /\ UNCHANGED <<left, file, synced, outages>>

\* The lock of the process is taken and the file is opened.
Open(c) ==
  /\ pc[c] = "idle"
  /\ \A d \in Calls : ProcessOf[d] = ProcessOf[c] => pc[d] # "append"
  /\ Goto(c, "append")
  /\ UNCHANGED <<left, file, synced, outages>>

\* Mutant: the file is opened for writing, not for appending.
WriteOver(c) ==
  /\ pc[c] = "append"
  /\ \E n \in 1..left[c] :
       /\ file' = SubSeq(Line(c), 1, n)
       /\ left' = [left EXCEPT ![c] = @ - n]
  /\ UNCHANGED <<pc, synced, outages>>

\* One write(2) on the file: all that is left of the record, or less.
Write(c) ==
  /\ pc[c] = "append"
  /\ \E n \in 1..left[c] : Put(c, n)
  /\ UNCHANGED <<pc, synced, outages>>

\* Mutant: the record is returned without fsync.
ReturnUnsynced(c) ==
  /\ pc[c] = "append" /\ left[c] = 0
  /\ Goto(c, "done")
  /\ UNCHANGED <<left, file, synced, outages>>

\* fsync and chmod, the lock is released and the record is returned.
Return(c) ==
  /\ pc[c] = "append" /\ left[c] = 0
  /\ synced' = Len(file)
  /\ Goto(c, "done")
  /\ UNCHANGED <<left, file, outages>>

\* A write, fsync or chmod raises OSError.  Closing the file flushes it again,
\* so more of the record may still get through; in the end append raises,
\* whatever is in the file.
Fault(c) ==
  /\ pc[c] = "append"
  /\ \E n \in 0..left[c] : Put(c, n)
  /\ Goto(c, "failed")
  /\ UNCHANGED <<synced, outages>>

Die(calls) == pc' = [c \in Calls |-> IF c \in calls /\ pc[c] = "append" THEN "dead" ELSE pc[c]]

\* A process dies in whatever its threads were doing.  Calls that have not
\* begun belong to its successor.
Crash(p) ==
  /\ \E c \in Calls : ProcessOf[c] = p /\ pc[c] = "append"
  /\ Die({c \in Calls : ProcessOf[c] = p})
  /\ UNCHANGED <<left, file, synced, outages>>

\* The machine loses power: what was not synced may be lost from the end.
PowerLoss ==
  /\ outages < MaxOutages
  /\ outages' = outages + 1
  /\ Die(Calls)
  /\ \E n \in synced..Len(file) : file' = SubSeq(file, 1, n) /\ synced' = n
  /\ UNCHANGED left

-----------------------------------------------------------------------------
CallStep(c) == Refuse(c) \/ Open(c) \/ Write(c) \/ Return(c) \/ Fault(c)

Finished == \A c \in Calls : pc[c] \in {"done", "failed", "dead"}

Next ==
  \/ \E c \in Calls : CallStep(c) \/ Crash(ProcessOf[c])
  \/ PowerLoss
  \/ Finished /\ UNCHANGED vars

Spec == Init /\ [][Next]_vars

-----------------------------------------------------------------------------
(* Properties.                                                             *)

At(c, n) == {i \in DOMAIN file : file[i] = Piece(c, n)}

\* The record of c can be read: its pieces are neighbours and begin a line.
Readable(c) ==
  \E i \in At(c, 1) : i + 1 \in At(c, 2) /\ (i = 1 \/ file[i - 1].part = 2)

\* A record that append returned is in the file once, in order, for good:
\* through crashes, faults of other calls and loss of power.
ReturnedIsKept ==
  \A c \in Calls : pc[c] = "done" =>
    \E i, j \in 1..synced : i < j /\ At(c, 1) = {i} /\ At(c, 2) = {j}

\* Records cut off after their first piece, and records another process wrote
\* into the middle of.
Cut == {c \in Calls : pc[c] # "append" /\ At(c, 1) # {} /\ At(c, 2) = {}}
Mixed ==
  {c \in Calls : \E i \in At(c, 1) :
     i < Len(file) /\ ProcessOf[file[i + 1].call] # ProcessOf[c]}

\* How much of the evidence the tearing of records can make unreadable: a
\* record cut off costs itself and at most one returned record, two processes
\* that write at once cost each other, and threads of one process never do.
DamageBounded ==
  Cardinality({c \in Calls : pc[c] = "done" /\ ~Readable(c)})
    <= Cardinality(Cut) + 2 * Cardinality(Mixed)

\* The evidence file is append-only: what was synced is never changed, removed
\* or moved by anyone.
AppendOnly == [][IsPrefix(SubSeq(file, 1, synced), file')]_vars
=============================================================================
