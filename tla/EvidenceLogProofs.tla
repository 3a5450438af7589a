--------------------------- MODULE EvidenceLogProofs ---------------------------
(***************************************************************************)
(* The evidence file keeps what append returned, for any number of calls,  *)
(* processes and power losses.                                             *)
(***************************************************************************)
EXTENDS EvidenceLog, SequenceTheorems, FiniteSetTheorems, TLAPS

Pieces == [call : Calls, part : 1..2]

Types ==
  /\ pc \in [Calls -> {"idle", "append", "done", "failed", "dead"}]
  /\ left \in [Calls -> 0..2]
  /\ file \in Seq(Pieces)
  /\ synced \in 0..Len(file)
  /\ outages \in 0..MaxOutages

\* n more pieces of c leave the file as it was and follow it in their order.
LEMMA PutAppends ==
  ASSUME Types, NEW c \in Calls, NEW n \in 0..left[c], Put(c, n)
  PROVE  /\ file' \in Seq(Pieces)
         /\ Len(file') = Len(file) + n
         /\ \A i \in 1..Len(file) : file'[i] = file[i]
         /\ \A k \in 1..n : file'[Len(file) + k] = Piece(c, 2 - left[c] + k)
         /\ left' = [left EXCEPT ![c] = @ - n]
         /\ left' \in [Calls -> 0..2]
<1> DEFINE from == 3 - left[c]
           part == SubSeq(Line(c), from, 2 - left[c] + n)
<1>1. left[c] \in 0..2 /\ n \in 0..2 /\ n <= left[c]
  BY DEF Types
<1>2. Line(c) \in Seq(Pieces) /\ Len(Line(c)) = 2
  BY DEF Line, Piece, Pieces
<1>3. \A k \in 1..2 : Line(c)[k] = Piece(c, k)
  BY DEF Line
<1>4. /\ part \in Seq(Pieces)
      /\ Len(part) = n
      /\ \A k \in 1..n : part[k] = Piece(c, 2 - left[c] + k)
  <2> DEFINE to == 2 - left[c] + n
  <2>1. from \in 1..3 /\ to \in 0..2 /\ to = from - 1 + n
    BY <1>1
  <2> HIDE DEF from, to
  <2>2. /\ SubSeq(Line(c), from, to) \in Seq(Pieces)
        /\ Len(SubSeq(Line(c), from, to)) = IF from <= to THEN to - from + 1 ELSE 0
        /\ \A k \in 1..to - from + 1 : SubSeq(Line(c), from, to)[k] = Line(c)[from + k - 1]
    <3>1. \A i \in from..to : Line(c)[i] \in Pieces
      BY <1>3, <2>1 DEF Piece, Pieces
    <3>2. from \in Int /\ to \in Int
      BY <2>1
    <3> QED
      BY <3>1, <3>2, SubSeqProperties
  <2>3. \A k \in 1..n : from + k - 1 \in 1..2 /\ from + k - 1 = 2 - left[c] + k
    BY <1>1, <2>1 DEF from
  <2>4. part = SubSeq(Line(c), from, to)
    BY DEF to
  <2> HIDE DEF part
  <2>5. to - from + 1 = n /\ (IF from <= to THEN to - from + 1 ELSE 0) = n
    BY <1>1, <2>1
  <2>6. part \in Seq(Pieces) /\ Len(part) = n
    BY <2>2, <2>4, <2>5
  <2>7. ASSUME NEW k \in 1..n PROVE part[k] = Piece(c, 2 - left[c] + k)
    <3>1. part[k] = Line(c)[from + k - 1]
      BY <2>2, <2>4, <2>5
    <3>2. Line(c)[from + k - 1] = Piece(c, from + k - 1)
      BY <1>3, <2>3
    <3> QED
      BY <2>3, <3>1, <3>2
  <2> QED
    BY <2>6, <2>7
<1>5. file' = file \o part /\ left' = [left EXCEPT ![c] = @ - n]
  BY DEF Put
<1>6. file \in Seq(Pieces) /\ left \in [Calls -> 0..2]
  BY DEF Types
<1> HIDE DEF part
<1>7. /\ file' \in Seq(Pieces)
      /\ Len(file') = Len(file) + n
      /\ \A i \in 1..Len(file) : file'[i] = file[i]
      /\ \A k \in 1..n : file'[Len(file) + k] = part[k]
  <2>1. /\ file' \in Seq(Pieces)
        /\ Len(file') = Len(file) + Len(part)
        /\ \A i \in 1..Len(file) + Len(part) :
             file'[i] = IF i <= Len(file) THEN file[i] ELSE part[i - Len(file)]
    BY <1>4, <1>5, <1>6, ConcatProperties
  <2>2. Len(file) \in Nat
    BY <1>6
  <2>3. \A k \in 1..n : file'[Len(file) + k] = part[(Len(file) + k) - Len(file)]
    BY <1>1, <1>4, <2>1, <2>2
  <2> QED
    BY <1>1, <1>4, <2>1, <2>2, <2>3
<1>8. left' \in [Calls -> 0..2]
  BY <1>1, <1>5, <1>6
<1> QED
  BY <1>4, <1>5, <1>7, <1>8

\* Losing the end of the file leaves its beginning as it was.
LEMMA CutKeeps ==
  ASSUME Types, NEW n \in synced..Len(file), file' = SubSeq(file, 1, n)
  PROVE  /\ file' \in Seq(Pieces)
         /\ Len(file') = n
         /\ \A i \in 1..n : file'[i] = file[i]
BY DEF Types

\* Every write, crash and loss of power keeps the types.
LEMMA StepTypes ==
  ASSUME Types, [Next]_vars
  PROVE  Types'
<1> USE OutagesAssumption
<1>1. ASSUME NEW c \in Calls, Refuse(c) \/ Open(c) PROVE Types'
  BY <1>1 DEF Refuse, Open, Goto, Types
<1>2. ASSUME NEW c \in Calls, Write(c) PROVE Types'
  <2>1. PICK n \in 1..left[c] : Put(c, n)
    BY <1>2 DEF Write
  <2>2. n \in 0..left[c]
    BY DEF Types
  <2> QED
    BY <1>2, <2>1, <2>2, PutAppends DEF Write, Types
<1>3. ASSUME NEW c \in Calls, Return(c) PROVE Types'
  BY <1>3 DEF Return, Goto, Types
<1>4. ASSUME NEW c \in Calls, Fault(c) PROVE Types'
  <2>1. PICK n \in 0..left[c] : Put(c, n)
    BY <1>4 DEF Fault
  <2> QED
    BY <1>4, <2>1, PutAppends DEF Fault, Goto, Types
<1>5. ASSUME NEW p, Crash(p) PROVE Types'
  BY <1>5 DEF Crash, Die, Types
<1>6. CASE PowerLoss
  <2>1. PICK n \in synced..Len(file) : file' = SubSeq(file, 1, n) /\ synced' = n
    BY <1>6 DEF PowerLoss
  <2>2. n \in Nat
    BY DEF Types
  <2> QED
    BY <1>6, <2>1, <2>2, CutKeeps DEF PowerLoss, Die, Types
<1>7. CASE UNCHANGED vars
  BY <1>7 DEF vars, Types
<1> QED
  BY <1>1, <1>2, <1>3, <1>4, <1>5, <1>6, <1>7 DEF Next, CallStep

\* So every reachable state is well typed.
LEMMA TypesInvariant == Spec => []Types
<1>1. Init => Types
  BY OutagesAssumption DEF Init, Types
<1> QED
  BY <1>1, StepTypes, PTL DEF Spec

-----------------------------------------------------------------------------
\* What was synced is never changed, removed or moved by anyone.
THEOREM AppendOnlyHolds == Spec => AppendOnly
<1>1. ASSUME Types, Types', [Next]_vars PROVE IsPrefix(SubSeq(file, 1, synced), file')
  <2> DEFINE old == SubSeq(file, 1, synced)
  <2>1. /\ old \in Seq(Pieces) /\ Len(old) = synced
        /\ \A i \in 1..synced : old[i] = file[i]
    BY <1>1 DEF Types
  <2>2. file' \in Seq(Pieces) /\ synced <= Len(file')
        /\ \A i \in 1..synced : file'[i] = file[i]
    <3> USE <1>1
    <3>1. ASSUME NEW c \in Calls, Write(c) \/ Fault(c)
          PROVE  Len(file) <= Len(file') /\ \A i \in 1..Len(file) : file'[i] = file[i]
      <4>1. PICK n \in 0..left[c] : Put(c, n)
        BY <3>1 DEF Write, Fault, Types
      <4> QED
        BY <4>1, PutAppends DEF Types
    <3>2. CASE PowerLoss
      BY <3>2, CutKeeps DEF PowerLoss, Types
    <3>3. CASE UNCHANGED file
      BY <3>3 DEF Types
    <3>4. file' \in Seq(Pieces) /\ file \in Seq(Pieces) /\ synced \in 0..Len(file)
      BY DEF Types
    <3>5. \/ UNCHANGED file
          \/ PowerLoss
          \/ \E c \in Calls : Write(c) \/ Fault(c)
      BY DEF Next, CallStep, Refuse, Open, Return, Crash, vars
    <3>6. CASE \E c \in Calls : Write(c) \/ Fault(c)
      BY <3>1, <3>4, <3>6
    <3> QED
      BY <3>2, <3>3, <3>4, <3>5, <3>6
  <2> HIDE DEF old
  <2>3. SubSeq(file', 1, synced) \in Seq(Pieces) /\ Len(SubSeq(file', 1, synced)) = synced
        /\ \A i \in 1..synced : SubSeq(file', 1, synced)[i] = file'[i]
    BY <1>1, <2>2 DEF Types
  <2>4. SubSeq(old, 1, synced) = old
    BY <1>1, <2>1, SubSeqFull
  <2>5. old = SubSeq(file', 1, synced)
    BY <2>1, <2>2, <2>3, SeqEqual
  <2> QED
    BY <2>1, <2>2, <2>4, <2>5 DEF IsPrefix, old
<1> QED
  BY <1>1, TypesInvariant, PTL DEF Spec, AppendOnly

-----------------------------------------------------------------------------
(* Where the pieces of a call are.                                         *)

\* Of c's two pieces exactly those that are no longer left are in the file,
\* once and in order.
Shape(c) ==
  \/ left[c] = 2 /\ At(c, 1) = {} /\ At(c, 2) = {}
  \/ left[c] = 1 /\ At(c, 2) = {} /\ \E i \in 1..Len(file) : At(c, 1) = {i}
  \/ left[c] = 0 /\ \E i, j \in 1..Len(file) : i < j /\ At(c, 1) = {i} /\ At(c, 2) = {j}

\* That holds of calls that failed or died as well, until a loss of power takes
\* pieces away.  What a returned call wrote is synced.
KeptInv ==
  \A c \in Calls :
    /\ pc[c] \in {"idle", "append", "done"} => Shape(c)
    /\ pc[c] = "idle" => left[c] = 2
    /\ pc[c] = "done" => /\ left[c] = 0
                         /\ At(c, 1) \cup At(c, 2) \subseteq 1..synced

\* Which pieces n more of c add, and where.
LEMMA PutAt ==
  ASSUME Types, NEW c \in Calls, NEW n \in 0..left[c], Put(c, n)
  PROVE  /\ \A d \in Calls \ {c}, m \in 1..2 : At(d, m)' = At(d, m)
         /\ \A m \in 1..2 :
              At(c, m)' = IF m \in (3 - left[c])..(2 - left[c] + n)
                          THEN At(c, m) \cup {Len(file) + m - 2 + left[c]} ELSE At(c, m)
<1> DEFINE len == Len(file)
           r == left[c]
<1>1. /\ DOMAIN file = 1..len /\ DOMAIN file' = 1..(len + n)
      /\ len \in Nat /\ r \in 0..2 /\ n \in 0..r
      /\ \A i \in 1..len : file'[i] = file[i]
      /\ \A k \in 1..n : file'[len + k] = Piece(c, 2 - r + k)
  BY PutAppends DEF Types
<1> HIDE DEF len, r
<1>2. \A d, e, m, k : Piece(d, m) = Piece(e, k) <=> d = e /\ m = k
  BY DEF Piece
<1>3. \A i \in 1..(len + n) : i \in 1..len \/ (i - len \in 1..n /\ file'[i] = Piece(c, 2 - r + (i - len)))
  <2> SUFFICES ASSUME NEW i \in 1..(len + n), i \notin 1..len
               PROVE  i - len \in 1..n /\ file'[i] = Piece(c, 2 - r + (i - len))
    OBVIOUS
  <2>1. i - len \in 1..n /\ i = len + (i - len)
    BY <1>1
  <2> QED
    BY <1>1, <2>1
<1>4. ASSUME NEW d \in Calls \ {c}, NEW m \in 1..2 PROVE At(d, m)' = At(d, m)
  <2>1. \A i \in 1..(len + n) : file'[i] = Piece(d, m) => i \in 1..len
    BY <1>2, <1>3
  <2> QED
    BY <1>1, <2>1 DEF At
<1>5. ASSUME NEW m \in 1..2
      PROVE  At(c, m)' = IF m \in (3 - r)..(2 - r + n) THEN At(c, m) \cup {len + m - 2 + r}
                         ELSE At(c, m)
  <2> DEFINE at == len + m - 2 + r
  <2>1. \A i \in 1..(len + n) :
          i \in 1..len \/ (file'[i] = Piece(c, m) <=> i = at)
    <3> TAKE i \in 1..(len + n)
    <3>1. CASE i \notin 1..len
      <4>1. file'[i] = Piece(c, 2 - r + (i - len))
        BY <1>3, <3>1
      <4>2. file'[i] = Piece(c, m) <=> m = 2 - r + (i - len)
        BY <1>2, <4>1
      <4> QED
        BY <1>1, <4>2
    <3> QED
      BY <3>1
  <2>2. m \in (3 - r)..(2 - r + n) <=> at \in (len + 1)..(len + n)
    BY <1>1
  <2>3. at \in Int
    BY <1>1
  <2> HIDE DEF at
  <2>4. \A i : i \in At(c, m)' <=> i \in 1..(len + n) /\ file'[i] = Piece(c, m)
    BY <1>1 DEF At
  <2>5. \A i : i \in At(c, m) <=> i \in 1..len /\ file[i] = Piece(c, m)
    BY <1>1 DEF At
  <2>6. \A i \in 1..len : i \in 1..(len + n) /\ i \notin (len + 1)..(len + n)
    BY <1>1
  <2>7. \A i \in (len + 1)..(len + n) : i \in 1..(len + n) /\ i \notin 1..len
    BY <1>1
  <2>8. \A i \in 1..(len + n) : i \in 1..len \/ i \in (len + 1)..(len + n)
    BY <1>1
  <2>9. CASE at \in (len + 1)..(len + n)
    <3>1. at \in 1..(len + n) /\ at \notin 1..len /\ file'[at] = Piece(c, m)
      BY <2>1, <2>7, <2>9
    <3>2. \A i : i \in At(c, m)' <=> i \in At(c, m) \/ i = at
      BY <1>1, <2>1, <2>4, <2>5, <2>6, <3>1
    <3>3. At(c, m)' = At(c, m) \cup {at}
      BY <3>2
    <3> QED
      BY <2>2, <2>9, <3>3 DEF at
  <2>10. CASE at \notin (len + 1)..(len + n)
    <3>1. \A i : i \in At(c, m)' <=> i \in At(c, m)
      BY <1>1, <2>1, <2>4, <2>5, <2>6, <2>8, <2>10
    <3>2. At(c, m)' = At(c, m)
      BY <3>1
    <3> QED
      BY <2>2, <2>10, <3>2
  <2> QED
    BY <2>9, <2>10
<1> QED
  BY <1>4, <1>5 DEF len, r

\* Each write leaves the pieces of its call in shape.
LEMMA PutShape ==
  ASSUME Types, NEW c \in Calls, NEW n \in 0..left[c], Put(c, n), Shape(c)
  PROVE  Shape(c)'
<1>1. /\ left' = [left EXCEPT ![c] = @ - n] /\ left'[c] = left[c] - n
      /\ Len(file') = Len(file) + n /\ Len(file) \in Nat /\ left[c] \in 0..2
  BY PutAppends DEF Types
<1>2. n = 0 \/ n = 1 \/ n = 2
  BY <1>1
<1>3. CASE n = 0
  <2>1. At(c, 1)' = At(c, 1) /\ At(c, 2)' = At(c, 2)
    BY <1>1, <1>3, PutAt
  <2> QED
    BY <1>1, <1>3, <2>1 DEF Shape
<1>4. CASE n = 1 /\ left[c] = 2
  <2>1. At(c, 1)' = At(c, 1) \cup {Len(file) + 1} /\ At(c, 2)' = At(c, 2)
    BY <1>1, <1>4, PutAt
  <2> QED
    BY <1>1, <1>4, <2>1 DEF Shape
<1>5. CASE n = 1 /\ left[c] = 1
  <2>1. At(c, 1)' = At(c, 1) /\ At(c, 2)' = At(c, 2) \cup {Len(file) + 1}
    BY <1>1, <1>5, PutAt
  <2> QED
    BY <1>1, <1>5, <2>1 DEF Shape
<1>6. CASE n = 2
  <2>1. At(c, 1)' = At(c, 1) \cup {Len(file) + 1} /\ At(c, 2)' = At(c, 2) \cup {Len(file) + 2}
    BY <1>1, <1>6, PutAt
  <2> QED
    BY <1>1, <1>6, <2>1 DEF Shape
<1> QED
  BY <1>1, <1>2, <1>3, <1>4, <1>5, <1>6

\* A step of one call leaves the pieces of every other as they are.
LEMMA OthersKeep ==
  ASSUME Types, NEW c \in Calls, NEW n \in 0..left[c], Put(c, n), NEW d \in Calls \ {c}
  PROVE  /\ left'[d] = left[d] /\ At(d, 1)' = At(d, 1) /\ At(d, 2)' = At(d, 2)
         /\ Shape(d) => Shape(d)'
<1>1. left'[d] = left[d] /\ Len(file') = Len(file) + n /\ Len(file) \in Nat /\ n \in Nat
  BY PutAppends DEF Types
<1>2. At(d, 1)' = At(d, 1) /\ At(d, 2)' = At(d, 2)
  BY PutAt
<1> QED
  BY <1>1, <1>2 DEF Shape

\* Every step keeps the pieces of each call once and in order.
LEMMA KeptStep ==
  ASSUME Types, KeptInv, [Next]_vars
  PROVE  KeptInv'
<1>1. ASSUME NEW c \in Calls, Refuse(c) \/ Open(c) PROVE KeptInv'
  BY <1>1 DEF Refuse, Open, Goto, Types, KeptInv, Shape, At
<1>2. ASSUME NEW c \in Calls, NEW n \in 0..left[c], Put(c, n), UNCHANGED synced,
             pc[c] = "append", pc' = pc \/ pc' = [pc EXCEPT ![c] = "failed"]
      PROVE  KeptInv'
  <2>1. \A d \in Calls \ {c} : pc'[d] = pc[d]
    BY <1>2 DEF Types
  <2>2. pc'[c] \in {"append", "failed"} /\ Shape(c)'
    BY <1>2, PutShape DEF Types, KeptInv
  <2>3. ASSUME NEW d \in Calls \ {c}
        PROVE  /\ pc'[d] \in {"idle", "append", "done"} => Shape(d)'
               /\ pc'[d] = "idle" => left'[d] = 2
               /\ pc'[d] = "done" => /\ left'[d] = 0
                                    /\ (At(d, 1) \cup At(d, 2) \subseteq 1..synced)'
    <3>1. left'[d] = left[d] /\ At(d, 1)' = At(d, 1) /\ At(d, 2)' = At(d, 2)
          /\ (Shape(d) => Shape(d)')
      BY <1>2, OthersKeep
    <3>2. pc'[d] = pc[d] /\ synced' = synced
      BY <1>2, <2>1
    <3> QED
      BY <3>1, <3>2 DEF KeptInv
  <2> QED
    BY <2>2, <2>3 DEF KeptInv
<1>3. ASSUME NEW c \in Calls, Write(c) PROVE KeptInv'
  <2>1. PICK n \in 1..left[c] : Put(c, n)
    BY <1>3 DEF Write
  <2>2. n \in 0..left[c]
    BY DEF Types
  <2> QED
    BY <1>2, <1>3, <2>1, <2>2 DEF Write
<1>4. ASSUME NEW c \in Calls, Fault(c) PROVE KeptInv'
  BY <1>2, <1>4 DEF Fault, Goto
<1>5. ASSUME NEW c \in Calls, Return(c) PROVE KeptInv'
  <2>1. Shape(c) /\ left[c] = 0 /\ UNCHANGED <<left, file>> /\ synced' = Len(file)
    BY <1>5 DEF Return, KeptInv
  <2>2. \A d \in Calls : At(d, 1) \cup At(d, 2) \subseteq 1..Len(file)
    BY DEF At, Types
  <2>3. \A d \in Calls : Shape(d)' <=> Shape(d)
    BY <2>1 DEF Shape, At
  <2>4. \A d \in Calls : At(d, 1)' = At(d, 1) /\ At(d, 2)' = At(d, 2)
    BY <2>1 DEF At
  <2>5. \A d \in Calls \ {c} : pc'[d] = pc[d]
    BY <1>5 DEF Return, Goto, Types
  <2> QED
    BY <1>5, <2>1, <2>2, <2>3, <2>4, <2>5 DEF Return, Goto, Types, KeptInv
<1>6. ASSUME NEW p, Crash(p) PROVE KeptInv'
  BY <1>6 DEF Crash, Die, Types, KeptInv, Shape, At
<1>7. CASE PowerLoss
  <2>1. PICK n \in synced..Len(file) : file' = SubSeq(file, 1, n) /\ synced' = n
    BY <1>7 DEF PowerLoss
  <2>2. /\ n \in Nat /\ synced \in Nat /\ Len(file) \in Nat /\ synced <= n /\ n <= Len(file)
        /\ DOMAIN file = 1..Len(file) /\ DOMAIN file' = 1..n
        /\ \A i \in 1..n : file'[i] = file[i]
    BY <2>1, CutKeeps DEF Types
  <2>3. \A d \in Calls, m \in 1..2 : At(d, m)' = At(d, m) \cap 1..n
    BY <2>2 DEF At
  <2>4. \A d \in Calls : /\ pc'[d] \in {"idle", "append", "done"} => pc'[d] = pc[d] /\ pc[d] # "append"
                         /\ left'[d] = left[d]
    BY <1>7 DEF PowerLoss, Die, Types
  <2>5. ASSUME NEW d \in Calls, pc[d] = "idle" PROVE Shape(d)' /\ left'[d] = 2
    <3>1. left[d] = 2 /\ At(d, 1) = {} /\ At(d, 2) = {}
      BY <2>5 DEF KeptInv, Shape
    <3> QED
      BY <2>3, <2>4, <3>1 DEF Shape
  <2>6. ASSUME NEW d \in Calls, pc[d] = "done"
        PROVE  Shape(d)' /\ left'[d] = 0 /\ (At(d, 1) \cup At(d, 2) \subseteq 1..synced)'
    <3>1. PICK i, j \in 1..Len(file) : i < j /\ At(d, 1) = {i} /\ At(d, 2) = {j}
      BY <2>6 DEF KeptInv, Shape
    <3>2. left[d] = 0 /\ i \in 1..synced /\ j \in 1..synced
      BY <2>6, <3>1 DEF KeptInv
    <3>3. i \in 1..n /\ j \in 1..n /\ Len(file') = n
      BY <2>1, <2>2, <3>2, CutKeeps
    <3>4. At(d, 1)' = {i} /\ At(d, 2)' = {j}
      BY <2>3, <3>1, <3>3
    <3> QED
      BY <2>1, <2>4, <3>1, <3>2, <3>3, <3>4 DEF Shape
  <2> QED
    BY <2>4, <2>5, <2>6 DEF KeptInv
<1>8. CASE UNCHANGED vars
  BY <1>8 DEF vars, KeptInv, Shape, At
<1> QED
  BY <1>1, <1>3, <1>4, <1>5, <1>6, <1>7, <1>8 DEF Next, CallStep

\* So they are in every reachable state.
LEMMA KeptInvariant == Spec => [](Types /\ KeptInv)
<1>1. Init => KeptInv
  BY DEF Init, KeptInv, Shape, At
<1> QED
  BY <1>1, KeptStep, TypesInvariant, PTL DEF Spec

\* A record that append returned is in the file once, in order, for good.
THEOREM ReturnedIsKeptHolds == Spec => []ReturnedIsKept
<1>1. Types /\ KeptInv => ReturnedIsKept
  <2> SUFFICES ASSUME Types, KeptInv, NEW c \in Calls, pc[c] = "done"
               PROVE  \E i, j \in 1..synced : i < j /\ At(c, 1) = {i} /\ At(c, 2) = {j}
    BY DEF ReturnedIsKept
  <2>1. PICK i, j \in 1..Len(file) : i < j /\ At(c, 1) = {i} /\ At(c, 2) = {j}
    BY DEF KeptInv, Shape
  <2>2. i \in 1..synced /\ j \in 1..synced
    BY <2>1 DEF KeptInv
  <2> QED
    BY <2>1, <2>2
<1> QED
  BY <1>1, KeptInvariant, PTL

-----------------------------------------------------------------------------
(* What tearing costs.                                                     *)

Other(c, i) == ProcessOf[file[i].call] # ProcessOf[c]

\* No piece is in the file twice, and between the two of a record there are
\* only pieces of other processes.
Apart(c) ==
  /\ \A m \in 1..2 : \A i, j \in At(c, m) : i = j
  /\ \A i \in At(c, 1), j \in At(c, 2) : i < j /\ \A k \in i + 1..j - 1 : Other(c, k)

\* So it is because a process has one call at a time in the file, and while
\* that call has a piece left its last one is followed by other processes only.
TearInv ==
  /\ \A c \in Calls : Apart(c)
  /\ \A c, d \in Calls :
       pc[c] = "append" /\ pc[d] = "append" /\ ProcessOf[c] = ProcessOf[d] => c = d
  /\ \A c \in Calls : pc[c] = "append" /\ left[c] > 0 =>
       \A i \in At(c, 1) : \A k \in i + 1..Len(file) : Other(c, k)

\* Steps that leave the file alone.
LEMMA QuietTear ==
  ASSUME TearInv, UNCHANGED <<file, left>>,
         \A c \in Calls : pc'[c] = "append" =>
           \/ pc[c] = "append"
           \/ /\ At(c, 1) = {}
              /\ \A d \in Calls : pc'[d] = "append" /\ ProcessOf[d] = ProcessOf[c] => d = c
  PROVE  TearInv'
BY DEF TearInv, Apart, At, Other

\* What a write adds keeps the pieces of every call apart.
LEMMA PutTear ==
  ASSUME Types, KeptInv, TearInv, NEW c \in Calls, pc[c] = "append",
         NEW n \in 0..left[c], Put(c, n),
         \A d \in Calls : pc'[d] = "append" => pc[d] = "append"
  PROVE  TearInv'
<1> DEFINE len == Len(file)
<1>1. /\ len \in Nat /\ Len(file') = len + n /\ left[c] \in 0..2 /\ n \in 0..2 /\ n <= left[c]
      /\ left'[c] = left[c] - n /\ \A d \in Calls \ {c} : left'[d] = left[d]
      /\ \A i \in 1..len : file'[i] = file[i]
      /\ \A k \in 1..n : file'[len + k] = Piece(c, 2 - left[c] + k)
  BY PutAppends DEF Types
<1>2. \A d \in Calls, m \in 1..2 : At(d, m) \subseteq 1..len
  BY DEF At, Types
<1>3. \A d \in Calls \ {c}, m \in 1..2 : At(d, m)' = At(d, m)
  BY PutAt
<1>4. \A m \in 1..2 :
        At(c, m)' = IF m \in (3 - left[c])..(2 - left[c] + n)
                    THEN At(c, m) \cup {len + m - 2 + left[c]} ELSE At(c, m)
  BY PutAt
<1>5. Shape(c)
  BY DEF KeptInv
<1> HIDE DEF len
<1>6. \A d \in Calls, k \in 1..len : Other(d, k)' <=> Other(d, k)
  BY <1>1 DEF Other
<1>7. \A d \in Calls, k \in len + 1..len + n : ProcessOf[d] # ProcessOf[c] => Other(d, k)'
  <2> SUFFICES ASSUME NEW d \in Calls, NEW k \in len + 1..len + n, ProcessOf[d] # ProcessOf[c]
               PROVE  Other(d, k)'
    OBVIOUS
  <2>1. k - len \in 1..n /\ k = len + (k - len)
    BY <1>1
  <2>2. file'[k] = Piece(c, 2 - left[c] + (k - len))
    BY <1>1, <2>1
  <2> QED
    BY <2>2 DEF Other, Piece
<1>8. ASSUME NEW d \in Calls \ {c} PROVE Apart(d)'
  <2>1. \A i \in At(d, 1), j \in At(d, 2) : \A k \in i + 1..j - 1 : k \in 1..len
    BY <1>1, <1>2
  <2> QED
    BY <1>3, <1>6, <2>1 DEF TearInv, Apart
<1>9. Apart(c)'
  <2>1. CASE left[c] = 2
    <3>1. At(c, 1) = {} /\ At(c, 2) = {}
      BY <1>5, <2>1 DEF Shape
    <3>2. At(c, 1)' \subseteq {len + 1} /\ At(c, 2)' \subseteq {len + 2}
      BY <1>1, <1>4, <2>1, <3>1
    <3> QED
      BY <1>1, <3>2 DEF Apart
  <2>2. CASE left[c] = 1
    <3>1. PICK i \in 1..len : At(c, 1) = {i} /\ At(c, 2) = {}
      BY <1>5, <2>2 DEF Shape, len
    <3>2. At(c, 1)' = {i} /\ At(c, 2)' \subseteq {len + 1}
      BY <1>1, <1>4, <2>2, <3>1
    <3>3. \A k \in i + 1..len : Other(c, k)'
      <4>1. \A k \in i + 1..len : Other(c, k)
        BY <1>1, <2>2, <3>1 DEF TearInv, len
      <4> QED
        BY <1>1, <1>6, <3>1, <4>1
    <3> QED
      BY <1>1, <3>1, <3>2, <3>3 DEF Apart
  <2>3. CASE left[c] = 0
    <3>1. \A m \in 1..2 : At(c, m)' = At(c, m)
      BY <1>1, <1>4, <2>3
    <3>2. \A i \in At(c, 1), j \in At(c, 2) : \A k \in i + 1..j - 1 : k \in 1..len
      BY <1>1, <1>2
    <3> QED
      BY <1>6, <3>1, <3>2 DEF TearInv, Apart
  <2> QED
    BY <1>1, <2>1, <2>2, <2>3
<1>10. ASSUME NEW d \in Calls, pc'[d] = "append", left'[d] > 0,
              NEW i \in At(d, 1)', NEW k \in i + 1..len + n
       PROVE  Other(d, k)'
  <2>1. pc[d] = "append"
    BY <1>10
  <2>2. CASE d # c
    <3>1. ProcessOf[d] # ProcessOf[c]
      BY <2>1, <2>2 DEF TearInv
    <3>2. i \in At(d, 1) /\ i \in 1..len /\ left[d] > 0
      BY <1>1, <1>2, <1>3, <1>10, <2>2
    <3>3. k \in i + 1..len \/ k \in len + 1..len + n
      BY <1>1, <3>2
    <3>4. k \in i + 1..len => Other(d, k)
      BY <2>1, <3>2 DEF TearInv, len
    <3>5. k \in i + 1..len => k \in 1..len
      BY <1>1, <3>2
    <3> QED
      BY <1>6, <1>7, <3>1, <3>3, <3>4, <3>5
  <2>3. CASE d = c /\ n = 0
    <3>1. At(c, 1)' = At(c, 1) /\ left[c] > 0
      BY <1>1, <1>4, <1>10, <2>3
    <3>2. k \in i + 1..Len(file) /\ k \in 1..len
      BY <1>1, <1>2, <1>10, <2>3, <3>1 DEF len
    <3>3. Other(c, k)
      BY <1>10, <2>1, <2>3, <3>1, <3>2 DEF TearInv
    <3> QED
      BY <1>6, <2>3, <3>2, <3>3
  <2>4. CASE d = c /\ n > 0
    <3>1. left[c] = 2 /\ n = 1
      BY <1>1, <1>10, <2>4
    <3>2. At(c, 1)' = {len + 1}
      <4>1. At(c, 1) = {}
        BY <1>5, <3>1 DEF Shape
      <4> QED
        BY <1>1, <1>4, <3>1, <4>1
    <3> QED
      BY <1>1, <1>10, <2>4, <3>1, <3>2
  <2> QED
    BY <1>1, <2>2, <2>3, <2>4
<1> QED
  <2>1. \A d, e \in Calls :
          pc'[d] = "append" /\ pc'[e] = "append" /\ ProcessOf[d] = ProcessOf[e] => d = e
    BY DEF TearInv
  <2> QED
    BY <1>1, <1>8, <1>9, <1>10, <2>1 DEF TearInv

\* Every step keeps the pieces of a record apart only by those of other processes.
LEMMA TearStep ==
  ASSUME Types, KeptInv, TearInv, [Next]_vars
  PROVE  TearInv'
<1>1. ASSUME NEW c \in Calls, Refuse(c) \/ Return(c) PROVE TearInv'
  BY <1>1, QuietTear DEF Refuse, Return, Goto, Types
<1>2. ASSUME NEW c \in Calls, Open(c) PROVE TearInv'
  <2>1. pc[c] = "idle" /\ At(c, 1) = {}
    BY <1>2 DEF Open, KeptInv, Shape
  <2>2. \A d \in Calls : pc'[d] = "append" => pc[d] = "append" \/ d = c
    BY <1>2 DEF Open, Goto, Types
  <2>3. \A d \in Calls : pc'[d] = "append" /\ ProcessOf[d] = ProcessOf[c] => d = c
    BY <1>2, <2>2 DEF Open
  <2> QED
    BY <1>2, <2>1, <2>2, <2>3, QuietTear DEF Open
<1>3. ASSUME NEW c \in Calls, Write(c) \/ Fault(c) PROVE TearInv'
  <2>1. PICK n \in 0..left[c] : Put(c, n)
    BY <1>3 DEF Write, Fault, Types
  <2>2. pc[c] = "append" /\ \A d \in Calls : pc'[d] = "append" => pc[d] = "append"
    BY <1>3 DEF Write, Fault, Goto, Types
  <2> QED
    BY <2>1, <2>2, PutTear
<1>4. ASSUME NEW p, Crash(p) PROVE TearInv'
  BY <1>4, QuietTear DEF Crash, Die
<1>5. CASE PowerLoss
  <2>1. PICK n \in synced..Len(file) : file' = SubSeq(file, 1, n)
    BY <1>5 DEF PowerLoss
  <2>2. /\ n \in Nat /\ Len(file) \in Nat /\ n <= Len(file)
        /\ DOMAIN file = 1..Len(file) /\ DOMAIN file' = 1..n
        /\ \A i \in 1..n : file'[i] = file[i]
    BY <2>1, CutKeeps DEF Types
  <2>3. \A d \in Calls, m \in 1..2 : At(d, m)' = At(d, m) \cap 1..n
    BY <2>2 DEF At
  <2>4. \A d \in Calls : pc'[d] # "append"
    BY <1>5 DEF PowerLoss, Die, Types
  <2>5. \A d \in Calls, k \in 1..n : Other(d, k)' <=> Other(d, k)
    BY <2>2 DEF Other
  <2>6. ASSUME NEW d \in Calls PROVE Apart(d)'
    <3>1. \A i \in At(d, 1)', j \in At(d, 2)' : \A k \in i + 1..j - 1 : k \in 1..n
      BY <2>2, <2>3
    <3> QED
      BY <2>3, <2>5, <3>1 DEF TearInv, Apart
  <2> QED
    BY <2>4, <2>6 DEF TearInv
<1>6. CASE UNCHANGED vars
  BY <1>6, QuietTear DEF vars
<1> QED
  BY <1>1, <1>2, <1>3, <1>4, <1>5, <1>6 DEF Next, CallStep

\* So they are in every reachable state.
LEMMA TearInvariant == Spec => [](Types /\ KeptInv /\ TearInv)
<1>1. Init => TearInv
  BY DEF Init, TearInv, Apart, At
<1> QED
  BY <1>1, TearStep, KeptInvariant, PTL DEF Spec

\* Only finitely many calls have a piece in the file.
LEMMA WritersFinite ==
  ASSUME Types, NEW S \in SUBSET Calls,
         \A c \in S : \E i \in 1..Len(file) : file[i].call = c
  PROVE  IsFiniteSet(S)
<1> DEFINE piece == [c \in S |-> CHOOSE i \in 1..Len(file) : file[i].call = c]
<1>1. \A c \in S : piece[c] \in 1..Len(file) /\ file[piece[c]].call = c
  OBVIOUS
<1>2. piece \in [S -> 1..Len(file)]
  BY <1>1
<1> HIDE DEF piece
<1>3. piece \in Injection(S, 1..Len(file))
  BY <1>1, <1>2 DEF Injection, IsInjective
<1>4. IsFiniteSet(1..Len(file))
  BY FS_Interval DEF Types
<1> QED
  BY <1>3, <1>4, FS_Injection

Torn == {c \in Calls : pc[c] = "done" /\ ~Readable(c)}

\* A returned record that cannot be read, and that no other process wrote into,
\* follows the first piece of a record that is cut off or was written into.
LEMMA TornFollows ==
  ASSUME Types, KeptInv, TearInv, NEW c \in Torn \ Mixed
  PROVE  \E i \in At(c, 1), d \in Cut \cup Mixed : i - 1 \in At(d, 1)
<1>1. PICK i \in 1..Len(file), j \in 1..Len(file) : i < j /\ At(c, 1) = {i} /\ At(c, 2) = {j}
  BY DEF KeptInv, Shape, Torn
<1>2. /\ file \in Seq(Pieces) /\ Len(file) \in Nat /\ DOMAIN file = 1..Len(file)
      /\ \A k \in 1..Len(file) : file[k] \in Pieces
  BY DEF Types
<1>3. i + 1 \in 1..Len(file) /\ ~Other(c, i + 1)
  <2>1. i < Len(file) /\ i + 1 \in 1..Len(file)
    BY <1>1, <1>2
  <2>2. c \in Calls /\ c \notin Mixed /\ i \in At(c, 1)
    BY <1>1 DEF Torn
  <2> QED
    BY <2>1, <2>2 DEF Mixed, Other
<1>4. j = i + 1
  <2> SUFFICES ASSUME j # i + 1 PROVE FALSE
    OBVIOUS
  <2>1. i + 1 \in i + 1..j - 1
    BY <1>1, <1>2
  <2> QED
    BY <1>1, <1>3, <2>1 DEF TearInv, Apart, Torn
<1>5. i # 1 /\ file[i - 1].part # 2
  BY <1>1, <1>4 DEF Torn, Readable
<1>6. i - 1 \in 1..Len(file)
  BY <1>1, <1>2, <1>5
<1> DEFINE d == file[i - 1].call
<1>7. d \in Calls /\ file[i - 1] = Piece(d, 1)
  BY <1>2, <1>5, <1>6 DEF Pieces, Piece
<1>8. i - 1 \in At(d, 1)
  BY <1>2, <1>6, <1>7 DEF At
<1> HIDE DEF d
<1>9. d \in Cut \cup Mixed
  <2> SUFFICES ASSUME d \notin Cut, d \notin Mixed PROVE FALSE
    OBVIOUS
  <2>1. ~Other(d, i)
    BY <1>1, <1>2, <1>6, <1>7, <1>8 DEF Mixed, Other
  <2>2. CASE At(d, 2) = {}
    <3>1. pc[d] = "append"
      BY <1>7, <1>8, <2>2 DEF Cut
    <3>2. left[d] > 0
      <4>1. Shape(d) /\ At(d, 1) # {}
        BY <1>7, <1>8, <3>1 DEF KeptInv
      <4>2. left[d] = 1
        BY <2>2, <4>1 DEF Shape
      <4> QED
        BY <4>2
    <3>3. i \in (i - 1) + 1..Len(file)
      BY <1>1, <1>2
    <3> QED
      BY <1>7, <1>8, <2>1, <3>1, <3>2, <3>3 DEF TearInv
  <2>3. ASSUME NEW k \in At(d, 2) PROVE FALSE
    <3>1. k \in 1..Len(file) /\ file[k] = Piece(d, 2)
      BY <1>2, <2>3 DEF At
    <3>2. file[i] = Piece(c, 1)
      BY <1>1 DEF At
    <3>3. k # i
      BY <3>1, <3>2 DEF Piece
    <3>4. i - 1 < k
      BY <1>7, <1>8, <2>3 DEF TearInv, Apart
    <3>5. i \in (i - 1) + 1..k - 1
      BY <1>1, <1>2, <3>1, <3>3, <3>4
    <3> QED
      BY <1>7, <1>8, <2>1, <2>3, <3>5 DEF TearInv, Apart
  <2> QED
    BY <2>2, <2>3
<1> QED
  BY <1>1, <1>8, <1>9

\* A record cut off costs at most one returned record, two processes that write
\* into each other cost each other, and threads of one process cost nothing.
THEOREM DamageBoundedHolds == Spec => []DamageBounded
<1>1. ASSUME Types, KeptInv, TearInv PROVE DamageBounded
  <2> USE <1>1
  <2>1. \A c \in Calls, m \in 1..2 : At(c, m) # {} => \E i \in 1..Len(file) : file[i].call = c
    BY DEF At, Piece, Types
  <2>2. \A c \in Torn : At(c, 1) # {}
    BY DEF Torn, KeptInv, Shape
  <2>3. IsFiniteSet(Torn) /\ IsFiniteSet(Cut) /\ IsFiniteSet(Mixed)
    <3>1. Torn \in SUBSET Calls /\ Cut \in SUBSET Calls /\ Mixed \in SUBSET Calls
      BY DEF Torn, Cut, Mixed
    <3>2. \A c \in Torn \cup Cut \cup Mixed : c \in Calls /\ At(c, 1) # {}
      BY <2>2, <3>1 DEF Cut, Mixed
    <3> QED
      BY <2>1, <3>1, <3>2, WritersFinite
  <2> DEFINE Before == [c \in Torn \ Mixed |->
               CHOOSE d \in Cut \cup Mixed : \E i \in At(c, 1) : i - 1 \in At(d, 1)]
  <2>4. \A c \in Torn \ Mixed :
          Before[c] \in Cut \cup Mixed /\ \E i \in At(c, 1) : i - 1 \in At(Before[c], 1)
    BY TornFollows
  <2> HIDE DEF Before
  <2>5. ASSUME NEW b \in Torn \ Mixed, NEW c \in Torn \ Mixed, Before[b] = Before[c]
        PROVE  b = c
    <3>1. PICK i \in At(b, 1) : i - 1 \in At(Before[b], 1)
      BY <2>4
    <3>2. PICK j \in At(c, 1) : j - 1 \in At(Before[b], 1)
      BY <2>4, <2>5
    <3>3. Before[b] \in Calls
      BY <2>4 DEF Cut, Mixed
    <3>4. i - 1 = j - 1 /\ i \in Nat /\ j \in Nat
      BY <3>1, <3>2, <3>3 DEF TearInv, Apart, At, Types
    <3>5. file[i] = Piece(b, 1) /\ file[i] = Piece(c, 1)
      BY <3>1, <3>2, <3>4 DEF At
    <3> QED
      BY <3>5 DEF Piece
  <2>6. Before \in [Torn \ Mixed -> Cut \cup Mixed]
    BY <2>4 DEF Before
  <2>7. Before \in Injection(Torn \ Mixed, Cut \cup Mixed)
    BY <2>5, <2>6 DEF Injection, IsInjective
  <2>8. /\ IsFiniteSet(Cut \cup Mixed)
        /\ Cardinality(Cut \cup Mixed) <= Cardinality(Cut) + Cardinality(Mixed)
    <3>1. IsFiniteSet(Cut \cap Mixed)
      BY <2>3, FS_Intersection
    <3>2. /\ IsFiniteSet(Cut \cup Mixed)
          /\ Cardinality(Cut \cup Mixed)
               = Cardinality(Cut) + Cardinality(Mixed) - Cardinality(Cut \cap Mixed)
      BY <2>3, FS_Union
    <3>3. Cardinality(Cut) \in Nat /\ Cardinality(Mixed) \in Nat /\ Cardinality(Cut \cap Mixed) \in Nat
      BY <2>3, <3>1, FS_CardinalityType
    <3> QED
      BY <3>2, <3>3
  <2>9. Cardinality(Torn \ Mixed) <= Cardinality(Cut \cup Mixed)
    BY <2>7, <2>8, FS_Injection
  <2>10. Cardinality(Torn \cap Mixed) <= Cardinality(Mixed)
    BY <2>3, FS_Intersection
  <2>11. Cardinality(Torn \ Mixed) = Cardinality(Torn) - Cardinality(Torn \cap Mixed)
    BY <2>3, FS_Difference
  <2>12. /\ Cardinality(Torn) \in Nat /\ Cardinality(Torn \cap Mixed) \in Nat
         /\ Cardinality(Cut) \in Nat /\ Cardinality(Mixed) \in Nat
         /\ Cardinality(Torn \ Mixed) \in Int /\ Cardinality(Cut \cup Mixed) \in Nat
    BY <2>3, <2>8, <2>11, FS_CardinalityType, FS_Intersection
  <2>13. Cardinality(Torn) <= Cardinality(Cut) + 2 * Cardinality(Mixed)
    BY <2>8, <2>9, <2>10, <2>11, <2>12
  <2> QED
    BY <2>13 DEF DamageBounded, Torn
<1> QED
  BY <1>1, TearInvariant, PTL
=============================================================================
