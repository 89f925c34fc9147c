---------------------------- MODULE RememberedProofs ---------------------------
(***************************************************************************)
(* What outlives a query, in the cache file of the mapping and in the      *)
(* caches of a process.                                                    *)
(*                                                                         *)
(* The file, for any number of processes and any mapping: as long as none  *)
(* of them dies while it is saving, they leave a complete file behind.     *)
(* fromFile() inverts save(), and what it makes of the first lines of a    *)
(* file is part of what was saved.  So for processes that follow one       *)
(* another loading is sound, and exact unless one has died while it was    *)
(* saving.                                                                 *)
(*                                                                         *)
(* The caches, for any requests, calls and organization models: what a     *)
(* process has remembered does not show, if it is asked as Disciplined     *)
(* says.  The invariant says of each cache that it holds what a fresh      *)
(* process might compute, and of each answer that the caches still give it.*)
(***************************************************************************)
EXTENDS MappingFile, AskCaches, FiniteSums, SequenceTheorems

-----------------------------------------------------------------------------
(* The file                                                                *)

(* The part of TypeOK the argument needs.                                  *)
ProcessesOK ==
  /\ pc \in [Process -> {"start", "load", "compute", "save", "done", "failed"}]
  /\ position \in [Process -> Nat]
  /\ aborted \in BOOLEAN

CarriedInvariant == ProcessesOK /\ FileIsCarried

(* Nobody needs to have written more than what has been written.           *)
LEMMA CarriedInitially == FileInit => CarriedInvariant
<1> SUFFICES ASSUME FileInit PROVE CarriedInvariant
  OBVIOUS
<1>1. ProcessesOK
  BY DEF FileInit, ProcessesOK
<1>2. FileIsCarried
  BY DEF FileInit, FileIsCarried
<1> QED
  BY <1>1, <1>2 DEF CarriedInvariant

(* Positions stay natural numbers.                                        *)
LEMMA ProcessesStayOK == ProcessesOK /\ [FileNext]_filevars => ProcessesOK'
<1> SUFFICES ASSUME ProcessesOK, [FileNext]_filevars PROVE ProcessesOK'
  OBVIOUS
<1> USE DEF ProcessesOK, Goto
<1>1. CASE UNCHANGED filevars
  BY <1>1 DEF filevars
<1>2. CASE Revise
  BY <1>2 DEF Revise
<1>3. ASSUME NEW p \in Process,
             \/ LookForFile(p) \/ CannotOpenFile(p) \/ CloseFile(p) \/ ReadLine(p)
             \/ FinishLoad(p) \/ OpenFile(p) \/ WriteLine(p) \/ Restart(p)
      PROVE  ProcessesOK'
  <2>1. CASE LookForFile(p)
    BY <2>1 DEF LookForFile
  <2>2. CASE OpenFile(p)
    BY <2>2 DEF OpenFile
  <2>3. CASE CannotOpenFile(p)
    BY <2>3 DEF CannotOpenFile
  <2>4. CASE WriteLine(p)
    BY <2>4 DEF WriteLine
  <2>5. CASE CloseFile(p)
    BY <2>5 DEF CloseFile
  <2>6. CASE ReadLine(p)
    <3>1. position' = [position EXCEPT ![p] = position[p] + 1] /\ aborted' = aborted
      BY <2>6 DEF ReadLine
    <3>2. \/ pc' = pc
          \/ pc' = [pc EXCEPT ![p] = "failed"]
          \/ pc' = [pc EXCEPT ![p] = "load"]
      BY <2>6 DEF ReadLine
    <3> QED
      BY <3>1, <3>2
  <2>7. CASE FinishLoad(p)
    BY <2>7 DEF FinishLoad
  <2>8. CASE Restart(p)
    BY <2>8 DEF Restart
  <2> QED
    BY <1>3, <2>1, <2>2, <2>3, <2>4, <2>5, <2>6, <2>7, <2>8
<1> QED
  BY <1>1, <1>2, <1>3 DEF FileNext

(* A process that dies while saving ends what the claim is about; a line   *)
(* more, the end of a file, or a file emptied anew by a process that starts*)
(* at its beginning, keep it.                                              *)
LEMMA FileStaysCarried == CarriedInvariant /\ [FileNext]_filevars => FileIsCarried'
<1> SUFFICES ASSUME ProcessesOK, FileIsCarried, [FileNext]_filevars,
                    exists', ~aborted'
             PROVE  \/ (1 .. LastLine \subseteq written)'
                    \/ \E q \in Process :
                         pc'[q] = "save" /\ 1 .. position'[q] \subseteq written'
  BY DEF CarriedInvariant, FileIsCarried
<1> DEFINE Carrier(q) == pc[q] = "save" /\ 1 .. position[q] \subseteq written
<1> USE DEF Goto
<1>1. CASE UNCHANGED filevars
  BY <1>1 DEF filevars, file, FileIsCarried, LastLine, Lines
<1>2. CASE Revise
  BY <1>2 DEF Revise, file, FileIsCarried, LastLine, Lines
<1>3. ASSUME NEW p \in Process, OpenFile(p)
      PROVE  pc'[p] = "save" /\ 1 .. position'[p] \subseteq written'
  <2>1. pc'[p] = "save" /\ position'[p] = 0
    BY <1>3 DEF OpenFile, ProcessesOK
  <2> QED
    BY <2>1
<1>4. ASSUME NEW p \in Process,
             \/ LookForFile(p) \/ CannotOpenFile(p) \/ WriteLine(p) \/ CloseFile(p)
             \/ ReadLine(p) \/ FinishLoad(p) \/ Restart(p)
      PROVE  \/ (1 .. LastLine \subseteq written)'
             \/ \E q \in Process :
                  pc'[q] = "save" /\ 1 .. position'[q] \subseteq written'
  <2>1. exists /\ ~aborted /\ saved' = saved /\ written \subseteq written'
    BY <1>4 DEF LookForFile, CannotOpenFile, WriteLine, CloseFile, ReadLine,
                FinishLoad, Restart, file, ProcessesOK
  <2>2. CASE 1 .. LastLine \subseteq written
    BY <2>1, <2>2 DEF LastLine, Lines
  <2>3. ASSUME NEW q \in Process, Carrier(q)
        PROVE  \/ (1 .. LastLine \subseteq written)'
               \/ pc'[q] = "save" /\ 1 .. position'[q] \subseteq written'
    <3>1. CASE WriteLine(p)
      <4>1. CASE q = p
        <5>1. /\ pc'[q] = "save"
              /\ position'[q] = position[q] + 1
              /\ written' = written \cup {position[q] + 1}
          BY <2>3, <3>1, <4>1 DEF WriteLine, ProcessesOK
        <5>2. position[q] \in Nat
          BY DEF ProcessesOK
        <5> QED
          BY <2>3, <5>1, <5>2
      <4>2. CASE q # p
        BY <2>1, <2>3, <3>1, <4>2 DEF WriteLine, ProcessesOK
      <4> QED
        BY <4>1, <4>2
    <3>2. CASE CloseFile(p)
      <4>1. CASE q = p
        BY <2>1, <2>3, <3>2, <4>1 DEF CloseFile, LastLine, Lines
      <4>2. CASE q # p
        BY <2>1, <2>3, <3>2, <4>2 DEF CloseFile, ProcessesOK
      <4> QED
        BY <4>1, <4>2
    <3>3. CASE ~WriteLine(p) /\ ~CloseFile(p)
      <4>1. q # p
        BY <1>4, <2>3, <3>3 DEF LookForFile, CannotOpenFile, ReadLine, FinishLoad, Restart
      <4>2. pc'[q] = pc[q] /\ position'[q] = position[q]
        BY <1>4, <3>3, <4>1 DEF LookForFile, CannotOpenFile, ReadLine, FinishLoad, Restart,
                                ProcessesOK
      <4> QED
        BY <2>1, <2>3, <4>2
    <3> QED
      BY <3>1, <3>2, <3>3
  <2> QED
    BY <2>1, <2>2, <2>3 DEF FileIsCarried
<1> QED
  BY <1>1, <1>2, <1>3, <1>4 DEF FileNext

(* Some process that is writing has left no line out so far (save).        *)
THEOREM FileCarried == FileSpec => [](CarriedInvariant /\ FileIsCarried)
<1>1. CarriedInvariant /\ [FileNext]_filevars => CarriedInvariant'
  BY ProcessesStayOK, FileStaysCarried DEF CarriedInvariant
<1>2. CarriedInvariant => FileIsCarried
  BY DEF CarriedInvariant
<1> QED
  BY CarriedInitially, <1>1, <1>2, PTL DEF FileSpec

(* When nobody is saving, the cache file of computeFunctionalityMapping    *)
(* lacks no line, however many processes have written it at the same time. *)
THEOREM FileComplete == FileSpec => []UndisturbedFileIsComplete
<1>1. CarriedInvariant /\ FileIsCarried => UndisturbedFileIsComplete
  BY DEF FileIsCarried, UndisturbedFileIsComplete
<1> QED
  BY FileCarried, <1>1, PTL
-----------------------------------------------------------------------------
(* Reading what was written: sequences of lines                            *)

(* A mapping that has lost something, and gained nothing.                  *)
IsSound(m, loaded) ==
  \A f \in DOMAIN loaded.pools : loaded.pools[f] \subseteq PoolsOf(m, f)

Sound(m, st) == st.phase # "thrown" /\ IsSound(m, st.mapping)

(* States r of fromFile along the lines s, sound all the way.              *)
Trace(m, s, r) ==
  /\ \A i \in 1 .. Len(s) : r[i] = ParseLine(r[i - 1], s[i])
  /\ \A i \in 0 .. Len(s) : Sound(m, r[i])

IsSeq(s) == \E T : s \in Seq(T)

Leads(m, first, s, last) ==
  \E r : Trace(m, s, r) /\ r[0] = first /\ r[Len(s)] = last

(* The lines s take fromFile from one state to another.                    *)
Reads(m, first, s, last) == IsSeq(s) /\ Leads(m, first, s, last)

(* No line, no change.                                                     *)
LEMMA NothingIsRead ==
  ASSUME NEW m, NEW st, Sound(m, st)
  PROVE  Reads(m, st, <<>>, st)
<1> DEFINE r == [i \in 0 .. 0 |-> st]
<1>1. <<>> \in Seq({})
  OBVIOUS
<1>2. Trace(m, <<>>, r) /\ r[0] = st /\ r[Len(<<>>)] = st
  BY DEF Trace
<1> HIDE DEF r
<1> QED
  BY <1>1, <1>2 DEF Reads, Leads, IsSeq

(* One line is one step of the parser.                                     *)
LEMMA LineIsRead ==
  ASSUME NEW m, NEW line, NEW st, NEW st2, Sound(m, st), Sound(m, st2), st2 = ParseLine(st, line)
  PROVE  Reads(m, st, <<line>>, st2)
<1> DEFINE r == [i \in 0 .. 1 |-> IF i = 0 THEN st ELSE st2]
<1>1. <<line>> \in Seq({line}) /\ Len(<<line>>) = 1 /\ <<line>>[1] = line
  OBVIOUS
<1>2. r[0] = st /\ r[1] = st2
  OBVIOUS
<1>3. Trace(m, <<line>>, r)
  <2> HIDE DEF r
  <2>1. \A i \in 1 .. 1 : i = 1
    OBVIOUS
  <2>2. \A i \in 0 .. 1 : i = 0 \/ i = 1
    OBVIOUS
  <2>3. 1 - 1 = 0
    OBVIOUS
  <2>4. ASSUME NEW i \in 1 .. 1 PROVE r[i] = ParseLine(r[i - 1], <<line>>[i])
    <3>1. i = 1 /\ i - 1 = 0
      OBVIOUS
    <3> QED
      BY <3>1, <1>1, <1>2
  <2>5. ASSUME NEW i \in 0 .. 1 PROVE Sound(m, r[i])
    BY <1>2, <2>2
  <2> QED
    BY <1>1, <2>4, <2>5 DEF Trace
<1> HIDE DEF r
<1> QED
  BY <1>1, <1>2, <1>3 DEF Reads, Leads, IsSeq

(* What holds of sequences that are joined.                                *)
LEMMA SequencesJoin ==
  ASSUME NEW a, NEW b, IsSeq(a), IsSeq(b)
  PROVE  /\ IsSeq(a \o b) /\ Len(a) \in Nat /\ Len(b) \in Nat /\ Len(a \o b) = Len(a) + Len(b)
         /\ \A i \in 1 .. Len(a) : (a \o b)[i] = a[i]
         /\ \A i \in Len(a) + 1 .. Len(a) + Len(b) : (a \o b)[i] = b[i - Len(a)]
<1>1. PICK A : a \in Seq(A)
  BY DEF IsSeq
<1>2. PICK B : b \in Seq(B)
  BY DEF IsSeq
<1> DEFINE T == A \cup B
<1>3. a \in Seq(T) /\ b \in Seq(T)
  BY <1>1, <1>2
<1> HIDE DEF T
<1>4. a \o b \in Seq(T)
  BY <1>3
<1>5. Len(a) \in Nat /\ Len(b) \in Nat /\ Len(a \o b) = Len(a) + Len(b)
  BY <1>3
<1>6. \A i \in 1 .. Len(a) : (a \o b)[i] = a[i]
  BY <1>3
<1>7. \A i \in Len(a) + 1 .. Len(a) + Len(b) : (a \o b)[i] = b[i - Len(a)]
  BY <1>3
<1> QED
  BY <1>4, <1>5, <1>6, <1>7 DEF IsSeq

(* One sequence after the other.                                           *)
LEMMA ReadOn ==
  ASSUME NEW m, NEW st, NEW st1, NEW st2, NEW a, NEW b,
         Reads(m, st, a, st1), Reads(m, st1, b, st2)
  PROVE  Reads(m, st, a \o b, st2)
<1>1. PICK r1 : Trace(m, a, r1) /\ r1[0] = st /\ r1[Len(a)] = st1
  BY DEF Reads, Leads
<1>2. PICK r2 : Trace(m, b, r2) /\ r2[0] = st1 /\ r2[Len(b)] = st2
  BY DEF Reads, Leads
<1> DEFINE j == Len(a)
           k == Len(b)
           r == [i \in 0 .. j + k |-> IF i <= j THEN r1[i] ELSE r2[i - j]]
<1>3. /\ IsSeq(a \o b) /\ j \in Nat /\ k \in Nat /\ Len(a \o b) = j + k
      /\ \A i \in 1 .. j : (a \o b)[i] = a[i]
      /\ \A i \in j + 1 .. j + k : (a \o b)[i] = b[i - j]
  BY SequencesJoin DEF Reads
<1>0. r1[j] = st1 /\ r2[k] = st2
  BY <1>1, <1>2
<1> HIDE DEF j, k
<1>4. /\ \A i \in 0 .. j : r[i] = r1[i]
      /\ \A i \in j .. j + k : r[i] = r2[i - j]
  <2>1. ASSUME NEW i \in j .. j + k, ~(i > j) PROVE r[i] = r2[i - j]
    <3>1. i = j /\ i - j = 0 /\ i \in 0 .. j + k
      BY <1>3, <2>1
    <3> QED
      BY <1>0, <1>2, <1>3, <3>1
  <2>2. ASSUME NEW i \in j .. j + k, i > j PROVE r[i] = r2[i - j]
    BY <1>3, <2>2
  <2>3. \A i \in 0 .. j : r[i] = r1[i]
    BY <1>3
  <2> HIDE DEF r
  <2> QED
    BY <2>1, <2>2, <2>3
<1>5. r[0] = st /\ r[j + k] = st2
  <2>1. 0 \in 0 .. j /\ j + k \in j .. j + k /\ (j + k) - j = k
    BY <1>3
  <2> QED
    BY <1>0, <1>1, <1>4, <2>1
<1> HIDE DEF r
<1>6. ASSUME NEW i \in 1 .. j + k
      PROVE  r[i] = ParseLine(r[i - 1], (a \o b)[i])
  <2>1. CASE i <= j
    <3>1. i \in 1 .. j /\ i \in 0 .. j /\ i - 1 \in 0 .. j
      BY <1>3, <2>1
    <3>2. r1[i] = ParseLine(r1[i - 1], a[i])
      BY <1>1, <3>1 DEF Trace, j
    <3> QED
      BY <1>3, <1>4, <3>1, <3>2
  <2>2. CASE i > j
    <3>1. /\ i \in j + 1 .. j + k /\ i \in j .. j + k /\ i - 1 \in j .. j + k
          /\ i - j \in 1 .. k /\ (i - j) - 1 = (i - 1) - j
      BY <1>3, <2>2
    <3>2. r2[i - j] = ParseLine(r2[(i - j) - 1], b[i - j])
      BY <1>2, <3>1 DEF Trace, k
    <3> QED
      BY <1>3, <1>4, <3>1, <3>2
  <2> QED
    BY <1>3, <2>1, <2>2
<1>7. ASSUME NEW i \in 0 .. j + k PROVE Sound(m, r[i])
  <2>1. CASE i <= j
    <3>1. i \in 0 .. j
      BY <1>3, <2>1
    <3> QED
      BY <1>1, <1>4, <3>1 DEF Trace, j
  <2>2. CASE i > j
    <3>1. i \in j .. j + k /\ i - j \in 0 .. k
      BY <1>3, <2>2
    <3> QED
      BY <1>2, <1>4, <3>1 DEF Trace, k
  <2> QED
    BY <1>3, <2>1, <2>2
<1>8. Trace(m, a \o b, r)
  BY <1>3, <1>6, <1>7 DEF Trace
<1>9. Leads(m, st, a \o b, st2)
  BY <1>3, <1>5, <1>8 DEF Leads
<1> QED
  BY <1>3, <1>9 DEF Reads

(* Sequences of sequences, flattened.                                      *)
FlatStep(q, g, n) == IF n = 0 THEN <<>> ELSE g[n - 1] \o q[n]
FlatUpTo(q, g, N) == g = [n \in 0 .. N |-> FlatStep(q, g, n)]

(* Flattened is well defined.                                              *)
LEMMA FlatExists ==
  ASSUME NEW q, NEW N \in Nat
  PROVE  \E g : FlatUpTo(q, g, N)
<1> DEFINE P == {n \in Nat : \E g : FlatUpTo(q, g, n)}
<1>1. 0 \in P
  <2> DEFINE g == [n \in 0 .. 0 |-> <<>>]
  <2>1. \A n \in 0 .. 0 : n = 0
    OBVIOUS
  <2>2. g = [n \in 0 .. 0 |-> FlatStep(q, g, n)]
    BY <2>1 DEF FlatStep
  <2> HIDE DEF g
  <2> QED
    BY <2>2 DEF FlatUpTo
<1>2. ASSUME NEW n \in Nat, n \in P PROVE n + 1 \in P
  <2>1. PICK g : FlatUpTo(q, g, n)
    BY <1>2
  <2> DEFINE h == [i \in 0 .. n + 1 |-> FlatStep(q, g, i)]
  <2>2. ASSUME NEW i \in 0 .. n PROVE g[i] = h[i]
    <3>1. i \in 0 .. n + 1
      OBVIOUS
    <3>2. g[i] = FlatStep(q, g, i)
      BY <2>1 DEF FlatUpTo
    <3> QED
      BY <3>1, <3>2
  <2>3. ASSUME NEW i \in 0 .. n + 1 PROVE FlatStep(q, g, i) = FlatStep(q, h, i)
    <3>1. CASE i = 0
      BY <3>1 DEF FlatStep
    <3>2. CASE i # 0
      <4>1. i - 1 \in 0 .. n
        BY <3>2
      <4>2. g[i - 1] = h[i - 1]
        BY <2>2, <4>1
      <4> HIDE DEF h
      <4> QED
        BY <3>2, <4>2 DEF FlatStep
    <3> QED
      BY <3>1, <3>2
  <2>4. h = [i \in 0 .. n + 1 |-> FlatStep(q, h, i)]
    <3> HIDE DEF h
    <3>1. h = [i \in 0 .. n + 1 |-> FlatStep(q, g, i)]
      BY DEF h
    <3> QED
      BY <2>3, <3>1
  <2> HIDE DEF h
  <2> QED
    BY <2>4 DEF FlatUpTo
<1>3. Nat \subseteq P
  <2> HIDE DEF P
  <2> QED
    BY <1>1, <1>2, NatSetInduction
<1> QED
  BY <1>3

(* The lines of several parts, each read on its own.                       *)
LEMMA PartsAreRead ==
  ASSUME NEW m, NEW q, Len(q) \in Nat, NEW t, Sound(m, t[0]),
         \A i \in 1 .. Len(q) : Reads(m, t[i - 1], q[i], t[i])
  PROVE  Reads(m, t[0], Flattened(q), t[Len(q)])
<1> DEFINE N == Len(q)
           g == CHOOSE f : FlatUpTo(q, f, N)
           P == {n \in Nat : n <= N => Reads(m, t[0], g[n], t[n])}
<1>1. FlatUpTo(q, g, N)
  <2>1. \E f : FlatUpTo(q, f, N)
    BY FlatExists
  <2> QED
    BY <2>1
<1>2. Flattened(q) = g[N]
  BY Zenon DEF Flattened, FlatUpTo, FlatStep
<1> HIDE DEF N, g
<1>3. N \in Nat /\ \A i \in 1 .. N : Reads(m, t[i - 1], q[i], t[i])
  BY DEF N
<1>4. 0 \in P
  <2>1. 0 \in 0 .. N
    BY <1>3
  <2>2. g[0] = <<>>
    BY <1>1, <2>1 DEF FlatUpTo, FlatStep
  <2> QED
    BY <2>2, NothingIsRead
<1>5. ASSUME NEW n \in Nat, n \in P PROVE n + 1 \in P
  <2> SUFFICES ASSUME n + 1 <= N PROVE Reads(m, t[0], g[n + 1], t[n + 1])
    OBVIOUS
  <2>1. n + 1 \in 0 .. N /\ n + 1 # 0 /\ (n + 1) - 1 = n /\ n + 1 \in 1 .. N /\ n <= N
    BY <1>3
  <2>2. g[n + 1] = FlatStep(q, g, n + 1)
    BY <1>1, <2>1 DEF FlatUpTo
  <2>3. g[n + 1] = g[n] \o q[n + 1]
    BY <2>1, <2>2 DEF FlatStep
  <2>4. Reads(m, t[0], g[n], t[n])
    BY <1>5, <2>1
  <2>5. Reads(m, t[n], q[n + 1], t[n + 1])
    BY <1>3, <2>1
  <2> QED
    BY <2>3, <2>4, <2>5, ReadOn
<1>6. N \in P
  <2> HIDE DEF P
  <2> QED
    BY <1>3, <1>4, <1>5, NatSetInduction
<1> QED
  BY <1>2, <1>3, <1>6 DEF N

(* Line by line, from states that are known.                               *)
LEMMA LinesAreRead ==
  ASSUME NEW m, NEW s, NEW n \in Nat, s = [i \in 1 .. n |-> s[i]], NEW t,
         \A i \in 0 .. n : Sound(m, t[i]),
         \A i \in 1 .. n : t[i] = ParseLine(t[i - 1], s[i])
  PROVE  Reads(m, t[0], s, t[n])
<1> DEFINE T == {s[i] : i \in 1 .. n}
<1>1. s \in [1 .. n -> T]
  OBVIOUS
<1>2. s \in Seq(T) /\ Len(s) = n
  <2> HIDE DEF T
  <2> QED
    BY <1>1
<1>3. Trace(m, s, t)
  BY <1>2 DEF Trace
<1> QED
  BY <1>2, <1>3 DEF Reads, Leads, IsSeq

-----------------------------------------------------------------------------
(* The lines save() writes, and what fromFile makes of them                *)

State(phase, loaded, pool, function) ==
  [phase |-> phase, mapping |-> loaded, pool |-> pool, function |-> function]

Reading == {"header", "body"}

(* A pool without entries is the empty one.                                *)
LEMMA NothingIsEmpty == ASSUME NEW e PROVE [x \in {} |-> e[x]] = EmptyPool
BY DEF EmptyPool

(* Comments are skipped, ...                                               *)
LEMMA CommentIsSkipped ==
  ASSUME NEW m, NEW st, NEW n \in Nat \ {0}, Sound(m, st)
  PROVE  Reads(m, st, <<Comment(n)>>, st)
<1>1. ParseLine(st, Comment(n)) = st
  BY DEF ParseLine, IsComment, Comment
<1> QED
  BY <1>1, LineIsRead

(* ... models are collected, ...                                           *)
LEMMA ModelIsCollected ==
  ASSUME NEW phase \in Reading, NEW loaded, NEW pool, NEW function, NEW x, IsName(x), NEW n
  PROVE  ParseLine(State(phase, loaded, pool, function), Count(x, n))
           = State(phase, loaded, With(pool, x, n), function)
<1> DEFINE st == State(phase, loaded, pool, function)
           line == Count(x, n)
<1>1. /\ line.columns = 2 /\ line.text = x /\ line.number = n /\ "number" \in DOMAIN line
      /\ line # Rule
  BY DEF Count, Rule
<1>2. ~IsComment(line) /\ ~Unreadable(line)
  BY <1>1 DEF IsComment, Unreadable, IsName
<1>3. Collect(st, line) = State(phase, loaded, With(pool, x, n), function)
  BY <1>1 DEF Collect, State
<1>4. st.phase = phase
  BY DEF State
<1> HIDE DEF st, line
<1>5. HeaderLine(st, line) = Collect(st, line)
  BY <1>1 DEF HeaderLine
<1>6. BodyLine(st, line) = Collect(st, line)
  BY <1>1 DEF BodyLine
<1>7. ParseLine(st, line) = Collect(st, line)
  BY <1>2, <1>4, <1>5, <1>6 DEF ParseLine, Reading
<1> QED
  BY <1>3, <1>7 DEF st, line

(* ... so that the lines of a pool yield the pool.                         *)
LEMMA PoolIsRead ==
  ASSUME NEW m, NEW phase \in Reading, NEW loaded, IsSound(m, loaded), NEW function,
         NEW pool, IsPool(pool), Enumerates(Sorted(DOMAIN pool), DOMAIN pool)
  PROVE  Reads(m, State(phase, loaded, EmptyPool, function), PoolLines(pool),
                  State(phase, loaded, pool, function))
<1> DEFINE models == Sorted(DOMAIN pool)
           N == Len(models)
           First(i) == {models[j] : j \in 1 .. i}
           part == [i \in 0 .. N |-> [x \in First(i) |-> pool[x]]]
           t == [i \in 0 .. N |-> State(phase, loaded, part[i], function)]
           s == PoolLines(pool)
<1>1. N \in Nat /\ models = [i \in 1 .. N |-> models[i]] /\ First(N) = DOMAIN pool
  BY DEF Enumerates
<1> HIDE DEF models
<1>2. DOMAIN models = 1 .. N
  BY <1>1
<1>3. s = [i \in 1 .. N |-> Count(models[i], pool[models[i]])]
  BY <1>2 DEF PoolLines, models
<1> HIDE DEF N, s
<1>4. s = [i \in 1 .. N |-> s[i]]
  BY <1>3
<1>5. part[0] = EmptyPool
  <2>1. First(0) = {} /\ 0 \in 0 .. N
    BY <1>1
  <2>2. part[0] = [x \in {} |-> pool[x]]
    BY <2>1
  <2> QED
    BY <2>2, NothingIsEmpty
<1>6. part[N] = pool
  <2>1. N \in 0 .. N
    BY <1>1
  <2>2. part[N] = [x \in First(N) |-> pool[x]]
    BY <2>1
  <2>3. part[N] = [x \in DOMAIN pool |-> pool[x]]
    BY <1>1, <2>2
  <2> QED
    BY <2>3 DEF IsPool
<1>7. ASSUME NEW i \in 1 .. N
      PROVE  /\ models[i] \in DOMAIN pool
             /\ part[i] = With(part[i - 1], models[i], pool[models[i]])
  <2>1. i \in 0 .. N /\ i - 1 \in 0 .. N
    BY <1>1
  <2>2. First(i) = First(i - 1) \cup {models[i]}
    BY <1>1
  <2>3. models[i] \in DOMAIN pool
    BY <1>1
  <2>4. part[i] = [x \in First(i) |-> pool[x]] /\ part[i - 1] = [x \in First(i - 1) |-> pool[x]]
    BY <2>1
  <2> HIDE DEF First, part
  <2>5. /\ DOMAIN part[i - 1] = First(i - 1)
        /\ \A x \in First(i - 1) : part[i - 1][x] = pool[x]
    BY <2>4
  <2> QED
    BY <2>2, <2>3, <2>4, <2>5 DEF With
<1>8. ASSUME NEW i \in 0 .. N PROVE Sound(m, t[i])
  BY DEF Sound, State, Reading
<1>9. ASSUME NEW i \in 1 .. N PROVE t[i] = ParseLine(t[i - 1], s[i])
  <2>1. i \in 0 .. N /\ i - 1 \in 0 .. N
    BY <1>1
  <2>2. /\ t[i] = State(phase, loaded, part[i], function)
        /\ t[i - 1] = State(phase, loaded, part[i - 1], function)
    BY <2>1
  <2>3. s[i] = Count(models[i], pool[models[i]])
    BY <1>3
  <2>4. IsName(models[i])
    BY <1>7 DEF IsPool
  <2> HIDE DEF t, part
  <2> QED
    BY <1>7, <2>2, <2>3, <2>4, ModelIsCollected
<1> HIDE DEF t, part
<1>10. Reads(m, t[0], s, t[N])
  BY <1>1, <1>4, <1>8, <1>9, LinesAreRead
<1>11. /\ t[0] = State(phase, loaded, EmptyPool, function)
       /\ t[N] = State(phase, loaded, pool, function)
  <2>1. 0 \in 0 .. N /\ N \in 0 .. N
    BY <1>1
  <2> QED
    BY <1>5, <1>6, <2>1 DEF t
<1> QED
  BY <1>10, <1>11 DEF s

-----------------------------------------------------------------------------
(* The header                                                              *)

MappingSaved(pool, functionalities, bound, pools, supported, active) ==
  [pool |-> pool, functionalities |-> functionalities, bound |-> bound, pools |-> pools,
   supported |-> supported, active |-> active]

(* What is known of a mapping after some of its header.                    *)
Known(m, pool, n, bound) ==
  MappingSaved(pool, [i \in 1 .. n |-> m.functionalities[i]], bound,
            [f \in {m.functionalities[i] : i \in 1 .. n} |-> {}], {}, {})

(* A header claims no support.                                             *)
LEMMA KnownIsSound == ASSUME NEW m, NEW pool, NEW n, NEW bound PROVE IsSound(m, Known(m, pool, n, bound))
BY DEF IsSound, Known, MappingSaved

(* fromFile starts with nothing.                                           *)
LEMMA NothingIsKnown == ASSUME NEW m PROVE NoMapping = Known(m, EmptyPool, 0, EmptyPool)
<1>1. {m.functionalities[i] : i \in 1 .. 0} = {}
  OBVIOUS
<1>2. [f \in {m.functionalities[i] : i \in 1 .. 0} |-> {}] = <<>>
  BY <1>1
<1>3. [i \in 1 .. 0 |-> m.functionalities[i]] = <<>>
  OBVIOUS
<1> QED
  BY <1>2, <1>3 DEF NoMapping, Known, MappingSaved, EmptyPool

(* The functionalities asked for, in their order.                          *)
LEMMA AppendNext ==
  ASSUME NEW q, NEW n \in Nat
  PROVE  Append([i \in 1 .. n |-> q[i]], q[n + 1]) = [i \in 1 .. n + 1 |-> q[i]]
<1> DEFINE T == {q[i] : i \in 1 .. n + 1}
           a == [i \in 1 .. n |-> q[i]]
           b == [i \in 1 .. n + 1 |-> q[i]]
<1>1. a \in Seq(T) /\ Len(a) = n
  OBVIOUS
<1>2. b \in Seq(T) /\ Len(b) = n + 1
  OBVIOUS
<1>3. q[n + 1] \in T
  OBVIOUS
<1>4. /\ \A i \in 1 .. n : a[i] = q[i]
      /\ \A i \in 1 .. n + 1 : b[i] = q[i]
  OBVIOUS
<1> HIDE DEF a, b, T
<1>5. /\ Append(a, q[n + 1]) \in Seq(T)
      /\ Len(Append(a, q[n + 1])) = n + 1
      /\ \A i \in 1 .. n : Append(a, q[n + 1])[i] = a[i]
      /\ Append(a, q[n + 1])[n + 1] = q[n + 1]
  BY <1>1, <1>3, AppendProperties
<1>6. \A i \in 1 .. n + 1 : Append(a, q[n + 1])[i] = b[i]
  BY <1>4, <1>5
<1>7. Append(a, q[n + 1]) = b
  BY <1>2, <1>5, <1>6, SeqEqual
<1> QED
  BY <1>7 DEF a, b

(* What a name does to a state.                                            *)
NameDone(st, f) == [st EXCEPT !.mapping = Know(@, f)]

(* It enters the name into the mapping.                                    *)
LEMMA NameUpdates ==
  ASSUME NEW phase, NEW loaded, NEW pool, NEW function, NEW f
  PROVE  NameDone(State(phase, loaded, pool, function), f)
           = State(phase, Know(loaded, f), pool, function)
BY DEF NameDone, State

(* A name is entered, as yet without support.                              *)
LEMMA NameIsEntered ==
  ASSUME NEW m, NEW pool, NEW n \in Nat, NEW bound
  PROVE  Know(Known(m, pool, n, bound), m.functionalities[n + 1]) = Known(m, pool, n + 1, bound)
<1> DEFINE f == m.functionalities[n + 1]
           listed(k) == [i \in 1 .. k |-> m.functionalities[i]]
           names(k) == {m.functionalities[i] : i \in 1 .. k}
           none(k) == [x \in names(k) |-> {}]
           list0 == listed(n)
           list1 == listed(n + 1)
           none0 == none(n)
           none1 == none(n + 1)
           before == MappingSaved(pool, list0, bound, none0, {}, {})
           after == MappingSaved(pool, list1, bound, none1, {}, {})
<1>1. Known(m, pool, n, bound) = before /\ Known(m, pool, n + 1, bound) = after
  BY DEF Known
<1>2. Append(list0, f) = list1
  BY AppendNext
<1>3. names(n + 1) = names(n) \cup {f}
  OBVIOUS
<1> HIDE DEF list0, list1, names, f
<1>4. PoolsOf(before, f) = {}
  BY DEF PoolsOf, MappingSaved
<1>5. With(none0, f, {}) = none1
  BY <1>3 DEF With
<1> HIDE DEF list0, list1, none0, none1
<1>6. before.functionalities = list0 /\ before.pools = none0
  BY DEF MappingSaved
<1> DEFINE longer == MappingSaved(pool, list1, bound, none0, {}, {})
<1>7. [before EXCEPT !.functionalities = list1] = longer
  BY DEF MappingSaved
<1>8. [longer EXCEPT !.pools = none1] = after
  BY DEF MappingSaved
<1>9. [before EXCEPT !.functionalities = list1, !.pools = none1]
        = [[before EXCEPT !.functionalities = list1] EXCEPT !.pools = none1]
  BY DEF MappingSaved
<1> HIDE DEF before, after, longer
<1>10. Know(before, f) = [before EXCEPT !.functionalities = list1, !.pools = none1]
  BY <1>2, <1>4, <1>5, <1>6 DEF Know
<1>11. Know(before, f) = after
  BY <1>7, <1>8, <1>9, <1>10
<1> QED
  BY <1>1, <1>11 DEF f

(* So a line with a name makes one more functionality known.               *)
LEMMA NameIsKnown ==
  ASSUME NEW m, NEW pool, NEW n \in Nat, NEW bound, NEW function, IsName(m.functionalities[n + 1])
  PROVE  ParseLine(State("header", Known(m, pool, n, bound), EmptyPool, function),
                   Name(m.functionalities[n + 1]))
           = State("header", Known(m, pool, n + 1, bound), EmptyPool, function)
<1> DEFINE f == m.functionalities[n + 1]
           known == Known(m, pool, n, bound)
           st == State("header", known, EmptyPool, function)
           line == Name(f)
<1>1. /\ line.columns = 1 /\ line.text = f /\ line # Rule
      /\ ~IsComment(line) /\ ~Unreadable(line)
  BY DEF Name, Rule, IsComment, Unreadable, IsName
<1>2. st.phase = "header"
  BY DEF State
<1>3. NameDone(st, f) = State("header", Know(known, f), EmptyPool, function)
  BY NameUpdates
<1>4. Know(known, f) = Known(m, pool, n + 1, bound)
  BY NameIsEntered
<1> HIDE DEF st, line, known, f
<1>5. HeaderLine(st, line) = NameDone(st, line.text)
  BY <1>1 DEF HeaderLine, NameDone
<1>6. ParseLine(st, line) = HeaderLine(st, line)
  BY <1>1, <1>2 DEF ParseLine
<1> QED
  BY <1>1, <1>3, <1>4, <1>5, <1>6 DEF st, line, known, f

(* What blank lines and the rule do to such a state.                       *)
RuleDone(st) == [st EXCEPT !.phase = "body", !.pool = EmptyPool]
PoolDone(st) == [st EXCEPT !.mapping.pool = st.pool, !.pool = EmptyPool]
BoundDone(st) == [st EXCEPT !.mapping.bound = st.pool, !.pool = EmptyPool]
PartDone(st) == [st EXCEPT !.mapping = Add(@, st.pool, st.function), !.pool = EmptyPool]

(* The rule: two fields change.                                            *)
LEMMA RuleUpdates ==
  ASSUME NEW phase, NEW loaded, NEW pool, NEW function
  PROVE  RuleDone(State(phase, loaded, pool, function)) = State("body", loaded, EmptyPool, function)
<1> DEFINE st == State(phase, loaded, pool, function)
           st2 == State("body", loaded, pool, function)
<1>1. [st EXCEPT !.phase = "body"] = st2
  BY DEF State
<1>2. [st2 EXCEPT !.pool = EmptyPool] = State("body", loaded, EmptyPool, function)
  BY DEF State
<1>3. [st EXCEPT !.phase = "body", !.pool = EmptyPool]
        = [[st EXCEPT !.phase = "body"] EXCEPT !.pool = EmptyPool]
  BY DEF State
<1>4. RuleDone(st) = [st EXCEPT !.phase = "body", !.pool = EmptyPool]
  BY DEF RuleDone
<1> HIDE DEF st, st2
<1> QED
  BY <1>1, <1>2, <1>3, <1>4 DEF st

(* A blank line in the body.                                               *)
LEMMA PartUpdates ==
  ASSUME NEW phase, NEW loaded, NEW pool, NEW function
  PROVE  PartDone(State(phase, loaded, pool, function))
           = State(phase, Add(loaded, pool, function), EmptyPool, function)
<1> DEFINE loaded2 == Add(loaded, pool, function)
           st == State(phase, loaded, pool, function)
           st2 == State(phase, loaded2, pool, function)
<1>0. st.pool = pool /\ st.function = function /\ st.mapping = loaded
  BY DEF State
<1> HIDE DEF loaded2
<1>1. [st EXCEPT !.mapping = loaded2] = st2
  BY DEF State
<1>2. [st2 EXCEPT !.pool = EmptyPool] = State(phase, loaded2, EmptyPool, function)
  BY DEF State
<1>3. [st EXCEPT !.mapping = loaded2, !.pool = EmptyPool]
        = [[st EXCEPT !.mapping = loaded2] EXCEPT !.pool = EmptyPool]
  BY DEF State
<1>4. PartDone(st) = [st EXCEPT !.mapping = loaded2, !.pool = EmptyPool]
  <2> HIDE DEF st
  <2> QED
    BY <1>0 DEF PartDone, loaded2
<1> HIDE DEF st, st2
<1> QED
  BY <1>1, <1>2, <1>3, <1>4 DEF st, loaded2

(* The first blank line of the header.                                     *)
LEMMA PoolUpdates ==
  ASSUME NEW m, NEW n, NEW pool, NEW bound, NEW collected, NEW function
  PROVE  PoolDone(State("header", Known(m, pool, n, bound), collected, function))
           = State("header", Known(m, collected, n, bound), EmptyPool, function)
<1> DEFINE st == State("header", Known(m, pool, n, bound), collected, function)
           st2 == State("header", Known(m, collected, n, bound), collected, function)
           functionalities == [i \in 1 .. n |-> m.functionalities[i]]
           pools == [f \in {m.functionalities[i] : i \in 1 .. n} |-> {}]
           before == MappingSaved(pool, functionalities, bound, pools, {}, {})
           after == MappingSaved(collected, functionalities, bound, pools, {}, {})
<1>0. Known(m, pool, n, bound) = before /\ Known(m, collected, n, bound) = after
  BY DEF Known
<1> HIDE DEF functionalities, pools
<1>1. [before EXCEPT !.pool = collected] = after
  BY DEF MappingSaved
<1> HIDE DEF before, after
<1>2. [st EXCEPT !.mapping.pool = collected] = [st EXCEPT !.mapping = [before EXCEPT !.pool = collected]]
  BY <1>0 DEF State
<1>3. [st EXCEPT !.mapping.pool = collected] = st2
  BY <1>0, <1>1, <1>2 DEF State
<1>4. [st2 EXCEPT !.pool = EmptyPool] = State("header", Known(m, collected, n, bound), EmptyPool, function)
  BY DEF State
<1>5. [st EXCEPT !.mapping.pool = collected, !.pool = EmptyPool]
        = [[st EXCEPT !.mapping.pool = collected] EXCEPT !.pool = EmptyPool]
  BY DEF State
<1>6. st.pool = collected
  BY DEF State
<1> HIDE DEF st, st2
<1>7. PoolDone(st) = [st EXCEPT !.mapping.pool = collected, !.pool = EmptyPool]
  BY <1>6 DEF PoolDone
<1> QED
  BY <1>3, <1>4, <1>5, <1>7 DEF st

(* A later one.                                                            *)
LEMMA BoundUpdates ==
  ASSUME NEW m, NEW n, NEW pool, NEW bound, NEW collected, NEW function
  PROVE  BoundDone(State("header", Known(m, pool, n, bound), collected, function))
           = State("header", Known(m, pool, n, collected), EmptyPool, function)
<1> DEFINE st == State("header", Known(m, pool, n, bound), collected, function)
           st2 == State("header", Known(m, pool, n, collected), collected, function)
           functionalities == [i \in 1 .. n |-> m.functionalities[i]]
           pools == [f \in {m.functionalities[i] : i \in 1 .. n} |-> {}]
           before == MappingSaved(pool, functionalities, bound, pools, {}, {})
           after == MappingSaved(pool, functionalities, collected, pools, {}, {})
<1>0. Known(m, pool, n, bound) = before /\ Known(m, pool, n, collected) = after
  BY DEF Known
<1> HIDE DEF functionalities, pools
<1>1. [before EXCEPT !.bound = collected] = after
  BY DEF MappingSaved
<1> HIDE DEF before, after
<1>2. [st EXCEPT !.mapping.bound = collected] = [st EXCEPT !.mapping = [before EXCEPT !.bound = collected]]
  BY <1>0 DEF State
<1>3. [st EXCEPT !.mapping.bound = collected] = st2
  BY <1>0, <1>1, <1>2 DEF State
<1>4. [st2 EXCEPT !.pool = EmptyPool] = State("header", Known(m, pool, n, collected), EmptyPool, function)
  BY DEF State
<1>5. [st EXCEPT !.mapping.bound = collected, !.pool = EmptyPool]
        = [[st EXCEPT !.mapping.bound = collected] EXCEPT !.pool = EmptyPool]
  BY DEF State
<1>6. st.pool = collected
  BY DEF State
<1> HIDE DEF st, st2
<1>7. BoundDone(st) = [st EXCEPT !.mapping.bound = collected, !.pool = EmptyPool]
  BY <1>6 DEF BoundDone
<1> QED
  BY <1>3, <1>4, <1>5, <1>7 DEF st

(* The first blank line ends the pool, ...                                 *)
LEMMA BlankEndsPool ==
  ASSUME NEW m, NEW pool, NEW function
  PROVE  ParseLine(State("header", Known(m, EmptyPool, 0, EmptyPool), pool, function), Blank)
           = State("header", Known(m, pool, 0, EmptyPool), EmptyPool, function)
<1> DEFINE st == State("header", Known(m, EmptyPool, 0, EmptyPool), pool, function)
<1>1. /\ Blank.columns = 0 /\ Blank # Rule /\ ~IsComment(Blank) /\ ~Unreadable(Blank)
  BY DEF Blank, Rule, IsComment, Unreadable
<1>2. st.phase = "header" /\ st.mapping.pool = EmptyPool /\ st.pool = pool
  BY DEF State, Known, MappingSaved
<1>3. PoolDone(st) = State("header", Known(m, pool, 0, EmptyPool), EmptyPool, function)
  BY PoolUpdates
<1> HIDE DEF st
<1>4. ParseLine(st, Blank) = HeaderLine(st, Blank)
  BY <1>1, <1>2 DEF ParseLine
<1>5. HeaderLine(st, Blank) = PoolDone(st)
  BY <1>1, <1>2 DEF HeaderLine, PoolDone
<1> QED
  BY <1>2, <1>3, <1>4, <1>5 DEF st

(* ... and later ones the bound.                                           *)
LEMMA BlankEndsBound ==
  ASSUME NEW m, NEW pool, pool # EmptyPool, NEW n, NEW bound, NEW collected, NEW function
  PROVE  ParseLine(State("header", Known(m, pool, n, bound), collected, function), Blank)
           = State("header", Known(m, pool, n, collected), EmptyPool, function)
<1> DEFINE st == State("header", Known(m, pool, n, bound), collected, function)
<1>1. /\ Blank.columns = 0 /\ Blank # Rule /\ ~IsComment(Blank) /\ ~Unreadable(Blank)
  BY DEF Blank, Rule, IsComment, Unreadable
<1>2. st.phase = "header" /\ st.mapping.pool # EmptyPool /\ st.pool = collected
  BY DEF State, Known, MappingSaved
<1>3. BoundDone(st) = State("header", Known(m, pool, n, collected), EmptyPool, function)
  BY BoundUpdates
<1> HIDE DEF st
<1>4. ParseLine(st, Blank) = HeaderLine(st, Blank)
  BY <1>1, <1>2 DEF ParseLine
<1>5. HeaderLine(st, Blank) = BoundDone(st)
  BY <1>1, <1>2 DEF HeaderLine, BoundDone
<1> QED
  BY <1>2, <1>3, <1>4, <1>5 DEF st

(* The rule ends the header.                                               *)
LEMMA RuleEndsHeader ==
  ASSUME NEW loaded, NEW function
  PROVE  ParseLine(State("header", loaded, EmptyPool, function), Rule)
           = State("body", loaded, EmptyPool, function)
<1> DEFINE st == State("header", loaded, EmptyPool, function)
<1>1. ~IsComment(Rule) /\ ~Unreadable(Rule)
  BY DEF Rule, IsComment, Unreadable
<1>2. st.phase = "header"
  BY DEF State
<1>3. RuleDone(st) = State("body", loaded, EmptyPool, function)
  BY RuleUpdates
<1> HIDE DEF st
<1>4. ParseLine(st, Rule) = HeaderLine(st, Rule)
  BY <1>1, <1>2 DEF ParseLine
<1>5. HeaderLine(st, Rule) = RuleDone(st)
  BY DEF HeaderLine, RuleDone
<1> QED
  BY <1>3, <1>4, <1>5 DEF st

(* The lines that name the functionalities.                                *)
NameLines(m) == [i \in DOMAIN m.functionalities |-> Name(m.functionalities[i])]

(* All of them are entered.                                                *)
LEMMA NamesAreRead ==
  ASSUME NEW m, IsMapping(m), NEW pool, NEW bound, NEW function
  PROVE  Reads(m, State("header", Known(m, pool, 0, bound), EmptyPool, function), NameLines(m),
                  State("header", Known(m, pool, Len(m.functionalities), bound), EmptyPool, function))
<1> DEFINE N == Len(m.functionalities)
           t == [i \in 0 .. N |-> State("header", Known(m, pool, i, bound), EmptyPool, function)]
           s == NameLines(m)
<1>1. N \in Nat /\ DOMAIN m.functionalities = 1 .. N
  BY DEF IsMapping, Enumerates
<1>2. \A i \in 1 .. N : IsName(m.functionalities[i])
  BY DEF IsMapping, Enumerates
<1>3. s = [i \in 1 .. N |-> Name(m.functionalities[i])]
  BY <1>1 DEF NameLines
<1> HIDE DEF N, s
<1>4. s = [i \in 1 .. N |-> s[i]]
  BY <1>3
<1>5. ASSUME NEW i \in 0 .. N PROVE Sound(m, t[i])
  BY KnownIsSound DEF Sound, State
<1>6. ASSUME NEW i \in 1 .. N PROVE t[i] = ParseLine(t[i - 1], s[i])
  <2>1. i \in 0 .. N /\ i - 1 \in 0 .. N /\ i - 1 \in Nat /\ (i - 1) + 1 = i
    BY <1>1
  <2>2. s[i] = Name(m.functionalities[(i - 1) + 1]) /\ IsName(m.functionalities[(i - 1) + 1])
    BY <1>2, <1>3, <2>1
  <2>3. ParseLine(State("header", Known(m, pool, i - 1, bound), EmptyPool, function),
                  Name(m.functionalities[(i - 1) + 1]))
          = State("header", Known(m, pool, (i - 1) + 1, bound), EmptyPool, function)
    BY <2>1, <2>2, NameIsKnown
  <2> QED
    BY <2>1, <2>2, <2>3
<1>7. /\ t[0] = State("header", Known(m, pool, 0, bound), EmptyPool, function)
      /\ t[N] = State("header", Known(m, pool, N, bound), EmptyPool, function)
  BY <1>1
<1> HIDE DEF t
<1>8. Reads(m, t[0], s, t[N])
  BY <1>1, <1>4, <1>5, <1>6, LinesAreRead
<1> QED
  BY <1>7, <1>8 DEF s, N

(* Tuples grow by a line.                                                  *)
LEMMA TuplesGrow ==
  ASSUME NEW a, NEW b, NEW c, NEW d
  PROVE  /\ Append(<<a>>, b) = <<a, b>>
         /\ Append(<<a, b>>, c) = <<a, b, c>>
         /\ Append(<<a, b, c>>, d) = <<a, b, c, d>>
<1> DEFINE q == <<a, b, c, d>>
<1>1. /\ q[1] = a /\ q[2] = b /\ q[3] = c /\ q[4] = d
      /\ <<a>> = [i \in 1 .. 1 |-> q[i]]
      /\ <<a, b>> = [i \in 1 .. 2 |-> q[i]]
      /\ <<a, b, c>> = [i \in 1 .. 3 |-> q[i]]
      /\ <<a, b, c, d>> = [i \in 1 .. 4 |-> q[i]]
  OBVIOUS
<1> HIDE DEF q
<1>2. /\ Append([i \in 1 .. 1 |-> q[i]], q[1 + 1]) = [i \in 1 .. 1 + 1 |-> q[i]]
      /\ Append([i \in 1 .. 2 |-> q[i]], q[2 + 1]) = [i \in 1 .. 2 + 1 |-> q[i]]
      /\ Append([i \in 1 .. 3 |-> q[i]], q[3 + 1]) = [i \in 1 .. 3 + 1 |-> q[i]]
  BY AppendNext
<1>3. 1 + 1 = 2 /\ 2 + 1 = 3 /\ 3 + 1 = 4
  OBVIOUS
<1> QED
  BY <1>1, <1>2, <1>3

(* A line more is a step more.                                             *)
LEMMA LineByLine ==
  ASSUME NEW m, NEW st, NEW st1, NEW st2, NEW s, NEW line,
         Reads(m, st, s, st1), Reads(m, st1, <<line>>, st2)
  PROVE  Reads(m, st, Append(s, line), st2)
<1>1. PICK T : s \in Seq(T)
  BY DEF Reads, IsSeq
<1> DEFINE U == T \cup {line}
<1>2. s \in Seq(U) /\ line \in U
  BY <1>1
<1> HIDE DEF U
<1>3. Append(s, line) = s \o <<line>>
  BY <1>2, AppendIsConcat
<1> QED
  BY <1>3, ReadOn

(* A second line, ...                                                      *)
LEMMA SecondLine ==
  ASSUME NEW m, NEW st, NEW st1, NEW st2, NEW a, NEW b,
         Reads(m, st, <<a>>, st1), Reads(m, st1, <<b>>, st2)
  PROVE  Reads(m, st, <<a, b>>, st2)
<1>1. Append(<<a>>, b) = <<a, b>>
  BY TuplesGrow
<1>2. Reads(m, st, Append(<<a>>, b), st2)
  BY LineByLine
<1> QED
  BY <1>1, <1>2

(* ... a third ...                                                         *)
LEMMA ThirdLine ==
  ASSUME NEW m, NEW st, NEW st1, NEW st2, NEW a, NEW b, NEW c,
         Reads(m, st, <<a, b>>, st1), Reads(m, st1, <<c>>, st2)
  PROVE  Reads(m, st, <<a, b, c>>, st2)
<1>1. Append(<<a, b>>, c) = <<a, b, c>>
  BY TuplesGrow
<1>2. Reads(m, st, Append(<<a, b>>, c), st2)
  BY LineByLine
<1> QED
  BY <1>1, <1>2

(* ... and a fourth.                                                       *)
LEMMA FourthLine ==
  ASSUME NEW m, NEW st, NEW st1, NEW st2, NEW a, NEW b, NEW c, NEW d,
         Reads(m, st, <<a, b, c>>, st1), Reads(m, st1, <<d>>, st2)
  PROVE  Reads(m, st, <<a, b, c, d>>, st2)
<1>1. Append(<<a, b, c>>, d) = <<a, b, c, d>>
  <2>1. /\ Append(<<a>>, b) = <<a, b>>
        /\ Append(<<a, b>>, c) = <<a, b, c>>
        /\ Append(<<a, b, c>>, d) = <<a, b, c, d>>
    BY TuplesGrow
  <2> QED
    BY <2>1
<1>2. Reads(m, st, Append(<<a, b, c>>, d), st2)
  BY LineByLine
<1> QED
  BY <1>1, <1>2

HeaderLines(m) ==
  <<Comment(3), Comment(3)>> \o PoolLines(m.pool) \o <<Blank, Comment(3)>>
    \o NameLines(m) \o <<Blank, Comment(3)>> \o PoolLines(m.bound)
    \o <<Blank, Rule, Comment(3), Comment(3)>>

(* After the header pool, functionalities and bound are known.             *)
LEMMA HeaderIsRead ==
  ASSUME NEW m \in Mappings
  PROVE  Reads(m, ParserStart, HeaderLines(m),
               State("body", Known(m, m.pool, Len(m.functionalities), m.bound), EmptyPool, Garbage))
<1> DEFINE N == Len(m.functionalities)
           At(pool, n, bound, collected) == State("header", Known(m, pool, n, bound), collected, Garbage)
           s0 == At(EmptyPool, 0, EmptyPool, EmptyPool)
           s1 == At(EmptyPool, 0, EmptyPool, m.pool)
           s2 == At(m.pool, 0, EmptyPool, EmptyPool)
           s3 == At(m.pool, N, EmptyPool, EmptyPool)
           s4 == At(m.pool, N, EmptyPool, m.bound)
           s5 == At(m.pool, N, m.bound, EmptyPool)
           s6 == State("body", Known(m, m.pool, N, m.bound), EmptyPool, Garbage)
<1>0. /\ IsMapping(m) /\ IsPool(m.pool) /\ IsPool(m.bound) /\ m.pool # EmptyPool
      /\ Enumerates(Sorted(DOMAIN m.pool), DOMAIN m.pool)
      /\ Enumerates(Sorted(DOMAIN m.bound), DOMAIN m.bound)
  BY MappingAssumption DEF IsMapping, SavedSets
<1>1. /\ Sound(m, s0) /\ Sound(m, s1) /\ Sound(m, s2) /\ Sound(m, s3)
      /\ Sound(m, s4) /\ Sound(m, s5) /\ Sound(m, s6)
  BY KnownIsSound DEF Sound, State
<1>2. ParserStart = s0
  BY NothingIsKnown DEF ParserStart, State
<1>3. /\ Reads(m, s0, PoolLines(m.pool), s1)
      /\ Reads(m, s3, PoolLines(m.bound), s4)
  BY <1>0, KnownIsSound, PoolIsRead DEF Reading
<1>4. /\ s2 = ParseLine(s1, Blank)
      /\ s3 = ParseLine(s3, Blank)
      /\ s5 = ParseLine(s4, Blank)
      /\ s6 = ParseLine(s5, Rule)
  BY <1>0, BlankEndsPool, BlankEndsBound, RuleEndsHeader
<1>5. Reads(m, s2, NameLines(m), s3)
  BY <1>0, NamesAreRead
<1> HIDE DEF s0, s1, s2, s3, s4, s5, s6
<1>6. /\ Reads(m, s1, <<Blank>>, s2) /\ Reads(m, s3, <<Blank>>, s3)
      /\ Reads(m, s4, <<Blank>>, s5) /\ Reads(m, s5, <<Rule>>, s6)
  BY <1>1, <1>4, LineIsRead
<1>7. /\ Reads(m, s0, <<Comment(3)>>, s0) /\ Reads(m, s2, <<Comment(3)>>, s2)
      /\ Reads(m, s3, <<Comment(3)>>, s3) /\ Reads(m, s6, <<Comment(3)>>, s6)
  BY <1>1, CommentIsSkipped
<1>8. /\ Reads(m, s0, <<Comment(3), Comment(3)>>, s0)
      /\ Reads(m, s1, <<Blank, Comment(3)>>, s2)
      /\ Reads(m, s3, <<Blank, Comment(3)>>, s3)
      /\ Reads(m, s4, <<Blank, Rule>>, s6)
  BY <1>6, <1>7, SecondLine
<1>9. Reads(m, s4, <<Blank, Rule, Comment(3), Comment(3)>>, s6)
  <2>1. Reads(m, s4, <<Blank, Rule, Comment(3)>>, s6)
    BY <1>7, <1>8, ThirdLine
  <2> QED
    BY <1>7, <2>1, FourthLine
<1>10. Reads(m, s0, <<Comment(3), Comment(3)>> \o PoolLines(m.pool), s1)
  BY <1>3, <1>8, ReadOn
<1>11. Reads(m, s0, <<Comment(3), Comment(3)>> \o PoolLines(m.pool) \o <<Blank, Comment(3)>>, s2)
  BY <1>8, <1>10, ReadOn
<1>12. Reads(m, s0, <<Comment(3), Comment(3)>> \o PoolLines(m.pool) \o <<Blank, Comment(3)>>
                       \o NameLines(m), s3)
  BY <1>5, <1>11, ReadOn
<1>13. Reads(m, s0, <<Comment(3), Comment(3)>> \o PoolLines(m.pool) \o <<Blank, Comment(3)>>
                       \o NameLines(m) \o <<Blank, Comment(3)>>, s3)
  BY <1>8, <1>12, ReadOn
<1>14. Reads(m, s0, <<Comment(3), Comment(3)>> \o PoolLines(m.pool) \o <<Blank, Comment(3)>>
                       \o NameLines(m) \o <<Blank, Comment(3)>> \o PoolLines(m.bound), s4)
  BY <1>3, <1>13, ReadOn
<1>15. Reads(m, s0, HeaderLines(m), s6)
  BY <1>9, <1>14, ReadOn DEF HeaderLines
<1> QED
  BY <1>2, <1>15 DEF s6

-----------------------------------------------------------------------------
(* The mapping itself                                                      *)

(* A mapping with some of its pools.                                       *)
Backed(g) == {f \in DOMAIN g : g[f] # {}}
Held(m, g) ==
  MappingSaved(m.pool, m.functionalities, m.bound, g, Backed(g), UNION {g[f] : f \in DOMAIN g})

IsPart(m, g) ==
  /\ g = [f \in DOMAIN m.pools |-> g[f]]
  /\ \A f \in DOMAIN m.pools : g[f] \subseteq m.pools[f]

WithPool(g, f, pool) == [g EXCEPT ![f] = @ \cup {pool}]

(* Some of its pools are no more than it has.                              *)
LEMMA HeldIsSound ==
  ASSUME NEW m, NEW g, IsPart(m, g)
  PROVE  IsSound(m, Held(m, g))
<1>1. Held(m, g).pools = g
  BY DEF Held, MappingSaved
<1> QED
  BY <1>1 DEF IsSound, IsPart, PoolsOf

(* add() keeps supported functionalities and active pools in step.         *)
LEMMA PoolIsAdded ==
  ASSUME NEW m, NEW g, IsPart(m, g), NEW f \in DOMAIN m.pools, NEW pool, pool # EmptyPool
  PROVE  Add(Held(m, g), pool, f) = Held(m, WithPool(g, f, pool))
<1> DEFINE h == WithPool(g, f, pool)
           supported == Backed(g)
           active == UNION {g[x] : x \in DOMAIN g}
           supported2 == Backed(h)
           active2 == UNION {h[x] : x \in DOMAIN h}
           before == MappingSaved(m.pool, m.functionalities, m.bound, g, supported, active)
           after == MappingSaved(m.pool, m.functionalities, m.bound, h, supported2, active2)
<1>0. Held(m, g) = before /\ Held(m, h) = after
  BY DEF Held
<1>1. /\ DOMAIN g = DOMAIN m.pools /\ DOMAIN h = DOMAIN m.pools
      /\ h[f] = g[f] \cup {pool}
      /\ \A x \in DOMAIN m.pools : x # f => h[x] = g[x]
  BY DEF IsPart, WithPool
<1>2. PoolsOf(before, f) = g[f]
  BY <1>1 DEF PoolsOf, MappingSaved
<1>3. With(g, f, g[f] \cup {pool}) = h
  <2>1. With(g, f, g[f] \cup {pool}) = [x \in DOMAIN m.pools |-> h[x]]
    <3> HIDE DEF h
    <3> QED
      BY <1>1 DEF With
  <2>2. h = [x \in DOMAIN m.pools |-> h[x]]
    BY <1>1 DEF WithPool
  <2> QED
    BY <2>1, <2>2
<1> HIDE DEF h
<1>4. supported2 = supported \cup {f}
  BY <1>1 DEF Backed
<1>5. active2 = active \cup {pool}
  <2>1. ASSUME NEW x \in DOMAIN m.pools, NEW y \in h[x] PROVE y \in active \cup {pool}
    BY <1>1, <2>1
  <2>2. ASSUME NEW x \in DOMAIN m.pools, NEW y \in g[x] PROVE y \in active2
    BY <1>1, <2>2
  <2>3. pool \in active2
    BY <1>1
  <2>4. ASSUME NEW y \in active2 PROVE y \in active \cup {pool}
    <3>1. PICK x \in DOMAIN h : y \in h[x]
      BY <2>4
    <3> QED
      BY <1>1, <2>1, <3>1
  <2>5. ASSUME NEW y \in active PROVE y \in active2
    <3>1. PICK x \in DOMAIN g : y \in g[x]
      BY <2>5
    <3> QED
      BY <1>1, <2>2, <3>1
  <2> HIDE DEF active, active2
  <2> QED
    BY <2>3, <2>4, <2>5
<1> HIDE DEF supported, active, supported2, active2
<1>6. before.supported = supported /\ before.active = active /\ before.pools = g
  BY DEF MappingSaved
<1> DEFINE a == MappingSaved(m.pool, m.functionalities, m.bound, h, supported, active)
           b == MappingSaved(m.pool, m.functionalities, m.bound, h, supported2, active)
<1>7. [before EXCEPT !.pools = h] = a
  BY DEF MappingSaved
<1>8. [a EXCEPT !.supported = supported2] = b
  BY DEF MappingSaved
<1>9. [b EXCEPT !.active = active2] = after
  BY DEF MappingSaved
<1>10. [before EXCEPT !.pools = h, !.supported = supported2, !.active = active2]
         = [[[before EXCEPT !.pools = h] EXCEPT !.supported = supported2] EXCEPT !.active = active2]
  BY DEF MappingSaved
<1> HIDE DEF before, after, a, b
<1>11. Add(before, pool, f) = [before EXCEPT !.pools = h, !.supported = supported2, !.active = active2]
  BY <1>2, <1>3, <1>4, <1>5, <1>6 DEF Add
<1>12. Add(before, pool, f) = after
  BY <1>7, <1>8, <1>9, <1>10, <1>11
<1> QED
  BY <1>0, <1>12 DEF h

(* A name starts a functionality, ...                                      *)
LEMMA NameStarts ==
  ASSUME NEW loaded, NEW function, NEW f, IsName(f)
  PROVE  ParseLine(State("body", loaded, EmptyPool, function), Name(f))
           = State("body", loaded, EmptyPool, f)
<1> DEFINE st == State("body", loaded, EmptyPool, function)
           line == Name(f)
<1>1. /\ line.columns = 1 /\ line.text = f /\ ~IsComment(line) /\ ~Unreadable(line)
  BY DEF Name, IsComment, Unreadable, IsName
<1>2. st.phase = "body"
  BY DEF State
<1>3. [st EXCEPT !.function = f] = State("body", loaded, EmptyPool, f)
  BY DEF State
<1> HIDE DEF st, line
<1>4. ParseLine(st, line) = BodyLine(st, line)
  BY <1>1, <1>2 DEF ParseLine
<1>5. BodyLine(st, line) = [st EXCEPT !.function = f]
  BY <1>1 DEF BodyLine
<1> QED
  BY <1>3, <1>4, <1>5 DEF st, line

(* ... and a blank line ends a pool.                                       *)
LEMMA BlankEndsPart ==
  ASSUME NEW loaded, NEW pool, NEW function
  PROVE  ParseLine(State("body", loaded, pool, function), Blank)
           = State("body", Add(loaded, pool, function), EmptyPool, function)
<1> DEFINE st == State("body", loaded, pool, function)
<1>1. /\ Blank.columns = 0 /\ ~IsComment(Blank) /\ ~Unreadable(Blank)
  BY DEF Blank, IsComment, Unreadable
<1>2. st.phase = "body"
  BY DEF State
<1>3. PartDone(st) = State("body", Add(loaded, pool, function), EmptyPool, function)
  BY PartUpdates
<1> HIDE DEF st
<1>4. ParseLine(st, Blank) = BodyLine(st, Blank)
  BY <1>1, <1>2 DEF ParseLine
<1>5. BodyLine(st, Blank) = PartDone(st)
  BY <1>1 DEF BodyLine, PartDone
<1> QED
  BY <1>3, <1>4, <1>5 DEF st

InBody(m, g, f) == State("body", Held(m, g), EmptyPool, f)

(* Nor does a pool that is being read change that.                         *)
LEMMA BodyIsSound ==
  ASSUME NEW m, NEW g, IsPart(m, g), NEW pool, NEW f
  PROVE  Sound(m, State("body", Held(m, g), pool, f))
BY HeldIsSound DEF Sound, State

(* The lines of one pool of a functionality.                               *)
LEMMA PartIsRead ==
  ASSUME NEW m \in Mappings, NEW g, IsPart(m, g), NEW f \in DOMAIN m.pools, NEW pool \in m.pools[f]
  PROVE  /\ IsPart(m, WithPool(g, f, pool))
         /\ Reads(m, InBody(m, g, f), Append(PoolLines(pool), Blank),
                     InBody(m, WithPool(g, f, pool), f))
<1> DEFINE h == WithPool(g, f, pool)
<1>1. IsMapping(m) /\ IsPool(pool) /\ pool # EmptyPool
  BY MappingAssumption DEF IsMapping
<1>2. Enumerates(Sorted(DOMAIN pool), DOMAIN pool)
  <2>1. pool \in m.active
    BY <1>1 DEF IsMapping
  <2>2. DOMAIN pool \in SavedSets(m)
    BY <2>1 DEF SavedSets
  <2> QED
    BY <2>2, MappingAssumption
<1>3. IsPart(m, h)
  BY DEF IsPart, WithPool
<1>4. Reads(m, InBody(m, g, f), PoolLines(pool), State("body", Held(m, g), pool, f))
  BY <1>1, <1>2, HeldIsSound, PoolIsRead DEF InBody, Reading
<1>5. InBody(m, h, f) = ParseLine(State("body", Held(m, g), pool, f), Blank)
  BY <1>1, PoolIsAdded, BlankEndsPart DEF InBody
<1>6. Sound(m, State("body", Held(m, g), pool, f)) /\ Sound(m, InBody(m, h, f))
  BY <1>3, BodyIsSound DEF InBody
<1>7. Reads(m, State("body", Held(m, g), pool, f), <<Blank>>, InBody(m, h, f))
  BY <1>5, <1>6, LineIsRead
<1> QED
  BY <1>3, <1>4, <1>7, LineByLine

(* The pools of a functionality.                                           *)
PartLines(m, f) ==
  LET pools == Sorted(m.pools[f])
  IN  Flattened([i \in DOMAIN pools |-> Append(PoolLines(pools[i]), Blank)])

WithPools(g, f, pools) == [g EXCEPT ![f] = @ \cup pools]

(* Pools of one functionality are added: none, ...                         *)
LEMMA NoPools ==
  ASSUME NEW m, NEW g, IsPart(m, g), NEW f \in DOMAIN m.pools
  PROVE  WithPools(g, f, {}) = g
BY DEF WithPools, IsPart

(* ... one more, ...                                                       *)
LEMMA OnePoolMore ==
  ASSUME NEW m, NEW g, IsPart(m, g), NEW f \in DOMAIN m.pools, NEW pools, NEW pool
  PROVE  WithPool(WithPools(g, f, pools), f, pool) = WithPools(g, f, pools \cup {pool})
BY DEF WithPools, WithPool, IsPart

(* ... and never one that it has not.                                      *)
LEMMA AllPools ==
  ASSUME NEW m, NEW g, IsPart(m, g), NEW f \in DOMAIN m.pools, NEW pools, pools \subseteq m.pools[f]
  PROVE  IsPart(m, WithPools(g, f, pools))
BY DEF WithPools, IsPart

(* All pools of a functionality.                                           *)
LEMMA PartsOfFunctionAreRead ==
  ASSUME NEW m \in Mappings, NEW g, IsPart(m, g), NEW f \in DOMAIN m.pools
  PROVE  Reads(m, InBody(m, g, f), PartLines(m, f), InBody(m, WithPools(g, f, m.pools[f]), f))
<1> DEFINE pools == Sorted(m.pools[f])
           N == Len(pools)
           First(i) == {pools[j] : j \in 1 .. i}
           q == [i \in 1 .. N |-> Append(PoolLines(pools[i]), Blank)]
           t == [i \in 0 .. N |-> InBody(m, WithPools(g, f, First(i)), f)]
<1>1. N \in Nat /\ pools = [i \in 1 .. N |-> pools[i]] /\ First(N) = m.pools[f]
  <2>1. m.pools[f] \in SavedSets(m)
    BY DEF SavedSets
  <2>2. Enumerates(pools, m.pools[f])
    BY <2>1, MappingAssumption
  <2> QED
    BY <2>2 DEF Enumerates
<1> HIDE DEF pools
<1>2. DOMAIN pools = 1 .. N
  BY <1>1
<1>3. PartLines(m, f) = Flattened(q)
  BY <1>2 DEF PartLines, pools
<1> HIDE DEF N
<1>4. \A i \in 1 .. N : pools[i] \in m.pools[f]
  BY <1>1
<1>5. ASSUME NEW i \in 0 .. N PROVE First(i) \subseteq m.pools[f]
  BY <1>1, <1>4
<1>6. \A i \in 1 .. N : First(i) = First(i - 1) \cup {pools[i]}
  BY <1>1
<1>7. First(0) = {}
  OBVIOUS
<1> HIDE DEF First
<1>8. ASSUME NEW i \in 0 .. N PROVE IsPart(m, WithPools(g, f, First(i)))
  BY <1>5, AllPools
<1>9. \A i \in 0 .. N : t[i] = InBody(m, WithPools(g, f, First(i)), f)
  OBVIOUS
<1>10. Len(q) = N /\ \A i \in 1 .. N : q[i] = Append(PoolLines(pools[i]), Blank)
  <2>1. q \in Seq({Append(PoolLines(pools[i]), Blank) : i \in 1 .. N}) /\ Len(q) = N
    BY <1>1
  <2> QED
    BY <2>1
<1> HIDE DEF t, q
<1>11. ASSUME NEW i \in 1 .. N PROVE Reads(m, t[i - 1], q[i], t[i])
  <2>1. i - 1 \in 0 .. N /\ i \in 0 .. N
    BY <1>1
  <2> DEFINE h == WithPools(g, f, First(i - 1))
  <2>2. IsPart(m, h) /\ pools[i] \in m.pools[f]
    BY <1>4, <1>8, <2>1
  <2>3. WithPool(h, f, pools[i]) = WithPools(g, f, First(i))
    BY <1>6, OnePoolMore
  <2> HIDE DEF h
  <2>4. Reads(m, InBody(m, h, f), Append(PoolLines(pools[i]), Blank),
                 InBody(m, WithPool(h, f, pools[i]), f))
    BY <2>2, PartIsRead
  <2>5. t[i - 1] = InBody(m, h, f) /\ t[i] = InBody(m, WithPool(h, f, pools[i]), f)
    BY <1>9, <2>1, <2>3 DEF h
  <2> QED
    BY <1>10, <2>4, <2>5
<1>12. t[0] = InBody(m, g, f) /\ t[N] = InBody(m, WithPools(g, f, m.pools[f]), f)
  <2>1. 0 \in 0 .. N /\ N \in 0 .. N
    BY <1>1
  <2>2. WithPools(g, f, {}) = g
    BY NoPools
  <2> QED
    BY <1>1, <1>7, <1>9, <2>1, <2>2
<1>13. Sound(m, t[0])
  BY <1>12, BodyIsSound DEF InBody
<1>14. Reads(m, t[0], Flattened(q), t[N])
  BY <1>1, <1>10, <1>11, <1>13, PartsAreRead
<1> QED
  BY <1>3, <1>12, <1>14

(* One functionality.                                                      *)
LEMMA FunctionIsRead ==
  ASSUME NEW m \in Mappings, NEW g, IsPart(m, g), NEW f \in DOMAIN m.pools, NEW function
  PROVE  Reads(m, InBody(m, g, function), FunctionLines(m, f),
                  InBody(m, WithPools(g, f, m.pools[f]), f))
<1> DEFINE h == WithPools(g, f, m.pools[f])
           s0 == InBody(m, g, function)
           s1 == InBody(m, g, f)
           s2 == InBody(m, h, f)
<1>1. IsName(f)
  BY MappingAssumption DEF IsMapping
<1>2. IsPart(m, h)
  BY AllPools
<1>3. Sound(m, s0) /\ Sound(m, s1) /\ Sound(m, s2)
  BY <1>2, BodyIsSound DEF InBody
<1>4. s1 = ParseLine(s0, Name(f))
  BY <1>1, NameStarts DEF InBody
<1>5. s2 = ParseLine(s2, Blank)
  <2>1. Add(Held(m, h), EmptyPool, f) = Held(m, h)
    BY DEF Add
  <2> QED
    BY <2>1, BlankEndsPart DEF InBody
<1>6. Reads(m, s1, PartLines(m, f), s2)
  BY PartsOfFunctionAreRead
<1> HIDE DEF s0, s1, s2
<1>7. Reads(m, s0, <<Name(f)>>, s1) /\ Reads(m, s2, <<Blank>>, s2)
  BY <1>3, <1>4, <1>5, LineIsRead
<1>8. Reads(m, s0, <<Comment(2)>>, s0) /\ Reads(m, s1, <<Comment(4)>>, s1)
  BY <1>3, CommentIsSkipped
<1>9. Reads(m, s0, <<Comment(2), Name(f)>>, s1)
  BY <1>7, <1>8, SecondLine
<1>10. Reads(m, s0, <<Comment(2), Name(f), Comment(4)>>, s1)
  BY <1>8, <1>9, ThirdLine
<1>11. Reads(m, s0, <<Comment(2), Name(f), Comment(4)>> \o PartLines(m, f), s2)
  BY <1>6, <1>10, ReadOn
<1>12. Reads(m, s0, (<<Comment(2), Name(f), Comment(4)>> \o PartLines(m, f)) \o <<Blank>>, s2)
  BY <1>7, <1>11, ReadOn
<1>13. FunctionLines(m, f) = (<<Comment(2), Name(f), Comment(4)>> \o PartLines(m, f)) \o <<Blank>>
  BY Zenon DEF FunctionLines, PartLines
<1> QED
  BY <1>12, <1>13 DEF s0, s2

(* After the header no pool is known.                                      *)
None(m) == [f \in DOMAIN m.pools |-> {}]

(* So it is a part of the mapping.                                         *)
LEMMA HeaderHoldsNothing ==
  ASSUME NEW m, IsMapping(m)
  PROVE  Known(m, m.pool, Len(m.functionalities), m.bound) = Held(m, None(m))
<1> DEFINE N == Len(m.functionalities)
           list == [i \in 1 .. N |-> m.functionalities[i]]
           names == {m.functionalities[i] : i \in 1 .. N}
           none == [f \in names |-> {}]
           active == UNION {None(m)[f] : f \in DOMAIN None(m)}
<1>1. list = m.functionalities /\ names = DOMAIN m.pools
  BY DEF IsMapping, Enumerates
<1>2. none = None(m)
  BY <1>1 DEF None
<1>3. Backed(None(m)) = {}
  BY DEF Backed, None
<1>4. active = {}
  <2>1. \A f \in DOMAIN None(m) : None(m)[f] = {}
    BY DEF None
  <2>2. \A x \in active : FALSE
    BY <2>1
  <2> HIDE DEF active
  <2> QED
    BY <2>2
<1>5. Known(m, m.pool, N, m.bound) = MappingSaved(m.pool, list, m.bound, none, {}, {})
  BY Zenon DEF Known
<1>6. Held(m, None(m)) = MappingSaved(m.pool, m.functionalities, m.bound, None(m), Backed(None(m)), active)
  BY Zenon DEF Held
<1> HIDE DEF list, none, active, N
<1> QED
  BY <1>1, <1>2, <1>3, <1>4, <1>5, <1>6 DEF N

(* After the last line everything is.                                      *)
LEMMA AllIsHeld ==
  ASSUME NEW m, IsMapping(m)
  PROVE  Held(m, m.pools) = m
<1>1. Backed(m.pools) = m.supported /\ UNION {m.pools[f] : f \in DOMAIN m.pools} = m.active
  BY DEF IsMapping, Backed, SupportedIn
<1>2. Held(m, m.pools) = MappingSaved(m.pool, m.functionalities, m.bound, m.pools, m.supported, m.active)
  <2>1. Held(m, m.pools) = MappingSaved(m.pool, m.functionalities, m.bound, m.pools, Backed(m.pools),
                                     UNION {m.pools[f] : f \in DOMAIN m.pools})
    BY Zenon DEF Held
  <2> QED
    BY <1>1, <2>1
<1> QED
  BY <1>2, Zenon DEF IsMapping, MappingSaved

SupportLines(m) ==
  LET supported == Sorted(SupportedIn(m))
  IN  Flattened([i \in DOMAIN supported |-> FunctionLines(m, supported[i])])

(* All functionalities that have support.                                  *)
LEMMA SupportsAreRead ==
  ASSUME NEW m \in Mappings
  PROVE  \E function :
           Reads(m, InBody(m, None(m), Garbage), SupportLines(m), InBody(m, m.pools, function))
<1> DEFINE supported == Sorted(SupportedIn(m))
           N == Len(supported)
           First(i) == {supported[j] : j \in 1 .. i}
           G(i) == [f \in DOMAIN m.pools |-> IF f \in First(i) THEN m.pools[f] ELSE {}]
           last(i) == IF i = 0 THEN Garbage ELSE supported[i]
           q == [i \in 1 .. N |-> FunctionLines(m, supported[i])]
           t == [i \in 0 .. N |-> InBody(m, G(i), last(i))]
<1>0. IsMapping(m)
  BY MappingAssumption
<1>1. N \in Nat /\ supported = [i \in 1 .. N |-> supported[i]] /\ First(N) = SupportedIn(m)
  <2>1. SupportedIn(m) \in SavedSets(m)
    BY DEF SavedSets
  <2>2. Enumerates(supported, SupportedIn(m))
    BY <2>1, MappingAssumption
  <2> QED
    BY <2>2 DEF Enumerates
<1> HIDE DEF supported
<1>2. DOMAIN supported = 1 .. N
  BY <1>1
<1>3. SupportLines(m) = Flattened(q)
  BY <1>2 DEF SupportLines, supported
<1> HIDE DEF N
<1>4. \A i \in 1 .. N : supported[i] \in DOMAIN m.pools
  BY <1>1 DEF SupportedIn
<1>5. \A i \in 1 .. N : First(i) = First(i - 1) \cup {supported[i]}
  BY <1>1
<1>6. First(0) = {}
  OBVIOUS
<1> HIDE DEF First
<1>7. ASSUME NEW i \in 0 .. N PROVE IsPart(m, G(i))
  BY DEF IsPart
<1>8. ASSUME NEW i \in 1 .. N
      PROVE  WithPools(G(i - 1), supported[i], m.pools[supported[i]]) = G(i)
  <2>1. First(i) = First(i - 1) \cup {supported[i]} /\ supported[i] \in DOMAIN m.pools
    BY <1>4, <1>5
  <2> QED
    BY <2>1 DEF WithPools
<1>9. G(0) = None(m)
  BY <1>6 DEF None
<1>10. G(N) = m.pools
  <2>1. G(N) = [f \in DOMAIN m.pools |-> m.pools[f]]
    BY <1>1 DEF SupportedIn
  <2> QED
    BY <1>0, <2>1 DEF IsMapping
<1>11. \A i \in 0 .. N : t[i] = InBody(m, G(i), last(i))
  OBVIOUS
<1>12. Len(q) = N /\ \A i \in 1 .. N : q[i] = FunctionLines(m, supported[i])
  <2>1. q \in Seq({FunctionLines(m, supported[i]) : i \in 1 .. N}) /\ Len(q) = N
    BY <1>1
  <2> QED
    BY <2>1
<1>13. last(0) = Garbage /\ \A i \in 1 .. N : last(i) = supported[i]
  BY <1>1
<1> HIDE DEF t, q, G, last
<1>14. ASSUME NEW i \in 1 .. N PROVE Reads(m, t[i - 1], q[i], t[i])
  <2>1. i - 1 \in 0 .. N /\ i \in 0 .. N
    BY <1>1
  <2>2. IsPart(m, G(i - 1)) /\ supported[i] \in DOMAIN m.pools
    BY <1>4, <1>7, <2>1
  <2>3. Reads(m, InBody(m, G(i - 1), last(i - 1)), FunctionLines(m, supported[i]),
                 InBody(m, WithPools(G(i - 1), supported[i], m.pools[supported[i]]), supported[i]))
    BY <2>2, FunctionIsRead
  <2> QED
    BY <1>8, <1>11, <1>12, <1>13, <2>1, <2>3
<1>15. t[0] = InBody(m, None(m), Garbage) /\ t[N] = InBody(m, m.pools, last(N))
  <2>1. 0 \in 0 .. N /\ N \in 0 .. N
    BY <1>1
  <2> QED
    BY <1>9, <1>10, <1>11, <1>13, <2>1
<1>16. Sound(m, t[0])
  <2>1. 0 \in 0 .. N
    BY <1>1
  <2>2. IsPart(m, None(m))
    BY <1>7, <1>9, <2>1
  <2> QED
    BY <1>15, <2>2, BodyIsSound DEF InBody
<1>17. Reads(m, t[0], Flattened(q), t[N])
  BY <1>1, <1>12, <1>14, <1>16, PartsAreRead
<1> QED
  BY <1>3, <1>15, <1>17

(* fromFile(save()) is the identity, and all along the way nothing is      *)
(* claimed that was not saved.                                             *)
IsReading(m, r) ==
  /\ Trace(m, SaveLines(m), r)
  /\ r[0] = ParserStart /\ r[Len(SaveLines(m))].mapping = m

(* There is such a reading of every mapping.                               *)
THEOREM LoadingInvertsSaving ==
  ASSUME NEW m \in Mappings
  PROVE  IsSeq(SaveLines(m)) /\ \E r : IsReading(m, r)
<1>0. IsMapping(m)
  BY MappingAssumption
<1>1. Reads(m, ParserStart, HeaderLines(m), InBody(m, None(m), Garbage))
  <2>1. State("body", Known(m, m.pool, Len(m.functionalities), m.bound), EmptyPool, Garbage)
          = InBody(m, None(m), Garbage)
    BY <1>0, HeaderHoldsNothing DEF InBody
  <2> QED
    BY <2>1, HeaderIsRead
<1>2. PICK function :
        Reads(m, InBody(m, None(m), Garbage), SupportLines(m), InBody(m, m.pools, function))
  BY SupportsAreRead
<1> DEFINE last == InBody(m, m.pools, function)
<1>3. Reads(m, ParserStart, HeaderLines(m) \o SupportLines(m), last)
  BY <1>1, <1>2, ReadOn
<1>4. last.mapping = m /\ Sound(m, last)
  <2>1. last.mapping = Held(m, m.pools)
    BY DEF InBody, State
  <2>2. IsPart(m, m.pools)
    BY <1>0 DEF IsMapping, IsPart
  <2> QED
    BY <1>0, <2>1, <2>2, AllIsHeld, BodyIsSound DEF InBody
<1> HIDE DEF last
<1>5. Reads(m, last, <<Comment(3)>>, last)
  BY <1>4, CommentIsSkipped
<1>6. Reads(m, ParserStart, (HeaderLines(m) \o SupportLines(m)) \o <<Comment(3)>>, last)
  BY <1>3, <1>5, ReadOn
<1>7. SaveLines(m) = (HeaderLines(m) \o SupportLines(m)) \o <<Comment(3)>>
  BY Zenon DEF SaveLines, HeaderLines, NameLines, SupportLines, SupportedIn
<1>8. Reads(m, ParserStart, SaveLines(m), last)
  BY <1>6, <1>7
<1> QED
  BY <1>4, <1>8 DEF Reads, Leads, IsReading

-----------------------------------------------------------------------------
(* One process after another                                               *)

(* Where the only process is, what it has of the file, and what the file   *)
(* holds.                                                                  *)
Labels == {"start", "load", "compute", "save", "done"}

LoadTypes(p) ==
  /\ computed \in Mappings /\ saved \in Mappings
  /\ exists \in BOOLEAN /\ aborted \in BOOLEAN
  /\ pc \in [{p} -> Labels] /\ position \in [{p} -> Nat]
  /\ parser = [q \in {p} |-> parser[q]] /\ behind \in [{p} -> BOOLEAN]
  /\ mapping = [q \in {p} |-> mapping[q]]

(* The file is cut off somewhere; who writes it is at its end.             *)
FileIsPrefix(p) ==
  \E k \in 0 .. LastLine :
    /\ written = 1 .. k
    /\ pc[p] = "save" => position[p] = k

AtRest(p) ==
  /\ pc[p] # "load" => parser[p] = ParserStart /\ ~behind[p]
  /\ pc[p] \in {"start", "compute"} => position[p] = 0

(* fromFile is in the state the lines it has read lead to.                 *)
IsLoading(p) ==
  /\ exists /\ ~behind[p] /\ 1 .. position[p] \subseteq written
  /\ \E r : IsReading(saved, r) /\ parser[p] = r[position[p]]

HasResult(p) ==
  \/ mapping[p] = computed
  \/ IsSound(saved, mapping[p]) /\ (~aborted => mapping[p] = saved)

LoadInvariant(p) ==
  /\ LoadTypes(p) /\ FileIsPrefix(p) /\ AtRest(p)
  /\ pc[p] = "load" => IsLoading(p)
  /\ pc[p] = "save" => mapping[p] = computed
  /\ pc[p] = "done" => HasResult(p)

(* A file has finitely many lines.                                         *)
LEMMA FileHasLength ==
  ASSUME NEW m \in Mappings
  PROVE  Len(SaveLines(m)) \in Nat
<1>1. PICK T : SaveLines(m) \in Seq(T)
  BY LoadingInvertsSaving DEF IsSeq
<1> QED
  BY <1>1

(* At first there is no file.                                              *)
LEMMA LoadInitially ==
  ASSUME NEW p, Process = {p}
  PROVE  FileInit => LoadInvariant(p)
<1> SUFFICES ASSUME FileInit PROVE LoadInvariant(p)
  OBVIOUS
<1>1. LoadTypes(p) /\ pc[p] = "start"
  BY DEF FileInit, LoadTypes, Labels
<1>2. FileIsPrefix(p)
  <2>1. LastLine \in Nat
    BY <1>1, FileHasLength DEF LoadTypes, LastLine, Lines
  <2>2. 0 \in 0 .. LastLine /\ written = 1 .. 0
    BY <2>1 DEF FileInit
  <2> QED
    BY <1>1, <2>2 DEF FileIsPrefix
<1>3. AtRest(p)
  BY DEF FileInit, AtRest
<1> QED
  BY <1>1, <1>2, <1>3 DEF LoadInvariant

(* A process that finds the file begins to read it, ...                    *)
LEMMA LookingKeeps ==
  ASSUME NEW p, Process = {p}, LoadInvariant(p), LookForFile(p)
  PROVE  LoadInvariant(p)'
<1>1. /\ pc[p] = "start" /\ pc' = [pc EXCEPT ![p] = IF exists THEN "load" ELSE "compute"]
      /\ UNCHANGED <<computed, saved, exists, written, position, parser, behind, mapping, aborted>>
  BY DEF LookForFile, Goto, file, reading
<1>2. LoadTypes(p)'
  BY <1>1 DEF LoadInvariant, LoadTypes, Labels
<1>3. pc'[p] = IF exists THEN "load" ELSE "compute"
  BY <1>1 DEF LoadInvariant, LoadTypes
<1>4. FileIsPrefix(p)'
  <2>1. LastLine' = LastLine
    BY <1>1 DEF LastLine, Lines
  <2> QED
    BY <1>1, <1>3, <2>1 DEF LoadInvariant, FileIsPrefix
<1>5. parser[p] = ParserStart /\ ~behind[p] /\ position[p] = 0
  BY <1>1 DEF LoadInvariant, AtRest
<1>6. AtRest(p)'
  BY <1>1, <1>5 DEF AtRest
<1>7. ASSUME pc'[p] = "load" PROVE IsLoading(p)'
  <2>1. exists /\ 1 .. position[p] \subseteq written
    BY <1>3, <1>5, <1>7
  <2>2. PICK r : IsReading(saved, r)
    BY LoadingInvertsSaving DEF LoadInvariant, LoadTypes
  <2>3. r[0] = ParserStart
    BY <2>2 DEF IsReading
  <2>4. parser[p] = r[position[p]]
    BY <1>5, <2>3
  <2>5. IsLoading(p)
    BY <1>5, <2>1, <2>2, <2>4 DEF IsLoading
  <2> QED
    BY <1>1, <2>5 DEF IsLoading
<1> QED
  BY <1>2, <1>3, <1>4, <1>6, <1>7 DEF LoadInvariant

(* ... reads a line that is there, behind no hole, as it was saved, ...    *)
LEMMA ReadingKeeps ==
  ASSUME NEW p, Process = {p}, LoadInvariant(p), ReadLine(p)
  PROVE  LoadInvariant(p)'
<1> DEFINE next == position[p] + 1
<1>1. /\ pc[p] = "load" /\ MoreToRead(p)
      /\ UNCHANGED <<computed, saved, exists, written, mapping, aborted>>
      /\ position' = [position EXCEPT ![p] = next]
      /\ behind' = [behind EXCEPT ![p] = next \notin written]
  BY DEF ReadLine, file
<1>2. position[p] \in Nat /\ saved \in Mappings
  BY DEF LoadInvariant, LoadTypes
<1>3. IsLoading(p)
  BY <1>1 DEF LoadInvariant
<1>4. PICK k \in 0 .. LastLine : written = 1 .. k
  BY DEF LoadInvariant, FileIsPrefix
<1>5. LastLine \in Nat
  BY <1>2, FileHasLength DEF LastLine, Lines
<1>6. next \in written /\ next \in 1 .. LastLine
  <2>1. PICK n \in written : n > position[p]
    BY <1>1 DEF MoreToRead
  <2> QED
    BY <1>2, <1>4, <1>5, <2>1
<1>7. PICK r : IsReading(saved, r) /\ parser[p] = r[position[p]]
  BY <1>3 DEF IsLoading
<1>8. /\ r[next] = ParseLine(r[next - 1], Lines[next])
      /\ r[next].phase # "thrown"
  <2>1. next \in 1 .. Len(SaveLines(saved)) /\ next \in 0 .. Len(SaveLines(saved))
    BY <1>6 DEF LastLine, Lines
  <2>2. Trace(saved, SaveLines(saved), r)
    BY <1>7 DEF IsReading
  <2> HIDE DEF next
  <2> QED
    BY <2>1, <2>2 DEF Trace, Sound, Lines
<1>9. next - 1 = position[p] /\ next # position[p]
  BY <1>2
<1>10. ParseLine(parser[p], Lines[next]) = r[next]
  BY <1>7, <1>8, <1>9
<1> HIDE DEF next
<1>11. ~behind[p]
  BY <1>3 DEF IsLoading
<1>12. parser' = [parser EXCEPT ![p] = r[next]]
       /\ pc' = [pc EXCEPT ![p] = "load"]
  BY <1>6, <1>8, <1>10, <1>11 DEF ReadLine, Goto, next
<1>13. /\ parser'[p] = r[next] /\ pc'[p] = "load" /\ position'[p] = next /\ ~behind'[p]
  BY <1>1, <1>6, <1>12 DEF LoadInvariant, LoadTypes
<1>14. LoadTypes(p)'
  <2>1. next \in Nat
    BY <1>2 DEF next
  <2>2. parser' = [q \in {p} |-> parser'[q]]
    BY <1>12 DEF LoadInvariant, LoadTypes
  <2>3. position' \in [{p} -> Nat] /\ behind' \in [{p} -> BOOLEAN] /\ pc' \in [{p} -> Labels]
    BY <1>1, <1>12, <2>1 DEF LoadInvariant, LoadTypes, Labels
  <2> QED
    BY <1>1, <2>2, <2>3 DEF LoadInvariant, LoadTypes
<1>15. FileIsPrefix(p)'
  <2>1. LastLine' = LastLine
    BY <1>1 DEF LastLine, Lines
  <2> QED
    BY <1>1, <1>4, <1>13, <2>1 DEF FileIsPrefix
<1>16. AtRest(p)'
  BY <1>13 DEF AtRest
<1>17. IsLoading(p)'
  <2>1. 1 .. next \subseteq written
    BY <1>2, <1>4, <1>5, <1>6
  <2>2. exists
    BY <1>3 DEF IsLoading
  <2> QED
    BY <1>1, <1>7, <1>13, <2>1, <2>2 DEF IsLoading
<1> QED
  BY <1>13, <1>14, <1>15, <1>16, <1>17 DEF LoadInvariant

(* ... and ends with what its lines say, all of them when none is missing. *)
LEMMA FinishingKeeps ==
  ASSUME NEW p, Process = {p}, LoadInvariant(p), FileIsCarried, FinishLoad(p)
  PROVE  LoadInvariant(p)'
<1>1. /\ pc[p] = "load" /\ ~MoreToRead(p)
      /\ UNCHANGED <<computed, saved, exists, written, aborted>>
      /\ pc' = [pc EXCEPT ![p] = "done"]
      /\ mapping' = [mapping EXCEPT ![p] = parser[p].mapping]
      /\ position' = [position EXCEPT ![p] = 0]
      /\ parser' = [parser EXCEPT ![p] = ParserStart]
      /\ behind' = [behind EXCEPT ![p] = FALSE]
  BY DEF FinishLoad, Goto, file
<1>2. position[p] \in Nat /\ saved \in Mappings /\ aborted \in BOOLEAN
  BY DEF LoadInvariant, LoadTypes
<1>3. IsLoading(p)
  BY <1>1 DEF LoadInvariant
<1>4. PICK k \in 0 .. LastLine : written = 1 .. k
  BY DEF LoadInvariant, FileIsPrefix
<1>5. LastLine \in Nat
  BY <1>2, FileHasLength DEF LastLine, Lines
<1>6. position[p] = k
  <2>1. 1 .. position[p] \subseteq 1 .. k
    BY <1>3, <1>4 DEF IsLoading
  <2>2. \A n \in 1 .. k : ~(n > position[p])
    BY <1>1, <1>4 DEF MoreToRead
  <2>3. k \in Nat
    BY <1>5
  <2>4. position[p] <= k
    <3>1. CASE position[p] = 0
      BY <2>3, <3>1
    <3>2. CASE position[p] # 0
      <4>1. position[p] \in 1 .. position[p]
        BY <1>2, <3>2
      <4> QED
        BY <2>1, <2>3, <4>1
    <3> QED
      BY <3>1, <3>2
  <2>5. k <= position[p]
    <3>1. CASE k = 0
      BY <1>2, <3>1
    <3>2. CASE k # 0
      <4>1. k \in 1 .. k
        BY <2>3, <3>2
      <4> QED
        BY <1>2, <2>2, <2>3, <4>1
    <3> QED
      BY <3>1, <3>2
  <2> QED
    BY <1>2, <2>3, <2>4, <2>5
<1>7. PICK r : IsReading(saved, r) /\ parser[p] = r[k]
  BY <1>3, <1>6 DEF IsLoading
<1>8. IsSound(saved, parser[p].mapping)
  <2>1. k \in 0 .. Len(SaveLines(saved))
    BY DEF LastLine, Lines
  <2>2. Sound(saved, r[k])
    BY <1>7, <2>1 DEF IsReading, Trace
  <2> QED
    BY <1>7, <2>2 DEF Sound
<1>9. ASSUME ~aborted PROVE parser[p].mapping = saved
  <2>1. 1 .. LastLine \subseteq written
    BY <1>1, <1>3, <1>9 DEF FileIsCarried, IsLoading
  <2>2. k = LastLine
    <3>1. CASE LastLine = 0
      BY <3>1
    <3>2. CASE LastLine # 0
      <4>1. LastLine \in 1 .. LastLine
        BY <1>5, <3>2
      <4>2. LastLine \in 1 .. k
        BY <1>4, <2>1, <4>1
      <4> QED
        BY <1>5, <4>2
    <3> QED
      BY <3>1, <3>2
  <2>3. r[Len(SaveLines(saved))].mapping = saved
    BY <1>7 DEF IsReading
  <2> QED
    BY <1>7, <2>2, <2>3 DEF LastLine, Lines
<1>10. /\ pc'[p] = "done" /\ mapping'[p] = parser[p].mapping /\ position'[p] = 0
       /\ parser'[p] = ParserStart /\ ~behind'[p]
  BY <1>1 DEF LoadInvariant, LoadTypes
<1>11. LoadTypes(p)'
  <2>1. parser' = [q \in {p} |-> parser'[q]] /\ mapping' = [q \in {p} |-> mapping'[q]]
    BY <1>1 DEF LoadInvariant, LoadTypes
  <2>2. position' \in [{p} -> Nat] /\ behind' \in [{p} -> BOOLEAN] /\ pc' \in [{p} -> Labels]
    BY <1>1 DEF LoadInvariant, LoadTypes, Labels
  <2> QED
    BY <1>1, <2>1, <2>2 DEF LoadInvariant, LoadTypes
<1>12. FileIsPrefix(p)'
  <2>1. LastLine' = LastLine
    BY <1>1 DEF LastLine, Lines
  <2> QED
    BY <1>1, <1>4, <1>10, <2>1 DEF FileIsPrefix
<1>13. AtRest(p)'
  BY <1>10 DEF AtRest
<1>14. HasResult(p)'
  BY <1>1, <1>8, <1>9, <1>10 DEF HasResult
<1> QED
  BY <1>10, <1>11, <1>12, <1>13, <1>14 DEF LoadInvariant

(* The steps of saving, and those that touch no file.                      *)
LEMMA SavingKeeps ==
  ASSUME NEW p, Process = {p}, LoadInvariant(p),
         OpenFile(p) \/ CannotOpenFile(p) \/ WriteLine(p) \/ CloseFile(p) \/ Restart(p)
  PROVE  LoadInvariant(p)'
<1> USE DEF Goto
<1>1. LoadTypes(p) /\ FileIsPrefix(p) /\ AtRest(p)
  BY DEF LoadInvariant
<1>2. computed' = computed /\ computed \in Mappings /\ saved \in Mappings /\ position[p] \in Nat
  BY <1>1 DEF LoadTypes, OpenFile, CannotOpenFile, WriteLine, CloseFile, Restart
<1>3. LastLine \in Nat
  BY <1>2, FileHasLength DEF LastLine, Lines
<1>4. CASE OpenFile(p)
  <2>1. /\ pc[p] = "compute" /\ pc' = [pc EXCEPT ![p] = "save"]
        /\ mapping' = [mapping EXCEPT ![p] = computed]
        /\ position' = [position EXCEPT ![p] = 0]
        /\ exists' = TRUE /\ saved' = computed /\ written' = {}
        /\ UNCHANGED <<parser, behind, aborted>>
    BY <1>4 DEF OpenFile, reading
  <2>2. LoadTypes(p)'
    BY <1>1, <1>2, <2>1 DEF LoadTypes, Labels
  <2>3. pc'[p] = "save" /\ mapping'[p] = computed /\ position'[p] = 0
    BY <1>1, <2>1 DEF LoadTypes
  <2>4. FileIsPrefix(p)'
    <3>1. LastLine' \in Nat
      BY <1>2, <2>1, FileHasLength DEF LastLine, Lines
    <3>2. 0 \in 0 .. LastLine' /\ written' = 1 .. 0
      BY <2>1, <3>1
    <3> QED
      BY <2>3, <3>2 DEF FileIsPrefix
  <2>5. AtRest(p)'
    BY <1>1, <2>1, <2>3 DEF AtRest
  <2> QED
    BY <1>2, <2>2, <2>3, <2>4, <2>5 DEF LoadInvariant
<1>5. CASE CannotOpenFile(p)
  <2>1. /\ pc[p] = "compute" /\ pc' = [pc EXCEPT ![p] = "done"]
        /\ mapping' = [mapping EXCEPT ![p] = computed]
        /\ UNCHANGED <<saved, exists, written, position, parser, behind, aborted>>
    BY <1>5 DEF CannotOpenFile, file, reading
  <2>2. LoadTypes(p)'
    BY <1>1, <1>2, <2>1 DEF LoadTypes, Labels
  <2>3. pc'[p] = "done" /\ mapping'[p] = computed
    BY <1>1, <2>1 DEF LoadTypes
  <2>4. FileIsPrefix(p)'
    BY <1>1, <2>1, <2>3 DEF FileIsPrefix, LastLine, Lines
  <2>5. AtRest(p)'
    BY <1>1, <2>1, <2>3 DEF AtRest
  <2>6. HasResult(p)'
    BY <1>2, <2>3 DEF HasResult
  <2> QED
    BY <2>2, <2>3, <2>4, <2>5, <2>6 DEF LoadInvariant
<1>6. CASE WriteLine(p)
  <2>1. /\ pc[p] = "save" /\ position[p] < LastLine
        /\ written' = written \cup {position[p] + 1}
        /\ position' = [position EXCEPT ![p] = position[p] + 1]
        /\ UNCHANGED <<saved, exists, pc, parser, behind, mapping, aborted>>
    BY <1>6 DEF WriteLine, reading
  <2>2. LoadTypes(p)'
    BY <1>1, <1>2, <2>1 DEF LoadTypes
  <2>3. position'[p] = position[p] + 1
    BY <1>1, <2>1 DEF LoadTypes
  <2>4. FileIsPrefix(p)'
    <3>1. written = 1 .. position[p]
      BY <1>1, <2>1 DEF FileIsPrefix
    <3>2. written' = 1 .. position[p] + 1 /\ position[p] + 1 \in 0 .. LastLine
      BY <1>2, <1>3, <2>1, <3>1
    <3>3. LastLine' = LastLine
      BY <2>1 DEF LastLine, Lines
    <3> QED
      BY <2>3, <3>2, <3>3 DEF FileIsPrefix
  <2>5. AtRest(p)'
    BY <1>1, <2>1 DEF AtRest
  <2> QED
    BY <1>2, <2>1, <2>2, <2>4, <2>5 DEF LoadInvariant
<1>7. CASE CloseFile(p)
  <2>1. /\ pc[p] = "save" /\ pc' = [pc EXCEPT ![p] = "done"]
        /\ position' = [position EXCEPT ![p] = 0]
        /\ UNCHANGED <<saved, exists, written, parser, behind, mapping, aborted>>
    BY <1>7 DEF CloseFile, file, reading
  <2>2. LoadTypes(p)'
    BY <1>1, <1>2, <2>1 DEF LoadTypes, Labels
  <2>3. pc'[p] = "done" /\ mapping'[p] = computed
    BY <1>1, <2>1 DEF LoadTypes, LoadInvariant
  <2>4. FileIsPrefix(p)'
    BY <1>1, <2>1, <2>3 DEF FileIsPrefix, LastLine, Lines
  <2>5. AtRest(p)'
    BY <1>1, <2>1, <2>3 DEF AtRest
  <2>6. HasResult(p)'
    BY <1>2, <2>3 DEF HasResult
  <2> QED
    BY <2>2, <2>3, <2>4, <2>5, <2>6 DEF LoadInvariant
<1>8. CASE Restart(p)
  <2>1. /\ pc' = [pc EXCEPT ![p] = "start"] /\ aborted' = (aborted \/ pc[p] = "save")
        /\ position' = [position EXCEPT ![p] = 0]
        /\ parser' = [parser EXCEPT ![p] = ParserStart]
        /\ behind' = [behind EXCEPT ![p] = FALSE]
        /\ mapping' = [mapping EXCEPT ![p] = NoMapping]
        /\ UNCHANGED <<saved, exists, written>>
    BY <1>8 DEF Restart, file
  <2>2. LoadTypes(p)'
    <3>1. parser' = [q \in {p} |-> parser'[q]] /\ mapping' = [q \in {p} |-> mapping'[q]]
      BY <1>1, <2>1 DEF LoadTypes
    <3>2. position' \in [{p} -> Nat] /\ behind' \in [{p} -> BOOLEAN] /\ pc' \in [{p} -> Labels]
      BY <1>1, <2>1 DEF LoadTypes, Labels
    <3> QED
      BY <1>1, <1>2, <2>1, <3>1, <3>2 DEF LoadTypes
  <2>3. pc'[p] = "start" /\ position'[p] = 0 /\ parser'[p] = ParserStart /\ ~behind'[p]
    BY <1>1, <2>1 DEF LoadTypes
  <2>4. FileIsPrefix(p)'
    BY <1>1, <2>1, <2>3 DEF FileIsPrefix, LastLine, Lines
  <2>5. AtRest(p)'
    BY <2>3 DEF AtRest
  <2> QED
    BY <2>2, <2>3, <2>4, <2>5 DEF LoadInvariant
<1> QED
  BY <1>4, <1>5, <1>6, <1>7, <1>8

(* Each step of a process, and a change of the model, keeps the invariant. *)
LEMMA LoadStays ==
  ASSUME NEW p, Process = {p}, LoadInvariant(p), FileIsCarried, [FileNext]_filevars
  PROVE  LoadInvariant(p)'
<1>1. CASE UNCHANGED filevars
  <2>1. UNCHANGED <<computed, saved, exists, written, pc, position, parser, behind, mapping, aborted>>
    BY <1>1 DEF filevars, file, reading
  <2> QED
    BY <2>1 DEF LoadInvariant, LoadTypes, FileIsPrefix, LastLine, Lines, AtRest, IsLoading, HasResult
<1>2. CASE Revise
  <2>1. /\ pc[p] = "start" /\ computed' \in Mappings
        /\ UNCHANGED <<saved, exists, written, pc, position, parser, behind, mapping, aborted>>
    BY <1>2 DEF Revise, file, reading
  <2> QED
    BY <2>1 DEF LoadInvariant, LoadTypes, FileIsPrefix, LastLine, Lines, AtRest
<1>3. CASE \E q \in Process :
             \/ LookForFile(q) \/ OpenFile(q) \/ CannotOpenFile(q) \/ WriteLine(q)
             \/ CloseFile(q) \/ ReadLine(q) \/ FinishLoad(q) \/ Restart(q)
  <2>1. \/ LookForFile(p) \/ OpenFile(p) \/ CannotOpenFile(p) \/ WriteLine(p)
        \/ CloseFile(p) \/ ReadLine(p) \/ FinishLoad(p) \/ Restart(p)
    BY <1>3
  <2> QED
    BY <2>1, LookingKeeps, ReadingKeeps, FinishingKeeps, SavingKeeps
<1> QED
  BY <1>1, <1>2, <1>3 DEF FileNext

(* What one process after another reads is the whole way a part of what    *)
(* was saved.                                                              *)
THEOREM LoadIsPartial ==
  ASSUME NEW p, Process = {p}
  PROVE  FileSpec => [](LoadInvariant(p) /\ CarriedInvariant)
<1>1. FileInit => LoadInvariant(p)
  BY LoadInitially
<1>2. LoadInvariant(p) /\ CarriedInvariant /\ [FileNext]_filevars => LoadInvariant(p)' /\ CarriedInvariant'
  <2>1. CarriedInvariant /\ [FileNext]_filevars => CarriedInvariant'
    BY ProcessesStayOK, FileStaysCarried DEF CarriedInvariant
  <2>2. LoadInvariant(p) /\ CarriedInvariant /\ [FileNext]_filevars => LoadInvariant(p)'
    BY LoadStays DEF CarriedInvariant
  <2> QED
    BY <2>1, <2>2
<1> QED
  BY CarriedInitially, <1>1, <1>2, PTL DEF FileSpec

(* So no pool is said to support what it does not support in the mapping   *)
(* that was saved, whatever the moment a process died at (fromFile).       *)
THEOREM LoadSound ==
  ASSUME NEW p, Process = {p}
  PROVE  FileSpec => []LoadedIsSound
<1>1. LoadInvariant(p) => LoadedIsSound
  <2> SUFFICES ASSUME LoadInvariant(p), pc[p] = "done"
               PROVE  \E origin \in {computed, saved} :
                        \A pool \in origin.active \cup {EmptyPool} :
                          FunctionalitiesOf(mapping[p], pool)
                            \subseteq FunctionalitiesOf(origin, pool) \cup {Garbage}
    BY DEF LoadedIsSound
  <2>1. CASE mapping[p] = computed
    BY <2>1
  <2>2. CASE IsSound(saved, mapping[p])
    <3>1. ASSUME NEW pool, NEW f \in FunctionalitiesOf(mapping[p], pool)
          PROVE  f \in FunctionalitiesOf(saved, pool)
      <4>1. /\ f \in DOMAIN mapping[p].pools
            /\ \E part \in mapping[p].pools[f] : IsSubpool(part, pool)
        BY <3>1 DEF FunctionalitiesOf
      <4>2. mapping[p].pools[f] \subseteq PoolsOf(saved, f)
        BY <2>2, <4>1 DEF IsSound
      <4>3. f \in DOMAIN saved.pools /\ PoolsOf(saved, f) = saved.pools[f]
        BY <4>1, <4>2 DEF PoolsOf
      <4> QED
        BY <4>1, <4>2, <4>3 DEF FunctionalitiesOf
    <3> QED
      BY <3>1
  <2> QED
    BY <2>1, <2>2 DEF LoadInvariant, HasResult
<1> QED
  BY LoadIsPartial, <1>1, PTL

(* And as long as none has died while saving, what is loaded is exactly    *)
(* what was saved.                                                         *)
THEOREM LoadExact ==
  ASSUME NEW p, Process = {p}
  PROVE  FileSpec => []UndisturbedLoadIsExact
<1>1. LoadInvariant(p) => UndisturbedLoadIsExact
  BY DEF LoadInvariant, HasResult, UndisturbedLoadIsExact
<1> QED
  BY LoadIsPartial, <1>1, PTL

-----------------------------------------------------------------------------
(* The caches                                                              *)

(* Who is known to be feasible can be connected; who is known not to be    *)
(* cannot, unless the check had to end in time.                            *)
FeasibilityOK ==
  \A r \in Request : \A k \in DOMAIN feasibility :
    k[2] = Iri(r.om) =>
      /\ feasibility[k] \in BOOLEAN
      /\ feasibility[k] => k[1] \in Connectable(r.om, k[3])
      /\ k[4] = 0 /\ ~feasibility[k] => k[1] \notin Connectable(r.om, k[3])

Object ==
  [request : Request, mapping : UNION {FreshMappings(r) : r \in Request},
   pool : {Filtered(r.om, r.pool) : r \in Request}]

ObjectsOK ==
  /\ objects \in Seq(Object)
  /\ \A i \in DOMAIN objects :
       /\ objects[i].mapping \in FreshMappings(objects[i].request)
       /\ objects[i].pool = Filtered(objects[i].request.om, objects[i].request.pool)
  /\ \A r \in Request : Answering(r) # {} =>
       \E i \in Answering(r) : \A j \in Answering(r) : i <= j

StructuresOK ==
  \A c \in StructureCall : StructureKey(c) \in DOMAIN structures =>
    structures[StructureKey(c)] \in FreshStructures(c)

RestrictionsOK ==
  \A c \in RestrictionCall : <<c.request.om, c.rest>> \in DOMAIN restrictions =>
    restrictions[<<c.request.om, c.rest>>] = RestrictionsOf(c.request.om, c.rest)

RelatedEntries ==
  UNION {[A -> {RelatedTo(c.request.om, c.agent, c.rest) : c \in RelatedCall}] :
           A \in SUBSET {c.agent : c \in RelatedCall}}

RelatedOK ==
  /\ related \in Seq(RelatedEntries) /\ Len(related) = Len(objects)
  /\ \A i \in DOMAIN objects : \A c \in RelatedCall :
       objects[i].request.om = c.request.om /\ c.agent \in DOMAIN related[i] =>
         related[i][c.agent] = RelatedTo(c.request.om, c.agent, c.rest)

RobotsOK ==
  \A c \in RobotCall : c.pool \in DOMAIN robots => robots[c.pool] \in FreshRobots(c)

CachesOK ==
  FeasibilityOK /\ ObjectsOK /\ StructuresOK /\ RestrictionsOK /\ RelatedOK /\ RobotsOK

(* A request is answered by the first of the objects that fit; or, if it   *)
(* asks for a pool with more than agents in it, as no object has, by a new *)
(* one, which checks what has been checked before.                         *)
CheckKey(r, p) == FeasibilityKey(r.om, r.interface, r.timeout, p)

ToldByObject(r, result) ==
  Answering(r) # {} /\ result = objects[FirstAnswering(r)].mapping

ToldByChecks(r, result) ==
  /\ \A p \in Checks(r) : CheckKey(r, p) \in DOMAIN feasibility
  /\ result = MappingOf(r, {p \in Checks(r) : feasibility[CheckKey(r, p)]})

Kept(c, result) ==
  /\ c \in Request =>
       IF Filtered(c.om, c.pool) = c.pool THEN ToldByObject(c, result) ELSE ToldByChecks(c, result)
  /\ c \in StructureCall =>
       StructureKey(c) \in DOMAIN structures /\ result = structures[StructureKey(c)]
  /\ c \in RestrictionCall => result = RestrictionsOf(c.request.om, c.rest)
  /\ c \in RelatedCall => result = RelatedTo(c.request.om, c.agent, c.rest)
  /\ c \in RobotCall => c.pool \in DOMAIN robots /\ result = robots[c.pool]

ToldOK == \A t \in told : Kept(t[1], t[2])

CacheInvariant == CachesOK /\ ToldOK

-----------------------------------------------------------------------------
(* What a computation finds feasible, with what is known from earlier ones,*)
(* is what a fresh process might find.                                     *)
LEMMA FoundIsFresh ==
  ASSUME FeasibilityOK, NEW r \in Request, NEW timeout \in Nat, NEW pools,
         NEW late \in Late(pools, timeout)
  PROVE  Found(pools, r.om, r.interface, timeout, late)
           \in FreshChecks(pools, r.om, r.interface, timeout)
<1> DEFINE found == Found(pools, r.om, r.interface, timeout, late)
           key(p) == FeasibilityKey(r.om, r.interface, timeout, p)
           true == Connectable(r.om, r.interface)
<1>1. ASSUME NEW p \in pools
      PROVE  key(p)[1] = p /\ key(p)[2] = Iri(r.om) /\ key(p)[3] = r.interface /\ key(p)[4] = timeout
  BY DEF FeasibilityKey
<1>2. ASSUME NEW p \in pools, key(p) \in DOMAIN feasibility
      PROVE  /\ feasibility[key(p)] \in BOOLEAN
             /\ feasibility[key(p)] => p \in true
             /\ timeout = 0 /\ ~feasibility[key(p)] => p \notin true
  BY <1>1, <1>2 DEF FeasibilityOK
<1>3. found \subseteq pools \cap true
  BY <1>2 DEF Found
<1>4. CASE timeout = 0
  <2>1. late = {}
    BY <1>4 DEF Late
  <2>2. found = pools \cap true
    BY <1>2, <1>3, <1>4, <2>1 DEF Found
  <2>3. {} \in Late(pools, timeout)
    BY <1>4 DEF Late
  <2> QED
    BY <2>2, <2>3 DEF FreshChecks
<1>5. CASE timeout > 0
  <2>1. pools \ found \in Late(pools, timeout)
    BY <1>5 DEF Late
  <2>2. found = (pools \cap true) \ (pools \ found)
    BY <1>3
  <2> HIDE DEF found
  <2>3. found \in FreshChecks(pools, r.om, r.interface, timeout)
    BY <2>1, <2>2 DEF FreshChecks
  <2> QED
    BY <2>3 DEF found
<1> QED
  BY <1>4, <1>5

(* What it remembers is what it found, and what was known before.          *)
LEMMA RememberedIsFound ==
  ASSUME FeasibilityOK, NEW r \in Request, NEW timeout, NEW pools, NEW late,
         Remember(pools, r.om, r.interface, timeout, late)
  PROVE  /\ \A k \in DOMAIN feasibility : k \in DOMAIN feasibility' /\ feasibility'[k] = feasibility[k]
         /\ \A p \in pools :
              LET key == FeasibilityKey(r.om, r.interface, timeout, p)
              IN  /\ key \in DOMAIN feasibility'
                  /\ feasibility'[key] \in BOOLEAN
                  /\ feasibility'[key] <=> p \in Found(pools, r.om, r.interface, timeout, late)
<1> DEFINE key(p) == FeasibilityKey(r.om, r.interface, timeout, p)
           found == Found(pools, r.om, r.interface, timeout, late)
           known == DOMAIN feasibility \cup {key(p) : p \in pools}
<1>1. feasibility' = [k \in known |-> IF k \in DOMAIN feasibility THEN feasibility[k]
                                      ELSE \E p \in found : k = key(p)]
  BY DEF Remember
<1>2. \A p, q : key(p) = key(q) => p = q
  BY DEF FeasibilityKey
<1>3. \A p \in pools : key(p)[2] = Iri(r.om)
  BY DEF FeasibilityKey
<1>4. ASSUME NEW p \in pools
      PROVE  /\ key(p) \in DOMAIN feasibility'
             /\ feasibility'[key(p)] \in BOOLEAN
             /\ feasibility'[key(p)] <=> p \in found
  <2>1. CASE key(p) \in DOMAIN feasibility
    <3>1. feasibility[key(p)] \in BOOLEAN
      BY <2>1, <1>3 DEF FeasibilityOK
    <3>2. p \in found <=> feasibility[key(p)]
      BY <2>1 DEF Found
    <3>3. feasibility'[key(p)] = feasibility[key(p)]
      BY <1>1, <2>1
    <3> QED
      BY <1>1, <3>1, <3>2, <3>3
  <2>2. CASE key(p) \notin DOMAIN feasibility
    <3>1. key(p) \in known
      OBVIOUS
    <3>2. (\E q \in found : key(p) = key(q)) <=> p \in found
      BY <1>2
    <3> HIDE DEF key, found
    <3>3. feasibility'[key(p)] = \E q \in found : key(p) = key(q)
      BY <1>1, <2>2, <3>1
    <3> QED
      BY <1>1, <3>1, <3>2, <3>3
  <2> QED
    BY <2>1, <2>2
<1> QED
  BY <1>1, <1>4

(* What is remembered of a check is true, or is the FALSE of a check that  *)
(* had a timeout.                                                          *)
LEMMA RememberKeepsFeasibility ==
  ASSUME Disciplined, FeasibilityOK, NEW r \in Request, NEW timeout \in Nat, NEW pools,
         NEW late \in Late(pools, timeout),
         Remember(pools, r.om, r.interface, timeout, late)
  PROVE  FeasibilityOK'
<1> DEFINE key(p) == FeasibilityKey(r.om, r.interface, timeout, p)
           found == Found(pools, r.om, r.interface, timeout, late)
<1> SUFFICES ASSUME NEW s \in Request, NEW k \in DOMAIN feasibility', k[2] = Iri(s.om)
             PROVE  /\ feasibility'[k] \in BOOLEAN
                    /\ feasibility'[k] => k[1] \in Connectable(s.om, k[3])
                    /\ k[4] = 0 /\ ~feasibility'[k] => k[1] \notin Connectable(s.om, k[3])
  BY DEF FeasibilityOK
<1>1. CASE k \in DOMAIN feasibility
  BY <1>1, RememberedIsFound DEF FeasibilityOK
<1>2. CASE k \notin DOMAIN feasibility
  <2>1. PICK p \in pools : k = key(p)
    BY <1>2 DEF Remember
  <2>2. k[1] = p /\ k[2] = Iri(r.om) /\ k[3] = r.interface /\ k[4] = timeout
    BY <2>1 DEF FeasibilityKey
  <2>3. s.om = r.om
    BY <2>2 DEF Disciplined
  <2>4. feasibility'[k] \in BOOLEAN /\ (feasibility'[k] <=> p \in found)
    BY <2>1, RememberedIsFound
  <2>5. p \in found <=> p \in Connectable(r.om, r.interface) /\ p \notin late
    BY <1>2, <2>1 DEF Found
  <2>6. timeout = 0 => late = {}
    BY DEF Late
  <2> QED
    BY <2>2, <2>3, <2>4, <2>5, <2>6
<1> QED
  BY <1>1, <1>2

-----------------------------------------------------------------------------
(* The registry                                                            *)

(* find_if returns the first of the objects that answer a request.         *)
LEMMA FirstAnswers ==
  ASSUME ObjectsOK, NEW r \in Request, Answering(r) # {}
  PROVE  /\ FirstAnswering(r) \in Answering(r)
         /\ \A j \in Answering(r) : FirstAnswering(r) <= j
BY DEF ObjectsOK, FirstAnswering

(* The object that find_if returns has a mapping that a fresh process      *)
(* might have computed for the request it answers.                         *)
LEMMA ObjectIsFresh ==
  ASSUME Disciplined, ObjectsOK, NEW r \in Request, NEW i \in Answering(r)
  PROVE  /\ objects[i].mapping \in FreshMappings(r)
         /\ objects[i].request \in Request
         /\ Filtered(r.om, r.pool) = r.pool
<1> DEFINE s == objects[i].request
<1>1. i \in DOMAIN objects
  BY DEF Answering
<1>2. s \in Request
  <2>1. objects[i] \in Object
    BY <1>1 DEF ObjectsOK
  <2> QED
    BY <2>1 DEF Object
<1>3. /\ s.om = r.om /\ s.bounded = r.bounded /\ s.timeout = r.timeout /\ s.interface = r.interface
      /\ Filtered(s.om, s.pool) = r.pool
  BY <1>1 DEF Answering, ObjectsOK
<1>4. FreshMappings(s) = FreshMappings(r)
  BY <1>2, <1>3 DEF Disciplined
<1>5. Filtered(r.om, r.pool) = r.pool
  BY <1>2, <1>3, CallAssumption
<1> QED
  BY <1>1, <1>2, <1>4, <1>5 DEF ObjectsOK

(* A new object answers no request that is answered already.               *)
LEMMA RegistryGrows ==
  ASSUME ObjectsOK, NEW r \in Request, NEW mapped \in FreshMappings(r),
         objects' = Append(objects, [request |-> r, mapping |-> mapped,
                                     pool |-> Filtered(r.om, r.pool)])
  PROVE  /\ ObjectsOK'
         /\ \A s \in Request : Answering(s) # {} =>
              /\ Answering(s)' # {}
              /\ FirstAnswering(s)' = FirstAnswering(s)
              /\ objects'[FirstAnswering(s)] = objects[FirstAnswering(s)]
         /\ Filtered(r.om, r.pool) = r.pool /\ Answering(r) = {} =>
              /\ Answering(r)' # {}
              /\ objects'[FirstAnswering(r)'].mapping = mapped
<1> DEFINE new == [request |-> r, mapping |-> mapped, pool |-> Filtered(r.om, r.pool)]
           n == Len(objects) + 1
<1>1. new \in Object
  BY DEF Object
<1>2. /\ objects' \in Seq(Object) /\ DOMAIN objects' = DOMAIN objects \cup {n}
      /\ objects'[n] = new
      /\ \A i \in DOMAIN objects : objects'[i] = objects[i] /\ i < n /\ i \in Nat
      /\ n \in Nat /\ n \notin DOMAIN objects
  BY <1>1 DEF ObjectsOK
<1> HIDE DEF n
<1>3. ASSUME NEW s \in Request
      PROVE  /\ Answering(s) \subseteq Answering(s)'
             /\ Answering(s)' \subseteq Answering(s) \cup {n}
             /\ Answering(s) \subseteq DOMAIN objects
  BY <1>2 DEF Answering
<1>4. ASSUME NEW s \in Request, Answering(s) # {}
      PROVE  /\ Answering(s)' # {}
             /\ FirstAnswering(s)' = FirstAnswering(s)
             /\ FirstAnswering(s) \in Answering(s)'
             /\ \A j \in Answering(s)' : FirstAnswering(s) <= j
  <2>1. /\ FirstAnswering(s) \in Answering(s)
        /\ \A j \in Answering(s) : FirstAnswering(s) <= j
    BY <1>4, FirstAnswers
  <2>2. /\ FirstAnswering(s) \in Answering(s)'
        /\ \A j \in Answering(s)' : FirstAnswering(s) <= j
    BY <1>2, <1>3, <2>1
  <2>3. \A i, j \in Answering(s)' : i \in Nat /\ j \in Nat
    BY <1>2, <1>3
  <2>4. ASSUME NEW i \in Answering(s)', \A j \in Answering(s)' : i <= j
        PROVE  i = FirstAnswering(s)
    BY <2>2, <2>3, <2>4
  <2>5. FirstAnswering(s)' \in Answering(s)' /\ \A j \in Answering(s)' : FirstAnswering(s)' <= j
    BY <2>2 DEF FirstAnswering
  <2> QED
    BY <2>2, <2>4, <2>5
<1>5. ASSUME NEW s \in Request, Answering(s)' # {}
      PROVE  \E i \in Answering(s)' : \A j \in Answering(s)' : i <= j
  <2>1. CASE Answering(s) # {}
    BY <1>4, <2>1
  <2>2. CASE Answering(s) = {}
    BY <1>2, <1>3, <1>5, <2>2
  <2> QED
    BY <2>1, <2>2
<1>6. ObjectsOK'
  <2>1. \A i \in DOMAIN objects' :
          /\ objects'[i].mapping \in FreshMappings(objects'[i].request)
          /\ objects'[i].pool = Filtered(objects'[i].request.om, objects'[i].request.pool)
    BY <1>2 DEF ObjectsOK
  <2> QED
    BY <1>2, <1>5, <2>1 DEF ObjectsOK, Object, FreshMappings, FreshChecks
<1>7. ASSUME Filtered(r.om, r.pool) = r.pool, Answering(r) = {}
      PROVE  Answering(r)' # {} /\ objects'[FirstAnswering(r)'].mapping = mapped
  <2>1. Answering(r)' = {n}
    BY <1>2, <1>3, <1>7 DEF Answering
  <2>2. FirstAnswering(r)' = n
    BY <1>2, <2>1 DEF FirstAnswering
  <2> QED
    BY <1>2, <2>1, <2>2
<1>8. ASSUME NEW s \in Request, Answering(s) # {}
      PROVE  objects'[FirstAnswering(s)] = objects[FirstAnswering(s)]
  BY <1>2, <1>3, <1>8, FirstAnswers
<1> QED
  BY <1>4, <1>6, <1>7, <1>8

-----------------------------------------------------------------------------
(* The answers                                                             *)

(* What a fresh process may answer, by the kind of the call.               *)
LEMMA FreshByKind ==
  /\ \A c \in Request : Fresh(c) = FreshMappings(c)
  /\ \A c \in StructureCall : Fresh(c) = FreshStructures(c)
  /\ \A c \in RestrictionCall : Fresh(c) = {RestrictionsOf(c.request.om, c.rest)}
  /\ \A c \in RelatedCall : Fresh(c) = {RelatedTo(c.request.om, c.agent, c.rest)}
  /\ \A c \in RobotCall : Fresh(c) = FreshRobots(c)
BY CallAssumption DEF Fresh

(* An answer that is fresh, and the one given before, is as promised.      *)
LEMMA AnswerIsPromised ==
  ASSUME NEW c \in Calls, NEW result \in Fresh(c),
         \A t \in told : t[1] = c => t[2] = result,
         Respond(c, result)
  PROVE  Promise!Next
BY DEF Promise!Next, Promise!Answer, Respond

(* What has been told stays in the caches, and so does the new answer.     *)
LEMMA ToldStaysOK ==
  ASSUME ToldOK, NEW c, NEW result, Respond(c, result), Kept(c, result)',
         \A d, r : Kept(d, r) => Kept(d, r)'
  PROVE  ToldOK'
BY DEF ToldOK, Respond

(* What objects and checks say changes with these only.                    *)
LEMMA ObjectsUnchanged ==
  ASSUME objects' = objects
  PROVE  /\ \A r : Answering(r)' = Answering(r)
         /\ \A r, result : ToldByObject(r, result)' <=> ToldByObject(r, result)
<1>1. \A r : Answering(r)' = Answering(r)
  BY DEF Answering
<1>2. \A r : FirstAnswering(r)' = FirstAnswering(r)
  BY <1>1 DEF FirstAnswering
<1> QED
  BY <1>1, <1>2 DEF ToldByObject

(* A step that leaves the checks alone leaves their outcomes alone.         *)
LEMMA ChecksUnchanged ==
  ASSUME feasibility' = feasibility
  PROVE  \A r, result : ToldByChecks(r, result)' <=> ToldByChecks(r, result)
BY DEF ToldByChecks

(* A step that leaves the caches alone leaves what is said of them.        *)
LEMMA CachesUnchanged ==
  ASSUME CachesOK, UNCHANGED caches
  PROVE  CachesOK' /\ \A d, r : Kept(d, r) => Kept(d, r)'
<1>1. /\ objects' = objects /\ feasibility' = feasibility /\ structures' = structures
      /\ restrictions' = restrictions /\ related' = related /\ robots' = robots
  BY DEF caches
<1>2. FeasibilityOK' /\ StructuresOK' /\ RestrictionsOK' /\ RobotsOK'
  BY <1>1 DEF CachesOK, FeasibilityOK, StructuresOK, RestrictionsOK, RobotsOK
<1>3. ObjectsOK'
  BY <1>1, SMTT(30) DEF CachesOK, ObjectsOK, Answering
<1>4. RelatedOK'
  BY <1>1 DEF CachesOK, RelatedOK
<1>5. \A d, r : Kept(d, r) => Kept(d, r)'
  BY <1>1, ObjectsUnchanged, ChecksUnchanged DEF Kept
<1> QED
  BY <1>2, <1>3, <1>4, <1>5 DEF CachesOK

(* getInstance with an object that has been made before.                   *)
LEMMA FindInstanceKeeps ==
  ASSUME Disciplined, CacheInvariant, NEW r \in Request, FindInstance(r)
  PROVE  CacheInvariant' /\ Promise!Next
<1> DEFINE result == objects[FirstAnswering(r)].mapping
<1>1. CachesOK' /\ \A d, q : Kept(d, q) => Kept(d, q)'
  BY CachesUnchanged DEF FindInstance, CacheInvariant
<1>2. Answering(r) # {} /\ FirstAnswering(r) \in Answering(r)
  BY FirstAnswers DEF FindInstance, CacheInvariant, CachesOK
<1>3. result \in FreshMappings(r) /\ Filtered(r.om, r.pool) = r.pool
  BY <1>2, ObjectIsFresh DEF CacheInvariant, CachesOK
<1>4. Kept(r, result)
  BY <1>2, <1>3, CallAssumption DEF Kept, ToldByObject
<1>5. \A t \in told : t[1] = r => t[2] = result
  BY <1>3 DEF CacheInvariant, ToldOK, Kept, ToldByObject
<1>6. Respond(r, result)
  BY DEF FindInstance
<1> HIDE DEF result
<1>7. Promise!Next
  BY <1>3, <1>5, <1>6, AnswerIsPromised, FreshByKind DEF Calls
<1>8. ToldOK'
  BY <1>1, <1>4, <1>6, ToldStaysOK DEF CacheInvariant
<1> QED
  BY <1>1, <1>7, <1>8 DEF CacheInvariant

(* getInstance with a new object, which checks pools and is appended.      *)
LEMMA CreateInstanceKeeps ==
  ASSUME Disciplined, CacheInvariant, NEW r \in Request, CreateInstance(r)
  PROVE  CacheInvariant' /\ Promise!Next
<1>1. PICK late \in Late(Checks(r), r.timeout) :
        LET found == Found(Checks(r), r.om, r.interface, r.timeout, late)
            mapped == MappingOf(r, found)
        IN  /\ Remember(Checks(r), r.om, r.interface, r.timeout, late)
            /\ objects' = Append(objects, [request |-> r, mapping |-> mapped,
                                           pool |-> Filtered(r.om, r.pool)])
            /\ related' = Append(related, NoEntries)
            /\ Respond(r, mapped)
  BY DEF CreateInstance
<1> DEFINE found == Found(Checks(r), r.om, r.interface, r.timeout, late)
           mapped == MappingOf(r, found)
<1>2. Answering(r) = {} /\ UNCHANGED <<structures, restrictions, robots>>
  BY DEF CreateInstance
<1>3. FeasibilityOK /\ ObjectsOK /\ ToldOK /\ r.timeout \in Nat
  BY CallAssumption DEF CacheInvariant, CachesOK
<1>4. mapped \in FreshMappings(r)
  BY <1>3, FoundIsFresh DEF FreshMappings
<1>5. FeasibilityOK'
  BY <1>1, <1>3, RememberKeepsFeasibility
<1>6. /\ \A k \in DOMAIN feasibility : k \in DOMAIN feasibility' /\ feasibility'[k] = feasibility[k]
      /\ \A p \in Checks(r) : /\ CheckKey(r, p) \in DOMAIN feasibility'
                              /\ feasibility'[CheckKey(r, p)] <=> p \in found
  BY <1>1, <1>3, RememberedIsFound DEF CheckKey
<1>7. found \subseteq Checks(r)
  BY DEF Found
<1>8. Respond(r, mapped)
  BY <1>1
<1>9. objects' = Append(objects, [request |-> r, mapping |-> mapped, pool |-> Filtered(r.om, r.pool)])
  BY <1>1
<1>10. \A p \in Checks(r) : CheckKey(r, p) \in DOMAIN feasibility => (p \in found <=> feasibility[CheckKey(r, p)])
  BY DEF Found, CheckKey
<1> HIDE DEF found
<1>11. mapped = MappingOf(r, {p \in Checks(r) : feasibility'[CheckKey(r, p)]})
  BY <1>6, <1>7
<1>12. ASSUME NEW q, ToldByChecks(r, q) PROVE q = mapped
  BY <1>7, <1>10, <1>12 DEF ToldByChecks
<1> HIDE DEF mapped
<1>13. /\ ObjectsOK'
       /\ \A s \in Request : Answering(s) # {} =>
            /\ Answering(s)' # {}
            /\ FirstAnswering(s)' = FirstAnswering(s)
            /\ objects'[FirstAnswering(s)] = objects[FirstAnswering(s)]
       /\ Filtered(r.om, r.pool) = r.pool =>
            /\ Answering(r)' # {}
            /\ objects'[FirstAnswering(r)'].mapping = mapped
  BY <1>2, <1>3, <1>4, <1>9, RegistryGrows
<1>14. StructuresOK' /\ RestrictionsOK' /\ RobotsOK'
  BY <1>2 DEF CacheInvariant, CachesOK, StructuresOK, RestrictionsOK, RobotsOK
<1>15. RelatedOK'
  <2>1. NoEntries \in RelatedEntries
    <3>1. NoEntries \in [{} -> {RelatedTo(c.request.om, c.agent, c.rest) : c \in RelatedCall}]
      BY DEF NoEntries
    <3> QED
      BY <3>1 DEF RelatedEntries
  <2>2. related \in Seq(RelatedEntries) /\ Len(related) = Len(objects)
    BY DEF CacheInvariant, CachesOK, RelatedOK
  <2>3. related' = Append(related, NoEntries)
    BY <1>1
  <2>4. related' \in Seq(RelatedEntries) /\ Len(related') = Len(objects')
    BY <1>3, <1>9, <2>1, <2>2, <2>3 DEF ObjectsOK
  <2>5. ASSUME NEW i \in DOMAIN objects', NEW c \in RelatedCall,
               objects'[i].request.om = c.request.om, c.agent \in DOMAIN related'[i]
        PROVE  related'[i][c.agent] = RelatedTo(c.request.om, c.agent, c.rest)
    <3>1. CASE i \in DOMAIN objects
      <4>1. objects'[i] = objects[i] /\ related'[i] = related[i]
        BY <1>3, <1>9, <2>2, <2>3, <3>1 DEF ObjectsOK
      <4> QED
        BY <2>5, <3>1, <4>1 DEF CacheInvariant, CachesOK, RelatedOK
    <3>2. CASE i \notin DOMAIN objects
      <4>1. related'[i] = NoEntries
        BY <1>3, <1>9, <2>2, <2>3, <3>2 DEF ObjectsOK
      <4> QED
        BY <2>5, <4>1 DEF NoEntries
    <3> QED
      BY <3>1, <3>2
  <2> QED
    BY <2>4, <2>5 DEF RelatedOK
<1>16. ASSUME NEW d, NEW q, Kept(d, q) PROVE Kept(d, q)'
  <2>1. ASSUME d \in Request, ToldByObject(d, q) PROVE ToldByObject(d, q)'
    BY <1>13, <2>1 DEF ToldByObject
  <2>2. ASSUME d \in Request, ToldByChecks(d, q) PROVE ToldByChecks(d, q)'
    BY <1>6, <2>2 DEF ToldByChecks
  <2> QED
    BY <1>2, <1>16, <2>1, <2>2 DEF Kept
<1>17. PICK m : m = mapped
  OBVIOUS
<1>18. Kept(r, m)'
  <2>1. CASE Filtered(r.om, r.pool) = r.pool
    BY <1>13, <1>17, <2>1, CallAssumption DEF Kept, ToldByObject
  <2>2. CASE Filtered(r.om, r.pool) # r.pool
    <3>1. ToldByChecks(r, m)'
      BY <1>6, <1>11, <1>17 DEF ToldByChecks
    <3> QED
      BY <2>2, <3>1, CallAssumption DEF Kept
  <2> QED
    BY <2>1, <2>2
<1>19. \A t \in told : t[1] = r => t[2] = mapped
  BY <1>2, <1>3, <1>12 DEF ToldOK, Kept, ToldByObject
<1>20. Promise!Next
  BY <1>4, <1>8, <1>19, AnswerIsPromised, FreshByKind DEF Calls
<1>21. ToldOK'
  BY <1>3, <1>8, <1>17, <1>16, <1>18, ToldStaysOK
<1> QED
  BY <1>5, <1>13, <1>14, <1>15, <1>20, <1>21 DEF CacheInvariant, CachesOK

(* A coalition structure that the model's query cache knows.               *)
LEMMA KnownStructureKeeps ==
  ASSUME CacheInvariant, NEW c \in StructureCall, KnownStructure(c)
  PROVE  CacheInvariant' /\ Promise!Next
<1> DEFINE result == structures[StructureKey(c)]
<1>1. CachesOK' /\ \A d, q : Kept(d, q) => Kept(d, q)'
  BY CachesUnchanged DEF KnownStructure, CacheInvariant
<1>2. StructureKey(c) \in DOMAIN structures /\ Respond(c, result)
  BY DEF KnownStructure
<1>3. result \in FreshStructures(c)
  BY <1>2 DEF CacheInvariant, CachesOK, StructuresOK
<1>4. Kept(c, result)
  BY <1>2, CallAssumption DEF Kept
<1>5. \A t \in told : t[1] = c => t[2] = result
  BY DEF CacheInvariant, ToldOK, Kept
<1> HIDE DEF result
<1>6. Promise!Next
  BY <1>2, <1>3, <1>5, AnswerIsPromised, FreshByKind DEF Calls
<1>7. ToldOK'
  BY <1>1, <1>2, <1>4, ToldStaysOK DEF CacheInvariant
<1> QED
  BY <1>1, <1>6, <1>7 DEF CacheInvariant

(* A coalition structure that is computed and remembered.                  *)
LEMMA ComputeStructureKeeps ==
  ASSUME Disciplined, CacheInvariant, NEW c \in StructureCall, ComputeStructure(c)
  PROVE  CacheInvariant' /\ Promise!Next
<1> DEFINE r == c.request
           object == objects[FirstAnswering(r)]
<1>1. PICK late \in Late(Checks(c), c.timeout) :
        LET found == Found(Checks(c), r.om, r.interface, c.timeout, late)
            result == StructureOf(c, object.mapping, found)
        IN  /\ Remember(Checks(c), r.om, r.interface, c.timeout, late)
            /\ structures' = Extended(structures, Single(StructureKey(c), result))
            /\ Respond(c, result)
  BY DEF ComputeStructure
<1>2. PICK m : m = StructureOf(c, object.mapping, Found(Checks(c), r.om, r.interface, c.timeout, late))
  OBVIOUS
<1>3. /\ Remember(Checks(c), r.om, r.interface, c.timeout, late)
      /\ structures' = Extended(structures, Single(StructureKey(c), m))
      /\ Respond(c, m)
  BY <1>1, <1>2
<1>4. /\ Answering(r) # {} /\ StructureKey(c) \notin DOMAIN structures
      /\ UNCHANGED <<objects, restrictions, related, robots>>
  BY DEF ComputeStructure
<1>5. FeasibilityOK /\ ObjectsOK /\ StructuresOK /\ ToldOK /\ c.timeout \in Nat /\ r \in Request
  BY CallAssumption DEF CacheInvariant, CachesOK
<1>6. m \in FreshStructures(c)
  <2>1. object.mapping \in FreshMappings(r)
    BY <1>4, <1>5, FirstAnswers, ObjectIsFresh
  <2>2. Found(Checks(c), r.om, r.interface, c.timeout, late)
          \in FreshChecks(Checks(c), r.om, r.interface, c.timeout)
    BY <1>5, FoundIsFresh
  <2> QED
    BY <1>2, <2>1, <2>2 DEF FreshStructures
<1>7. FeasibilityOK'
  BY <1>3, <1>5, RememberKeepsFeasibility
<1>8. \A k \in DOMAIN feasibility : k \in DOMAIN feasibility' /\ feasibility'[k] = feasibility[k]
  BY <1>3, <1>5, RememberedIsFound
<1>9. /\ DOMAIN structures' = DOMAIN structures \cup {StructureKey(c)}
      /\ structures'[StructureKey(c)] = m
      /\ \A k \in DOMAIN structures : structures'[k] = structures[k]
  BY <1>3, <1>4 DEF Extended, Single
<1>10. StructuresOK'
  <2> SUFFICES ASSUME NEW d \in StructureCall, StructureKey(d) \in DOMAIN structures'
               PROVE  structures'[StructureKey(d)] \in FreshStructures(d)
    BY DEF StructuresOK
  <2>1. CASE StructureKey(d) \in DOMAIN structures
    BY <1>5, <1>9, <2>1 DEF StructuresOK
  <2>2. CASE StructureKey(d) = StructureKey(c)
    <3>1. FreshStructures(d) = FreshStructures(c)
      BY <2>2 DEF Disciplined
    <3> QED
      BY <1>6, <1>9, <2>2, <3>1
  <2> QED
    BY <1>9, <2>1, <2>2
<1>11. ObjectsOK' /\ RestrictionsOK' /\ RelatedOK' /\ RobotsOK'
  <2>1. ObjectsOK'
    <3>1. objects' = objects
      BY <1>4
    <3> QED
      BY <1>5, <3>1, ZenonT(40) DEF ObjectsOK, Answering
  <2>2. RestrictionsOK' /\ RobotsOK'
    BY <1>4 DEF CacheInvariant, CachesOK, RestrictionsOK, RobotsOK
  <2>3. RelatedOK'
    BY <1>4 DEF CacheInvariant, CachesOK, RelatedOK
  <2> QED
    BY <2>1, <2>2, <2>3
<1>12. ASSUME NEW d, NEW q, Kept(d, q) PROVE Kept(d, q)'
  <2>1. ASSUME ToldByObject(d, q) PROVE ToldByObject(d, q)'
    BY <1>4, <2>1 DEF ToldByObject, Answering, FirstAnswering
  <2>2. ASSUME ToldByChecks(d, q) PROVE ToldByChecks(d, q)'
    BY <1>8, <2>2 DEF ToldByChecks
  <2> QED
    BY <1>4, <1>9, <1>12, <2>1, <2>2 DEF Kept
<1>13. Kept(c, m)'
  BY <1>9, CallAssumption DEF Kept
<1>14. \A t \in told : t[1] = c => t[2] = m
  BY <1>4, <1>5 DEF ToldOK, Kept
<1>15. Promise!Next
  BY <1>3, <1>6, <1>14, AnswerIsPromised, FreshByKind DEF Calls
<1>16. ToldOK'
  BY <1>3, <1>5, <1>12, <1>13, ToldStaysOK
<1> QED
  BY <1>7, <1>10, <1>11, <1>15, <1>16 DEF CacheInvariant, CachesOK

(* getCardinalityRestrictions, remembered or computed.                     *)
LEMMA QueryRestrictionsKeeps ==
  ASSUME CacheInvariant, NEW c \in RestrictionCall, QueryRestrictions(c)
  PROVE  CacheInvariant' /\ Promise!Next
<1> DEFINE key == <<c.request.om, c.rest>>
<1>1. PICK m : m = RestrictionsOf(c.request.om, c.rest)
  OBVIOUS
<1>2. /\ restrictions' = Extended(restrictions, Single(key, m))
      /\ Respond(c, restrictions'[key])
      /\ UNCHANGED <<objects, feasibility, structures, related, robots>>
  BY <1>1 DEF QueryRestrictions
<1>3. /\ DOMAIN restrictions' = DOMAIN restrictions \cup {key}
      /\ \A k \in DOMAIN restrictions : restrictions'[k] = restrictions[k]
      /\ key \notin DOMAIN restrictions => restrictions'[key] = m
  BY <1>2 DEF Extended, Single
<1>4. restrictions'[key] = m
  BY <1>1, <1>3 DEF CacheInvariant, CachesOK, RestrictionsOK
<1>5. RestrictionsOK'
  <2> SUFFICES ASSUME NEW d \in RestrictionCall, <<d.request.om, d.rest>> \in DOMAIN restrictions'
               PROVE  restrictions'[<<d.request.om, d.rest>>] = RestrictionsOf(d.request.om, d.rest)
    BY DEF RestrictionsOK
  <2>1. CASE <<d.request.om, d.rest>> \in DOMAIN restrictions
    BY <1>3, <2>1 DEF CacheInvariant, CachesOK, RestrictionsOK
  <2>2. CASE <<d.request.om, d.rest>> = key
    <3>1. d.request.om = c.request.om /\ d.rest = c.rest
      BY <2>2
    <3> QED
      BY <1>1, <1>4, <3>1
  <2> QED
    BY <1>3, <2>1, <2>2
<1>6. FeasibilityOK' /\ ObjectsOK' /\ StructuresOK' /\ RelatedOK' /\ RobotsOK'
  <2>1. FeasibilityOK' /\ StructuresOK' /\ RobotsOK'
    BY <1>2 DEF CacheInvariant, CachesOK, FeasibilityOK, StructuresOK, RobotsOK
  <2>2. ObjectsOK'
    BY <1>2, ZenonT(40) DEF CacheInvariant, CachesOK, ObjectsOK, Answering
  <2>3. RelatedOK'
    BY <1>2 DEF CacheInvariant, CachesOK, RelatedOK
  <2> QED
    BY <2>1, <2>2, <2>3
<1>7. \A d, q : Kept(d, q) => Kept(d, q)'
  BY <1>2, ObjectsUnchanged, ChecksUnchanged DEF Kept
<1>8. Kept(c, m)'
  BY <1>1, CallAssumption DEF Kept
<1>9. \A t \in told : t[1] = c => t[2] = m
  BY <1>1 DEF CacheInvariant, ToldOK, Kept
<1>10. Respond(c, m)
  BY <1>2, <1>4
<1>11. Promise!Next
  BY <1>1, <1>9, <1>10, AnswerIsPromised, FreshByKind DEF Calls
<1>12. ToldOK'
  BY <1>7, <1>8, <1>10, ToldStaysOK DEF CacheInvariant
<1> QED
  BY <1>5, <1>6, <1>11, <1>12 DEF CacheInvariant, CachesOK

(* getRelated, remembered by the answering object or computed.             *)
LEMMA QueryRelatedKeeps ==
  ASSUME Disciplined, CacheInvariant, NEW c \in RelatedCall, QueryRelated(c)
  PROVE  CacheInvariant' /\ Promise!Next
<1> DEFINE i == FirstAnswering(c.request)
           values == {RelatedTo(d.request.om, d.agent, d.rest) : d \in RelatedCall}
<1>1. PICK m : m = RelatedTo(c.request.om, c.agent, c.rest)
  OBVIOUS
<1>2. PICK entries : entries = Extended(related[i], Single(c.agent, m))
  OBVIOUS
<1>3. /\ related' = [related EXCEPT ![i] = entries]
      /\ Respond(c, entries[c.agent])
      /\ UNCHANGED <<objects, feasibility, structures, restrictions, robots>>
      /\ Answering(c.request) # {}
  BY <1>1, <1>2 DEF QueryRelated
<1>4. /\ c.request \in Request /\ ObjectsOK /\ related \in Seq(RelatedEntries)
      /\ Len(related) = Len(objects)
  BY CallAssumption DEF CacheInvariant, CachesOK, RelatedOK
<1>5. i \in Answering(c.request)
  BY <1>3, <1>4, FirstAnswers
<1>6. i \in DOMAIN objects /\ objects[i].request.om = c.request.om
  BY <1>5 DEF Answering
<1>7. i \in DOMAIN related /\ related[i] \in RelatedEntries
  BY <1>4, <1>6 DEF ObjectsOK
<1>8. /\ DOMAIN entries = DOMAIN related[i] \cup {c.agent}
      /\ \A a \in DOMAIN related[i] : entries[a] = related[i][a]
      /\ c.agent \notin DOMAIN related[i] => entries[c.agent] = m
      /\ entries = [a \in DOMAIN entries |-> entries[a]]
  BY <1>2 DEF Extended, Single
<1>9. entries[c.agent] = m
  BY <1>1, <1>6, <1>8 DEF CacheInvariant, CachesOK, RelatedOK
<1>10. entries \in RelatedEntries
  <2>1. PICK A \in SUBSET {d.agent : d \in RelatedCall} : related[i] \in [A -> values]
    BY <1>7 DEF RelatedEntries
  <2>2. DOMAIN entries \in SUBSET {d.agent : d \in RelatedCall}
    BY <1>8, <2>1
  <2>3. m \in values
    BY <1>1
  <2>4. entries \in [DOMAIN entries -> values]
    <3> HIDE DEF values
    <3> QED
      BY <1>8, <1>9, <2>1, <2>3
  <2> QED
    BY <2>2, <2>4 DEF RelatedEntries
<1>11. /\ related' \in Seq(RelatedEntries) /\ Len(related') = Len(objects')
       /\ related'[i] = entries
       /\ \A j \in DOMAIN objects : j # i => related'[j] = related[j]
  BY <1>3, <1>4, <1>7, <1>10 DEF ObjectsOK
<1>12. RelatedOK'
  <2> SUFFICES ASSUME NEW j \in DOMAIN objects, NEW d \in RelatedCall,
                      objects[j].request.om = d.request.om, d.agent \in DOMAIN related'[j]
               PROVE  related'[j][d.agent] = RelatedTo(d.request.om, d.agent, d.rest)
    BY <1>3, <1>11 DEF RelatedOK
  <2>1. CASE j # i
    BY <1>11, <2>1 DEF CacheInvariant, CachesOK, RelatedOK
  <2>2. CASE j = i /\ d.agent \in DOMAIN related[i]
    BY <1>8, <1>11, <2>2 DEF CacheInvariant, CachesOK, RelatedOK
  <2>3. CASE j = i /\ d.agent = c.agent
    <3>1. d.rest = c.rest
      BY <1>6, <2>3 DEF Disciplined
    <3> QED
      BY <1>1, <1>6, <1>9, <1>11, <2>3, <3>1
  <2> QED
    BY <1>8, <1>11, <2>1, <2>2, <2>3
<1>13. FeasibilityOK' /\ StructuresOK' /\ RestrictionsOK' /\ RobotsOK'
  BY <1>3 DEF CacheInvariant, CachesOK, FeasibilityOK, StructuresOK, RestrictionsOK, RobotsOK
<1>14. ObjectsOK'
  BY <1>3, <1>4, ZenonT(40) DEF ObjectsOK, Answering
<1>15. \A d, q : Kept(d, q) => Kept(d, q)'
  BY <1>3, ObjectsUnchanged, ChecksUnchanged DEF Kept
<1>16. Kept(c, m)'
  BY <1>1, CallAssumption DEF Kept
<1>17. \A t \in told : t[1] = c => t[2] = m
  BY <1>1 DEF CacheInvariant, ToldOK, Kept
<1>18. Respond(c, m)
  BY <1>3, <1>9
<1>19. Promise!Next
  BY <1>1, <1>17, <1>18, AnswerIsPromised, FreshByKind DEF Calls
<1>20. ToldOK'
  BY <1>15, <1>16, <1>18, ToldStaysOK DEF CacheInvariant
<1> QED
  BY <1>12, <1>13, <1>14, <1>19, <1>20 DEF CacheInvariant, CachesOK

(* Robot::getInstance, with a robot made before or a new one.              *)
LEMMA QueryRobotKeeps ==
  ASSUME Disciplined, CacheInvariant, NEW c \in RobotCall, QueryRobot(c)
  PROVE  CacheInvariant' /\ Promise!Next
<1> DEFINE r == c.request
<1>1. PICK fresh : fresh = RobotIn(r.om, objects[FirstAnswering(r)].mapping, c.pool)
  OBVIOUS
<1>2. PICK entries : entries = Extended(robots, Single(c.pool, fresh))
  OBVIOUS
<1>3. /\ robots' = entries
      /\ Respond(c, entries[c.pool])
      /\ UNCHANGED <<objects, feasibility, structures, restrictions, related>>
      /\ Answering(r) # {}
  BY <1>1, <1>2 DEF QueryRobot
<1>4. fresh \in FreshRobots(c)
  <2>1. r \in Request /\ ObjectsOK
    BY CallAssumption DEF CacheInvariant, CachesOK
  <2>2. objects[FirstAnswering(r)].mapping \in FreshMappings(r)
    BY <1>3, <2>1, FirstAnswers, ObjectIsFresh
  <2> QED
    BY <1>1, <2>2 DEF FreshRobots
<1>5. /\ DOMAIN entries = DOMAIN robots \cup {c.pool}
      /\ \A p \in DOMAIN robots : entries[p] = robots[p]
      /\ c.pool \notin DOMAIN robots => entries[c.pool] = fresh
  BY <1>2 DEF Extended, Single
<1>6. entries[c.pool] \in FreshRobots(c)
  BY <1>4, <1>5 DEF CacheInvariant, CachesOK, RobotsOK
<1>7. RobotsOK'
  <2> SUFFICES ASSUME NEW d \in RobotCall, d.pool \in DOMAIN entries
               PROVE  entries[d.pool] \in FreshRobots(d)
    BY <1>3 DEF RobotsOK
  <2>1. CASE d.pool \in DOMAIN robots
    BY <1>5, <2>1 DEF CacheInvariant, CachesOK, RobotsOK
  <2>2. CASE d.pool = c.pool
    BY <1>6, <2>2 DEF Disciplined
  <2> QED
    BY <1>5, <2>1, <2>2
<1>8. FeasibilityOK' /\ StructuresOK' /\ RestrictionsOK'
  BY <1>3 DEF CacheInvariant, CachesOK, FeasibilityOK, StructuresOK, RestrictionsOK
<1>9. ObjectsOK'
  BY <1>3, ZenonT(40) DEF CacheInvariant, CachesOK, ObjectsOK, Answering
<1>10. RelatedOK'
  BY <1>3 DEF CacheInvariant, CachesOK, RelatedOK
<1>11. ASSUME NEW d, NEW q, Kept(d, q) PROVE Kept(d, q)'
  <2>1. d \in RobotCall => d.pool \in DOMAIN robots' /\ q = robots'[d.pool]
    BY <1>3, <1>5, <1>11 DEF Kept
  <2> QED
    BY <1>3, <1>11, <2>1, ObjectsUnchanged, ChecksUnchanged DEF Kept
<1>12. Kept(c, entries[c.pool])'
  BY <1>3, <1>5, CallAssumption DEF Kept
<1>13. \A t \in told : t[1] = c => t[2] = entries[c.pool]
  BY <1>5 DEF CacheInvariant, ToldOK, Kept
<1>14. Promise!Next
  BY <1>3, <1>6, <1>13, AnswerIsPromised, FreshByKind DEF Calls
<1>15. ToldOK'
  BY <1>3, <1>11, <1>12, ToldStaysOK DEF CacheInvariant
<1> QED
  BY <1>7, <1>8, <1>9, <1>10, <1>14, <1>15 DEF CacheInvariant, CachesOK

(* To forget is allowed whenever what has been told is forgotten as well.  *)
LEMMA ResetsKeep ==
  ASSUME CacheInvariant, ResetFeasibility \/ \E om \in {r.om : r \in Request} : ResetQueryCache(om)
  PROVE  CacheInvariant' /\ Promise!Next
<1>1. told' = {}
  BY DEF ResetFeasibility, ResetQueryCache
<1>2. Promise!Next /\ ToldOK'
  BY <1>1 DEF Promise!Next, Promise!Forget, ToldOK
<1>3. UNCHANGED <<objects, related, robots>>
  BY DEF ResetFeasibility, ResetQueryCache
<1>4. ObjectsOK' /\ RelatedOK' /\ RobotsOK'
  <2>1. ObjectsOK'
    BY <1>3, ZenonT(40) DEF CacheInvariant, CachesOK, ObjectsOK, Answering
  <2>2. RelatedOK' /\ RobotsOK'
    BY <1>3 DEF CacheInvariant, CachesOK, RelatedOK, RobotsOK
  <2> QED
    BY <2>1, <2>2
<1>5. CASE ResetFeasibility
  <2>1. FeasibilityOK'
    BY <1>5 DEF ResetFeasibility, FeasibilityOK, NoEntries
  <2>2. StructuresOK' /\ RestrictionsOK'
    BY <1>5 DEF ResetFeasibility, CacheInvariant, CachesOK, StructuresOK, RestrictionsOK
  <2> QED
    BY <1>2, <1>4, <2>1, <2>2 DEF CacheInvariant, CachesOK
<1>6. ASSUME NEW om, ResetQueryCache(om)
      PROVE  CacheInvariant'
  <2>1. FeasibilityOK'
    BY <1>6 DEF ResetQueryCache, CacheInvariant, CachesOK, FeasibilityOK
  <2>2. StructuresOK'
    BY <1>6 DEF ResetQueryCache, CacheInvariant, CachesOK, StructuresOK
  <2>3. RestrictionsOK'
    BY <1>6 DEF ResetQueryCache, CacheInvariant, CachesOK, RestrictionsOK
  <2> QED
    BY <1>2, <1>4, <2>1, <2>2, <2>3 DEF CacheInvariant, CachesOK
<1> QED
  BY <1>2, <1>5, <1>6

-----------------------------------------------------------------------------
(* A process that has not been asked anything remembers nothing.           *)
LEMMA CacheInvariantInitially == Init => CacheInvariant
<1> SUFFICES ASSUME Init PROVE CacheInvariant
  OBVIOUS
<1> USE DEF Init, NoEntries
<1>1. FeasibilityOK /\ StructuresOK /\ RestrictionsOK /\ RobotsOK /\ ToldOK
  BY DEF FeasibilityOK, StructuresOK, RestrictionsOK, RobotsOK, ToldOK
<1>2. ObjectsOK
  BY DEF ObjectsOK, Answering
<1>3. RelatedOK
  BY DEF RelatedOK
<1> QED
  BY <1>1, <1>2, <1>3 DEF CacheInvariant, CachesOK

(* Every step keeps the invariant, and is a step of the promise.           *)
LEMMA CacheInvariantKept ==
  ASSUME Disciplined, CacheInvariant, [Next]_vars
  PROVE  CacheInvariant' /\ [Promise!Next]_told
<1>1. CASE Next
  BY <1>1, FindInstanceKeeps, CreateInstanceKeeps, KnownStructureKeeps, ComputeStructureKeeps,
     QueryRestrictionsKeeps, QueryRelatedKeeps, QueryRobotKeeps, ResetsKeep DEF Next
<1>2. CASE UNCHANGED vars
  <2>1. UNCHANGED caches /\ UNCHANGED told
    BY <1>2 DEF vars
  <2>2. CachesOK' /\ \A d, q : Kept(d, q) => Kept(d, q)'
    BY <2>1, CachesUnchanged DEF CacheInvariant
  <2>3. ToldOK'
    BY <2>1, <2>2 DEF CacheInvariant, ToldOK
  <2> QED
    BY <2>1, <2>2, <2>3 DEF CacheInvariant
<1> QED
  BY <1>1, <1>2

(* A process that is asked with discipline answers like one that remembers *)
(* nothing, though its registry, its feasibility cache, its query caches   *)
(* and its robots answer by keys that leave out part of the question.      *)
THEOREM CachesKeepThePromise == Disciplined => (Spec => AnswersAreFresh)
<1> SUFFICES ASSUME Disciplined PROVE Spec => AnswersAreFresh
  OBVIOUS
<1>1. Init => CacheInvariant /\ Promise!Init
  BY CacheInvariantInitially DEF Init, Promise!Init
<1>2. CacheInvariant /\ [Next]_vars => CacheInvariant' /\ [Promise!Next]_told
  BY CacheInvariantKept
<1> QED
  BY <1>1, <1>2, PTL DEF Spec, AnswersAreFresh, Promise!Spec
==============================================================================
