----------------------------- MODULE MappingFile -----------------------------
(***************************************************************************)
(* OrganizationModelAsk::computeFunctionalityMapping with the file under   *)
(* /tmp it caches its result in, shared by processes that ask for the same *)
(* pool: each looks for the file, loads it when it is there and otherwise  *)
(* computes the mapping and saves it.                                      *)
(*                                                                         *)
(* The computation is deterministic, so each process writes the same lines,*)
(* each at its own position in the file; std::endl flushes line by line.   *)
(* Opening a file to write truncates it also under a process that is still *)
(* writing: what that one writes next lies behind a hole of NUL bytes.     *)
(* So the file is described by which of the lines have been written.       *)
(*                                                                         *)
(* The name of the file depends on the pool and on nothing else: while no  *)
(* process is under way, another organization model may take the place of  *)
(* the one the file was computed from.                                     *)
(***************************************************************************)
EXTENDS FunctionalityMapping

CONSTANTS
  Process,   \* processes that ask for the mapping of this pool
  Mappings   \* mappings the computation may yield

(* Names of models and functionalities are IRIs, which no line of the file *)
(* mistakes for a comment or for the rule.                                 *)
IsName(text) == text \notin {"#", "---"}

IsPool(pool) ==
  /\ pool = [m \in DOMAIN pool |-> pool[m]]
  /\ \A m \in DOMAIN pool : IsName(m)

Enumerates(q, S) ==
  /\ Len(q) \in Nat /\ q = [i \in 1 .. Len(q) |-> q[i]]
  /\ {q[i] : i \in 1 .. Len(q)} = S

SupportedIn(m) == {f \in DOMAIN m.pools : m.pools[f] # {}}

(* What computeBounded/UnboundedFunctionalityMapping yields for a pool that*)
(* is not empty: entries for the functionalities it was constructed with,  *)
(* and add() has kept supported functionalities and active pools in step   *)
(* with them.                                                              *)
IsMapping(m) ==
  /\ m = [pool |-> m.pool, functionalities |-> m.functionalities, bound |-> m.bound,
          pools |-> m.pools, supported |-> m.supported, active |-> m.active]
  /\ IsPool(m.pool) /\ IsPool(m.bound) /\ m.pool # EmptyPool
  /\ Enumerates(m.functionalities, DOMAIN m.pools)
  /\ m.pools = [f \in DOMAIN m.pools |-> m.pools[f]]
  /\ \A f \in DOMAIN m.pools :
       IsName(f) /\ \A pool \in m.pools[f] : IsPool(pool) /\ pool # EmptyPool
  /\ m.supported = SupportedIn(m)
  /\ m.active = UNION {m.pools[f] : f \in DOMAIN m.pools}

(* The sets save() iterates over.                                          *)
SavedSets(m) ==
  {SupportedIn(m), DOMAIN m.pool, DOMAIN m.bound}
    \cup {m.pools[f] : f \in DOMAIN m.pools} \cup {DOMAIN pool : pool \in m.active}

ASSUME MappingAssumption ==
  \A m \in Mappings : IsMapping(m) /\ \A S \in SavedSets(m) : Enumerates(Sorted(S), S)

VARIABLES
  computed,  \* the mapping the computation yields
  saved,     \* the mapping whose lines the file holds
  exists,    \* the cache file exists
  written,   \* numbers of the lines it holds
  pc,        \* what each process does next
  position,  \* lines it has written, or read, so far
  parser,    \* state of fromFile
  behind,    \* fromFile has read NUL bytes and no line since
  mapping,   \* the mapping it ends up with
  aborted    \* a process has died while it was saving

file == <<exists, written>>
reading == <<parser, behind>>
filevars == <<computed, saved, file, pc, position, reading, mapping, aborted>>

Lines == SaveLines(saved)
LastLine == Len(Lines)

(* fromFile has lines left to read.                                        *)
MoreToRead(p) == {n \in written : n > position[p]} # {}

FileInit ==
  /\ computed \in Mappings /\ saved = computed
  /\ exists = FALSE /\ written = {}
  /\ pc = [p \in Process |-> "start"]
  /\ position = [p \in Process |-> 0]
  /\ parser = [p \in Process |-> ParserStart]
  /\ behind = [p \in Process |-> FALSE]
  /\ mapping = [p \in Process |-> NoMapping]
  /\ aborted = FALSE

Goto(p, label) == pc' = [pc EXCEPT ![p] = label]

(* The file is there, or it is not.                                        *)
LookForFile(p) ==
  /\ pc[p] = "start"
  /\ Goto(p, IF exists THEN "load" ELSE "compute")
  /\ UNCHANGED <<computed, saved, file, position, reading, mapping, aborted>>

(* The mapping has been computed and save() opens the file ...             *)
OpenFile(p) ==
  /\ pc[p] = "compute"
  /\ mapping' = [mapping EXCEPT ![p] = computed]
  /\ exists' = TRUE /\ saved' = computed
  /\ written' = {}
  /\ position' = [position EXCEPT ![p] = 0]
  /\ Goto(p, "save")
  /\ UNCHANGED <<computed, reading, aborted>>

(* ... or cannot, and says nothing.                                        *)
CannotOpenFile(p) ==
  /\ pc[p] = "compute"
  /\ mapping' = [mapping EXCEPT ![p] = computed]
  /\ Goto(p, "done")
  /\ UNCHANGED <<computed, saved, file, position, reading, aborted>>

\* Mutant: one line too many.
OverlongWriteLine(p) ==
  /\ pc[p] = "save" /\ position[p] <= LastLine
  /\ written' = written \cup {position[p] + 1}
  /\ position' = [position EXCEPT ![p] = @ + 1]
  /\ UNCHANGED <<computed, saved, exists, pc, reading, mapping, aborted>>

WriteLine(p) ==
  /\ pc[p] = "save" /\ position[p] < LastLine
  /\ written' = written \cup {position[p] + 1}
  /\ position' = [position EXCEPT ![p] = @ + 1]
  /\ UNCHANGED <<computed, saved, exists, pc, reading, mapping, aborted>>

\* Mutant: returns before the last line is written.
EarlyCloseFile(p) ==
  /\ pc[p] = "save" /\ position[p] + 1 >= LastLine
  /\ Goto(p, "done")
  /\ position' = [position EXCEPT ![p] = 0]
  /\ UNCHANGED <<computed, saved, file, reading, mapping, aborted>>

CloseFile(p) ==
  /\ pc[p] = "save" /\ position[p] = LastLine
  /\ Goto(p, "done")
  /\ position' = [position EXCEPT ![p] = 0]
  /\ UNCHANGED <<computed, saved, file, reading, mapping, aborted>>

(* fromFile reads on while others write, as far as the file goes then.     *)
ReadLine(p) ==
  LET next == position[p] + 1
      line == IF behind[p] THEN BehindHole(Lines[next]) ELSE Lines[next]
      after == ParseLine(parser[p], line)
  IN /\ pc[p] = "load" /\ MoreToRead(p)
     /\ position' = [position EXCEPT ![p] = next]
     /\ behind' = [behind EXCEPT ![p] = next \notin written]
     /\ IF next \in written
        THEN /\ parser' = [parser EXCEPT ![p] = after]
             /\ Goto(p, IF after.phase = "thrown" THEN "failed" ELSE "load")
        ELSE UNCHANGED <<parser, pc>>
     /\ UNCHANGED <<computed, saved, file, mapping, aborted>>

FinishLoad(p) ==
  /\ pc[p] = "load" /\ ~MoreToRead(p)
  /\ mapping' = [mapping EXCEPT ![p] = parser[p].mapping]
  /\ Goto(p, "done")
  /\ position' = [position EXCEPT ![p] = 0]
  /\ parser' = [parser EXCEPT ![p] = ParserStart]
  /\ behind' = [behind EXCEPT ![p] = FALSE]
  /\ UNCHANGED <<computed, saved, file, aborted>>

(* A process dies, or has ended, and is started again.                     *)
Restart(p) ==
  /\ pc[p] # "start"
  /\ Goto(p, "start")
  /\ aborted' = (aborted \/ pc[p] = "save")
  /\ position' = [position EXCEPT ![p] = 0]
  /\ parser' = [parser EXCEPT ![p] = ParserStart]
  /\ behind' = [behind EXCEPT ![p] = FALSE]
  /\ mapping' = [mapping EXCEPT ![p] = NoMapping]
  /\ UNCHANGED <<computed, saved, file>>

(* Another organization model is loaded, with the same pool.               *)
Revise ==
  /\ \A p \in Process : pc[p] = "start"
  /\ computed' \in Mappings
  /\ UNCHANGED <<saved, file, pc, position, reading, mapping, aborted>>

FileNext ==
  \/ Revise
  \/ \E p \in Process :
       \/ LookForFile(p) \/ OpenFile(p) \/ CannotOpenFile(p) \/ WriteLine(p)
       \/ CloseFile(p) \/ ReadLine(p) \/ FinishLoad(p) \/ Restart(p)

FileSpec == FileInit /\ [][FileNext]_filevars

-----------------------------------------------------------------------------
TypeOK ==
  /\ computed \in Mappings /\ saved \in Mappings
  /\ exists \in BOOLEAN
  /\ written \subseteq 1 .. LastLine
  /\ pc \in [Process -> {"start", "load", "compute", "save", "done", "failed"}]
  /\ position \in [Process -> 0 .. LastLine]
  /\ aborted \in BOOLEAN

(* However many processes find no file and save at the same time, each     *)
(* truncating what the others have written: as long as none of them dies,  *)
(* the file lacks no line once they are through.                           *)
UndisturbedFileIsComplete ==
  exists /\ ~aborted /\ (\A p \in Process : pc[p] # "save")
    => 1 .. LastLine \subseteq written

(* Why: some process that is writing has left no line out so far.          *)
FileIsCarried ==
  exists /\ ~aborted =>
    \/ 1 .. LastLine \subseteq written
    \/ \E p \in Process : pc[p] = "save" /\ 1 .. position[p] \subseteq written

(* What a mapping loses when its file is left behind cut off, it loses     *)
(* only: no pool is said to support what it does not support in the mapping*)
(* that was saved (by processes that do not overlap: a hole may hide the   *)
(* name of a functionality, or a model of a pool).                         *)
LoadedIsSound ==
  \A p \in Process : pc[p] = "done" =>
    \E origin \in {computed, saved} :
      \A pool \in origin.active \cup {EmptyPool} :
        FunctionalitiesOf(mapping[p], pool)
          \subseteq FunctionalitiesOf(origin, pool) \cup {Garbage}

(* As long as no process has died while it was saving, each gets, in every *)
(* part, the mapping it computes or the one that was saved (by processes   *)
(* that do not overlap).                                                   *)
UndisturbedLoadIsExact ==
  ~aborted => \A p \in Process : pc[p] = "done" => mapping[p] \in {computed, saved}
==============================================================================
