------------------------- MODULE FunctionalityMapping -------------------------
(***************************************************************************)
(* The functionality mapping of src/src/FunctionalityMapping.cpp: which    *)
(* model pools support which functionality, and the text file it is saved  *)
(* to and loaded from.                                                     *)
(*                                                                         *)
(* A pool is a function from the models it has an entry for to their       *)
(* number.  A line of the file is reduced to what fromFile() makes of it:  *)
(* how many columns it has and what is in them.                            *)
(***************************************************************************)
EXTENDS Naturals, Sequences, FiniteSets

CONSTANTS
  Garbage,   \* an IRI read from a line whose beginning is NUL bytes
  Sorted(_)  \* a set as the sequence in which std::map and std::set iterate

EmptyPool == <<>>

NoMapping ==
  [pool |-> EmptyPool, functionalities |-> <<>>, bound |-> EmptyPool,
   pools |-> <<>>, supported |-> {}, active |-> {}]

(* table[key] = value, which enters the key when it is not there yet.      *)
With(table, key, value) ==
  [k \in DOMAIN table \cup {key} |-> IF k = key THEN value ELSE table[k]]

(* The constructor: every functionality asked for is known, none supported.*)
NewMapping(pool, functionalities, bound) ==
  [NoMapping EXCEPT !.pool = pool, !.functionalities = functionalities, !.bound = bound,
                    !.pools = [f \in {functionalities[i] : i \in DOMAIN functionalities} |-> {}]]

(* mFunction2Pool[f], which enters f when it is not there yet.             *)
PoolsOf(mapping, f) == IF f \in DOMAIN mapping.pools THEN mapping.pools[f] ELSE {}

(* One more functionality in the list, and in mFunction2Pool.              *)
Know(mapping, f) ==
  [mapping EXCEPT !.functionalities = Append(@, f),
                  !.pools = With(@, f, PoolsOf(mapping, f))]

\* Mutant: adds the empty pool as well.
HollowAdd(mapping, pool, f) ==
  [mapping EXCEPT !.pools = With(@, f, PoolsOf(mapping, f) \cup {pool}),
                  !.supported = @ \cup {f},
                  !.active = @ \cup {pool}]

Add(mapping, pool, f) ==
  IF pool = EmptyPool THEN mapping
  ELSE [mapping EXCEPT !.pools = With(@, f, PoolsOf(mapping, f) \cup {pool}),
                       !.supported = @ \cup {f},
                       !.active = @ \cup {pool}]

(* Algebra::isSubset: no model of a is missing in b.                       *)
IsSubpool(a, b) ==
  \A m \in DOMAIN a : a[m] <= IF m \in DOMAIN b THEN b[m] ELSE 0

(* getFunctionalities: what a pool supports, by itself or by a part of it. *)
FunctionalitiesOf(mapping, pool) ==
  {f \in DOMAIN mapping.pools : \E part \in mapping.pools[f] : IsSubpool(part, pool)}

-----------------------------------------------------------------------------
(* save()                                                                  *)

Blank == [columns |-> 0]
Rule == [columns |-> 1, text |-> "---"]
Name(f) == [columns |-> 1, text |-> f]
Count(m, n) == [columns |-> 2, text |-> m, number |-> n]

(* A comment matters by its number of columns only: "# BEGIN HEADER" has   *)
(* three, "# FUNCTIONALITY" two.                                           *)
Comment(n) == [columns |-> n, text |-> "#"]

Flattened(sequences) ==
  LET upTo[n \in 0 .. Len(sequences)] == IF n = 0 THEN <<>> ELSE upTo[n - 1] \o sequences[n]
  IN upTo[Len(sequences)]

PoolLines(pool) ==
  LET models == Sorted(DOMAIN pool) IN [i \in DOMAIN models |-> Count(models[i], pool[models[i]])]

FunctionLines(mapping, f) ==
  LET pools == Sorted(mapping.pools[f])
  IN <<Comment(2), Name(f), Comment(4)>>
       \o Flattened([i \in DOMAIN pools |-> Append(PoolLines(pools[i]), Blank)])
       \o <<Blank>>

SaveLines(mapping) ==
  LET supported == Sorted({f \in DOMAIN mapping.pools : mapping.pools[f] # {}})
  IN <<Comment(3), Comment(3)>> \o PoolLines(mapping.pool) \o <<Blank, Comment(3)>>
       \o [i \in DOMAIN mapping.functionalities |-> Name(mapping.functionalities[i])]
       \o <<Blank, Comment(3)>> \o PoolLines(mapping.bound)
       \o <<Blank, Rule, Comment(3), Comment(3)>>
       \o Flattened([i \in DOMAIN supported |-> FunctionLines(mapping, supported[i])])
       \o <<Comment(3)>>

-----------------------------------------------------------------------------
(* fromFile()                                                              *)

ParserStart ==
  [phase |-> "header", mapping |-> NoMapping, pool |-> EmptyPool, function |-> Garbage]

(* A line behind a hole: the NUL bytes become part of its first column, so *)
(* that it is no comment, no rule, and not blank.                          *)
BehindHole(line) ==
  IF line.columns <= 1 THEN Name(Garbage) ELSE [line EXCEPT !.text = Garbage]

IsComment(line) == line.columns > 0 /\ line.text = "#"

(* A second column that is not a number: lexical_cast throws.              *)
Unreadable(line) == line.columns = 2 /\ "number" \notin DOMAIN line

Collect(parser, line) ==
  [parser EXCEPT !.pool = With(@, line.text, line.number)]

(* The header: the first blank line ends the pool, later ones the bound.   *)
\* Mutant: leaves the models collected for one section in the next.
LeakyHeaderLine(parser, line) ==
  CASE line = Rule -> [parser EXCEPT !.phase = "body", !.pool = EmptyPool]
    [] line # Rule /\ line.columns = 2 -> Collect(parser, line)
    [] line # Rule /\ line.columns = 1 ->
         [parser EXCEPT !.mapping = Know(@, line.text)]
    [] OTHER -> IF parser.mapping.pool = EmptyPool
                THEN [parser EXCEPT !.mapping.pool = parser.pool]
                ELSE [parser EXCEPT !.mapping.bound = parser.pool]

HeaderLine(parser, line) ==
  CASE line = Rule -> [parser EXCEPT !.phase = "body", !.pool = EmptyPool]
    [] line # Rule /\ line.columns = 2 -> Collect(parser, line)
    [] line # Rule /\ line.columns = 1 ->
         [parser EXCEPT !.mapping = Know(@, line.text)]
    [] OTHER -> IF parser.mapping.pool = EmptyPool
                THEN [parser EXCEPT !.mapping.pool = parser.pool, !.pool = EmptyPool]
                ELSE [parser EXCEPT !.mapping.bound = parser.pool, !.pool = EmptyPool]

(* The mapping: a name starts a functionality, a blank line ends a pool.   *)
BodyLine(parser, line) ==
  CASE line.columns = 2 -> Collect(parser, line)
    [] line.columns = 1 -> [parser EXCEPT !.function = line.text]
    [] OTHER -> [parser EXCEPT !.mapping = Add(@, parser.pool, parser.function),
                               !.pool = EmptyPool]

ParseLine(parser, line) ==
  IF IsComment(line) THEN parser
  ELSE IF Unreadable(line) THEN [parser EXCEPT !.phase = "thrown"]
  ELSE IF parser.phase = "header" THEN HeaderLine(parser, line)
  ELSE BodyLine(parser, line)
==============================================================================
