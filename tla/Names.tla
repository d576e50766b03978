------------------------------- MODULE Names -------------------------------
(***************************************************************************)
(* The names of a base's tables and fields: how a sync run turns Airtable's *)
(* names into names of DuckDB tables and columns (internal/duckdb/          *)
(* schema.go), and how a mutation finds the table or field that a tool call *)
(* means (internal/approval/service.go).                                    *)
(*                                                                          *)
(* A name is a sequence of tokens: words and numbers, "_", white space, any *)
(* other separator "-", and "non-ascii" for letters that are dropped.  Case *)
(* is folded, as the code folds it everywhere; Airtable's ids, a third      *)
(* alias of everything, are never anybody's name here.                      *)
(***************************************************************************)
EXTENDS Naturals, FiniteSets, SequencesExt

CONSTANTS
  Digits,     \* the numbers 2, 3, ..., as many as lists of names need
  Words,      \* the words that names have
  SomeNames   \* names in Airtable that are looked at

Underscore == "_"
Space == " "

(* What a DuckDB name is made of, in the order of DuckDB's collation.      *)
Alphabet == Digits \o <<Underscore>> \o Words
Dropped == {"-", Space, "non-ascii"}

AirtableNames == Seq(ToSet(Alphabet) \cup Dropped) \ {<<>>}

(* The lists of names that there are numbers for. *)
Listed(names) == names \in Seq(AirtableNames) /\ Len(names) <= Len(Digits) + 1

ASSUME AlphabetAssumption ==
  /\ Digits \in Seq(ToSet(Digits)) /\ Words \in Seq(ToSet(Words))
  /\ {"airtable", "id", "t"} \subseteq ToSet(Words)
  /\ \A j, k \in DOMAIN Alphabet : Alphabet[j] = Alphabet[k] => j = k
  /\ ToSet(Alphabet) \cap Dropped = {}
ASSUME NamesAssumption == SomeNames \subseteq AirtableNames /\ Len(Digits) >= 2

Rank(token) == CHOOSE k \in DOMAIN Alphabet : Alphabet[k] = token

(* ORDER BY duckdb_table_name *)
Before(a, b) ==
  \/ IsStrictPrefix(a, b)
  \/ \E k \in DOMAIN a \cap DOMAIN b :
       /\ \A j \in 1..(k - 1) : a[j] = b[j]
       /\ Rank(a[k]) < Rank(b[k])

-----------------------------------------------------------------------------
(* SanitizeIdentifier *)

EndsInUnderscore(s) == s # <<>> /\ Last(s) = Underscore

(* Runs of separators become one underscore. *)
WriteToken(s, token) ==
  IF token \in ToSet(Digits) \cup ToSet(Words) THEN Append(s, token)
  ELSE IF token = "non-ascii" \/ EndsInUnderscore(s) THEN s
  ELSE Append(s, Underscore)

Squeeze(name) ==
  LET squeezed[n \in 0..Len(name)] ==
        IF n = 0 THEN <<>> ELSE WriteToken(squeezed[n - 1], name[n])
  IN  squeezed[Len(name)]

(* There is never more than one underscore at either end. *)
TrimRight(s) == IF EndsInUnderscore(s) THEN Front(s) ELSE s
TrimLeft(s) == IF s # <<>> /\ Head(s) = Underscore THEN Tail(s) ELSE s

SanitizeIdentifier(name) ==
  LET s == TrimLeft(TrimRight(Squeeze(name)))
  IN  IF s = <<>> \/ Head(s) \in ToSet(Digits) THEN <<"t", Underscore>> \o s ELSE s

(* Columns that every DuckDB table has, and what fields of that name are    *)
(* called; created_time is treated alike.                                  *)
ReservedFields == [name \in {<<"id">>} |-> <<Underscore, "airtable", Underscore>> \o name]
NoneReserved == [name \in {} |-> name]

-----------------------------------------------------------------------------
(* sanitizeIdentifiers *)

BaseName(name, reserved) ==
  LET base == SanitizeIdentifier(name)
  IN  IF base \in DOMAIN reserved THEN reserved[base] ELSE base

(* base_2, base_3, ... *)
Suffixed(base, i) == TrimRight(base) \o <<Underscore, Digits[i - 1]>>

(* The suffix counts how often the name itself was emitted. *)
EmitByCount(done, base) ==
  LET n == Cardinality({k \in DOMAIN done : IsPrefix(base, done[k])})
  IN  IF n = 0 THEN base ELSE Suffixed(base, n + 1)

(* The suffix is raised until the name is free of every name emitted,      *)
(* generated ones included.                                                *)
Emit(done, base) ==
  LET free(i) == Suffixed(base, i) \notin ToSet(done)
  IN  IF base \notin ToSet(done) THEN base
      ELSE Suffixed(base, CHOOSE i \in 2..(Len(done) + 1) :
                            free(i) /\ \A j \in 2..(i - 1) : ~free(j))

SanitizeAll(names, reserved) ==
  LET emitted[n \in 0..Len(names)] ==
        IF n = 0 THEN <<>>
        ELSE Append(emitted[n - 1], Emit(emitted[n - 1], BaseName(names[n], reserved)))
  IN  emitted[Len(names)]

-----------------------------------------------------------------------------
(* Finding what a call means *)

(* ReadSchema lists tables by their DuckDB name, fields as Airtable did.   *)
TableItems(names) ==
  LET duck == SanitizeAll(names, NoneReserved)
  IN  [i \in DOMAIN names |-> [original |-> names[i], duck |-> duck[i],
                               earlier |-> {j \in DOMAIN names : Before(duck[j], duck[i])}]]

FieldItems(names) ==
  LET duck == SanitizeAll(names, ReservedFields)
  IN  [i \in DOMAIN names |-> [original |-> names[i], duck |-> duck[i], earlier |-> 1..(i - 1)]]

(* White space around a name does not count. *)
Solid(name) == {k \in DOMAIN name : name[k] # Space}

Alias(name) ==
  IF Solid(name) = {} THEN <<>> ELSE SubSeq(name, Min(Solid(name)), Max(Solid(name)))

(* What a requested name can mean: the first item listed that has it as    *)
(* its DuckDB name or its original name, or none.  DuckDB names have no    *)
(* white space.                                                            *)
Resolve(items, requested) ==
  LET named == {i \in DOMAIN items :
                  /\ Alias(requested) # <<>>
                  /\ Alias(requested) \in {items[i].duck, Alias(items[i].original)}}
  IN  {i \in named : items[i].earlier \cap named = {}}

-----------------------------------------------------------------------------
(* The names that a schema gives out *)

(* Names that are found under nothing that begins or ends in "_", which    *)
(* SanitizeIdentifier would take away.                                     *)
Plain(name) ==
  Alias(name) # <<>> => Head(Alias(name)) # Underscore /\ Last(Alias(name)) # Underscore

(* No two tables or fields have the same DuckDB name, and no other one     *)
(* takes the name because it is called so in Airtable.                     *)
OwnNames(items) == \A i \in DOMAIN items : Resolve(items, items[i].duck) = {i}

OwnNamesOfAny ==
  LET names == {n \in SomeNames : Plain(n)}
  IN  \A a, b, c \in names :
        Cardinality({a, b, c}) = 3 =>
          OwnNames(TableItems(<<a, b, c>>)) /\ OwnNames(FieldItems(<<a, b, c>>))
=============================================================================
