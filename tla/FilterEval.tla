---------------------------- MODULE FilterEval ----------------------------
(* What a filter's tree selects: the compiled matcher of live rows           *)
(* (filter/compile.go) and the plan of a history query (filter/plan.go).     *)
(*                                                                           *)
(* A row is a function from paths to values; an absent path has the empty    *)
(* value. Its well-known columns (Hot) are paths of one name. Those with a   *)
(* dictionary (Dict) have an index from each value to the rows that hold it. *)
EXTENDS FilterParser

CONSTANTS Hot, Dict,  \* the well-known columns, those with a dictionary
          Ordinals,   \* a function from the texts of levels to their rank
          Alphabet    \* the symbols in the order of their codes

ASSUME ColumnsAssumption == Dict \subseteq Hot

Field(row, path) == IF path \in DOMAIN row THEN row[path] ELSE <<>>

---------------------------------------------------------------------------
(* Leaves.                                                                   *)

Prefix(s, i, lit) == i + Len(lit) - 1 <= Len(s) /\ SubSeq(s, i, i + Len(lit) - 1) = lit

\* The first position from i on where lit stands in s, or 0.
Find(s, i, lit) ==
  LET at == {j \in i..(Len(s) - Len(lit) + 1) : Prefix(s, j, lit)}
  IN IF at = {} THEN 0 ELSE Min(at)

\* The walk over the parts from k on, with s read up to i. A wild part takes the
\* literal after it where that stands first; of two wild parts the second is
\* skipped, and a literal after them must stand at once.
RECURSIVE GlobWalk(_, _, _, _)
GlobWalk(s, i, parts, k) ==
  LET After(at, part) == GlobWalk(s, at + Len(part.lit), parts, k + IF parts[k].wild THEN 2 ELSE 1)
  IN CASE k > Len(parts) -> Last(parts).wild \/ i = Len(s) + 1
       [] k = Len(parts) /\ parts[k].wild -> TRUE
       [] k < Len(parts) /\ parts[k].wild ->
            IF parts[k + 1].wild THEN After(i, parts[k])
            ELSE LET at == Find(s, i, parts[k + 1].lit) IN at # 0 /\ After(at, parts[k + 1])
       [] OTHER -> Prefix(s, i, parts[k].lit) /\ After(i, parts[k])

\* Bug variant: the pattern may start anywhere in the value.
MatchGlobFloating(s, parts) == \E i \in 1..(Len(s) + 1) : GlobWalk(s, i, parts, 1)

\* Both ends are anchored.
MatchGlob(s, parts) == GlobWalk(s, 1, parts, 1)

TrimQuotes(t) ==
  LET ink == {i \in DOMAIN t : t[i] # Quote}
  IN IF ink = {} THEN <<>> ELSE SubSeq(t, Min(ink), Max(ink))

MatchEq(n, row) ==
  \/ Field(row, n.path) = n.v
  \/ n.path \in Hot /\ TrimQuotes(Field(row, n.path)) = TrimQuotes(n.v)

MatchSubstr(n, row) ==
  \/ n.needle = <<>>
  \/ IF n.exact THEN Field(row, n.path) = n.needle
     ELSE Find(Field(row, n.path), 1, n.needle) # 0

\* The number a text stands for, in ten thousandths; none for other texts.
ParseFloat(t) ==
  LET sign == IF At(t, 1) = "-" THEN -1 ELSE 1
      body == IF sign = -1 THEN Tail(t) ELSE t
      dots == {i \in DOMAIN body : body[i] = "."}
      point == Min(dots \union {Len(body) + 1})
      Worth(i) == Digits[body[i]] * IF i < point THEN 10 ^ (point - i + 3) ELSE 10 ^ (4 + point - i)
  IN IF /\ Cardinality(dots) <= 1 /\ \E i \in DOMAIN body : body[i] \in Digit
        /\ Range(body) \subseteq Digit \union {"."}
     THEN {sign * FoldSet(LAMBDA i, sum : sum + Worth(i), 0, DOMAIN body \ dots)}
     ELSE {}

\* In a filter a text that is no number counts as 0.
NumberOf(t) == Max(ParseFloat(t) \union IF ParseFloat(t) = {} THEN {0} ELSE {})

\* The columns a row shows beside its fields have no number.
Level == <<<<"level">>>>
Shown == {Level, <<<<"service">>>>, Msg}
Numbers(row, path) == IF path \in Shown THEN {} ELSE ParseFloat(Field(row, path))

MatchRange(n, row) ==
  \E f \in Numbers(row, n.path) : f >= NumberOf(n.lo) /\ f <= NumberOf(n.hi)

Holds(a, how, b) ==
  CASE how = <<">">> -> a > b
    [] how = <<">", "=">> -> a >= b
    [] how = <<"<">> -> a < b
    [] how = <<"<", "=">> -> a <= b

MatchCmpNum(n, row) ==
  \E f \in Numbers(row, n.path) : Holds(f, n.how, NumberOf(n.v))

Less(a, b) ==
  \E k \in 1..(Len(b)) : /\ \A j \in 1..(k - 1) : j \in DOMAIN a /\ a[j] = b[j]
                         /\ k \notin DOMAIN a \/ \E x, y \in DOMAIN Alphabet :
                              x < y /\ a[k] = Alphabet[x] /\ b[k] = Alphabet[y]

\* Levels compare by rank, and one without never matches; other texts compare in
\* the order of their symbols.
MatchCmpStr(n, row) ==
  LET value == Field(row, n.path)
      sign == IF value = n.v THEN 0 ELSE IF Less(value, n.v) THEN -1 ELSE 1
  IN IF n.path # Level THEN Holds(sign, n.how, 0)
     ELSE {value, n.v} \subseteq DOMAIN Ordinals /\ Holds(Ordinals[value], n.how, Ordinals[n.v])

\* Of regular expressions those that are letters to be found as they stand.
MatchRegex(n, row) == Find(Field(row, n.path), 1, n.pattern) # 0

---------------------------------------------------------------------------
(* The compiled matcher.                                                     *)

RECURSIVE Matches(_, _)
Matches(n, row) ==
  CASE n.op = "all" -> TRUE
    [] n.op = "and" -> Matches(n.l, row) /\ Matches(n.r, row)
    [] n.op = "or" -> Matches(n.l, row) \/ Matches(n.r, row)
    [] n.op = "not" -> ~Matches(n.x, row)
    [] n.op = "eq" -> MatchEq(n, row)
    [] n.op = "substr" -> MatchSubstr(n, row)
    [] n.op = "glob" -> MatchGlob(Field(row, n.path), n.parts)
    [] n.op = "exists" -> Field(row, n.path) # <<>>
    [] n.op = "range" -> MatchRange(n, row)
    [] n.op = "cmpnum" -> MatchCmpNum(n, row)
    [] n.op = "cmpstr" -> MatchCmpStr(n, row)
    [] n.op = "regex" -> MatchRegex(n, row)

---------------------------------------------------------------------------
(* Plans. rows is a function from sequence numbers to rows, known the part   *)
(* of it that the index had when the plan was made; residuals look at a row  *)
(* when they are asked. A plan has the candidates of the index and the rows  *)
(* its residual accepts; an empty list stands for a side it does not have.   *)

NoSide == <<>>
Plan(cand, res) == [cand |-> cand, res |-> res]

Selects(p, rows) ==
  {q \in DOMAIN rows : \A side \in Range(p.cand) \union Range(p.res) : q \in side}

Residual(n, rows) == Plan(NoSide, <<{q \in DOMAIN rows : Matches(n, rows[q])}>>)

\* The rows an index lists under a value: none under the empty one.
Index(path, v, known) == {q \in DOMAIN known : v # <<>> /\ Field(known[q], path) = v}

PlanEq(n, rows, known) ==
  IF n.path \in Dict THEN Plan(<<Index(n.path, n.v, known)>>, NoSide) ELSE Residual(n, rows)

\* Both sides of a conjunction, where both plans have one.
Both(a, b) == IF a = NoSide THEN b ELSE IF b = NoSide THEN a ELSE <<a[1] \intersect b[1]>>

PlanAnd(l, r) == Plan(Both(l.cand, r.cand), Both(l.res, r.res))

\* Candidates unite only if nothing else restricts them. A plan with neither side
\* selects everything, and yet contributes nothing to a disjunction.
Contributes(p, rows) == IF p = Plan(NoSide, NoSide) THEN {} ELSE Selects(p, rows)

\* Bug variant: candidates unite although a residual restricts them.
PlanOrLoose(l, r, rows) ==
  IF NoSide \notin {l.cand, r.cand} THEN Plan(<<l.cand[1] \union r.cand[1]>>, NoSide)
  ELSE Plan(NoSide, <<Contributes(l, rows) \union Contributes(r, rows)>>)

PlanOr(l, r, rows) ==
  IF NoSide \notin {l.cand, r.cand} /\ l.res = NoSide /\ r.res = NoSide
  THEN Plan(<<l.cand[1] \union r.cand[1]>>, NoSide)
  ELSE Plan(NoSide, <<Contributes(l, rows) \union Contributes(r, rows)>>)

\* A negation keeps no candidates.
PlanNot(p, rows) ==
  Plan(NoSide, <<IF p = Plan(NoSide, NoSide) THEN {} ELSE DOMAIN rows \ Selects(p, rows)>>)

RECURSIVE PlanOf(_, _, _)
PlanOf(n, rows, known) ==
  LET Of(x) == PlanOf(x, rows, known)
  IN CASE n.op = "all" -> Plan(NoSide, NoSide)
       [] n.op = "and" -> PlanAnd(Of(n.l), Of(n.r))
       [] n.op = "or" -> PlanOr(Of(n.l), Of(n.r), rows)
       [] n.op = "not" -> PlanNot(Of(n.x), rows)
       [] n.op = "eq" -> PlanEq(n, rows, known)
       [] OTHER -> Residual(n, rows)
===========================================================================
