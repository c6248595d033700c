------------------------------ MODULE Filters ------------------------------
(* A filter from the text a user types to the rows it shows: typing and      *)
(* combining filters, paging back through history                            *)
(* (server/session.go, handleHistory), the queries of the MCP tools          *)
(* (mcp/tools.go, runQuery) and the export (server/export.go), while rows    *)
(* arrive and overwrite older ones.                                          *)
EXTENDS FilterEval

CONSTANTS
  Vocabularies,  \* named records: what is typed word by word (words), up to how many
                 \* words (long), and with how many a query is made (asked)
  Chips,         \* filters a client pins beside the one typed
  Rows,          \* the rows that may arrive
  Rings,         \* stores of rows on which plans are compared with matchers
  Means,         \* [words -> sets of rows of the rings]  what terms are documented to select
  Samples,       \* values on which patterns are tried
  QueryKinds,    \* a subset of {"history", "recent", "search", "export"}
  Cap,           \* slots of the ring
  Limit,         \* rows of one answer
  MaxRows        \* bound on the rows that arrive

ASSUME CapAssumption == Cap \in Nat \ {0}
ASSUME LimitAssumption == Limit \in Nat \ {0}

VARIABLES
  typing,  \* the vocabulary and the words typed since the last filter was sent
  node,    \* the tree the filter in force was parsed into, in a list; none yet: <<>>
  ring,    \* all rows that arrived, numbered from 0
  client,  \* where paging starts and stands, the rows it got, whether it is at the end
  query    \* the query being answered

vars == <<typing, node, ring, client, query>>

Text == FlattenSeq(typing.words)
head == Len(ring)
tail == IF head > Cap THEN head - Cap ELSE 0
Between(lo, hi) == {q \in lo..(hi - 1) : q >= tail}
RowsOf(seqs) == [q \in seqs |-> ring[q + 1]]

Idle == [pc |-> "idle", kind |-> "history", lo |-> 0, hi |-> 0, known |-> 0,
         found |-> {}, end |-> FALSE]
NewClient == [start |-> 0, before |-> 0, shown |-> {}, done |-> FALSE]

---------------------------------------------------------------------------
Type(w) ==
  /\ node = <<>> /\ Len(typing.words) < Vocabularies[typing.voc].long
  /\ typing' = [typing EXCEPT !.words = Append(@, w)]
  /\ UNCHANGED <<node, ring, client, query>>

\* The text is parsed when it is sent; one that does not parse is refused.
Submit ==
  /\ node = <<>> /\ typing.words # <<>> /\ Len(typing.words) <= Vocabularies[typing.voc].asked
  /\ Parse(Text).ok
  /\ node' = <<Parse(Text).node>>
  /\ typing' = [typing EXCEPT !.words = <<>>]
  /\ UNCHANGED <<ring, client, query>>

Publish(row) ==
  /\ node # <<>> /\ head < MaxRows
  /\ ring' = Append(ring, row)
  /\ UNCHANGED <<typing, node, client, query>>

\* The client has live rows down to some row and asks for those before it.
BeginPaging(from) ==
  /\ node # <<>> /\ query = Idle /\ client = NewClient
  /\ from \in Between(1, head)
  /\ client' = [client EXCEPT !.start = from, !.before = from]
  /\ UNCHANGED <<typing, node, ring, query>>

\* handleHistory reads the tail, then the head, then compiles the plan.
HistoryTail ==
  /\ "history" \in QueryKinds /\ query = Idle /\ client.start > 0 /\ ~client.done
  /\ query' = [Idle EXCEPT !.pc = "tail", !.lo = tail]
  /\ UNCHANGED <<typing, node, ring, client>>

HistoryHead ==
  /\ query.pc = "tail"
  /\ LET hi == Min({client.before, head})
     IN query' = IF hi <= query.lo THEN [query EXCEPT !.pc = "answer", !.end = TRUE]
                 ELSE [query EXCEPT !.pc = "plan", !.hi = hi]
  /\ UNCHANGED <<typing, node, ring, client>>

HistoryPlan ==
  /\ query.pc = "plan"
  /\ query' = [query EXCEPT !.pc = "scan", !.known = head]
  /\ UNCHANGED <<typing, node, ring, client>>

\* runQuery compiles the plan, then reads the tail and the head.
ToolPlan(kind) ==
  /\ node # <<>> /\ query = Idle
  /\ query' = [Idle EXCEPT !.pc = "range", !.kind = kind, !.known = head]
  /\ UNCHANGED <<typing, node, ring, client>>

ToolRange ==
  /\ query.pc = "range"
  /\ query' = [query EXCEPT !.pc = "scan", !.lo = tail, !.hi = head]
  /\ UNCHANGED <<typing, node, ring, client>>

\* The export has no plan: it asks the compiled filter of every row.
ExportRange ==
  /\ "export" \in QueryKinds /\ node # <<>> /\ query = Idle
  /\ query' = [Idle EXCEPT !.pc = "scan", !.kind = "export", !.lo = tail, !.hi = head,
                           !.known = head]
  /\ UNCHANGED <<typing, node, ring, client>>

\* Bug variant: the answer takes the first rows the scan finds.
NewestFirstFound(seqs, n) == {q \in seqs : Cardinality({r \in seqs : r < q}) < n}

\* The n newest or oldest of a set of rows.
Newest(seqs, n) == {q \in seqs : Cardinality({r \in seqs : r > q}) < n}
Oldest(seqs, n) == {q \in seqs : Cardinality({r \in seqs : r < q}) < n}

\* QueryRange and QueryRangeBitmap take an end of 0 for the head of the moment.
Upper == IF query.hi = 0 THEN head ELSE query.hi

OldestKinds == {"search", "export"}

\* The rows found so far among those of the range.
Found ==
  LET rows == RowsOf(Between(query.lo, Upper))
  IN IF query.kind = "export" THEN {q \in DOMAIN rows : Matches(node[1], rows[q])}
     ELSE Selects(PlanOf(node[1], rows, RowsOf(Between(0, query.known))), rows)

\* Bug variant: the end is seen after the answer was cut to its limit.
ScanEndAfterCut(stale) ==
  LET all == Found \union stale
      cut == IF query.kind \in OldestKinds THEN Oldest(all, Limit) ELSE Newest(all, Limit)
  IN /\ query.pc = "scan"
     /\ query' = [query EXCEPT !.pc = "answer", !.found = cut, !.end = Cardinality(cut) <= Limit]
     /\ UNCHANGED <<typing, node, ring, client>>

\* The rows of the range that the plan selects. A row overwritten meanwhile may
\* still be counted: a bit of the index remains, an empty field may match.
Scan(stale) ==
  LET all == Found \union stale
  IN /\ query.pc = "scan"
     /\ query' = [query EXCEPT !.pc = "answer",
                    !.found = IF query.kind \in OldestKinds THEN Oldest(all, Limit)
                              ELSE Newest(all, Limit),
                    !.end = Cardinality(all) <= Limit]
     /\ UNCHANGED <<typing, node, ring, client>>

\* Rows overwritten by now are left out of the answer.
Answer ==
  /\ query.pc = "answer"
  /\ query' = [query EXCEPT !.pc = "answered", !.found = {q \in @ : q >= tail}]
  /\ UNCHANGED <<typing, node, ring, client>>

\* The client goes on from the oldest row it has.
Receive ==
  /\ query.pc = "answered"
  /\ client' = IF query.kind # "history" THEN client
               ELSE [client EXCEPT !.shown = @ \union query.found, !.done = query.end,
                                   !.before = Min({@} \union query.found)]
  /\ query' = Idle
  /\ UNCHANGED <<typing, node, ring>>

---------------------------------------------------------------------------
Init ==
  /\ typing \in {[voc |-> v, words |-> <<>>] : v \in DOMAIN Vocabularies}
  /\ node = <<>> /\ ring = <<>> /\ client = NewClient /\ query = Idle

Next ==
  \/ \E w \in Vocabularies[typing.voc].words : Type(w)
  \/ Submit
  \/ \E row \in Rows : Publish(row)
  \/ \E from \in 1..MaxRows : BeginPaging(from)
  \/ HistoryTail \/ HistoryHead \/ HistoryPlan
  \/ \E kind \in QueryKinds \intersect {"recent", "search"} : ToolPlan(kind)
  \/ ToolRange \/ ExportRange
  \/ \E stale \in SUBSET {q \in query.lo..(Upper - 1) : q < tail} : Scan(stale)
  \/ Answer \/ Receive

Spec == Init /\ [][Next]_vars

---------------------------------------------------------------------------
(* The grammar of parser.go:4-8 over the words typed, whatever tokens they   *)
(* become: the sets of rows that a phrase may mean, given what is documented *)
(* of its terms. A minus is a negation before a name, a path, a quoted       *)
(* string or a group; before anything else it is text.                       *)

AllRows == UNION {Range(rows) : rows \in Rings}
Minus == {<<"-">>, <<"!">>}
Negatable(word) == word[1] \in Start \union {"(", "@", Quote}

RECURSIVE OrMeans(_), AndMeans(_)

AtomMeans(w) ==
  IF Len(w) = 1 THEN {Means[x] : x \in {w[1]} \intersect DOMAIN Means}
  ELSE IF w # <<>> /\ w[1] = <<"(">> /\ Last(w) = <<")">> THEN OrMeans(SubSeq(w, 2, Len(w) - 1)) ELSE {}

NotMeans(w) ==
  IF Len(w) > 1 /\ (w[1] \in Minus => Negatable(w[2])) /\ w[1] \in Minus \union {<<"NOT", Space>>}
  THEN {AllRows \ m : m \in AtomMeans(Tail(w))} ELSE AtomMeans(w)

\* What the words before a position mean, and those after it.
Around(w, k, Left(_), Right(_)) == Left(SubSeq(w, 1, k - 1)) \X Right(SubSeq(w, k + 1, Len(w)))

AndMeans(w) ==
  NotMeans(w) \union
  UNION {{m[1] \intersect m[2] : m \in Around(w, k, AndMeans, NotMeans)}
         : k \in {k \in DOMAIN w : w[k] \in {<<Space>>, <<Space, "AND", Space>>}}}

OrMeans(w) ==
  AndMeans(w) \union
  UNION {{m[1] \union m[2] : m \in Around(w, k, OrMeans, AndMeans)}
         : k \in {k \in DOMAIN w : w[k] = <<Space, "OR", Space>>}}

\* What a pattern means: literals in their places, wild parts take any text.
RECURSIVE Denotes(_, _)
Denotes(parts, v) ==
  IF parts = <<>> THEN v = <<>>
  ELSE IF Head(parts).wild THEN \E k \in 1..(Len(v) + 1) : Denotes(Tail(parts), SubSeq(v, k, Len(v)))
  ELSE LET lit == Head(parts).lit
       IN IsPrefix(lit, v) /\ Denotes(Tail(parts), SubSeq(v, Len(lit) + 1, Len(v)))

Patterns == {t.parts : t \in {t \in Range(Tokens(Text)) : t.parts # <<>>}}

\* Patterns that end with a wild part and have no two of them side by side.
OpenEnded(parts) ==
  Last(parts).wild /\ \A k \in 1..(Len(parts) - 1) : ~(parts[k].wild /\ parts[k + 1].wild)

\* The values a tree compares with columns that have an index.
RECURSIVE Indexed(_)
Indexed(n) ==
  CASE n.op \in {"and", "or"} -> Indexed(n.l) \union Indexed(n.r)
    [] n.op = "not" -> Indexed(n.x)
    [] n.op = "eq" -> IF n.path \in Dict THEN {n.v} ELSE {}
    [] OTHER -> {}

\* The rows of the ring that the filter in force matches.
Hits(seqs) == {q \in seqs : Matches(node[1], ring[q + 1])}

---------------------------------------------------------------------------
\* Each variable has its type.
TypeOK ==
  /\ typing.voc \in DOMAIN Vocabularies /\ typing.words \in Seq(Vocabularies[typing.voc].words)
  /\ Len(node) <= 1 /\ ring \in Seq(Rows) /\ head <= MaxRows
  /\ client.before <= client.start /\ client.start <= head /\ client.shown \subseteq 0..(head - 1)
  /\ query.found \subseteq 0..(head - 1) /\ query.hi <= head /\ query.known <= head

\* The tree of a text, if it parses.
Trees(s) == {r.node : r \in {r \in {Parse(s)} : r.ok}}

\* A text that follows the documented grammar (parser.go:4-8) parses, and selects what
\* the grammar makes of its terms: "OR" binds weaker than a space and "AND", a negation
\* takes one term or group, and a term means what README and help say it does.
ReadsAsDocumented ==
  \A m \in OrMeans(typing.words) :
    \E n \in Trees(Text) : {row \in AllRows : Matches(n, row)} = m

\* The client pins filters by putting each and the typed one into parentheses, one
\* after the other (computeEffectiveFilter): that is their conjunction, whatever was
\* typed, as long as its quotes are closed.
GroupsCompose ==
  LET closed == LET quotes == {i \in DOMAIN Text : Text[i] = Quote}
                IN quotes = {} \/ (Cardinality(quotes) % 2 = 0 /\ {Escape, "/"} \cap Range(Text) = {})
      Group(a, b) == Trees(<<"(">> \o a \o <<")", Space, "(">> \o b \o <<")">>)
  IN Trimmed(Text) # <<>> /\ closed =>
       \A tree \in Trees(Text), c \in Chips : \A chip \in Trees(c) :
         Group(c, Text) = {And(chip, tree)} /\ Group(Text, c) = {And(tree, chip)}

\* Any text can be asked for as it is: quoted, with a backslash before each quote,
\* backslash and star, it is the value of an equality.
QuotedIsExact ==
  LET Escaped == FlattenSeq([i \in DOMAIN Text |->
                   IF Text[i] \in {Quote, Escape, "*"} THEN <<Escape, Text[i]>> ELSE <<Text[i]>>])
  IN Trees(<<"k", ":", Quote>> \o Escaped \o <<Quote>>) = {Eq(<<<<"k">>>>, Text)}

\* History, by the plan, and the live stream, by the matcher, show the same rows,
\* unless an equality asks for the empty value or for one in quotes.
PlanMatchesFilter ==
  \A n \in Trees(Text) :
     (\A v \in Indexed(n) : v # <<>> /\ Quote \notin Range(v)) =>
       \A rows \in Rings :
         Selects(PlanOf(n, rows, rows), rows) = {q \in DOMAIN rows : Matches(n, rows[q])}

\* A value that a pattern matches is one it means; the converse holds for patterns
\* that end with a wild part.
GlobsMatch ==
  \A parts \in Patterns, v \in Samples :
    /\ MatchGlob(v, parts) => Denotes(parts, v)
    /\ OpenEnded(parts) /\ Denotes(parts, v) => MatchGlob(v, parts)

\* An answer has no holes: among the rows that were there when its plan was made and
\* that are still there, it has exactly the matching ones down (search, export: up) to
\* where its last row is, and all of them if it says that there are no more.
AnswersExact ==
  query.pc = "answered" =>
    LET there == Between(query.lo, Min({query.hi, query.known}))
        hits == Hits(there)
        Beyond(q, f) == IF query.kind \in OldestKinds THEN q < f ELSE q > f
    IN /\ query.found \intersect there \subseteq hits
       /\ \A f \in query.found, q \in hits : Beyond(q, f) => q \in query.found
       /\ query.kind = "history" /\ query.end => hits \subseteq query.found

\* A client that pages back holds every matching row that is still there from where it
\* started down to where it stands, and at the end every one before its start,
\* although rows arrive, overwrite others and are overwritten within an answer.
PagingReachesAll ==
  client.start > 0 =>
    LET there == Between(IF client.done THEN 0 ELSE client.before, client.start)
    IN client.shown \intersect there = Hits(there)

\* tools.go:332: a query of the tools returns "matching seqs".
ToolAnswersMatch ==
  query.pc = "answered" => Hits(query.found) = query.found

\* compile.go:166: "wild parts greedily consume any-substring (including empty)", the
\* pattern is anchored at both ends: it matches exactly the values it means.
GlobTakesAny ==
  \A parts \in Patterns, v \in Samples : MatchGlob(v, parts) <=> Denotes(parts, v)

\* plan.go:8: a plan's candidates are a "super-set of matching seqs".
PlanCovers ==
  \A n \in Trees(Text), rows \in Rings : \A q \in DOMAIN rows :
    Matches(n, rows[q]) => q \in Selects(PlanOf(n, rows, rows), rows)
===========================================================================
