--------------------------- MODULE FilterParser ---------------------------
(* The filter language: from the text a user typed to a tree                 *)
(* (filter/parser.go, filter/ast.go).                                        *)
(*                                                                           *)
(* A text is a sequence of symbols. A symbol is one character, or a word     *)
(* that stands for a name or a keyword and behaves as a letter; "AND", "OR"  *)
(* and "NOT" stand for both spellings. A token keeps its kind, its text and, *)
(* for a quoted string with an unescaped star, the parts of the pattern.     *)
EXTENDS Integers, Sequences, SequencesExt, FiniteSetsExt

CONSTANTS Letters,  \* symbols that may start a name; "_" is one
          Digits    \* a function from digit symbols to their values

Space == " "
Quote == "\""
Escape == "\\"
End == ""            \* what is read beyond the end of a text

Start == Letters \union {"AND", "OR", "NOT"}
Delims == {"(", ")", ":", "@", "[", "]", Quote, ".", ">", "<"}
Digit == DOMAIN Digits

At(s, i) == IF i \in DOMAIN s THEN s[i] ELSE End

\* The first position from i on that is past the text or satisfies Stop.
FirstFrom(s, i, Stop(_)) ==
  CHOOSE j \in i..(Len(s) + 1) : (j <= Len(s) => Stop(j)) /\ \A k \in i..(j - 1) : ~Stop(k)

---------------------------------------------------------------------------
(* Tokens.                                                                   *)

Token(kind, text) == [kind |-> kind, text |-> text, parts |-> <<>>]

\* The separator that a run of spaces leaves.
Separator == Token("and", <<Space>>)

\* Bug variant: a run of punctuation takes the parenthesis that closes its group.
GlobEndGreedy(s, i) == FirstFrom(s, i + 1, LAMBDA j : s[j] \in {Space, "(", Quote})

\* The end of a run of punctuation such as [ticket] or -->.
GlobEnd(s, i) == FirstFrom(s, i + 1, LAMBDA j : s[j] \in {Space, "(", ")", Quote})

NumberEnd(s, i) ==
  FirstFrom(s, i, LAMBDA j : ~(s[j] \in Digit \/ (s[j] = "." /\ At(s, j + 1) \in Digit)))

\* After a minus sign dots are taken as they come, ".." too.
NegativeEnd(s, i) == FirstFrom(s, i + 1, LAMBDA j : s[j] \notin Digit \union {"."})

\* A single dot inside a value belongs to it.
WordEnd(s, i, inValue) ==
  FirstFrom(s, i, LAMBDA j :
    \/ s[j] = Space
    \/ /\ s[j] \in Delims
       /\ ~(inValue /\ s[j] = "." /\ At(s, j + 1) \notin {".", Space, End}))

\* The position after /pattern/flags, or 0 if a space or the end comes first.
RECURSIVE RegexEnd(_, _)
RegexEnd(s, j) ==
  CASE At(s, j) \in {End, Space} -> 0
    [] s[j] = Escape /\ j < Len(s) -> RegexEnd(s, j + 2)
    [] s[j] = "/" -> FirstFrom(s, j + 1, LAMBDA k : s[k] \notin {"i", "g"})
    [] OTHER -> RegexEnd(s, j + 1)

RECURSIVE Quoted(_, _)

\* Bug variant: an escaped star is wild all the same.
QuotedStarWild(s, j) ==
  LET From(sym, k) == LET q == Quoted(s, k)
                      IN [q EXCEPT !.items = <<[sym |-> sym, wild |-> sym = "*"]>> \o @]
  IN CASE At(s, j) = End -> [items |-> <<>>, next |-> j]
       [] At(s, j) = Quote -> [items |-> <<>>, next |-> j + 1]
       [] s[j] = Escape /\ j < Len(s) -> From(s[j + 1], j + 2)
       [] OTHER -> From(s[j], j + 1)

\* The symbols of a quoted string, each with whether it is a wild star, and the
\* position after it; a quote that is not closed ends with the text.
Quoted(s, j) ==
  LET From(sym, wild, k) == LET q == Quoted(s, k)
                            IN [q EXCEPT !.items = <<[sym |-> sym, wild |-> wild]>> \o @]
  IN CASE At(s, j) = End -> [items |-> <<>>, next |-> j]
       [] At(s, j) = Quote -> [items |-> <<>>, next |-> j + 1]
       [] s[j] = Escape /\ j < Len(s) -> From(s[j + 1], FALSE, j + 2)
       [] OTHER -> From(s[j], s[j] = "*", j + 1)

\* Literal runs and wild stars, in order.
Parts(items) ==
  FoldLeft(LAMBDA ps, it :
             IF it.wild THEN Append(ps, [wild |-> TRUE, lit |-> <<>>])
             ELSE IF ps # <<>> /\ ~Last(ps).wild
                  THEN [ps EXCEPT ![Len(ps)].lit = Append(@, it.sym)]
                  ELSE Append(ps, [wild |-> FALSE, lit |-> <<it.sym>>]),
           <<>>, items)

QuotedToken(items) ==
  [kind |-> "string", text |-> [k \in DOMAIN items |-> items[k].sym],
   parts |-> IF \E k \in DOMAIN items : items[k].wild THEN Parts(items) ELSE <<>>]

WordToken(word) ==
  LET kind == CASE word = <<"AND">> -> "and"
                [] word = <<"OR">> -> "or"
                [] word = <<"NOT">> -> "not"
                [] OTHER -> IF word[1] \in Start /\ Range(word) \subseteq Start \union Digit
                            THEN "ident" ELSE "star"
  IN Token(kind, word)

Single == ("(" :> "lparen") @@ (")" :> "rparen") @@ (":" :> "colon") @@ ("@" :> "at")
            @@ ("]" :> "rbracket")

\* The token at position i and the position after it.
TokenAt(s, i, inValue) ==
  LET c == s[i]
      d == At(s, i + 1)
      Upto(kind, j) == [token |-> Token(kind, SubSeq(s, i, j - 1)), next |-> j]
      Glob == Upto("star", GlobEnd(s, i))
      opens == d \in Start \union {"(", "@", Quote}
  IN CASE c = Space ->
            [token |-> Separator, next |-> FirstFrom(s, i, LAMBDA j : s[j] # Space)]
       [] c \in DOMAIN Single -> Upto(Single[c], i + 1)
       [] c = "[" -> IF d \in Digit \union {"-"} THEN Upto("lbracket", i + 1) ELSE Glob
       [] c = "." -> IF d = "." THEN Upto("dotdot", i + 2) ELSE Upto("dot", i + 1)
       [] c = "/" -> IF inValue /\ RegexEnd(s, i + 1) # 0
                     THEN Upto("star", RegexEnd(s, i + 1)) ELSE Glob
       [] c \in {">", "<"} ->
            IF inValue /\ d \in {"="} \union Digit \union Start
            THEN Upto("cmp", IF d = "=" THEN i + 2 ELSE i + 1) ELSE Glob
       [] c = "!" -> IF d = End \/ opens THEN Upto("dash", i + 1) ELSE Glob
       [] c = "-" -> IF d \in Digit /\ inValue THEN Upto("number", NegativeEnd(s, i))
                     ELSE IF d = End \/ opens THEN Upto("dash", i + 1) ELSE Glob
       [] c = Quote -> LET q == Quoted(s, i + 1)
                       IN [token |-> QuotedToken(q.items), next |-> q.next]
       [] c \in Digit -> Upto("number", NumberEnd(s, i))
       [] OTHER -> LET j == WordEnd(s, i, inValue)
                   IN [token |-> WordToken(SubSeq(s, i, j - 1)), next |-> j]

\* Whether a value is due: the last token but spaces announces one.
ExpectingValue(toks) ==
  LET real == SelectSeq(toks, LAMBDA t : t # Separator)
  IN real # <<>> /\ Last(real).kind \in {"colon", "lbracket", "dotdot", "cmp"}

RECURSIVE RawTokens(_, _, _)
RawTokens(s, i, toks) ==
  IF i > Len(s) THEN toks
  ELSE LET t == TokenAt(s, i, ExpectingValue(toks))
       IN RawTokens(s, t.next, Append(toks, t.token))

Closers == {"ident", "string", "number", "star", "rparen", "rbracket"}
Openers == {"ident", "string", "number", "star", "lparen", "at", "dash", "not"}

\* A separator counts only between the end of one term and the start of another.
DropSpaces(toks) ==
  LET Keep(k) == \/ toks[k] # Separator
                 \/ /\ k \in 2..(Len(toks) - 1)
                    /\ toks[k - 1].kind \in Closers /\ toks[k + 1].kind \in Openers
      kept == SelectSeq([k \in DOMAIN toks |-> k], Keep)
  IN [n \in DOMAIN kept |-> toks[kept[n]]]

Trimmed(s) ==
  LET ink == {i \in DOMAIN s : s[i] # Space}
  IN IF ink = {} THEN <<>> ELSE SubSeq(s, Min(ink), Max(ink))

Tokens(s) == DropSpaces(RawTokens(Trimmed(s), 1, <<>>))

---------------------------------------------------------------------------
(* Trees. A path is a sequence of names, a value a sequence of symbols.      *)

Everything == [op |-> "all"]
And(l, r) == [op |-> "and", l |-> l, r |-> r]
Or(l, r) == [op |-> "or", l |-> l, r |-> r]
Not(x) == [op |-> "not", x |-> x]
Eq(path, v) == [op |-> "eq", path |-> path, v |-> v]
Substr(path, needle, exact) == [op |-> "substr", path |-> path, needle |-> needle, exact |-> exact]
Glob(path, parts) == [op |-> "glob", path |-> path, parts |-> parts]
Exists(path) == [op |-> "exists", path |-> path]
InRange(path, lo, hi) == [op |-> "range", path |-> path, lo |-> lo, hi |-> hi]
Compare(op, path, how, v) == [op |-> op, path |-> path, how |-> how, v |-> v]
Regex(path, pattern, flags) == [op |-> "regex", path |-> path, pattern |-> pattern, flags |-> flags]

Msg == <<<<"msg">>>>

\* The text without the stars at its ends.
TrimStars(t) ==
  LET ink == {i \in DOMAIN t : t[i] # "*"}
  IN IF ink = {} THEN <<>> ELSE SubSeq(t, Min(ink), Max(ink))

---------------------------------------------------------------------------
(* Recursive descent. A parser takes the tokens and a position and returns   *)
(* whether it succeeded, the position after what it took, and the tree.      *)

Fail == [ok |-> FALSE, pos |-> 0, node |-> Everything]
Ok(pos, node) == [ok |-> TRUE, pos |-> pos, node |-> node]
Kind(toks, p) == IF p \in DOMAIN toks THEN toks[p].kind ELSE "end"

\* The names of a dotted reference from p on, and the position after them. A "@"
\* with no name after it is taken alone.
RECURSIVE PathRest(_, _, _)
PathRest(toks, p, path) ==
  IF Kind(toks, p) = "dot" /\ Kind(toks, p + 1) = "ident"
  THEN PathRest(toks, p + 2, Append(path, toks[p + 1].text))
  ELSE [path |-> path, pos |-> p]

FieldRef(toks, p) ==
  LET q == IF Kind(toks, p) = "at" THEN p + 1 ELSE p
  IN IF Kind(toks, q) = "ident" THEN PathRest(toks, q + 1, <<toks[q].text>>)
     ELSE [path |-> <<>>, pos |-> q]

\* The text with each escaped slash replaced by the slash.
Slashes(t) ==
  LET kept == SelectSeq([i \in DOMAIN t |-> i], LAMBDA i : ~(t[i] = Escape /\ At(t, i + 1) = "/"))
  IN [n \in DOMAIN kept |-> t[kept[n]]]

\* /pattern/flags, split at the last slash that only flags follow; none when
\* there is no such slash or nothing between the two.
RegexParts(t) ==
  LET flags == Max({0} \union {i \in 2..Len(t) : t[i] = "/"
                              /\ \A j \in (i + 1)..Len(t) : t[j] \in {"i", "g"}})
  IN IF At(t, 1) = "/" /\ flags > 2
     THEN <<[pattern |-> Slashes(SubSeq(t, 2, flags - 1)),
             flags |-> SubSeq(t, flags + 1, Len(t))]>>
     ELSE <<>>

\* Whether a pattern is a regular expression from i on, inside that many groups,
\* after something that can be repeated or not. Of brackets only whole ranges.
RECURSIVE Compiles(_, _, _, _)
Compiles(t, i, groups, repeatable) ==
  CASE i > Len(t) -> groups = 0
    [] At(t, i) = "*" -> repeatable /\ Compiles(t, i + 1, groups, FALSE)
    [] At(t, i) = "(" -> Compiles(t, i + 1, groups + 1, FALSE)
    [] At(t, i) = ")" -> groups > 0 /\ Compiles(t, i + 1, groups - 1, TRUE)
    [] At(t, i) = Escape -> /\ At(t, i + 1) \notin Letters \union Digit \union {End}
                           /\ Compiles(t, i + 2, groups, TRUE)
    [] At(t, i) = "[" -> LET close == FirstFrom(t, i, LAMBDA j : t[j] = "]")
                         IN close <= Len(t) /\ Compiles(t, close + 1, groups, TRUE)
    [] OTHER -> Compiles(t, i + 1, groups, TRUE)

RangeValue(toks, p, path) ==
  IF /\ Kind(toks, p + 1) = "number" /\ Kind(toks, p + 2) = "dotdot"
     /\ Kind(toks, p + 3) = "number" /\ Kind(toks, p + 4) = "rbracket"
  THEN Ok(p + 5, InRange(path, toks[p + 1].text, toks[p + 3].text))
  ELSE Fail

CompareValue(toks, p, path) ==
  CASE Kind(toks, p + 1) = "number" ->
         Ok(p + 2, Compare("cmpnum", path, toks[p].text, toks[p + 1].text))
    [] Kind(toks, p + 1) \in {"ident", "string"} ->
         Ok(p + 2, Compare("cmpstr", path, toks[p].text, toks[p + 1].text))
    [] OTHER -> Fail

\* A regular expression must compile, and "g" is refused. A word with stars is a
\* search, stars alone ask whether the field is there.
StarValue(toks, p, path) ==
  LET t == toks[p].text
      needle == TrimStars(t)
      regex == RegexParts(t)
  IN CASE regex # <<>> -> IF "g" \in Range(regex[1].flags) \/ ~Compiles(regex[1].pattern, 1, 0, FALSE)
                          THEN Fail
                          ELSE Ok(p + 1, Regex(path, regex[1].pattern, regex[1].flags))
       [] regex = <<>> /\ "*" \notin Range(t) -> Ok(p + 1, Eq(path, t))
       [] OTHER -> Ok(p + 1, IF needle = <<>> THEN Exists(path)
                             ELSE Substr(path, needle, FALSE))

FieldValue(toks, p, path) ==
  CASE Kind(toks, p) = "lbracket" -> RangeValue(toks, p, path)
    [] Kind(toks, p) = "cmp" -> CompareValue(toks, p, path)
    [] Kind(toks, p) = "star" -> StarValue(toks, p, path)
    [] Kind(toks, p) \in {"string", "ident", "number"} ->
         Ok(p + 1, IF toks[p].parts # <<>> THEN Glob(path, toks[p].parts)
                   ELSE Eq(path, toks[p].text))
    [] OTHER -> Fail

\* A field with its value, or a text searched for in the message. A reference
\* that no colon follows gives back all but its first token.
Term(toks, p) ==
  LET k == Kind(toks, p)
      t == toks[p]
      ref == FieldRef(toks, p)
  IN CASE k \in {"at", "ident"} /\ Kind(toks, ref.pos) = "colon" ->
            FieldValue(toks, ref.pos + 1, ref.path)
       [] k \in {"at", "ident", "number"} /\ (k = "number" \/ Kind(toks, ref.pos) # "colon") ->
            Ok(p + 1, Substr(Msg, t.text, FALSE))
       [] k = "string" -> Ok(p + 1, IF t.parts # <<>> THEN Glob(Msg, t.parts)
                                    ELSE Substr(Msg, t.text, TRUE))
       [] k = "star" -> Ok(p + 1, Substr(Msg, TrimStars(t.text), FALSE))
       [] OTHER -> Fail

Negated(r)    == IF r.ok THEN Ok(r.pos, Not(r.node)) ELSE Fail
Conjoin(l, r) == IF r.ok THEN Ok(r.pos, And(l.node, r.node)) ELSE Fail
Disjoin(l, r) == IF r.ok THEN Ok(r.pos, Or(l.node, r.node)) ELSE Fail
Closed(toks, r) == IF r.ok /\ Kind(toks, r.pos) = "rparen" THEN Ok(r.pos + 1, r.node) ELSE Fail

RECURSIVE ParseOr(_, _), OrRest(_, _), ParseAnd(_, _), AndRest(_, _), ParseNot(_, _), Atom(_, _)

Atom(toks, p) ==
  IF Kind(toks, p) = "lparen" THEN Closed(toks, ParseOr(toks, p + 1)) ELSE Term(toks, p)

\* Bug variant: a negation takes the whole conjunction that follows.
ParseNotWide(toks, p) ==
  IF Kind(toks, p) \in {"dash", "not"} THEN Negated(ParseAnd(toks, p + 1)) ELSE Atom(toks, p)

ParseNot(toks, p) ==
  IF Kind(toks, p) \in {"dash", "not"} THEN Negated(Atom(toks, p + 1)) ELSE Atom(toks, p)

\* An "and" that nothing can follow is taken and ignored.
AndRest(toks, r) ==
  LET k == Kind(toks, r.pos)
      next == IF k = "and" THEN r.pos + 1 ELSE r.pos
  IN CASE ~r.ok \/ k \notin {"and"} \union Openers -> r
       [] r.ok /\ k = "and" /\ Kind(toks, next) \in {"end", "or", "rparen"} -> Ok(next, r.node)
       [] OTHER -> AndRest(toks, Conjoin(r, ParseNot(toks, next)))

ParseAnd(toks, p) == AndRest(toks, ParseNot(toks, p))

OrRest(toks, r) ==
  IF ~r.ok \/ Kind(toks, r.pos) # "or" THEN r
  ELSE OrRest(toks, Disjoin(r, ParseAnd(toks, r.pos + 1)))

ParseOr(toks, p) == OrRest(toks, ParseAnd(toks, p))

\* An empty text matches everything; tokens left over are an error.
Complete(toks, r) == IF r.ok /\ r.pos = Len(toks) + 1 THEN r ELSE Fail
ParseTokens(toks) == IF toks = <<>> THEN Ok(1, Everything) ELSE Complete(toks, ParseOr(toks, 1))
Parse(s) == ParseTokens(Tokens(s))
===========================================================================
