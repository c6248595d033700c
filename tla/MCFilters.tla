----------------------------- MODULE MCFilters -----------------------------
(* Instances of Filters for TLC: one vocabulary of terms and connectives for *)
(* the structure of filters, one of documented forms for what their terms    *)
(* mean, one of characters for their tokens.                                 *)
EXTENDS Filters

MCDigits == [d \in {"1"} |-> 1]
MCLetters == {"level", "k", "msg", "x", "i"}
MCHot == {<<<<"level">>>>, <<<<"msg">>>>}
MCDict == {<<<<"level">>>>}
MCOrdinals == (<<"x">> :> 2) @@ (<<"i">> :> 1)
MCAlphabet == <<"*", "1", "i", "k", "x">>

LevelX == <<"level", ":", "x">>
LevelI == <<"level", ":", "i">>
KeyX == <<"k", ":", "x">>

MCRow(level, k, msg, i) ==
  (<<<<"level">>>> :> level) @@ (<<<<"k">>>> :> k) @@ (<<<<"msg">>>> :> msg) @@ (<<<<"i">>>> :> i)
MCRows == {MCRow(<<"x">>, <<>>, <<>>, <<>>), MCRow(<<"i">>, <<"x">>, <<>>, <<>>)}

\* Of these four rows one has no level, two have the other key.
MCRing == (0 :> MCRow(<<"x">>, <<"x">>, <<"x">>, <<"1">>))
            @@ (1 :> MCRow(<<"x">>, <<>>, <<"1", "x", "1">>, <<"1", "1">>))
            @@ (2 :> MCRow(<<"i">>, <<"x">>, <<"*">>, <<>>))
            @@ (3 :> MCRow(<<>>, <<"1", "x">>, <<>>, <<"x">>))
MCRings == {MCRing}

---------------------------------------------------------------------------
(* Terms and what the documents say of them.                                 *)

Is(key, v) == {r \in Range(MCRing) : r[<<key>>] = v}
With(key, c) == {r \in Range(MCRing) : c \in Range(r[<<key>>])}
Message == <<"msg">>

MCMeans ==
  \* README:186 "equality"; HelpModal:67 "exact match on a built-in field"
  (LevelX :> Is(<<"level">>, <<"x">>)) @@ (LevelI :> Is(<<"level">>, <<"i">>)) @@ (KeyX :> Is(<<"k">>, <<"x">>))
  \* HelpModal:66 "bare word -> contains in msg", :68 "quoted string, exact match in msg"
  @@ (<<"x">> :> With(Message, "x")) @@ (<<Quote, "x", Quote>> :> Is(Message, <<"x">>))
  \* README:189 "msg substring"; HelpModal:77, 82, 83
  @@ (<<"*", "x", "*">> :> With(Message, "x")) @@ (<<"msg", ":", "*", "x", "*">> :> With(Message, "x"))
  @@ (<<"msg", ":", Quote, "*", "x", "*", Quote>> :> With(Message, "x"))
  @@ (<<"msg", ":", Quote, Escape, "*", Quote>> :> Is(Message, <<"*">>))
  \* HelpModal:79 "field is set (non-empty)"
  @@ (<<"level", ":", "*">> :> Range(MCRing) \ Is(<<"level">>, <<>>))
  \* HelpModal:89 "regex match on msg"
  @@ (<<"msg", ":", "/", "x", "/">> :> With(Message, "x"))
  \* README:190 "ordinal compare on level", HelpModal:100 "numeric comparison", :101 "range, inclusive"
  @@ (<<"level", ":", ">", "=", "i">> :> Is(<<"level">>, <<"x">>) \union Is(<<"level">>, <<"i">>))
  @@ (<<"@", "i", ":", ">", "=", "1", "1">> :> Is(<<"i">>, <<"1", "1">>))
  @@ (<<"i", ":", "[", "1", ".", ".", "1", "]">> :> Is(<<"i">>, <<"1">>))

\* Documented forms that are read otherwise: README:192 "regex on msg", HelpModal:78
\* "prefix match", HelpModal:81 "negated substring on msg".
MCContradicted ==
  (<<"/", "x", "/">> :> With(Message, "x"))
  @@ (<<"k", ":", "x", "*">> :> Is(<<"k">>, <<"x">>))
  @@ (<<"-", "*", "x", "*">> :> Range(MCRing) \ With(Message, "x"))
MCDocumented == MCMeans @@ MCContradicted

Connectives == {<<" ", "OR", " ">>, <<" ">>, <<"-">>, <<"(">>, <<")">>}
Terms == [long |-> 5, asked |-> 2, words |-> {LevelX, LevelI, KeyX} \union Connectives]
Phrases == [long |-> 3, asked |-> 0,
            words |-> DOMAIN MCDocumented \union Connectives
                        \union {<<" ", "AND", " ">>, <<"NOT", " ">>, <<"!">>}]
Characters == [long |-> 4, asked |-> 0,
               words |-> {<<"level", ":">>, <<"x">>, <<"1">>, <<" ">>, <<"(">>, <<")">>,
                          <<"[", "1", ".", ".", "1", "]">>,
                          <<".">>, <<"-">>, <<"!">>, <<"/">>, <<Quote>>, <<Escape>>, <<"*">>,
                          <<">">>, <<"@">>, <<"AND">>}]
MCVocabularies == [terms |-> Terms, phrases |-> Phrases, characters |-> Characters]

MCChips == {KeyX, <<"-", "x">>}

MCSamples == {<<>>} \union {<<a>> : a \in {"x", "1"}} \union {<<a, b>> : a, b \in {"x", "1"}}
               \union {<<a, b, c>> : a, b, c \in {"x", "1"}}
=============================================================================
