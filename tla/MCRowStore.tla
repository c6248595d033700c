---------------------------- MODULE MCRowStore ----------------------------
(* Instances of RowStore for TLC: one key to promote, two canonical levels,  *)
(* a level that only an alias classifies, an object, texts with one hash.    *)
EXTENDS RowStore, TLC

CONSTANTS warn, error, odd, five, obj, red, none

MCValues  == {warn, error, odd, five}
MCBytes   == (obj :> five)
MCPrinted == (obj :> none)

\* error and odd collide, also with the key "k".
MCHash == [t \in {"level", "msg", "k", warn, error, odd, five, obj, red} |->
             CASE t \in {error, odd, "k"} -> 1 [] t = warn -> 2 [] t = five -> 3 [] OTHER -> 4]

Row(fields, alias) == [fields |-> fields, alias |-> alias]
Line(line, level, ansi) == [line |-> line, level |-> level, ansi |-> ansi]

MCClassified == (warn :> warn) @@ (error :> error)

MCJsonRows ==
  {Row("level" :> warn, none), Row("level" :> odd, error), Row("k" :> obj, warn),
   Row(("level" :> error) @@ ("k" :> odd), none)}

MCAsked == {<<"level", warn>>, <<"k", five>>}

MCTextRows == {Line(odd, error, red)}

\* Rows of a known disagreement.
MCAliasRows == {Row("level" :> five, none), Row("level" :> five, error)}
=============================================================================
