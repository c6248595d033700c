---------------------------- MODULE ColumnSampler ----------------------------
(***************************************************************************)
(* What the column sampler of a source makes of the JSON entries it has    *)
(* seen: pure, no state.  An entry is a function from keys to values; a    *)
(* value is an object, itself such a function, or a text, of which only    *)
(* the length and the look of an identifier matter besides its identity.   *)
(* The path of a nested key is the sequence of keys; Name gives the dotted *)
(* name under which the sampler counts it, so that a key with a dot in it  *)
(* and a nested one are the same field.                                    *)
(***************************************************************************)
EXTENDS Integers, FiniteSets, SequencesExt

CONSTANTS
  Name,        \* [paths -> names]
  ByteOrder,   \* the names of fields, in the order of their bytes
  Resolve,     \* [names -> Priorities' ids]: the alias groups, partial
  Priorities,  \* canonical ids, in display order
  DistinctCap, \* distinct values kept of a field
  MinDistinct, MaxLength, MaxDepth, TopK

\* A text: unwrap has taken the quotes off.
Text(text, len, digits, hex) ==
  [object |-> FALSE, text |-> text, len |-> len, digits |-> digits, hex |-> hex]
Object(members) == [object |-> TRUE, members |-> members]
Blob == Text("", 0, FALSE, FALSE)    \* what unwrap makes of an object it will not open

LooksLikeID(v) == v.len >= 12 /\ (v.digits \/ (v.hex /\ v.len >= 16))

\* An entry and the objects in it, each with its path, down to those whose members
\* are one level below the deepest that is a column.
ObjectsOf(entry) ==
  LET level[d \in 0 .. MaxDepth + 1] ==
        IF d = 0 THEN {<<<<>>, entry>>}
        ELSE UNION {{<<Append(o[1], k), o[2][k].members>> : k \in {j \in DOMAIN o[2] : o[2][j].object}}
                    : o \in level[d - 1]}
  IN UNION {level[d] : d \in 0 .. MaxDepth + 1}

\* The fields of an entry: an object is a field without values, or a blob if it is
\* not opened, and its members are fields one deeper.
FieldsOf(entry) ==
  UNION {{LET path == Append(o[1], k)
              v    == o[2][k]
          IN [name |-> Name[path], depth |-> Len(path),
              value |-> IF ~v.object THEN {v} ELSE IF Len(path) > MaxDepth + 1 THEN {Blob} ELSE {}]
          : k \in DOMAIN o[2]} : o \in ObjectsOf(entry)}

NoStat == [count |-> 0, depth |-> 0, distinct |-> {}, lens |-> <<>>]

\* Bug variant: the depth is that of the last value instead of the deepest.
FoldFieldLastDepth(stat, f) ==
  LET grown == stat.distinct \cup f.value
      len   == SetToSeq({LET l == v.len IN IF l > 256 THEN 256 ELSE l
                         : v \in {u \in f.value : u.len > 0}})
  IN [count    |-> stat.count + 1,
      depth    |-> f.depth,
      distinct |-> IF Cardinality(grown) <= DistinctCap THEN grown ELSE stat.distinct,
      lens     |-> stat.lens \o len]

FoldField(stat, f) ==
  LET grown == stat.distinct \cup f.value
      len   == SetToSeq({LET l == v.len IN IF l > 256 THEN 256 ELSE l
                         : v \in {u \in f.value : u.len > 0}})
  IN [count    |-> stat.count + 1,
      depth    |-> IF f.depth > stat.depth THEN f.depth ELSE stat.depth,
      distinct |-> IF Cardinality(grown) <= DistinctCap THEN grown ELSE stat.distinct,
      lens     |-> stat.lens \o len]

\* Observe, once for each entry: the statistics of every field.
Stats(entries) ==
  LET fields == FlattenSeq([n \in DOMAIN entries |-> SetToSeq(FieldsOf(entries[n]))])
      fold(stats, f) == [n \in DOMAIN stats \cup {f.name} |->
                           IF n # f.name THEN stats[n]
                           ELSE FoldField(IF n \in DOMAIN stats THEN stats[n] ELSE NoStat, f)]
  IN FoldLeft(fold, <<>>, fields)

\* The 95th percentile of the lengths: the least that 95 in 100 do not exceed.
P95(lens) ==
  IF lens = <<>> THEN 0
  ELSE LET upTo(l) == Cardinality({n \in DOMAIN lens : lens[n] <= l})
       IN Min({l \in ToSet(lens) : 100 * upTo(l) >= 95 * Len(lens)})

Canonical(name) == name \in DOMAIN Resolve

\* presence * log(n / distinct) of one field exceeds that of another.
Outscores(a, b, n) ==
  n ^ a.count * Cardinality(b.distinct) ^ b.count
    > n ^ b.count * Cardinality(a.distinct) ^ a.count

\* A field that is no alias is a column if most entries have it, its values vary,
\* are short, and are not for the most part identifiers.
Qualifies(stat, n) ==
  /\ stat.depth <= MaxDepth
  /\ 10 * stat.count >= 6 * n /\ Cardinality(stat.distinct) >= MinDistinct
  /\ P95(stat.lens) <= MaxLength
  /\ 2 * Cardinality({v \in stat.distinct : LooksLikeID(v)}) < Cardinality(stat.distinct)

\* The columns: canonical ids first, each if one of its names is in half of the
\* entries; then the best of the other fields, those with their name.
Recommend(entries) ==
  LET stats == Stats(entries)
      n     == Len(entries)
      frequent(id) == \E name \in DOMAIN stats :
                        /\ Canonical(name) /\ Resolve[name] = id /\ 2 * stats[name].count >= n
      others == {name \in DOMAIN stats : ~Canonical(name) /\ Qualifies(stats[name], n)}
      place(name) == CHOOSE p \in DOMAIN ByteOrder : ByteOrder[p] = name
      before(a, b) == \/ Outscores(stats[a], stats[b], n)
                      \/ ~Outscores(stats[b], stats[a], n) /\ place(a) < place(b)
      leading == SelectSeq(Priorities, frequent)
      ranked  == SetToSortSeq(others, before)
      room    == TopK - Len(leading)
  IN IF n = 0 THEN <<>>
     ELSE leading \o SubSeq(ranked, 1, Min({room, Len(ranked)}))
=============================================================================
