------------------------------ MODULE RowStore ------------------------------
(***************************************************************************)
(* How loggi keeps a row: hot columns (a dictionary with an inverted index *)
(* per value, or raw interner ids), tail key-value pairs, the blob of an   *)
(* ANSI line, all refcounted into one string interner and one blob slab;   *)
(* and how a history query reads them back while rows are appended and     *)
(* overwritten.                                                            *)
(*                                                                         *)
(* Append runs under Store.mu and is one step.  A query takes four: it     *)
(* reads head, then tail, then clones the bitmap of its value or falls     *)
(* back to comparing every row, then scans.                                *)
(*                                                                         *)
(* A text is a member of a small set; Hash may map two texts to one value. *)
(* A field is a string, which is its text, or another JSON value, which    *)
(* has a text too: a column keeps only that, a tail pair the value itself. *)
(* The well-known columns are stood for by "level", which a row may set    *)
(* twice (the field as it came, then the canonical level), and "msg".      *)
(* ts, the source id and the layout of the arena are left out.             *)
(***************************************************************************)
EXTENDS Naturals, Sequences, FiniteSets, SequencesExt

CONSTANTS
  Extra,      \* JSON keys without a column at the start
  Values,     \* texts a field can have
  Literals,   \* fields that are no strings: numbers, null, objects
  Bytes,      \* [Literals -> Values]             their JSON text
  Printed,    \* [Literals -> Values \union {None}] what formatScalar makes of them
  None,       \* the empty text
  Large,      \* values a tail pair keeps in the blob slab
  Blobs,      \* ANSI lines kept there too
  Hashes,     \* values of the hash function
  Hash,       \* [Texts -> Hashes]
  JsonRows,   \* parsed rows: the fields, and the level found under an alias
  TextRows,   \* text rows: the line, the level guessed, the ANSI blob or None
  Asked,      \* what history queries ask for: <<key, value>>
  Classified, \* [fields that are levels -> canonical level]
  Cap,        \* Options.Cap
  MaxDict,    \* maxDict: distinct values before a column turns raw
  SeqWidth,   \* 2^32: sequence numbers are truncated to it in the index
  PromoteRows, PromoteCount, \* rows and occurrences before a key is promoted
  PromoteMax, \* promoteCntMax
  MaxRows     \* bound: rows appended

WellKnown == {"level", "msg"}
Keys  == WellKnown \union Extra
Texts == Keys \union Values \union Literals \union Blobs
Fields == Values \union Literals \union {None}
Idx   == 0..(Cap - 1)

ASSUME StoreAssumption ==
  /\ Cap \in Nat \ {0} /\ \E n \in 0..Cap : Cap = 2^n
  /\ MaxDict \in Nat \ {0} /\ SeqWidth \in Nat \ {0}
  /\ PromoteRows \in Nat /\ PromoteCount \in Nat /\ PromoteMax \in Nat
  /\ IsFiniteSet(Extra) /\ None \notin Texts /\ Large \subseteq Values
  /\ Values \intersect Literals = {} /\ Bytes \in [Literals -> Values]
  /\ Printed \in [Literals -> Values \union {None}]
  /\ Hash \in [Texts -> Hashes]
  /\ \A v \in DOMAIN Classified : v \in Fields /\ Classified[v] \in Values
  /\ Asked \subseteq Keys \X Values
  /\ \A r \in JsonRows : /\ DOMAIN r.fields \subseteq Keys
                         /\ \A k \in DOMAIN r.fields : r.fields[k] \in Fields
                         /\ r.alias \in Values \union {None}
  /\ \A r \in TextRows : /\ r.line \in Values \union {None} /\ r.level \in Values \union {None}
                         /\ r.ansi \in Blobs \union {None}

VARIABLES
  head,   \* Store.head
  db,     \* interner, blob slab, columns, tail pairs, ANSI blobs, promotion counts
  kept,   \* history: what each row appended so far should read as
  query   \* a history query: where it is and what it has read

vars == <<head, db, kept, query>>

INSTANCE Slab

tail == IF head > Cap THEN head - Cap ELSE 0
Live == tail..(head - 1)

---------------------------------------------------------------------------
(* A column: the cell of each ring slot, and in dictionary mode the slab of  *)
(* its values (items are interner ids) and the rows indexed under each id.   *)

NewColumn(kind) ==
  [kind |-> kind, ids |-> [i \in Idx |-> 0], present |-> {}, dict |-> NewSlab,
   index |-> {}, card |-> 0]

DictIds(c) == {id \in DOMAIN c.dict.slots : c.dict.slots[id].refs > 0}

\* The interner id of the text in a cell; 0 is none.
TextOf(c, i) ==
  IF i \notin c.present THEN 0
  ELSE IF c.kind = "raw" THEN c.ids[i]
  ELSE IF c.ids[i] \in DOMAIN c.dict.slots THEN c.dict.slots[c.ids[i]].item ELSE 0

Get(slab, id) == IF Refs(slab, id) > 0 THEN slab.slots[id].item ELSE None

GetString(d, k, i) == Get(d.intern, TextOf(d.col[k], i))

Bitmap(c, id) == {p[2] : p \in {q \in c.index : q[1] = id}}

\* Bug variant: the index goes with any row of the value, not with the last.
VacatedDropsIndex(c, i) ==
  LET id   == c.ids[i]
      rest == [c EXCEPT !.ids[i] = 0, !.present = @ \ {i}]
  IN  IF i \notin c.present THEN c
      ELSE IF c.kind = "raw" THEN rest
      ELSE [rest EXCEPT !.dict = Release(c.dict, Once(c.dict, id)),
                        !.index = {p \in @ : p[1] # id},
                        !.card = IF Refs(c.dict, id) = 1 THEN @ - 1 ELSE @]

\* The column without the cell of slot i; its value goes with the last row.
Vacated(c, i) ==
  LET id   == c.ids[i]
      last == Refs(c.dict, id) = 1
      rest == [c EXCEPT !.ids[i] = 0, !.present = @ \ {i}]
  IN  IF i \notin c.present THEN c
      ELSE IF c.kind = "raw" THEN rest
      ELSE [rest EXCEPT !.dict = Release(c.dict, Once(c.dict, id)),
                        !.index = IF last THEN {p \in @ : p[1] # id} ELSE @,
                        !.card = IF last THEN @ - 1 ELSE @]

\* The text that the column lets go of with that cell.
LetGo(c, i) == IF c.kind = "raw" \/ Refs(c.dict, c.ids[i]) = 1 THEN TextOf(c, i) ELSE 0

\* Columns are a Go map; the order they are visited in would show only in ids.
EvictCells(d, ks, i) ==
  [d EXCEPT !.intern = Release(d.intern, [id \in DOMAIN d.intern.slots |->
                         Cardinality({k \in ks : LetGo(d.col[k], i) = id})]),
            !.col = [k \in Keys |-> IF k \in ks THEN Vacated(d.col[k], i) ELSE d.col[k]]]

EvictCell(d, k, i) == IF i \in d.col[k].present THEN EvictCells(d, {k}, i) ELSE d

SetRaw(d, k, i, v) ==
  LET put == Put(d.intern, Hash[v], v)
      col == [d.col[k] EXCEPT !.ids[i] = put.id, !.present = @ \union {i}]
  IN  [d EXCEPT !.intern = put.slab, !.col[k] = col]

\* How many cells, and how many entries of the dictionary, hold each text.
CellsOf(d, c) == [id \in DOMAIN d.intern.slots |->
                    Cardinality({i \in c.present : TextOf(c, i) = id})]
EntriesOf(d, c) == [id \in DOMAIN d.intern.slots |->
                      Cardinality({e \in DictIds(c) : c.dict.slots[e].item = id})]

RawOf(c) == [NewColumn("raw") EXCEPT !.ids = [i \in Idx |-> TextOf(c, i)],
                                     !.present = c.present]

\* Bug variant: the references of the dictionary itself are not given back.
PromoteToRawLeaking(d, k) ==
  [d EXCEPT !.intern = Retain(d.intern, CellsOf(d, d.col[k])), !.col[k] = RawOf(d.col[k])]

\* Every row takes over a reference to its text, then the dictionary lets go.
PromoteToRaw(d, k) ==
  [d EXCEPT !.intern = Release(Retain(d.intern, CellsOf(d, d.col[k])), EntriesOf(d, d.col[k])),
            !.col[k] = RawOf(d.col[k])]

\* The cell of row seq refers to dictionary id, and the index knows.
SetDict(c, i, seq, id) ==
  [c EXCEPT !.ids[i] = id, !.present = @ \union {i},
            !.index = @ \union {<<id, seq % SeqWidth>>}]

\* A value the dictionary does not hold yet; one too many makes the column raw.
AddToDict(d, k, i, seq, v) ==
  LET put == Put(d.intern, Hash[v], v)
      id  == NextId(d.col[k].dict)
      col == [d.col[k] EXCEPT !.dict = Add(@, Hash[v], put.id), !.card = @ + 1]
      new == [d EXCEPT !.intern = put.slab, !.col[k] = col]
  IN  IF col.card > MaxDict THEN SetRaw(PromoteToRaw(new, k), k, i, v)
                            ELSE [new EXCEPT !.col[k] = SetDict(col, i, seq, id)]

SetString(d, k, i, seq, v) ==
  LET e    == EvictCell(d, k, i)
      c    == e.col[k]
      same == {id \in DOMAIN e.intern.slots : Get(e.intern, id) = v}
      hit  == Find(c.dict, Hash[v], same)
      more == [c EXCEPT !.dict = Retain(@, Once(@, hit))]
  IN  IF v = None THEN e
      ELSE IF c.kind = "raw" THEN SetRaw(e, k, i, v)
      ELSE IF hit = 0 THEN AddToDict(e, k, i, seq, v)
      ELSE [e EXCEPT !.col[k] = SetDict(more, i, seq, hit)]

---------------------------------------------------------------------------
(* A row *)

\* A string is its text; of any other value a column keeps the JSON text.
ColumnText(v) == IF v \in Literals THEN Bytes[v] ELSE v

AppendPair(d, k, i, v) ==
  LET key  == Put(d.intern, Hash[k], k)
      blob == Put(d.blobs, Hash[v], v)
      text == IF v = None THEN [id |-> 0, slab |-> key.slab] ELSE Put(key.slab, Hash[v], v)
  IN  IF v \in Large \union Literals
      THEN [d EXCEPT !.intern = key.slab, !.blobs = blob.slab,
                     !.pairs[i] = Append(@, [key |-> key.id, val |-> blob.id, blob |-> TRUE])]
      ELSE [d EXCEPT !.intern = text.slab,
                     !.pairs[i] = Append(@, [key |-> key.id, val |-> text.id, blob |-> FALSE])]

\* A key is counted as long as it has no column, the first PromoteMax of them.
Tally(d, k) ==
  IF d.count[k] > 0 \/ Cardinality({x \in Keys : d.count[x] > 0}) < PromoteMax
  THEN [d EXCEPT !.count[k] = @ + 1]
  ELSE d

Due(d, k) == /\ d.seen >= PromoteRows /\ d.count[k] >= PromoteCount
             /\ d.count[k] * 2 >= d.seen

IngestField(d, k, i, seq, v) ==
  LET t == Tally(d, k)
  IN  IF d.col[k].kind # "none" THEN SetString(d, k, i, seq, ColumnText(v))
      ELSE IF Due(t, k)
      THEN SetString([t EXCEPT !.col[k] = NewColumn("dict")], k, i, seq, ColumnText(v))
      ELSE AppendPair(t, k, i, v)

\* Pairs of slot i that refer to each text, by key or by value, and to each blob.
PairRefs(d, i) ==
  [id \in DOMAIN d.intern.slots |->
     Cardinality({n \in DOMAIN d.pairs[i] : d.pairs[i][n].key = id})
     + Cardinality({n \in DOMAIN d.pairs[i] : ~d.pairs[i][n].blob /\ d.pairs[i][n].val = id})]
BlobRefs(d, i) ==
  [id \in DOMAIN d.blobs.slots |->
     Cardinality({n \in DOMAIN d.pairs[i] : d.pairs[i][n].blob /\ d.pairs[i][n].val = id})
     + (IF d.ansi[i] = id THEN 1 ELSE 0)]

EvictRow(d, i) ==
  LET e == EvictCells(d, Keys, i)
  IN  [e EXCEPT !.intern = Release(e.intern, PairRefs(d, i)),
                !.blobs = Release(e.blobs, BlobRefs(d, i)),
                !.pairs[i] = << >>, !.text[i] = FALSE, !.ansi[i] = 0]

ExtractLevel(r) ==
  IF "level" \in DOMAIN r.fields /\ r.fields["level"] \in DOMAIN Classified
  THEN Classified[r.fields["level"]] ELSE r.alias

\* The slot emptied, then the fields; a Go map gives them in any order.
Ingested(d, r, order, i, seq) ==
  LET rows[n \in 0..Len(order)] ==
        IF n = 0 THEN EvictRow(d, i)
        ELSE IngestField(rows[n - 1], order[n], i, seq, r.fields[order[n]])
  IN  rows[Len(order)]

AppendJson(r, order) ==
  LET i     == head % Cap
      last  == Ingested(db, r, order, i, head)
      level == ExtractLevel(r)
      done  == IF level = None THEN last ELSE SetString(last, "level", i, head, level)
      field(k) == IF k \in DOMAIN r.fields THEN r.fields[k] ELSE None
  IN  /\ head < MaxRows
      /\ db' = [done EXCEPT !.seen = @ + 1]
      /\ kept' = Append(kept, [fields |-> [k \in Keys |->
                    IF k = "level" /\ level # None THEN level ELSE field(k)],
                  raw |-> ColumnText(field("level")), ansi |-> None])
      /\ head' = head + 1
      /\ UNCHANGED query

\* A slot becomes a text line, with or without an ANSI blob.
TextLine(d, i, ansi) ==
  LET blob == Put(d.blobs, Hash[ansi], ansi)
  IN  IF ansi = None THEN [d EXCEPT !.text[i] = TRUE]
      ELSE [d EXCEPT !.text[i] = TRUE, !.blobs = blob.slab, !.ansi[i] = blob.id]

AppendText(r) ==
  LET i == head % Cap
      t == TextLine(EvictRow(db, i), i, r.ansi)
      m == SetString(t, "msg", i, head, r.line)
  IN  /\ head < MaxRows
      /\ db' = IF r.level = None THEN m ELSE SetString(m, "level", i, head, r.level)
      /\ kept' = Append(kept, [fields |-> [k \in Keys |->
                    CASE k = "msg" -> r.line [] k = "level" -> r.level [] OTHER -> None],
                  raw |-> r.level, ansi |-> r.ansi])
      /\ head' = head + 1
      /\ UNCHANGED query

---------------------------------------------------------------------------
(* Reading *)

\* Materialize: columns first, as JSON strings, tail pairs over them, as what they are.
PairsOf(d, k, i) == {n \in DOMAIN d.pairs[i] : Get(d.intern, d.pairs[i][n].key) = k}
PairValue(d, pair) == IF pair.blob THEN Get(d.blobs, pair.val) ELSE Get(d.intern, pair.val)

Shown(d, k, i) ==
  IF PairsOf(d, k, i) = {} THEN IF d.col[k].kind = "none" THEN None ELSE GetString(d, k, i)
  ELSE PairValue(d, d.pairs[i][CHOOSE n \in PairsOf(d, k, i) : TRUE])

ShownAnsi(d, i) == IF d.text[i] THEN Get(d.blobs, d.ansi[i]) ELSE None

\* formatScalar: a value as filters compare it.
Scalar(v) == IF v \in Literals THEN Printed[v] ELSE v

\* What a filter compares: the column once the key has one, else the row shown.
FieldString(k, seq) ==
  IF seq \notin Live THEN None
  ELSE IF db.col[k].kind # "none" THEN GetString(db, k, seq % Cap)
  ELSE Scalar(Shown(db, k, seq % Cap))

NoQuery == [pc |-> "idle", key |-> "level", value |-> None, head |-> 0, tail |-> 0,
            indexed |-> FALSE, found |-> {}]

QueryHead(k, v) ==
  /\ query.pc = "idle"
  /\ query' = [NoQuery EXCEPT !.pc = "head", !.key = k, !.value = v, !.head = head]
  /\ UNCHANGED <<head, db, kept>>

QueryTail ==
  /\ query.pc = "head"
  /\ query' = IF query.head <= tail THEN [query EXCEPT !.pc = "done", !.tail = tail]
                                    ELSE [query EXCEPT !.pc = "tail", !.tail = tail]
  /\ UNCHANGED <<head, db, kept>>

\* planNode for an equality: the bitmap of the value if the column has an index,
\* nothing if the index does not know the value, else every row is compared.
QueryPlan ==
  LET c  == db.col[query.key]
      id == c.dict.byHash[Hash[query.value]]
  IN  /\ query.pc = "tail"
      /\ query' = [query EXCEPT !.pc = "plan", !.indexed = (c.kind = "dict"),
                     !.found = IF c.kind = "dict" /\ id # 0 THEN Bitmap(c, id) ELSE {}]
      /\ UNCHANGED <<head, db, kept>>

QueryScan ==
  LET lo   == IF query.tail < tail THEN tail ELSE query.tail
      span == lo..(query.head - 1)
  IN  /\ query.pc = "plan"
      /\ query' = [query EXCEPT !.pc = "done", !.found =
                     IF query.indexed THEN @ \intersect span
                     ELSE {seq \in span : FieldString(query.key, seq) = query.value}]
      /\ UNCHANGED <<head, db, kept>>

QueryEnd ==
  /\ query.pc = "done"
  /\ query' = NoQuery
  /\ UNCHANGED <<head, db, kept>>

---------------------------------------------------------------------------
Init ==
  /\ head = 0 /\ kept = << >> /\ query = NoQuery
  /\ db = [intern |-> NewSlab, blobs |-> NewSlab,
           col |-> [k \in Keys |-> NewColumn(IF k \in WellKnown THEN "dict" ELSE "none")],
           pairs |-> [i \in Idx |-> << >>], ansi |-> [i \in Idx |-> 0],
           text |-> [i \in Idx |-> FALSE], count |-> [k \in Keys |-> 0], seen |-> 0]

Query == \/ \E a \in Asked : QueryHead(a[1], a[2])
         \/ QueryTail \/ QueryPlan \/ QueryScan \/ QueryEnd

Next ==
  \/ \E r \in JsonRows : \E order \in SetToSeqs(DOMAIN r.fields) : AppendJson(r, order)
  \/ \E r \in TextRows : AppendText(r)
  \/ Query

Spec == Init /\ [][Next]_vars

---------------------------------------------------------------------------
(* What must hold *)

Slabs(Items) ==
  [slots : Seq([item : Items, refs : Nat]), free : Seq(Nat), byHash : [Hashes -> Nat]]

Columns ==
  [kind : {"none", "dict", "raw"}, ids : [Idx -> Nat], present : SUBSET Idx,
   dict : Slabs(Nat), index : SUBSET (Nat \X (0..(SeqWidth - 1))), card : 0..MaxDict]

\* The types of the variables; a dictionary never outgrows maxDict.
TypeOK ==
  /\ head \in Nat /\ kept \in Seq([fields : [Keys -> Fields],
                                   raw : Values \union {None}, ansi : Blobs \union {None}])
  /\ query \in [pc : {"idle", "head", "tail", "plan", "done"}, key : Keys,
                value : Values \union {None}, head : Nat, tail : Nat,
                indexed : BOOLEAN, found : SUBSET Nat]
  /\ db \in [intern : Slabs(Texts), blobs : Slabs(Texts), col : [Keys -> Columns],
             pairs : [Idx -> Seq([key : Nat, val : Nat, blob : BOOLEAN])],
             ansi : [Idx -> Nat], text : [Idx -> BOOLEAN], count : [Keys -> Nat], seen : Nat]

\* Who refers to an interned text: raw cells, dictionary entries, the keys and the
\* small values of tail pairs.
CellUses(d, id) == {p \in Keys \X Idx : /\ d.col[p[1]].kind = "raw" /\ p[2] \in d.col[p[1]].present
                                        /\ d.col[p[1]].ids[p[2]] = id}
Entries(d) == UNION {{k} \X DictIds(d.col[k]) : k \in Keys}
DictUses(d, id) == {p \in Entries(d) : d.col[p[1]].dict.slots[p[2]].item = id}
Pairs(d) == UNION {{i} \X DOMAIN d.pairs[i] : i \in Idx}
KeyUses(d, id) == {p \in Pairs(d) : d.pairs[p[1]][p[2]].key = id}
ValueUses(d, id) == {p \in Pairs(d) : ~d.pairs[p[1]][p[2]].blob /\ d.pairs[p[1]][p[2]].val = id}

\* And to a blob.
BlobUses(d, id) == {p \in Pairs(d) : d.pairs[p[1]][p[2]].blob /\ d.pairs[p[1]][p[2]].val = id}
AnsiUses(d, id) == {i \in Idx : d.ansi[i] = id}

\* Every reference count is the number of references there are: nothing leaks
\* when the ring wraps or a column is promoted, nothing is freed while in use.
RefsExact ==
  /\ \A id \in DOMAIN db.intern.slots :
       Refs(db.intern, id) = Cardinality(CellUses(db, id)) + Cardinality(DictUses(db, id))
                             + Cardinality(KeyUses(db, id)) + Cardinality(ValueUses(db, id))
  /\ \A id \in DOMAIN db.blobs.slots :
       Refs(db.blobs, id) = Cardinality(BlobUses(db, id)) + Cardinality(AnsiUses(db, id))
  /\ \A k \in Keys :
       /\ db.col[k].card = Cardinality(DictIds(db.col[k]))
       /\ \A id \in DOMAIN db.col[k].dict.slots :
            Refs(db.col[k].dict, id) =
              Cardinality({i \in db.col[k].present : db.col[k].ids[i] = id})

\* How a field that was appended as v reads: from a tail pair as it came, from a
\* column as the string of its text.
Reading(d, k, i, v) == IF PairsOf(d, k, i) = {} THEN ColumnText(v) ELSE v

\* Materialize gives back each row, whatever was evicted, promoted or recycled since:
\* the text of every field as it came, and its JSON value too unless a column has it.
ReadBack ==
  \A seq \in Live :
    /\ \A k \in Keys :
         Shown(db, k, seq % Cap) = Reading(db, k, seq % Cap, kept[seq + 1].fields[k])
    /\ ShownAnsi(db, seq % Cap) = kept[seq + 1].ansi

Unshared(v) == \A w \in Texts : Hash[w] = Hash[v] => w = v

\* A field compares as the text of a column or as formatScalar has it; a level also as
\* it came.
Had(row, k, v) == \/ v \in {ColumnText(row.fields[k]), Scalar(row.fields[k])}
                  \/ k = "level" /\ row.raw = v

\* A finished query has found no live row that never had the value; on a well-known
\* column it has found every row below the head it read that has the value and is
\* still there.
QueryExact ==
  query.pc = "done" /\ Unshared(query.value) =>
    /\ \A seq \in query.found \intersect Live : Had(kept[seq + 1], query.key, query.value)
    /\ query.key \in WellKnown =>
         \A seq \in Live :
           seq < query.head /\ ColumnText(kept[seq + 1].fields[query.key]) = query.value =>
             seq \in query.found

\* BitmapForValue: "the bitmap of seqs whose value equals s".
IndexExact ==
  \A k \in Keys : \A v \in {w \in Values : Unshared(w) /\ db.col[k].kind = "dict"} :
    LET id == db.col[k].dict.byHash[Hash[v]]
    IN  id # 0 => \A seq \in Bitmap(db.col[k], id) \intersect Live : GetString(db, k, seq % Cap) = v

\* materializeField: "the string value of `path` for the ctx's seq, crossing into
\* tail-KV / nested JSON as needed".
FilterSeesWhatIsShown ==
  \A seq \in Live : \A k \in Keys : FieldString(k, seq) = Scalar(Shown(db, k, seq % Cap))

\* README: "@msg_batch_conf.ConsumerQos:>=50  # nested JSON path (@ prefix)".  A path
\* leads into the object a live row has under a key, wherever the row keeps it.
NestedPathsReach ==
  \A seq \in Live : \A k \in Extra :
    LET came == kept[seq + 1].fields[k]
    IN  came \in Literals => Shown(db, k, seq % Cap) = came
=============================================================================
