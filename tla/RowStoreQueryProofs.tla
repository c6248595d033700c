------------------------- MODULE RowStoreQueryProofs -------------------------
(***************************************************************************)
(* Proofs about the history queries of RowStore: a query whose four steps  *)
(* alternate with appends, evictions and promotions finds the rows that it *)
(* should.                                                                 *)
(*                                                                         *)
(* The index of a column needs an invariant of its own, IndexIs, kept from *)
(* operation to operation in the same order: an id in it stands for a text *)
(* that the row had, every cell that is present is in it, and the table of *)
(* hashes leads to the entry of each text that shares its hash with none.  *)
(* QueryInv is what each step of a query may rely on.                      *)
(***************************************************************************)
EXTENDS RowStoreProofs

\* One reference more in the dictionary leaves the entries as they are.
LEMMA RetainedColumn ==
  ASSUME NEW c, ColShape(c), c.kind = "dict", NEW id, id \in DictIds(c)
  PROVE  LET m == [c EXCEPT !.dict = Retain(c.dict, Once(c.dict, id))]
         IN  /\ ColShape(m) /\ m.kind = "dict" /\ m.ids = c.ids /\ m.present = c.present
             /\ m.index = c.index /\ m.dict.byHash = c.dict.byHash /\ DictIds(m) = DictIds(c)
             /\ \A y \in DictIds(c) : m.dict.slots[y].item = c.dict.slots[y].item
<1> DEFINE n == Once(c.dict, id)
           r == Retain(c.dict, n)
           m == [c EXCEPT !.dict = r]
<1>1. /\ c \in AnyColumn /\ SlabOK(c.dict, Nat \ {0}) /\ c.card = Cardinality(DictIds(c))
      /\ \A j \in c.present : c.ids[j] \in DictIds(c)
      /\ c.index \subseteq Nat \X (0..(SeqWidth - 1)) /\ c.card \in Nat
      /\ \A x : Refs(c.dict, x) \in Nat /\ (Refs(c.dict, x) > 0 <=> x \in DictIds(c))
      /\ DictIds(c) \subseteq DOMAIN c.dict.slots
  BY ShapeType
<1>2. n \in [DOMAIN c.dict.slots -> Nat] /\ \A x \in DOMAIN c.dict.slots : n[x] = IF x = id THEN 1 ELSE 0
  BY <1>1, OnceType
<1>3. \A x \in DOMAIN c.dict.slots : n[x] > 0 => Refs(c.dict, x) > 0
  BY <1>1, <1>2
<1> HIDE DEF n
<1>4. /\ SlabOK(r, Nat \ {0}) /\ DOMAIN r.slots = DOMAIN c.dict.slots /\ r.byHash = c.dict.byHash
      /\ \A x \in DOMAIN c.dict.slots : r.slots[x].item = c.dict.slots[x].item
      /\ \A x \in DOMAIN c.dict.slots : Refs(r, x) = Refs(c.dict, x) + n[x]
      /\ \A x : Refs(c.dict, x) = 0 => Refs(r, x) = 0
  <2> DEFINE s == c.dict
             Items == Nat \ {0}
  <2>1. /\ SlabOK(s, Items) /\ n \in [DOMAIN s.slots -> Nat] /\ r = Retain(s, n)
        /\ \A x \in DOMAIN s.slots : n[x] > 0 => Refs(s, x) > 0
    BY <1>1, <1>2, <1>3
  <2> HIDE DEF s, r, Items
  <2>2. /\ SlabOK(r, Items) /\ DOMAIN r.slots = DOMAIN s.slots /\ r.byHash = s.byHash
        /\ \A x \in DOMAIN s.slots : r.slots[x].item = s.slots[x].item
        /\ \A x \in DOMAIN s.slots : Refs(r, x) = Refs(s, x) + n[x]
        /\ \A x : Refs(s, x) = 0 => Refs(r, x) = 0
    BY <2>1, RetainSlab
  <2> QED BY <2>2 DEF s, Items
<1> HIDE DEF r
<1>5. r \in Slabs(Nat)
  BY <1>4, SlabsNat DEF SlabOK
<1>6. m = WithDict(c, r, c.index, c.card)
  BY <1>1 DEF WithDict, AnyColumn
<1> HIDE DEF m
<1>7. /\ m.kind = c.kind /\ m.ids = c.ids /\ m.present = c.present
      /\ m.dict = r /\ m.index = c.index /\ m.card = c.card /\ m \in AnyColumn
  BY <1>1, <1>5, <1>6, ColumnRest
<1>8. DictIds(m) = DictIds(c)
  <2>1. \A x : x \in DictIds(m) <=> Refs(r, x) > 0
    BY <1>7, ColumnType
  <2>2. \A x : x \in DictIds(m) <=> x \in DictIds(c)
    <3> SUFFICES ASSUME NEW x PROVE x \in DictIds(m) <=> x \in DictIds(c)
      OBVIOUS
    <3>1. Refs(c.dict, x) \in Nat /\ (Refs(c.dict, x) > 0 <=> x \in DictIds(c))
      BY <1>1
    <3>2. CASE x \in DOMAIN c.dict.slots
      BY <3>1, <3>2, <2>1, <1>2, <1>4, <1>1
    <3>3. CASE x \notin DOMAIN c.dict.slots
      BY <3>1, <3>3, <2>1, <1>1, <1>4
    <3> QED BY <3>2, <3>3
  <2> QED BY <2>2
<1>9. ColShape(m)
  BY <1>1, <1>4, <1>7, <1>8 DEF ColShape
<1> QED BY <1>1, <1>4, <1>7, <1>8, <1>9 DEF m, r, n

\* A new entry of the dictionary is found by its hash if nothing was.
LEMMA GrownColumn ==
  ASSUME NEW c, ColShape(c), c.kind = "dict", NEW h \in Hashes, NEW item \in Nat \ {0}
  PROVE  LET m == Grown(c, h, item)  id == NextId(c.dict)
         IN  /\ ColShape(m) /\ m.kind = "dict" /\ m.ids = c.ids /\ m.present = c.present
             /\ m.index = c.index /\ DictIds(m) = DictIds(c) \union {id} /\ id \notin DictIds(c)
             /\ m.dict.slots[id].item = item
             /\ \A y \in DictIds(c) : m.dict.slots[y].item = c.dict.slots[y].item
             /\ \A x \in Hashes : m.dict.byHash[x] = IF x = h /\ c.dict.byHash[h] = 0 THEN id
                                                     ELSE c.dict.byHash[x]
<1> DEFINE id == NextId(c.dict)
           add == Add(c.dict, h, item)
           m == Grown(c, h, item)
<1>1. /\ c \in AnyColumn /\ SlabOK(c.dict, Nat \ {0}) /\ c.card = Cardinality(DictIds(c))
      /\ \A j \in c.present : c.ids[j] \in DictIds(c)
      /\ c.index \subseteq Nat \X (0..(SeqWidth - 1)) /\ c.card \in Nat
      /\ \A x : Refs(c.dict, x) \in Nat /\ (Refs(c.dict, x) > 0 <=> x \in DictIds(c))
      /\ DictIds(c) \subseteq DOMAIN c.dict.slots
      /\ IsFiniteSet(DictIds(c)) /\ Cardinality(DictIds(c)) \in Nat
  BY ShapeType
<1>2. \A x \in Hashes : add.byHash[x] = IF x = h /\ c.dict.byHash[h] = 0 THEN id ELSE c.dict.byHash[x]
  BY DEF Add
<1>3. /\ SlabOK(add, Nat \ {0}) /\ id \in Nat \ {0} /\ Refs(c.dict, id) = 0
      /\ DOMAIN add.slots = DOMAIN c.dict.slots \union {id}
      /\ add.slots[id].item = item
      /\ \A x : Refs(add, x) = IF x = id THEN 1 ELSE Refs(c.dict, x)
      /\ \A x \in DOMAIN c.dict.slots : x # id => add.slots[x] = c.dict.slots[x]
  BY <1>1, AddSlab
<1>4. m = WithDict(c, add, c.index, c.card + 1)
  BY <1>1 DEF WithDict, AnyColumn, Grown
<1> HIDE DEF add, id, m
<1>5. add \in Slabs(Nat)
  BY <1>3, SlabsNat DEF SlabOK
<1>6. /\ m.kind = "dict" /\ m.ids = c.ids /\ m.present = c.present
      /\ m.dict = add /\ m.index = c.index /\ m.card = c.card + 1 /\ m \in AnyColumn
  BY <1>1, <1>4, <1>5, ColumnRest
<1>7. DictIds(m) = DictIds(c) \union {id} /\ id \notin DictIds(c)
  <2>1. \A x : x \in DictIds(m) <=> Refs(add, x) > 0
    BY <1>6, ColumnType
  <2> QED BY <2>1, <1>1, <1>3
<1>8. ColShape(m)
  <2>1. m.card = Cardinality(DictIds(m))
    BY <1>1, <1>6, <1>7, CardPlus
  <2> QED BY <2>1, <1>1, <1>3, <1>6, <1>7 DEF ColShape
<1>9. \A y \in DictIds(c) : m.dict.slots[y].item = c.dict.slots[y].item
  BY <1>1, <1>3, <1>6, <1>7
<1> QED BY <1>2, <1>3, <1>6, <1>7, <1>8, <1>9 DEF m, id

\* A cell given a value that the dictionary holds.
LEMMA SetIndex ==
  ASSUME NEW c, ColShape(c), c.kind = "dict", NEW i \in Idx, i \notin c.present, NEW seq \in Nat,
         NEW id, id \in DictIds(c), NEW text, NEW told, NEW at,
         \A h \in Hashes : c.dict.byHash[h] # 0 =>
           c.dict.byHash[h] \in DictIds(c) /\ Hash[text[c.dict.byHash[h]]] = h,
         \A y \in DictIds(c) : Unshared(text[y]) => c.dict.byHash[Hash[text[y]]] = y,
         \A p \in c.index : p[1] \in DictIds(c) /\ <<p[2], text[p[1]]>> \in told,
         \A j \in c.present : <<c.ids[j], at[j]>> \in c.index,
         at[i] = seq % SeqWidth, <<at[i], text[id]>> \in told
  PROVE  IndexIs(SetDict(c, i, seq, id), text, told, at)
<1> DEFINE t == SetDict(c, i, seq, id)
<1>1. /\ t.dict = c.dict
      /\ t.present = c.present \union {i} /\ t.ids[i] = id
      /\ \A j \in Idx \ {i} : t.ids[j] = c.ids[j]
      /\ t.index = c.index \union {<<id, at[i]>>}
  BY SetDictColumn
<1>2. c.present \subseteq Idx
  BY ShapeType
<1> HIDE DEF t
<1>3. DictIds(t) = DictIds(c)
  BY <1>1 DEF DictIds
<1>4. \A j \in t.present : <<t.ids[j], at[j]>> \in t.index
  BY <1>1, <1>2
<1>5. \A p \in t.index : p[1] \in DictIds(t) /\ <<p[2], text[p[1]]>> \in told
  BY <1>1, <1>3
<1>6. IndexIs(t, text, told, at)
  BY <1>1, <1>3, <1>4, <1>5 DEF IndexIs
<1> QED BY <1>6 DEF t

\* The same, counted in the dictionary.
LEMMA HitIndex ==
  ASSUME NEW c, ColShape(c), c.kind = "dict", NEW i \in Idx, i \notin c.present, NEW seq \in Nat,
         NEW id, id \in DictIds(c), NEW text, NEW new, NEW told, NEW at, IndexIs(c, text, told, at),
         \A y \in DictIds(c) : new[y] = text[y],
         at[i] = seq % SeqWidth, <<at[i], text[id]>> \in told
  PROVE  IndexIs(HitColumn(c, i, seq, id), new, told, at)
<1> DEFINE m == [c EXCEPT !.dict = Retain(c.dict, Once(c.dict, id))]
<1>1. /\ ColShape(m) /\ m.kind = "dict" /\ m.ids = c.ids /\ m.present = c.present
      /\ m.index = c.index /\ m.dict.byHash = c.dict.byHash /\ DictIds(m) = DictIds(c)
  BY RetainedColumn
<1>2. HitColumn(c, i, seq, id) = SetDict(m, i, seq, id)
  BY DEF HitColumn
<1> HIDE DEF m
<1>3. /\ \A h \in Hashes : m.dict.byHash[h] # 0 =>
           m.dict.byHash[h] \in DictIds(m) /\ Hash[new[m.dict.byHash[h]]] = h
      /\ \A y \in DictIds(m) : Unshared(new[y]) => m.dict.byHash[Hash[new[y]]] = y
      /\ \A p \in m.index : p[1] \in DictIds(m) /\ <<p[2], new[p[1]]>> \in told
      /\ \A j \in m.present : <<m.ids[j], at[j]>> \in m.index
      /\ <<at[i], new[id]>> \in told
  <2>1. \A h \in Hashes : m.dict.byHash[h] # 0 =>
          m.dict.byHash[h] \in DictIds(m) /\ Hash[new[m.dict.byHash[h]]] = h
    BY <1>1 DEF IndexIs
  <2>2. \A y \in DictIds(m) : Unshared(new[y]) => m.dict.byHash[Hash[new[y]]] = y
    <3> SUFFICES ASSUME NEW y \in DictIds(m), Unshared(new[y]) PROVE m.dict.byHash[Hash[new[y]]] = y
      OBVIOUS
    <3>1. y \in DictIds(c) /\ new[y] = text[y]
      BY <1>1
    <3>2. c.dict.byHash[Hash[text[y]]] = y
      BY <3>1 DEF IndexIs
    <3> QED BY <3>1, <3>2, <1>1
  <2>3. \A p \in m.index : p[1] \in DictIds(m) /\ <<p[2], new[p[1]]>> \in told
    BY <1>1 DEF IndexIs
  <2>4. \A j \in m.present : <<m.ids[j], at[j]>> \in m.index
    BY <1>1 DEF IndexIs
  <2> QED BY <2>1, <2>2, <2>3, <2>4
<1>4. IndexIs(SetDict(m, i, seq, id), new, told, at)
  BY <1>1, <1>3, SetIndex
<1> QED BY <1>2, <1>4

\* A cell given a value that the dictionary does not hold.
LEMMA AddIndex ==
  ASSUME NEW c, ColShape(c), c.kind = "dict", NEW i \in Idx, i \notin c.present, NEW seq \in Nat,
         NEW v \in Texts, NEW item \in Nat \ {0},
         NEW text, NEW new, NEW told, NEW at, IndexIs(c, text, told, at),
         \A y \in DictIds(c) : text[y] \in Texts /\ new[y] = text[y],
         new[NextId(c.dict)] = v,
         c.dict.byHash[Hash[v]] # 0 => text[c.dict.byHash[Hash[v]]] # v,
         at[i] = seq % SeqWidth, <<at[i], v>> \in told
  PROVE  IndexIs(SetDict(Grown(c, Hash[v], item), i, seq, NextId(c.dict)), new, told, at)
<1> DEFINE h == Hash[v]
           id == NextId(c.dict)
           m == Grown(c, h, item)
<1>1. h \in Hashes /\ \A y \in DictIds(c) : Hash[text[y]] \in Hashes
  BY StoreAssumption
<1> HIDE DEF h
<1>2. /\ ColShape(m) /\ m.kind = "dict" /\ m.ids = c.ids /\ m.present = c.present
      /\ m.index = c.index /\ DictIds(m) = DictIds(c) \union {id} /\ id \notin DictIds(c)
      /\ \A x \in Hashes : m.dict.byHash[x] = IF x = h /\ c.dict.byHash[h] = 0 THEN id
                                              ELSE c.dict.byHash[x]
  BY <1>1, GrownColumn
<1>3. DictIds(c) \subseteq Nat \ {0}
  BY ShapeType
<1>4. new[id] = v /\ <<at[i], new[id]>> \in told
  OBVIOUS
<1> HIDE DEF m, id
<1>5. \A x \in Hashes : m.dict.byHash[x] # 0 =>
        m.dict.byHash[x] \in DictIds(m) /\ Hash[new[m.dict.byHash[x]]] = x
  <2> SUFFICES ASSUME NEW x \in Hashes, m.dict.byHash[x] # 0
               PROVE  m.dict.byHash[x] \in DictIds(m) /\ Hash[new[m.dict.byHash[x]]] = x
    OBVIOUS
  <2>1. CASE x = h /\ c.dict.byHash[h] = 0
    BY <2>1, <1>2, <1>4 DEF h
  <2>2. CASE ~(x = h /\ c.dict.byHash[h] = 0)
    <3>1. m.dict.byHash[x] = c.dict.byHash[x]
      BY <2>2, <1>2
    <3>2. c.dict.byHash[x] \in DictIds(c) /\ Hash[text[c.dict.byHash[x]]] = x
      BY <3>1 DEF IndexIs
    <3> QED BY <3>1, <3>2, <1>2
  <2> QED BY <2>1, <2>2
<1>6. \A y \in DictIds(m) : Unshared(new[y]) => m.dict.byHash[Hash[new[y]]] = y
  <2> SUFFICES ASSUME NEW y \in DictIds(m), Unshared(new[y])
               PROVE  m.dict.byHash[Hash[new[y]]] = y
    OBVIOUS
  <2>1. CASE y \in DictIds(c)
    <3>1. c.dict.byHash[Hash[text[y]]] = y /\ y # 0
      BY <2>1, <1>3 DEF IndexIs
    <3>2. new[y] = text[y] /\ Hash[text[y]] \in Hashes
      BY <2>1, <1>1
    <3> QED BY <3>1, <3>2, <1>2
  <2>2. CASE y = id
    <3>1. c.dict.byHash[h] = 0
      <4> SUFFICES ASSUME c.dict.byHash[h] # 0 PROVE FALSE
        OBVIOUS
      <4>1. c.dict.byHash[h] \in DictIds(c) /\ Hash[text[c.dict.byHash[h]]] = Hash[v]
        BY <1>1 DEF IndexIs, h
      <4>2. text[c.dict.byHash[h]] = v
        BY <4>1, <1>4, <2>2 DEF Unshared
      <4> QED BY <4>2 DEF h
    <3> QED BY <3>1, <2>2, <1>1, <1>2, <1>4 DEF h
  <2> QED BY <2>1, <2>2, <1>2
<1>7. /\ \A p \in m.index : p[1] \in DictIds(m) /\ <<p[2], new[p[1]]>> \in told
      /\ \A j \in m.present : <<m.ids[j], at[j]>> \in m.index
  <2>1. \A p \in m.index : p[1] \in DictIds(c) /\ <<p[2], text[p[1]]>> \in told
    BY <1>2 DEF IndexIs
  <2>2. \A j \in m.present : <<m.ids[j], at[j]>> \in m.index
    BY <1>2 DEF IndexIs
  <2> QED BY <2>1, <2>2, <1>2
<1>8. id \in DictIds(m) /\ i \notin m.present
  BY <1>2
<1>9. IndexIs(SetDict(m, i, seq, id), new, told, at)
  BY <1>2, <1>4, <1>5, <1>6, <1>7, <1>8, SetIndex
<1> QED BY <1>9 DEF m, id, h

\* What is left of a dictionary is as it was.
LEMMA VacatedItems ==
  ASSUME NEW c, ColOK(c), c.kind = "dict", NEW i \in Idx, NEW y, y \in DictIds(Vacated(c, i))
  PROVE  y \in DictIds(c) /\ Vacated(c, i).dict.slots[y].item = c.dict.slots[y].item
<1> DEFINE t == Vacated(c, i)
           x == c.ids[i]
           n == Once(c.dict, x)
           r == Release(c.dict, n)
<1>1. /\ c \in AnyColumn /\ SlabOK(c.dict, Nat \ {0})
      /\ \A z : Refs(c.dict, z) \in Nat /\ (Refs(c.dict, z) > 0 <=> z \in DictIds(c))
      /\ DictIds(c) \subseteq DOMAIN c.dict.slots
  BY ShapeType DEF ColOK
<1>2. CASE i \notin c.present
  BY <1>2 DEF Vacated
<1>3. CASE i \in c.present
  <2>1. t.dict = r
    BY <1>1, <1>3 DEF Vacated, AnyColumn
  <2>2. n \in [DOMAIN c.dict.slots -> Nat]
    BY <1>1, OnceType
  <2> HIDE DEF n
  <2>3. /\ \A z \in DOMAIN c.dict.slots : r.slots[z].item = c.dict.slots[z].item
        /\ \A z : Refs(c.dict, z) = 0 => Refs(r, z) = 0
    BY <1>1, <2>2, ReleaseSlab
  <2>4. t \in AnyColumn /\ y \in DictIds(t)
    BY VacateColumn DEF ColOK, ColShape
  <2> HIDE DEF r, t
  <2>5. Refs(r, y) > 0
    BY <2>1, <2>4, ColumnType
  <2>6. Refs(c.dict, y) > 0
    BY <2>3, <2>5, <1>1
  <2>7. y \in DictIds(c) /\ t.dict.slots[y].item = c.dict.slots[y].item
    BY <2>1, <2>3, <2>6, <1>1
  <2> QED BY <2>7 DEF t
<1> QED BY <1>2, <1>3

\* The texts of the entries of a dictionary.
EntryTexts(d, k) == [y \in DictIds(d.col[k]) |-> EntryText(d, k, y)]

\* They are texts.
LEMMA EntryType ==
  ASSUME NEW d, DbShape(d), NEW k \in Keys, NEW y, y \in DictIds(d.col[k])
  PROVE  EntryTexts(d, k)[y] = EntryText(d, k, y) /\ EntryText(d, k, y) \in Texts
<1> DEFINE s == d.intern
           id == d.col[k].dict.slots[y].item
<1>1. s \in Slabs(Texts)
  BY DEF DbShape, SlabOK
<1>2. Refs(s, id) > 0
  BY EntryLive
<1>3. EntryText(d, k, y) \in Texts
  <2>1. EntryText(d, k, y) = Get(s, id)
    BY DEF EntryText
  <2> HIDE DEF s, id
  <2>2. s.slots[id].item \in Texts
    BY <1>1, <1>2, SlabRefs
  <2> QED BY <1>2, <2>1, <2>2 DEF Get
<1> QED BY <1>3 DEF EntryTexts

\* No key is both in a tail pair and in a cell of a row, a well-known one in no pair.
Apart(d) ==
  \A k \in Keys : \A j \in Idx : PairsOf(d, k, j) # {} => k \notin WellKnown /\ TextOf(d.col[k], j) = 0

\* Every index knows the rows of its column; told are the texts each row had under a key.
Indexed(d, told, at) ==
  /\ Apart(d)
  /\ \A k \in Keys : d.col[k].kind = "dict" => IndexIs(d.col[k], EntryTexts(d, k), told[k], at)

\* A cell that is written concerns its own column only.
LEMMA OthersIndexed ==
  ASSUME NEW d, DbShape(d), NEW e, NEW k \in Keys, NEW i \in Idx, CellStep(d, e, k, i), NEW told, NEW at,
         Indexed(d, told, at), PairsOf(d, k, i) = {},
         e.col[k].kind = "dict" => IndexIs(e.col[k], EntryTexts(e, k), told[k], at)
  PROVE  Indexed(e, told, at)
<1>1. Apart(e)
  <2> SUFFICES ASSUME NEW x \in Keys, NEW j \in Idx, PairsOf(e, x, j) # {}
               PROVE  x \notin WellKnown /\ TextOf(e.col[x], j) = 0
    BY DEF Apart
  <2>1. PairsOf(d, x, j) # {}
    BY DEF CellStep
  <2>2. x # k \/ j # i
    BY <2>1
  <2>3. TextOf(e.col[x], j) = TextOf(d.col[x], j)
    BY <2>2 DEF CellStep
  <2> QED BY <2>1, <2>3 DEF Indexed, Apart
<1>2. ASSUME NEW x \in Keys, e.col[x].kind = "dict"
      PROVE  IndexIs(e.col[x], EntryTexts(e, x), told[x], at)
  <2>1. CASE x = k
    BY <2>1, <1>2
  <2>2. CASE x # k
    <3>1. /\ e.col[x] = d.col[x] /\ \A y \in DictIds(d.col[x]) : EntryText(e, x, y) = EntryText(d, x, y)
      BY <2>2 DEF CellStep
    <3>2. EntryTexts(e, x) = EntryTexts(d, x)
      BY <3>1 DEF EntryTexts
    <3>3. IndexIs(d.col[x], EntryTexts(d, x), told[x], at)
      BY <3>1, <1>2 DEF Indexed
    <3> QED BY <3>1, <3>2, <3>3
  <2> QED BY <2>1, <2>2
<1> QED BY <1>1, <1>2 DEF Indexed

\* A cell emptied.
LEMMA EvictCellIndexed ==
  ASSUME NEW d, DbOK(d), NEW k \in Keys, NEW i \in Idx, NEW told, NEW at, Indexed(d, told, at),
         PairsOf(d, k, i) = {}
  PROVE  Indexed(EvictCell(d, k, i), told, at)
<1> DEFINE e == EvictCell(d, k, i)
<1>1. CellStep(d, e, k, i) /\ DbOK(e) /\ e.col[k].kind = d.col[k].kind
  BY EvictCellOK
<1>2. CASE i \notin d.col[k].present
  BY <1>2 DEF EvictCell
<1>3. CASE i \in d.col[k].present
  <2>1. e = EvictCells(d, {k}, i) /\ {k} \subseteq Keys
    BY <1>3 DEF EvictCell
  <2>2. Evicted(d, e, {k}, i)
    BY <2>1, EvictCellsOK
  <2> HIDE DEF e
  <2>3. Same(d.intern, e.intern) /\ e.col[k] = Vacated(d.col[k], i)
    BY <2>2 DEF Evicted
  <2>4. DbShape(d) /\ DbShape(e) /\ ColOK(d.col[k])
    BY <1>1 DEF DbOK
  <2>5. ASSUME e.col[k].kind = "dict"
        PROVE  IndexIs(e.col[k], EntryTexts(e, k), told[k], at)
    <3>1. d.col[k].kind = "dict"
      BY <2>5, <1>1
    <3>2. \A y \in DictIds(d.col[k]) : EntryTexts(d, k)[y] \in Texts
      BY <2>4, EntryType
    <3>3. \A y \in DictIds(d.col[k]) : y \in DictIds(e.col[k]) => EntryTexts(e, k)[y] = EntryTexts(d, k)[y]
      <4> SUFFICES ASSUME NEW y, y \in DictIds(d.col[k]), y \in DictIds(e.col[k])
                   PROVE  EntryTexts(e, k)[y] = EntryTexts(d, k)[y]
        OBVIOUS
      <4>1. e.col[k].dict.slots[y].item = d.col[k].dict.slots[y].item
        BY <2>3, <2>4, <3>1, VacatedItems
      <4>2. EntryText(e, k, y) = EntryText(d, k, y)
        BY <4>1, <2>3, <2>4, EntrySame
      <4> QED BY <4>2, <2>4, EntryType
    <3>4. IndexIs(d.col[k], EntryTexts(d, k), told[k], at)
      BY <3>1 DEF Indexed
    <3> DEFINE new == EntryTexts(e, k)
               text == EntryTexts(d, k)
               c == d.col[k]
    <3>5. /\ \A y \in DictIds(c) : text[y] \in Texts
          /\ \A y \in DictIds(c) : y \in DictIds(Vacated(c, i)) => new[y] = text[y]
          /\ IndexIs(c, text, told[k], at) /\ ColOK(c) /\ c.kind = "dict"
      BY <2>3, <2>4, <3>1, <3>2, <3>3, <3>4
    <3> HIDE DEF new, text, c
    <3>6. IndexIs(Vacated(c, i), new, told[k], at)
      BY <3>5, VacatedIndex
    <3> QED BY <3>6, <2>3 DEF new, c
  <2>6. Indexed(e, told, at)
    BY <1>1, <2>4, <2>5, OthersIndexed
  <2> QED BY <2>6 DEF e
<1> QED BY <1>2, <1>3

\* The value is one that the dictionary holds.
LEMMA HitIndexed ==
  ASSUME NEW d, DbOK(d), NEW k \in Keys, d.col[k].kind = "dict", NEW i \in Idx, i \notin d.col[k].present,
         NEW seq \in Nat, NEW v \in Texts, NEW id,
         id \in DictIds(d.col[k]), Get(d.intern, d.col[k].dict.slots[id].item) = v,
         NEW told, NEW at, Indexed(d, told, at), PairsOf(d, k, i) = {},
         at[i] = seq % SeqWidth, <<at[i], v>> \in told[k]
  PROVE  Indexed(WithCols(d, d.intern, [d.col EXCEPT ![k] = HitColumn(d.col[k], i, seq, id)]), told, at)
<1> DEFINE c == d.col[k]
           t == HitColumn(c, i, seq, id)
           e == WithCols(d, d.intern, [d.col EXCEPT ![k] = t])
           text == EntryTexts(d, k)
           new == EntryTexts(e, k)
<1>1. DbShape(d) /\ ColShape(c) /\ d.col \in [Keys -> AnyColumn] /\ d \in Dbs
  BY DbType DEF DbOK, DbShape
<1>2. CellStep(d, e, k, i)
  BY HitOK
<1>3. e.col[k] = t /\ e.intern = d.intern
  <2> HIDE DEF t
  <2> QED BY <1>1 DEF WithCols, Dbs
<1> HIDE DEF e
<1>4. DbShape(e)
  BY <1>2 DEF CellStep
<1>5. DictIds(t) = DictIds(c) /\ \A y \in DictIds(c) : t.dict.slots[y].item = c.dict.slots[y].item
  <2> DEFINE m == [c EXCEPT !.dict = Retain(c.dict, Once(c.dict, id))]
  <2>1. /\ ColShape(m) /\ m.kind = "dict" /\ m.present = c.present /\ DictIds(m) = DictIds(c)
        /\ \A y \in DictIds(c) : m.dict.slots[y].item = c.dict.slots[y].item
    <3>1. ColShape(c) /\ c.kind = "dict" /\ id \in DictIds(c)
      BY <1>1
    <3> HIDE DEF c
    <3> QED BY <3>1, RetainedColumn
  <2>2. t = SetDict(m, i, seq, id)
    BY DEF HitColumn
  <2> HIDE DEF m, t
  <2>3. t.dict = m.dict
    BY <2>1, <2>2, SetDictColumn
  <2> QED BY <2>1, <2>3 DEF DictIds
<1> HIDE DEF t
<1>6. \A y \in DictIds(c) : new[y] = text[y]
  <2> SUFFICES ASSUME NEW y, y \in DictIds(c) PROVE new[y] = text[y]
    OBVIOUS
  <2>1. e.col[k].dict.slots[y].item = d.col[k].dict.slots[y].item /\ y \in DictIds(e.col[k])
    BY <1>3, <1>5
  <2>2. Same(d.intern, e.intern)
    BY <1>3, SameSelf
  <2>3. EntryText(e, k, y) = EntryText(d, k, y)
    <3>1. /\ DbShape(d) /\ DbShape(e) /\ y \in DictIds(d.col[k]) /\ y \in DictIds(e.col[k])
          /\ e.col[k].dict.slots[y].item = d.col[k].dict.slots[y].item
      BY <1>1, <1>4, <2>1
    <3> HIDE DEF c, text, new
    <3> QED BY <3>1, <2>2, EntrySame
  <2> QED BY <1>1, <1>4, <2>1, <2>3, EntryType
<1>7. text[id] = v
  BY <1>1, EntryType DEF EntryText
<1>8. IndexIs(c, text, told[k], at)
  BY DEF Indexed
<1> HIDE DEF text, new, c
<1>9. IndexIs(HitColumn(c, i, seq, id), new, told[k], at)
  <2>1. ColShape(c) /\ c.kind = "dict" /\ i \notin c.present /\ id \in DictIds(c)
    BY <1>1 DEF c
  <2> QED BY <2>1, <1>6, <1>7, <1>8, HitIndex
<1>10. IndexIs(e.col[k], EntryTexts(e, k), told[k], at)
  BY <1>3, <1>9 DEF t, new
<1>11. Indexed(e, told, at)
  BY <1>1, <1>2, <1>10, OthersIndexed
<1> QED BY <1>11 DEF e, t, c

\* The value is one that the dictionary does not hold.
LEMMA AddIndexed ==
  ASSUME NEW d, DbOK(d), NEW k \in Keys, d.col[k].kind = "dict", NEW i \in Idx, i \notin d.col[k].present,
         NEW seq \in Nat, NEW v \in Texts,
         NEW told, NEW at, Indexed(d, told, at), PairsOf(d, k, i) = {},
         d.col[k].dict.byHash[Hash[v]] # 0 => EntryText(d, k, d.col[k].dict.byHash[Hash[v]]) # v,
         at[i] = seq % SeqWidth, <<at[i], v>> \in told[k]
  PROVE  Indexed(AddToDict(d, k, i, seq, v), told, at)
<1> DEFINE c == d.col[k]
           e == AddToDict(d, k, i, seq, v)
           id == NextId(c.dict)
           text == EntryTexts(d, k)
           new == EntryTexts(e, k)
<1>1. DbShape(d) /\ ColShape(c)
  BY DEF DbOK, DbShape
<1>2. CellStep(d, e, k, i) /\ (e.col[k].kind = "raw" \/ NewEntry(d, e, k, i, seq, v))
  BY AddOK
<1> HIDE DEF e
<1>3. DbShape(e)
  BY <1>2 DEF CellStep
<1>4. ASSUME e.col[k].kind = "dict"
      PROVE  IndexIs(e.col[k], EntryTexts(e, k), told[k], at)
  <2>1. NewEntry(d, e, k, i, seq, v)
    BY <1>2, <1>4
  <2>2. PICK item \in Nat \ {0} : /\ e.col[k] = SetDict(Grown(c, Hash[v], item), i, seq, id)
                                  /\ Get(e.intern, item) = v /\ Same(d.intern, e.intern)
    BY <2>1 DEF NewEntry
  <2> DEFINE m == Grown(c, Hash[v], item)
             t == SetDict(m, i, seq, id)
  <2>3. Hash[v] \in Hashes
    BY StoreAssumption
  <2>4. /\ ColShape(m) /\ m.kind = "dict" /\ m.present = c.present
        /\ DictIds(m) = DictIds(c) \union {id} /\ id \notin DictIds(c)
        /\ m.dict.slots[id].item = item
        /\ \A y \in DictIds(c) : m.dict.slots[y].item = c.dict.slots[y].item
    <3> DEFINE h == Hash[v]
    <3>1. h \in Hashes /\ item \in Nat \ {0} /\ ColShape(c) /\ c.kind = "dict" /\ m = Grown(c, h, item)
      BY <1>1, <2>3
    <3> HIDE DEF h, m, c
    <3>2. /\ ColShape(m) /\ m.kind = "dict" /\ m.present = c.present
          /\ DictIds(m) = DictIds(c) \union {NextId(c.dict)} /\ NextId(c.dict) \notin DictIds(c)
          /\ m.dict.slots[NextId(c.dict)].item = item
          /\ \A y \in DictIds(c) : m.dict.slots[y].item = c.dict.slots[y].item
      BY <3>1, GrownColumn
    <3> QED BY <3>2
  <2> HIDE DEF m, id
  <2>5. t.dict = m.dict /\ e.col[k] = t
    <3>1. id \in DictIds(m) /\ i \notin m.present
      BY <2>4 DEF c
    <3>2. t.dict = m.dict
      BY <3>1, <2>4, SetDictColumn
    <3>3. e.col[k] = t
      BY <2>2 DEF m
    <3> QED BY <3>2, <3>3
  <2> HIDE DEF t
  <2>6. DictIds(e.col[k]) = DictIds(m)
    BY <2>5 DEF DictIds
  <2>7. \A y \in DictIds(c) : text[y] \in Texts /\ new[y] = text[y]
    <3> SUFFICES ASSUME NEW y, y \in DictIds(c) PROVE text[y] \in Texts /\ new[y] = text[y]
      OBVIOUS
    <3>1. e.col[k].dict.slots[y].item = c.dict.slots[y].item /\ y \in DictIds(e.col[k])
      BY <2>4, <2>5, <2>6
    <3>2. EntryText(e, k, y) = EntryText(d, k, y)
      <4>1. /\ DbShape(d) /\ DbShape(e) /\ y \in DictIds(d.col[k]) /\ y \in DictIds(e.col[k])
            /\ e.col[k].dict.slots[y].item = d.col[k].dict.slots[y].item /\ Same(d.intern, e.intern)
        BY <3>1, <1>1, <1>3, <2>2
      <4> HIDE DEF c, text, new
      <4> QED BY <4>1, EntrySame
    <3> QED BY <3>1, <3>2, <1>1, <1>3, EntryType
  <2>8. new[id] = v
    <3>1. id \in DictIds(e.col[k]) /\ e.col[k].dict.slots[id].item = item
      BY <2>4, <2>5, <2>6
    <3>2. new[id] = EntryText(e, k, id)
      BY <3>1, <1>3, EntryType
    <3> QED BY <3>1, <3>2, <2>2 DEF EntryText
  <2>9. IndexIs(c, text, told[k], at)
    BY DEF Indexed
  <2>10. c.dict.byHash[Hash[v]] # 0 => text[c.dict.byHash[Hash[v]]] # v
    <3>1. c.dict.byHash[Hash[v]] # 0 => c.dict.byHash[Hash[v]] \in DictIds(c)
      BY <2>3, <2>9 DEF IndexIs
    <3> QED BY <3>1, <1>1, EntryType
  <2>11. c.kind = "dict" /\ i \notin c.present
    OBVIOUS
  <2> HIDE DEF text, new, c
  <2>12. IndexIs(SetDict(Grown(c, Hash[v], item), i, seq, NextId(c.dict)), new, told[k], at)
    <3>1. new[NextId(c.dict)] = v
      BY <2>8 DEF id
    <3> QED BY <3>1, <1>1, <2>7, <2>9, <2>10, <2>11, AddIndex
  <2> QED BY <2>12, <2>5 DEF t, m, id, new
<1>5. Indexed(e, told, at)
  BY <1>1, <1>2, <1>4, OthersIndexed
<1> QED BY <1>5 DEF e

\* The cell set, the index still knows the rows of the column.
LEMMA SetStringIndexed ==
  ASSUME NEW d, DbOK(d), NEW k \in Keys, d.col[k].kind # "none", NEW i \in Idx, NEW seq \in Nat,
         NEW v \in Texts \union {None},
         NEW told, NEW at, Indexed(d, told, at), PairsOf(d, k, i) = {},
         at[i] = seq % SeqWidth, v # None => <<at[i], v>> \in told[k]
  PROVE  Indexed(SetString(d, k, i, seq, v), told, at)
<1> DEFINE a == EvictCell(d, k, i)
           c == a.col[k]
           same == {id \in DOMAIN a.intern.slots : Get(a.intern, id) = v}
           hit == Find(c.dict, Hash[v], same)
           more == [c EXCEPT !.dict = Retain(c.dict, Once(c.dict, hit))]
           e == SetString(d, k, i, seq, v)
<1>1. /\ CellStep(d, a, k, i) /\ DbOK(a) /\ c.kind = d.col[k].kind /\ i \notin c.present
  BY EvictCellOK
<1>2. e = IF v = None THEN a
          ELSE IF c.kind = "raw" THEN SetRaw(a, k, i, v)
          ELSE IF hit = 0 THEN AddToDict(a, k, i, seq, v)
          ELSE [a EXCEPT !.col[k] = SetDict(more, i, seq, hit)]
  BY DEF SetString
<1>2a. Indexed(a, told, at)
  BY EvictCellIndexed
<1> SUFFICES Indexed(e, told, at)
  OBVIOUS
<1> HIDE DEF a, e
<1>3. DbShape(a) /\ ColShape(c) /\ ColOK(c) /\ a.intern \in Slabs(Texts)
  BY <1>1 DEF DbOK, DbShape, SlabOK
<1>4. c.kind \in {"dict", "raw"}
  BY <1>1, <1>3, ShapeType
<1>5. PairsOf(a, k, i) = {}
  BY <1>1 DEF CellStep
<1>6. CASE v = None
  BY <1>6, <1>2, <1>2a
<1>7. CASE v # None /\ c.kind = "raw"
  <2>1. e = SetRaw(a, k, i, v) /\ v \in Texts /\ i \in Idx \ c.present
    BY <1>1, <1>2, <1>7
  <2>2. CellStep(a, e, k, i) /\ e.col[k].kind = "raw"
    BY <2>1, <1>3, <1>7, SetRawOK
  <2>3. e.col[k].kind # "dict"
    BY <2>2
  <2> QED BY <2>2, <2>3, <1>2a, <1>3, <1>5, OthersIndexed
<1>8. CASE v # None /\ c.kind = "dict" /\ hit = 0
  <2>1. e = AddToDict(a, k, i, seq, v) /\ v \in Texts
    BY <1>2, <1>8
  <2>2. ASSUME c.dict.byHash[Hash[v]] # 0 PROVE EntryText(a, k, c.dict.byHash[Hash[v]]) # v
    <3> DEFINE y == c.dict.byHash[Hash[v]]
    <3>1. IndexIs(c, EntryTexts(a, k), told[k], at)
      BY <1>2a, <1>8 DEF Indexed
    <3>2. y \in DictIds(c)
      <4>1. Hash[v] \in Hashes
        BY <2>1, StoreAssumption
      <4> QED BY <4>1, <3>1, <2>2 DEF IndexIs
    <3>3. Refs(c.dict, y) > 0 /\ y # 0
      BY <3>2, <1>3, ShapeType
    <3>4. c.dict.slots[y].item \notin same
      <4> HIDE DEF same
      <4>1. Find(c.dict, Hash[v], same) = 0
        BY <1>8
      <4> QED BY <4>1, <3>3 DEF Find
    <3>5. c.dict.slots[y].item \in DOMAIN a.intern.slots
      <4> DEFINE id == c.dict.slots[y].item
      <4>1. Refs(a.intern, id) > 0
        BY <3>2, <1>3, EntryLive
      <4>2. a.intern \in Slabs(Texts)
        BY <1>3
      <4> HIDE DEF id
      <4>3. id \in DOMAIN a.intern.slots
        BY <4>1, <4>2, SlabRefs
      <4> QED BY <4>3 DEF id
    <3>6. Get(a.intern, c.dict.slots[y].item) # v
      BY <3>4, <3>5
    <3> QED BY <3>6 DEF EntryText
  <2>3. v \in Texts /\ v # None /\ <<at[i], v>> \in told[k]
    BY <2>1, <1>8
  <2> HIDE DEF c
  <2>4. /\ a.col[k].kind = "dict" /\ i \notin a.col[k].present
        /\ a.col[k].dict.byHash[Hash[v]] # 0 => EntryText(a, k, a.col[k].dict.byHash[Hash[v]]) # v
    BY <1>1, <1>8, <2>2 DEF c
  <2> QED BY <2>1, <2>3, <2>4, <1>1, <1>2a, <1>5, AddIndexed
<1>9. CASE v # None /\ c.kind = "dict" /\ hit # 0
  <2>1. e = WithCols(a, a.intern, [a.col EXCEPT ![k] = HitColumn(c, i, seq, hit)]) /\ v \in Texts
    <3> DEFINE t == SetDict(more, i, seq, hit)
    <3>1. e = [a EXCEPT !.col[k] = t] /\ v \in Texts
      BY <1>2, <1>9
    <3>2. HitColumn(c, i, seq, hit) = t
      BY DEF HitColumn
    <3> HIDE DEF t
    <3>3. e = WithCols(a, a.intern, [a.col EXCEPT ![k] = t])
      BY <3>1, <1>3 DEF WithCols, DbShape, Dbs
    <3> QED BY <3>1, <3>2, <3>3
  <2>2. Refs(c.dict, hit) > 0 /\ c.dict.slots[hit].item \in same
    BY <1>9 DEF Find
  <2>3. hit \in DictIds(c)
    BY <2>2, <1>3, ShapeType
  <2>4. Get(a.intern, c.dict.slots[hit].item) = v
    BY <2>2
  <2>5. <<at[i], v>> \in told[k]
    BY <1>9
  <2> HIDE DEF hit, same
  <2> QED BY <2>1, <2>3, <2>4, <2>5, <1>1, <1>2a, <1>5, <1>9, HitIndexed
<1> QED BY <1>4, <1>6, <1>7, <1>8, <1>9

\* A slot that changes leaves the indexes as they are.
LEMMA SlotIndexed ==
  ASSUME NEW d, DbShape(d), NEW e, NEW i \in Idx, SlotStep(d, e, i), NEW told, NEW at,
         Indexed(d, told, at),
         \A k \in Keys : PairsOf(e, k, i) # {} => k \notin WellKnown /\ TextOf(d.col[k], i) = 0
  PROVE  Indexed(e, told, at)
<1>1. /\ DbShape(e) /\ e.col = d.col /\ Same(d.intern, e.intern) /\ Same(d.blobs, e.blobs)
      /\ \A j \in Idx \ {i} : e.pairs[j] = d.pairs[j]
  BY DEF SlotStep
<1>2. Apart(e)
  <2> SUFFICES ASSUME NEW k \in Keys, NEW j \in Idx, PairsOf(e, k, j) # {}
               PROVE  k \notin WellKnown /\ TextOf(d.col[k], j) = 0
    BY <1>1 DEF Apart
  <2>1. CASE j = i
    BY <2>1
  <2>2. CASE j # i
    <3>1. PairsOf(e, k, j) = PairsOf(d, k, j)
      BY <2>2, <1>1, ReadSame
    <3> QED BY <3>1 DEF Indexed, Apart
  <2> QED BY <2>1, <2>2
<1>3. ASSUME NEW k \in Keys, e.col[k].kind = "dict"
      PROVE  IndexIs(e.col[k], EntryTexts(e, k), told[k], at)
  <2>1. \A y \in DictIds(d.col[k]) : EntryText(e, k, y) = EntryText(d, k, y)
    BY <1>1, EntrySame
  <2>2. EntryTexts(e, k) = EntryTexts(d, k)
    BY <2>1, <1>1 DEF EntryTexts
  <2> QED BY <2>2, <1>1, <1>3 DEF Indexed
<1> QED BY <1>2, <1>3 DEF Indexed

\* What has the same pairs, columns and texts.
LEMMA IndexedSame ==
  ASSUME NEW d, NEW e, e.intern = d.intern, e.pairs = d.pairs, e.col = d.col, NEW told, NEW at,
         Indexed(d, told, at)
  PROVE  Indexed(e, told, at)
<1>1. \A k \in Keys : \A j \in Idx : PairsOf(e, k, j) = PairsOf(d, k, j)
  BY DEF PairsOf
<1>2. \A k \in Keys : EntryTexts(e, k) = EntryTexts(d, k)
  BY DEF EntryTexts, EntryText
<1> QED BY <1>1, <1>2 DEF Indexed, Apart

\* A row that goes leaves every index; its cells may then stand for another row.
LEMMA EvictRowIndexed ==
  ASSUME NEW d, DbOK(d), NEW i \in Idx, NEW told, NEW at, NEW now, Indexed(d, told, at),
         \A j \in Idx \ {i} : now[j] = at[j]
  PROVE  Indexed(EvictRow(d, i), told, now)
<1> DEFINE f == EvictRow(d, i)
<1>1. EvictedRow(d, f, i)
  BY EvictRowOK
<1> HIDE DEF f
<1>2. PICK e : Evicted(d, e, Keys, i) /\ SlotStep(e, f, i) /\ \A k \in Keys : PairsOf(f, k, i) = {}
  BY <1>1 DEF EvictedRow
<1>3. DbShape(d) /\ \A k \in Keys : ColOK(d.col[k])
  BY DEF DbOK
<1>4. /\ DbOK(e) /\ DbShape(e) /\ Same(d.intern, e.intern) /\ Same(d.blobs, e.blobs) /\ e.pairs = d.pairs
      /\ \A k \in Keys : /\ e.col[k].kind = d.col[k].kind
                         /\ e.col[k] = Vacated(d.col[k], i) /\ i \notin e.col[k].present
                         /\ \A j \in Idx \ {i} : TextOf(e.col[k], j) = TextOf(d.col[k], j)
  BY <1>2, SameSelf DEF Evicted, DbOK
<1>5. Apart(e)
  <2> SUFFICES ASSUME NEW k \in Keys, NEW j \in Idx, PairsOf(e, k, j) # {}
               PROVE  k \notin WellKnown /\ TextOf(e.col[k], j) = 0
    BY DEF Apart
  <2>1. PairsOf(e, k, j) = PairsOf(d, k, j)
    BY <1>3, <1>4, ReadSame
  <2>2. k \notin WellKnown /\ TextOf(d.col[k], j) = 0
    BY <2>1 DEF Indexed, Apart
  <2>3. CASE j = i
    BY <2>2, <2>3, <1>4 DEF TextOf
  <2>4. CASE j # i
    BY <2>2, <2>4, <1>4
  <2> QED BY <2>3, <2>4
<1>6. ASSUME NEW k \in Keys, e.col[k].kind = "dict"
      PROVE  IndexIs(e.col[k], EntryTexts(e, k), told[k], now)
  <2> DEFINE new == EntryTexts(e, k)
             text == EntryTexts(d, k)
             c == d.col[k]
  <2>1. ColOK(c) /\ c.kind = "dict" /\ e.col[k] = Vacated(c, i)
    BY <1>3, <1>4, <1>6
  <2>2. \A y \in DictIds(c) : text[y] \in Texts
    BY <1>3, EntryType
  <2>3. \A y \in DictIds(c) : y \in DictIds(Vacated(c, i)) => new[y] = text[y]
    <3> SUFFICES ASSUME NEW y, y \in DictIds(c), y \in DictIds(e.col[k]) PROVE new[y] = text[y]
      BY <2>1
    <3>1. e.col[k].dict.slots[y].item = d.col[k].dict.slots[y].item
      BY <2>1, VacatedItems
    <3>2. EntryText(e, k, y) = EntryText(d, k, y)
      BY <3>1, <1>3, <1>4, EntrySame
    <3> QED BY <3>2, <1>3, <1>4, EntryType
  <2>4. IndexIs(c, text, told[k], at)
    BY <2>1 DEF Indexed
  <2> HIDE DEF new, text, c
  <2>5. IndexIs(Vacated(c, i), new, told[k], now)
    BY <2>1, <2>2, <2>3, <2>4, VacatedIndex
  <2> QED BY <2>5, <2>1 DEF new
<1>7. Indexed(e, told, now)
  BY <1>5, <1>6 DEF Indexed
<1>8. Indexed(f, told, now)
  BY <1>2, <1>4, <1>7, SlotIndexed
<1> QED BY <1>8 DEF f

\* A key gets its column, with nothing in it.
LEMMA PromoteKeyIndexed ==
  ASSUME NEW d, DbOK(d), NEW k \in Keys, d.col[k].kind = "none", NEW told, NEW at, Indexed(d, told, at)
  PROVE  Indexed([d EXCEPT !.col[k] = NewColumn("dict")], told, at)
<1> DEFINE t == [d EXCEPT !.col[k] = NewColumn("dict")]
           c == NewColumn("dict")
<1>1. /\ t.intern = d.intern /\ t.pairs = d.pairs /\ t.col[k] = c
      /\ \A x \in Keys \ {k} : t.col[x] = d.col[x]
      /\ \A x \in Keys : \A j \in Idx : TextOf(t.col[x], j) = TextOf(d.col[x], j)
  BY PromoteKeyIs
<1>2. c.present = {} /\ c.index = {} /\ c.dict = NewSlab
  BY DEF NewColumn
<1> HIDE DEF t, c
<1>3. \A x \in Keys : \A j \in Idx : PairsOf(t, x, j) = PairsOf(d, x, j)
  BY <1>1 DEF PairsOf
<1>4. Apart(t)
  BY <1>1, <1>3 DEF Indexed, Apart
<1>5. ASSUME NEW x \in Keys, t.col[x].kind = "dict"
      PROVE  IndexIs(t.col[x], EntryTexts(t, x), told[x], at)
  <2>1. CASE x = k
    <3>1. DictIds(c) = {} /\ \A h \in Hashes : c.dict.byHash[h] = 0
      BY <1>2, NewSlabOK DEF DictIds, NewSlab
    <3> DEFINE text == EntryTexts(t, x)
    <3> HIDE DEF text
    <3>2. IndexIs(c, text, told[x], at)
      BY <3>1, <1>2 DEF IndexIs
    <3> QED BY <3>2, <2>1, <1>1 DEF text
  <2>2. CASE x # k
    <3>1. EntryTexts(t, x) = EntryTexts(d, x) /\ t.col[x] = d.col[x]
      BY <2>2, <1>1 DEF EntryTexts, EntryText
    <3> QED BY <3>1, <1>5 DEF Indexed
  <2> QED BY <2>1, <2>2
<1>6. Indexed(t, told, at)
  BY <1>4, <1>5 DEF Indexed
<1> QED BY <1>6 DEF t

\* One field of a row, by its column or as a pair.
LEMMA IngestFieldIndexed ==
  ASSUME NEW d, NEW e, NEW i \in Idx, NEW val \in [Keys -> Fields], NEW free, NEW a,
         Filled(d, e, i, val, free, a), NEW k \in Keys, k \in free,
         NEW seq \in Nat, NEW v \in Fields, NEW told, NEW at, Indexed(e, told, at),
         at[i] = seq % SeqWidth, ColumnText(v) # None => <<at[i], ColumnText(v)>> \in told[k]
  PROVE  Indexed(IngestField(e, k, i, seq, v), told, at)
<1> DEFINE x == ColumnText(v)
           t == Tally(e, k)
           u == [t EXCEPT !.col[k] = NewColumn("dict")]
           f == IngestField(e, k, i, seq, v)
<1>1. DbOK(e) /\ PairsOf(e, k, i) = {}
  BY DEF Filled
<1>2. x \in Texts \union {None} /\ (x # None => <<at[i], x>> \in told[k])
  BY TextIs DEF Texts
<1>3. CASE e.col[k].kind # "none"
  <2>1. f = SetString(e, k, i, seq, x)
    BY <1>3 DEF IngestField
  <2> HIDE DEF f, x
  <2>2. Indexed(SetString(e, k, i, seq, x), told, at)
    BY <1>1, <1>2, <1>3, SetStringIndexed
  <2> QED BY <2>1, <2>2 DEF f
<1>4. CASE e.col[k].kind = "none"
  <2>1. /\ DbOK(t) /\ t.intern = e.intern /\ t.blobs = e.blobs /\ t.pairs = e.pairs /\ t.text = e.text
        /\ t.ansi = e.ansi /\ t.col = e.col
    BY <1>1, TallyIs
  <2>2. f = IF Due(t, k) THEN SetString(u, k, i, seq, x) ELSE AppendPair(t, k, i, v)
    BY <1>4 DEF IngestField
  <2> SUFFICES Indexed(f, told, at)
    OBVIOUS
  <2> HIDE DEF t, f, x
  <2>3. Filled(d, t, i, val, free, a)
    BY <2>1, FilledSame
  <2>4. Indexed(t, told, at)
    BY <2>1, IndexedSame
  <2>5. PairsOf(t, k, i) = {}
    BY <2>3 DEF Filled
  <2>6. CASE Due(t, k)
    <3>1. /\ DbOK(u) /\ u.intern = t.intern /\ u.pairs = t.pairs /\ u.col[k] = NewColumn("dict")
      BY <2>1, <1>4, PromoteKeyIs
    <3>2. u.col[k].kind = "dict"
      BY <3>1, NewColumnOK
    <3>3. Indexed(u, told, at)
      BY <2>1, <2>4, <1>4, PromoteKeyIndexed
    <3> HIDE DEF u
    <3>4. PairsOf(u, k, i) = {}
      BY <3>1, <2>5 DEF PairsOf
    <3>5. Indexed(SetString(u, k, i, seq, x), told, at)
      BY <3>1, <3>2, <3>3, <3>4, <1>2, SetStringIndexed
    <3> QED BY <3>5, <2>2, <2>6
  <2>7. CASE ~Due(t, k)
    <3> DEFINE g == AppendPair(t, k, i, v)
    <3>1. SlotStep(t, g, i) /\ \A y \in Keys \ {k} : PairsOf(g, y, i) = PairsOf(t, y, i)
      <4>1. t.col[k].kind = "none"
        BY <2>1, <1>4
      <4>2. PairAdded(t, g, k, i)
        BY <4>1, <2>3, AppendPairFills
      <4> QED BY <4>2 DEF PairAdded
    <3> HIDE DEF g
    <3>2. DbShape(t)
      BY <2>1 DEF DbOK
    <3>3. k \notin WellKnown /\ TextOf(t.col[k], i) = 0
      <4>1. t.col[k].kind = "none" /\ ColShape(t.col[k]) /\ \A y \in WellKnown : t.col[y].kind # "none"
        BY <2>1, <3>2, <1>4 DEF DbShape
      <4>2. t.col[k].present = {}
        BY <4>1, ShapeType
      <4> QED BY <4>1, <4>2 DEF TextOf
    <3>4. \A y \in Keys : PairsOf(g, y, i) # {} => y \notin WellKnown /\ TextOf(t.col[y], i) = 0
      <4> SUFFICES ASSUME NEW y \in Keys, PairsOf(g, y, i) # {}
                   PROVE  y \notin WellKnown /\ TextOf(t.col[y], i) = 0
        OBVIOUS
      <4>1. CASE y = k
        BY <4>1, <3>3
      <4>2. CASE y # k
        <5>1. PairsOf(t, y, i) # {}
          BY <4>2, <3>1
        <5> QED BY <5>1, <2>4 DEF Indexed, Apart
      <4> QED BY <4>1, <4>2
    <3>5. Indexed(g, told, at)
      BY <3>1, <3>2, <3>4, <2>4, SlotIndexed
    <3> QED BY <3>5, <2>2, <2>7 DEF g
  <2> QED BY <2>6, <2>7
<1> QED BY <1>3, <1>4

\* The texts that each row appended had under a key.
ToldOf(kp) ==
  [k \in Keys |-> {p \in Nat \X Texts :
     /\ p[1] + 1 \in DOMAIN kp
     /\ \/ ColumnText(kp[p[1] + 1].fields[k]) = p[2]
        \/ k = "level" /\ kp[p[1] + 1].raw = p[2]}]

\* One row more tells more.
LEMMA ToldGrows ==
  ASSUME NEW kp \in Seq(Row), NEW row \in Row, NEW k \in Keys
  PROVE  /\ ToldOf(kp)[k] \subseteq ToldOf(Append(kp, row))[k]
         /\ \A v \in Texts : ColumnText(row.fields[k]) = v \/ (k = "level" /\ row.raw = v) =>
              <<Len(kp), v>> \in ToldOf(Append(kp, row))[k]
<1> DEFINE kq == Append(kp, row)
           n == Len(kp)
<1>1. /\ n \in Nat /\ DOMAIN kp = 1..n /\ DOMAIN kq = 1..(n + 1) /\ kq[n + 1] = row
      /\ \A m \in 1..n : kq[m] = kp[m]
  OBVIOUS
<1> HIDE DEF kq, n
<1>2. ToldOf(kp)[k] \subseteq ToldOf(kq)[k]
  <2> SUFFICES ASSUME NEW p \in Nat \X Texts, p[1] + 1 \in DOMAIN kp,
                      ColumnText(kp[p[1] + 1].fields[k]) = p[2] \/ (k = "level" /\ kp[p[1] + 1].raw = p[2])
               PROVE  p \in ToldOf(kq)[k]
    BY DEF ToldOf
  <2>1. p[1] + 1 \in DOMAIN kq /\ kq[p[1] + 1] = kp[p[1] + 1]
    BY <1>1
  <2> QED BY <2>1 DEF ToldOf
<1>3. ASSUME NEW v \in Texts, ColumnText(row.fields[k]) = v \/ (k = "level" /\ row.raw = v)
      PROVE  <<n, v>> \in ToldOf(kq)[k]
  <2>1. <<n, v>> \in Nat \X Texts /\ n + 1 \in DOMAIN kq /\ kq[n + 1] = row
    BY <1>1
  <2> QED BY <2>1, <1>3 DEF ToldOf
<1> QED BY <1>2, <1>3 DEF kq, n

\* More may be told.
LEMMA IndexedMore ==
  ASSUME NEW d, NEW told, NEW more, NEW at, Indexed(d, told, at), \A k \in Keys : told[k] \subseteq more[k]
  PROVE  Indexed(d, more, at)
<1>1. ASSUME NEW k \in Keys, d.col[k].kind = "dict"
      PROVE  IndexIs(d.col[k], EntryTexts(d, k), more[k], at)
  <2> DEFINE text == EntryTexts(d, k)
  <2>1. IndexIs(d.col[k], text, told[k], at) /\ told[k] \subseteq more[k]
    BY <1>1 DEF Indexed
  <2> HIDE DEF text
  <2>2. IndexIs(d.col[k], text, more[k], at)
    BY <2>1 DEF IndexIs
  <2> QED BY <2>2 DEF text
<1> QED BY <1>1 DEF Indexed

\* Field after field, the indexes know the rows.
LEMMA IngestedIndexed ==
  ASSUME NEW d, DbOK(d), NEW r \in JsonRows, NEW order \in SetToSeqs(DOMAIN r.fields), NEW i \in Idx,
         NEW seq \in Nat, NEW told, NEW at, NEW now, Indexed(d, told, at),
         \A j \in Idx \ {i} : now[j] = at[j], now[i] = seq % SeqWidth,
         \A k \in DOMAIN r.fields :
           LET x == ColumnText(r.fields[k]) IN x # None => <<now[i], x>> \in told[k]
  PROVE  Indexed(Ingested(d, r, order, i, seq), told, now)
<1> DEFINE S == DOMAIN r.fields
           N == Len(order)
<1>1. /\ N \in Nat /\ \A n \in 1..N : /\ order[n] \in S /\ order[n] \in Keys
                                      /\ r.fields[order[n]] \in Fields
      /\ \A a, b \in 1..N : a # b => order[a] # order[b]
  BY OrderIs
<1>2. \A k \in S : r.fields[k] \in Fields
  BY StoreAssumption
<1>3. PICK rows : RowsAre(rows, d, r, order, i, seq)
  BY IngestedRows
<1>4. \A k \in S : ColumnText(r.fields[k]) # None => <<now[i], ColumnText(r.fields[k])>> \in told[k]
  OBVIOUS
<1> HIDE DEF S, N
<1>5. /\ rows[0] = EvictRow(d, i) /\ rows[N] = Ingested(d, r, order, i, seq)
      /\ \A n \in 1..N : rows[n] = IngestField(rows[n - 1], order[n], i, seq, r.fields[order[n]])
      /\ \A n \in 0..N : Filled(d, rows[n], i, Given(r, order, n), Free(order, n), None)
  BY <1>3 DEF RowsAre, N
<1> DEFINE T == {n \in 0..N : ~Indexed(rows[n], told, now)}
<1>6. 0 \notin T
  BY <1>5, EvictRowIndexed
<1>7. ASSUME NEW n \in 1..N, n - 1 \notin T PROVE n \notin T
  <2> DEFINE k == order[n]
             v == r.fields[k]
             val == Given(r, order, n - 1)
             free == Free(order, n - 1)
             e == rows[n - 1]
  <2>1. n - 1 \in 0..N /\ n \in Nat /\ n - 1 \in Nat
    BY <1>1
  <2>2. Filled(d, e, i, val, free, None) /\ Indexed(e, told, now)
    BY <2>1, <1>5, <1>7
  <2>3. k \in S /\ k \in Keys /\ v \in Fields
    BY <1>1
  <2>4. \A m \in 1..(n - 1) : order[m] # k /\ order[m] \in S
    BY <1>1
  <2>5. k \in free
    BY <2>3, <2>4 DEF Free
  <2>6. val \in [Keys -> Fields]
    <3>1. \A x \in Keys : (\E m \in 1..(n - 1) : order[m] = x) => x \in S
      BY <2>4
    <3> QED BY <3>1, <1>2, TextIs DEF Given
  <2>7. ColumnText(v) # None => <<now[i], ColumnText(v)>> \in told[k]
    BY <2>3, <1>4
  <2>8. rows[n] = IngestField(e, k, i, seq, v)
    BY <1>5
  <2> HIDE DEF k, v, val, free, e
  <2>9. Indexed(IngestField(e, k, i, seq, v), told, now)
    BY <2>2, <2>3, <2>5, <2>6, <2>7, IngestFieldIndexed
  <2> QED BY <2>8, <2>9
<1>8. T = {}
  <2>1. T \subseteq 0..N /\ \A m \in 1..N : m \in T => m - 1 \in T
    BY <1>7
  <2> HIDE DEF T
  <2> QED BY <2>1, <1>1, <1>6, LeastUpTo
<1>9. N \in 0..N
  BY <1>1
<1> QED BY <1>5, <1>8, <1>9

\* A text line has its columns like any row.
LEMMA TextLineIndexed ==
  ASSUME NEW d, NEW e, NEW i \in Idx, NEW val, NEW free, Filled(d, e, i, val, free, None),
         e.ansi[i] = 0, NEW a \in Blobs \union {None}, NEW told, NEW at, Indexed(e, told, at)
  PROVE  Indexed(TextLine(e, i, a), told, at)
<1> DEFINE f == TextLine(e, i, a)
<1>1. SlotStep(e, f, i) /\ \A x \in Keys : PairsOf(f, x, i) = PairsOf(e, x, i)
  BY TextLineFills
<1>2. DbShape(e)
  BY DEF Filled, DbOK
<1> HIDE DEF f
<1>3. \A k \in Keys : PairsOf(f, k, i) # {} => k \notin WellKnown /\ TextOf(e.col[k], i) = 0
  BY <1>1 DEF Indexed, Apart
<1>4. Indexed(f, told, at)
  BY <1>1, <1>2, <1>3, SlotIndexed
<1> QED BY <1>4 DEF f

\* Every index knows the rows in the ring.
IndexInv ==
  \E at \in [Idx -> Nat] : /\ \A seq \in Live : at[seq % Cap] = seq
                           /\ Indexed(db, ToldOf(kept), at)

\* The row appended is at its slot.
LEMMA AppendIndexed ==
  ASSUME StoreInv, NEW at \in [Idx -> Nat], \A seq \in Live : at[seq % Cap] = seq, head' = head + 1,
         Indexed(db', ToldOf(kept'), [at EXCEPT ![head % Cap] = head])
  PROVE  IndexInv'
<1> DEFINE i == head % Cap
           now == [at EXCEPT ![i] = head]
<1>1. head \in Nat /\ Cap \in Nat \ {0} /\ i \in Idx
  BY StoreAssumption, DivMod DEF StoreInv, Idx
<1>2. now \in [Idx -> Nat] /\ now[i] = head /\ \A j \in Idx \ {i} : now[j] = at[j]
  BY <1>1
<1> HIDE DEF now, i
<1>3. ASSUME NEW seq \in Live' PROVE now[seq % Cap] = seq
  <2>1. seq \in Nat /\ seq <= head /\ head - seq < Cap /\ (seq # head => seq \in Live)
    BY <1>1, <1>3 DEF Live, tail
  <2>2. CASE seq = head
    BY <2>2, <1>2 DEF i
  <2>3. CASE seq # head
    <3>1. seq < head
      BY <2>1, <2>3, <1>1
    <3>2. seq % Cap # head % Cap
      BY <3>1, <2>1, <1>1, ModInj
    <3>3. seq % Cap \in 0 .. Cap - 1
      BY <2>1, <1>1, DivMod
    <3>4. seq % Cap \in Idx \ {i}
      BY <3>2, <3>3 DEF i, Idx
    <3> QED BY <3>4, <2>1, <2>3, <1>2
  <2> QED BY <2>2, <2>3
<1>4. Indexed(db', ToldOf(kept'), now)
  BY DEF now, i
<1> QED BY <1>2, <1>3, <1>4 DEF IndexInv

\* As long as sequence numbers fit, the index has them as they are.
LEMMA SeqFits ==
  ASSUME NEW w \in Nat \ {0}, NEW n \in Nat, n < w
  PROVE  n % w = n
<1>1. n % w \in 0 .. w - 1 /\ n \div w \in Nat /\ n = w * (n \div w) + (n % w)
  BY DivMod
<1> DEFINE q == n \div w
           r == n % w
<1> HIDE DEF q, r
<1>2. q = 0
  <2>1. q \in Nat /\ r \in Nat /\ n = w * q + r
    BY <1>1 DEF q, r
  <2>2. CASE q >= 1
    <3>1. w * q >= w * 0 + w
      BY <2>1, <2>2, Mul
    <3>2. w * 0 = 0 /\ w * q \in Nat
      BY <2>1
    <3> QED BY <2>1, <3>1, <3>2
  <2> QED BY <2>1, <2>2
<1>3. w * 0 = 0
  OBVIOUS
<1> QED BY <1>1, <1>2, <1>3 DEF q, r

\* A JSON row appended, the indexes know it.
LEMMA AppendJsonIndexed ==
  ASSUME MaxRows \in 0..SeqWidth, StoreInv, IndexInv,
         NEW r \in JsonRows, NEW order \in SetToSeqs(DOMAIN r.fields), AppendJson(r, order)
  PROVE  IndexInv'
<1> DEFINE i == head % Cap
           last == Ingested(db, r, order, i, head)
           level == ExtractLevel(r)
           done == IF level = None THEN last ELSE SetString(last, "level", i, head, level)
           field(k) == IF k \in DOMAIN r.fields THEN r.fields[k] ELSE None
           fields == [k \in Keys |-> IF k = "level" /\ level # None THEN level ELSE field(k)]
           row == [fields |-> fields, raw |-> ColumnText(field("level")), ansi |-> None]
           e == [done EXCEPT !.seen = @ + 1]
           kq == Append(kept, row)
           told == ToldOf(kq)
<1>1. DbOK(db) /\ head \in Nat /\ i \in Idx /\ kept \in Seq(Row) /\ Len(kept) = head
  BY StoreAssumption, DivMod DEF StoreInv, Idx
<1>2. db' = e /\ kept' = kq /\ head' = head + 1 /\ head < MaxRows
  BY DEF AppendJson
<1>3. head % SeqWidth = head
  <2>1. SeqWidth \in Nat \ {0} /\ MaxRows \in Nat /\ MaxRows <= SeqWidth
    BY StoreAssumption
  <2> QED BY <2>1, <1>1, <1>2, SeqFits
<1>4. /\ \A k \in DOMAIN r.fields : r.fields[k] \in Fields
      /\ level \in Values \union {None} /\ level \in Fields /\ ColumnText(level) = level
  BY JsonType, TextIs
<1>4a. \A k \in DOMAIN r.fields : k \in Keys
  BY StoreAssumption
<1>5. \A k : field(k) \in Fields /\ ColumnText(field(k)) \in Values \union {None}
  BY <1>4, TextIs
<1>6. Filled(db, last, i, [k \in Keys |-> field(k)], WellKnown, None)
  BY <1>1, IngestedFills
<1>7. "level" \in Keys /\ "level" \in WellKnown
  BY DEF Keys, WellKnown
<1>8. PICK at \in [Idx -> Nat] : /\ \A seq \in Live : at[seq % Cap] = seq
                                 /\ Indexed(db, ToldOf(kept), at)
  BY DEF IndexInv
<1> DEFINE now == [at EXCEPT ![i] = head]
<1>9. now[i] = head /\ \A j \in Idx \ {i} : now[j] = at[j]
  BY <1>1
<1>10. row \in Row
  <2>1. fields \in [Keys -> Fields]
    BY <1>4, <1>5
  <2>2. ColumnText(field("level")) \in Values \union {None}
    BY <1>5
  <2> HIDE DEF fields
  <2> QED BY <2>1, <2>2 DEF Row
<1>11. \A k \in DOMAIN r.fields :
         \/ ColumnText(row.fields[k]) = ColumnText(r.fields[k])
         \/ k = "level" /\ row.raw = ColumnText(r.fields[k])
  BY <1>4a
<1>12. level # None => ColumnText(row.fields["level"]) = level
  BY <1>4, <1>7
<1> HIDE DEF i, last, level, field, fields, row, done, now
<1>13. /\ \A k \in Keys : ToldOf(kept)[k] \subseteq told[k]
       /\ \A k \in Keys : \A v \in Texts : ColumnText(row.fields[k]) = v \/ (k = "level" /\ row.raw = v) =>
            <<head, v>> \in told[k]
  BY <1>1, <1>10, ToldGrows
<1> HIDE DEF told, kq
<1>14. /\ \A v \in Values : v \in Texts
       /\ \A k \in DOMAIN r.fields : ColumnText(r.fields[k]) \in Values \union {None}
  BY <1>4, TextIs DEF Texts
<1>15. Indexed(db, told, at)
  BY <1>8, <1>13, IndexedMore
<1>16. Indexed(last, told, now)
  <2>1. \A k \in DOMAIN r.fields :
          LET x == ColumnText(r.fields[k]) IN x # None => <<now[i], x>> \in told[k]
    BY <1>4a, <1>9, <1>11, <1>13, <1>14
  <2>2. now[i] = head % SeqWidth
    BY <1>3, <1>9
  <2>3. Indexed(Ingested(db, r, order, i, head), told, now)
    BY <2>1, <2>2, <1>1, <1>9, <1>15, IngestedIndexed
  <2> QED BY <2>3 DEF last
<1>17. Indexed(done, told, now)
  <2>1. CASE level = None
    BY <2>1, <1>16 DEF done
  <2>2. CASE level # None
    <3>1. /\ DbOK(last) /\ last.col["level"].kind # "none" /\ PairsOf(last, "level", i) = {}
      BY <1>6, <1>7 DEF Filled, DbOK, DbShape
    <3>2. level \in Texts \union {None} /\ <<now[i], level>> \in told["level"]
      BY <2>2, <1>4, <1>7, <1>9, <1>12, <1>13, <1>14
    <3>3. now[i] = head % SeqWidth
      BY <1>3, <1>9
    <3> DEFINE k == "level"
    <3>4. /\ DbOK(last) /\ k \in Keys /\ last.col[k].kind # "none" /\ PairsOf(last, k, i) = {}
          /\ <<now[i], level>> \in told[k]
      BY <3>1, <3>2, <1>7
    <3> HIDE DEF k
    <3>5. Indexed(SetString(last, k, i, head, level), told, now)
      BY <3>2, <3>3, <3>4, <1>1, <1>16, SetStringIndexed
    <3> QED BY <3>5, <2>2 DEF done, k
  <2> QED BY <2>1, <2>2
<1>18. Indexed(e, told, now)
  <2>1. DbOK(done)
    <3>1. CASE level = None
      BY <3>1, <1>6 DEF done, Filled
    <3>2. CASE level # None
      <4>1. /\ DbOK(last) /\ last.col["level"].kind # "none"
        BY <1>6, <1>7 DEF Filled, DbOK, DbShape
      <4>2. level \in Texts \union {None}
        BY <1>4, <1>14
      <4>3. DbOK(SetString(last, "level", i, head, level))
        BY <4>1, <4>2, <1>1, <1>7, SetStringOK
      <4> QED BY <4>3, <3>2 DEF done
    <3> QED BY <3>1, <3>2
  <2>2. e.intern = done.intern /\ e.pairs = done.pairs /\ e.col = done.col
    BY <2>1, SeenIs
  <2> HIDE DEF e
  <2> QED BY <2>2, <1>17, IndexedSame
<1> HIDE DEF e
<1>19. Indexed(db', ToldOf(kept'), [at EXCEPT ![head % Cap] = head])
  BY <1>2, <1>18 DEF told, now, i
<1> QED BY <1>2, <1>8, <1>19, AppendIndexed

\* A text row appended, the indexes know it.
LEMMA AppendTextIndexed ==
  ASSUME MaxRows \in 0..SeqWidth, StoreInv, IndexInv, NEW r \in TextRows, AppendText(r)
  PROVE  IndexInv'
<1> DEFINE i == head % Cap
           a == EvictRow(db, i)
           t == TextLine(a, i, r.ansi)
           m == SetString(t, "msg", i, head, r.line)
           e == IF r.level = None THEN m ELSE SetString(m, "level", i, head, r.level)
           none == [k \in Keys |-> None]
           fields == [k \in Keys |-> CASE k = "msg" -> r.line [] k = "level" -> r.level [] OTHER -> None]
           row == [fields |-> fields, raw |-> r.level, ansi |-> r.ansi]
           kq == Append(kept, row)
           told == ToldOf(kq)
<1>1. DbOK(db) /\ head \in Nat /\ i \in Idx /\ kept \in Seq(Row) /\ Len(kept) = head
  BY StoreAssumption, DivMod DEF StoreInv, Idx
<1>2. db' = e /\ kept' = kq /\ head' = head + 1 /\ head < MaxRows
  BY DEF AppendText
<1>3. head % SeqWidth = head
  <2>1. SeqWidth \in Nat \ {0} /\ MaxRows \in Nat /\ MaxRows <= SeqWidth
    BY StoreAssumption
  <2> QED BY <2>1, <1>1, <1>2, SeqFits
<1>4. /\ r.line \in Values \union {None} /\ r.line \in Fields /\ ColumnText(r.line) = r.line
      /\ r.level \in Values \union {None} /\ r.level \in Fields /\ ColumnText(r.level) = r.level
      /\ r.ansi \in Blobs \union {None}
  <2>1. r.line \in Values \union {None} /\ r.level \in Values \union {None} /\ r.ansi \in Blobs \union {None}
    BY StoreAssumption
  <2> QED BY <2>1, TextIs
<1>5. Filled(db, a, i, none, Keys, None) /\ a.ansi[i] = 0
  BY <1>1, EvictRowOK
<1>6. none \in [Keys -> Fields]
  BY TextIs
<1>7. "level" \in Keys /\ "level" \in WellKnown /\ "msg" \in Keys /\ "msg" \in WellKnown
  BY DEF Keys, WellKnown
<1>8. PICK at \in [Idx -> Nat] : /\ \A seq \in Live : at[seq % Cap] = seq
                                 /\ Indexed(db, ToldOf(kept), at)
  BY DEF IndexInv
<1> DEFINE now == [at EXCEPT ![i] = head]
<1>9. now[i] = head /\ \A j \in Idx \ {i} : now[j] = at[j]
  BY <1>1
<1>10. row \in Row
  <2>1. fields \in [Keys -> Fields]
    BY <1>4, TextIs
  <2> HIDE DEF fields
  <2> QED BY <2>1, <1>4 DEF Row
<1>11. ColumnText(row.fields["msg"]) = r.line /\ ColumnText(row.fields["level"]) = r.level
  BY <1>4, <1>7
<1> HIDE DEF i, a, none, row, now
<1>12. /\ \A k \in Keys : ToldOf(kept)[k] \subseteq told[k]
       /\ \A k \in Keys : \A v \in Texts : ColumnText(row.fields[k]) = v \/ (k = "level" /\ row.raw = v) =>
            <<head, v>> \in told[k]
  BY <1>1, <1>10, ToldGrows
<1> HIDE DEF told, kq
<1>13. \A v \in Values : v \in Texts
  BY DEF Texts
<1>14. Indexed(a, told, now)
  <2>1. Indexed(db, told, at)
    BY <1>8, <1>12, IndexedMore
  <2> QED BY <2>1, <1>1, <1>9, EvictRowIndexed DEF a
<1>15. Filled(db, t, i, none, Keys, r.ansi)
  BY <1>1, <1>4, <1>5, TextLineFills
<1>16. Indexed(t, told, now)
  BY <1>1, <1>4, <1>5, <1>14, TextLineIndexed
<1> HIDE DEF t
<1>17. now[i] = head % SeqWidth
  BY <1>3, <1>9
<1>18. /\ r.line \in Texts \union {None} /\ r.level \in Texts \union {None}
       /\ r.line # None => <<now[i], r.line>> \in told["msg"]
       /\ r.level # None => <<now[i], r.level>> \in told["level"]
  BY <1>4, <1>7, <1>9, <1>11, <1>12, <1>13
<1>19. DbOK(t) /\ t.col["msg"].kind # "none" /\ PairsOf(t, "msg", i) = {}
  BY <1>7, <1>15 DEF Filled, DbOK, DbShape
<1>20. Indexed(m, told, now)
  <2> DEFINE k == "msg"
  <2>1. /\ DbOK(t) /\ k \in Keys /\ t.col[k].kind # "none" /\ PairsOf(t, k, i) = {}
        /\ r.line \in Texts \union {None} /\ (r.line # None => <<now[i], r.line>> \in told[k])
    BY <1>7, <1>18, <1>19
  <2> HIDE DEF k
  <2>2. Indexed(SetString(t, k, i, head, r.line), told, now)
    BY <2>1, <1>1, <1>16, <1>17, SetStringIndexed
  <2> QED BY <2>2 DEF k
<1>21. DbOK(m) /\ PairsOf(m, "level", i) = {} /\ m.col["level"].kind # "none"
  <2>1. Filled(db, SetString(t, "msg", i, head, ColumnText(r.line)), i,
               [none EXCEPT !["msg"] = r.line], Keys, r.ansi)
    BY <1>1, <1>4, <1>6, <1>7, <1>15, <1>19, SetStringFills
  <2> QED BY <2>1, <1>4, <1>7 DEF Filled, DbOK, DbShape
<1> HIDE DEF m
<1>22. Indexed(e, told, now)
  <2>1. CASE r.level = None
    BY <2>1, <1>20
  <2>2. CASE r.level # None
    <3> DEFINE k == "level"
    <3>1. /\ DbOK(m) /\ k \in Keys /\ m.col[k].kind # "none" /\ PairsOf(m, k, i) = {}
          /\ r.level \in Texts \union {None} /\ (r.level # None => <<now[i], r.level>> \in told[k])
      BY <1>7, <1>18, <1>21
    <3> HIDE DEF k
    <3>2. Indexed(SetString(m, k, i, head, r.level), told, now)
      BY <3>1, <1>1, <1>17, <1>20, SetStringIndexed
    <3>3. e = SetString(m, k, i, head, r.level)
      BY <2>2 DEF k
    <3> HIDE DEF e
    <3> QED BY <3>2, <3>3
  <2> QED BY <2>1, <2>2
<1> HIDE DEF e
<1>23. Indexed(db', ToldOf(kept'), [at EXCEPT ![head % Cap] = head])
  BY <1>2, <1>22 DEF told, now, i
<1> QED BY <1>2, <1>8, <1>23, AppendIndexed

\* What a filter reads of a live row is what the row had.
LEMMA CellShown ==
  ASSUME StoreInv, Apart(db), NEW k \in Keys, NEW seq \in Live, NEW v \in Values
  PROVE  /\ seq \in Nat /\ seq % Cap \in Idx
         /\ k \in WellKnown /\ ColumnText(kept[seq + 1].fields[k]) = v =>
              db.col[k].kind # "none" /\ GetString(db, k, seq % Cap) = v
         /\ db.col[k].kind # "none" /\ GetString(db, k, seq % Cap) = v =>
              ColumnText(kept[seq + 1].fields[k]) = v
         /\ db.col[k].kind = "none" /\ Scalar(Shown(db, k, seq % Cap)) = v =>
              Had(kept[seq + 1], k, v)
         /\ GetString(db, k, seq % Cap) = v =>
              /\ seq % Cap \in db.col[k].present
              /\ TextOf(db.col[k], seq % Cap) # 0
<1> DEFINE i == seq % Cap
<1>1. seq \in Nat /\ i \in Idx
  <2>1. head \in Nat /\ Cap \in Nat \ {0}
    BY StoreAssumption DEF StoreInv
  <2>2. seq \in Nat
    BY <2>1 DEF Live, tail
  <2>3. i \in 0 .. Cap - 1
    BY <2>1, <2>2, DivMod
  <2> QED BY <2>2, <2>3 DEF Idx
<1> DEFINE came == kept[seq + 1].fields[k]
<1>2. Shown(db, k, i) = IF PairsOf(db, k, i) = {} THEN ColumnText(came) ELSE came
  BY DEF StoreInv, ReadBack, Reading
<1>2a. Scalar(ColumnText(came)) = ColumnText(came)
  <2>1. kept \in Seq(Row) /\ Len(kept) = head /\ head \in Nat /\ Cap \in Nat \ {0}
    BY StoreAssumption DEF StoreInv
  <2>2. seq + 1 \in 1..Len(kept)
    BY <2>1 DEF Live, tail
  <2>3. kept[seq + 1] \in Row
    BY <2>1, <2>2
  <2>4. came \in Fields
    BY <2>3 DEF Row
  <2>5. ColumnText(came) \in Values \union {None}
    BY <2>4, TextIs
  <2>6. ColumnText(came) \notin Literals
    BY <2>5, StoreAssumption DEF Texts
  <2> QED BY <2>6 DEF Scalar
<1>2b. ASSUME Scalar(Shown(db, k, i)) = v PROVE Had(kept[seq + 1], k, v)
  BY <1>2, <1>2a, <1>2b DEF Had
<1> HIDE DEF i, came
<1>3. DbShape(db) /\ v # None /\ \A x \in WellKnown : db.col[x].kind # "none"
  BY StoreAssumption DEF StoreInv, DbOK, DbShape, Texts
<1>4. Refs(db.intern, 0) = 0
  <2>1. db.intern \in Slabs(Texts)
    BY <1>3 DEF DbShape, SlabOK
  <2>2. \A x \in DOMAIN db.intern.slots : x \in Nat \ {0}
    BY <2>1, SlabRefs
  <2> QED BY <2>2 DEF Refs
<1>5. GetString(db, k, i) = v => TextOf(db.col[k], i) # 0
  BY <1>3, <1>4 DEF GetString, Get
<1>6. TextOf(db.col[k], i) # 0 => i \in db.col[k].present
  BY DEF TextOf
<1>7. k \in WellKnown \/ TextOf(db.col[k], i) # 0 => PairsOf(db, k, i) = {}
  BY <1>1 DEF Apart
<1>8. PairsOf(db, k, i) = {} => Shown(db, k, i) = GetString(db, k, i)
  BY <1>1, <1>3, ShownCell
<1> QED BY <1>1, <1>2, <1>2b, <1>3, <1>5, <1>6, <1>7, <1>8 DEF i, came

\* A query by the index: what it found had the value, and on a well-known column
\* it found every row that has it.
FoundExact ==
  /\ \A s \in query.found : <<s, query.value>> \in ToldOf(kept)[query.key]
  /\ query.key \in WellKnown =>
       \A s \in Live : s < query.head /\ ColumnText(kept[s + 1].fields[query.key]) = query.value => s \in query.found

\* A query never looks past the head it read, nor before a tail that is still ahead.
QueryInv ==
  /\ query.pc # "idle" => query.head <= head /\ query.value \in Values
  /\ query.pc = "head" => query.found = {}
  /\ query.pc \in {"tail", "plan", "done"} => query.tail <= tail
  /\ query.pc = "plan" /\ query.indexed /\ Unshared(query.value) => FoundExact
  /\ query.pc = "done" => \A s \in query.found : s < query.head
  /\ QueryExact

\* The bitmap of a value that shares its hash with no other.
LEMMA BitmapFound ==
  ASSUME StoreInv, IndexInv, NEW k \in Keys, NEW v \in Values, db.col[k].kind = "dict", Unshared(v)
  PROVE  LET c == db.col[k]
             id == c.dict.byHash[Hash[v]]
             found == IF id # 0 THEN Bitmap(c, id) ELSE {}
         IN  /\ \A s \in found : <<s, v>> \in ToldOf(kept)[k]
             /\ k \in WellKnown =>
                  \A s \in Live : ColumnText(kept[s + 1].fields[k]) = v => s \in found
<1> DEFINE c == db.col[k]
           id == c.dict.byHash[Hash[v]]
           found == IF id # 0 THEN Bitmap(c, id) ELSE {}
           text == EntryTexts(db, k)
           told == ToldOf(kept)[k]
<1>1. PICK at \in [Idx -> Nat] : /\ \A seq \in Live : at[seq % Cap] = seq
                                 /\ Indexed(db, ToldOf(kept), at)
  BY DEF IndexInv
<1>2. IndexIs(c, text, told, at) /\ Apart(db)
  BY <1>1 DEF Indexed
<1>3. DbShape(db) /\ ColShape(c)
  BY DEF StoreInv, DbOK, DbShape
<1>4. v \in Texts /\ Hash[v] \in Hashes
  BY StoreAssumption DEF Texts
<1>5. \A y \in DictIds(c) : text[y] = EntryText(db, k, y) /\ text[y] \in Texts
  BY <1>3, EntryType
<1> HIDE DEF text, told
<1>6. id # 0 => id \in DictIds(c) /\ Hash[text[id]] = Hash[v]
  BY <1>2, <1>4 DEF IndexIs
<1>7. id # 0 => text[id] = v
  BY <1>4, <1>5, <1>6 DEF Unshared
<1>8. ASSUME NEW s \in found PROVE <<s, v>> \in told
  <2>1. id # 0 /\ s \in Bitmap(c, id)
    BY <1>8
  <2>2. PICK p \in c.index : p[1] = id /\ s = p[2]
    BY <2>1 DEF Bitmap
  <2>3. <<p[2], text[p[1]]>> \in told
    BY <1>2 DEF IndexIs
  <2> QED BY <2>1, <2>2, <2>3, <1>7
<1>9. ASSUME k \in WellKnown, NEW s \in Live, ColumnText(kept[s + 1].fields[k]) = v PROVE s \in found
  <2> DEFINE i == s % Cap
             y == c.ids[i]
  <2>1. /\ s \in Nat /\ i \in Idx /\ GetString(db, k, i) = v /\ i \in c.present
    BY <1>2, <1>9, CellShown
  <2>2. y \in DictIds(c) /\ <<y, s>> \in c.index
    <3>1. y \in DictIds(c)
      BY <2>1, <1>3, ShapeType
    <3>2. <<y, at[i]>> \in c.index
      BY <2>1, <1>2 DEF IndexIs
    <3> QED BY <3>1, <3>2, <1>1
  <2>3. text[y] = v
    <3>1. y \in DOMAIN c.dict.slots
      BY <2>2, <1>3, ShapeType
    <3>2. TextOf(c, i) = c.dict.slots[y].item
      BY <2>1, <3>1 DEF TextOf
    <3>3. text[y] = EntryText(db, k, y)
      BY <2>2, <1>5
    <3> QED BY <3>2, <3>3, <2>1 DEF EntryText, GetString
  <2>4. id = y /\ y # 0
    <3>1. id = y
      BY <2>2, <2>3, <1>2 DEF IndexIs
    <3>2. y # 0
      BY <2>2, <1>3, ShapeType
    <3> QED BY <3>1, <3>2
  <2>5. s \in Bitmap(c, y)
    <3> DEFINE p == <<y, s>>
    <3>1. p \in c.index /\ p[1] = y /\ p[2] = s
      BY <2>2
    <3> HIDE DEF p, y
    <3> QED BY <3>1 DEF Bitmap
  <2> QED BY <2>4, <2>5
<1> QED BY <1>8, <1>9 DEF told

\* What is told of a row, it has.
LEMMA ToldIs ==
  ASSUME NEW kp, NEW k \in Keys, NEW s, NEW v, <<s, v>> \in ToldOf(kp)[k]
  PROVE  ColumnText(kp[s + 1].fields[k]) = v \/ (k = "level" /\ kp[s + 1].raw = v)
<1> DEFINE p == <<s, v>>
<1>1. p[1] = s /\ p[2] = v
  OBVIOUS
<1> HIDE DEF p
<1>2. ColumnText(kp[p[1] + 1].fields[k]) = p[2] \/ (k = "level" /\ kp[p[1] + 1].raw = p[2])
  BY DEF ToldOf, p
<1> QED BY <1>1, <1>2

\* A row appended is past the head that any query read.
LEMMA AppendQuery ==
  ASSUME StoreInv, QueryInv, query \in QueryTypes, NEW row \in Row, kept' = Append(kept, row),
         head' = head + 1, query' = query
  PROVE  QueryInv'
<1>1. /\ head \in Nat /\ kept \in Seq(Row) /\ Len(kept) = head /\ Cap \in Nat \ {0}
      /\ query.head \in Nat /\ query.tail \in Nat /\ query.key \in Keys /\ query.found \subseteq Nat
  BY StoreAssumption DEF StoreInv, QueryTypes
<1>2. \A s \in Live' : s \in Nat /\ (s < head => s \in Live /\ kept'[s + 1] = kept[s + 1])
  BY <1>1 DEF Live, tail
<1>3. query.pc # "idle" => query.head <= head
  BY DEF QueryInv
<1>4. tail <= tail' /\ tail \in Nat /\ tail' \in Nat
  BY <1>1 DEF tail
<1>5. (query.pc # "idle" => query.head <= head /\ query.value \in Values)'
  BY <1>1 DEF QueryInv
<1>6. (query.pc \in {"tail", "plan", "done"} => query.tail <= tail)'
  BY <1>1, <1>4 DEF QueryInv
<1>7. ASSUME (query.pc = "plan" /\ query.indexed /\ Unshared(query.value))' PROVE FoundExact'
  <2>1. FoundExact /\ query.head <= head
    BY <1>3, <1>7 DEF QueryInv
  <2>2. \A s \in query'.found : <<s, query'.value>> \in ToldOf(kept')[query'.key]
    <3>1. ToldOf(kept)[query.key] \subseteq ToldOf(kept')[query.key]
      BY <1>1, ToldGrows
    <3> QED BY <3>1, <2>1 DEF FoundExact
  <2>3. ASSUME query.key \in WellKnown, NEW s \in Live', s < query.head,
               ColumnText(kept'[s + 1].fields[query.key]) = query.value
        PROVE  s \in query.found
    <3>1. s < head
      BY <1>1, <1>2, <2>1, <2>3
    <3>2. s \in Live /\ kept'[s + 1] = kept[s + 1]
      BY <3>1, <1>2
    <3> QED BY <3>2, <2>1, <2>3 DEF FoundExact
  <2> QED BY <2>2, <2>3 DEF FoundExact
<1>8. (query.pc = "done" => \A s \in query.found : s < query.head)'
  BY DEF QueryInv
<1>9. QueryExact'
  <2> SUFFICES ASSUME query.pc = "done", Unshared(query.value)
               PROVE  /\ \A s \in query.found \intersect Live' :
                           Had(kept'[s + 1], query.key, query.value)
                      /\ query.key \in WellKnown =>
                           \A s \in Live' :
                             s < query.head /\ ColumnText(kept'[s + 1].fields[query.key]) = query.value =>
                               s \in query.found
    BY DEF QueryExact
  <2>1. QueryExact /\ query.head <= head /\ \A s \in query.found : s < query.head
    BY <1>3 DEF QueryInv
  <2>2. ASSUME NEW s \in Live', s < query.head
        PROVE  s \in Live /\ kept'[s + 1] = kept[s + 1]
    BY <1>1, <1>2, <2>1, <2>2
  <2>3. ASSUME NEW s \in query.found \intersect Live'
        PROVE  Had(kept'[s + 1], query.key, query.value)
    <3>1. s \in Live /\ kept'[s + 1] = kept[s + 1]
      BY <2>1, <2>2, <2>3
    <3> QED BY <3>1, <2>1, <2>3 DEF QueryExact
  <2>4. ASSUME query.key \in WellKnown, NEW s \in Live', s < query.head,
               ColumnText(kept'[s + 1].fields[query.key]) = query.value
        PROVE  s \in query.found
    <3>1. s \in Live /\ kept'[s + 1] = kept[s + 1]
      BY <2>2, <2>4
    <3> QED BY <3>1, <2>1, <2>4 DEF QueryExact
  <2> QED BY <2>3, <2>4
<1>10. (query.pc = "head" => query.found = {})'
  BY DEF QueryInv
<1> QED BY <1>5, <1>6, <1>7, <1>8, <1>9, <1>10 DEF QueryInv

\* The scan: over the rows found by the index, or over all of them.
LEMMA ScanExact ==
  ASSUME StoreInv, IndexInv, QueryInv, query \in QueryTypes, QueryScan
  PROVE  QueryInv'
<1> DEFINE lo == IF query.tail < tail THEN tail ELSE query.tail
           span == lo..(query.head - 1)
           k == query.key
           v == query.value
           found == IF query.indexed THEN query.found \intersect span
                    ELSE {s \in span : FieldString(k, s) = v}
<1>1. /\ query.pc = "plan" /\ query' = [query EXCEPT !.pc = "done", !.found = found]
      /\ UNCHANGED <<head, db, kept>>
  BY DEF QueryScan
<1>2. /\ head \in Nat /\ Cap \in Nat \ {0} /\ query.head \in Nat /\ query.tail \in Nat /\ k \in Keys
      /\ query.found \subseteq Nat /\ query.head <= head /\ v \in Values /\ query.tail <= tail
      /\ tail \in Nat
  BY <1>1, StoreAssumption DEF StoreInv, QueryTypes, QueryInv, tail
<1>3. /\ query'.pc = "done" /\ query'.key = k /\ query'.value = v /\ query'.head = query.head
      /\ query'.tail = query.tail /\ query'.found = found
  <2> HIDE DEF found
  <2> QED BY <1>1 DEF QueryTypes
<1>4. lo = tail
  BY <1>2
<1>5. span \subseteq Live /\ (\A s \in Live : s < query.head => s \in span)
      /\ \A s \in span : s < query.head
  BY <1>2, <1>4 DEF Live
<1> HIDE DEF lo, span
<1>6. Live' = Live /\ tail' = tail
  BY <1>1 DEF Live, tail
<1>7. PICK at : Indexed(db, ToldOf(kept), at)
  BY DEF IndexInv
<1>8. Apart(db)
  BY <1>7 DEF Indexed
<1>9. ASSUME Unshared(v)
      PROVE  /\ \A s \in found : Had(kept[s + 1], k, v)
             /\ k \in WellKnown => \A s \in Live : s < query.head /\ ColumnText(kept[s + 1].fields[k]) = v => s \in found
  <2>1. CASE query.indexed
    <3>1. FoundExact
      BY <1>1, <1>9, <2>1 DEF QueryInv
    <3>2. found = query.found \intersect span
      BY <2>1
    <3> HIDE DEF found
    <3>3. ASSUME NEW s \in found
          PROVE  Had(kept[s + 1], k, v)
      <4>1. <<s, v>> \in ToldOf(kept)[k]
        BY <3>1, <3>2, <3>3 DEF FoundExact
      <4> QED BY <4>1, <1>2, ToldIs DEF Had
    <3>4. k \in WellKnown => \A s \in Live : s < query.head /\ ColumnText(kept[s + 1].fields[k]) = v => s \in found
      BY <3>1, <3>2, <1>5 DEF FoundExact
    <3> QED BY <3>3, <3>4
  <2>2. CASE ~query.indexed
    <3>1. found = {s \in span : FieldString(k, s) = v}
      BY <2>2
    <3> HIDE DEF found
    <3>2. \A s \in Live : FieldString(k, s) = IF db.col[k].kind # "none" THEN GetString(db, k, s % Cap)
                                              ELSE Scalar(Shown(db, k, s % Cap))
      BY DEF FieldString
    <3>3. ASSUME NEW s \in found PROVE Had(kept[s + 1], k, v)
      <4>1. s \in Live /\ FieldString(k, s) = v
        BY <3>1, <3>3, <1>5
      <4> HIDE DEF k, v
      <4> QED BY <4>1, <3>2, <1>2, <1>8, CellShown DEF Had
    <3>4. ASSUME k \in WellKnown, NEW s \in Live, s < query.head, ColumnText(kept[s + 1].fields[k]) = v
          PROVE  s \in found
      <4>1. db.col[k].kind # "none" /\ GetString(db, k, s % Cap) = v
        <5> HIDE DEF k, v
        <5> QED BY <3>4, <1>2, <1>8, CellShown
      <4> QED BY <4>1, <3>1, <3>2, <3>4, <1>5
    <3> QED BY <3>3, <3>4
  <2> QED BY <2>1, <2>2
<1>10. \A s \in found : s < query.head
  BY <1>5
<1> HIDE DEF found
<1>11. QueryExact'
  BY <1>1, <1>3, <1>6, <1>9 DEF QueryExact
<1> QED BY <1>1, <1>2, <1>3, <1>6, <1>10, <1>11 DEF QueryInv

\* A query reads, and what it takes for found stays exact.
LEMMA QueryStepsExact ==
  ASSUME StoreInv, IndexInv, QueryInv, query \in QueryTypes, Query
  PROVE  QueryInv' /\ IndexInv'
<1>1. UNCHANGED <<head, db, kept>>
  BY QueryKeeps
<1>2. Live' = Live /\ tail' = tail
  BY <1>1 DEF Live, tail
<1>3. IndexInv'
  BY <1>1, <1>2 DEF IndexInv
<1>4. /\ head \in Nat /\ query.head \in Nat /\ query.key \in Keys /\ query.tail \in Nat /\ tail \in Nat
      /\ Cap \in Nat \ {0}
  BY StoreAssumption DEF StoreInv, QueryTypes, tail
<1>5. ASSUME NEW a \in Asked, QueryHead(a[1], a[2]) PROVE QueryInv'
  <2>1. a[2] \in Values
    BY StoreAssumption
  <2>2. query'.pc = "head" /\ query'.value = a[2] /\ query'.head = head /\ query'.found = {}
    BY <1>5 DEF QueryHead, NoQuery
  <2> QED BY <2>1, <2>2, <1>1, <1>4 DEF QueryInv, QueryExact
<1>6. ASSUME QueryTail PROVE QueryInv'
  <2>1. /\ query.pc = "head"
        /\ query' = IF query.head <= tail THEN [query EXCEPT !.pc = "done", !.tail = tail]
                                          ELSE [query EXCEPT !.pc = "tail", !.tail = tail]
    BY <1>6 DEF QueryTail
  <2>2. /\ query'.key = query.key /\ query'.value = query.value /\ query'.head = query.head
        /\ query'.tail = tail /\ query'.found = query.found
        /\ query'.pc = IF query.head <= tail THEN "done" ELSE "tail"
    BY <2>1 DEF QueryTypes
  <2>3. query.head <= head /\ query.value \in Values
    BY <2>1 DEF QueryInv
  <2>4. query'.found = {}
    BY <2>1, <2>2 DEF QueryInv
  <2>5. query'.pc = "done" => \A s \in Live : ~(s < query.head)
    BY <2>2, <1>4 DEF Live
  <2>6. QueryExact'
    BY <2>2, <2>4, <2>5, <1>1, <1>2 DEF QueryExact
  <2> QED BY <2>2, <2>3, <2>4, <2>6, <1>1, <1>2, <1>4 DEF QueryInv
<1>7. ASSUME QueryPlan PROVE QueryInv'
  <2> DEFINE k == query.key
             v == query.value
             c == db.col[k]
             id == c.dict.byHash[Hash[v]]
             hits == IF id # 0 THEN Bitmap(c, id) ELSE {}
             found == IF c.kind = "dict" /\ id # 0 THEN Bitmap(c, id) ELSE {}
  <2>1. /\ query.pc = "tail"
        /\ query' = [query EXCEPT !.pc = "plan", !.indexed = (c.kind = "dict"), !.found = found]
    BY <1>7 DEF QueryPlan
  <2>2. /\ query'.key = k /\ query'.value = v /\ query'.head = query.head
        /\ query'.tail = query.tail /\ query'.found = found
        /\ query'.pc = "plan" /\ query'.indexed = (c.kind = "dict")
    <3> HIDE DEF found
    <3> QED BY <2>1 DEF QueryTypes
  <2>3. query.head <= head /\ v \in Values /\ query.tail <= tail
    BY <2>1 DEF QueryInv
  <2>4. ASSUME c.kind = "dict", Unshared(v) PROVE FoundExact'
    <3>1. found = hits
      BY <2>4
    <3> HIDE DEF found
    <3>2. /\ \A s \in hits : <<s, v>> \in ToldOf(kept)[k]
          /\ k \in WellKnown => \A s \in Live : ColumnText(kept[s + 1].fields[k]) = v => s \in hits
      <4> DEFINE x == k
                 y == v
      <4>1. x \in Keys /\ y \in Values /\ db.col[x].kind = "dict" /\ Unshared(y)
        BY <1>4, <2>3, <2>4
      <4> HIDE DEF x, y
      <4>2. LET cc == db.col[x]
                ii == cc.dict.byHash[Hash[y]]
                ff == IF ii # 0 THEN Bitmap(cc, ii) ELSE {}
            IN  /\ \A s \in ff : <<s, y>> \in ToldOf(kept)[x]
                /\ x \in WellKnown => \A s \in Live : ColumnText(kept[s + 1].fields[x]) = y => s \in ff
        BY <4>1, BitmapFound
      <4> QED BY <4>2 DEF x, y
    <3> HIDE DEF hits, k, v, c
    <3> QED BY <2>2, <3>1, <3>2, <1>1, <1>2 DEF FoundExact
  <2> HIDE DEF found, k, v, c
  <2>5. (query'.pc = "plan" /\ query'.indexed /\ Unshared(query'.value)) => FoundExact'
    BY <2>2, <2>4
  <2>6. QueryExact'
    BY <2>2 DEF QueryExact
  <2> QED BY <2>2, <2>3, <2>5, <2>6, <1>1, <1>2 DEF QueryInv
<1>8. ASSUME QueryScan PROVE QueryInv'
  BY <1>8, ScanExact
<1>9. ASSUME QueryEnd PROVE QueryInv'
  <2>1. query'.pc = "idle"
    BY <1>9 DEF QueryEnd, NoQuery
  <2> QED BY <2>1 DEF QueryInv, QueryExact
<1> QED BY <1>3, <1>5, <1>6, <1>7, <1>8, <1>9 DEF Query

\* Before the first row.
LEMMA InitIndexed ==
  ASSUME Init
  PROVE  IndexInv /\ QueryInv
<1>1. head = 0 /\ query = NoQuery /\ Cap \in Nat \ {0}
  BY StoreAssumption DEF Init
<1>2. /\ db.col = [k \in Keys |-> NewColumn(IF k \in WellKnown THEN "dict" ELSE "none")]
      /\ db.pairs = [i \in Idx |-> << >>]
  BY DEF Init
<1>3. QueryInv
  BY <1>1 DEF QueryInv, QueryExact, NoQuery
<1>4. Live = {}
  BY <1>1 DEF Live, tail
<1>5. Apart(db)
  <2>1. \A k \in Keys : \A i \in Idx : PairsOf(db, k, i) = {}
    BY <1>2 DEF PairsOf
  <2> QED BY <2>1 DEF Apart
<1> DEFINE at == [i \in Idx |-> 0]
           told == ToldOf(kept)
<1> HIDE DEF told
<1>6. ASSUME NEW k \in Keys
      PROVE  IndexIs(db.col[k], EntryTexts(db, k), told[k], at)
  <2> DEFINE c == db.col[k]
             text == EntryTexts(db, k)
  <2>1. c.present = {} /\ c.index = {} /\ c.dict = NewSlab
    BY <1>2 DEF NewColumn
  <2> HIDE DEF c, text
  <2>2. DictIds(c) = {} /\ \A h \in Hashes : c.dict.byHash[h] = 0
    BY <2>1, NewSlabOK DEF DictIds, NewSlab
  <2>3. IndexIs(c, text, told[k], at)
    BY <2>1, <2>2 DEF IndexIs
  <2> QED BY <2>3 DEF c, text
<1>7. Indexed(db, told, at)
  BY <1>5, <1>6 DEF Indexed
<1>8. at \in [Idx -> Nat]
  OBVIOUS
<1> HIDE DEF at
<1>9. IndexInv
  BY <1>4, <1>7, <1>8 DEF IndexInv, told
<1> QED BY <1>3, <1>9

\* Every step keeps the indexes and what a query found.
LEMMA IndexSteps ==
  ASSUME MaxRows \in 0..SeqWidth, StoreInv, query \in QueryTypes, IndexInv, QueryInv, [Next]_vars
  PROVE  IndexInv' /\ QueryInv'
<1>1. ASSUME NEW r \in JsonRows, NEW order \in SetToSeqs(DOMAIN r.fields), AppendJson(r, order)
      PROVE  IndexInv' /\ QueryInv'
  <2>1. IndexInv'
    BY <1>1, AppendJsonIndexed
  <2>2. PICK row : kept' = Append(kept, row) /\ head' = head + 1 /\ query' = query
    BY <1>1 DEF AppendJson
  <2>3. row \in Row
    <3>1. StoreInv'
      BY <1>1, AppendJsonKeeps
    <3>2. kept' \in Seq(Row) /\ kept'[Len(kept) + 1] = row /\ Len(kept) + 1 \in 1..Len(kept')
      BY <3>1, <2>2 DEF StoreInv
    <3> QED BY <3>2
  <2> QED BY <2>1, <2>2, <2>3, AppendQuery
<1>2. ASSUME NEW r \in TextRows, AppendText(r)
      PROVE  IndexInv' /\ QueryInv'
  <2>1. IndexInv'
    BY <1>2, AppendTextIndexed
  <2>2. PICK row : kept' = Append(kept, row) /\ head' = head + 1 /\ query' = query
    BY <1>2 DEF AppendText
  <2>3. row \in Row
    <3>1. StoreInv'
      BY <1>2, AppendTextKeeps
    <3>2. kept' \in Seq(Row) /\ kept'[Len(kept) + 1] = row /\ Len(kept) + 1 \in 1..Len(kept')
      BY <3>1, <2>2 DEF StoreInv
    <3> QED BY <3>2
  <2> QED BY <2>1, <2>2, <2>3, AppendQuery
<1>3. ASSUME Query PROVE IndexInv' /\ QueryInv'
  BY <1>3, QueryStepsExact
<1>4. ASSUME UNCHANGED vars PROVE IndexInv' /\ QueryInv'
  <2>1. /\ head' = head /\ db' = db /\ kept' = kept /\ query' = query
        /\ Live' = Live /\ tail' = tail
    BY <1>4 DEF vars, Live, tail
  <2>2. IndexInv'
    BY <2>1 DEF IndexInv
  <2>3. QueryInv'
    BY <2>1 DEF QueryInv, QueryExact, FoundExact
  <2> QED BY <2>2, <2>3
<1> QED BY <1>1, <1>2, <1>3, <1>4 DEF Next

\* A finished history query has found exactly the live rows with the value that it
\* promises to find, while rows are appended, overwritten and columns promoted between
\* its four steps: no row that never had the value, and on a well-known column every row
\* below the head it read that is still there.  The index keeps 32 bits of a sequence
\* number, so this is for as many rows as those can tell apart.
THEOREM QueriesStayExact ==
  ASSUME MaxRows \in 0..SeqWidth
  PROVE  Spec => []QueryExact
<1> DEFINE Inv == StoreInv /\ query \in QueryTypes /\ IndexInv /\ QueryInv
<1>1. Init => Inv
  BY InitHolds, InitIndexed
<1>2. Inv /\ [Next]_vars => Inv'
  BY StoreSteps, IndexSteps
<1>3. Inv => QueryExact
  BY DEF QueryInv
<1> QED BY <1>1, <1>2, <1>3, PTL DEF Spec
=============================================================================
