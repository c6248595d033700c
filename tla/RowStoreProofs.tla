--------------------------- MODULE RowStoreProofs ---------------------------
(***************************************************************************)
(* Proofs about RowStore, for every ring size, dictionary limit, promotion *)
(* threshold, set of texts and hash function: the types, that reference    *)
(* counts are exactly the references there are, and that every live row    *)
(* reads back as it was appended.                                          *)
(*                                                                         *)
(* The invariant, StoreInv, is about the database alone and about what the *)
(* rows read.  DbOK says of each of the three kinds of slab (texts, blobs, *)
(* the dictionary of each column) that free ids have no references and are *)
(* free once, and that each count is the number of what refers to the id,  *)
(* by column (cells or entries) and by slot of the ring (keys and values   *)
(* of pairs, blobs).  The operations follow in the order of the model: a   *)
(* change of one slab, of one cell, of one column, of one slot of the      *)
(* ring, a whole row.  Filled says what an append has done to its slot so  *)
(* far and that every other slot reads as before.                          *)
(***************************************************************************)
EXTENDS RowStore, Integers, TLAPS, FiniteSetTheorems, FunctionTheorems,
        SequenceTheorems, WellFoundedInduction

---------------------------------------------------------------------------
(* Counting *)

\* A subset of a finite set, and what is left.
LEMMA CardSubset ==
  ASSUME NEW S, IsFiniteSet(S), NEW R, R \subseteq S
  PROVE  /\ IsFiniteSet(R) /\ Cardinality(R) \in Nat /\ Cardinality(S) \in Nat
         /\ Cardinality(R) <= Cardinality(S)
         /\ IsFiniteSet(S \ R) /\ Cardinality(S \ R) = Cardinality(S) - Cardinality(R)
<1>1. IsFiniteSet(R) /\ Cardinality(R) <= Cardinality(S)
  BY FS_Subset
<1>2. S \cap R = R
  OBVIOUS
<1> QED
  BY <1>1, <1>2, FS_Difference, FS_CardinalityType

\* One element more.
LEMMA CardPlus ==
  ASSUME NEW S, IsFiniteSet(S), NEW x, x \notin S
  PROVE  /\ IsFiniteSet(S \cup {x}) /\ Cardinality(S) \in Nat
         /\ Cardinality(S \cup {x}) = Cardinality(S) + 1
BY FS_AddElement, FS_CardinalityType

\* One element less.
LEMMA CardMinus ==
  ASSUME NEW S, IsFiniteSet(S), NEW x, x \in S
  PROVE  /\ IsFiniteSet(S \ {x}) /\ Cardinality(S) \in Nat \ {0}
         /\ Cardinality(S \ {x}) = Cardinality(S) - 1
<1>1. Cardinality(S) # 0
  BY FS_EmptySet
<1> QED
  BY <1>1, FS_RemoveElement, FS_CardinalityType

\* Disjoint sets.
LEMMA CardJoin ==
  ASSUME NEW S, IsFiniteSet(S), NEW T, IsFiniteSet(T), S \cap T = {}
  PROVE  /\ IsFiniteSet(S \cup T) /\ Cardinality(S) \in Nat /\ Cardinality(T) \in Nat
         /\ Cardinality(S \cup T) = Cardinality(S) + Cardinality(T)
BY FS_Union, FS_EmptySet, FS_CardinalityType

\* As many as there are pairs with a fixed first part.
LEMMA CardTagged ==
  ASSUME NEW S, IsFiniteSet(S), NEW t
  PROVE  IsFiniteSet({t} \X S) /\ Cardinality({t} \X S) = Cardinality(S)
<1> DEFINE f == [x \in S |-> <<t, x>>]
<1>1. f \in [S -> {t} \X S]
  OBVIOUS
<1>2. \A a, b \in S : f[a] = f[b] => a = b
  OBVIOUS
<1>3. \A p \in {t} \X S : \E x \in S : f[x] = p
  OBVIOUS
<1>4. f \in Bijection(S, {t} \X S)
  <2> HIDE DEF f
  <2> QED BY <1>1, <1>2, <1>3, Fun_IsBij
<1> QED
  BY <1>4, FS_Bijection DEF ExistsBijection

\* An injective image.
LEMMA CardImage ==
  ASSUME NEW S, IsFiniteSet(S), NEW T, NEW f \in [S -> T],
         \A a, b \in S : f[a] = f[b] => a = b,
         \A y \in T : \E x \in S : f[x] = y
  PROVE  IsFiniteSet(T) /\ Cardinality(T) = Cardinality(S)
<1>1. f \in Bijection(S, T)
  BY Fun_IsBij
<1> QED
  BY <1>1, FS_Bijection DEF ExistsBijection

---------------------------------------------------------------------------
(* The slab *)

\* What a slab of Items is: ids in the free list have no references, and none is in it twice.
SlabOK(s, Items) ==
  /\ s \in Slabs(Items)
  /\ \A a \in DOMAIN s.free : s.free[a] \in DOMAIN s.slots /\ s.slots[s.free[a]].refs = 0
  /\ \A a, b \in DOMAIN s.free : s.free[a] = s.free[b] => a = b

\* No text changes under an id in use before and after.
Same(s, t) == \A x \in Nat : Refs(s, x) > 0 /\ Refs(t, x) > 0 => t.slots[x].item = s.slots[x].item

\* A function on 1..n is a sequence.
LEMMA SeqFrom ==
  ASSUME NEW S, NEW f, NEW n \in Nat, f = [x \in 1..n |-> f[x]], \A x \in 1..n : f[x] \in S
  PROVE  f \in Seq(S) /\ Len(f) = n
<1>1. f \in [1..n -> S]
  OBVIOUS
<1> QED
  BY <1>1

\* The parts of a slab.
LEMMA SlabShape ==
  ASSUME NEW Items, NEW s, s \in Slabs(Items)
  PROVE  /\ s = [slots |-> s.slots, free |-> s.free, byHash |-> s.byHash]
         /\ s.slots \in Seq([item : Items, refs : Nat]) /\ s.free \in Seq(Nat)
         /\ s.byHash \in [Hashes -> Nat]
         /\ DOMAIN s.slots = 1..Len(s.slots) /\ Len(s.slots) \in Nat
         /\ DOMAIN s.free = 1..Len(s.free) /\ Len(s.free) \in Nat
         /\ \A x \in DOMAIN s.slots : /\ s.slots[x] \in [item : Items, refs : Nat]
                                      /\ s.slots[x].item \in Items /\ s.slots[x].refs \in Nat
                                      /\ x \in Nat \ {0} /\ Refs(s, x) = s.slots[x].refs
         /\ \A x : Refs(s, x) \in Nat /\ (Refs(s, x) > 0 => x \in DOMAIN s.slots)
         /\ IsFiniteSet(DOMAIN s.slots)
<1>1. /\ s = [slots |-> s.slots, free |-> s.free, byHash |-> s.byHash]
      /\ s.slots \in Seq([item : Items, refs : Nat]) /\ s.free \in Seq(Nat)
      /\ s.byHash \in [Hashes -> Nat]
  BY DEF Slabs
<1>2. /\ DOMAIN s.slots = 1..Len(s.slots) /\ Len(s.slots) \in Nat
      /\ DOMAIN s.free = 1..Len(s.free) /\ Len(s.free) \in Nat
  BY <1>1
<1>3. \A x \in DOMAIN s.slots : s.slots[x] \in [item : Items, refs : Nat] /\ x \in Nat \ {0}
  <2> DEFINE Slot == [item : Items, refs : Nat]
  <2>1. s.slots \in Seq(Slot)
    BY <1>1
  <2> HIDE DEF Slot
  <2>2. \A x \in 1..Len(s.slots) : s.slots[x] \in Slot
    BY <2>1
  <2> QED BY <2>2, <1>2 DEF Slot
<1>4. IsFiniteSet(DOMAIN s.slots)
  BY <1>2, FS_Interval
<1> QED
  BY <1>1, <1>2, <1>3, <1>4 DEF Refs

\* A slot has references or is no slot.
LEMMA SlabRefs ==
  ASSUME NEW Items, NEW s, s \in Slabs(Items)
  PROVE  /\ \A x : Refs(s, x) \in Nat
         /\ \A x : Refs(s, x) > 0 => x \in DOMAIN s.slots
         /\ \A x \in DOMAIN s.slots : x \in Nat \ {0} /\ Refs(s, x) = s.slots[x].refs
         /\ \A x \in DOMAIN s.slots : s.slots[x].item \in Items
         /\ IsFiniteSet(DOMAIN s.slots)
<1>1. /\ s.slots \in Seq([item : Items, refs : Nat])
      /\ DOMAIN s.slots = 1..Len(s.slots) /\ Len(s.slots) \in Nat
      /\ \A x \in DOMAIN s.slots : s.slots[x] \in [item : Items, refs : Nat]
      /\ \A x \in DOMAIN s.slots : s.slots[x].item \in Items /\ s.slots[x].refs \in Nat
      /\ \A x \in DOMAIN s.slots : x \in Nat \ {0} /\ Refs(s, x) = s.slots[x].refs
      /\ IsFiniteSet(DOMAIN s.slots)
  BY SlabShape
<1>2. \A x : Refs(s, x) \in Nat /\ (Refs(s, x) > 0 => x \in DOMAIN s.slots)
  BY <1>1 DEF Refs
<1> QED BY <1>1, <1>2

\* A slab of numbers from 1 is a slab of numbers.
LEMMA SlabsNat ==
  ASSUME NEW s \in Slabs(Nat \ {0})
  PROVE  s \in Slabs(Nat)
<1>1. /\ s = [slots |-> s.slots, free |-> s.free, byHash |-> s.byHash]
      /\ s.free \in Seq(Nat) /\ s.byHash \in [Hashes -> Nat]
      /\ DOMAIN s.slots = 1..Len(s.slots) /\ Len(s.slots) \in Nat
      /\ s.slots \in Seq([item : Nat \ {0}, refs : Nat])
      /\ \A x \in DOMAIN s.slots : s.slots[x] \in [item : Nat \ {0}, refs : Nat]
  BY SlabShape
<1>2. \A x \in 1..Len(s.slots) : s.slots[x] \in [item : Nat, refs : Nat]
  BY <1>1
<1>3. s.slots = [x \in 1..Len(s.slots) |-> s.slots[x]]
  BY <1>1
<1>4. s.slots \in Seq([item : Nat, refs : Nat])
  BY <1>1, <1>2, <1>3, SeqFrom
<1> QED
  BY <1>1, <1>4 DEF Slabs

\* The empty slab.
LEMMA NewSlabOK ==
  ASSUME NEW Items
  PROVE  /\ SlabOK(NewSlab, Items) /\ DOMAIN NewSlab.slots = {}
         /\ \A x : Refs(NewSlab, x) = 0
<1>1. /\ NewSlab.slots = << >> /\ NewSlab.free = << >>
      /\ NewSlab.byHash \in [Hashes -> Nat] /\ NewSlab \in Slabs(Items)
  BY DEF NewSlab, Slabs
<1> QED
  BY <1>1 DEF SlabOK, Refs

\* Add takes an id without references, out of the free list.
LEMMA AddSlab ==
  ASSUME NEW Items, NEW s, SlabOK(s, Items), NEW h \in Hashes, NEW item \in Items
  PROVE  LET t == Add(s, h, item)  id == NextId(s)
         IN  /\ SlabOK(t, Items) /\ Same(s, t)
             /\ id \in Nat \ {0} /\ Refs(s, id) = 0
             /\ DOMAIN t.slots = DOMAIN s.slots \union {id}
             /\ t.slots[id].item = item
             /\ \A x : Refs(t, x) = IF x = id THEN 1 ELSE Refs(s, x)
             /\ \A x \in DOMAIN s.slots : x # id => t.slots[x] = s.slots[x]
<1> DEFINE t == Add(s, h, item)
           id == NextId(s)
           fr == IF s.free = << >> THEN << >> ELSE SubSeq(s.free, 1, Len(s.free) - 1)
<1>0. /\ \A a \in DOMAIN s.free : s.free[a] \in DOMAIN s.slots /\ s.slots[s.free[a]].refs = 0
      /\ \A a, b \in DOMAIN s.free : s.free[a] = s.free[b] => a = b
  BY DEF SlabOK
<1>1. s \in Slabs(Items)
  BY DEF SlabOK
<1>2. /\ s.slots \in Seq([item : Items, refs : Nat]) /\ s.free \in Seq(Nat)
      /\ s.byHash \in [Hashes -> Nat]
      /\ DOMAIN s.slots = 1..Len(s.slots) /\ Len(s.slots) \in Nat
      /\ DOMAIN s.free = 1..Len(s.free) /\ Len(s.free) \in Nat
      /\ \A x \in DOMAIN s.slots : s.slots[x] \in [item : Items, refs : Nat]
      /\ \A x \in DOMAIN s.slots : x \in Nat \ {0} /\ Refs(s, x) = s.slots[x].refs
  BY <1>1, SlabShape
<1>3. /\ id \in Nat \ {0} /\ Refs(s, id) = 0
      /\ \E n \in Nat : DOMAIN s.slots \union {id} = 1..n
      /\ fr \in Seq(Nat)
      /\ \A a \in DOMAIN fr : a \in DOMAIN s.free /\ fr[a] = s.free[a] /\ fr[a] # id
  <2>1. CASE s.free = << >>
    <3>1. id = Len(s.slots) + 1
      BY <2>1 DEF NextId
    <3>2. /\ id \in Nat \ {0} /\ id \notin DOMAIN s.slots
          /\ DOMAIN s.slots \union {id} = 1..(Len(s.slots) + 1)
      BY <1>2, <3>1
    <3>3. Refs(s, id) = 0
      BY <3>2 DEF Refs
    <3>4. fr = << >> /\ DOMAIN fr = {} /\ fr \in Seq(Nat)
      BY <2>1
    <3>5. \E n \in Nat : DOMAIN s.slots \union {id} = 1..n
      BY <3>2, <1>2
    <3> HIDE DEF id, fr
    <3> QED BY <3>2, <3>3, <3>4, <3>5
  <2>2. CASE s.free # << >>
    <3>1. Len(s.free) \in 1..Len(s.free)
      BY <2>2, <1>2
    <3>2. id = s.free[Len(s.free)]
      BY <2>2 DEF NextId
    <3>3. id \in DOMAIN s.slots /\ s.slots[id].refs = 0
      BY <3>1, <3>2, <1>2 DEF SlabOK
    <3>4. Refs(s, id) = 0 /\ DOMAIN s.slots \union {id} = 1..Len(s.slots) /\ id \in Nat \ {0}
      BY <3>3, <1>2
    <3>5. /\ fr \in Seq(Nat) /\ DOMAIN fr = 1..(Len(s.free) - 1)
          /\ \A a \in DOMAIN fr : fr[a] = s.free[a]
      BY <2>2, <1>2, <3>1
    <3> HIDE DEF id, fr
    <3>6. \A a \in DOMAIN fr : a \in 1..Len(s.free) /\ a # Len(s.free)
      BY <3>5, <1>2
    <3>7. \A a \in DOMAIN fr : s.free[a] # id /\ a \in DOMAIN s.free
      BY <3>1, <3>2, <3>6, <1>2, <1>0
    <3>8. \E n \in Nat : DOMAIN s.slots \union {id} = 1..n
      BY <3>4, <1>2
    <3> QED BY <3>4, <3>5, <3>7, <3>8
  <2> QED BY <2>1, <2>2
<1> HIDE DEF id, fr
<1>4. /\ t.slots = [j \in DOMAIN s.slots \union {id} |->
                      IF j = id THEN [item |-> item, refs |-> 1] ELSE s.slots[j]]
      /\ t.free = fr
      /\ t.byHash = [x \in Hashes |-> IF x = h /\ s.byHash[h] = 0 THEN id ELSE s.byHash[x]]
      /\ t = [slots |-> t.slots, free |-> t.free, byHash |-> t.byHash]
  BY DEF Add, id, fr
<1> HIDE DEF t
<1>5. /\ DOMAIN t.slots = DOMAIN s.slots \union {id}
      /\ t.slots[id] = [item |-> item, refs |-> 1]
      /\ \A x \in DOMAIN s.slots : x # id => t.slots[x] = s.slots[x]
  BY <1>4
<1>6. \A x \in DOMAIN t.slots : t.slots[x] \in [item : Items, refs : Nat]
  BY <1>5, <1>2
<1>7. t.slots \in Seq([item : Items, refs : Nat])
  <2>1. PICK n \in Nat : DOMAIN t.slots = 1..n
    BY <1>3, <1>5
  <2>2. t.slots = [x \in 1..n |-> t.slots[x]]
    BY <1>4, <2>1
  <2> QED BY <2>1, <2>2, <1>6, SeqFrom
<1>8. t.byHash \in [Hashes -> Nat]
  BY <1>4, <1>3, <1>2
<1>9. t \in Slabs(Items)
  BY <1>4, <1>3, <1>7, <1>8 DEF Slabs
<1>10. \A x : Refs(t, x) = IF x = id THEN 1 ELSE Refs(s, x)
  BY <1>5 DEF Refs
<1>11. SlabOK(t, Items)
  <2>1. \A a \in DOMAIN t.free : t.free[a] \in DOMAIN t.slots /\ t.slots[t.free[a]].refs = 0
    <3> SUFFICES ASSUME NEW a \in DOMAIN t.free
                 PROVE  t.free[a] \in DOMAIN t.slots /\ t.slots[t.free[a]].refs = 0
      OBVIOUS
    <3>1. t.free[a] = s.free[a] /\ a \in DOMAIN s.free /\ s.free[a] # id
      BY <1>3, <1>4
    <3>2. s.free[a] \in DOMAIN s.slots /\ s.slots[s.free[a]].refs = 0
      BY <3>1, <1>0
    <3> QED BY <3>1, <3>2, <1>5
  <2>2. \A a, b \in DOMAIN t.free : t.free[a] = t.free[b] => a = b
    BY <1>3, <1>4 DEF SlabOK
  <2> QED BY <2>1, <2>2, <1>9 DEF SlabOK
<1>12. Same(s, t)
  BY <1>3, <1>5, <1>10 DEF Same, Refs
<1>13. t.slots[id].item = item
  BY <1>5
<1> QED
  BY <1>3, <1>5, <1>10, <1>11, <1>12, <1>13 DEF t, id

\* A slot with another count.
LEMMA SetRefs ==
  ASSUME NEW Items, NEW slot \in [item : Items, refs : Nat], NEW m \in Nat
  PROVE  /\ [slot EXCEPT !.refs = m] \in [item : Items, refs : Nat]
         /\ [slot EXCEPT !.refs = m].item = slot.item /\ [slot EXCEPT !.refs = m].refs = m
OBVIOUS

\* Retain of ids in use.
LEMMA RetainSlab ==
  ASSUME NEW Items, NEW s, SlabOK(s, Items), NEW n \in [DOMAIN s.slots -> Nat],
         \A x \in DOMAIN s.slots : n[x] > 0 => Refs(s, x) > 0
  PROVE  LET t == Retain(s, n)
         IN  /\ SlabOK(t, Items) /\ Same(s, t) /\ DOMAIN t.slots = DOMAIN s.slots
             /\ t.byHash = s.byHash
             /\ \A x \in DOMAIN s.slots : t.slots[x].item = s.slots[x].item
             /\ \A x \in DOMAIN s.slots : Refs(t, x) = Refs(s, x) + n[x]
             /\ \A x : Refs(s, x) = 0 => Refs(t, x) = 0
<1> DEFINE t == Retain(s, n)
<1>1. s \in Slabs(Items)
  BY DEF SlabOK
<1>2. /\ s = [slots |-> s.slots, free |-> s.free, byHash |-> s.byHash]
      /\ s.slots \in Seq([item : Items, refs : Nat]) /\ s.free \in Seq(Nat)
      /\ s.byHash \in [Hashes -> Nat]
      /\ DOMAIN s.slots = 1..Len(s.slots) /\ Len(s.slots) \in Nat
      /\ \A x \in DOMAIN s.slots : s.slots[x] \in [item : Items, refs : Nat]
      /\ \A x \in DOMAIN s.slots : x \in Nat \ {0} /\ Refs(s, x) = s.slots[x].refs
      /\ \A x : Refs(s, x) > 0 => x \in DOMAIN s.slots
  BY <1>1, SlabShape
<1>3. /\ t.slots = [id \in DOMAIN s.slots |-> [s.slots[id] EXCEPT !.refs = @ + n[id]]]
      /\ t.free = s.free /\ t.byHash = s.byHash
      /\ t = [slots |-> t.slots, free |-> t.free, byHash |-> t.byHash]
  BY DEF Retain
<1> HIDE DEF t
<1>4. /\ DOMAIN t.slots = DOMAIN s.slots
      /\ \A x \in DOMAIN s.slots : /\ t.slots[x] \in [item : Items, refs : Nat]
                                   /\ t.slots[x].item = s.slots[x].item
                                   /\ t.slots[x].refs = s.slots[x].refs + n[x]
  <2> SUFFICES ASSUME NEW x \in DOMAIN s.slots
               PROVE  /\ t.slots[x] \in [item : Items, refs : Nat]
                      /\ t.slots[x].item = s.slots[x].item
                      /\ t.slots[x].refs = s.slots[x].refs + n[x]
    BY <1>3
  <2>1. s.slots[x].refs + n[x] \in Nat /\ s.slots[x] \in [item : Items, refs : Nat]
    BY <1>2
  <2>2. t.slots[x] = [s.slots[x] EXCEPT !.refs = s.slots[x].refs + n[x]]
    BY <1>3
  <2> QED BY <2>1, <2>2, SetRefs
<1>5. t.slots \in Seq([item : Items, refs : Nat])
  <2>1. t.slots = [x \in 1..Len(s.slots) |-> t.slots[x]]
    BY <1>2, <1>3
  <2> QED BY <2>1, <1>2, <1>4, SeqFrom
<1>6. t \in Slabs(Items)
  BY <1>2, <1>3, <1>5 DEF Slabs
<1>7. \A x \in DOMAIN s.slots : Refs(t, x) = Refs(s, x) + n[x]
  BY <1>2, <1>4 DEF Refs
<1>8. \A x : Refs(s, x) = 0 => Refs(t, x) = 0
  <2> SUFFICES ASSUME NEW x, Refs(s, x) = 0 PROVE Refs(t, x) = 0
    OBVIOUS
  <2>1. CASE x \in DOMAIN s.slots
    <3>1. n[x] = 0
      BY <2>1
    <3> QED BY <2>1, <3>1, <1>7
  <2>2. CASE x \notin DOMAIN s.slots
    BY <2>2, <1>4 DEF Refs
  <2> QED BY <2>1, <2>2
<1>9. SlabOK(t, Items)
  BY <1>2, <1>3, <1>4, <1>6, <1>7, <1>8 DEF SlabOK
<1>10. Same(s, t)
  BY <1>2, <1>4 DEF Same
<1> QED
  BY <1>3, <1>4, <1>7, <1>8, <1>9, <1>10 DEF t

\* One reference to one slot.
LEMMA OnceType ==
  ASSUME NEW Items, NEW s, SlabOK(s, Items), NEW id
  PROVE  /\ Once(s, id) \in [DOMAIN s.slots -> Nat]
         /\ \A x \in DOMAIN s.slots : Once(s, id)[x] = IF x = id THEN 1 ELSE 0
BY DEF Once

\* SetToSeq lists a finite set, each element once.
LEMMA SetToSeqLists ==
  ASSUME NEW S, IsFiniteSet(S)
  PROVE  LET q == SetToSeq(S)
         IN  /\ q \in Seq(S) /\ Len(q) = Cardinality(S) /\ DOMAIN q = 1..Cardinality(S)
             /\ \A a, b \in DOMAIN q : q[a] = q[b] => a = b
<1>1. ExistsBijection(1..Cardinality(S), S) /\ Cardinality(S) \in Nat
  BY FS_CardinalityType
<1>2. PICK f : f \in Bijection(1..Cardinality(S), S)
  BY <1>1 DEF ExistsBijection
<1>3. f \in [1..Cardinality(S) -> S] /\ IsInjective(f)
  BY <1>2 DEF Bijection, Injection
<1>4. SetToSeq(S) \in [1..Cardinality(S) -> S] /\ IsInjective(SetToSeq(S))
  BY <1>3 DEF SetToSeq
<1> QED
  BY <1>1, <1>4 DEF IsInjective

\* Release takes back n[id] references of each slot (Interner.Release): the slots
\* that lose the last one are free, the others keep their items.
LEMMA ReleaseSlab ==
  ASSUME NEW Items, NEW s, SlabOK(s, Items), NEW n \in [DOMAIN s.slots -> Nat]
  PROVE  LET t == Release(s, n)
         IN  /\ SlabOK(t, Items) /\ Same(s, t) /\ DOMAIN t.slots = DOMAIN s.slots
             /\ \A x \in DOMAIN s.slots : t.slots[x].item = s.slots[x].item
             /\ \A x \in DOMAIN s.slots : Refs(t, x) = Less(Refs(s, x), n[x])
             /\ \A x : Refs(s, x) = 0 => Refs(t, x) = 0
             /\ \A h \in Hashes : t.byHash[h] = IF Refs(s, s.byHash[h]) > 0 /\ Refs(t, s.byHash[h]) = 0
                                                THEN 0 ELSE s.byHash[h]
<1> DEFINE t == Release(s, n)
           gone == {x \in DOMAIN s.slots : Less(s.slots[x].refs, n[x]) = 0 /\ s.slots[x].refs > 0}
<1>1. s \in Slabs(Items)
  BY DEF SlabOK
<1>2. /\ s.slots \in Seq([item : Items, refs : Nat]) /\ s.free \in Seq(Nat)
      /\ s.byHash \in [Hashes -> Nat]
      /\ DOMAIN s.slots = 1..Len(s.slots) /\ Len(s.slots) \in Nat
      /\ DOMAIN s.free = 1..Len(s.free) /\ Len(s.free) \in Nat
      /\ \A x \in DOMAIN s.slots : s.slots[x] \in [item : Items, refs : Nat]
      /\ \A x \in DOMAIN s.slots : s.slots[x].refs \in Nat
      /\ \A x \in DOMAIN s.slots : x \in Nat \ {0} /\ Refs(s, x) = s.slots[x].refs
      /\ \A x : Refs(s, x) > 0 => x \in DOMAIN s.slots
      /\ IsFiniteSet(DOMAIN s.slots)
  BY <1>1, SlabShape
<1>3. \A a, b \in Nat : Less(a, b) \in Nat
  BY DEF Less
<1>4. t.slots = [x \in DOMAIN s.slots |-> [s.slots[x] EXCEPT !.refs = Less(@, n[x])]]
  BY DEF Release
<1>5. /\ DOMAIN t.slots = DOMAIN s.slots
      /\ \A x \in DOMAIN s.slots : /\ t.slots[x] \in [item : Items, refs : Nat]
                                   /\ t.slots[x].item = s.slots[x].item
                                   /\ t.slots[x].refs = Less(s.slots[x].refs, n[x])
  <2> SUFFICES ASSUME NEW x \in DOMAIN s.slots
               PROVE  /\ t.slots[x] \in [item : Items, refs : Nat]
                      /\ t.slots[x].item = s.slots[x].item
                      /\ t.slots[x].refs = Less(s.slots[x].refs, n[x])
    BY <1>4
  <2>1. Less(s.slots[x].refs, n[x]) \in Nat /\ s.slots[x] \in [item : Items, refs : Nat]
    BY <1>2, <1>3
  <2>2. t.slots[x] = [s.slots[x] EXCEPT !.refs = Less(s.slots[x].refs, n[x])]
    BY <1>4
  <2> QED BY <2>1, <2>2, SetRefs
<1>6. gone = {x \in DOMAIN t.slots : t.slots[x].refs = 0 /\ s.slots[x].refs > 0}
  BY <1>5
<1>7. /\ t.free = s.free \o SetToSeq(gone)
      /\ t.byHash = [h \in Hashes |-> IF s.byHash[h] \in gone THEN 0 ELSE s.byHash[h]]
      /\ t = [slots |-> t.slots, free |-> t.free, byHash |-> t.byHash]
  BY <1>4, <1>6 DEF Release
<1> HIDE DEF t
<1>8. IsFiniteSet(gone) /\ gone \subseteq DOMAIN s.slots
  BY <1>2, FS_Subset
<1>8a. \A x \in gone : x \in DOMAIN s.slots /\ s.slots[x].refs > 0 /\ t.slots[x].refs = 0
  BY <1>5
<1>8b. \A h \in Hashes : s.byHash[h] \in gone <=>
          Refs(s, s.byHash[h]) > 0 /\ Refs(t, s.byHash[h]) = 0
  <2> SUFFICES ASSUME NEW h \in Hashes
               PROVE  s.byHash[h] \in gone <=>
                        Refs(s, s.byHash[h]) > 0 /\ Refs(t, s.byHash[h]) = 0
    OBVIOUS
  <2> DEFINE x == s.byHash[h]
  <2>1. CASE x \in DOMAIN s.slots
    <3>1. Refs(s, x) = s.slots[x].refs /\ Refs(t, x) = Less(s.slots[x].refs, n[x])
      BY <2>1, <1>2, <1>5 DEF Refs
    <3> QED BY <2>1, <3>1
  <2>2. CASE x \notin DOMAIN s.slots
    BY <2>2, <1>2
  <2> QED BY <2>1, <2>2
<1> HIDE DEF gone
<1> DEFINE q == SetToSeq(gone)
<1>9. /\ q \in Seq(gone) /\ Len(q) \in Nat /\ DOMAIN q = 1..Len(q)
      /\ \A a, b \in DOMAIN q : q[a] = q[b] => a = b
  BY <1>8, SetToSeqLists, FS_CardinalityType
<1>10. \A a \in DOMAIN q : q[a] \in gone
  BY <1>9
<1> HIDE DEF q
<1>11. /\ t.free = s.free \o q
       /\ q \in Seq(Nat)
  <2>1. \A a \in DOMAIN q : q[a] \in Nat
    BY <1>10, <1>8, <1>2
  <2>2. q = [a \in 1..Len(q) |-> q[a]]
    BY <1>9
  <2>3. t.free = s.free \o q
    BY <1>7 DEF q
  <2> QED BY <2>1, <2>2, <2>3, <1>9, SeqFrom
<1>12. /\ t.free \in Seq(Nat) /\ DOMAIN t.free = 1..(Len(s.free) + Len(q))
       /\ \A a \in DOMAIN t.free :
            \/ a \in DOMAIN s.free /\ t.free[a] = s.free[a]
            \/ a \notin DOMAIN s.free /\ a - Len(s.free) \in DOMAIN q
               /\ t.free[a] = q[a - Len(s.free)]
  BY <1>2, <1>9, <1>11, ConcatProperties
<1>13. \A a \in DOMAIN s.free : s.free[a] \in DOMAIN s.slots /\ s.slots[s.free[a]].refs = 0
  BY DEF SlabOK
<1>15. t.slots \in Seq([item : Items, refs : Nat])
  <2>1. t.slots = [x \in 1..Len(s.slots) |-> t.slots[x]]
    BY <1>2, <1>4
  <2> QED BY <2>1, <1>2, <1>5, SeqFrom
<1>16. t.byHash \in [Hashes -> Nat]
  BY <1>2, <1>7
<1>17. t \in Slabs(Items)
  BY <1>7, <1>12, <1>15, <1>16 DEF Slabs
<1>18. \A x \in DOMAIN s.slots : Refs(t, x) = Less(Refs(s, x), n[x])
  BY <1>2, <1>5 DEF Refs
<1>19. \A x : Refs(s, x) = 0 => Refs(t, x) = 0
  <2> SUFFICES ASSUME NEW x, Refs(s, x) = 0 PROVE Refs(t, x) = 0
    OBVIOUS
  <2>1. CASE x \in DOMAIN s.slots
    BY <2>1, <1>18, <1>2 DEF Less
  <2>2. CASE x \notin DOMAIN s.slots
    BY <2>2, <1>5 DEF Refs
  <2> QED BY <2>1, <2>2
<1>20. \A a \in DOMAIN t.free : t.free[a] \in DOMAIN t.slots /\ t.slots[t.free[a]].refs = 0
  <2> SUFFICES ASSUME NEW a \in DOMAIN t.free
               PROVE  t.free[a] \in DOMAIN t.slots /\ t.slots[t.free[a]].refs = 0
    OBVIOUS
  <2>1. CASE a \in DOMAIN s.free
    <3>1. t.free[a] = s.free[a] /\ s.free[a] \in DOMAIN s.slots /\ s.slots[s.free[a]].refs = 0
      BY <2>1, <1>12, <1>13
    <3>2. n[s.free[a]] \in Nat /\ Less(0, n[s.free[a]]) = 0
      BY <3>1 DEF Less
    <3> QED BY <3>1, <3>2, <1>5
  <2>2. CASE a \notin DOMAIN s.free
    BY <2>2, <1>12, <1>10, <1>8a, <1>5
  <2> QED BY <2>1, <2>2
<1>21. \A a, b \in DOMAIN t.free : t.free[a] = t.free[b] => a = b
  <2> SUFFICES ASSUME NEW a \in DOMAIN t.free, NEW b \in DOMAIN t.free, t.free[a] = t.free[b]
               PROVE  a = b
    OBVIOUS
  <2>1. CASE a \in DOMAIN s.free /\ b \in DOMAIN s.free
    BY <2>1, <1>12 DEF SlabOK
  <2>2. CASE a \in DOMAIN s.free /\ b \notin DOMAIN s.free
    <3>1. t.free[b] \in gone /\ t.free[a] = s.free[a]
      BY <2>2, <1>12, <1>10
    <3> QED BY <3>1, <2>2, <1>13, <1>8a
  <2>3. CASE a \notin DOMAIN s.free /\ b \in DOMAIN s.free
    <3>1. t.free[a] \in gone /\ t.free[b] = s.free[b]
      BY <2>3, <1>12, <1>10
    <3> QED BY <3>1, <2>3, <1>13, <1>8a
  <2>4. CASE a \notin DOMAIN s.free /\ b \notin DOMAIN s.free
    <3>1. /\ a - Len(s.free) \in DOMAIN q /\ t.free[a] = q[a - Len(s.free)]
          /\ b - Len(s.free) \in DOMAIN q /\ t.free[b] = q[b - Len(s.free)]
      BY <2>4, <1>12
    <3>2. a - Len(s.free) = b - Len(s.free)
      BY <3>1, <1>9
    <3>3. a \in Int /\ b \in Int
      BY <1>12, <1>2, <1>9
    <3> QED BY <3>2, <3>3, <1>2
  <2> QED BY <2>1, <2>2, <2>3, <2>4
<1>22. SlabOK(t, Items)
  BY <1>17, <1>20, <1>21 DEF SlabOK
<1>23. Same(s, t)
  BY <1>2, <1>5 DEF Same
<1>24. \A h \in Hashes : t.byHash[h] = IF Refs(s, s.byHash[h]) > 0 /\ Refs(t, s.byHash[h]) = 0
                                       THEN 0 ELSE s.byHash[h]
  BY <1>7, <1>8b
<1> QED
  BY <1>5, <1>18, <1>19, <1>22, <1>23, <1>24 DEF t

\* Put: one reference more to an id that holds the item.
LEMMA PutSlab ==
  ASSUME NEW Items, NEW s, SlabOK(s, Items), NEW h \in Hashes, NEW item \in Items
  PROVE  LET r == Put(s, h, item)
         IN  /\ SlabOK(r.slab, Items) /\ Same(s, r.slab) /\ r.id \in Nat \ {0}
             /\ r.slab.slots[r.id].item = item
             /\ \A x : Refs(r.slab, x) = Refs(s, x) + (IF x = r.id THEN 1 ELSE 0)
<1> DEFINE r  == Put(s, h, item)
           id == Find(s, h, {item})
<1>1. s \in Slabs(Items)
  BY DEF SlabOK
<1>2. \A x : Refs(s, x) \in Nat /\ (Refs(s, x) > 0 => x \in DOMAIN s.slots /\ x \in Nat \ {0})
  BY <1>1, SlabShape
<1>3. CASE id = 0
  <2>1. r.id = NextId(s) /\ r.slab = Add(s, h, item)
    BY <1>3 DEF Put
  <2>2. /\ SlabOK(Add(s, h, item), Items) /\ Same(s, Add(s, h, item))
        /\ NextId(s) \in Nat \ {0} /\ Refs(s, NextId(s)) = 0
        /\ Add(s, h, item).slots[NextId(s)].item = item
        /\ \A x : Refs(Add(s, h, item), x) = IF x = NextId(s) THEN 1 ELSE Refs(s, x)
    BY AddSlab
  <2> QED BY <2>1, <2>2, <1>2
<1>4. CASE id # 0
  <2>1. r.id = id /\ r.slab = Retain(s, Once(s, id))
    BY <1>4 DEF Put
  <2>2. Refs(s, id) > 0 /\ s.slots[id].item = item
    BY <1>4 DEF Find
  <2>3. id \in DOMAIN s.slots /\ id \in Nat \ {0}
    BY <2>2, <1>2
  <2> HIDE DEF r, id
  <2>4. /\ Once(s, id) \in [DOMAIN s.slots -> Nat]
        /\ \A x \in DOMAIN s.slots : Once(s, id)[x] = IF x = id THEN 1 ELSE 0
    BY OnceType
  <2>5. \A x \in DOMAIN s.slots : Once(s, id)[x] > 0 => Refs(s, x) > 0
    BY <2>2, <2>4
  <2> DEFINE t == Retain(s, Once(s, id))
  <2>6. /\ SlabOK(t, Items) /\ Same(s, t)
        /\ \A x \in DOMAIN s.slots : t.slots[x].item = s.slots[x].item
        /\ \A x \in DOMAIN s.slots : Refs(t, x) = Refs(s, x) + Once(s, id)[x]
        /\ \A x : Refs(s, x) = 0 => Refs(t, x) = 0
    BY <2>4, <2>5, RetainSlab
  <2> HIDE DEF t
  <2>7. \A x : Refs(t, x) = Refs(s, x) + (IF x = id THEN 1 ELSE 0)
    <3> SUFFICES ASSUME NEW x PROVE Refs(t, x) = Refs(s, x) + (IF x = id THEN 1 ELSE 0)
      OBVIOUS
    <3>1. CASE x \in DOMAIN s.slots
      BY <3>1, <2>4, <2>6, <1>2
    <3>2. CASE x \notin DOMAIN s.slots
      BY <3>2, <2>3, <2>6, <1>2
    <3> QED BY <3>1, <3>2
  <2> QED BY <2>1, <2>2, <2>3, <2>6, <2>7 DEF t, r
<1> QED BY <1>3, <1>4 DEF r, id

---------------------------------------------------------------------------
(* Counting what is spread over columns or slots *)

Spread(F) == UNION {{k} \X F[k] : k \in DOMAIN F}

\* What is in the union of tagged sets.
LEMMA SpreadMember ==
  ASSUME NEW F, NEW k, NEW x
  PROVE  <<k, x>> \in Spread(F) <=> k \in DOMAIN F /\ x \in F[k]
BY DEF Spread

\* Its members are pairs.
LEMMA SpreadPair ==
  ASSUME NEW F, NEW p \in Spread(F)
  PROVE  /\ p = <<p[1], p[2]>> /\ p[1] \in DOMAIN F /\ p[2] \in F[p[1]]
BY DEF Spread

\* It is finite when the sets and the tags are.
LEMMA SpreadFinite ==
  ASSUME NEW F, IsFiniteSet(DOMAIN F), \A k \in DOMAIN F : IsFiniteSet(F[k])
  PROVE  IsFiniteSet(Spread(F)) /\ Cardinality(Spread(F)) \in Nat
<1> DEFINE S == {{k} \X F[k] : k \in DOMAIN F}
           f == [k \in DOMAIN F |-> {k} \X F[k]]
<1>1. f \in [DOMAIN F -> S] /\ \A T \in S : \E k \in DOMAIN F : f[k] = T
  OBVIOUS
<1>2. f \in Surjection(DOMAIN F, S)
  <2> HIDE DEF f
  <2> QED BY <1>1, Fun_IsSurj
<1>3. IsFiniteSet(S)
  BY <1>2, FS_Surjection
<1>4. \A T \in S : IsFiniteSet(T)
  BY CardTagged
<1>5. IsFiniteSet(UNION S)
  <2> HIDE DEF S
  <2> QED BY <1>3, <1>4, FS_UNION
<1> QED
  BY <1>5, FS_CardinalityType DEF Spread

\* One part changes.
LEMMA SpreadChange ==
  ASSUME NEW F, NEW G, IsFiniteSet(DOMAIN F), DOMAIN G = DOMAIN F,
         \A k \in DOMAIN F : IsFiniteSet(F[k]), NEW k \in DOMAIN F, IsFiniteSet(G[k]),
         \A j \in DOMAIN F : j # k => G[j] = F[j]
  PROVE  /\ Cardinality(Spread(F)) \in Nat /\ Cardinality(Spread(G)) \in Nat
         /\ Cardinality(F[k]) \in Nat /\ Cardinality(G[k]) \in Nat
         /\ Cardinality(Spread(G)) + Cardinality(F[k]) = Cardinality(Spread(F)) + Cardinality(G[k])
<1>1. IsFiniteSet(Spread(F)) /\ IsFiniteSet(Spread(G))
  <2>1. \A j \in DOMAIN G : IsFiniteSet(G[j])
    OBVIOUS
  <2> QED BY <2>1, SpreadFinite
<1> DEFINE rest == Spread(F) \ ({k} \X F[k])
<1>2. /\ IsFiniteSet({k} \X F[k]) /\ Cardinality({k} \X F[k]) = Cardinality(F[k])
      /\ IsFiniteSet({k} \X G[k]) /\ Cardinality({k} \X G[k]) = Cardinality(G[k])
  BY CardTagged
<1>3. {k} \X F[k] \subseteq Spread(F) /\ {k} \X G[k] \subseteq Spread(G)
  BY DEF Spread
<1>4. Spread(G) \ ({k} \X G[k]) = rest
  <2>1. ASSUME NEW p \in Spread(G), p \notin {k} \X G[k] PROVE p \in rest
    <3>1. p = <<p[1], p[2]>> /\ p[1] \in DOMAIN F /\ p[2] \in G[p[1]]
      BY <2>1, SpreadPair
    <3>2. p[1] # k
      BY <3>1, <2>1
    <3>3. <<p[1], p[2]>> \in Spread(F)
      BY <3>1, <3>2, SpreadMember
    <3> QED BY <3>1, <3>2, <3>3
  <2>2. ASSUME NEW p \in rest PROVE p \in Spread(G) \ ({k} \X G[k])
    <3>1. p = <<p[1], p[2]>> /\ p[1] \in DOMAIN F /\ p[2] \in F[p[1]]
      BY <2>2, SpreadPair
    <3>2. p[1] # k
      BY <3>1, <2>2
    <3>3. <<p[1], p[2]>> \in Spread(G)
      BY <3>1, <3>2, SpreadMember
    <3> QED BY <3>1, <3>2, <3>3
  <2> QED BY <2>1, <2>2
<1>5. /\ Cardinality(rest) = Cardinality(Spread(F)) - Cardinality({k} \X F[k])
      /\ Cardinality(Spread(F)) \in Nat /\ Cardinality({k} \X F[k]) \in Nat
  BY <1>1, <1>3, CardSubset
<1>6. /\ Cardinality(rest) = Cardinality(Spread(G)) - Cardinality({k} \X G[k])
      /\ Cardinality(Spread(G)) \in Nat /\ Cardinality({k} \X G[k]) \in Nat
  BY <1>1, <1>3, <1>4, CardSubset
<1> QED
  BY <1>2, <1>5, <1>6

\* Some parts lose one member each.
LEMMA SpreadMinus ==
  ASSUME NEW F, NEW G, IsFiniteSet(DOMAIN F), DOMAIN G = DOMAIN F,
         \A k \in DOMAIN F : IsFiniteSet(F[k]),
         NEW S, S \subseteq DOMAIN F, NEW x,
         \A k \in S : x[k] \in F[k] /\ G[k] = F[k] \ {x[k]},
         \A k \in DOMAIN F \ S : G[k] = F[k]
  PROVE  /\ Cardinality(Spread(F)) \in Nat /\ Cardinality(S) \in Nat
         /\ Cardinality(S) <= Cardinality(Spread(F))
         /\ Cardinality(Spread(G)) = Cardinality(Spread(F)) - Cardinality(S)
<1> DEFINE f == [k \in S |-> <<k, x[k]>>]
           R == {<<k, x[k]>> : k \in S}
<1>1. IsFiniteSet(Spread(F))
  BY SpreadFinite
<1>2. IsFiniteSet(S)
  BY FS_Subset
<1>3. IsFiniteSet(R) /\ Cardinality(R) = Cardinality(S)
  <2>1. /\ f \in [S -> R]
        /\ \A a, b \in S : f[a] = f[b] => a = b
        /\ \A y \in R : \E a \in S : f[a] = y
    OBVIOUS
  <2> HIDE DEF f, R
  <2> QED BY <2>1, <1>2, CardImage
<1>4. R \subseteq Spread(F)
  BY SpreadMember
<1>5. Spread(G) = Spread(F) \ R
  <2>1. ASSUME NEW p \in Spread(G) PROVE p \in Spread(F) \ R
    <3>1. p = <<p[1], p[2]>> /\ p[1] \in DOMAIN F /\ p[2] \in G[p[1]]
      BY <2>1, SpreadPair
    <3>2. p[2] \in F[p[1]] /\ ~(p[1] \in S /\ p[2] = x[p[1]])
      BY <3>1
    <3>3. <<p[1], p[2]>> \in Spread(F)
      BY <3>1, <3>2, SpreadMember
    <3>4. \A k \in S : <<k, x[k]>> # p
      BY <3>1, <3>2
    <3> QED BY <3>1, <3>3, <3>4
  <2>2. ASSUME NEW p \in Spread(F), p \notin R PROVE p \in Spread(G)
    <3>1. p = <<p[1], p[2]>> /\ p[1] \in DOMAIN F /\ p[2] \in F[p[1]]
      BY <2>2, SpreadPair
    <3>2. ~(p[1] \in S /\ p[2] = x[p[1]])
      BY <3>1, <2>2
    <3>3. p[2] \in G[p[1]]
      BY <3>1, <3>2
    <3> QED BY <3>1, <3>3, SpreadMember
  <2> QED BY <2>1, <2>2
<1> HIDE DEF R
<1> QED
  BY <1>1, <1>3, <1>4, <1>5, CardSubset

---------------------------------------------------------------------------
(* A column *)

AnyColumn ==
  [kind : {"none", "dict", "raw"}, ids : [Idx -> Nat], present : SUBSET Idx,
   dict : Slabs(Nat), index : SUBSET (Nat \X (0..(SeqWidth - 1))), card : Nat]

\* A column on its own: a dictionary only in dictionary mode, with an entry for each cell.
ColShape(c) ==
  /\ c \in AnyColumn
  /\ SlabOK(c.dict, Nat \ {0})
  /\ c.card = Cardinality(DictIds(c))
  /\ c.kind # "dict" => DOMAIN c.dict.slots = {}
  /\ c.kind = "none" => c.present = {}
  /\ c.kind = "dict" => \A i \in c.present : c.ids[i] \in DictIds(c)

CellsAt(c, e) == {i \in c.present : c.ids[i] = e}

\* And with the references that the cells are.
ColOK(c) ==
  /\ ColShape(c) /\ c.card <= MaxDict
  /\ c.kind = "dict" => \A e \in Nat : Refs(c.dict, e) = Cardinality(CellsAt(c, e))

\* What in a column refers to a text: a raw cell, or the dictionary.
Holds(c, id) == IF c.kind = "raw" THEN CellsAt(c, id)
                ELSE {e \in DictIds(c) : c.dict.slots[e].item = id}
Holder(c, i) == IF c.kind = "raw" THEN i ELSE c.ids[i]

\* The ring is finite.
LEMMA IdxFinite ==
  /\ IsFiniteSet(Idx) /\ Idx \subseteq Nat
  /\ \A c \in AnyColumn : \A e : IsFiniteSet(CellsAt(c, e)) /\ IsFiniteSet(c.present)
<1>1. Cap \in Nat /\ IsFiniteSet(Idx) /\ Idx \subseteq Nat
  BY StoreAssumption, FS_Interval DEF Idx
<1>2. ASSUME NEW c \in AnyColumn, NEW e PROVE IsFiniteSet(CellsAt(c, e)) /\ IsFiniteSet(c.present)
  <2>1. c.present \subseteq Idx /\ CellsAt(c, e) \subseteq Idx
    BY <1>2 DEF AnyColumn, CellsAt
  <2> QED BY <2>1, <1>1, FS_Subset
<1> QED BY <1>1, <1>2

\* The fields of a column.
LEMMA ColumnType ==
  ASSUME NEW c \in AnyColumn
  PROVE  /\ c.kind \in {"none", "dict", "raw"} /\ c.ids \in [Idx -> Nat] /\ c.present \subseteq Idx
         /\ c.dict \in Slabs(Nat) /\ c.index \subseteq Nat \X (0..(SeqWidth - 1)) /\ c.card \in Nat
         /\ \A x : Refs(c.dict, x) \in Nat /\ (Refs(c.dict, x) > 0 <=> x \in DictIds(c))
         /\ IsFiniteSet(DictIds(c)) /\ Cardinality(DictIds(c)) \in Nat /\ DictIds(c) \subseteq Nat \ {0}
<1>1. /\ c.kind \in {"none", "dict", "raw"} /\ c.ids \in [Idx -> Nat] /\ c.present \subseteq Idx
      /\ c.dict \in Slabs(Nat) /\ c.index \subseteq Nat \X (0..(SeqWidth - 1)) /\ c.card \in Nat
  BY DEF AnyColumn
<1>2. /\ \A x : Refs(c.dict, x) \in Nat /\ (Refs(c.dict, x) > 0 => x \in DOMAIN c.dict.slots)
      /\ \A x \in DOMAIN c.dict.slots : x \in Nat \ {0} /\ Refs(c.dict, x) = c.dict.slots[x].refs
      /\ IsFiniteSet(DOMAIN c.dict.slots)
  <2>1. c.dict \in Slabs(Nat)
    BY <1>1
  <2> QED BY <2>1, SlabRefs
<1>3. DictIds(c) \subseteq DOMAIN c.dict.slots
  BY DEF DictIds
<1>4. \A x : Refs(c.dict, x) > 0 <=> x \in DictIds(c)
  BY <1>2 DEF DictIds
<1> QED
  BY <1>1, <1>2, <1>3, <1>4, FS_Subset, FS_CardinalityType

WithCell(c, i, v, p) == [c EXCEPT !.ids[i] = v, !.present = p]
WithDict(c, d, x, n) == [c EXCEPT !.dict = d, !.index = x, !.card = n]

\* A cell changes, nothing else of the column does.
LEMMA ColumnExcept ==
  ASSUME NEW c \in AnyColumn, NEW i \in Idx, NEW v \in Nat, NEW p \in SUBSET Idx
  PROVE  LET t == WithCell(c, i, v, p)
         IN  /\ t.kind = c.kind /\ t.ids = [c.ids EXCEPT ![i] = v] /\ t.present = p
             /\ t.dict = c.dict /\ t.index = c.index /\ t.card = c.card /\ t \in AnyColumn
<1> DEFINE K == {"none", "dict", "raw"}
           P == SUBSET Idx
           D == Slabs(Nat)
           X == SUBSET (Nat \X (0..(SeqWidth - 1)))
<1>1. c \in [kind : K, ids : [Idx -> Nat], present : P, dict : D, index : X, card : Nat] /\ p \in P
  BY DEF AnyColumn
<1> SUFFICES LET t == WithCell(c, i, v, p)
             IN  /\ t.kind = c.kind /\ t.ids = [c.ids EXCEPT ![i] = v] /\ t.present = p
                 /\ t.dict = c.dict /\ t.index = c.index /\ t.card = c.card
                 /\ t \in [kind : K, ids : [Idx -> Nat], present : P, dict : D, index : X, card : Nat]
  BY DEF AnyColumn
<1> HIDE DEF K, P, D, X
<1> QED BY <1>1 DEF WithCell

\* The dictionary, the index and the cardinality change, no cell does.
LEMMA ColumnRest ==
  ASSUME NEW c \in AnyColumn, NEW d \in Slabs(Nat), NEW x \in SUBSET (Nat \X (0..(SeqWidth - 1))),
         NEW n \in Nat
  PROVE  LET t == WithDict(c, d, x, n)
         IN  /\ t.kind = c.kind /\ t.ids = c.ids /\ t.present = c.present
             /\ t.dict = d /\ t.index = x /\ t.card = n /\ t \in AnyColumn
<1> DEFINE K == {"none", "dict", "raw"}
           P == SUBSET Idx
           D == Slabs(Nat)
           X == SUBSET (Nat \X (0..(SeqWidth - 1)))
<1>1. c \in [kind : K, ids : [Idx -> Nat], present : P, dict : D, index : X, card : Nat]
      /\ d \in D /\ x \in X
  BY DEF AnyColumn
<1> SUFFICES LET t == WithDict(c, d, x, n)
             IN  /\ t.kind = c.kind /\ t.ids = c.ids /\ t.present = c.present
                 /\ t.dict = d /\ t.index = x /\ t.card = n
                 /\ t \in [kind : K, ids : [Idx -> Nat], present : P, dict : D, index : X, card : Nat]
  BY DEF AnyColumn
<1> HIDE DEF K, P, D, X
<1> QED BY <1>1 DEF WithDict

\* A column refers to a text finitely often.
LEMMA HoldsFinite ==
  ASSUME NEW c \in AnyColumn, NEW id
  PROVE  IsFiniteSet(Holds(c, id)) /\ Cardinality(Holds(c, id)) \in Nat
<1>1. IsFiniteSet(CellsAt(c, id)) /\ IsFiniteSet(DictIds(c))
  BY IdxFinite, ColumnType
<1>2. {e \in DictIds(c) : c.dict.slots[e].item = id} \subseteq DictIds(c)
  OBVIOUS
<1>3. IsFiniteSet(Holds(c, id))
  BY <1>1, <1>2, FS_Subset DEF Holds
<1> QED BY <1>3, FS_CardinalityType

\* A cell that goes: the others keep their texts, and the column lets go of the
\* text of the cell if nothing else in it refers to that.
LEMMA VacateColumn ==
  ASSUME NEW c, ColOK(c), NEW i \in Idx
  PROVE  LET t == Vacated(c, i)
         IN  /\ ColOK(t) /\ t.kind = c.kind /\ t.present = c.present \ {i}
             /\ \A j \in Idx \ {i} : TextOf(t, j) = TextOf(c, j)
             /\ \A id \in Nat \ {0} :
                  IF LetGo(c, i) = id
                  THEN Holder(c, i) \in Holds(c, id) /\ Holds(t, id) = Holds(c, id) \ {Holder(c, i)}
                  ELSE Holds(t, id) = Holds(c, id)
<1> DEFINE t == Vacated(c, i)
<1>1. /\ ColShape(c) /\ c \in AnyColumn /\ SlabOK(c.dict, Nat \ {0}) /\ c.card = Cardinality(DictIds(c))
      /\ c.kind # "dict" => DOMAIN c.dict.slots = {}
      /\ c.kind = "none" => c.present = {}
      /\ c.kind = "dict" => \A j \in c.present : c.ids[j] \in DictIds(c)
      /\ c.card <= MaxDict
      /\ c.kind = "dict" => \A e \in Nat : Refs(c.dict, e) = Cardinality(CellsAt(c, e))
  BY DEF ColOK, ColShape
<1>2. /\ c.kind \in {"none", "dict", "raw"} /\ c.ids \in [Idx -> Nat] /\ c.present \subseteq Idx
      /\ c.dict \in Slabs(Nat) /\ c.index \subseteq Nat \X (0..(SeqWidth - 1)) /\ c.card \in Nat
      /\ \A x : Refs(c.dict, x) \in Nat /\ (Refs(c.dict, x) > 0 <=> x \in DictIds(c))
      /\ IsFiniteSet(DictIds(c)) /\ Cardinality(DictIds(c)) \in Nat /\ DictIds(c) \subseteq Nat \ {0}
  BY <1>1, ColumnType
<1>3. CASE i \notin c.present
  <2>1. t = c /\ LetGo(c, i) = 0
    <3>1. TextOf(c, i) = 0
      BY <1>3 DEF TextOf
    <3> QED BY <3>1, <1>3 DEF Vacated, LetGo
  <2>2. c.present = c.present \ {i}
    BY <1>3
  <2> HIDE DEF t
  <2>3. \A id \in Nat \ {0} : LetGo(c, i) # id
    BY <2>1
  <2> QED BY <2>1, <2>2, <2>3 DEF t
<1>4. CASE i \in c.present /\ c.kind = "raw"
  <2>1. t = [c EXCEPT !.ids[i] = 0, !.present = c.present \ {i}]
    BY <1>4 DEF Vacated
  <2>2. /\ t.kind = c.kind /\ t.ids = [c.ids EXCEPT ![i] = 0] /\ t.present = c.present \ {i}
        /\ t.dict = c.dict /\ t.index = c.index /\ t.card = c.card /\ t \in AnyColumn
    <3>1. 0 \in Nat /\ c.present \ {i} \in SUBSET Idx
      BY <1>2
    <3>2. t = WithCell(c, i, 0, c.present \ {i})
      BY <2>1 DEF WithCell
    <3> HIDE DEF t
    <3> QED BY <3>1, <3>2, <1>1, ColumnExcept
  <2> HIDE DEF t
  <2>3. \A j \in Idx \ {i} : t.ids[j] = c.ids[j]
    BY <2>2, <1>2
  <2>4. DictIds(t) = DictIds(c)
    BY <2>2 DEF DictIds
  <2>5. ColOK(t)
    BY <2>2, <2>4, <1>1, <1>4 DEF ColOK, ColShape
  <2>6. \A j \in Idx \ {i} : TextOf(t, j) = TextOf(c, j)
    BY <2>2, <2>3, <1>4 DEF TextOf
  <2>7. LetGo(c, i) = c.ids[i] /\ Holder(c, i) = i
    BY <1>4 DEF LetGo, TextOf, Holder
  <2>8. ASSUME NEW id \in Nat \ {0}
        PROVE  IF LetGo(c, i) = id
               THEN Holder(c, i) \in Holds(c, id) /\ Holds(t, id) = Holds(c, id) \ {Holder(c, i)}
               ELSE Holds(t, id) = Holds(c, id)
    <3>1. Holds(c, id) = {j \in c.present : c.ids[j] = id} /\ Holds(t, id) = {j \in t.present : t.ids[j] = id}
      BY <1>4, <2>2 DEF Holds, CellsAt
    <3>2. Holds(t, id) = {j \in c.present : c.ids[j] = id} \ {i}
      BY <3>1, <2>2, <2>3, <1>2
    <3> QED BY <3>1, <3>2, <2>7, <1>4
  <2> QED BY <2>2, <2>5, <2>6, <2>8 DEF t
<1>5. CASE i \in c.present /\ c.kind = "dict"
  <2> DEFINE x == c.ids[i]
             last == Refs(c.dict, x) = 1
             r == Release(c.dict, Once(c.dict, x))
             ix == IF last THEN {p \in c.index : p[1] # x} ELSE c.index
             cd == IF last THEN c.card - 1 ELSE c.card
  <2>1. t = [c EXCEPT !.ids[i] = 0, !.present = c.present \ {i}, !.dict = r, !.index = ix, !.card = cd]
    BY <1>5 DEF Vacated
  <2>2. x \in DictIds(c) /\ x \in Nat \ {0} /\ Refs(c.dict, x) > 0 /\ x \in DOMAIN c.dict.slots
    BY <1>1, <1>2, <1>5 DEF DictIds
  <2>3. /\ Once(c.dict, x) \in [DOMAIN c.dict.slots -> Nat]
        /\ \A y \in DOMAIN c.dict.slots : Once(c.dict, x)[y] = IF y = x THEN 1 ELSE 0
    BY <1>1, OnceType
  <2>4. /\ SlabOK(r, Nat \ {0}) /\ DOMAIN r.slots = DOMAIN c.dict.slots
        /\ \A y \in DOMAIN c.dict.slots : r.slots[y].item = c.dict.slots[y].item
        /\ \A y \in DOMAIN c.dict.slots : Refs(r, y) = Less(Refs(c.dict, y), Once(c.dict, x)[y])
        /\ \A y : Refs(c.dict, y) = 0 => Refs(r, y) = 0
    BY <1>1, <2>3, ReleaseSlab
  <2>5. r \in Slabs(Nat)
    <3>1. r \in Slabs(Nat \ {0})
      BY <2>4 DEF SlabOK
    <3> QED BY <3>1, SlabsNat
  <2> HIDE DEF r
  <2>6. \A y : Refs(r, y) = IF y = x THEN Refs(c.dict, y) - 1 ELSE Refs(c.dict, y)
    <3> SUFFICES ASSUME NEW y PROVE Refs(r, y) = IF y = x THEN Refs(c.dict, y) - 1 ELSE Refs(c.dict, y)
      OBVIOUS
    <3>1. Refs(c.dict, y) \in Nat /\ (Refs(c.dict, y) > 0 => y \in DOMAIN c.dict.slots)
      BY <1>2 DEF DictIds
    <3>2. CASE y \in DOMAIN c.dict.slots
      <4>1. Refs(r, y) = Less(Refs(c.dict, y), IF y = x THEN 1 ELSE 0)
        BY <2>3, <2>4, <3>2
      <4> QED BY <4>1, <3>1, <2>2 DEF Less
    <3>3. CASE y \notin DOMAIN c.dict.slots
      BY <3>3, <3>1, <2>2, <2>4
    <3> QED BY <3>2, <3>3
  <2>7. /\ cd \in Nat /\ cd <= MaxDict /\ ix \subseteq Nat \X (0..(SeqWidth - 1))
        /\ last => cd = c.card - 1
    <3>1. c.card > 0
      <4>1. Cardinality(DictIds(c)) \in Nat \ {0}
        BY <2>2, <1>2, CardMinus
      <4> QED BY <4>1, <1>1
    <3> QED BY <3>1, <1>2, <1>1, StoreAssumption
  <2> HIDE DEF ix, cd
  <2>8. /\ t.kind = c.kind /\ t.ids = [c.ids EXCEPT ![i] = 0] /\ t.present = c.present \ {i}
        /\ t.dict = r /\ t.index = ix /\ t.card = cd /\ t \in AnyColumn
    <3>1. 0 \in Nat /\ c.present \ {i} \in SUBSET Idx
      BY <1>2
    <3> DEFINE m == WithCell(c, i, 0, c.present \ {i})
    <3>2. /\ m.kind = c.kind /\ m.ids = [c.ids EXCEPT ![i] = 0] /\ m.present = c.present \ {i}
          /\ m \in AnyColumn
      BY <3>1, <1>1, ColumnExcept
    <3>3. t = WithDict(m, r, ix, cd)
      BY <2>1 DEF WithCell, WithDict
    <3> HIDE DEF m, t
    <3> QED BY <3>2, <3>3, <2>5, <2>7, ColumnRest
  <2> HIDE DEF t
  <2>9. \A j \in Idx \ {i} : t.ids[j] = c.ids[j]
    BY <2>8, <1>2
  <2>10. \A y : y \in DictIds(t) <=> Refs(r, y) > 0
    BY <2>8, ColumnType
  <2>11. DictIds(t) = IF last THEN DictIds(c) \ {x} ELSE DictIds(c)
    <3>1. \A y : y \in DictIds(t) <=> y \in DictIds(c) /\ ~(last /\ y = x)
      <4> SUFFICES ASSUME NEW y PROVE y \in DictIds(t) <=> y \in DictIds(c) /\ ~(last /\ y = x)
        OBVIOUS
      <4>1. y \in DictIds(t) <=> Refs(r, y) > 0
        BY <2>10
      <4>2. Refs(c.dict, y) \in Nat /\ (Refs(c.dict, y) > 0 <=> y \in DictIds(c))
        BY <1>2
      <4>3. Refs(r, y) = IF y = x THEN Refs(c.dict, y) - 1 ELSE Refs(c.dict, y)
        BY <2>6
      <4> QED BY <4>1, <4>2, <4>3, <2>2
    <3> QED BY <3>1
  <2>12. t.card = Cardinality(DictIds(t))
    <3>1. CASE last
      BY <3>1, <2>11, <2>8, <2>7, <1>1, <1>2, <2>2, CardMinus
    <3>2. CASE ~last
      BY <3>2, <2>11, <2>8, <1>1 DEF cd
    <3> QED BY <3>1, <3>2
  <2>13. \A j \in t.present : t.ids[j] \in DictIds(t)
    <3> SUFFICES ASSUME NEW j \in t.present PROVE t.ids[j] \in DictIds(t)
      OBVIOUS
    <3>1. j \in c.present /\ j # i /\ t.ids[j] = c.ids[j] /\ c.ids[j] \in DictIds(c) /\ c.ids[j] \in Nat
      BY <2>8, <2>9, <1>1, <1>2, <1>5
    <3>2. CASE last /\ c.ids[j] = x
      <4>1. CellsAt(c, x) \ {i} # {} /\ i \in CellsAt(c, x)
        BY <3>1, <3>2, <1>5 DEF CellsAt
      <4>2. IsFiniteSet(CellsAt(c, x)) /\ Cardinality(CellsAt(c, x)) = 1
        BY <1>1, <1>5, <2>2, <3>2, IdxFinite
      <4>3. Cardinality(CellsAt(c, x) \ {i}) = 0 /\ IsFiniteSet(CellsAt(c, x) \ {i})
        BY <4>1, <4>2, CardMinus
      <4> QED BY <4>1, <4>3, FS_EmptySet
    <3> QED BY <3>1, <3>2, <2>11
  <2>14. ColShape(t)
    BY <2>4, <2>8, <2>12, <2>13, <1>5 DEF ColShape
  <2>15. \A e \in Nat : Refs(t.dict, e) = Cardinality(CellsAt(t, e))
    <3> SUFFICES ASSUME NEW e \in Nat PROVE Refs(t.dict, e) = Cardinality(CellsAt(t, e))
      OBVIOUS
    <3>1. IsFiniteSet(CellsAt(c, e)) /\ Refs(c.dict, e) = Cardinality(CellsAt(c, e))
      BY <1>1, <1>5, IdxFinite
    <3>2. CellsAt(t, e) = IF e = x THEN CellsAt(c, e) \ {i} ELSE CellsAt(c, e)
      BY <2>8, <2>9, <1>2, <1>5 DEF CellsAt
    <3>3. CASE e = x
      <4>1. i \in CellsAt(c, e)
        BY <3>3, <1>5 DEF CellsAt
      <4>2. Cardinality(CellsAt(c, e) \ {i}) = Cardinality(CellsAt(c, e)) - 1
        BY <3>1, <4>1, CardMinus
      <4> QED BY <3>1, <3>2, <3>3, <4>2, <2>6, <2>8
    <3>4. CASE e # x
      BY <3>1, <3>2, <3>4, <2>6, <2>8
    <3> QED BY <3>3, <3>4
  <2>16. ColOK(t)
    BY <2>14, <2>15, <2>7, <2>8 DEF ColOK
  <2>17. \A j \in Idx \ {i} : TextOf(t, j) = TextOf(c, j)
    <3> SUFFICES ASSUME NEW j \in Idx \ {i} PROVE TextOf(t, j) = TextOf(c, j)
      OBVIOUS
    <3>1. (j \in t.present <=> j \in c.present) /\ t.ids[j] = c.ids[j]
      BY <2>8, <2>9
    <3> QED BY <3>1, <2>8, <2>4 DEF TextOf
  <2>18. /\ LetGo(c, i) = IF last THEN c.dict.slots[x].item ELSE 0
         /\ Holder(c, i) = x
    BY <1>5, <2>2 DEF LetGo, TextOf, Holder
  <2>19. ASSUME NEW id \in Nat \ {0}
         PROVE  IF LetGo(c, i) = id
                THEN Holder(c, i) \in Holds(c, id) /\ Holds(t, id) = Holds(c, id) \ {Holder(c, i)}
                ELSE Holds(t, id) = Holds(c, id)
    <3>1. /\ Holds(c, id) = {e \in DictIds(c) : c.dict.slots[e].item = id}
          /\ Holds(t, id) = {e \in DictIds(t) : r.slots[e].item = id}
      BY <1>5, <2>8 DEF Holds
    <3>2. \A e \in DictIds(c) : r.slots[e].item = c.dict.slots[e].item
      BY <2>4 DEF DictIds
    <3>3. CASE last
      <4>1. Holds(t, id) = Holds(c, id) \ {x}
        BY <3>1, <3>2, <3>3, <2>11
      <4> QED BY <4>1, <3>1, <3>3, <2>18, <2>2
    <3>4. CASE ~last
      <4>1. Holds(t, id) = Holds(c, id)
        BY <3>1, <3>2, <3>4, <2>11
      <4> QED BY <4>1, <3>4, <2>18
    <3> QED BY <3>3, <3>4
  <2> QED BY <2>8, <2>16, <2>17, <2>19 DEF t
<1> QED
  <2>1. i \in c.present => c.kind \in {"dict", "raw"}
    BY <1>1, <1>2
  <2> QED BY <2>1, <1>3, <1>4, <1>5

---------------------------------------------------------------------------
(* The database *)

Pair == [key : Nat, val : Nat, blob : BOOLEAN]

Dbs == [intern : Slabs(Texts), blobs : Slabs(Texts), col : [Keys -> AnyColumn],
        pairs : [Idx -> Seq(Pair)], ansi : [Idx -> Nat], text : [Idx -> BOOLEAN],
        count : [Keys -> Nat], seen : Nat]

\* What refers to a text or a blob, by column or by slot.
HoldF(d, id) == [k \in Keys |-> Holds(d.col[k], id)]
KeyF(d, id)  == [i \in Idx |-> {n \in DOMAIN d.pairs[i] : d.pairs[i][n].key = id}]
ValF(d, id)  == [i \in Idx |-> {n \in DOMAIN d.pairs[i] : ~d.pairs[i][n].blob /\ d.pairs[i][n].val = id}]
BlobF(d, id) == [i \in Idx |-> {n \in DOMAIN d.pairs[i] : d.pairs[i][n].blob /\ d.pairs[i][n].val = id}]

Count(F) == Cardinality(Spread(F))

InternExact(d) ==
  \A id \in Nat \ {0} :
    Refs(d.intern, id) = Count(HoldF(d, id)) + Count(KeyF(d, id)) + Count(ValF(d, id))
BlobsExact(d) ==
  \A id \in Nat \ {0} : Refs(d.blobs, id) = Count(BlobF(d, id)) + Cardinality(AnsiUses(d, id))

\* The invariant on the database; in the middle of a change one column may not have
\* the cell of an entry yet.
DbShape(d) ==
  /\ d \in Dbs
  /\ SlabOK(d.intern, Texts) /\ SlabOK(d.blobs, Texts)
  /\ \A k \in Keys : ColShape(d.col[k])
  /\ \A k \in WellKnown : d.col[k].kind # "none"
  /\ InternExact(d) /\ BlobsExact(d)

DbOK(d) == DbShape(d) /\ \A k \in Keys : ColOK(d.col[k])

\* There are finitely many keys.
LEMMA KeysFinite == IsFiniteSet(Keys) /\ WellKnown \subseteq Keys
<1>1. IsFiniteSet(WellKnown)
  <2>1. WellKnown = {"level"} \cup {"msg"}
    BY DEF WellKnown
  <2>2. IsFiniteSet({"level"}) /\ IsFiniteSet({"msg"})
    BY FS_Singleton
  <2> QED BY <2>1, <2>2, FS_Union
<1>2. IsFiniteSet(Extra)
  BY StoreAssumption
<1> QED BY <1>1, <1>2, FS_Union DEF Keys

\* The fields of the database.
LEMMA DbType ==
  ASSUME NEW d \in Dbs
  PROVE  /\ d.intern \in Slabs(Texts) /\ d.blobs \in Slabs(Texts) /\ d.col \in [Keys -> AnyColumn]
         /\ d.pairs \in [Idx -> Seq(Pair)] /\ d.ansi \in [Idx -> Nat] /\ d.text \in [Idx -> BOOLEAN]
         /\ d.count \in [Keys -> Nat] /\ d.seen \in Nat
BY DEF Dbs

\* The tail pairs of a slot.
LEMMA PairsType ==
  ASSUME NEW d \in Dbs, NEW i \in Idx
  PROVE  /\ d.pairs[i] \in Seq(Pair) /\ DOMAIN d.pairs[i] = 1..Len(d.pairs[i]) /\ Len(d.pairs[i]) \in Nat
         /\ IsFiniteSet(DOMAIN d.pairs[i])
         /\ \A n \in DOMAIN d.pairs[i] : /\ d.pairs[i][n] \in Pair /\ d.pairs[i][n].key \in Nat
                                         /\ d.pairs[i][n].val \in Nat /\ d.pairs[i][n].blob \in BOOLEAN
<1>1. d.pairs[i] \in Seq(Pair)
  BY DbType
<1>2. DOMAIN d.pairs[i] = 1..Len(d.pairs[i]) /\ Len(d.pairs[i]) \in Nat
  BY <1>1
<1>3. \A n \in DOMAIN d.pairs[i] : d.pairs[i][n] \in Pair
  BY <1>1, <1>2
<1>4. \A n \in DOMAIN d.pairs[i] : /\ d.pairs[i][n] \in Pair /\ d.pairs[i][n].key \in Nat
                                   /\ d.pairs[i][n].val \in Nat /\ d.pairs[i][n].blob \in BOOLEAN
  BY <1>3 DEF Pair
<1>5. IsFiniteSet(DOMAIN d.pairs[i])
  BY <1>2, FS_Interval
<1> QED BY <1>1, <1>2, <1>4, <1>5

\* The counts are numbers.
LEMMA CountsType ==
  ASSUME NEW d \in Dbs, NEW id
  PROVE  /\ DOMAIN HoldF(d, id) = Keys /\ DOMAIN KeyF(d, id) = Idx
         /\ DOMAIN ValF(d, id) = Idx /\ DOMAIN BlobF(d, id) = Idx
         /\ IsFiniteSet(Keys) /\ IsFiniteSet(Idx)
         /\ \A k \in Keys : IsFiniteSet(HoldF(d, id)[k])
         /\ \A i \in Idx : /\ IsFiniteSet(KeyF(d, id)[i]) /\ IsFiniteSet(ValF(d, id)[i])
                           /\ IsFiniteSet(BlobF(d, id)[i])
         /\ Count(HoldF(d, id)) \in Nat /\ Count(KeyF(d, id)) \in Nat
         /\ Count(ValF(d, id)) \in Nat /\ Count(BlobF(d, id)) \in Nat
         /\ IsFiniteSet(AnsiUses(d, id)) /\ Cardinality(AnsiUses(d, id)) \in Nat
<1>1. /\ DOMAIN HoldF(d, id) = Keys /\ DOMAIN KeyF(d, id) = Idx
      /\ DOMAIN ValF(d, id) = Idx /\ DOMAIN BlobF(d, id) = Idx
  BY DEF HoldF, KeyF, ValF, BlobF
<1>2. \A k \in Keys : IsFiniteSet(HoldF(d, id)[k])
  <2> SUFFICES ASSUME NEW k \in Keys PROVE IsFiniteSet(HoldF(d, id)[k])
    OBVIOUS
  <2>1. d.col[k] \in AnyColumn
    BY DbType
  <2>2. HoldF(d, id)[k] = Holds(d.col[k], id)
    BY DEF HoldF
  <2> QED BY <2>1, <2>2, HoldsFinite
<1>3. \A i \in Idx : /\ IsFiniteSet(KeyF(d, id)[i]) /\ IsFiniteSet(ValF(d, id)[i])
                     /\ IsFiniteSet(BlobF(d, id)[i])
  <2> SUFFICES ASSUME NEW i \in Idx
               PROVE  /\ IsFiniteSet(KeyF(d, id)[i]) /\ IsFiniteSet(ValF(d, id)[i])
                      /\ IsFiniteSet(BlobF(d, id)[i])
    OBVIOUS
  <2>1. IsFiniteSet(DOMAIN d.pairs[i])
    BY PairsType
  <2>2. /\ KeyF(d, id)[i] \subseteq DOMAIN d.pairs[i]
        /\ ValF(d, id)[i] \subseteq DOMAIN d.pairs[i]
        /\ BlobF(d, id)[i] \subseteq DOMAIN d.pairs[i]
    BY DEF KeyF, ValF, BlobF
  <2> QED BY <2>1, <2>2, FS_Subset
<1>4. IsFiniteSet(Keys) /\ IsFiniteSet(Idx)
  BY KeysFinite, IdxFinite
<1>5. IsFiniteSet(AnsiUses(d, id)) /\ Cardinality(AnsiUses(d, id)) \in Nat
  <2>1. AnsiUses(d, id) \subseteq Idx
    BY DEF AnsiUses
  <2> QED BY <2>1, <1>4, FS_Subset, FS_CardinalityType
<1>6. /\ Count(HoldF(d, id)) \in Nat /\ Count(KeyF(d, id)) \in Nat
      /\ Count(ValF(d, id)) \in Nat /\ Count(BlobF(d, id)) \in Nat
  BY <1>1, <1>2, <1>3, <1>4, SpreadFinite DEF Count
<1> QED BY <1>1, <1>2, <1>3, <1>4, <1>5, <1>6

\* The columns and the interner change.
WithCols(d, s, col) == [d EXCEPT !.intern = s, !.col = col]

\* Columns and interner change, nothing else does.
LEMMA ColsFields ==
  ASSUME NEW d \in Dbs, NEW s \in Slabs(Texts), NEW col \in [Keys -> AnyColumn]
  PROVE  LET e == WithCols(d, s, col)
         IN  /\ e \in Dbs /\ e.intern = s /\ e.blobs = d.blobs /\ e.col = col /\ e.pairs = d.pairs
             /\ e.ansi = d.ansi /\ e.text = d.text /\ e.count = d.count /\ e.seen = d.seen
<1> DEFINE S == Slabs(Texts)
           C == [Keys -> AnyColumn]
           P == [Idx -> Seq(Pair)]
           N == [Idx -> Nat]
           B == [Idx -> BOOLEAN]
           K == [Keys -> Nat]
<1>1. d \in [intern : S, blobs : S, col : C, pairs : P, ansi : N, text : B, count : K, seen : Nat]
      /\ s \in S /\ col \in C
  BY DEF Dbs
<1> SUFFICES LET e == WithCols(d, s, col)
             IN  /\ e \in [intern : S, blobs : S, col : C, pairs : P, ansi : N, text : B, count : K,
                           seen : Nat]
                 /\ e.intern = s /\ e.blobs = d.blobs /\ e.col = col /\ e.pairs = d.pairs
                 /\ e.ansi = d.ansi /\ e.text = d.text /\ e.count = d.count /\ e.seen = d.seen
  BY DEF Dbs
<1> HIDE DEF S, C, P, N, B, K
<1> QED BY <1>1 DEF WithCols

\* The columns change, and the interner by as much.
LEMMA ColsChange ==
  ASSUME NEW d, DbShape(d), NEW s, SlabOK(s, Texts), NEW col \in [Keys -> AnyColumn],
         \A k \in Keys : ColShape(col[k]),
         \A k \in WellKnown : col[k].kind # "none",
         \A id \in Nat \ {0} :
           Refs(s, id) + Count(HoldF(d, id))
           = Refs(d.intern, id) + Count(HoldF(WithCols(d, s, col), id))
  PROVE  LET e == WithCols(d, s, col)
         IN  /\ DbShape(e) /\ e.intern = s /\ e.blobs = d.blobs /\ e.col = col /\ e.pairs = d.pairs
             /\ e.ansi = d.ansi /\ e.text = d.text /\ e.count = d.count /\ e.seen = d.seen
<1> DEFINE e == WithCols(d, s, col)
<1>1. /\ d \in Dbs /\ SlabOK(d.blobs, Texts) /\ InternExact(d) /\ BlobsExact(d)
      /\ SlabOK(d.intern, Texts)
  BY DEF DbShape
<1>2. s \in Slabs(Texts)
  BY DEF SlabOK
<1>3. /\ e \in Dbs /\ e.intern = s /\ e.blobs = d.blobs /\ e.col = col /\ e.pairs = d.pairs
      /\ e.ansi = d.ansi /\ e.text = d.text /\ e.count = d.count /\ e.seen = d.seen
  BY <1>1, <1>2, ColsFields
<1> HIDE DEF e
<1>4. \A id : /\ KeyF(e, id) = KeyF(d, id) /\ ValF(e, id) = ValF(d, id) /\ BlobF(e, id) = BlobF(d, id)
              /\ AnsiUses(e, id) = AnsiUses(d, id)
  BY <1>3 DEF KeyF, ValF, BlobF, AnsiUses
<1>5. InternExact(e)
  <2> SUFFICES ASSUME NEW id \in Nat \ {0}
               PROVE  Refs(e.intern, id) = Count(HoldF(e, id)) + Count(KeyF(e, id)) + Count(ValF(e, id))
    BY DEF InternExact
  <2>1. Refs(d.intern, id) = Count(HoldF(d, id)) + Count(KeyF(d, id)) + Count(ValF(d, id))
    BY <1>1 DEF InternExact
  <2>2. Refs(s, id) + Count(HoldF(d, id)) = Refs(d.intern, id) + Count(HoldF(e, id))
    BY DEF e
  <2>3. /\ Count(HoldF(d, id)) \in Nat /\ Count(KeyF(d, id)) \in Nat /\ Count(ValF(d, id)) \in Nat
        /\ Count(HoldF(e, id)) \in Nat
    BY <1>1, <1>3, CountsType
  <2>4. Refs(s, id) \in Nat
    BY <1>2, SlabRefs
  <2> QED BY <2>1, <2>2, <2>3, <2>4, <1>3, <1>4
<1>6. BlobsExact(e)
  BY <1>1, <1>3, <1>4 DEF BlobsExact
<1>7. DbShape(e)
  BY <1>1, <1>3, <1>5, <1>6 DEF DbShape
<1> QED BY <1>3, <1>7 DEF e

\* One column changes.
LEMMA ColChange ==
  ASSUME NEW d, DbShape(d), NEW s, SlabOK(s, Texts), NEW k \in Keys, NEW c, ColShape(c),
         c.kind = "none" => k \notin WellKnown,
         \A id \in Nat \ {0} :
           Refs(s, id) + Cardinality(Holds(d.col[k], id))
           = Refs(d.intern, id) + Cardinality(Holds(c, id))
  PROVE  LET e == WithCols(d, s, [d.col EXCEPT ![k] = c])
         IN  /\ DbShape(e) /\ e.intern = s /\ e.blobs = d.blobs /\ e.pairs = d.pairs
             /\ e.ansi = d.ansi /\ e.text = d.text /\ e.count = d.count /\ e.seen = d.seen
             /\ e.col[k] = c /\ \A j \in Keys \ {k} : e.col[j] = d.col[j]
<1> DEFINE col == [d.col EXCEPT ![k] = c]
           e == WithCols(d, s, col)
<1>1. /\ d \in Dbs /\ d.col \in [Keys -> AnyColumn] /\ c \in AnyColumn
      /\ \A j \in Keys : ColShape(d.col[j])
      /\ \A j \in WellKnown : d.col[j].kind # "none"
      /\ SlabOK(d.intern, Texts)
  <2>1. d \in Dbs /\ (\A j \in Keys : ColShape(d.col[j])) /\ SlabOK(d.intern, Texts)
        /\ \A j \in WellKnown : d.col[j].kind # "none"
    BY DEF DbShape
  <2>2. c \in AnyColumn
    BY DEF ColShape
  <2> QED BY <2>1, <2>2, DbType
<1>2. /\ col \in [Keys -> AnyColumn] /\ col[k] = c /\ \A j \in Keys \ {k} : col[j] = d.col[j]
  BY <1>1
<1> HIDE DEF col
<1>3. /\ \A j \in Keys : ColShape(col[j])
      /\ \A j \in WellKnown : col[j].kind # "none"
  BY <1>1, <1>2, KeysFinite
<1>4. s \in Slabs(Texts) /\ d.intern \in Slabs(Texts)
  BY <1>1 DEF SlabOK
<1>5. e \in Dbs /\ e.col = col
  BY <1>1, <1>2, <1>4, ColsFields
<1> HIDE DEF e
<1>6. ASSUME NEW id \in Nat \ {0}
      PROVE  Refs(s, id) + Count(HoldF(d, id)) = Refs(d.intern, id) + Count(HoldF(e, id))
  <2> DEFINE F == HoldF(d, id)
             G == HoldF(e, id)
  <2>1. /\ DOMAIN F = Keys /\ DOMAIN G = Keys /\ IsFiniteSet(Keys)
        /\ \A j \in Keys : IsFiniteSet(F[j]) /\ IsFiniteSet(G[j])
    BY <1>1, <1>5, CountsType
  <2>2. F[k] = Holds(d.col[k], id) /\ G[k] = Holds(c, id) /\ \A j \in Keys \ {k} : G[j] = F[j]
    BY <1>2, <1>5 DEF HoldF
  <2> HIDE DEF F, G
  <2>3. /\ Cardinality(Spread(F)) \in Nat /\ Cardinality(Spread(G)) \in Nat
        /\ Cardinality(F[k]) \in Nat /\ Cardinality(G[k]) \in Nat
        /\ Cardinality(Spread(G)) + Cardinality(F[k]) = Cardinality(Spread(F)) + Cardinality(G[k])
    BY <2>1, <2>2, SpreadChange
  <2>4. Refs(s, id) + Cardinality(F[k]) = Refs(d.intern, id) + Cardinality(G[k])
    BY <2>2
  <2>5. Refs(s, id) \in Nat /\ Refs(d.intern, id) \in Nat
    BY <1>4, SlabRefs
  <2>6. Refs(s, id) + Cardinality(Spread(F)) = Refs(d.intern, id) + Cardinality(Spread(G))
    BY <2>3, <2>4, <2>5
  <2> QED BY <2>6 DEF F, G, Count
<1>7. /\ DbShape(e) /\ e.intern = s /\ e.blobs = d.blobs /\ e.col = col /\ e.pairs = d.pairs
      /\ e.ansi = d.ansi /\ e.text = d.text /\ e.count = d.count /\ e.seen = d.seen
  BY <1>2, <1>3, <1>6, ColsChange DEF e
<1> QED BY <1>2, <1>7 DEF e, col

\* What is in use has references.
LEMMA UsedLive ==
  ASSUME NEW d, DbShape(d)
  PROVE  /\ \A k \in Keys : \A id \in Nat \ {0} : /\ Holds(d.col[k], id) # {} => Refs(d.intern, id) > 0
                                                  /\ Cardinality(Holds(d.col[k], id)) \in Nat
                                                  /\ Cardinality(Holds(d.col[k], id)) <= Refs(d.intern, id)
         /\ \A i \in Idx : \A n \in DOMAIN d.pairs[i] :
              /\ d.pairs[i][n].key # 0 => Refs(d.intern, d.pairs[i][n].key) > 0
              /\ d.pairs[i][n].val # 0 => IF d.pairs[i][n].blob THEN Refs(d.blobs, d.pairs[i][n].val) > 0
                                                                ELSE Refs(d.intern, d.pairs[i][n].val) > 0
         /\ \A i \in Idx : d.ansi[i] # 0 => Refs(d.blobs, d.ansi[i]) > 0
<1>1. d \in Dbs /\ InternExact(d) /\ BlobsExact(d)
  BY DEF DbShape
<1>2. ASSUME NEW F, IsFiniteSet(DOMAIN F), \A k \in DOMAIN F : IsFiniteSet(F[k]), NEW k \in DOMAIN F
      PROVE  /\ Cardinality(F[k]) \in Nat /\ Cardinality(F[k]) <= Count(F)
             /\ F[k] # {} => Count(F) > 0
  <2>1. IsFiniteSet(Spread(F)) /\ {k} \X F[k] \subseteq Spread(F)
    BY <1>2, SpreadFinite DEF Spread
  <2>2. Cardinality({k} \X F[k]) <= Count(F) /\ Cardinality(F[k]) \in Nat /\ Count(F) \in Nat
        /\ Cardinality({k} \X F[k]) = Cardinality(F[k])
    BY <2>1, <1>2, CardSubset, CardTagged, FS_CardinalityType DEF Count
  <2>3. F[k] # {} => Cardinality(F[k]) # 0
    BY <1>2, FS_EmptySet
  <2> QED BY <2>2, <2>3
<1>3. ASSUME NEW k \in Keys, NEW id \in Nat \ {0}
      PROVE  /\ Holds(d.col[k], id) # {} => Refs(d.intern, id) > 0
             /\ Cardinality(Holds(d.col[k], id)) \in Nat
             /\ Cardinality(Holds(d.col[k], id)) <= Refs(d.intern, id)
  <2> DEFINE F == HoldF(d, id)
  <2>1. /\ DOMAIN F = Keys /\ IsFiniteSet(Keys) /\ \A j \in Keys : IsFiniteSet(F[j])
        /\ Count(F) \in Nat /\ Count(KeyF(d, id)) \in Nat /\ Count(ValF(d, id)) \in Nat
    BY <1>1, CountsType
  <2>2. F[k] = Holds(d.col[k], id)
    BY DEF HoldF
  <2>3. Refs(d.intern, id) = Count(F) + Count(KeyF(d, id)) + Count(ValF(d, id))
    BY <1>1 DEF InternExact
  <2> HIDE DEF F
  <2>4. Cardinality(F[k]) \in Nat /\ Cardinality(F[k]) <= Count(F) /\ (F[k] # {} => Count(F) > 0)
    BY <2>1, <1>2
  <2> QED BY <2>1, <2>2, <2>3, <2>4
<1>4. ASSUME NEW i \in Idx, NEW n \in DOMAIN d.pairs[i], NEW id \in Nat \ {0}
      PROVE  /\ d.pairs[i][n].key = id => Refs(d.intern, id) > 0
             /\ d.pairs[i][n].val = id /\ ~d.pairs[i][n].blob => Refs(d.intern, id) > 0
             /\ d.pairs[i][n].val = id /\ d.pairs[i][n].blob => Refs(d.blobs, id) > 0
  <2> DEFINE F == KeyF(d, id)
             G == ValF(d, id)
             H == BlobF(d, id)
  <2>1. /\ DOMAIN F = Idx /\ DOMAIN G = Idx /\ DOMAIN H = Idx /\ IsFiniteSet(Idx)
        /\ \A j \in Idx : IsFiniteSet(F[j]) /\ IsFiniteSet(G[j]) /\ IsFiniteSet(H[j])
        /\ Count(F) \in Nat /\ Count(G) \in Nat /\ Count(H) \in Nat /\ Count(HoldF(d, id)) \in Nat
        /\ Cardinality(AnsiUses(d, id)) \in Nat
    BY <1>1, CountsType
  <2>2. /\ d.pairs[i][n].key = id => F[i] # {}
        /\ d.pairs[i][n].val = id /\ ~d.pairs[i][n].blob => G[i] # {}
        /\ d.pairs[i][n].val = id /\ d.pairs[i][n].blob => H[i] # {}
    BY DEF KeyF, ValF, BlobF
  <2>3. /\ Refs(d.intern, id) = Count(HoldF(d, id)) + Count(F) + Count(G)
        /\ Refs(d.blobs, id) = Count(H) + Cardinality(AnsiUses(d, id))
    BY <1>1 DEF InternExact, BlobsExact
  <2> HIDE DEF F, G, H
  <2>4. (F[i] # {} => Count(F) > 0) /\ (G[i] # {} => Count(G) > 0) /\ (H[i] # {} => Count(H) > 0)
    BY <2>1, <1>2
  <2> QED BY <2>1, <2>2, <2>3, <2>4
<1>5. ASSUME NEW i \in Idx, NEW n \in DOMAIN d.pairs[i]
      PROVE  /\ d.pairs[i][n].key # 0 => Refs(d.intern, d.pairs[i][n].key) > 0
             /\ d.pairs[i][n].val # 0 => IF d.pairs[i][n].blob THEN Refs(d.blobs, d.pairs[i][n].val) > 0
                                                               ELSE Refs(d.intern, d.pairs[i][n].val) > 0
  <2>1. d.pairs[i][n].key \in Nat /\ d.pairs[i][n].val \in Nat /\ d.pairs[i][n].blob \in BOOLEAN
    BY <1>1, PairsType
  <2> QED BY <2>1, <1>4
<1>6. ASSUME NEW i \in Idx, d.ansi[i] # 0 PROVE Refs(d.blobs, d.ansi[i]) > 0
  <2> DEFINE id == d.ansi[i]
  <2>1. id \in Nat \ {0}
    BY <1>1, <1>6, DbType
  <2>2. i \in AnsiUses(d, id)
    BY DEF AnsiUses
  <2> HIDE DEF id
  <2>3. Cardinality(AnsiUses(d, id)) \in Nat /\ Cardinality(AnsiUses(d, id)) # 0
        /\ Count(BlobF(d, id)) \in Nat
    BY <1>1, <2>2, CountsType, FS_EmptySet
  <2>4. Refs(d.blobs, id) > 0
    BY <1>1, <2>1, <2>3 DEF BlobsExact
  <2> QED BY <2>4 DEF id
<1> QED BY <1>3, <1>5, <1>6

---------------------------------------------------------------------------
(* Reading *)

\* A text that is in use before and after reads the same.
LEMMA SameGet ==
  ASSUME NEW s, NEW t, Same(s, t), NEW x \in Nat, x # 0 => Refs(s, x) > 0 /\ Refs(t, x) > 0,
         SlabOK(s, Texts), SlabOK(t, Texts)
  PROVE  Get(t, x) = Get(s, x)
<1>1. CASE x = 0
  <2>1. 0 \notin DOMAIN s.slots /\ 0 \notin DOMAIN t.slots
    <3>1. s \in Slabs(Texts) /\ t \in Slabs(Texts)
      BY DEF SlabOK
    <3> QED BY <3>1, SlabRefs
  <2> QED BY <1>1, <2>1 DEF Get, Refs
<1>2. CASE x # 0
  BY <1>2 DEF Same, Get
<1> QED BY <1>1, <1>2

\* The text of a cell has references.
LEMMA TextLive ==
  ASSUME NEW d, DbShape(d), NEW k \in Keys, NEW j \in Idx
  PROVE  /\ TextOf(d.col[k], j) \in Nat
         /\ TextOf(d.col[k], j) # 0 => Refs(d.intern, TextOf(d.col[k], j)) > 0
<1> DEFINE c == d.col[k]
<1>1. /\ ColShape(c) /\ c \in AnyColumn
      /\ c.kind # "dict" => DOMAIN c.dict.slots = {}
      /\ c.kind = "dict" => \A i \in c.present : c.ids[i] \in DictIds(c)
      /\ c.dict \in Slabs(Nat)
  <2>1. ColShape(c) /\ SlabOK(c.dict, Nat \ {0})
    BY DEF DbShape, ColShape
  <2>2. c.dict \in Slabs(Nat)
    BY <2>1, SlabsNat DEF SlabOK
  <2> QED BY <2>1, <2>2 DEF ColShape
<1>2. c.ids \in [Idx -> Nat] /\ c.present \subseteq Idx /\ c.kind \in {"none", "dict", "raw"}
  BY <1>1, ColumnType
<1>3. \A x \in DOMAIN c.dict.slots : c.dict.slots[x].item \in Nat
  BY <1>1, SlabRefs
<1> HIDE DEF c
<1>4. TextOf(c, j) \in Nat
  BY <1>2, <1>3 DEF TextOf
<1>5. ASSUME TextOf(c, j) # 0 PROVE Holds(c, TextOf(c, j)) # {}
  <2>1. j \in c.present
    BY <1>5 DEF TextOf
  <2>2. CASE c.kind = "raw"
    <3>1. j \in CellsAt(c, TextOf(c, j))
      BY <2>1, <2>2 DEF TextOf, CellsAt
    <3> QED BY <3>1, <2>2 DEF Holds
  <2>3. CASE c.kind # "raw"
    <3>1. c.ids[j] \in DOMAIN c.dict.slots /\ TextOf(c, j) = c.dict.slots[c.ids[j]].item
      BY <1>5, <2>1, <2>3 DEF TextOf
    <3>2. c.ids[j] \in DictIds(c)
      BY <3>1, <1>1, <2>1
    <3> QED BY <3>1, <3>2, <2>3 DEF Holds
  <2> QED BY <2>2, <2>3
<1> QED BY <1>4, <1>5, UsedLive DEF c

\* Without a pair of the key a row shows the cell.
LEMMA ShownCell ==
  ASSUME NEW d, DbShape(d), NEW k \in Keys, NEW j \in Idx, PairsOf(d, k, j) = {}
  PROVE  Shown(d, k, j) = GetString(d, k, j)
<1>1. CASE d.col[k].kind = "none"
  <2>1. d.col[k].present = {} /\ d.intern \in Slabs(Texts)
    BY <1>1 DEF DbShape, ColShape, SlabOK
  <2>2. TextOf(d.col[k], j) = 0 /\ Refs(d.intern, 0) = 0
    <3>1. 0 \notin DOMAIN d.intern.slots
      BY <2>1, SlabRefs
    <3> QED BY <2>1, <3>1 DEF TextOf, Refs
  <2>3. GetString(d, k, j) = None
    BY <2>2 DEF GetString, Get
  <2> QED BY <2>3, <1>1 DEF Shown
<1>2. CASE d.col[k].kind # "none"
  BY <1>2 DEF Shown
<1> QED BY <1>1, <1>2

\* A pair that stays is read as before.
LEMMA ReadPair ==
  ASSUME NEW d, DbShape(d), NEW e, DbShape(e), Same(d.intern, e.intern), Same(d.blobs, e.blobs),
         NEW j \in Idx, NEW n, n \in DOMAIN d.pairs[j], n \in DOMAIN e.pairs[j],
         e.pairs[j][n] = d.pairs[j][n]
  PROVE  /\ Get(e.intern, e.pairs[j][n].key) = Get(d.intern, d.pairs[j][n].key)
         /\ PairValue(e, e.pairs[j][n]) = PairValue(d, d.pairs[j][n])
<1> DEFINE p == d.pairs[j][n]
<1>1. /\ d \in Dbs /\ e \in Dbs /\ SlabOK(d.intern, Texts) /\ SlabOK(e.intern, Texts)
      /\ SlabOK(d.blobs, Texts) /\ SlabOK(e.blobs, Texts)
  BY DEF DbShape
<1>2. p.key \in Nat /\ p.val \in Nat /\ p.blob \in BOOLEAN
  BY <1>1, PairsType
<1>3. /\ p.key # 0 => Refs(d.intern, p.key) > 0 /\ Refs(e.intern, p.key) > 0
      /\ p.val # 0 /\ p.blob => Refs(d.blobs, p.val) > 0 /\ Refs(e.blobs, p.val) > 0
      /\ p.val # 0 /\ ~p.blob => Refs(d.intern, p.val) > 0 /\ Refs(e.intern, p.val) > 0
  BY UsedLive
<1>4. Get(e.intern, p.key) = Get(d.intern, p.key)
  BY <1>1, <1>2, <1>3, SameGet
<1>5. p.blob => Get(e.blobs, p.val) = Get(d.blobs, p.val)
  BY <1>1, <1>2, <1>3, SameGet
<1>6. ~p.blob => Get(e.intern, p.val) = Get(d.intern, p.val)
  BY <1>1, <1>2, <1>3, SameGet
<1> QED BY <1>4, <1>5, <1>6 DEF PairValue

\* A cell with the same text reads the same in a changed database.
LEMMA ReadCell ==
  ASSUME NEW d, DbShape(d), NEW e, DbShape(e), Same(d.intern, e.intern), NEW j \in Idx, NEW k \in Keys,
         TextOf(e.col[k], j) = TextOf(d.col[k], j)
  PROVE  GetString(e, k, j) = GetString(d, k, j)
<1> DEFINE x == TextOf(d.col[k], j)
<1>1. SlabOK(d.intern, Texts) /\ SlabOK(e.intern, Texts)
  BY DEF DbShape
<1>2. x \in Nat /\ (x # 0 => Refs(d.intern, x) > 0)
  BY TextLive
<1>3. x # 0 => Refs(e.intern, x) > 0
  BY TextLive
<1>4. TextOf(e.col[k], j) = x
  OBVIOUS
<1> HIDE DEF x
<1>5. Get(e.intern, x) = Get(d.intern, x)
  BY <1>1, <1>2, <1>3, SameGet
<1> QED BY <1>4, <1>5 DEF GetString, x

\* And so does an ANSI blob.
LEMMA ReadAnsi ==
  ASSUME NEW d, DbShape(d), NEW e, DbShape(e), Same(d.blobs, e.blobs), NEW j \in Idx,
         e.ansi[j] = d.ansi[j], e.text[j] = d.text[j]
  PROVE  ShownAnsi(e, j) = ShownAnsi(d, j)
<1>1. d \in Dbs /\ SlabOK(d.blobs, Texts) /\ SlabOK(e.blobs, Texts)
  BY DEF DbShape
<1>2. d.ansi[j] \in Nat
  BY <1>1, DbType
<1>3. d.ansi[j] # 0 => Refs(d.blobs, d.ansi[j]) > 0 /\ Refs(e.blobs, d.ansi[j]) > 0
  BY UsedLive
<1>4. Get(e.blobs, d.ansi[j]) = Get(d.blobs, d.ansi[j])
  BY <1>1, <1>2, <1>3, SameGet
<1> QED BY <1>4 DEF ShownAnsi

\* A slot whose pairs, cells and blob stay is read as before.
LEMMA ReadSame ==
  ASSUME NEW d, DbShape(d), NEW e, DbShape(e), Same(d.intern, e.intern), Same(d.blobs, e.blobs),
         NEW j \in Idx, e.pairs[j] = d.pairs[j]
  PROVE  /\ \A k \in Keys : /\ PairsOf(e, k, j) = PairsOf(d, k, j)
                            /\ TextOf(e.col[k], j) = TextOf(d.col[k], j) => Shown(e, k, j) = Shown(d, k, j)
         /\ e.ansi[j] = d.ansi[j] /\ e.text[j] = d.text[j] => ShownAnsi(e, j) = ShownAnsi(d, j)
<1>2. ASSUME NEW n \in DOMAIN d.pairs[j]
      PROVE  /\ Get(e.intern, e.pairs[j][n].key) = Get(d.intern, d.pairs[j][n].key)
             /\ PairValue(e, e.pairs[j][n]) = PairValue(d, d.pairs[j][n])
  BY ReadPair
<1>3. ASSUME NEW k \in Keys
      PROVE  /\ PairsOf(e, k, j) = PairsOf(d, k, j)
             /\ TextOf(e.col[k], j) = TextOf(d.col[k], j) => Shown(e, k, j) = Shown(d, k, j)
  <2>1. PairsOf(e, k, j) = PairsOf(d, k, j)
    BY <1>2 DEF PairsOf
  <2>2. ASSUME TextOf(e.col[k], j) = TextOf(d.col[k], j), PairsOf(d, k, j) = {}
        PROVE  Shown(e, k, j) = Shown(d, k, j)
    <3>1. Shown(e, k, j) = GetString(e, k, j) /\ Shown(d, k, j) = GetString(d, k, j)
      BY <2>1, <2>2, ShownCell
    <3>2. GetString(e, k, j) = GetString(d, k, j)
      BY <2>2, ReadCell
    <3> QED BY <3>1, <3>2
  <2>3. ASSUME PairsOf(d, k, j) # {} PROVE Shown(e, k, j) = Shown(d, k, j)
    <3> DEFINE n == CHOOSE n \in PairsOf(d, k, j) : TRUE
    <3>1. n \in PairsOf(d, k, j)
      BY <2>3
    <3>2. n \in DOMAIN d.pairs[j]
      BY <3>1 DEF PairsOf
    <3>3. /\ Shown(d, k, j) = PairValue(d, d.pairs[j][n])
          /\ Shown(e, k, j) = PairValue(e, e.pairs[j][n])
      BY <2>1, <2>3 DEF Shown
    <3> QED BY <3>2, <3>3, <1>2
  <2> QED BY <2>1, <2>2, <2>3
<1>4. e.ansi[j] = d.ansi[j] /\ e.text[j] = d.text[j] => ShownAnsi(e, j) = ShownAnsi(d, j)
  BY ReadAnsi
<1> QED BY <1>3, <1>4

\* The text of an entry of a dictionary.
EntryText(d, k, y) == Get(d.intern, d.col[k].dict.slots[y].item)

\* An entry has a text in use.
LEMMA EntryLive ==
  ASSUME NEW d, DbShape(d), NEW x \in Keys, NEW y, y \in DictIds(d.col[x])
  PROVE  /\ d.col[x].dict.slots[y].item \in Nat \ {0}
         /\ Refs(d.intern, d.col[x].dict.slots[y].item) > 0
         /\ d.col[x].kind = "dict"
<1> DEFINE c == d.col[x]
           id == c.dict.slots[y].item
<1>1. ColShape(c) /\ y \in DictIds(c)
  BY DEF DbShape
<1>2. SlabOK(c.dict, Nat \ {0})
  BY <1>1 DEF ColShape
<1>3. y \in DOMAIN c.dict.slots
  BY <1>1 DEF DictIds
<1>4. id \in Nat \ {0}
  <2>1. c.dict \in Slabs(Nat \ {0})
    BY <1>2 DEF SlabOK
  <2> HIDE DEF c
  <2> QED BY <2>1, <1>3, SlabRefs
<1>5. c.kind = "dict"
  <2>1. c.kind # "dict" => DOMAIN c.dict.slots = {}
    BY <1>1 DEF ColShape
  <2> QED BY <2>1, <1>3
<1>6. y \in Holds(c, id)
  BY <1>1, <1>5 DEF Holds
<1>7. Holds(c, id) # {} => Refs(d.intern, id) > 0
  BY <1>4, UsedLive
<1> QED BY <1>4, <1>5, <1>6, <1>7

\* An entry that keeps its text id keeps its text, whatever else of the text slab
\* changes.
LEMMA EntrySame ==
  ASSUME NEW d, DbShape(d), NEW e, DbShape(e), Same(d.intern, e.intern), NEW x \in Keys,
         NEW y, y \in DictIds(d.col[x]), y \in DictIds(e.col[x]),
         e.col[x].dict.slots[y].item = d.col[x].dict.slots[y].item
  PROVE  EntryText(e, x, y) = EntryText(d, x, y)
<1> DEFINE id == d.col[x].dict.slots[y].item
<1>1. SlabOK(d.intern, Texts) /\ SlabOK(e.intern, Texts)
  BY DEF DbShape
<1>2. id \in Nat \ {0} /\ Refs(d.intern, id) > 0
  BY EntryLive
<1>3. Refs(e.intern, id) > 0
  BY EntryLive
<1>4. e.col[x].dict.slots[y].item = id
  OBVIOUS
<1> HIDE DEF id
<1>5. Get(e.intern, id) = Get(d.intern, id)
  BY <1>1, <1>2, <1>3, SameGet
<1> QED BY <1>4, <1>5 DEF EntryText, id

\* A step on one cell: all others are read as before, and so are the dictionaries
\* of other columns.
CellStep(d, e, k, i) ==
  /\ DbShape(e)
  /\ e.blobs = d.blobs /\ e.pairs = d.pairs /\ e.ansi = d.ansi /\ e.text = d.text
  /\ e.count = d.count /\ e.seen = d.seen
  /\ \A j \in Keys \ {k} : /\ e.col[j] = d.col[j]
                           /\ \A y \in DictIds(d.col[j]) : EntryText(e, j, y) = EntryText(d, j, y)
  /\ \A x \in Keys : \A j \in Idx : /\ PairsOf(e, x, j) = PairsOf(d, x, j)
                                    /\ x # k \/ j # i => /\ Shown(e, x, j) = Shown(d, x, j)
                                                         /\ TextOf(e.col[x], j) = TextOf(d.col[x], j)
  /\ \A j \in Idx : ShownAnsi(e, j) = ShownAnsi(d, j)

\* A slab compared with itself.
LEMMA SameSelf == \A s : Same(s, s)
BY DEF Same

\* No change is a step of any cell.
LEMMA CellStepSelf ==
  ASSUME NEW d, DbShape(d), NEW k, NEW i
  PROVE  CellStep(d, d, k, i)
BY DEF CellStep

\* One step of a cell after another.
LEMMA CellStepThen ==
  ASSUME NEW d, NEW e, NEW f, NEW k, NEW i, CellStep(d, e, k, i), CellStep(e, f, k, i)
  PROVE  CellStep(d, f, k, i)
BY DEF CellStep

\* A step of one cell, from what it did to the column.
LEMMA CellStepFrom ==
  ASSUME NEW d, DbShape(d), NEW e, DbShape(e), NEW k \in Keys, NEW i \in Idx,
         Same(d.intern, e.intern), e.blobs = d.blobs, e.pairs = d.pairs, e.ansi = d.ansi,
         e.text = d.text, e.count = d.count, e.seen = d.seen,
         \A j \in Keys \ {k} : e.col[j] = d.col[j],
         \A j \in Idx \ {i} : TextOf(e.col[k], j) = TextOf(d.col[k], j)
  PROVE  CellStep(d, e, k, i)
<1>1. Same(d.blobs, e.blobs)
  BY SameSelf
<1>2. ASSUME NEW x \in Keys, NEW j \in Idx
      PROVE  /\ PairsOf(e, x, j) = PairsOf(d, x, j)
             /\ x # k \/ j # i => /\ Shown(e, x, j) = Shown(d, x, j)
                                  /\ TextOf(e.col[x], j) = TextOf(d.col[x], j)
             /\ ShownAnsi(e, j) = ShownAnsi(d, j)
  <2>1. e.pairs[j] = d.pairs[j] /\ e.ansi[j] = d.ansi[j] /\ e.text[j] = d.text[j]
    OBVIOUS
  <2>2. x # k \/ j # i => TextOf(e.col[x], j) = TextOf(d.col[x], j)
    OBVIOUS
  <2>3. /\ PairsOf(e, x, j) = PairsOf(d, x, j)
        /\ x # k \/ j # i => Shown(e, x, j) = Shown(d, x, j)
        /\ ShownAnsi(e, j) = ShownAnsi(d, j)
    BY <1>1, <2>1, <2>2, ReadSame
  <2> QED BY <2>2, <2>3
<1>3. ASSUME NEW x \in Keys \ {k}, NEW y \in DictIds(d.col[x])
      PROVE  EntryText(e, x, y) = EntryText(d, x, y)
  <2>1. e.col[x] = d.col[x]
    OBVIOUS
  <2>2. y \in DictIds(e.col[x]) /\ e.col[x].dict.slots[y].item = d.col[x].dict.slots[y].item
    BY <2>1
  <2> QED BY <2>2, EntrySame
<1> QED BY <1>2, <1>3 DEF CellStep

---------------------------------------------------------------------------
(* Cells *)

\* The columns of ks let go of the cell of slot i.
Evicted(d, e, ks, i) ==
  /\ DbOK(e) /\ Same(d.intern, e.intern)
  /\ e.blobs = d.blobs /\ e.pairs = d.pairs /\ e.ansi = d.ansi /\ e.text = d.text
  /\ e.count = d.count /\ e.seen = d.seen /\ DOMAIN e.intern.slots = DOMAIN d.intern.slots
  /\ \A k \in Keys : /\ e.col[k].kind = d.col[k].kind
                     /\ e.col[k] = IF k \in ks THEN Vacated(d.col[k], i) ELSE d.col[k]
                     /\ k \in ks => i \notin e.col[k].present
                     /\ \A j \in Idx : k \notin ks \/ j # i =>
                          TextOf(e.col[k], j) = TextOf(d.col[k], j)

\* Columns let go of a slot (Column.EvictAt): the counts stay exact, the other
\* slots read as before.
LEMMA EvictCellsOK ==
  ASSUME NEW d, DbOK(d), NEW ks, ks \subseteq Keys, NEW i \in Idx
  PROVE  Evicted(d, EvictCells(d, ks, i), ks, i)
<1> DEFINE S(id) == {k \in ks : LetGo(d.col[k], i) = id}
           n == [id \in DOMAIN d.intern.slots |-> Cardinality(S(id))]
           s == Release(d.intern, n)
           col == [k \in Keys |-> IF k \in ks THEN Vacated(d.col[k], i) ELSE d.col[k]]
           e == EvictCells(d, ks, i)
<1>1. /\ DbShape(d) /\ d \in Dbs /\ SlabOK(d.intern, Texts) /\ InternExact(d)
      /\ \A k \in Keys : ColOK(d.col[k])
      /\ \A k \in WellKnown : d.col[k].kind # "none"
  BY DEF DbOK, DbShape
<1>2. e = WithCols(d, s, col)
  BY DEF EvictCells, WithCols
<1>3. \A k \in Keys : /\ ColOK(col[k]) /\ col[k].kind = d.col[k].kind
                      /\ k \in ks => col[k].present = d.col[k].present \ {i}
                      /\ \A j \in Idx : k \notin ks \/ j # i => TextOf(col[k], j) = TextOf(d.col[k], j)
                      /\ \A id \in Nat \ {0} :
                           IF k \in S(id)
                           THEN /\ Holder(d.col[k], i) \in Holds(d.col[k], id)
                                /\ Holds(col[k], id) = Holds(d.col[k], id) \ {Holder(d.col[k], i)}
                           ELSE Holds(col[k], id) = Holds(d.col[k], id)
  <2> SUFFICES ASSUME NEW k \in Keys
               PROVE  /\ ColOK(col[k]) /\ col[k].kind = d.col[k].kind
                      /\ k \in ks => col[k].present = d.col[k].present \ {i}
                      /\ \A j \in Idx : k \notin ks \/ j # i => TextOf(col[k], j) = TextOf(d.col[k], j)
                      /\ \A id \in Nat \ {0} :
                           IF k \in S(id)
                           THEN /\ Holder(d.col[k], i) \in Holds(d.col[k], id)
                                /\ Holds(col[k], id) = Holds(d.col[k], id) \ {Holder(d.col[k], i)}
                           ELSE Holds(col[k], id) = Holds(d.col[k], id)
    OBVIOUS
  <2>1. CASE k \notin ks
    <3>1. col[k] = d.col[k] /\ \A id : k \notin S(id)
      BY <2>1
    <3> HIDE DEF col, S
    <3> QED BY <3>1, <2>1, <1>1
  <2>2. CASE k \in ks
    <3> DEFINE c == d.col[k]
    <3>1. col[k] = Vacated(c, i) /\ \A id : k \in S(id) <=> LetGo(c, i) = id
      BY <2>2
    <3>2. ColOK(c)
      BY <1>1
    <3>3. /\ ColOK(Vacated(c, i)) /\ Vacated(c, i).kind = c.kind
          /\ Vacated(c, i).present = c.present \ {i}
          /\ \A j \in Idx \ {i} : TextOf(Vacated(c, i), j) = TextOf(c, j)
          /\ \A id \in Nat \ {0} :
               IF LetGo(c, i) = id
               THEN /\ Holder(c, i) \in Holds(c, id)
                    /\ Holds(Vacated(c, i), id) = Holds(c, id) \ {Holder(c, i)}
               ELSE Holds(Vacated(c, i), id) = Holds(c, id)
      BY <3>2, VacateColumn
    <3> HIDE DEF col, S
    <3> QED BY <3>1, <3>3, <2>2
  <2> QED BY <2>1, <2>2
<1>4. /\ col \in [Keys -> AnyColumn] /\ \A k \in Keys : ColShape(col[k])
      /\ \A k \in WellKnown : col[k].kind # "none"
  <2>1. \A k \in Keys : ColShape(col[k]) /\ col[k] \in AnyColumn
    BY <1>3 DEF ColOK, ColShape
  <2>2. \A k \in WellKnown : col[k].kind # "none"
    BY <1>1, <1>3, KeysFinite
  <2>3. col = [k \in Keys |-> col[k]]
    OBVIOUS
  <2> HIDE DEF col
  <2> QED BY <2>1, <2>2, <2>3
<1>5. \A k \in ks : col[k] = Vacated(d.col[k], i)
  OBVIOUS
<1>6. \A k \in Keys : col[k] = IF k \in ks THEN Vacated(d.col[k], i) ELSE d.col[k]
  OBVIOUS
<1> HIDE DEF col
<1>7. d.intern \in Slabs(Texts)
  BY <1>1 DEF SlabOK
<1>8. \A id : IsFiniteSet(S(id)) /\ Cardinality(S(id)) \in Nat
  BY KeysFinite, FS_Subset, FS_CardinalityType
<1>9. n \in [DOMAIN d.intern.slots -> Nat] /\ \A id \in DOMAIN d.intern.slots : n[id] = Cardinality(S(id))
  BY <1>8
<1> HIDE DEF n
<1>10. /\ SlabOK(s, Texts) /\ Same(d.intern, s) /\ DOMAIN s.slots = DOMAIN d.intern.slots
       /\ \A x \in DOMAIN d.intern.slots : Refs(s, x) = Less(Refs(d.intern, x), n[x])
       /\ \A x : Refs(d.intern, x) = 0 => Refs(s, x) = 0
  BY <1>1, <1>9, ReleaseSlab
<1> HIDE DEF s
<1>11. s \in Slabs(Texts)
  BY <1>10 DEF SlabOK
<1>12. WithCols(d, s, col) \in Dbs /\ WithCols(d, s, col).col = col
  BY <1>1, <1>4, <1>11, ColsFields
<1>13. ASSUME NEW id \in Nat \ {0}
       PROVE  Refs(s, id) + Count(HoldF(d, id)) = Refs(d.intern, id) + Count(HoldF(WithCols(d, s, col), id))
  <2> DEFINE F == HoldF(d, id)
             G == HoldF(WithCols(d, s, col), id)
             x == [k \in Keys |-> Holder(d.col[k], i)]
             T == S(id)
  <2>1. /\ DOMAIN F = Keys /\ DOMAIN G = Keys /\ IsFiniteSet(Keys)
        /\ \A k \in Keys : IsFiniteSet(F[k])
        /\ Count(F) \in Nat /\ Count(KeyF(d, id)) \in Nat /\ Count(ValF(d, id)) \in Nat
    BY <1>1, CountsType, <1>12
  <2>2. \A k \in Keys : F[k] = Holds(d.col[k], id) /\ G[k] = Holds(col[k], id) /\ x[k] = Holder(d.col[k], i)
    BY <1>12 DEF HoldF
  <2>3. Refs(d.intern, id) = Count(F) + Count(KeyF(d, id)) + Count(ValF(d, id))
    BY <1>1 DEF InternExact
  <2>4. T \subseteq Keys /\ Cardinality(T) = Cardinality(S(id))
    OBVIOUS
  <2>5. \A k \in Keys : IF k \in T THEN x[k] \in F[k] /\ G[k] = F[k] \ {x[k]} ELSE G[k] = F[k]
    BY <1>3, <2>2
  <2> HIDE DEF F, G, x, T, S
  <2>6. (\A k \in T : x[k] \in F[k] /\ G[k] = F[k] \ {x[k]}) /\ \A k \in DOMAIN F \ T : G[k] = F[k]
    BY <2>1, <2>4, <2>5
  <2>7. /\ Cardinality(Spread(F)) \in Nat /\ Cardinality(T) \in Nat
        /\ Cardinality(T) <= Cardinality(Spread(F))
        /\ Cardinality(Spread(G)) = Cardinality(Spread(F)) - Cardinality(T)
    BY <2>1, <2>4, <2>6, SpreadMinus
  <2>8. Refs(s, id) = Refs(d.intern, id) - Cardinality(T)
    <3>1. CASE id \in DOMAIN d.intern.slots
      <4>1. Refs(s, id) = Less(Refs(d.intern, id), Cardinality(T))
        BY <3>1, <1>9, <1>10, <2>4
      <4> QED BY <4>1, <2>1, <2>3, <2>7 DEF Less, Count
    <3>2. CASE id \notin DOMAIN d.intern.slots
      <4>1. Refs(d.intern, id) = 0 /\ Refs(s, id) = 0
        BY <3>2, <1>10 DEF Refs
      <4> QED BY <4>1, <2>1, <2>3, <2>7 DEF Count
    <3> QED BY <3>1, <3>2
  <2> QED BY <2>1, <2>3, <2>7, <2>8 DEF Count, F, G
<1>14. /\ DbShape(e) /\ e.intern = s /\ e.blobs = d.blobs /\ e.col = col /\ e.pairs = d.pairs
       /\ e.ansi = d.ansi /\ e.text = d.text /\ e.count = d.count /\ e.seen = d.seen
  BY <1>1, <1>2, <1>4, <1>10, <1>13, ColsChange
<1> HIDE DEF e
<1>15. DbOK(e)
  BY <1>3, <1>14 DEF DbOK
<1> QED BY <1>3, <1>6, <1>10, <1>14, <1>15 DEF e, Evicted

\* The parts of a column of the right shape.
LEMMA ShapeType ==
  ASSUME NEW c, ColShape(c)
  PROVE  /\ c \in AnyColumn /\ SlabOK(c.dict, Nat \ {0}) /\ c.card = Cardinality(DictIds(c))
         /\ c.kind # "dict" => DOMAIN c.dict.slots = {}
         /\ c.kind = "none" => c.present = {}
         /\ c.kind = "dict" => \A j \in c.present : c.ids[j] \in DictIds(c)
         /\ c.kind \in {"none", "dict", "raw"} /\ c.ids \in [Idx -> Nat] /\ c.present \subseteq Idx
         /\ c.dict \in Slabs(Nat) /\ c.index \subseteq Nat \X (0..(SeqWidth - 1)) /\ c.card \in Nat
         /\ \A x : Refs(c.dict, x) \in Nat /\ (Refs(c.dict, x) > 0 <=> x \in DictIds(c))
         /\ IsFiniteSet(DictIds(c)) /\ Cardinality(DictIds(c)) \in Nat /\ DictIds(c) \subseteq Nat \ {0}
         /\ DictIds(c) \subseteq DOMAIN c.dict.slots
<1>1. /\ c \in AnyColumn /\ SlabOK(c.dict, Nat \ {0}) /\ c.card = Cardinality(DictIds(c))
      /\ c.kind # "dict" => DOMAIN c.dict.slots = {}
      /\ c.kind = "none" => c.present = {}
      /\ c.kind = "dict" => \A j \in c.present : c.ids[j] \in DictIds(c)
  BY DEF ColShape
<1>2. DictIds(c) \subseteq DOMAIN c.dict.slots
  BY DEF DictIds
<1> QED BY <1>1, <1>2, ColumnType

\* The cell and the index pair of a dictionary entry.
LEMMA SetDictColumn ==
  ASSUME NEW c, ColShape(c), c.kind = "dict", NEW i \in Idx, i \notin c.present,
         NEW id, id \in DictIds(c), NEW seq \in Nat
  PROVE  LET t == SetDict(c, i, seq, id)
         IN  /\ ColShape(t) /\ t.kind = "dict" /\ t.dict = c.dict /\ t.card = c.card
             /\ t.present = c.present \union {i} /\ t.ids[i] = id
             /\ \A j \in Idx \ {i} : t.ids[j] = c.ids[j]
             /\ t.index = c.index \union {<<id, seq % SeqWidth>>}
             /\ \A x : Holds(t, x) = Holds(c, x)
             /\ \A j \in Idx \ {i} : TextOf(t, j) = TextOf(c, j)
             /\ TextOf(t, i) = c.dict.slots[id].item
             /\ \A e : Cardinality(CellsAt(t, e)) = Cardinality(CellsAt(c, e)) + (IF e = id THEN 1 ELSE 0)
<1> DEFINE t == SetDict(c, i, seq, id)
           ix == c.index \union {<<id, seq % SeqWidth>>}
           p == c.present \union {i}
           m == WithCell(c, i, id, p)
<1>1. /\ c \in AnyColumn /\ SlabOK(c.dict, Nat \ {0}) /\ c.card = Cardinality(DictIds(c))
      /\ \A j \in c.present : c.ids[j] \in DictIds(c)
      /\ c.ids \in [Idx -> Nat] /\ c.present \subseteq Idx
      /\ c.dict \in Slabs(Nat) /\ c.index \subseteq Nat \X (0..(SeqWidth - 1)) /\ c.card \in Nat
      /\ DictIds(c) \subseteq Nat \ {0} /\ DictIds(c) \subseteq DOMAIN c.dict.slots
  BY ShapeType
<1>2. ix \in SUBSET (Nat \X (0..(SeqWidth - 1))) /\ p \in SUBSET Idx
  <2>1. seq % SeqWidth \in 0..(SeqWidth - 1)
    BY StoreAssumption
  <2>2. id \in Nat
    BY <1>1
  <2> QED BY <1>1, <2>1, <2>2
<1>3. t = WithDict(m, c.dict, ix, c.card)
  BY <1>1 DEF SetDict, WithCell, WithDict, AnyColumn
<1> HIDE DEF ix, p
<1>4. /\ m.kind = c.kind /\ m.ids = [c.ids EXCEPT ![i] = id] /\ m.present = p /\ m \in AnyColumn
  BY <1>1, <1>2, ColumnExcept
<1> HIDE DEF m, t
<1>5. /\ t.kind = "dict" /\ t.ids = [c.ids EXCEPT ![i] = id] /\ t.present = p
      /\ t.dict = c.dict /\ t.index = ix /\ t.card = c.card /\ t \in AnyColumn
  BY <1>1, <1>2, <1>3, <1>4, ColumnRest
<1>6. /\ t.ids[i] = id /\ i \in t.present
      /\ \A j \in Idx \ {i} : t.ids[j] = c.ids[j] /\ (j \in t.present <=> j \in c.present)
  BY <1>1, <1>5 DEF p
<1>7. DictIds(t) = DictIds(c)
  BY <1>5 DEF DictIds
<1>8. \A j \in t.present : t.ids[j] \in DictIds(t)
  BY <1>1, <1>2, <1>5, <1>6, <1>7
<1>9. ColShape(t)
  BY <1>1, <1>5, <1>7, <1>8 DEF ColShape
<1>10. \A x : Holds(t, x) = Holds(c, x)
  BY <1>5, <1>7 DEF Holds
<1>11. \A j \in Idx \ {i} : TextOf(t, j) = TextOf(c, j)
  <2> SUFFICES ASSUME NEW j \in Idx \ {i} PROVE TextOf(t, j) = TextOf(c, j)
    OBVIOUS
  <2> QED BY <1>5, <1>6 DEF TextOf
<1>12. TextOf(t, i) = c.dict.slots[id].item
  BY <1>1, <1>5, <1>6 DEF TextOf
<1>13. ASSUME NEW e
       PROVE  Cardinality(CellsAt(t, e)) = Cardinality(CellsAt(c, e)) + (IF e = id THEN 1 ELSE 0)
  <2>1. IsFiniteSet(CellsAt(c, e)) /\ i \notin CellsAt(c, e) /\ Cardinality(CellsAt(c, e)) \in Nat
    <3>1. IsFiniteSet(CellsAt(c, e))
      BY <1>1, IdxFinite
    <3> QED BY <3>1, FS_CardinalityType DEF CellsAt
  <2>2. \A j \in Idx : j \in CellsAt(t, e) <=> (j \in CellsAt(c, e) \/ (j = i /\ e = id))
    BY <1>6 DEF CellsAt
  <2>3. CellsAt(t, e) = IF e = id THEN CellsAt(c, e) \union {i} ELSE CellsAt(c, e)
    <3>1. CellsAt(t, e) \subseteq Idx /\ CellsAt(c, e) \subseteq Idx
      BY <1>1, <1>2, <1>5 DEF CellsAt
    <3> QED BY <2>2, <3>1
  <2>4. CASE e = id
    BY <2>1, <2>3, <2>4, CardPlus
  <2>5. CASE e # id
    BY <2>1, <2>3, <2>5
  <2> QED BY <2>4, <2>5
<1> QED BY <1>5, <1>6, <1>9, <1>10, <1>11, <1>12, <1>13 DEF t, ix, p

\* A raw cell.
LEMMA SetRawOK ==
  ASSUME NEW d, DbShape(d), NEW k \in Keys, d.col[k].kind = "raw", NEW i \in Idx \ d.col[k].present,
         NEW v \in Texts
  PROVE  LET e == SetRaw(d, k, i, v)
         IN  /\ CellStep(d, e, k, i) /\ ColOK(e.col[k]) /\ e.col[k].kind = "raw"
             /\ GetString(e, k, i) = v /\ e.col[k].present = d.col[k].present \union {i}
<1> DEFINE c == d.col[k]
           put == Put(d.intern, Hash[v], v)
           p == c.present \union {i}
           t == WithCell(c, i, put.id, p)
           e == SetRaw(d, k, i, v)
<1>1. /\ d \in Dbs /\ SlabOK(d.intern, Texts) /\ ColShape(c) /\ d.col \in [Keys -> AnyColumn]
  BY DbType DEF DbShape
<1>2. /\ c \in AnyColumn /\ SlabOK(c.dict, Nat \ {0}) /\ c.card = Cardinality(DictIds(c))
      /\ DOMAIN c.dict.slots = {} /\ c.ids \in [Idx -> Nat] /\ c.present \subseteq Idx
  BY <1>1, ShapeType
<1>3. Hash[v] \in Hashes
  BY StoreAssumption
<1>4. /\ SlabOK(put.slab, Texts) /\ Same(d.intern, put.slab) /\ put.id \in Nat \ {0}
      /\ put.slab.slots[put.id].item = v
      /\ \A x : Refs(put.slab, x) = Refs(d.intern, x) + (IF x = put.id THEN 1 ELSE 0)
  BY <1>1, <1>3, PutSlab
<1>5. e = WithCols(d, put.slab, [d.col EXCEPT ![k] = t])
  BY DEF SetRaw, WithCols, WithCell
<1> HIDE DEF put
<1>6. p \in SUBSET Idx
  BY <1>2
<1> HIDE DEF p
<1>7. /\ t.kind = "raw" /\ t.ids = [c.ids EXCEPT ![i] = put.id] /\ t.present = p
      /\ t.dict = c.dict /\ t.index = c.index /\ t.card = c.card /\ t \in AnyColumn
  BY <1>2, <1>4, <1>6, ColumnExcept
<1> HIDE DEF t
<1>8. DictIds(t) = DictIds(c) /\ DictIds(c) = {}
  BY <1>2, <1>7 DEF DictIds
<1>9. ColShape(t) /\ ColOK(t)
  <2>1. t.card <= MaxDict
    BY <1>2, <1>7, <1>8, FS_EmptySet, StoreAssumption
  <2> QED BY <1>2, <1>7, <1>8, <2>1 DEF ColShape, ColOK
<1>10. /\ t.ids[i] = put.id /\ i \in t.present
       /\ \A j \in Idx \ {i} : t.ids[j] = c.ids[j] /\ (j \in t.present <=> j \in c.present)
  BY <1>2, <1>7 DEF p
<1>11. ASSUME NEW id \in Nat \ {0}
       PROVE  Refs(put.slab, id) + Cardinality(Holds(c, id)) = Refs(d.intern, id) + Cardinality(Holds(t, id))
  <2>1. Holds(c, id) = CellsAt(c, id) /\ Holds(t, id) = CellsAt(t, id)
    BY <1>7 DEF Holds
  <2>2. IsFiniteSet(CellsAt(c, id)) /\ i \notin CellsAt(c, id)
    BY <1>2, IdxFinite DEF CellsAt
  <2>3. CellsAt(t, id) = IF id = put.id THEN CellsAt(c, id) \union {i} ELSE CellsAt(c, id)
    <3>1. CellsAt(t, id) \subseteq Idx /\ CellsAt(c, id) \subseteq Idx
      BY <1>2, <1>6, <1>7 DEF CellsAt
    <3>2. \A j \in Idx : j \in CellsAt(t, id) <=> (j \in CellsAt(c, id) \/ (j = i /\ id = put.id))
      BY <1>10 DEF CellsAt
    <3> QED BY <3>1, <3>2
  <2>4. Refs(d.intern, id) \in Nat
    BY <1>1, SlabRefs DEF SlabOK
  <2>5. CASE id = put.id
    <3>1. Cardinality(CellsAt(t, id)) = Cardinality(CellsAt(c, id)) + 1 /\ Cardinality(CellsAt(c, id)) \in Nat
      BY <2>2, <2>3, <2>5, CardPlus
    <3> QED BY <3>1, <2>1, <2>4, <2>5, <1>4
  <2>6. CASE id # put.id
    BY <2>1, <2>3, <2>4, <2>6, <1>4
  <2> QED BY <2>5, <2>6
<1>12. /\ DbShape(e) /\ e.intern = put.slab /\ e.blobs = d.blobs /\ e.pairs = d.pairs
       /\ e.ansi = d.ansi /\ e.text = d.text /\ e.count = d.count /\ e.seen = d.seen
       /\ e.col[k] = t /\ \A j \in Keys \ {k} : e.col[j] = d.col[j]
  BY <1>4, <1>5, <1>7, <1>9, <1>11, ColChange
<1> HIDE DEF e
<1>13. \A j \in Idx \ {i} : TextOf(t, j) = TextOf(c, j)
  BY <1>7, <1>10 DEF TextOf
<1>14. CellStep(d, e, k, i)
  BY <1>4, <1>12, <1>13, CellStepFrom
<1>15. GetString(e, k, i) = v
  <2>1. TextOf(t, i) = put.id
    BY <1>7, <1>10 DEF TextOf
  <2>2. Refs(put.slab, put.id) > 0
    <3>1. Refs(d.intern, put.id) \in Nat
      BY <1>1, SlabRefs DEF SlabOK
    <3> QED BY <3>1, <1>4
  <2> QED BY <2>1, <2>2, <1>4, <1>12 DEF GetString, Get
<1> QED BY <1>7, <1>9, <1>12, <1>14, <1>15 DEF e, p

\* A slab compared across two changes.
LEMMA SameThen ==
  ASSUME NEW s, NEW t, NEW u, Same(s, t), Same(t, u),
         \A x \in Nat : Refs(s, x) > 0 => Refs(t, x) > 0
  PROVE  Same(s, u)
BY DEF Same

\* A column that turns raw reads as before.
LEMMA PromoteOK ==
  ASSUME NEW d, DbShape(d), NEW k \in Keys, d.col[k].kind = "dict"
  PROVE  LET e == PromoteToRaw(d, k)
         IN  /\ \A i \in Idx : CellStep(d, e, k, i) 
             /\ ColOK(e.col[k]) /\ e.col[k].kind = "raw" /\ e.col[k].present = d.col[k].present
<1> DEFINE c == d.col[k]
           r == RawOf(c)
           in == d.intern
           n1 == CellsOf(d, c)
           n2 == EntriesOf(d, c)
           s1 == Retain(in, n1)
           s2 == Release(s1, n2)
           e == PromoteToRaw(d, k)
<1>1. /\ d \in Dbs /\ SlabOK(in, Texts) /\ ColShape(c) /\ d.col \in [Keys -> AnyColumn]
      /\ in \in Slabs(Texts)
  BY DbType DEF DbShape
<1>2. /\ c \in AnyColumn /\ c.ids \in [Idx -> Nat] /\ c.present \subseteq Idx /\ IsFiniteSet(DictIds(c))
  BY <1>1, ShapeType
<1>3. \A i \in Idx : /\ TextOf(c, i) \in Nat
                     /\ TextOf(c, i) # 0 => Refs(in, TextOf(c, i)) > 0
  BY TextLive
<1>4. e = WithCols(d, s2, [d.col EXCEPT ![k] = r])
  BY DEF PromoteToRaw, WithCols
<1>5. /\ \A x : Refs(in, x) \in Nat /\ (Refs(in, x) > 0 => x \in DOMAIN in.slots)
      /\ \A x \in DOMAIN in.slots : x \in Nat \ {0}
  BY <1>1, SlabRefs
<1>6. r = [kind |-> "raw", ids |-> [i \in Idx |-> TextOf(c, i)], present |-> c.present,
           dict |-> NewSlab, index |-> {}, card |-> 0]
  <2> DEFINE a == [i \in Idx |-> 0]
             b == [i \in Idx |-> TextOf(c, i)]
             p == c.present
             new == NewColumn("raw")
  <2>1. new = [kind |-> "raw", ids |-> a, present |-> {}, dict |-> NewSlab, index |-> {}, card |-> 0]
    BY DEF NewColumn
  <2>2. r = [new EXCEPT !.ids = b, !.present = p]
    BY DEF RawOf
  <2> HIDE DEF a, b, p, new, r
  <2>3. r = [kind |-> "raw", ids |-> b, present |-> p, dict |-> NewSlab, index |-> {}, card |-> 0]
    BY <2>1, <2>2
  <2> QED BY <2>3 DEF b, p
<1> DEFINE Cells(x) == {i \in c.present : TextOf(c, i) = x}
           Ents(x) == {y \in DictIds(c) : c.dict.slots[y].item = x}
<1>7. \A x : /\ IsFiniteSet(Cells(x)) /\ Cardinality(Cells(x)) \in Nat
             /\ IsFiniteSet(Ents(x)) /\ Cardinality(Ents(x)) \in Nat
  <2> SUFFICES ASSUME NEW x
               PROVE  /\ IsFiniteSet(Cells(x)) /\ Cardinality(Cells(x)) \in Nat
                      /\ IsFiniteSet(Ents(x)) /\ Cardinality(Ents(x)) \in Nat
    OBVIOUS
  <2>1. Cells(x) \subseteq c.present /\ IsFiniteSet(c.present) /\ Ents(x) \subseteq DictIds(c)
    BY <1>2, IdxFinite
  <2> QED BY <2>1, <1>2, FS_Subset, FS_CardinalityType
<1>8. /\ n1 \in [DOMAIN in.slots -> Nat] /\ \A x \in DOMAIN in.slots : n1[x] = Cardinality(Cells(x))
      /\ n2 \in [DOMAIN in.slots -> Nat] /\ \A x \in DOMAIN in.slots : n2[x] = Cardinality(Ents(x))
  <2>1. /\ n1 = [x \in DOMAIN in.slots |-> Cardinality(Cells(x))]
        /\ n2 = [x \in DOMAIN in.slots |-> Cardinality(Ents(x))]
    BY DEF CellsOf, EntriesOf
  <2> HIDE DEF n1, n2, Cells, Ents
  <2> QED BY <2>1, <1>7
<1>9. \A x \in Nat \ {0} : Cells(x) # {} => Refs(in, x) > 0
  BY <1>2, <1>3
<1>10. \A x \in DOMAIN in.slots : n1[x] > 0 => Refs(in, x) > 0
  <2> SUFFICES ASSUME NEW x \in DOMAIN in.slots, n1[x] > 0 PROVE Refs(in, x) > 0
    OBVIOUS
  <2>1. Cardinality(Cells(x)) # 0
    BY <1>8
  <2>2. Cells(x) # {}
    BY <2>1, FS_EmptySet
  <2> QED BY <2>2, <1>5, <1>9
<1> HIDE DEF n1, n2
<1>11. /\ SlabOK(s1, Texts) /\ Same(in, s1) /\ DOMAIN s1.slots = DOMAIN in.slots
       /\ \A x \in DOMAIN in.slots : Refs(s1, x) = Refs(in, x) + n1[x]
       /\ \A x : Refs(in, x) = 0 => Refs(s1, x) = 0
  BY <1>1, <1>8, <1>10, RetainSlab
<1> HIDE DEF s1
<1>12. n2 \in [DOMAIN s1.slots -> Nat]
  BY <1>8, <1>11
<1>13. /\ SlabOK(s2, Texts) /\ Same(s1, s2)
       /\ \A x \in DOMAIN s1.slots : Refs(s2, x) = Less(Refs(s1, x), n2[x])
       /\ \A x : Refs(s1, x) = 0 => Refs(s2, x) = 0
  BY <1>11, <1>12, ReleaseSlab
<1> HIDE DEF s2
<1>14. Same(in, s2)
  <2>1. \A x \in Nat : Refs(in, x) > 0 => Refs(s1, x) > 0
    BY <1>5, <1>8, <1>11
  <2> QED BY <2>1, <1>11, <1>13, SameThen
<1> DEFINE K == {"none", "dict", "raw"}
           X == SUBSET (Nat \X (0..(SeqWidth - 1)))
<1>15. /\ r.kind = "raw" /\ r.present = c.present /\ r.dict = NewSlab /\ r.card = 0
       /\ \A i \in Idx : r.ids[i] = TextOf(c, i)
       /\ r.ids \in [Idx -> Nat] /\ r.index = {}
  BY <1>6, <1>3
<1>16. r \in AnyColumn
  <2>1. NewSlab \in Slabs(Nat)
    BY NewSlabOK DEF SlabOK
  <2>2. r.kind \in K /\ r.present \in SUBSET Idx /\ r.index \in X /\ r.card \in Nat
    BY <1>2, <1>15
  <2>3. r \in [kind : K, ids : [Idx -> Nat], present : SUBSET Idx, dict : Slabs(Nat), index : X,
               card : Nat]
    <3>1. r = [kind |-> r.kind, ids |-> r.ids, present |-> r.present, dict |-> r.dict,
               index |-> r.index, card |-> r.card]
      BY <1>6
    <3> HIDE DEF r, K, X
    <3> QED BY <3>1, <2>1, <2>2, <1>15
  <2> QED BY <2>3 DEF AnyColumn
<1> HIDE DEF r
<1>17. DictIds(r) = {} /\ DOMAIN r.dict.slots = {}
  BY <1>15, NewSlabOK DEF DictIds
<1>18. ColShape(r)
  BY <1>15, <1>16, <1>17, NewSlabOK, FS_EmptySet DEF ColShape
<1>19. ColOK(r)
  BY <1>15, <1>18, StoreAssumption DEF ColOK
<1>20. ASSUME NEW x \in Nat \ {0}
       PROVE  Refs(s2, x) + Cardinality(Holds(c, x)) = Refs(in, x) + Cardinality(Holds(r, x))
  <2>1. Holds(c, x) = Ents(x)
    BY DEF Holds
  <2>2. Holds(r, x) = Cells(x)
    BY <1>2, <1>15 DEF Holds, CellsAt
  <2>3. Cardinality(Ents(x)) <= Refs(in, x)
    BY <2>1, UsedLive
  <2>4. /\ Cardinality(Cells(x)) \in Nat /\ Cardinality(Ents(x)) \in Nat /\ Refs(in, x) \in Nat
    BY <1>5, <1>7
  <2>5. CASE x \in DOMAIN in.slots
    <3>1. Refs(s1, x) = Refs(in, x) + Cardinality(Cells(x))
      BY <2>5, <1>8, <1>11
    <3>2. Refs(s2, x) = Less(Refs(s1, x), Cardinality(Ents(x)))
      BY <2>5, <1>8, <1>11, <1>13
    <3> HIDE DEF Cells, Ents
    <3> QED BY <3>1, <3>2, <2>1, <2>2, <2>3, <2>4 DEF Less
  <2>6. CASE x \notin DOMAIN in.slots
    <3>1. Refs(in, x) = 0 /\ Refs(s2, x) = 0
      BY <2>6, <1>11, <1>13 DEF Refs
    <3>2. Cardinality(Cells(x)) = 0
      BY <3>1, <1>9, FS_EmptySet
    <3> HIDE DEF Cells, Ents
    <3> QED BY <3>1, <3>2, <2>1, <2>2, <2>3, <2>4
  <2> QED BY <2>5, <2>6
<1>21. /\ DbShape(e) /\ e.intern = s2 /\ e.blobs = d.blobs /\ e.pairs = d.pairs
       /\ e.ansi = d.ansi /\ e.text = d.text /\ e.count = d.count /\ e.seen = d.seen
       /\ e.col[k] = r /\ \A j \in Keys \ {k} : e.col[j] = d.col[j]
  BY <1>4, <1>13, <1>15, <1>18, <1>20, ColChange
<1> HIDE DEF e
<1>22. \A j \in Idx : TextOf(r, j) = TextOf(c, j)
  BY <1>15 DEF TextOf
<1>23. \A i \in Idx : CellStep(d, e, k, i)
  BY <1>14, <1>21, <1>22, CellStepFrom
<1> QED BY <1>15, <1>19, <1>21, <1>23 DEF e

HitColumn(c, i, seq, id) ==
  SetDict([c EXCEPT !.dict = Retain(c.dict, Once(c.dict, id))], i, seq, id)

\* The dictionary knows the value.
LEMMA HitOK ==
  ASSUME NEW d, DbOK(d), NEW k \in Keys, d.col[k].kind = "dict", NEW i \in Idx, i \notin d.col[k].present,
         NEW seq \in Nat, NEW v \in Texts, NEW id,
         id \in DictIds(d.col[k]), Get(d.intern, d.col[k].dict.slots[id].item) = v
  PROVE  LET e == WithCols(d, d.intern, [d.col EXCEPT ![k] = HitColumn(d.col[k], i, seq, id)])
         IN  CellStep(d, e, k, i) /\ ColOK(e.col[k]) /\ GetString(e, k, i) = v
<1> DEFINE c == d.col[k]
           n == Once(c.dict, id)
           r == Retain(c.dict, n)
           more == [c EXCEPT !.dict = r]
           t == SetDict(more, i, seq, id)
           e == WithCols(d, d.intern, [d.col EXCEPT ![k] = HitColumn(c, i, seq, id)])
<1>1. /\ DbShape(d) /\ d \in Dbs /\ SlabOK(d.intern, Texts) /\ ColShape(c) /\ ColOK(c)
      /\ d.col \in [Keys -> AnyColumn]
  BY DbType DEF DbOK, DbShape
<1>2. /\ c \in AnyColumn /\ SlabOK(c.dict, Nat \ {0}) /\ c.card = Cardinality(DictIds(c))
      /\ \A j \in c.present : c.ids[j] \in DictIds(c)
      /\ c.ids \in [Idx -> Nat] /\ c.present \subseteq Idx
      /\ c.dict \in Slabs(Nat) /\ c.index \subseteq Nat \X (0..(SeqWidth - 1)) /\ c.card \in Nat
      /\ \A x : Refs(c.dict, x) \in Nat /\ (Refs(c.dict, x) > 0 <=> x \in DictIds(c))
      /\ DictIds(c) \subseteq Nat \ {0} /\ DictIds(c) \subseteq DOMAIN c.dict.slots
      /\ c.card <= MaxDict
      /\ \A y \in Nat : Refs(c.dict, y) = Cardinality(CellsAt(c, y))
  BY <1>1, ShapeType DEF ColOK
<1>2a. HitColumn(c, i, seq, id) = t
  BY DEF HitColumn
<1> HIDE DEF more, t, e
<1>3. n \in [DOMAIN c.dict.slots -> Nat] /\ \A x \in DOMAIN c.dict.slots : n[x] = IF x = id THEN 1 ELSE 0
  BY <1>2, OnceType
<1>4. \A x \in DOMAIN c.dict.slots : n[x] > 0 => Refs(c.dict, x) > 0
  BY <1>2, <1>3
<1> HIDE DEF n
<1>5. /\ SlabOK(r, Nat \ {0}) /\ DOMAIN r.slots = DOMAIN c.dict.slots
      /\ \A x \in DOMAIN c.dict.slots : r.slots[x].item = c.dict.slots[x].item
      /\ \A x \in DOMAIN c.dict.slots : Refs(r, x) = Refs(c.dict, x) + n[x]
      /\ \A x : Refs(c.dict, x) = 0 => Refs(r, x) = 0
  <2> DEFINE s == c.dict
             Items == Nat \ {0}
  <2>1. /\ SlabOK(s, Items) /\ n \in [DOMAIN s.slots -> Nat] /\ r = Retain(s, n)
        /\ \A x \in DOMAIN s.slots : n[x] > 0 => Refs(s, x) > 0
    BY <1>2, <1>3, <1>4
  <2> HIDE DEF s, r, Items
  <2>2. /\ SlabOK(r, Items) /\ DOMAIN r.slots = DOMAIN s.slots
        /\ \A x \in DOMAIN s.slots : r.slots[x].item = s.slots[x].item
        /\ \A x \in DOMAIN s.slots : Refs(r, x) = Refs(s, x) + n[x]
        /\ \A x : Refs(s, x) = 0 => Refs(r, x) = 0
    BY <2>1, RetainSlab
  <2> QED BY <2>2 DEF s, Items
<1> HIDE DEF r
<1>6. r \in Slabs(Nat)
  BY <1>5, SlabsNat DEF SlabOK
<1>7. more = WithDict(c, r, c.index, c.card)
  BY <1>2 DEF WithDict, AnyColumn, more
<1>8. /\ more.kind = c.kind /\ more.ids = c.ids /\ more.present = c.present
      /\ more.dict = r /\ more.index = c.index /\ more.card = c.card /\ more \in AnyColumn
  BY <1>2, <1>6, <1>7, ColumnRest
<1>9. \A x : Refs(r, x) = Refs(c.dict, x) + (IF x = id THEN 1 ELSE 0)
  <2> SUFFICES ASSUME NEW x PROVE Refs(r, x) = Refs(c.dict, x) + (IF x = id THEN 1 ELSE 0)
    OBVIOUS
  <2>1. CASE x \in DOMAIN c.dict.slots
    BY <2>1, <1>3, <1>5
  <2>2. CASE x \notin DOMAIN c.dict.slots
    BY <2>2, <1>2, <1>5
  <2> QED BY <2>1, <2>2
<1>10. DictIds(more) = DictIds(c)
  <2>1. \A x : x \in DictIds(more) <=> Refs(r, x) > 0
    BY <1>8, ColumnType
  <2>2. \A x : x \in DictIds(more) <=> x \in DictIds(c)
    <3> SUFFICES ASSUME NEW x PROVE x \in DictIds(more) <=> x \in DictIds(c)
      OBVIOUS
    <3>1. Refs(c.dict, x) \in Nat /\ (Refs(c.dict, x) > 0 <=> x \in DictIds(c))
      BY <1>2
    <3> QED BY <3>1, <2>1, <1>9
  <2> QED BY <2>2
<1>11. ColShape(more)
  BY <1>2, <1>5, <1>8, <1>10 DEF ColShape
<1>12. id \in DictIds(more) /\ i \in Idx \ more.present /\ more.kind = "dict"
  BY <1>8, <1>10
<1>13. /\ ColShape(t) /\ t.kind = "dict" /\ t.dict = r /\ t.card = c.card
       /\ \A x : Holds(t, x) = Holds(more, x)
       /\ \A j \in Idx \ {i} : TextOf(t, j) = TextOf(more, j)
       /\ TextOf(t, i) = r.slots[id].item
       /\ \A y : Cardinality(CellsAt(t, y)) = Cardinality(CellsAt(more, y)) + (IF y = id THEN 1 ELSE 0)
  <2> DEFINE m == more
  <2>1. ColShape(m) /\ m.kind = "dict" /\ i \in Idx /\ i \notin m.present /\ id \in DictIds(m) /\ seq \in Nat
    BY <1>11, <1>12
  <2>2. t = SetDict(m, i, seq, id)
    BY DEF t
  <2> HIDE DEF m
  <2>3. /\ ColShape(t) /\ t.kind = "dict" /\ t.dict = m.dict /\ t.card = m.card
        /\ \A x : Holds(t, x) = Holds(m, x)
        /\ \A j \in Idx \ {i} : TextOf(t, j) = TextOf(m, j)
        /\ TextOf(t, i) = m.dict.slots[id].item
        /\ \A y : Cardinality(CellsAt(t, y)) = Cardinality(CellsAt(m, y)) + (IF y = id THEN 1 ELSE 0)
    BY <2>1, <2>2, SetDictColumn
  <2> QED BY <2>3, <1>8 DEF m
<1>14. \A x : Holds(t, x) = Holds(c, x)
  <2>1. \A y \in DictIds(c) : r.slots[y].item = c.dict.slots[y].item
    BY <1>2, <1>5
  <2>2. \A x : Holds(more, x) = Holds(c, x)
    BY <2>1, <1>8, <1>10 DEF Holds
  <2> QED BY <2>2, <1>13
<1>15. \A j \in Idx \ {i} : TextOf(t, j) = TextOf(c, j)
  <2>1. \A j \in Idx : TextOf(more, j) = TextOf(c, j)
    BY <1>5, <1>8 DEF TextOf
  <2> QED BY <2>1, <1>13
<1>16. ColOK(t)
  <2>1. \A y : CellsAt(more, y) = CellsAt(c, y)
    BY <1>8 DEF CellsAt
  <2>2. \A y \in Nat : Refs(t.dict, y) = Cardinality(CellsAt(t, y))
    BY <2>1, <1>2, <1>9, <1>13
  <2> QED BY <2>2, <1>2, <1>13 DEF ColOK
<1>17. e = WithCols(d, d.intern, [d.col EXCEPT ![k] = t])
  BY <1>2a DEF e
<1>18. /\ DbShape(e) /\ e.intern = d.intern /\ e.blobs = d.blobs /\ e.pairs = d.pairs
       /\ e.ansi = d.ansi /\ e.text = d.text /\ e.count = d.count /\ e.seen = d.seen
       /\ e.col[k] = t /\ \A j \in Keys \ {k} : e.col[j] = d.col[j]
  <2>1. t.kind = "none" => k \notin WellKnown
    BY <1>13
  <2>2. \A x \in Nat \ {0} : Refs(d.intern, x) + Cardinality(Holds(c, x)) = Refs(d.intern, x) + Cardinality(Holds(t, x))
    BY <1>14
  <2>3. ColShape(t)
    BY <1>13
  <2> QED BY <2>1, <2>2, <2>3, <1>1, <1>17, ColChange
<1>19. CellStep(d, e, k, i)
  <2>1. Same(d.intern, e.intern)
    BY <1>18, SameSelf
  <2> QED BY <2>1, <1>1, <1>15, <1>18, CellStepFrom
<1>20. GetString(e, k, i) = v
  <2>1. TextOf(t, i) = c.dict.slots[id].item
    BY <1>2, <1>5, <1>13
  <2> QED BY <2>1, <1>18 DEF GetString
<1> QED BY <1>16, <1>18, <1>19, <1>20 DEF e, t, more, r, n

\* One cell evicted.
LEMMA EvictCellOK ==
  ASSUME NEW d, DbOK(d), NEW k \in Keys, NEW i \in Idx
  PROVE  LET e == EvictCell(d, k, i)
         IN  /\ CellStep(d, e, k, i) /\ DbOK(e) /\ e.col[k].kind = d.col[k].kind
             /\ i \notin e.col[k].present
<1> DEFINE e == EvictCell(d, k, i)
<1>1. DbShape(d)
  BY DEF DbOK
<1>2. CASE i \notin d.col[k].present
  BY <1>1, <1>2, CellStepSelf DEF EvictCell
<1>3. CASE i \in d.col[k].present
  <2>1. e = EvictCells(d, {k}, i)
    BY <1>3 DEF EvictCell
  <2>2. {k} \subseteq Keys
    OBVIOUS
  <2>3. Evicted(d, e, {k}, i)
    BY <2>1, <2>2, EvictCellsOK
  <2> HIDE DEF e
  <2>4. /\ \A j \in Keys \ {k} : e.col[j] = d.col[j]
        /\ \A j \in Idx \ {i} : TextOf(e.col[k], j) = TextOf(d.col[k], j)
        /\ e.col[k].kind = d.col[k].kind /\ i \notin e.col[k].present
    BY <2>3 DEF Evicted
  <2>5. /\ DbOK(e) /\ DbShape(e) /\ Same(d.intern, e.intern)
        /\ e.blobs = d.blobs /\ e.pairs = d.pairs /\ e.ansi = d.ansi /\ e.text = d.text
        /\ e.count = d.count /\ e.seen = d.seen
    BY <2>3 DEF Evicted, DbOK
  <2>6. CellStep(d, e, k, i)
    BY <1>1, <2>4, <2>5, CellStepFrom
  <2> QED BY <2>4, <2>5, <2>6 DEF e
<1> QED BY <1>2, <1>3

\* The dictionary with an entry more.
Grown(c, h, item) == [c EXCEPT !.dict = Add(c.dict, h, item), !.card = c.card + 1]

\* The cell set to a new entry that holds the text.
NewEntry(d, e, k, i, seq, v) ==
  \E item \in Nat \ {0} :
    /\ e.col[k] = SetDict(Grown(d.col[k], Hash[v], item), i, seq, NextId(d.col[k].dict))
    /\ Get(e.intern, item) = v /\ Same(d.intern, e.intern)

\* The dictionary does not know the value.
LEMMA AddOK ==
  ASSUME NEW d, DbOK(d), NEW k \in Keys, d.col[k].kind = "dict", NEW i \in Idx, i \notin d.col[k].present,
         NEW seq \in Nat, NEW v \in Texts
  PROVE  LET e == AddToDict(d, k, i, seq, v)
         IN  /\ CellStep(d, e, k, i) /\ ColOK(e.col[k]) /\ GetString(e, k, i) = v
             /\ e.col[k].kind = "raw" \/ NewEntry(d, e, k, i, seq, v)
<1> DEFINE c == d.col[k]
           h == Hash[v]
           put == Put(d.intern, h, v)
           id == NextId(c.dict)
           add == Add(c.dict, h, put.id)
           col == [c EXCEPT !.dict = add, !.card = c.card + 1]
           new == [d EXCEPT !.intern = put.slab, !.col[k] = col]
           t == SetDict(col, i, seq, id)
           e == AddToDict(d, k, i, seq, v)
<1>1. /\ DbShape(d) /\ d \in Dbs /\ SlabOK(d.intern, Texts) /\ ColShape(c) /\ ColOK(c)
      /\ d.col \in [Keys -> AnyColumn]
  BY DbType DEF DbOK, DbShape
<1>2. /\ c \in AnyColumn /\ SlabOK(c.dict, Nat \ {0}) /\ c.card = Cardinality(DictIds(c))
      /\ \A j \in c.present : c.ids[j] \in DictIds(c)
      /\ c.ids \in [Idx -> Nat] /\ c.present \subseteq Idx
      /\ c.dict \in Slabs(Nat) /\ c.index \subseteq Nat \X (0..(SeqWidth - 1)) /\ c.card \in Nat
      /\ \A x : Refs(c.dict, x) \in Nat /\ (Refs(c.dict, x) > 0 <=> x \in DictIds(c))
      /\ DictIds(c) \subseteq Nat \ {0} /\ DictIds(c) \subseteq DOMAIN c.dict.slots
      /\ IsFiniteSet(DictIds(c)) /\ Cardinality(DictIds(c)) \in Nat
      /\ c.card <= MaxDict
      /\ \A y \in Nat : Refs(c.dict, y) = Cardinality(CellsAt(c, y))
  BY <1>1, ShapeType DEF ColOK
<1>3. h \in Hashes
  BY StoreAssumption
<1>4. /\ e = IF c.card + 1 > MaxDict THEN SetRaw(PromoteToRaw(new, k), k, i, v)
                                     ELSE [new EXCEPT !.col[k] = t]
      /\ new = WithCols(d, put.slab, [d.col EXCEPT ![k] = col])
      /\ [new EXCEPT !.col[k] = t] = WithCols(d, put.slab, [d.col EXCEPT ![k] = t])
      /\ col = WithDict(c, add, c.index, c.card + 1)
  <2>1. col.card = c.card + 1 /\ col = WithDict(c, add, c.index, c.card + 1)
    BY <1>2 DEF WithDict, AnyColumn
  <2>2. e = IF col.card > MaxDict THEN SetRaw(PromoteToRaw(new, k), k, i, v)
                                  ELSE [new EXCEPT !.col[k] = t]
    BY DEF AddToDict
  <2>3. /\ new = WithCols(d, put.slab, [d.col EXCEPT ![k] = col])
        /\ [new EXCEPT !.col[k] = t] = WithCols(d, put.slab, [d.col EXCEPT ![k] = t])
    <3> HIDE DEF col, t, put
    <3> QED BY <1>1 DEF WithCols, Dbs
  <2> HIDE DEF col, t, put, new, e
  <2> QED BY <2>1, <2>2, <2>3
<1>5. /\ SlabOK(put.slab, Texts) /\ Same(d.intern, put.slab) /\ put.id \in Nat \ {0}
      /\ put.slab.slots[put.id].item = v
      /\ \A x : Refs(put.slab, x) = Refs(d.intern, x) + (IF x = put.id THEN 1 ELSE 0)
  BY <1>1, <1>3, PutSlab
<1> HIDE DEF put, e, new, t, h
<1>6. /\ SlabOK(add, Nat \ {0}) /\ id \in Nat \ {0} /\ Refs(c.dict, id) = 0
      /\ DOMAIN add.slots = DOMAIN c.dict.slots \union {id}
      /\ add.slots[id].item = put.id
      /\ \A x : Refs(add, x) = IF x = id THEN 1 ELSE Refs(c.dict, x)
      /\ \A x \in DOMAIN c.dict.slots : x # id => add.slots[x] = c.dict.slots[x]
  BY <1>2, <1>3, <1>5, AddSlab
<1> HIDE DEF add, id, col
<1>7. add \in Slabs(Nat)
  BY <1>6, SlabsNat DEF SlabOK
<1>8. /\ col.kind = "dict" /\ col.ids = c.ids /\ col.present = c.present
      /\ col.dict = add /\ col.index = c.index /\ col.card = c.card + 1 /\ col \in AnyColumn
  BY <1>2, <1>4, <1>7, ColumnRest
<1>9. DictIds(col) = DictIds(c) \union {id} /\ id \notin DictIds(c)
  <2>1. \A x : x \in DictIds(col) <=> Refs(add, x) > 0
    BY <1>8, ColumnType
  <2> QED BY <2>1, <1>2, <1>6
<1>10. ColShape(col)
  <2>1. col.card = Cardinality(DictIds(col))
    BY <1>2, <1>8, <1>9, CardPlus
  <2> QED BY <2>1, <1>2, <1>6, <1>8, <1>9 DEF ColShape
<1>11. \A x : Cardinality(Holds(col, x)) = Cardinality(Holds(c, x)) + (IF x = put.id THEN 1 ELSE 0)
  <2> SUFFICES ASSUME NEW x
               PROVE  Cardinality(Holds(col, x)) = Cardinality(Holds(c, x)) + (IF x = put.id THEN 1 ELSE 0)
    OBVIOUS
  <2>1. \A y \in DictIds(c) : add.slots[y].item = c.dict.slots[y].item
    BY <1>2, <1>6, <1>9
  <2>2. Holds(col, x) = IF x = put.id THEN Holds(c, x) \union {id} ELSE Holds(c, x)
    BY <2>1, <1>6, <1>8, <1>9 DEF Holds
  <2>3. IsFiniteSet(Holds(c, x)) /\ Cardinality(Holds(c, x)) \in Nat /\ id \notin Holds(c, x)
    <3>1. IsFiniteSet(Holds(c, x)) /\ Cardinality(Holds(c, x)) \in Nat
      BY <1>2, HoldsFinite
    <3>2. id \notin Holds(c, x)
      BY <1>9 DEF Holds
    <3> QED BY <3>1, <3>2
  <2>4. CASE x = put.id
    BY <2>2, <2>3, <2>4, CardPlus
  <2>5. CASE x # put.id
    BY <2>2, <2>3, <2>5
  <2> QED BY <2>4, <2>5
<1>12. \A x \in Nat : Refs(put.slab, x) \in Nat /\ Refs(d.intern, x) \in Nat
                      /\ Cardinality(Holds(c, x)) \in Nat
  BY <1>1, <1>2, <1>5, SlabRefs, HoldsFinite DEF SlabOK
<1>13. \A j \in Idx : TextOf(col, j) = TextOf(c, j)
  <2> SUFFICES ASSUME NEW j \in Idx PROVE TextOf(col, j) = TextOf(c, j)
    OBVIOUS
  <2>1. CASE j \notin c.present
    BY <2>1, <1>8 DEF TextOf
  <2>2. CASE j \in c.present
    <3>1. c.ids[j] \in DictIds(c) /\ c.ids[j] # id /\ c.ids[j] \in DOMAIN c.dict.slots
      BY <2>2, <1>2, <1>9
    <3> QED BY <3>1, <2>2, <1>6, <1>8 DEF TextOf
  <2> QED BY <2>1, <2>2
<1>14. CASE ~(c.card + 1 > MaxDict)
  <2>1. e = WithCols(d, put.slab, [d.col EXCEPT ![k] = t])
    BY <1>4, <1>14
  <2>2. id \in DictIds(col) /\ i \notin col.present
    BY <1>8, <1>9
  <2>3. /\ ColShape(t) /\ t.kind = "dict" /\ t.dict = add /\ t.card = c.card + 1
        /\ \A x : Holds(t, x) = Holds(col, x)
        /\ \A j \in Idx \ {i} : TextOf(t, j) = TextOf(col, j)
        /\ TextOf(t, i) = put.id
        /\ \A y : Cardinality(CellsAt(t, y)) = Cardinality(CellsAt(col, y)) + (IF y = id THEN 1 ELSE 0)
    <3> DEFINE m == col
    <3>1. ColShape(m) /\ m.kind = "dict" /\ i \in Idx /\ i \notin m.present /\ id \in DictIds(m) /\ seq \in Nat
      BY <1>8, <1>10, <2>2
    <3>2. t = SetDict(m, i, seq, id)
      BY DEF t
    <3> HIDE DEF m
    <3>3. /\ ColShape(t) /\ t.kind = "dict" /\ t.dict = m.dict /\ t.card = m.card
          /\ \A x : Holds(t, x) = Holds(m, x)
          /\ \A j \in Idx \ {i} : TextOf(t, j) = TextOf(m, j)
          /\ TextOf(t, i) = m.dict.slots[id].item
          /\ \A y : Cardinality(CellsAt(t, y)) = Cardinality(CellsAt(m, y)) + (IF y = id THEN 1 ELSE 0)
      BY <3>1, <3>2, SetDictColumn
    <3> QED BY <3>3, <1>6, <1>8 DEF m
  <2>4. ColOK(t)
    <3>1. \A y : CellsAt(col, y) = CellsAt(c, y)
      BY <1>8 DEF CellsAt
    <3>2. \A y \in Nat : Refs(t.dict, y) = Cardinality(CellsAt(t, y))
      <4> SUFFICES ASSUME NEW y \in Nat PROVE Refs(t.dict, y) = Cardinality(CellsAt(t, y))
        OBVIOUS
      <4>1. Refs(c.dict, y) = Cardinality(CellsAt(c, y)) /\ Refs(c.dict, y) \in Nat
        BY <1>2
      <4>2. Cardinality(CellsAt(t, y)) = Cardinality(CellsAt(c, y)) + (IF y = id THEN 1 ELSE 0)
        BY <2>3, <3>1
      <4>3. Refs(t.dict, y) = IF y = id THEN 1 ELSE Refs(c.dict, y)
        BY <2>3, <1>6
      <4> QED BY <4>1, <4>2, <4>3, <1>6
    <3>3. t.card <= MaxDict
      BY <2>3, <1>2, <1>14, StoreAssumption
    <3> QED BY <3>2, <3>3, <2>3 DEF ColOK
  <2>5. \A x \in Nat \ {0} : Refs(put.slab, x) + Cardinality(Holds(c, x))
                             = Refs(d.intern, x) + Cardinality(Holds(t, x))
    <3> SUFFICES ASSUME NEW x \in Nat \ {0}
                 PROVE  Refs(put.slab, x) + Cardinality(Holds(c, x))
                        = Refs(d.intern, x) + Cardinality(Holds(t, x))
      OBVIOUS
    <3>1. Cardinality(Holds(t, x)) = Cardinality(Holds(c, x)) + (IF x = put.id THEN 1 ELSE 0)
      BY <1>11, <2>3
    <3>2. Refs(put.slab, x) = Refs(d.intern, x) + (IF x = put.id THEN 1 ELSE 0)
      BY <1>5
    <3> QED BY <3>1, <3>2, <1>12
  <2>6. /\ DbShape(e) /\ e.intern = put.slab /\ e.blobs = d.blobs /\ e.pairs = d.pairs
        /\ e.ansi = d.ansi /\ e.text = d.text /\ e.count = d.count /\ e.seen = d.seen
        /\ e.col[k] = t /\ \A j \in Keys \ {k} : e.col[j] = d.col[j]
    BY <1>1, <1>5, <2>1, <2>3, <2>5, ColChange
  <2>7. CellStep(d, e, k, i)
    <3>1. \A j \in Idx \ {i} : TextOf(e.col[k], j) = TextOf(d.col[k], j)
      BY <1>13, <2>3, <2>6
    <3> QED BY <3>1, <1>1, <1>5, <2>6, CellStepFrom
  <2>8. GetString(e, k, i) = v
    <3>1. Refs(put.slab, put.id) > 0
      BY <1>5, <1>12
    <3> QED BY <3>1, <1>5, <2>3, <2>6 DEF GetString, Get
  <2>9. NewEntry(d, e, k, i, seq, v)
    <3>1. Refs(put.slab, put.id) > 0
      BY <1>5, <1>12
    <3>2. Get(e.intern, put.id) = v /\ Same(d.intern, e.intern)
      BY <3>1, <1>5, <2>6 DEF Get
    <3>3. e.col[k] = SetDict(Grown(c, Hash[v], put.id), i, seq, NextId(c.dict))
      BY <2>6 DEF t, col, add, id, h, Grown
    <3> QED BY <3>2, <3>3, <1>5 DEF NewEntry
  <2> QED BY <2>4, <2>6, <2>7, <2>8, <2>9 DEF e
<1>15. CASE c.card + 1 > MaxDict
  <2>1. e = SetRaw(PromoteToRaw(new, k), k, i, v)
    BY <1>4, <1>15
  <2>2. \A x \in Nat \ {0} : Refs(put.slab, x) + Cardinality(Holds(c, x))
                             = Refs(d.intern, x) + Cardinality(Holds(col, x))
    <3> SUFFICES ASSUME NEW x \in Nat \ {0}
                 PROVE  Refs(put.slab, x) + Cardinality(Holds(c, x))
                        = Refs(d.intern, x) + Cardinality(Holds(col, x))
      OBVIOUS
    <3>1. Cardinality(Holds(col, x)) = Cardinality(Holds(c, x)) + (IF x = put.id THEN 1 ELSE 0)
      BY <1>11
    <3>2. Refs(put.slab, x) = Refs(d.intern, x) + (IF x = put.id THEN 1 ELSE 0)
      BY <1>5
    <3> QED BY <3>1, <3>2, <1>12
  <2>3. /\ DbShape(new) /\ new.intern = put.slab /\ new.blobs = d.blobs /\ new.pairs = d.pairs
        /\ new.ansi = d.ansi /\ new.text = d.text /\ new.count = d.count /\ new.seen = d.seen
        /\ new.col[k] = col /\ \A j \in Keys \ {k} : new.col[j] = d.col[j]
    <3>1. new = WithCols(d, put.slab, [d.col EXCEPT ![k] = col])
      BY <1>4
    <3>2. col.kind = "none" => k \notin WellKnown
      BY <1>8
    <3> QED BY <3>1, <3>2, <1>1, <1>5, <1>10, <2>2, ColChange
  <2>4. CellStep(d, new, k, i)
    <3>1. \A j \in Idx \ {i} : TextOf(new.col[k], j) = TextOf(d.col[k], j)
      BY <1>13, <2>3
    <3> QED BY <3>1, <1>1, <1>5, <2>3, CellStepFrom
  <2> DEFINE raw == PromoteToRaw(new, k)
  <2>5. new.col[k].kind = "dict" /\ new.col[k].present = c.present
    BY <1>8, <2>3
  <2>6. /\ CellStep(new, raw, k, i) /\ ColOK(raw.col[k]) /\ raw.col[k].kind = "raw"
        /\ raw.col[k].present = c.present
    BY <2>3, <2>5, PromoteOK
  <2> HIDE DEF raw
  <2>7. DbShape(raw)
    BY <2>6 DEF CellStep
  <2>8. /\ CellStep(raw, e, k, i) /\ ColOK(e.col[k]) /\ GetString(e, k, i) = v
        /\ e.col[k].kind = "raw"
    <3>1. i \in Idx \ raw.col[k].present
      BY <2>6
    <3>2. e = SetRaw(raw, k, i, v)
      BY <2>1 DEF raw
    <3> QED BY <3>1, <3>2, <2>6, <2>7, SetRawOK
  <2> QED BY <2>4, <2>6, <2>8, CellStepThen DEF e
<1> QED BY <1>14, <1>15

\* The cell shows the value set, every other one what it showed.
LEMMA SetStringOK ==
  ASSUME NEW d, DbOK(d), NEW k \in Keys, d.col[k].kind # "none", NEW i \in Idx, NEW seq \in Nat,
         NEW v \in Texts \union {None}
  PROVE  LET e == SetString(d, k, i, seq, v)
         IN  CellStep(d, e, k, i) /\ DbOK(e) /\ GetString(e, k, i) = v
<1> DEFINE a == EvictCell(d, k, i)
           c == a.col[k]
           same == {id \in DOMAIN a.intern.slots : Get(a.intern, id) = v}
           hit == Find(c.dict, Hash[v], same)
           more == [c EXCEPT !.dict = Retain(c.dict, Once(c.dict, hit))]
           e == SetString(d, k, i, seq, v)
<1>1. /\ CellStep(d, a, k, i) /\ DbOK(a) /\ c.kind = d.col[k].kind /\ i \notin c.present
  BY EvictCellOK
<1>2. e = IF v = None THEN a
          ELSE IF c.kind = "raw" THEN SetRaw(a, k, i, v)
          ELSE IF hit = 0 THEN AddToDict(a, k, i, seq, v)
          ELSE [a EXCEPT !.col[k] = SetDict(more, i, seq, hit)]
  BY DEF SetString
<1> HIDE DEF a, e
<1>3. DbShape(a) /\ ColShape(c) /\ ColOK(c) /\ a.intern \in Slabs(Texts)
  BY <1>1 DEF DbOK, DbShape, SlabOK
<1>4. c.kind \in {"dict", "raw"}
  BY <1>1, <1>3, ShapeType
<1>5. /\ CellStep(d, e, k, i) /\ ColOK(e.col[k]) /\ GetString(e, k, i) = v
  <2>1. CASE v = None
    <3>1. e = a
      BY <1>2, <2>1
    <3>2. TextOf(c, i) = 0
      BY <1>1 DEF TextOf
    <3>3. 0 \notin DOMAIN a.intern.slots
      BY <1>3, SlabRefs
    <3>4. GetString(a, k, i) = None
      BY <3>2, <3>3 DEF GetString, Get, Refs
    <3> QED BY <3>1, <3>4, <2>1, <1>1, <1>3
  <2>2. CASE v # None /\ c.kind = "raw"
    <3>1. e = SetRaw(a, k, i, v) /\ v \in Texts /\ i \in Idx \ c.present
      BY <1>1, <1>2, <2>2
    <3>2. CellStep(a, e, k, i) /\ ColOK(e.col[k]) /\ GetString(e, k, i) = v
      BY <3>1, <1>3, <2>2, SetRawOK
    <3> QED BY <3>2, <1>1, CellStepThen
  <2>3. CASE v # None /\ c.kind = "dict" /\ hit = 0
    <3>1. e = AddToDict(a, k, i, seq, v) /\ v \in Texts
      BY <1>2, <2>3
    <3>2. CellStep(a, e, k, i) /\ ColOK(e.col[k]) /\ GetString(e, k, i) = v
      BY <3>1, <1>1, <2>3, AddOK
    <3> QED BY <3>2, <1>1, CellStepThen
  <2>4. CASE v # None /\ c.kind = "dict" /\ hit # 0
    <3>1. e = WithCols(a, a.intern, [a.col EXCEPT ![k] = HitColumn(c, i, seq, hit)]) /\ v \in Texts
      <4> DEFINE t == SetDict(more, i, seq, hit)
      <4>1. e = [a EXCEPT !.col[k] = t] /\ v \in Texts
        BY <1>2, <2>4
      <4>2. HitColumn(c, i, seq, hit) = t
        BY DEF HitColumn
      <4> HIDE DEF t
      <4>3. e = WithCols(a, a.intern, [a.col EXCEPT ![k] = t])
        BY <4>1, <1>3 DEF WithCols, DbShape, Dbs
      <4> QED BY <4>1, <4>2, <4>3
    <3>2. Refs(c.dict, hit) > 0 /\ c.dict.slots[hit].item \in same
      BY <2>4 DEF Find
    <3>3. hit \in DictIds(c)
      BY <3>2, <1>3, ShapeType
    <3>4. Get(a.intern, c.dict.slots[hit].item) = v
      BY <3>2
    <3> HIDE DEF hit, same
    <3>5. CellStep(a, e, k, i) /\ ColOK(e.col[k]) /\ GetString(e, k, i) = v
      BY <3>1, <3>3, <3>4, <1>1, <2>4, HitOK
    <3> QED BY <3>5, <1>1, CellStepThen
  <2> QED BY <2>1, <2>2, <2>3, <2>4, <1>4
<1>6. DbOK(e)
  BY <1>5 DEF DbOK, CellStep
<1> QED BY <1>5, <1>6 DEF e

---------------------------------------------------------------------------
(* The pairs and the blob of a slot *)

PairKeys(p, id)  == {n \in DOMAIN p : p[n].key = id}
PairVals(p, id)  == {n \in DOMAIN p : ~p[n].blob /\ p[n].val = id}
PairBlobs(p, id) == {n \in DOMAIN p : p[n].blob /\ p[n].val = id}

Is(a, id) == IF a = id THEN 1 ELSE 0

WithSlot(d, s, b, i, p, t, a) ==
  [d EXCEPT !.intern = s, !.blobs = b, !.pairs = [d.pairs EXCEPT ![i] = p],
            !.text = [d.text EXCEPT ![i] = t], !.ansi = [d.ansi EXCEPT ![i] = a]]

\* The slot i of d becomes p, t and a, the interner s and the blob slab b.
SlotSet(d, e, s, b, i, p, t, a) ==
  /\ DbShape(e) /\ e.intern = s /\ e.blobs = b /\ e.col = d.col
  /\ e.pairs[i] = p /\ e.text[i] = t /\ e.ansi[i] = a
  /\ \A j \in Idx \ {i} : e.pairs[j] = d.pairs[j] /\ e.text[j] = d.text[j] /\ e.ansi[j] = d.ansi[j]
  /\ e.count = d.count /\ e.seen = d.seen

\* The references that p and a add, and those they replace.
SlotSums(d, s, b, i, p, a) ==
  \A id \in Nat \ {0} :
    /\ Refs(s, id) + Cardinality(PairKeys(d.pairs[i], id)) + Cardinality(PairVals(d.pairs[i], id))
       = Refs(d.intern, id) + Cardinality(PairKeys(p, id)) + Cardinality(PairVals(p, id))
    /\ Refs(b, id) + Cardinality(PairBlobs(d.pairs[i], id)) + Is(d.ansi[i], id)
       = Refs(d.blobs, id) + Cardinality(PairBlobs(p, id)) + Is(a, id)

\* One slot changes, nothing else of the database does.
LEMMA SlotFields ==
  ASSUME NEW d \in Dbs, NEW s \in Slabs(Texts), NEW b \in Slabs(Texts), NEW i \in Idx,
         NEW p \in Seq(Pair), NEW t \in BOOLEAN, NEW a \in Nat
  PROVE  LET e == WithSlot(d, s, b, i, p, t, a)
         IN  /\ e \in Dbs /\ e.intern = s /\ e.blobs = b /\ e.col = d.col
             /\ e.pairs[i] = p /\ e.text[i] = t /\ e.ansi[i] = a
             /\ \A j \in Idx \ {i} : e.pairs[j] = d.pairs[j] /\ e.text[j] = d.text[j]
                                     /\ e.ansi[j] = d.ansi[j]
             /\ e.count = d.count /\ e.seen = d.seen
<1> DEFINE S == Slabs(Texts)
           Q == Seq(Pair)
           C == [Keys -> AnyColumn]
           P == [Idx -> Q]
           N == [Idx -> Nat]
           B == [Idx -> BOOLEAN]
           K == [Keys -> Nat]
           x == [d.pairs EXCEPT ![i] = p]
           y == [d.text EXCEPT ![i] = t]
           z == [d.ansi EXCEPT ![i] = a]
           e == WithSlot(d, s, b, i, p, t, a)
<1>1. d \in [intern : S, blobs : S, col : C, pairs : P, ansi : N, text : B, count : K, seen : Nat]
      /\ s \in S /\ b \in S
  BY DEF Dbs
<1>2. d.pairs \in [Idx -> Q] /\ d.text \in [Idx -> BOOLEAN] /\ d.ansi \in [Idx -> Nat] /\ p \in Q
  BY DbType
<1> HIDE DEF Q
<1>3. /\ x \in P /\ x[i] = p /\ \A j \in Idx \ {i} : x[j] = d.pairs[j]
      /\ y \in B /\ y[i] = t /\ \A j \in Idx \ {i} : y[j] = d.text[j]
      /\ z \in N /\ z[i] = a /\ \A j \in Idx \ {i} : z[j] = d.ansi[j]
  BY <1>2
<1>4. e = [d EXCEPT !.intern = s, !.blobs = b, !.pairs = x, !.text = y, !.ansi = z]
  BY DEF WithSlot
<1> HIDE DEF S, C, P, N, B, K, x, y, z, e
<1>5. /\ e \in [intern : S, blobs : S, col : C, pairs : P, ansi : N, text : B, count : K, seen : Nat]
      /\ e.intern = s /\ e.blobs = b /\ e.col = d.col /\ e.pairs = x /\ e.text = y /\ e.ansi = z
      /\ e.count = d.count /\ e.seen = d.seen
  BY <1>1, <1>3, <1>4
<1>6. e \in Dbs
  BY <1>5 DEF Dbs, S, Q, C, P, N, B, K
<1> QED BY <1>3, <1>5, <1>6 DEF e

\* A finite set with and without one member.
LEMMA CardWith ==
  ASSUME NEW A, IsFiniteSet(A), NEW i
  PROVE  /\ IsFiniteSet(A \ {i}) /\ Cardinality(A \ {i}) \in Nat
         /\ Cardinality(A) = Cardinality(A \ {i}) + (IF i \in A THEN 1 ELSE 0)
<1>1. CASE i \in A
  BY <1>1, CardMinus, FS_CardinalityType
<1>2. CASE i \notin A
  <2>1. A \ {i} = A
    BY <1>2
  <2>2. Cardinality(A \ {i}) = Cardinality(A) /\ IsFiniteSet(A \ {i})
    BY <2>1, Zenon
  <2> QED BY <2>2, <1>2, FS_CardinalityType
<1> QED BY <1>1, <1>2

\* A slot changes, the interner and the blob slab by as much.
LEMMA SlotChange ==
  ASSUME NEW d, DbShape(d), NEW s, SlabOK(s, Texts), NEW b, SlabOK(b, Texts), NEW i \in Idx,
         NEW p \in Seq(Pair), NEW t \in BOOLEAN, NEW a \in Nat,
         SlotSums(d, s, b, i, p, a)
  PROVE  SlotSet(d, WithSlot(d, s, b, i, p, t, a), s, b, i, p, t, a)
<1> DEFINE e == WithSlot(d, s, b, i, p, t, a)
<1>1. /\ d \in Dbs /\ SlabOK(d.blobs, Texts) /\ InternExact(d) /\ BlobsExact(d)
      /\ SlabOK(d.intern, Texts) /\ (\A k \in Keys : ColShape(d.col[k]))
      /\ \A k \in WellKnown : d.col[k].kind # "none"
  BY DEF DbShape
<1>2. s \in Slabs(Texts) /\ b \in Slabs(Texts) /\ d.intern \in Slabs(Texts) /\ d.blobs \in Slabs(Texts)
  BY <1>1 DEF SlabOK
<1>3. /\ e \in Dbs /\ e.intern = s /\ e.blobs = b /\ e.col = d.col
      /\ e.pairs[i] = p /\ e.text[i] = t /\ e.ansi[i] = a
      /\ \A j \in Idx \ {i} : e.pairs[j] = d.pairs[j] /\ e.text[j] = d.text[j] /\ e.ansi[j] = d.ansi[j]
      /\ e.count = d.count /\ e.seen = d.seen
  BY <1>1, <1>2, SlotFields
<1> HIDE DEF e
<1>4. ASSUME NEW id
      PROVE  /\ KeyF(d, id)[i] = PairKeys(d.pairs[i], id) /\ KeyF(e, id)[i] = PairKeys(p, id)
             /\ ValF(d, id)[i] = PairVals(d.pairs[i], id) /\ ValF(e, id)[i] = PairVals(p, id)
             /\ BlobF(d, id)[i] = PairBlobs(d.pairs[i], id) /\ BlobF(e, id)[i] = PairBlobs(p, id)
             /\ \A j \in Idx \ {i} : /\ KeyF(e, id)[j] = KeyF(d, id)[j] /\ ValF(e, id)[j] = ValF(d, id)[j]
                                     /\ BlobF(e, id)[j] = BlobF(d, id)[j]
             /\ HoldF(e, id) = HoldF(d, id)
  BY <1>3 DEF KeyF, ValF, BlobF, HoldF, PairKeys, PairVals, PairBlobs
<1>5. ASSUME NEW F, NEW G, DOMAIN F = Idx, DOMAIN G = Idx, \A j \in Idx : IsFiniteSet(F[j]),
             IsFiniteSet(G[i]), \A j \in Idx \ {i} : G[j] = F[j]
      PROVE  /\ Count(G) \in Nat /\ Count(F) \in Nat
             /\ Cardinality(F[i]) \in Nat /\ Cardinality(G[i]) \in Nat
             /\ Count(G) + Cardinality(F[i]) = Count(F) + Cardinality(G[i])
  <2>1. IsFiniteSet(DOMAIN F) /\ DOMAIN G = DOMAIN F /\ i \in DOMAIN F
    BY <1>5, IdxFinite
  <2> QED BY <2>1, <1>5, SpreadChange DEF Count
<1>6. ASSUME NEW id \in Nat \ {0}
      PROVE  Refs(e.intern, id) = Count(HoldF(e, id)) + Count(KeyF(e, id)) + Count(ValF(e, id))
  <2> DEFINE F == KeyF(d, id)
             G == KeyF(e, id)
             H == ValF(d, id)
             L == ValF(e, id)
  <2>1. /\ DOMAIN F = Idx /\ DOMAIN G = Idx /\ DOMAIN H = Idx /\ DOMAIN L = Idx
        /\ \A j \in Idx : IsFiniteSet(F[j]) /\ IsFiniteSet(G[j]) /\ IsFiniteSet(H[j]) /\ IsFiniteSet(L[j])
        /\ Count(HoldF(d, id)) \in Nat
    BY <1>1, <1>3, CountsType
  <2>2. /\ F[i] = PairKeys(d.pairs[i], id) /\ G[i] = PairKeys(p, id)
        /\ H[i] = PairVals(d.pairs[i], id) /\ L[i] = PairVals(p, id)
        /\ \A j \in Idx \ {i} : G[j] = F[j] /\ L[j] = H[j]
        /\ HoldF(e, id) = HoldF(d, id)
    BY <1>4
  <2>3. Refs(d.intern, id) = Count(HoldF(d, id)) + Count(F) + Count(H)
    BY <1>1 DEF InternExact
  <2> HIDE DEF F, G, H, L
  <2>4. /\ Count(G) \in Nat /\ Count(F) \in Nat
        /\ Cardinality(F[i]) \in Nat /\ Cardinality(G[i]) \in Nat
        /\ Count(G) + Cardinality(F[i]) = Count(F) + Cardinality(G[i])
    BY <2>1, <2>2, <1>5
  <2>5. /\ Count(L) \in Nat /\ Count(H) \in Nat
        /\ Cardinality(H[i]) \in Nat /\ Cardinality(L[i]) \in Nat
        /\ Count(L) + Cardinality(H[i]) = Count(H) + Cardinality(L[i])
    BY <2>1, <2>2, <1>5
  <2>6. Refs(s, id) + Cardinality(F[i]) + Cardinality(H[i])
        = Refs(d.intern, id) + Cardinality(G[i]) + Cardinality(L[i])
    BY <2>2 DEF SlotSums
  <2>7. Refs(s, id) \in Nat /\ Refs(d.intern, id) \in Nat
    BY <1>2, SlabRefs
  <2>8. Refs(s, id) = Count(HoldF(d, id)) + Count(G) + Count(L)
    <3> DEFINE h == Count(HoldF(d, id))
               cF == Count(F)
               cG == Count(G)
               cH == Count(H)
               cL == Count(L)
               nF == Cardinality(F[i])
               nG == Cardinality(G[i])
               nH == Cardinality(H[i])
               nL == Cardinality(L[i])
               r == Refs(s, id)
               q == Refs(d.intern, id)
    <3>1. /\ h \in Nat /\ cF \in Nat /\ cG \in Nat /\ cH \in Nat /\ cL \in Nat
          /\ nF \in Nat /\ nG \in Nat /\ nH \in Nat /\ nL \in Nat /\ r \in Nat /\ q \in Nat
      BY <2>1, <2>4, <2>5, <2>7
    <3>2. q = h + cF + cH /\ cG + nF = cF + nG /\ cL + nH = cH + nL /\ r + nF + nH = q + nG + nL
      BY <2>3, <2>4, <2>5, <2>6
    <3> HIDE DEF h, cF, cG, cH, cL, nF, nG, nH, nL, r, q
    <3>3. r = h + cG + cL
      BY ONLY <3>1, <3>2
    <3> QED BY <3>3 DEF h, cG, cL, r
  <2> QED BY <2>8, <2>2, <1>3 DEF G, L
<1>7. ASSUME NEW id \in Nat \ {0}
      PROVE  Refs(e.blobs, id) = Count(BlobF(e, id)) + Cardinality(AnsiUses(e, id))
  <2> DEFINE F == BlobF(d, id)
             G == BlobF(e, id)
             A == AnsiUses(d, id)
             Z == AnsiUses(e, id)
  <2>1. /\ DOMAIN F = Idx /\ DOMAIN G = Idx /\ IsFiniteSet(A) /\ IsFiniteSet(Z)
        /\ \A j \in Idx : IsFiniteSet(F[j]) /\ IsFiniteSet(G[j])
        /\ Cardinality(A) \in Nat /\ Cardinality(Z) \in Nat
    BY <1>1, <1>3, CountsType
  <2>2. /\ F[i] = PairBlobs(d.pairs[i], id) /\ G[i] = PairBlobs(p, id)
        /\ \A j \in Idx \ {i} : G[j] = F[j]
    BY <1>4
  <2>3. Refs(d.blobs, id) = Count(F) + Cardinality(A)
    BY <1>1 DEF BlobsExact
  <2>4. /\ Count(G) \in Nat /\ Count(F) \in Nat
        /\ Cardinality(F[i]) \in Nat /\ Cardinality(G[i]) \in Nat
        /\ Count(G) + Cardinality(F[i]) = Count(F) + Cardinality(G[i])
    <3> HIDE DEF F, G, A, Z
    <3> QED BY <2>1, <2>2, <1>5
  <2>5. Cardinality(Z) + Is(d.ansi[i], id) = Cardinality(A) + Is(a, id)
    <3>1. \A j \in Idx : (j \in A <=> d.ansi[j] = id) /\ (j \in Z <=> e.ansi[j] = id)
      BY DEF AnsiUses
    <3>2. A \subseteq Idx /\ Z \subseteq Idx
      BY DEF AnsiUses
    <3> HIDE DEF A, Z, F, G
    <3>3. Cardinality(Z \ {i}) = Cardinality(A \ {i})
      <4>1. Z \ {i} = A \ {i}
        BY <3>1, <3>2, <1>3
      <4> QED BY <4>1, Zenon
    <3>4. /\ IsFiniteSet(A \ {i}) /\ Cardinality(A \ {i}) \in Nat
          /\ Cardinality(A) = Cardinality(A \ {i}) + Is(d.ansi[i], id)
      <4>1. i \in A <=> d.ansi[i] = id
        BY <3>1
      <4> QED BY <4>1, <2>1, CardWith DEF Is
    <3>5. Cardinality(Z) = Cardinality(Z \ {i}) + Is(a, id)
      <4>1. i \in Z <=> a = id
        BY <3>1, <1>3
      <4> QED BY <4>1, <2>1, CardWith DEF Is
    <3>6. Is(a, id) \in Nat /\ Is(d.ansi[i], id) \in Nat
      BY DEF Is
    <3> QED BY ONLY <3>3, <3>4, <3>5, <3>6
  <2>6. Refs(b, id) + Cardinality(F[i]) + Is(d.ansi[i], id)
        = Refs(d.blobs, id) + Cardinality(G[i]) + Is(a, id)
    BY <2>2 DEF SlotSums
  <2>7. Refs(b, id) \in Nat /\ Refs(d.blobs, id) \in Nat
    BY <1>2, SlabRefs
  <2>8. Is(a, id) \in Nat /\ Is(d.ansi[i], id) \in Nat
    BY DEF Is
  <2> HIDE DEF F, G, A, Z
  <2>9. Refs(b, id) = Count(G) + Cardinality(Z)
    <3> DEFINE cF == Count(F)
               cG == Count(G)
               cA == Cardinality(A)
               cZ == Cardinality(Z)
               nF == Cardinality(F[i])
               nG == Cardinality(G[i])
               x == Is(d.ansi[i], id)
               y == Is(a, id)
               r == Refs(b, id)
               q == Refs(d.blobs, id)
    <3>1. /\ cF \in Nat /\ cG \in Nat /\ cA \in Nat /\ cZ \in Nat /\ nF \in Nat /\ nG \in Nat
          /\ x \in Nat /\ y \in Nat /\ r \in Nat /\ q \in Nat
      BY <2>1, <2>4, <2>7, <2>8
    <3>2. q = cF + cA /\ cG + nF = cF + nG /\ cZ + x = cA + y /\ r + nF + x = q + nG + y
      BY <2>3, <2>4, <2>5, <2>6
    <3> HIDE DEF cF, cG, cA, cZ, nF, nG, x, y, r, q
    <3>3. r = cG + cZ
      BY ONLY <3>1, <3>2
    <3> QED BY <3>3 DEF cG, cZ, r
  <2> QED BY <2>9, <1>3 DEF G, Z
<1>8. DbShape(e)
  BY <1>1, <1>3, <1>6, <1>7 DEF DbShape, InternExact, BlobsExact
<1> QED BY <1>3, <1>8 DEF SlotSet, e

---------------------------------------------------------------------------
(* A row *)

\* Slot j of e shows what it shows in d, and of the same pairs.
Untouched(d, e, j) ==
  /\ \A k \in Keys : Shown(e, k, j) = Shown(d, k, j) /\ PairsOf(e, k, j) = PairsOf(d, k, j)
  /\ ShownAnsi(e, j) = ShownAnsi(d, j)

\* e is d with the slot i reading as the fields val and the blob a do, and without a
\* tail pair for the keys of free.
Filled(d, e, i, val, free, a) ==
  /\ DbOK(e) /\ WellKnown \subseteq free /\ free \subseteq Keys
  /\ \A j \in Idx \ {i} : Untouched(d, e, j)
  /\ \A k \in Keys : Shown(e, k, i) = Reading(e, k, i, val[k])
  /\ ShownAnsi(e, i) = a
  /\ \A k \in free : PairsOf(e, k, i) = {}

\* A string is its own text; a column takes the text of any field.
LEMMA TextIs ==
  /\ \A v \in Values \union {None} : ColumnText(v) = v /\ v \in Fields
  /\ \A v \in Fields : ColumnText(v) \in Values \union {None} /\ (v # None => v \in Texts)
<1>1. Values \intersect Literals = {} /\ None \notin Literals /\ \A v \in Literals : Bytes[v] \in Values
  BY StoreAssumption DEF Texts
<1> QED BY <1>1 DEF ColumnText, Fields, Texts

\* One slot of the ring refers to a text no more often than the whole ring.
LEMMA PartCount ==
  ASSUME NEW F, IsFiniteSet(DOMAIN F), \A k \in DOMAIN F : IsFiniteSet(F[k]), NEW k \in DOMAIN F
  PROVE  Cardinality(F[k]) \in Nat /\ Count(F) \in Nat /\ Cardinality(F[k]) <= Count(F)
<1>1. IsFiniteSet(Spread(F)) /\ {k} \X F[k] \subseteq Spread(F)
  BY SpreadFinite DEF Spread
<1>2. Cardinality({k} \X F[k]) <= Count(F) /\ Cardinality(F[k]) \in Nat /\ Count(F) \in Nat
      /\ Cardinality({k} \X F[k]) = Cardinality(F[k])
  BY <1>1, CardSubset, CardTagged, FS_CardinalityType DEF Count
<1> QED BY <1>2

\* A slot has no more references than there are.
LEMMA SlotCounts ==
  ASSUME NEW d, DbShape(d), NEW i \in Idx, NEW id \in Nat \ {0}
  PROVE  /\ Cardinality(PairKeys(d.pairs[i], id)) \in Nat /\ Cardinality(PairVals(d.pairs[i], id)) \in Nat
         /\ Cardinality(PairBlobs(d.pairs[i], id)) \in Nat /\ Is(d.ansi[i], id) \in Nat
         /\ Refs(d.intern, id) \in Nat /\ Refs(d.blobs, id) \in Nat
         /\ Cardinality(PairKeys(d.pairs[i], id)) + Cardinality(PairVals(d.pairs[i], id)) <= Refs(d.intern, id)
         /\ Cardinality(PairBlobs(d.pairs[i], id)) + Is(d.ansi[i], id) <= Refs(d.blobs, id)
<1> DEFINE F == KeyF(d, id)
           H == ValF(d, id)
           B == BlobF(d, id)
           A == AnsiUses(d, id)
<1>1. d \in Dbs /\ InternExact(d) /\ BlobsExact(d) /\ d.intern \in Slabs(Texts) /\ d.blobs \in Slabs(Texts)
  BY DEF DbShape, SlabOK
<1>2. /\ DOMAIN F = Idx /\ DOMAIN H = Idx /\ DOMAIN B = Idx /\ IsFiniteSet(Idx) /\ IsFiniteSet(A)
      /\ \A j \in Idx : IsFiniteSet(F[j]) /\ IsFiniteSet(H[j]) /\ IsFiniteSet(B[j])
      /\ Count(HoldF(d, id)) \in Nat
  BY <1>1, CountsType
<1>3. /\ F[i] = PairKeys(d.pairs[i], id) /\ H[i] = PairVals(d.pairs[i], id)
      /\ B[i] = PairBlobs(d.pairs[i], id)
  BY DEF KeyF, ValF, BlobF, PairKeys, PairVals, PairBlobs
<1>4. /\ Refs(d.intern, id) = Count(HoldF(d, id)) + Count(F) + Count(H)
      /\ Refs(d.blobs, id) = Count(B) + Cardinality(A)
  BY <1>1 DEF InternExact, BlobsExact
<1>5. i \in A <=> d.ansi[i] = id
  BY DEF AnsiUses
<1> HIDE DEF F, H, B, A
<1>6. Cardinality(F[i]) \in Nat /\ Count(F) \in Nat /\ Cardinality(F[i]) <= Count(F)
  BY <1>2, PartCount
<1>7. Cardinality(H[i]) \in Nat /\ Count(H) \in Nat /\ Cardinality(H[i]) <= Count(H)
  BY <1>2, PartCount
<1>8. Cardinality(B[i]) \in Nat /\ Count(B) \in Nat /\ Cardinality(B[i]) <= Count(B)
  BY <1>2, PartCount
<1>9. Is(d.ansi[i], id) \in Nat /\ Cardinality(A) \in Nat /\ Is(d.ansi[i], id) <= Cardinality(A)
  <2>1. /\ Cardinality(A \ {i}) \in Nat
        /\ Cardinality(A) = Cardinality(A \ {i}) + (IF i \in A THEN 1 ELSE 0)
    BY <1>2, CardWith
  <2> QED BY <2>1, <1>5 DEF Is
<1>10. Refs(d.intern, id) \in Nat /\ Refs(d.blobs, id) \in Nat
  BY <1>1, SlabRefs
<1>11. Cardinality(F[i]) + Cardinality(H[i]) <= Refs(d.intern, id)
  BY <1>2, <1>4, <1>6, <1>7
<1>12. Cardinality(B[i]) + Is(d.ansi[i], id) <= Refs(d.blobs, id)
  BY <1>4, <1>8, <1>9
<1> QED BY <1>3, <1>6, <1>7, <1>8, <1>9, <1>10, <1>11, <1>12

\* A slot without pairs shows no key.
LEMMA NoPairs ==
  \A id : /\ PairKeys(<< >>, id) = {} /\ PairVals(<< >>, id) = {} /\ PairBlobs(<< >>, id) = {}
          /\ Cardinality(PairKeys(<< >>, id)) = 0 /\ Cardinality(PairVals(<< >>, id)) = 0
          /\ Cardinality(PairBlobs(<< >>, id)) = 0
<1>1. DOMAIN << >> = {}
  OBVIOUS
<1>2. \A id : PairKeys(<< >>, id) = {} /\ PairVals(<< >>, id) = {} /\ PairBlobs(<< >>, id) = {}
  BY <1>1 DEF PairKeys, PairVals, PairBlobs
<1>3. Cardinality({}) = 0
  BY FS_EmptySet
<1> QED BY <1>2, <1>3, Zenon

\* One slot changes, and no column.
SlotStep(e, f, i) ==
  /\ DbShape(f) /\ f.col = e.col /\ Same(e.intern, f.intern) /\ Same(e.blobs, f.blobs)
  /\ \A j \in Idx \ {i} : f.pairs[j] = e.pairs[j]

\* The cells go first, then what else the slot has.
EvictedRow(d, f, i) ==
  \E e : Evicted(d, e, Keys, i) /\ SlotStep(e, f, i) /\ \A k \in Keys : PairsOf(f, k, i) = {}

\* evictRowLocked leaves the slot empty, every other row as it was, and the
\* counts exact.
LEMMA EvictRowOK ==
  ASSUME NEW d, DbOK(d), NEW i \in Idx
  PROVE  /\ Filled(d, EvictRow(d, i), i, [k \in Keys |-> None], Keys, None)
         /\ EvictRow(d, i).ansi[i] = 0 /\ EvictedRow(d, EvictRow(d, i), i)
<1> DEFINE e == EvictCells(d, Keys, i)
           p == d.pairs[i]
           n == PairRefs(d, i)
           m == BlobRefs(d, i)
           s == Release(e.intern, n)
           b == Release(e.blobs, m)
           f == WithSlot(e, s, b, i, << >>, FALSE, 0)
<1>1. EvictRow(d, i) = f
  BY DEF EvictRow, WithSlot
<1>2. Evicted(d, e, Keys, i)
  BY EvictCellsOK
<1>3. /\ DbOK(e) /\ DbShape(e) /\ Same(d.intern, e.intern)
      /\ e.blobs = d.blobs /\ e.pairs = d.pairs /\ e.ansi = d.ansi /\ e.text = d.text
      /\ DOMAIN e.intern.slots = DOMAIN d.intern.slots
      /\ \A k \in Keys : i \notin e.col[k].present
      /\ \A k \in Keys : \A j \in Idx \ {i} : TextOf(e.col[k], j) = TextOf(d.col[k], j)
  <2> HIDE DEF e
  <2> QED BY <1>2 DEF Evicted, DbOK
<1>4. DbShape(d)
  BY DEF DbOK
<1> HIDE DEF e
<1>5. /\ SlabOK(e.intern, Texts) /\ SlabOK(e.blobs, Texts) /\ e \in Dbs
      /\ e.intern \in Slabs(Texts) /\ e.blobs \in Slabs(Texts)
  BY <1>3 DEF DbShape, SlabOK
<1>6. \A x \in DOMAIN e.intern.slots : x \in Nat \ {0}
  BY <1>5, SlabRefs
<1>7. \A x \in DOMAIN e.blobs.slots : x \in Nat \ {0}
  BY <1>5, SlabRefs
<1>8. \A id \in Nat \ {0} :
         /\ Cardinality(PairKeys(p, id)) \in Nat /\ Cardinality(PairVals(p, id)) \in Nat
         /\ Cardinality(PairBlobs(p, id)) \in Nat /\ Is(d.ansi[i], id) \in Nat
         /\ Refs(e.intern, id) \in Nat /\ Refs(e.blobs, id) \in Nat
         /\ Cardinality(PairKeys(p, id)) + Cardinality(PairVals(p, id)) <= Refs(e.intern, id)
         /\ Cardinality(PairBlobs(p, id)) + Is(d.ansi[i], id) <= Refs(e.blobs, id)
  BY <1>3, SlotCounts
<1>9. /\ DOMAIN n = DOMAIN e.intern.slots
      /\ \A id \in DOMAIN e.intern.slots :
           n[id] = Cardinality(PairKeys(p, id)) + Cardinality(PairVals(p, id))
  BY <1>3 DEF PairRefs, PairKeys, PairVals
<1>10. /\ DOMAIN m = DOMAIN e.blobs.slots
       /\ \A id \in DOMAIN e.blobs.slots :
            m[id] = Cardinality(PairBlobs(p, id)) + Is(d.ansi[i], id)
  BY <1>3 DEF BlobRefs, PairBlobs, Is
<1>11. n = [id \in DOMAIN e.intern.slots |-> n[id]] /\ m = [id \in DOMAIN e.blobs.slots |-> m[id]]
  BY <1>3 DEF PairRefs, BlobRefs
<1> HIDE DEF n, m, p
<1>12. n \in [DOMAIN e.intern.slots -> Nat] /\ m \in [DOMAIN e.blobs.slots -> Nat]
  <2>1. \A id \in DOMAIN e.intern.slots : n[id] \in Nat
    BY <1>6, <1>8, <1>9
  <2>2. \A id \in DOMAIN e.blobs.slots : m[id] \in Nat
    BY <1>7, <1>8, <1>10
  <2> QED BY <2>1, <2>2, <1>11
<1>13. /\ SlabOK(s, Texts) /\ Same(e.intern, s)
       /\ \A x \in DOMAIN e.intern.slots : Refs(s, x) = Less(Refs(e.intern, x), n[x])
       /\ \A x : Refs(e.intern, x) = 0 => Refs(s, x) = 0
  BY <1>5, <1>12, ReleaseSlab
<1>14. /\ SlabOK(b, Texts) /\ Same(e.blobs, b)
       /\ \A x \in DOMAIN e.blobs.slots : Refs(b, x) = Less(Refs(e.blobs, x), m[x])
       /\ \A x : Refs(e.blobs, x) = 0 => Refs(b, x) = 0
  BY <1>5, <1>12, ReleaseSlab
<1> HIDE DEF s, b
<1>15. SlotSums(e, s, b, i, << >>, 0)
  <2> SUFFICES ASSUME NEW id \in Nat \ {0}
               PROVE  /\ Refs(s, id) + Cardinality(PairKeys(p, id)) + Cardinality(PairVals(p, id))
                         = Refs(e.intern, id)
                      /\ Refs(b, id) + Cardinality(PairBlobs(p, id)) + Is(d.ansi[i], id)
                         = Refs(e.blobs, id)
    <3>1. p = e.pairs[i] /\ e.ansi = d.ansi
      BY <1>3 DEF p
    <3> DEFINE O(id) == /\ Refs(s, id) + Cardinality(PairKeys(p, id)) + Cardinality(PairVals(p, id))
                           = Refs(e.intern, id) + 0 + 0
                        /\ Refs(b, id) + Cardinality(PairBlobs(p, id)) + Is(d.ansi[i], id)
                           = Refs(e.blobs, id) + 0 + 0
    <3>2. ASSUME NEW id \in Nat \ {0} PROVE O(id)
      BY <1>8
    <3>3. \A id \in Nat \ {0} : Is(0, id) = 0
      BY DEF Is
    <3> QED BY <3>1, <3>2, <3>3, NoPairs DEF SlotSums
  <2>1. /\ Cardinality(PairKeys(p, id)) \in Nat /\ Cardinality(PairVals(p, id)) \in Nat
        /\ Cardinality(PairBlobs(p, id)) \in Nat /\ Is(d.ansi[i], id) \in Nat
        /\ Refs(e.intern, id) \in Nat /\ Refs(e.blobs, id) \in Nat
        /\ Cardinality(PairKeys(p, id)) + Cardinality(PairVals(p, id)) <= Refs(e.intern, id)
        /\ Cardinality(PairBlobs(p, id)) + Is(d.ansi[i], id) <= Refs(e.blobs, id)
    BY <1>8
  <2>2. Refs(s, id) + Cardinality(PairKeys(p, id)) + Cardinality(PairVals(p, id)) = Refs(e.intern, id)
    <3>1. CASE id \in DOMAIN e.intern.slots
      <4>1. Refs(s, id) = Less(Refs(e.intern, id), Cardinality(PairKeys(p, id)) + Cardinality(PairVals(p, id)))
        BY <3>1, <1>9, <1>13
      <4> QED BY <4>1, <2>1 DEF Less
    <3>2. CASE id \notin DOMAIN e.intern.slots
      <4>1. Refs(e.intern, id) = 0 /\ Refs(s, id) = 0
        BY <3>2, <1>13 DEF Refs
      <4> QED BY <4>1, <2>1
    <3> QED BY <3>1, <3>2
  <2>3. Refs(b, id) + Cardinality(PairBlobs(p, id)) + Is(d.ansi[i], id) = Refs(e.blobs, id)
    <3>1. CASE id \in DOMAIN e.blobs.slots
      <4>1. Refs(b, id) = Less(Refs(e.blobs, id), Cardinality(PairBlobs(p, id)) + Is(d.ansi[i], id))
        BY <3>1, <1>10, <1>14
      <4> QED BY <4>1, <2>1 DEF Less
    <3>2. CASE id \notin DOMAIN e.blobs.slots
      <4>1. Refs(e.blobs, id) = 0 /\ Refs(b, id) = 0
        BY <3>2, <1>14 DEF Refs
      <4> QED BY <4>1, <2>1
    <3> QED BY <3>1, <3>2
  <2> QED BY <2>2, <2>3
<1>16. SlotSet(e, f, s, b, i, << >>, FALSE, 0)
  <2>1. << >> \in Seq(Pair)
    OBVIOUS
  <2> QED BY <2>1, <1>3, <1>13, <1>14, <1>15, SlotChange
<1> HIDE DEF f
<1>17. /\ DbShape(f) /\ f.intern = s /\ f.blobs = b /\ f.col = e.col
       /\ f.pairs[i] = << >> /\ f.text[i] = FALSE /\ f.ansi[i] = 0
       /\ \A j \in Idx \ {i} : f.pairs[j] = e.pairs[j] /\ f.text[j] = e.text[j] /\ f.ansi[j] = e.ansi[j]
  BY <1>16 DEF SlotSet
<1>18. DbOK(f)
  BY <1>17, <1>3 DEF DbOK
<1>19. ASSUME NEW j \in Idx \ {i} PROVE Untouched(d, f, j)
  <2>1. /\ \A k \in Keys : Shown(e, k, j) = Shown(d, k, j) /\ PairsOf(e, k, j) = PairsOf(d, k, j)
        /\ ShownAnsi(e, j) = ShownAnsi(d, j)
    <3>1. Same(d.blobs, e.blobs)
      BY <1>3, SameSelf
    <3> QED BY <3>1, <1>3, <1>4, ReadSame
  <2>2. /\ \A k \in Keys : Shown(f, k, j) = Shown(e, k, j) /\ PairsOf(f, k, j) = PairsOf(e, k, j)
        /\ ShownAnsi(f, j) = ShownAnsi(e, j)
    <3>1. Same(e.intern, f.intern) /\ Same(e.blobs, f.blobs)
      BY <1>13, <1>14, <1>17
    <3>2. f.pairs[j] = e.pairs[j] /\ f.text[j] = e.text[j] /\ f.ansi[j] = e.ansi[j] /\ f.col = e.col
      BY <1>17
    <3> QED BY <3>1, <3>2, <1>3, <1>17, ReadSame
  <2> QED BY <2>1, <2>2 DEF Untouched
<1>20. \A k \in Keys : PairsOf(f, k, i) = {}
  <2>1. DOMAIN f.pairs[i] = {}
    BY <1>17
  <2> QED BY <2>1 DEF PairsOf
<1>21. ASSUME NEW k \in Keys PROVE Shown(f, k, i) = Reading(f, k, i, [x \in Keys |-> None][k])
  <2>1. TextOf(f.col[k], i) = 0
    BY <1>3, <1>17 DEF TextOf
  <2>2. Refs(f.intern, 0) = 0
    <3>1. SlabOK(f.intern, Texts)
      BY <1>17 DEF DbShape
    <3>2. f.intern \in Slabs(Texts)
      BY <3>1 DEF SlabOK
    <3> QED BY <3>2, SlabRefs
  <2>3. GetString(f, k, i) = None
    BY <2>1, <2>2 DEF GetString, Get
  <2>4. Shown(f, k, i) = None
    BY <2>3, <1>17, <1>20, ShownCell
  <2> QED BY <2>4, TextIs DEF Reading
<1>22. ShownAnsi(f, i) = None
  BY <1>17 DEF ShownAnsi
<1>23. EvictedRow(d, f, i)
  <2>1. SlotStep(e, f, i)
    BY <1>13, <1>14, <1>17 DEF SlotStep
  <2> QED BY <2>1, <1>2, <1>20 DEF EvictedRow
<1> QED BY <1>1, <1>17, <1>18, <1>19, <1>20, <1>21, <1>22, <1>23, KeysFinite DEF Filled

\* Column.SetString puts the value in the cell of its row, whatever was there,
\* and may turn the column raw.
LEMMA SetStringFills ==
  ASSUME NEW d, NEW e, NEW i \in Idx, NEW val \in [Keys -> Fields], NEW free, NEW a,
         Filled(d, e, i, val, free, a), NEW k \in Keys, k \in free, e.col[k].kind # "none",
         NEW seq \in Nat, NEW v \in Fields
  PROVE  Filled(d, SetString(e, k, i, seq, ColumnText(v)), i, [val EXCEPT ![k] = v], free, a)
<1> DEFINE t == ColumnText(v)
           f == SetString(e, k, i, seq, t)
<1>1. /\ DbOK(e) /\ WellKnown \subseteq free /\ free \subseteq Keys
      /\ \A j \in Idx \ {i} : Untouched(d, e, j)
      /\ \A x \in Keys : Shown(e, x, i) = Reading(e, x, i, val[x])
      /\ ShownAnsi(e, i) = a
      /\ \A x \in free : PairsOf(e, x, i) = {}
  BY DEF Filled
<1>2. t \in Texts \union {None}
  BY TextIs DEF Texts
<1> HIDE DEF t
<1>3. CellStep(e, f, k, i) /\ DbOK(f) /\ GetString(f, k, i) = t
  BY <1>1, <1>2, SetStringOK
<1> HIDE DEF f
<1>4. /\ \A x \in Keys : \A j \in Idx : /\ PairsOf(f, x, j) = PairsOf(e, x, j)
                                        /\ x # k \/ j # i => Shown(f, x, j) = Shown(e, x, j)
      /\ \A j \in Idx : ShownAnsi(f, j) = ShownAnsi(e, j)
      /\ DbShape(f)
  BY <1>3 DEF CellStep
<1>5. Shown(f, k, i) = Reading(f, k, i, v)
  <2>1. PairsOf(f, k, i) = {}
    BY <1>1, <1>4
  <2> QED BY <2>1, <1>3, <1>4, ShownCell DEF Reading, t
<1>6. \A x \in Keys : Shown(f, x, i) = Reading(f, x, i, [val EXCEPT ![k] = v][x])
  BY <1>1, <1>4, <1>5 DEF Reading
<1>7. \A j \in Idx \ {i} : Untouched(d, f, j)
  BY <1>1, <1>4 DEF Untouched
<1>8. \A x \in free : PairsOf(f, x, i) = {}
  BY <1>1, <1>4
<1> QED BY <1>1, <1>3, <1>4, <1>6, <1>7, <1>8 DEF Filled, f, t

\* What a pair of k and v adds to the interner and the blob slab of e.
Added(e, s, b, k, v, q) ==
  /\ q \in Pair /\ SlabOK(s, Texts) /\ SlabOK(b, Texts) /\ Same(e.intern, s) /\ Same(e.blobs, b)
  /\ \A id \in Nat \ {0} :
       /\ Refs(s, id) = Refs(e.intern, id) + Is(q.key, id) + (IF q.blob THEN 0 ELSE Is(q.val, id))
       /\ Refs(b, id) = Refs(e.blobs, id) + (IF q.blob THEN Is(q.val, id) ELSE 0)
  /\ Get(s, q.key) = k
  /\ IF q.blob THEN Get(b, q.val) = v ELSE Get(s, q.val) = v

\* Put, seen through Get.
LEMMA PutGet ==
  ASSUME NEW s, SlabOK(s, Texts), NEW v \in Texts
  PROVE  LET r == Put(s, Hash[v], v)
         IN  /\ SlabOK(r.slab, Texts) /\ Same(s, r.slab) /\ r.id \in Nat \ {0}
             /\ Get(r.slab, r.id) = v
             /\ \A x \in Nat : Refs(r.slab, x) = Refs(s, x) + Is(r.id, x)
<1> DEFINE r == Put(s, Hash[v], v)
<1>1. Hash[v] \in Hashes
  BY StoreAssumption
<1>2. /\ SlabOK(r.slab, Texts) /\ Same(s, r.slab) /\ r.id \in Nat \ {0}
      /\ r.slab.slots[r.id].item = v
      /\ \A x : Refs(r.slab, x) = Refs(s, x) + (IF x = r.id THEN 1 ELSE 0)
  BY <1>1, PutSlab
<1> HIDE DEF r
<1>3. s \in Slabs(Texts)
  BY DEF SlabOK
<1>4. Refs(s, r.id) \in Nat
  BY <1>3, SlabRefs
<1>5. Refs(r.slab, r.id) > 0
  BY <1>2, <1>4
<1>6. \A x \in Nat : Refs(r.slab, x) = Refs(s, x) + Is(r.id, x)
  BY <1>2 DEF Is
<1> QED BY <1>2, <1>5, <1>6 DEF Get, r

\* appendTailKVLocked as a change of slabs and of one slot.
LEMMA AppendPairIs ==
  ASSUME NEW e, DbShape(e), NEW k \in Keys, NEW i \in Idx, NEW v \in Fields
  PROVE  \E s, b, q : /\ Added(e, s, b, k, v, q)
                      /\ AppendPair(e, k, i, v)
                         = WithSlot(e, s, b, i, Append(e.pairs[i], q), e.text[i], e.ansi[i])
<1> DEFINE key == Put(e.intern, Hash[k], k)
           blob == Put(e.blobs, Hash[v], v)
           text == Put(key.slab, Hash[v], v)
<1>1. /\ e \in Dbs /\ SlabOK(e.intern, Texts) /\ SlabOK(e.blobs, Texts)
      /\ e.intern \in Slabs(Texts) /\ e.blobs \in Slabs(Texts)
  BY DEF DbShape, SlabOK
<1>2. k \in Texts /\ (v # None => v \in Texts) /\ None \notin Texts /\ None \notin Large \union Literals
  BY StoreAssumption, TextIs DEF Texts
<1>3. /\ SlabOK(key.slab, Texts) /\ Same(e.intern, key.slab) /\ key.id \in Nat \ {0}
      /\ Get(key.slab, key.id) = k
      /\ \A x \in Nat : Refs(key.slab, x) = Refs(e.intern, x) + Is(key.id, x)
  BY <1>1, <1>2, PutGet
<1>4. \A x : Refs(e.intern, x) \in Nat /\ Refs(e.blobs, x) \in Nat
  BY <1>1, SlabRefs
<1>5. \A x \in Nat : Is(key.id, x) \in Nat
  BY DEF Is
<1>6. ASSUME NEW s \in Slabs(Texts), NEW b \in Slabs(Texts), NEW q
      PROVE  [e EXCEPT !.intern = s, !.blobs = b, !.pairs[i] = Append(@, q)]
             = WithSlot(e, s, b, i, Append(e.pairs[i], q), e.text[i], e.ansi[i])
  <2> DEFINE x == [e.pairs EXCEPT ![i] = Append(e.pairs[i], q)]
             y == [e.text EXCEPT ![i] = e.text[i]]
             z == [e.ansi EXCEPT ![i] = e.ansi[i]]
             S == Slabs(Texts)
             C == [Keys -> AnyColumn]
             P == [Idx -> Seq(Pair)]
             N == [Idx -> Nat]
             B == [Idx -> BOOLEAN]
             K == [Keys -> Nat]
  <2>1. y = e.text /\ z = e.ansi
    <3>1. e.text \in [Idx -> BOOLEAN] /\ e.ansi \in [Idx -> Nat]
      BY <1>1, DbType
    <3> QED BY <3>1
  <2>2. e \in [intern : S, blobs : S, col : C, pairs : P, ansi : N, text : B, count : K, seen : Nat]
    BY <1>1 DEF Dbs
  <2>3. WithSlot(e, s, b, i, Append(e.pairs[i], q), e.text[i], e.ansi[i])
        = [e EXCEPT !.intern = s, !.blobs = b, !.pairs = x, !.text = y, !.ansi = z]
    BY DEF WithSlot
  <2>4. [e EXCEPT !.intern = s, !.blobs = b, !.pairs[i] = Append(@, q)]
        = [e EXCEPT !.intern = s, !.blobs = b, !.pairs = x]
    OBVIOUS
  <2> HIDE DEF x, y, z, S, C, P, N, B, K
  <2>5. [e EXCEPT !.intern = s, !.blobs = b, !.pairs = x]
        = [e EXCEPT !.intern = s, !.blobs = b, !.pairs = x, !.text = e.text, !.ansi = e.ansi]
    BY <2>2
  <2> QED BY <2>1, <2>3, <2>4, <2>5
<1>10. ASSUME NEW s \in Slabs(Texts), NEW q
      PROVE  [e EXCEPT !.intern = s, !.pairs[i] = Append(@, q)]
             = WithSlot(e, s, e.blobs, i, Append(e.pairs[i], q), e.text[i], e.ansi[i])
  <2> DEFINE x == [e.pairs EXCEPT ![i] = Append(e.pairs[i], q)]
             y == [e.text EXCEPT ![i] = e.text[i]]
             z == [e.ansi EXCEPT ![i] = e.ansi[i]]
             S == Slabs(Texts)
             C == [Keys -> AnyColumn]
             P == [Idx -> Seq(Pair)]
             N == [Idx -> Nat]
             B == [Idx -> BOOLEAN]
             K == [Keys -> Nat]
  <2>1. y = e.text /\ z = e.ansi
    <3>1. e.text \in [Idx -> BOOLEAN] /\ e.ansi \in [Idx -> Nat]
      BY <1>1, DbType
    <3> QED BY <3>1
  <2>2. e \in [intern : S, blobs : S, col : C, pairs : P, ansi : N, text : B, count : K, seen : Nat]
    BY <1>1 DEF Dbs
  <2>3. WithSlot(e, s, e.blobs, i, Append(e.pairs[i], q), e.text[i], e.ansi[i])
        = [e EXCEPT !.intern = s, !.blobs = e.blobs, !.pairs = x, !.text = y, !.ansi = z]
    BY DEF WithSlot
  <2>4. [e EXCEPT !.intern = s, !.pairs[i] = Append(@, q)]
        = [e EXCEPT !.intern = s, !.pairs = x]
    OBVIOUS
  <2> HIDE DEF x, y, z, S, C, P, N, B, K
  <2>5. [e EXCEPT !.intern = s, !.pairs = x]
        = [e EXCEPT !.intern = s, !.blobs = e.blobs, !.pairs = x, !.text = e.text, !.ansi = e.ansi]
    BY <2>2
  <2> QED BY <2>1, <2>3, <2>4, <2>5
<1>7. CASE v \in Large \union Literals
  <2> DEFINE q == [key |-> key.id, val |-> blob.id, blob |-> TRUE]
  <2>1. /\ SlabOK(blob.slab, Texts) /\ Same(e.blobs, blob.slab) /\ blob.id \in Nat \ {0}
        /\ Get(blob.slab, blob.id) = v
        /\ \A x \in Nat : Refs(blob.slab, x) = Refs(e.blobs, x) + Is(blob.id, x)
    BY <1>1, <1>2, <1>7, PutGet
  <2>2. AppendPair(e, k, i, v) = [e EXCEPT !.intern = key.slab, !.blobs = blob.slab, !.pairs[i] = Append(@, q)]
    BY <1>7 DEF AppendPair
  <2> HIDE DEF key, blob, text
  <2>3. q \in Pair /\ q.key = key.id /\ q.val = blob.id /\ q.blob = TRUE
    BY <1>3, <2>1 DEF Pair
  <2> HIDE DEF q
  <2>4. key.slab \in Slabs(Texts) /\ blob.slab \in Slabs(Texts)
    BY <1>3, <2>1 DEF SlabOK
  <2>5. AppendPair(e, k, i, v)
        = WithSlot(e, key.slab, blob.slab, i, Append(e.pairs[i], q), e.text[i], e.ansi[i])
    <3>1. [e EXCEPT !.intern = key.slab, !.blobs = blob.slab, !.pairs[i] = Append(@, q)]
          = WithSlot(e, key.slab, blob.slab, i, Append(e.pairs[i], q), e.text[i], e.ansi[i])
      BY <2>4, <1>6
    <3> QED BY <3>1, <2>2
  <2>6. \A id \in Nat \ {0} :
          /\ Refs(key.slab, id) = Refs(e.intern, id) + Is(q.key, id) + (IF q.blob THEN 0 ELSE Is(q.val, id))
          /\ Refs(blob.slab, id) = Refs(e.blobs, id) + (IF q.blob THEN Is(q.val, id) ELSE 0)
    BY <1>3, <1>4, <1>5, <2>1, <2>3
  <2>7. Added(e, key.slab, blob.slab, k, v, q)
    BY <1>3, <2>1, <2>3, <2>6 DEF Added
  <2> QED BY <2>5, <2>7
<1>8. CASE v = None
  <2> DEFINE q == [key |-> key.id, val |-> 0, blob |-> FALSE]
  <2>1. AppendPair(e, k, i, v) = [e EXCEPT !.intern = key.slab, !.pairs[i] = Append(@, q)]
    BY <1>2, <1>8 DEF AppendPair
  <2> HIDE DEF key
  <2>2. q \in Pair /\ q.key = key.id /\ q.val = 0 /\ q.blob = FALSE
    BY <1>3 DEF Pair
  <2> HIDE DEF q
  <2>3. key.slab \in Slabs(Texts)
    BY <1>3 DEF SlabOK
  <2>4. AppendPair(e, k, i, v)
        = WithSlot(e, key.slab, e.blobs, i, Append(e.pairs[i], q), e.text[i], e.ansi[i])
    BY <1>1, <2>1, <2>3, <1>10
  <2>5. Refs(key.slab, 0) = 0
    <3>1. \A x \in DOMAIN key.slab.slots : x \in Nat \ {0}
      BY <2>3, SlabRefs
    <3> QED BY <3>1 DEF Refs
  <2>6. Get(key.slab, q.val) = v
    BY <2>2, <2>5, <1>8 DEF Get
  <2>7. \A id \in Nat \ {0} :
          /\ Refs(key.slab, id) = Refs(e.intern, id) + Is(q.key, id) + (IF q.blob THEN 0 ELSE Is(q.val, id))
          /\ Refs(e.blobs, id) = Refs(e.blobs, id) + (IF q.blob THEN Is(q.val, id) ELSE 0)
    <3>1. \A id \in Nat \ {0} : Is(q.val, id) = 0
      BY <2>2 DEF Is
    <3> QED BY <3>1, <1>3, <1>4, <1>5, <2>2
  <2>8. Added(e, key.slab, e.blobs, k, v, q)
    BY <1>1, <1>3, <2>2, <2>6, <2>7, SameSelf DEF Added
  <2> QED BY <2>4, <2>8
<1>9. CASE v # None /\ v \notin Large \union Literals
  <2> DEFINE q == [key |-> key.id, val |-> text.id, blob |-> FALSE]
  <2>1. /\ SlabOK(text.slab, Texts) /\ Same(key.slab, text.slab) /\ text.id \in Nat \ {0}
        /\ Get(text.slab, text.id) = v
        /\ \A x \in Nat : Refs(text.slab, x) = Refs(key.slab, x) + Is(text.id, x)
    <3> HIDE DEF key
    <3> QED BY <1>2, <1>3, <1>9, PutGet
  <2>2. AppendPair(e, k, i, v) = [e EXCEPT !.intern = text.slab, !.pairs[i] = Append(@, q)]
    BY <1>9 DEF AppendPair
  <2> HIDE DEF key, text
  <2>3. q \in Pair /\ q.key = key.id /\ q.val = text.id /\ q.blob = FALSE
    BY <1>3, <2>1 DEF Pair
  <2> HIDE DEF q
  <2>4. text.slab \in Slabs(Texts) /\ key.slab \in Slabs(Texts)
    BY <1>3, <2>1 DEF SlabOK
  <2>5. AppendPair(e, k, i, v)
        = WithSlot(e, text.slab, e.blobs, i, Append(e.pairs[i], q), e.text[i], e.ansi[i])
    BY <1>1, <2>2, <2>4, <1>10
  <2>6. \A x \in Nat : Is(text.id, x) \in Nat
    BY DEF Is
  <2>7. \A x \in Nat : /\ Refs(e.intern, x) > 0 => Refs(key.slab, x) > 0
                       /\ Refs(key.slab, x) > 0 => Refs(text.slab, x) > 0
    <3> SUFFICES ASSUME NEW x \in Nat
                 PROVE  /\ Refs(e.intern, x) > 0 => Refs(key.slab, x) > 0
                        /\ Refs(key.slab, x) > 0 => Refs(text.slab, x) > 0
      OBVIOUS
    <3>1. /\ Refs(key.slab, x) = Refs(e.intern, x) + Is(key.id, x)
          /\ Refs(text.slab, x) = Refs(key.slab, x) + Is(text.id, x)
      BY <1>3, <2>1
    <3>2. Refs(e.intern, x) \in Nat /\ Is(key.id, x) \in Nat /\ Is(text.id, x) \in Nat
      BY <1>4, <1>5, <2>6
    <3> QED BY <3>1, <3>2
  <2>8. Same(e.intern, text.slab)
    BY <1>3, <2>1, <2>7, SameThen
  <2>9. Get(text.slab, key.id) = k
    <3>1. Refs(key.slab, key.id) > 0
      <4>1. Refs(key.slab, key.id) = Refs(e.intern, key.id) + Is(key.id, key.id)
        BY <1>3
      <4>2. Is(key.id, key.id) = 1 /\ Refs(e.intern, key.id) \in Nat
        BY <1>4 DEF Is
      <4> QED BY <4>1, <4>2
    <3> QED BY <3>1, <1>3, <2>1, <2>7 DEF Same, Get
  <2>10. \A id \in Nat \ {0} :
           /\ Refs(text.slab, id) = Refs(e.intern, id) + Is(q.key, id)
                                    + (IF q.blob THEN 0 ELSE Is(q.val, id))
           /\ Refs(e.blobs, id) = Refs(e.blobs, id) + (IF q.blob THEN Is(q.val, id) ELSE 0)
    <3> SUFFICES ASSUME NEW x \in Nat \ {0}
                 PROVE  /\ Refs(text.slab, x) = Refs(e.intern, x) + Is(key.id, x) + Is(text.id, x)
                        /\ Refs(e.blobs, x) = Refs(e.blobs, x) + 0
      BY <2>3
    <3>1. /\ Refs(key.slab, x) = Refs(e.intern, x) + Is(key.id, x)
          /\ Refs(text.slab, x) = Refs(key.slab, x) + Is(text.id, x)
      BY <1>3, <2>1
    <3>2. /\ Refs(e.intern, x) \in Nat /\ Is(key.id, x) \in Nat /\ Is(text.id, x) \in Nat
          /\ Refs(e.blobs, x) \in Nat
      BY <1>4, <1>5, <2>6
    <3> QED BY <3>1, <3>2
  <2>11. Added(e, text.slab, e.blobs, k, v, q)
    BY <1>1, <2>1, <2>3, <2>8, <2>9, <2>10, SameSelf DEF Added
  <2> QED BY <2>5, <2>11
<1> QED BY <1>7, <1>8, <1>9

\* What a new last pair adds to the references of its slot.
LEMMA AppendSums ==
  ASSUME NEW p \in Seq(Pair), NEW q \in Pair, NEW id
  PROVE  LET r == Append(p, q)
         IN  /\ Cardinality(PairKeys(p, id)) \in Nat /\ Cardinality(PairVals(p, id)) \in Nat
             /\ Cardinality(PairBlobs(p, id)) \in Nat
             /\ Cardinality(PairKeys(r, id)) = Cardinality(PairKeys(p, id)) + Is(q.key, id)
             /\ Cardinality(PairVals(r, id))
                = Cardinality(PairVals(p, id)) + (IF q.blob THEN 0 ELSE Is(q.val, id))
             /\ Cardinality(PairBlobs(r, id))
                = Cardinality(PairBlobs(p, id)) + (IF q.blob THEN Is(q.val, id) ELSE 0)
<1> DEFINE r == Append(p, q)
           m == Len(p) + 1
<1>1. /\ DOMAIN p = 1..Len(p) /\ Len(p) \in Nat /\ DOMAIN r = 1..m /\ r[m] = q
      /\ \A n \in DOMAIN p : r[n] = p[n]
  OBVIOUS
<1>2. IsFiniteSet(DOMAIN p) /\ m \notin DOMAIN p /\ DOMAIN r = DOMAIN p \union {m}
  <2>1. IsFiniteSet(1..Len(p))
    BY <1>1, FS_Interval
  <2>2. 1..m = (1..Len(p)) \union {m} /\ m \notin 1..Len(p)
    BY <1>1
  <2> HIDE DEF m, r
  <2> QED BY <2>1, <2>2, <1>1, Zenon
<1>3. q.blob \in BOOLEAN
  BY DEF Pair
<1> HIDE DEF r, m
<1>4. ASSUME NEW A, NEW Z, A \subseteq DOMAIN p, NEW c \in BOOLEAN,
             Z = IF c THEN A \union {m} ELSE A
      PROVE  Cardinality(A) \in Nat /\ Cardinality(Z) = Cardinality(A) + (IF c THEN 1 ELSE 0)
  <2>1. IsFiniteSet(A) /\ m \notin A
    BY <1>2, <1>4, FS_Subset
  <2>2. Cardinality(A) \in Nat /\ Cardinality(A \union {m}) = Cardinality(A) + 1
    BY <2>1, CardPlus
  <2> QED BY <2>2, <1>4
<1>5. /\ Cardinality(PairKeys(p, id)) \in Nat
      /\ Cardinality(PairKeys(r, id)) = Cardinality(PairKeys(p, id)) + Is(q.key, id)
  <2>1. PairKeys(p, id) \subseteq DOMAIN p
    BY DEF PairKeys
  <2>2. PairKeys(r, id) = IF q.key = id THEN PairKeys(p, id) \union {m} ELSE PairKeys(p, id)
    BY <1>1, <1>2 DEF PairKeys
  <2>3. (q.key = id) \in BOOLEAN
    OBVIOUS
  <2> QED BY <2>1, <2>2, <2>3, <1>4 DEF Is
<1>6. /\ Cardinality(PairVals(p, id)) \in Nat
      /\ Cardinality(PairVals(r, id))
         = Cardinality(PairVals(p, id)) + (IF q.blob THEN 0 ELSE Is(q.val, id))
  <2>1. PairVals(p, id) \subseteq DOMAIN p
    BY DEF PairVals
  <2>2. PairVals(r, id) = IF ~q.blob /\ q.val = id THEN PairVals(p, id) \union {m} ELSE PairVals(p, id)
    BY <1>1, <1>2 DEF PairVals
  <2>3. (~q.blob /\ q.val = id) \in BOOLEAN
    OBVIOUS
  <2> QED BY <2>1, <2>2, <2>3, <1>3, <1>4 DEF Is
<1>7. /\ Cardinality(PairBlobs(p, id)) \in Nat
      /\ Cardinality(PairBlobs(r, id))
         = Cardinality(PairBlobs(p, id)) + (IF q.blob THEN Is(q.val, id) ELSE 0)
  <2>1. PairBlobs(p, id) \subseteq DOMAIN p
    BY DEF PairBlobs
  <2>2. PairBlobs(r, id) = IF q.blob /\ q.val = id THEN PairBlobs(p, id) \union {m} ELSE PairBlobs(p, id)
    BY <1>1, <1>2 DEF PairBlobs
  <2>3. (q.blob /\ q.val = id) \in BOOLEAN
    BY <1>3
  <2> QED BY <2>1, <2>2, <2>3, <1>3, <1>4 DEF Is
<1> QED BY <1>5, <1>6, <1>7 DEF r

\* And to the references of the whole ring.
LEMMA AddedSums ==
  ASSUME NEW e, DbShape(e), NEW s, NEW b, NEW k, NEW v, NEW q, Added(e, s, b, k, v, q), NEW i \in Idx
  PROVE  SlotSums(e, s, b, i, Append(e.pairs[i], q), e.ansi[i])
<1> DEFINE p == e.pairs[i]
           r == Append(p, q)
<1>1. /\ q \in Pair /\ SlabOK(s, Texts) /\ SlabOK(b, Texts)
      /\ \A id \in Nat \ {0} :
           /\ Refs(s, id) = Refs(e.intern, id) + Is(q.key, id) + (IF q.blob THEN 0 ELSE Is(q.val, id))
           /\ Refs(b, id) = Refs(e.blobs, id) + (IF q.blob THEN Is(q.val, id) ELSE 0)
  BY DEF Added
<1>2. e \in Dbs /\ e.intern \in Slabs(Texts) /\ e.blobs \in Slabs(Texts)
  BY DEF DbShape, SlabOK
<1>3. p \in Seq(Pair)
  BY <1>2, PairsType
<1> HIDE DEF p
<1>4. ASSUME NEW id \in Nat \ {0}
      PROVE  /\ Refs(s, id) + Cardinality(PairKeys(p, id)) + Cardinality(PairVals(p, id))
                = Refs(e.intern, id) + Cardinality(PairKeys(r, id)) + Cardinality(PairVals(r, id))
             /\ Refs(b, id) + Cardinality(PairBlobs(p, id)) + Is(e.ansi[i], id)
                = Refs(e.blobs, id) + Cardinality(PairBlobs(r, id)) + Is(e.ansi[i], id)
  <2> DEFINE x == Is(q.key, id)
             y == IF q.blob THEN 0 ELSE Is(q.val, id)
             z == IF q.blob THEN Is(q.val, id) ELSE 0
             a == Is(e.ansi[i], id)
             pk == Cardinality(PairKeys(p, id))
             pv == Cardinality(PairVals(p, id))
             pb == Cardinality(PairBlobs(p, id))
             rk == Cardinality(PairKeys(r, id))
             rv == Cardinality(PairVals(r, id))
             rb == Cardinality(PairBlobs(r, id))
             n == Refs(e.intern, id)
             m == Refs(e.blobs, id)
             n2 == Refs(s, id)
             m2 == Refs(b, id)
  <2>1. x \in Nat /\ y \in Nat /\ z \in Nat /\ a \in Nat
    BY DEF Is
  <2>2. n \in Nat /\ m \in Nat
    BY <1>2, SlabRefs
  <2>3. n2 = n + x + y /\ m2 = m + z
    BY <1>1
  <2>4. /\ pk \in Nat /\ pv \in Nat /\ pb \in Nat /\ rk = pk + x /\ rv = pv + y /\ rb = pb + z
    BY <1>1, <1>3, AppendSums
  <2> HIDE DEF x, y, z, a, pk, pv, pb, rk, rv, rb, n, m, n2, m2
  <2>5. n2 + pk + pv = n + rk + rv /\ m2 + pb + a = m + rb + a
    BY ONLY <2>1, <2>2, <2>3, <2>4
  <2> QED BY <2>5 DEF x, y, z, a, pk, pv, pb, rk, rv, rb, n, m, n2, m2
<1> QED BY <1>4 DEF SlotSums, p

\* The slot has a pair more, and it is of that key.
PairAdded(e, f, k, i) ==
  SlotStep(e, f, i) /\ \A x \in Keys \ {k} : PairsOf(f, x, i) = PairsOf(e, x, i)

\* A tail pair shows its value under its key.
LEMMA AppendPairFills ==
  ASSUME NEW d, NEW e, NEW i \in Idx, NEW val \in [Keys -> Fields], NEW free, NEW a,
         Filled(d, e, i, val, free, a), NEW k \in Keys, k \in free, e.col[k].kind = "none",
         NEW v \in Fields
  PROVE  /\ Filled(d, AppendPair(e, k, i, v), i, [val EXCEPT ![k] = v], free \ {k}, a)
         /\ PairAdded(e, AppendPair(e, k, i, v), k, i)
<1> DEFINE f == AppendPair(e, k, i, v)
           p == e.pairs[i]
<1>1. /\ DbOK(e) /\ WellKnown \subseteq free /\ free \subseteq Keys
      /\ \A j \in Idx \ {i} : Untouched(d, e, j)
      /\ \A x \in Keys : Shown(e, x, i) = Reading(e, x, i, val[x])
      /\ ShownAnsi(e, i) = a
      /\ \A x \in free : PairsOf(e, x, i) = {}
  BY DEF Filled
<1>2. DbShape(e) /\ e \in Dbs /\ (\A x \in Keys : ColOK(e.col[x])) /\ \A x \in WellKnown : e.col[x].kind # "none"
  BY <1>1 DEF DbOK, DbShape
<1>3. PICK s, b, q : /\ Added(e, s, b, k, v, q)
                     /\ f = WithSlot(e, s, b, i, Append(p, q), e.text[i], e.ansi[i])
  BY <1>2, AppendPairIs
<1>4. /\ q \in Pair /\ SlabOK(s, Texts) /\ SlabOK(b, Texts) /\ Same(e.intern, s) /\ Same(e.blobs, b)
      /\ Get(s, q.key) = k /\ IF q.blob THEN Get(b, q.val) = v ELSE Get(s, q.val) = v
  BY <1>3 DEF Added
<1>5. p \in Seq(Pair) /\ e.text[i] \in BOOLEAN /\ e.ansi[i] \in Nat
  BY <1>2, DbType
<1>6. Append(p, q) \in Seq(Pair)
  BY <1>4, <1>5
<1>7. SlotSums(e, s, b, i, Append(p, q), e.ansi[i])
  BY <1>2, <1>3, AddedSums
<1>8. SlotSet(e, f, s, b, i, Append(p, q), e.text[i], e.ansi[i])
  <2> DEFINE r == Append(p, q)
             t == e.text[i]
             z == e.ansi[i]
  <2>1. r \in Seq(Pair) /\ t \in BOOLEAN /\ z \in Nat /\ SlotSums(e, s, b, i, r, z)
    BY <1>5, <1>6, <1>7
  <2> HIDE DEF r, t, z
  <2>2. SlotSet(e, WithSlot(e, s, b, i, r, t, z), s, b, i, r, t, z)
    BY <2>1, <1>2, <1>4, SlotChange
  <2> QED BY <2>2, <1>3 DEF r, t, z
<1> HIDE DEF f, p
<1>9. /\ DbShape(f) /\ f.intern = s /\ f.blobs = b /\ f.col = e.col
      /\ f.pairs[i] = Append(p, q) /\ f.text[i] = e.text[i] /\ f.ansi[i] = e.ansi[i]
      /\ \A j \in Idx \ {i} : f.pairs[j] = e.pairs[j] /\ f.text[j] = e.text[j] /\ f.ansi[j] = e.ansi[j]
  BY <1>8 DEF SlotSet
<1>10. DbOK(f)
  BY <1>2, <1>9 DEF DbOK
<1>11. Same(e.intern, f.intern) /\ Same(e.blobs, f.blobs)
  BY <1>4, <1>9
<1>12. ASSUME NEW j \in Idx \ {i} PROVE Untouched(d, f, j)
  <2>1. f.pairs[j] = e.pairs[j] /\ f.text[j] = e.text[j] /\ f.ansi[j] = e.ansi[j] /\ f.col = e.col
    BY <1>9
  <2>2. /\ \A x \in Keys : Shown(f, x, j) = Shown(e, x, j) /\ PairsOf(f, x, j) = PairsOf(e, x, j)
        /\ ShownAnsi(f, j) = ShownAnsi(e, j)
    BY <2>1, <1>2, <1>9, <1>11, ReadSame
  <2> QED BY <2>2, <1>1 DEF Untouched
<1>13. ShownAnsi(f, i) = a
  BY <1>1, <1>2, <1>9, <1>11, ReadAnsi
<1> DEFINE m == Len(p) + 1
<1>14. /\ DOMAIN f.pairs[i] = DOMAIN p \union {m} /\ m \notin DOMAIN p
       /\ f.pairs[i][m] = q /\ \A n \in DOMAIN p : f.pairs[i][n] = p[n]
  BY <1>4, <1>5, <1>9
<1> HIDE DEF m
<1>15. \A n \in DOMAIN p : /\ Get(f.intern, f.pairs[i][n].key) = Get(e.intern, e.pairs[i][n].key)
                           /\ PairValue(f, f.pairs[i][n]) = PairValue(e, e.pairs[i][n])
  BY <1>2, <1>9, <1>11, <1>14, ReadPair DEF p
<1>16. Get(f.intern, f.pairs[i][m].key) = k /\ PairValue(f, f.pairs[i][m]) = v
  BY <1>4, <1>9, <1>14 DEF PairValue
<1>17. ASSUME NEW x \in Keys \ {k}
       PROVE  PairsOf(f, x, i) = PairsOf(e, x, i) /\ Shown(f, x, i) = Shown(e, x, i)
  <2>1. PairsOf(f, x, i) = PairsOf(e, x, i)
    BY <1>14, <1>15, <1>16 DEF PairsOf, p
  <2>2. CASE PairsOf(e, x, i) = {}
    <3>1. Shown(e, x, i) = GetString(e, x, i) /\ Shown(f, x, i) = GetString(f, x, i)
      BY <2>1, <2>2, <1>2, <1>9, ShownCell
    <3>2. TextOf(f.col[x], i) = TextOf(e.col[x], i)
      BY <1>9
    <3>3. GetString(f, x, i) = GetString(e, x, i)
      BY <3>2, <1>2, <1>9, <1>11, ReadCell
    <3> QED BY <2>1, <3>1, <3>3
  <2>3. CASE PairsOf(e, x, i) # {}
    <3> DEFINE n == CHOOSE y \in PairsOf(e, x, i) : TRUE
    <3>1. n \in PairsOf(e, x, i)
      BY <2>3
    <3>2. n \in DOMAIN p
      BY <3>1 DEF PairsOf, p
    <3>3. /\ Shown(e, x, i) = PairValue(e, e.pairs[i][n])
          /\ Shown(f, x, i) = PairValue(f, f.pairs[i][n])
      BY <2>1, <2>3 DEF Shown
    <3> QED BY <2>1, <3>2, <3>3, <1>15
  <2> QED BY <2>1, <2>2, <2>3
<1>18. Shown(f, k, i) = Reading(f, k, i, v)
  <2>1. PairsOf(f, k, i) = {m}
    <3>1. PairsOf(e, k, i) = {}
      BY <1>1
    <3>2. \A n \in DOMAIN p : Get(f.intern, f.pairs[i][n].key) # k
      BY <3>1, <1>15 DEF PairsOf, p
    <3> QED BY <3>2, <1>14, <1>16 DEF PairsOf
  <2> QED BY <2>1, <1>16 DEF Shown, Reading
<1>19. \A x \in Keys : Shown(f, x, i) = Reading(f, x, i, [val EXCEPT ![k] = v][x])
  BY <1>1, <1>17, <1>18 DEF Reading
<1>20. \A x \in free \ {k} : PairsOf(f, x, i) = {}
  BY <1>1, <1>17
<1>21. WellKnown \subseteq free \ {k} /\ free \ {k} \subseteq Keys
  BY <1>1, <1>2
<1>22. PairAdded(e, f, k, i)
  BY <1>9, <1>11, <1>17 DEF SlotStep, PairAdded
<1> QED BY <1>10, <1>12, <1>13, <1>19, <1>20, <1>21, <1>22 DEF Filled, f

\* What reads alike is filled alike.
LEMMA FilledSame ==
  ASSUME NEW d, NEW e, NEW i \in Idx, NEW val, NEW free, NEW a, Filled(d, e, i, val, free, a),
         NEW f, DbOK(f), f.intern = e.intern, f.blobs = e.blobs, f.pairs = e.pairs, f.text = e.text,
         f.ansi = e.ansi, \A k \in Keys : \A j \in Idx : TextOf(f.col[k], j) = TextOf(e.col[k], j)
  PROVE  Filled(d, f, i, val, free, a)
<1>1. /\ DbOK(e) /\ WellKnown \subseteq free /\ free \subseteq Keys
      /\ \A j \in Idx \ {i} : Untouched(d, e, j)
      /\ \A x \in Keys : Shown(e, x, i) = Reading(e, x, i, val[x])
      /\ ShownAnsi(e, i) = a
      /\ \A x \in free : PairsOf(e, x, i) = {}
  BY DEF Filled
<1>2. DbShape(e) /\ DbShape(f) /\ Same(e.intern, f.intern) /\ Same(e.blobs, f.blobs)
  BY <1>1, SameSelf DEF DbOK
<1>3. \A j \in Idx : /\ \A x \in Keys : Shown(f, x, j) = Shown(e, x, j) /\ PairsOf(f, x, j) = PairsOf(e, x, j)
                     /\ ShownAnsi(f, j) = ShownAnsi(e, j)
  BY <1>2, ReadSame
<1>4. \A j \in Idx \ {i} : Untouched(d, f, j)
  BY <1>1, <1>3 DEF Untouched
<1>5. \A x \in Keys : Shown(f, x, i) = Reading(f, x, i, val[x])
  BY <1>1, <1>3 DEF Reading
<1> QED BY <1>1, <1>3, <1>4, <1>5 DEF Filled

\* Counting a key changes no row.
LEMMA TallyIs ==
  ASSUME NEW d, DbOK(d), NEW k \in Keys
  PROVE  LET t == Tally(d, k)
         IN  /\ DbOK(t) /\ t.intern = d.intern /\ t.blobs = d.blobs /\ t.pairs = d.pairs /\ t.text = d.text
             /\ t.ansi = d.ansi /\ t.col = d.col /\ t.seen = d.seen
<1> DEFINE t == Tally(d, k)
           c == [d.count EXCEPT ![k] = @ + 1]
           S == Slabs(Texts)
           C == [Keys -> AnyColumn]
           P == [Idx -> Seq(Pair)]
           N == [Idx -> Nat]
           B == [Idx -> BOOLEAN]
           K == [Keys -> Nat]
<1>1. d \in Dbs /\ DbShape(d) /\ \A x \in Keys : ColOK(d.col[x])
  BY DEF DbOK, DbShape
<1>2. d \in [intern : S, blobs : S, col : C, pairs : P, ansi : N, text : B, count : K, seen : Nat]
  BY <1>1 DEF Dbs
<1>3. c \in K
  <2>1. d.count \in [Keys -> Nat]
    BY <1>1, DbType
  <2> QED BY <2>1
<1>4. t = d \/ t = [d EXCEPT !.count = c]
  BY DEF Tally
<1> HIDE DEF t, c, S, C, P, N, B, K
<1>5. /\ t \in [intern : S, blobs : S, col : C, pairs : P, ansi : N, text : B, count : K, seen : Nat]
      /\ t.intern = d.intern /\ t.blobs = d.blobs /\ t.pairs = d.pairs /\ t.text = d.text
      /\ t.ansi = d.ansi /\ t.col = d.col /\ t.seen = d.seen
  BY <1>2, <1>3, <1>4
<1>6. t \in Dbs
  BY <1>5 DEF Dbs, S, C, P, N, B, K
<1>7. \A id : /\ HoldF(t, id) = HoldF(d, id) /\ KeyF(t, id) = KeyF(d, id) /\ ValF(t, id) = ValF(d, id)
              /\ BlobF(t, id) = BlobF(d, id) /\ AnsiUses(t, id) = AnsiUses(d, id)
  BY <1>5 DEF HoldF, KeyF, ValF, BlobF, AnsiUses
<1>8. InternExact(t) /\ BlobsExact(t)
  BY <1>1, <1>5, <1>7 DEF DbShape, InternExact, BlobsExact
<1>9. DbOK(t)
  BY <1>1, <1>5, <1>6, <1>8 DEF DbOK, DbShape
<1> QED BY <1>5, <1>9 DEF t

\* A new column has no cells and refers to nothing.
LEMMA NewColumnOK ==
  ASSUME NEW kind \in {"none", "dict", "raw"}
  PROVE  LET c == NewColumn(kind)
         IN  /\ ColOK(c) /\ c.kind = kind
             /\ \A i : TextOf(c, i) = 0
             /\ \A id : Holds(c, id) = {}
<1> DEFINE c == NewColumn(kind)
<1>1. SlabOK(NewSlab, Nat \ {0}) /\ DOMAIN NewSlab.slots = {} /\ \A x : Refs(NewSlab, x) = 0
  BY NewSlabOK
<1>2. NewSlab \in Slabs(Nat)
  BY <1>1, SlabsNat DEF SlabOK
<1>3. /\ c.kind = kind /\ c.present = {} /\ c.dict = NewSlab /\ c.index = {} /\ c.card = 0
      /\ c.ids = [i \in Idx |-> 0]
      /\ c = [kind |-> kind, ids |-> c.ids, present |-> c.present, dict |-> c.dict,
              index |-> c.index, card |-> c.card]
  BY DEF NewColumn
<1> HIDE DEF c
<1>4. c \in AnyColumn
  BY <1>2, <1>3 DEF AnyColumn
<1>5. DictIds(c) = {}
  BY <1>1, <1>3 DEF DictIds
<1>6. \A id : Holds(c, id) = {} /\ CellsAt(c, id) = {}
  BY <1>3, <1>5 DEF Holds, CellsAt
<1>7. \A i : TextOf(c, i) = 0
  BY <1>3 DEF TextOf
<1>8. \A id : Cardinality(CellsAt(c, id)) = 0 /\ Cardinality(DictIds(c)) = 0
  BY <1>5, <1>6, FS_EmptySet, Zenon
<1>9. MaxDict \in Nat
  BY StoreAssumption
<1> QED BY <1>1, <1>3, <1>4, <1>5, <1>6, <1>7, <1>8, <1>9 DEF ColOK, ColShape, c

\* A key gets its column.
LEMMA PromoteKeyIs ==
  ASSUME NEW d, DbOK(d), NEW k \in Keys, d.col[k].kind = "none"
  PROVE  LET t == [d EXCEPT !.col[k] = NewColumn("dict")]
         IN  /\ DbOK(t) /\ t.intern = d.intern /\ t.blobs = d.blobs /\ t.pairs = d.pairs /\ t.text = d.text
             /\ t.ansi = d.ansi /\ t.col[k] = NewColumn("dict")
             /\ \A x \in Keys \ {k} : t.col[x] = d.col[x]
             /\ \A x \in Keys : \A j \in Idx : TextOf(t.col[x], j) = TextOf(d.col[x], j)
<1> DEFINE c == NewColumn("dict")
           u == [d.col EXCEPT ![k] = c]
           t == [d EXCEPT !.col[k] = NewColumn("dict")]
           w == WithCols(d, d.intern, u)
<1>1. /\ d \in Dbs /\ DbShape(d) /\ (\A x \in Keys : ColOK(d.col[x])) /\ ColShape(d.col[k])
      /\ SlabOK(d.intern, Texts)
  BY DEF DbOK, DbShape
<1>2. t = w
  <2> DEFINE S == Slabs(Texts)
             C == [Keys -> AnyColumn]
             P == [Idx -> Seq(Pair)]
             N == [Idx -> Nat]
             B == [Idx -> BOOLEAN]
             K == [Keys -> Nat]
  <2>1. d \in [intern : S, blobs : S, col : C, pairs : P, ansi : N, text : B, count : K, seen : Nat]
    BY <1>1 DEF Dbs
  <2>2. t = [d EXCEPT !.col = u] /\ w = [d EXCEPT !.intern = d.intern, !.col = u]
    BY DEF WithCols
  <2> HIDE DEF t, u, w, S, C, P, N, B, K
  <2> QED BY <2>1, <2>2
<1>3. ColOK(c) /\ c.kind = "dict" /\ (\A i : TextOf(c, i) = 0) /\ \A id : Holds(c, id) = {}
  BY NewColumnOK
<1>4. /\ d.col[k].present = {} /\ DictIds(d.col[k]) = {}
  BY <1>1 DEF ColShape, DictIds
<1>5. (\A i : TextOf(d.col[k], i) = 0) /\ \A id : Holds(d.col[k], id) = {}
  BY <1>4 DEF TextOf, Holds
<1> HIDE DEF c
<1>6. \A id \in Nat \ {0} :
        Refs(d.intern, id) + Cardinality(Holds(d.col[k], id))
        = Refs(d.intern, id) + Cardinality(Holds(c, id))
  <2> SUFFICES ASSUME NEW id \in Nat \ {0}
               PROVE  Refs(d.intern, id) + Cardinality(Holds(d.col[k], id))
                      = Refs(d.intern, id) + Cardinality(Holds(c, id))
    OBVIOUS
  <2>1. Holds(d.col[k], id) = Holds(c, id)
    BY <1>3, <1>5
  <2> QED BY <2>1, Zenon
<1>7. ColShape(c) /\ (c.kind = "none" => k \notin WellKnown)
  BY <1>3 DEF ColOK
<1>8. /\ DbShape(w) /\ w.intern = d.intern /\ w.blobs = d.blobs /\ w.pairs = d.pairs
      /\ w.ansi = d.ansi /\ w.text = d.text
      /\ w.col[k] = c /\ \A j \in Keys \ {k} : w.col[j] = d.col[j]
  BY <1>1, <1>6, <1>7, ColChange
<1> HIDE DEF w, u, t
<1>9. DbOK(w)
  BY <1>1, <1>3, <1>8 DEF DbOK
<1>10. \A x \in Keys : \A j \in Idx : TextOf(w.col[x], j) = TextOf(d.col[x], j)
  BY <1>3, <1>5, <1>8
<1> QED BY <1>2, <1>3, <1>8, <1>9, <1>10 DEF t, c


\* The keys without a pair once k was ingested.
FreeAfter(free, k) == {x \in free : x # k \/ x \in WellKnown}

\* ingestFieldLocked shows the value under its key: in a column, in a column
\* promoted now, or in a tail pair.
LEMMA IngestFieldFills ==
  ASSUME NEW d, NEW e, NEW i \in Idx, NEW val \in [Keys -> Fields], NEW free, NEW a,
         Filled(d, e, i, val, free, a), NEW k \in Keys, k \in free,
         NEW seq \in Nat, NEW v \in Fields
  PROVE  Filled(d, IngestField(e, k, i, seq, v), i, [val EXCEPT ![k] = v], FreeAfter(free, k), a)
<1> DEFINE t == Tally(e, k)
           u == [t EXCEPT !.col[k] = NewColumn("dict")]
           f == IngestField(e, k, i, seq, v)
           val2 == [val EXCEPT ![k] = v]
           left == FreeAfter(free, k)
<1>1. DbOK(e) /\ WellKnown \subseteq free /\ free \subseteq Keys
  BY DEF Filled
<1>2. ASSUME NEW g, NEW fr, Filled(d, g, i, val2, fr, a), left \subseteq fr
      PROVE  Filled(d, g, i, val2, left, a)
  <2>1. WellKnown \subseteq left /\ left \subseteq Keys
    BY <1>1 DEF FreeAfter
  <2> HIDE DEF left, val2
  <2> QED BY <2>1, <1>2 DEF Filled
<1>3. CASE e.col[k].kind # "none"
  <2>1. f = SetString(e, k, i, seq, ColumnText(v))
    BY <1>3 DEF IngestField
  <2>2. Filled(d, f, i, val2, free, a) /\ left \subseteq free
    <3> HIDE DEF f
    <3>1. Filled(d, SetString(e, k, i, seq, ColumnText(v)), i, val2, free, a)
      BY <1>3, SetStringFills
    <3> QED BY <3>1, <2>1 DEF FreeAfter
  <2> QED BY <2>2, <1>2
<1>4. CASE e.col[k].kind = "none"
  <2>1. /\ DbOK(t) /\ t.intern = e.intern /\ t.blobs = e.blobs /\ t.pairs = e.pairs /\ t.text = e.text
        /\ t.ansi = e.ansi /\ t.col = e.col
    BY <1>1, TallyIs
  <2>2. f = IF Due(t, k) THEN SetString(u, k, i, seq, ColumnText(v)) ELSE AppendPair(t, k, i, v)
    BY <1>4 DEF IngestField
  <2> HIDE DEF t, f
  <2>3. Filled(d, t, i, val, free, a)
    BY <2>1, FilledSame
  <2>4. CASE Due(t, k)
    <3>1. /\ DbOK(u) /\ u.intern = t.intern /\ u.blobs = t.blobs /\ u.pairs = t.pairs /\ u.text = t.text
          /\ u.ansi = t.ansi /\ u.col[k] = NewColumn("dict")
          /\ \A x \in Keys : \A j \in Idx : TextOf(u.col[x], j) = TextOf(t.col[x], j)
      BY <2>1, <1>4, PromoteKeyIs
    <3>1a. u.col[k].kind = "dict"
      BY <3>1, NewColumnOK
    <3> HIDE DEF u
    <3>2. Filled(d, u, i, val, free, a)
      BY <2>3, <3>1, FilledSame
    <3>3. Filled(d, SetString(u, k, i, seq, ColumnText(v)), i, val2, free, a) /\ left \subseteq free
      BY <3>1a, <3>2, SetStringFills DEF FreeAfter
    <3> QED BY <3>3, <2>2, <2>4, <1>2 DEF f
  <2>5. CASE ~Due(t, k)
    <3>1. Filled(d, AppendPair(t, k, i, v), i, val2, free \ {k}, a)
      BY <2>1, <2>3, <1>4, AppendPairFills
    <3>2. k \notin WellKnown
      BY <1>1, <1>4 DEF DbOK, DbShape
    <3>3. left \subseteq free \ {k}
      BY <3>2 DEF FreeAfter
    <3> HIDE DEF left, val2
    <3>4. Filled(d, f, i, val2, left, a)
      BY <3>1, <3>3, <2>2, <2>5, <1>2
    <3> QED BY <3>4 DEF f, left, val2
  <2> QED BY <2>4, <2>5
<1> QED BY <1>3, <1>4

\* A non-empty set of naturals has a least one.
LEMMA Least ==
  ASSUME NEW T, T \subseteq Nat, T # {}
  PROVE  \E x \in T : \A y \in T : x <= y
<1>1. PICK n \in T : TRUE
  OBVIOUS
<1>2. DEFINE U == {0 .. k : k \in {j \in T : j <= n}}
             S == 0 .. n
<1>3. IsFiniteSet(S)
  BY <1>1, FS_Interval
<1>4. U \subseteq FiniteSubsetsOf(S) /\ U # {}
  <2>1. \A V \in U : V \in SUBSET S
    BY <1>1, SMT
  <2>2. n \in {j \in T : j <= n}
    BY <1>1, SMT
  <2>3. U # {}
    BY <2>2
  <2>. QED BY <2>1, <2>3, <1>3, FS_FiniteSubsetsOfFinite
<1>5. \E V \in U : \A W \in U : <<W, V>> \notin StrictSubsetOrdering(S)
  BY <1>4, FS_StrictSubsetOrderingWellFounded, WFMin
<1>6. PICK k \in {j \in T : j <= n} : \A W \in U : <<W, 0 .. k>> \notin StrictSubsetOrdering(S)
  BY <1>5
<1>7. \A y \in T : k <= y
  <2> SUFFICES ASSUME NEW y \in T, y < k PROVE FALSE
    BY <1>1, SMT
  <2>1. y \in {j \in T : j <= n}
    BY <1>1
  <2>2. 0 .. y \in U
    BY <2>1
  <2>3. 0 .. y \subseteq 0 .. k /\ 0 .. k \subseteq S /\ 0 .. y # 0 .. k
    BY <1>1, SMT
  <2>. QED BY <2>2, <2>3, <1>6 DEF StrictSubsetOrdering
<1>. QED BY <1>7

\* A counterexample among the numbers up to n has a least one.
LEMMA LeastUpTo ==
  ASSUME NEW n \in Nat, NEW T, T \subseteq 0..n, 0 \notin T,
         \A m \in 1..n : m \in T => m - 1 \in T
  PROVE  T = {}
<1> SUFFICES ASSUME T # {} PROVE FALSE
  OBVIOUS
<1>1. PICK x \in T : \A y \in T : x <= y
  <2>1. T \subseteq Nat
    OBVIOUS
  <2> QED BY <2>1, Least
<1>2. x \in 1..n
  OBVIOUS
<1>3. x - 1 \in T
  BY <1>2
<1> QED BY <1>1, <1>2, <1>3

\* The rows in the making, one field more each.
RowsUpTo(f, d, r, order, i, seq, m) ==
  f = [n \in 0..m |-> IF n = 0 THEN EvictRow(d, i)
                      ELSE IngestField(f[n - 1], order[n], i, seq, r.fields[order[n]])]

\* The rows after each field exist, as a function of how many fields are in.
LEMMA RowsExist ==
  ASSUME NEW d, NEW r, NEW order, NEW i, NEW seq, NEW len \in Nat
  PROVE  \E f : RowsUpTo(f, d, r, order, i, seq, len)
<1> DEFINE T == {m \in 0..len : ~\E f : RowsUpTo(f, d, r, order, i, seq, m)}
<1>1. 0 \notin T
  <2> DEFINE f == [n \in 0..0 |-> EvictRow(d, i)]
  <2>1. RowsUpTo(f, d, r, order, i, seq, 0)
    BY DEF RowsUpTo
  <2> QED BY <2>1
<1>2. ASSUME NEW m \in 1..len, m - 1 \notin T PROVE m \notin T
  <2>1. m - 1 \in 0..len
    OBVIOUS
  <2>2. PICK f : RowsUpTo(f, d, r, order, i, seq, m - 1)
    BY <2>1, <1>2
  <2> DEFINE E(n, x) == IngestField(x, order[n], i, seq, r.fields[order[n]])
             A == EvictRow(d, i)
             g == [n \in 0..m |-> IF n < m THEN f[n] ELSE E(m, f[m - 1])]
  <2>3. \A n \in 0..(m - 1) : f[n] = IF n = 0 THEN A ELSE E(n, f[n - 1])
    <3>1. f = [n \in 0..(m - 1) |-> IF n = 0 THEN A ELSE E(n, f[n - 1])]
      BY <2>2 DEF RowsUpTo
    <3> HIDE DEF A, E
    <3> QED BY <3>1
  <2> HIDE DEF A, E
  <2>4. /\ \A n \in 0..m : n < m => g[n] = f[n]
        /\ g[m] = E(m, f[m - 1])
    OBVIOUS
  <2>5. \A n \in 0..m : g[n] = IF n = 0 THEN A ELSE E(n, g[n - 1])
    <3> SUFFICES ASSUME NEW n \in 0..m
                 PROVE  g[n] = IF n = 0 THEN A ELSE E(n, g[n - 1])
      OBVIOUS
    <3>1. CASE n < m
      <4>1. n \in 0..(m - 1) /\ (n # 0 => n - 1 \in 0..m /\ n - 1 < m)
        BY <3>1
      <4>2. g[n] = f[n] /\ (n # 0 => g[n - 1] = f[n - 1])
        BY <4>1, <3>1, <2>4
      <4>3. f[n] = IF n = 0 THEN A ELSE E(n, f[n - 1])
        BY <4>1, <2>3
      <4> HIDE DEF g
      <4> QED BY <4>2, <4>3
    <3>2. CASE n = m
      <4>1. m - 1 \in 0..m /\ m - 1 < m /\ m # 0
        OBVIOUS
      <4>2. g[m - 1] = f[m - 1]
        BY <4>1, <2>4
      <4>3. g[m] = E(m, f[m - 1])
        BY <2>4
      <4> HIDE DEF g
      <4>4. g[m] = E(m, g[m - 1])
        BY <4>2, <4>3
      <4> QED BY <3>2, <4>1, <4>4
    <3> QED BY <3>1, <3>2
  <2>6. g = [n \in 0..m |-> IF n = 0 THEN A ELSE E(n, g[n - 1])]
    <3>1. g = [n \in 0..m |-> g[n]]
      OBVIOUS
    <3> HIDE DEF g
    <3> QED BY <3>1, <2>5
  <2> HIDE DEF g
  <2>7. RowsUpTo(g, d, r, order, i, seq, m)
    BY <2>6 DEF RowsUpTo, A, E
  <2> QED BY <2>7
<1>3. T = {}
  <2>1. T \subseteq 0..len
    OBVIOUS
  <2>2. \A m \in 1..len : m \in T => m - 1 \in T
    BY <1>2
  <2> HIDE DEF T
  <2> QED BY <2>1, <2>2, <1>1, LeastUpTo
<1>4. len \in 0..len
  OBVIOUS
<1> QED BY <1>3, <1>4

\* The fields given so far, and the keys without a pair.
Given(r, order, n) ==
  [k \in Keys |-> IF \E m \in 1..n : order[m] = k THEN r.fields[k] ELSE None]
Free(order, n) == {k \in Keys : k \in WellKnown \/ \A m \in 1..n : order[m] # k}

\* The order names each field once.
LEMMA OrderIs ==
  ASSUME NEW r \in JsonRows, NEW order \in SetToSeqs(DOMAIN r.fields)
  PROVE  /\ Len(order) \in Nat
         /\ \A n \in 1..Len(order) : /\ order[n] \in DOMAIN r.fields /\ order[n] \in Keys
                                     /\ r.fields[order[n]] \in Fields
         /\ \A a, b \in 1..Len(order) : a # b => order[a] # order[b]
         /\ \A k \in DOMAIN r.fields : k \in Keys /\ \E n \in 1..Len(order) : order[n] = k
<1> DEFINE S == DOMAIN r.fields
           N == Cardinality(S)
<1>1. /\ S \subseteq Keys /\ \A k \in S : r.fields[k] \in Fields
  BY StoreAssumption
<1>2. IsFiniteSet(S) /\ N \in Nat
  BY <1>1, KeysFinite, FS_Subset, FS_CardinalityType
<1>3. order \in [1..N -> S] /\ \A a, b \in 1..N : a # b => order[a] # order[b]
  BY DEF SetToSeqs
<1> HIDE DEF S, N
<1>4. Len(order) = N
  BY <1>2, <1>3
<1>5. \A k \in S : \E m \in 1..N : order[m] = k
  <2>1. order \in Injection(1..N, S)
    BY <1>3 DEF Injection, IsInjective
  <2>2. IsFiniteSet(1..N) /\ Cardinality(1..N) = N
    BY <1>2, FS_Interval
  <2>3. order \in Surjection(1..N, S)
    BY <2>1, <2>2, <1>2, FS_Injection DEF N
  <2> QED BY <2>3 DEF Surjection
<1> QED BY <1>1, <1>2, <1>3, <1>4, <1>5 DEF S

\* The database after each field.
RowsAre(rows, d, r, order, i, seq) ==
  /\ rows[0] = EvictRow(d, i) /\ rows[Len(order)] = Ingested(d, r, order, i, seq)
  /\ \A n \in 1..Len(order) : rows[n] = IngestField(rows[n - 1], order[n], i, seq, r.fields[order[n]])
  /\ \A n \in 0..Len(order) : Filled(d, rows[n], i, Given(r, order, n), Free(order, n), None)

\* Field after field, what was given so far is shown.
LEMMA IngestedRows ==
  ASSUME NEW d, DbOK(d), NEW r \in JsonRows, NEW order \in SetToSeqs(DOMAIN r.fields), NEW i \in Idx,
         NEW seq \in Nat
  PROVE  \E rows : RowsAre(rows, d, r, order, i, seq)
<1> DEFINE S == DOMAIN r.fields
           N == Len(order)
<1>1. /\ N \in Nat /\ \A n \in 1..N : /\ order[n] \in S /\ order[n] \in Keys
                                      /\ r.fields[order[n]] \in Fields
      /\ \A a, b \in 1..N : a # b => order[a] # order[b]
      /\ \A k \in S : k \in Keys /\ \E n \in 1..N : order[n] = k
  BY OrderIs
<1>2. \A k \in S : r.fields[k] \in Fields
  BY StoreAssumption
<1> HIDE DEF S, N
<1>3. \E f : RowsUpTo(f, d, r, order, i, seq, N)
  BY <1>1, RowsExist
<1> DEFINE rows == CHOOSE f : RowsUpTo(f, d, r, order, i, seq, N)
<1>4. Ingested(d, r, order, i, seq) = rows[N]
  BY DEF Ingested, RowsUpTo, N
<1>5. RowsUpTo(rows, d, r, order, i, seq, N)
  BY <1>3
<1> HIDE DEF rows
<1>6. /\ rows[0] = EvictRow(d, i)
      /\ \A n \in 1..N : rows[n] = IngestField(rows[n - 1], order[n], i, seq, r.fields[order[n]])
  <2> DEFINE A == EvictRow(d, i)
             E(n, x) == IngestField(x, order[n], i, seq, r.fields[order[n]])
  <2>1. rows = [n \in 0..N |-> IF n = 0 THEN A ELSE E(n, rows[n - 1])]
    BY <1>5 DEF RowsUpTo
  <2> SUFFICES rows[0] = A /\ \A n \in 1..N : rows[n] = E(n, rows[n - 1])
    OBVIOUS
  <2> HIDE DEF A, E
  <2> QED BY <2>1, <1>1
<1> DEFINE T == {n \in 0..N : ~Filled(d, rows[n], i, Given(r, order, n), Free(order, n), None)}
<1>7. 0 \notin T
  <2>1. Given(r, order, 0) = [k \in Keys |-> None] /\ Free(order, 0) = Keys
    BY DEF Given, Free
  <2> QED BY <2>1, <1>6, EvictRowOK
<1>8. ASSUME NEW n \in 1..N, n - 1 \notin T PROVE n \notin T
  <2> DEFINE k == order[n]
             v == r.fields[k]
             val == Given(r, order, n - 1)
             free == Free(order, n - 1)
             e == rows[n - 1]
  <2>1. n - 1 \in 0..N /\ n \in Nat /\ n - 1 \in Nat
    BY <1>1
  <2>2. Filled(d, e, i, val, free, None)
    BY <2>1, <1>8
  <2>3. k \in S /\ k \in Keys /\ v \in Fields
    BY <1>1
  <2>4. \A m \in 1..(n - 1) : order[m] # k /\ order[m] \in S
    BY <1>1
  <2>5. k \in free
    BY <2>3, <2>4 DEF Free
  <2>6. val \in [Keys -> Fields]
    <3>1. \A x \in Keys : (\E m \in 1..(n - 1) : order[m] = x) => x \in S
      BY <2>4
    <3> QED BY <3>1, <1>2, TextIs DEF Given
  <2>7. Given(r, order, n) = [val EXCEPT ![k] = v]
    <3>1. \A x \in Keys : (\E m \in 1..n : order[m] = x)
                          <=> (x = k \/ \E m \in 1..(n - 1) : order[m] = x)
      BY <2>1
    <3> QED BY <3>1, <2>3 DEF Given
  <2>8. Free(order, n) = FreeAfter(free, k)
    <3>1. \A x \in Keys : (\A m \in 1..n : order[m] # x)
                          <=> (x # k /\ \A m \in 1..(n - 1) : order[m] # x)
      BY <2>1
    <3> QED BY <3>1 DEF Free, FreeAfter
  <2>9. rows[n] = IngestField(e, k, i, seq, v)
    BY <1>6
  <2> HIDE DEF k, v, val, free, e
  <2>10. Filled(d, IngestField(e, k, i, seq, v), i, [val EXCEPT ![k] = v], FreeAfter(free, k), None)
    BY <2>2, <2>3, <2>5, <2>6, IngestFieldFills
  <2> QED BY <2>7, <2>8, <2>9, <2>10
<1>9. \A n \in 0..N : Filled(d, rows[n], i, Given(r, order, n), Free(order, n), None)
  <2>1. T \subseteq 0..N /\ \A m \in 1..N : m \in T => m - 1 \in T
    BY <1>8
  <2>2. T = {}
    <3> HIDE DEF T
    <3> QED BY <2>1, <1>1, <1>7, LeastUpTo
  <2> QED BY <2>2, <1>1
<1> QED BY <1>4, <1>6, <1>9 DEF RowsAre, N

\* All fields of a JSON row, in any order, are shown.
LEMMA IngestedFills ==
  ASSUME NEW d, DbOK(d), NEW r \in JsonRows, NEW order \in SetToSeqs(DOMAIN r.fields), NEW i \in Idx,
         NEW seq \in Nat
  PROVE  Filled(d, Ingested(d, r, order, i, seq), i,
                [k \in Keys |-> IF k \in DOMAIN r.fields THEN r.fields[k] ELSE None], WellKnown, None)
<1> DEFINE N == Len(order)
           val == [k \in Keys |-> IF k \in DOMAIN r.fields THEN r.fields[k] ELSE None]
           last == Ingested(d, r, order, i, seq)
<1>1. PICK rows : RowsAre(rows, d, r, order, i, seq)
  BY IngestedRows
<1>2. /\ N \in Nat /\ \A n \in 1..N : order[n] \in DOMAIN r.fields
      /\ \A k \in DOMAIN r.fields : \E n \in 1..N : order[n] = k
  BY OrderIs
<1>3. Filled(d, last, i, Given(r, order, N), Free(order, N), None)
  BY <1>1, <1>2 DEF RowsAre
<1>4. Given(r, order, N) = val
  <2>1. \A k \in Keys : (\E m \in 1..N : order[m] = k) <=> k \in DOMAIN r.fields
    BY <1>2
  <2> QED BY <2>1 DEF Given
<1>5. WellKnown \subseteq Free(order, N)
  BY KeysFinite DEF Free
<1> HIDE DEF val, last
<1>6. Filled(d, last, i, val, Free(order, N), None)
  BY <1>3, <1>4
<1>7. Filled(d, last, i, val, WellKnown, None)
  BY <1>5, <1>6, KeysFinite DEF Filled
<1> QED BY <1>7 DEF val, last

---------------------------------------------------------------------------
(* The steps of the store *)

\* Counting the row changes nothing else.
LEMMA SeenIs ==
  ASSUME NEW d, DbOK(d)
  PROVE  LET t == [d EXCEPT !.seen = @ + 1]
         IN  /\ DbOK(t) /\ t.intern = d.intern /\ t.blobs = d.blobs /\ t.pairs = d.pairs /\ t.text = d.text
             /\ t.ansi = d.ansi /\ t.col = d.col
<1> DEFINE t == [d EXCEPT !.seen = @ + 1]
           S == Slabs(Texts)
           C == [Keys -> AnyColumn]
           P == [Idx -> Seq(Pair)]
           N == [Idx -> Nat]
           B == [Idx -> BOOLEAN]
           K == [Keys -> Nat]
<1>1. d \in Dbs /\ DbShape(d) /\ \A x \in Keys : ColOK(d.col[x])
  BY DEF DbOK, DbShape
<1>2. d \in [intern : S, blobs : S, col : C, pairs : P, ansi : N, text : B, count : K, seen : Nat]
  BY <1>1 DEF Dbs
<1> HIDE DEF S, C, P, N, B, K
<1>3. /\ t \in [intern : S, blobs : S, col : C, pairs : P, ansi : N, text : B, count : K, seen : Nat]
      /\ t.intern = d.intern /\ t.blobs = d.blobs /\ t.pairs = d.pairs /\ t.text = d.text
      /\ t.ansi = d.ansi /\ t.col = d.col
  BY <1>2
<1> HIDE DEF t
<1>4. t \in Dbs
  BY <1>3 DEF Dbs, S, C, P, N, B, K
<1>5. \A id : /\ HoldF(t, id) = HoldF(d, id) /\ KeyF(t, id) = KeyF(d, id) /\ ValF(t, id) = ValF(d, id)
              /\ BlobF(t, id) = BlobF(d, id) /\ AnsiUses(t, id) = AnsiUses(d, id)
  BY <1>3 DEF HoldF, KeyF, ValF, BlobF, AnsiUses
<1>6. InternExact(t) /\ BlobsExact(t)
  BY <1>1, <1>3, <1>5 DEF DbShape, InternExact, BlobsExact
<1>7. DbOK(t)
  BY <1>1, <1>3, <1>4, <1>6 DEF DbOK, DbShape
<1> QED BY <1>3, <1>7 DEF t

\* A slot that becomes a text line goes on reading as it does.
LEMMA TextLineFills ==
  ASSUME NEW d, NEW e, NEW i \in Idx, NEW val, NEW free, Filled(d, e, i, val, free, None),
         e.ansi[i] = 0, NEW a \in Blobs \union {None}
  PROVE  /\ Filled(d, TextLine(e, i, a), i, val, free, a) /\ SlotStep(e, TextLine(e, i, a), i)
         /\ \A x \in Keys : PairsOf(TextLine(e, i, a), x, i) = PairsOf(e, x, i)
<1> DEFINE blob == Put(e.blobs, Hash[a], a)
           b == IF a = None THEN e.blobs ELSE blob.slab
           z == IF a = None THEN 0 ELSE blob.id
           p == e.pairs[i]
           f == WithSlot(e, e.intern, b, i, p, TRUE, z)
<1>1. /\ DbOK(e) /\ WellKnown \subseteq free /\ free \subseteq Keys
      /\ \A j \in Idx \ {i} : Untouched(d, e, j)
      /\ \A x \in Keys : Shown(e, x, i) = Reading(e, x, i, val[x])
      /\ \A x \in free : PairsOf(e, x, i) = {}
  BY DEF Filled
<1>2. /\ DbShape(e) /\ e \in Dbs /\ (\A x \in Keys : ColOK(e.col[x]))
      /\ SlabOK(e.intern, Texts) /\ SlabOK(e.blobs, Texts)
      /\ e.intern \in Slabs(Texts) /\ e.blobs \in Slabs(Texts)
  BY <1>1 DEF DbOK, DbShape, SlabOK
<1>3. /\ SlabOK(b, Texts) /\ Same(e.blobs, b) /\ z \in Nat /\ Get(b, z) = a
      /\ \A x \in Nat \ {0} : Refs(b, x) = Refs(e.blobs, x) + Is(z, x)
  <2>1. CASE a = None
    <3>1. Refs(e.blobs, 0) = 0 /\ \A x : Refs(e.blobs, x) \in Nat
      <4>1. \A x \in DOMAIN e.blobs.slots : x \in Nat \ {0}
        BY <1>2, SlabRefs
      <4>2. \A x : Refs(e.blobs, x) \in Nat
        BY <1>2, SlabRefs
      <4> QED BY <4>1, <4>2 DEF Refs
    <3>2. b = e.blobs /\ z = 0
      BY <2>1
    <3> HIDE DEF b, z
    <3>3. Get(b, z) = a
      BY <3>1, <3>2, <2>1 DEF Get
    <3>4. \A x \in Nat \ {0} : Refs(b, x) = Refs(e.blobs, x) + Is(z, x)
      BY <3>1, <3>2 DEF Is
    <3> QED BY <3>2, <3>3, <3>4, <1>2, SameSelf
  <2>2. CASE a # None
    <3>1. a \in Texts
      BY <2>2 DEF Texts
    <3>2. /\ SlabOK(blob.slab, Texts) /\ Same(e.blobs, blob.slab) /\ blob.id \in Nat \ {0}
          /\ Get(blob.slab, blob.id) = a
          /\ \A x \in Nat : Refs(blob.slab, x) = Refs(e.blobs, x) + Is(blob.id, x)
      BY <3>1, <1>2, PutGet
    <3>3. b = blob.slab /\ z = blob.id
      BY <2>2
    <3> HIDE DEF b, z, blob
    <3> QED BY <3>2, <3>3
  <2> QED BY <2>1, <2>2
<1>4. p \in Seq(Pair)
  BY <1>2, PairsType
<1>5. TextLine(e, i, a) = f
  <2> DEFINE t == [e.text EXCEPT ![i] = TRUE]
             y == [e.ansi EXCEPT ![i] = z]
             S == Slabs(Texts)
             C == [Keys -> AnyColumn]
             P == [Idx -> Seq(Pair)]
             N == [Idx -> Nat]
             B == [Idx -> BOOLEAN]
             K == [Keys -> Nat]
  <2>1. e \in [intern : S, blobs : S, col : C, pairs : P, ansi : N, text : B, count : K, seen : Nat]
    BY <1>2 DEF Dbs
  <2>2. [e.pairs EXCEPT ![i] = p] = e.pairs /\ (a = None => y = e.ansi)
    <3>1. e.ansi \in [Idx -> Nat] /\ DOMAIN e.pairs = Idx /\ e.pairs = [j \in Idx |-> e.pairs[j]]
      BY <1>2, DbType
    <3> QED BY <3>1
  <2>3. f = [e EXCEPT !.intern = e.intern, !.blobs = b, !.pairs = e.pairs, !.text = t, !.ansi = y]
    BY <2>2 DEF WithSlot
  <2>4. TextLine(e, i, a) = IF a = None THEN [e EXCEPT !.text = t]
                            ELSE [e EXCEPT !.text = t, !.blobs = b, !.ansi = y]
    BY DEF TextLine
  <2>5. a = None => b = e.blobs
    OBVIOUS
  <2> HIDE DEF f, t, y, b, z, S, C, P, N, B, K
  <2>6. CASE a = None
    <3>1. [e EXCEPT !.text = t]
          = [e EXCEPT !.intern = e.intern, !.blobs = e.blobs, !.pairs = e.pairs, !.text = t, !.ansi = e.ansi]
      BY <2>1
    <3> QED BY <3>1, <2>2, <2>3, <2>4, <2>5, <2>6
  <2>7. CASE a # None
    <3>1. [e EXCEPT !.text = t, !.blobs = b, !.ansi = y]
          = [e EXCEPT !.intern = e.intern, !.blobs = b, !.pairs = e.pairs, !.text = t, !.ansi = y]
      BY <2>1
    <3> QED BY <3>1, <2>3, <2>4, <2>7
  <2> QED BY <2>6, <2>7
<1> HIDE DEF b, z, p
<1>6. SlotSums(e, e.intern, b, i, p, z)
  <2> SUFFICES ASSUME NEW id \in Nat \ {0}
               PROVE  /\ Refs(e.intern, id) + Cardinality(PairKeys(p, id)) + Cardinality(PairVals(p, id))
                         = Refs(e.intern, id) + Cardinality(PairKeys(p, id)) + Cardinality(PairVals(p, id))
                      /\ Refs(b, id) + Cardinality(PairBlobs(p, id)) + 0
                         = Refs(e.blobs, id) + Cardinality(PairBlobs(p, id)) + Is(z, id)
    <3>1. \A id \in Nat \ {0} : Is(e.ansi[i], id) = 0
      BY DEF Is
    <3> QED BY <3>1 DEF SlotSums, p
  <2>1. /\ Refs(e.blobs, id) \in Nat /\ Cardinality(PairBlobs(p, id)) \in Nat /\ Is(z, id) \in Nat
    BY <1>2, SlotCounts DEF Is, p
  <2>2. Refs(b, id) = Refs(e.blobs, id) + Is(z, id)
    BY <1>3
  <2> DEFINE x == Cardinality(PairBlobs(p, id))
  <2> HIDE DEF x
  <2>3. Refs(b, id) + x + 0 = Refs(e.blobs, id) + x + Is(z, id)
    BY <2>1, <2>2 DEF x
  <2> QED BY <2>3 DEF x
<1>7. SlotSet(e, f, e.intern, b, i, p, TRUE, z)
  BY <1>2, <1>3, <1>4, <1>6, SlotChange
<1> HIDE DEF f
<1>8. /\ DbShape(f) /\ f.intern = e.intern /\ f.blobs = b /\ f.col = e.col
      /\ f.pairs[i] = e.pairs[i] /\ f.text[i] = TRUE /\ f.ansi[i] = z
      /\ \A j \in Idx \ {i} : f.pairs[j] = e.pairs[j] /\ f.text[j] = e.text[j] /\ f.ansi[j] = e.ansi[j]
  BY <1>7 DEF SlotSet, p
<1>9. DbOK(f)
  BY <1>2, <1>8 DEF DbOK
<1>10. Same(e.intern, f.intern) /\ Same(e.blobs, f.blobs)
  BY <1>3, <1>8, SameSelf
<1>11. ASSUME NEW j \in Idx
       PROVE  /\ \A x \in Keys : Shown(f, x, j) = Shown(e, x, j) /\ PairsOf(f, x, j) = PairsOf(e, x, j)
              /\ j # i => ShownAnsi(f, j) = ShownAnsi(e, j)
  <2>1. f.pairs[j] = e.pairs[j] /\ f.col = e.col /\ (j # i => f.text[j] = e.text[j] /\ f.ansi[j] = e.ansi[j])
    BY <1>8
  <2> QED BY <2>1, <1>2, <1>8, <1>10, ReadSame
<1>12. ShownAnsi(f, i) = a
  BY <1>3, <1>8 DEF ShownAnsi
<1>13. \A x \in free : PairsOf(f, x, i) = {}
  BY <1>1, <1>11
<1>14. /\ \A j \in Idx \ {i} : Untouched(d, f, j)
       /\ \A x \in Keys : Shown(f, x, i) = Reading(f, x, i, val[x])
  BY <1>1, <1>11 DEF Untouched, Reading
<1>15. Filled(d, f, i, val, free, a)
  BY <1>1, <1>9, <1>12, <1>13, <1>14 DEF Filled
<1>16. SlotStep(e, f, i)
  BY <1>8, <1>10 DEF SlotStep
<1> QED BY <1>5, <1>11, <1>15, <1>16

\* Quotient and remainder.
LEMMA DivMod ==
  ASSUME NEW a \in Nat, NEW c \in Nat \ {0}
  PROVE  a % c \in 0 .. c-1 /\ a \div c \in Nat /\ a = c * (a \div c) + (a % c)
OBVIOUS

\* A larger factor, a larger product.
LEMMA Mul ==
  ASSUME NEW c \in Nat \ {0}, NEW x \in Int, NEW y \in Int, x < y
  PROVE  c * y >= c * x + c
<1>1. c * (y - x) >= c
  <2>1. y - x - 1 \in Nat
    OBVIOUS
  <2>2. PICK z \in Nat : y - x = z + 1
    BY <2>1
  <2>3. c * (z + 1) = c * z + c
    OBVIOUS
  <2>4. c * z >= 0
    OBVIOUS
  <2> QED BY <2>2, <2>3, <2>4
<1>2. c * (y - x) = c * y - c * x
  OBVIOUS
<1> QED BY <1>1, <1>2

\* Fewer than c rows in a line have slots of their own.
LEMMA ModInj ==
  ASSUME NEW c \in Nat \ {0}, NEW a \in Nat, NEW b \in Nat, a < b, b - a < c
  PROVE  a % c # b % c
<1> SUFFICES ASSUME a % c = b % c PROVE FALSE
  OBVIOUS
<1>1. /\ a \div c \in Nat /\ a = c * (a \div c) + (a % c) /\ a % c \in Nat
      /\ b \div c \in Nat /\ b = c * (b \div c) + (b % c)
  <2>1. a % c \in 0 .. c-1 /\ a \div c \in Nat /\ a = c * (a \div c) + (a % c)
    BY DivMod
  <2>2. b % c \in 0 .. c-1 /\ b \div c \in Nat /\ b = c * (b \div c) + (b % c)
    BY DivMod
  <2> QED BY <2>1, <2>2
<1> DEFINE x == a \div c  y == b \div c
<1>2. c * x \in Nat /\ c * y \in Nat
  BY <1>1
<1> HIDE DEF x, y
<1>3. b - a = c * y - c * x /\ x \in Nat /\ y \in Nat
  BY <1>1, <1>2 DEF x, y
<1>4. CASE x < y
  BY <1>4, <1>3, <1>2, Mul
<1>5. CASE y < x
  <2>1. c * x >= c * y + c
    BY <1>5, <1>3, Mul
  <2> QED BY <2>1, <1>2, <1>3
<1>6. CASE x = y
  BY <1>6, <1>2, <1>3
<1> QED BY <1>3, <1>4, <1>5, <1>6

Row == [fields : [Keys -> Fields], raw : Values \union {None}, ansi : Blobs \union {None}]

\* The inductive invariant.
StoreInv ==
  /\ head \in Nat /\ kept \in Seq(Row) /\ Len(kept) = head
  /\ DbOK(db)
  /\ ReadBack

\* A row appended: its slot reads as it was given, the others as before.
LEMMA AppendKeeps ==
  ASSUME StoreInv, NEW e, NEW row \in Row, NEW free, Filled(db, e, head % Cap, row.fields, free, row.ansi),
         db' = e, kept' = Append(kept, row), head' = head + 1
  PROVE  StoreInv'
<1> DEFINE i == head % Cap
<1>1. head \in Nat /\ kept \in Seq(Row) /\ Len(kept) = head /\ ReadBack /\ Cap \in Nat \ {0}
  BY StoreAssumption DEF StoreInv
<1>2. /\ DbOK(e)
      /\ \A j \in Idx \ {i} : Untouched(db, e, j)
      /\ \A k \in Keys : Shown(e, k, i) = Reading(e, k, i, row.fields[k])
      /\ ShownAnsi(e, i) = row.ansi
  BY DEF Filled
<1> HIDE DEF i
<1>3. /\ kept' \in Seq(Row) /\ Len(kept') = head + 1 /\ kept'[head + 1] = row
      /\ \A n \in 1..head : kept'[n] = kept[n]
  BY <1>1
<1>4. ASSUME NEW seq \in Live'
      PROVE  /\ \A k \in Keys :
                  Shown(e, k, seq % Cap) = Reading(e, k, seq % Cap, kept'[seq + 1].fields[k])
             /\ ShownAnsi(e, seq % Cap) = kept'[seq + 1].ansi
  <2>1. seq \in Nat /\ seq <= head /\ head - seq < Cap /\ (seq # head => seq \in Live)
    BY <1>1, <1>4 DEF Live, tail
  <2>2. CASE seq = head
    BY <2>2, <1>2, <1>3 DEF i
  <2>3. CASE seq # head
    <3>1. seq % Cap # i /\ seq % Cap \in Idx
      <4>1. seq < head
        BY <2>1, <2>3, <1>1
      <4>2. seq % Cap # head % Cap
        BY <4>1, <2>1, <1>1, ModInj
      <4>3. seq % Cap \in 0 .. Cap - 1
        BY <2>1, <1>1, DivMod
      <4> QED BY <4>2, <4>3 DEF i, Idx
    <3>2. /\ \A k \in Keys : Shown(db, k, seq % Cap) = Reading(db, k, seq % Cap, kept[seq + 1].fields[k])
          /\ ShownAnsi(db, seq % Cap) = kept[seq + 1].ansi
      BY <2>1, <2>3, <1>1 DEF ReadBack
    <3>3. kept'[seq + 1] = kept[seq + 1]
      BY <2>1, <2>3, <1>1, <1>3
    <3> QED BY <3>1, <3>2, <3>3, <1>2 DEF Untouched, Reading
  <2> QED BY <2>2, <2>3
<1>5. ReadBack'
  BY <1>4 DEF ReadBack
<1> QED BY <1>1, <1>2, <1>3, <1>5 DEF StoreInv

\* The values of a parsed row.
LEMMA JsonType ==
  ASSUME NEW r \in JsonRows
  PROVE  /\ \A k \in DOMAIN r.fields : r.fields[k] \in Fields
         /\ ExtractLevel(r) \in Values \union {None}
<1>1. r.alias \in Values \union {None}
  BY StoreAssumption
<1>2. \A k \in DOMAIN r.fields : r.fields[k] \in Fields
  BY StoreAssumption
<1>3. \A v \in DOMAIN Classified : Classified[v] \in Values
  BY StoreAssumption
<1> QED BY <1>1, <1>2, <1>3 DEF ExtractLevel

\* A JSON row appended.
LEMMA AppendJsonKeeps ==
  ASSUME StoreInv, NEW r \in JsonRows, NEW order \in SetToSeqs(DOMAIN r.fields), AppendJson(r, order)
  PROVE  StoreInv'
<1> DEFINE i == head % Cap
           last == Ingested(db, r, order, i, head)
           level == ExtractLevel(r)
           done == IF level = None THEN last ELSE SetString(last, "level", i, head, level)
           field(k) == IF k \in DOMAIN r.fields THEN r.fields[k] ELSE None
           val == [k \in Keys |-> field(k)]
           fields == [k \in Keys |-> IF k = "level" /\ level # None THEN level ELSE field(k)]
           row == [fields |-> fields, raw |-> ColumnText(field("level")), ansi |-> None]
           e == [done EXCEPT !.seen = @ + 1]
<1>1. DbOK(db) /\ head \in Nat /\ i \in Idx
  BY StoreAssumption, DivMod DEF StoreInv, Idx
<1>2. db' = e /\ kept' = Append(kept, row) /\ head' = head + 1
  BY DEF AppendJson
<1>3. /\ \A k \in DOMAIN r.fields : r.fields[k] \in Fields
      /\ level \in Fields /\ ColumnText(level) = level
  BY JsonType, TextIs
<1>4. \A k : field(k) \in Fields /\ ColumnText(field(k)) \in Values \union {None}
  BY <1>3, TextIs
<1>5. Filled(db, last, i, val, WellKnown, None)
  BY <1>1, IngestedFills
<1>6. "level" \in Keys /\ "level" \in WellKnown
  BY DEF Keys, WellKnown
<1> HIDE DEF i, last, level, field
<1>7. val \in [Keys -> Fields]
  BY <1>4
<1> HIDE DEF val
<1>8. Filled(db, done, i, fields, WellKnown, None)
  <2>1. CASE level = None
    <3>1. fields = val /\ done = last
      BY <2>1 DEF val
    <3> HIDE DEF fields, done
    <3> QED BY <3>1, <1>5
  <2>2. CASE level # None
    <3>1. last.col["level"].kind # "none"
      BY <1>5, <1>6 DEF Filled, DbOK, DbShape
    <3>2. Filled(db, SetString(last, "level", i, head, ColumnText(level)), i,
                 [val EXCEPT !["level"] = level], WellKnown, None)
      BY <3>1, <1>1, <1>3, <1>5, <1>6, <1>7, SetStringFills
    <3>3. fields = [val EXCEPT !["level"] = level] /\ done = SetString(last, "level", i, head, level)
      BY <2>2, <1>6 DEF val
    <3> HIDE DEF fields, done
    <3> QED BY <3>2, <3>3, <1>3
  <2> QED BY <2>1, <2>2
<1>9. row \in Row
  <2>1. fields \in [Keys -> Fields]
    BY <1>3, <1>4
  <2>2. ColumnText(field("level")) \in Values \union {None}
    BY <1>4
  <2> HIDE DEF fields
  <2> QED BY <2>1, <2>2 DEF Row
<1>10. row.fields = fields /\ row.ansi = None
  OBVIOUS
<1> HIDE DEF done, fields, row
<1>11. DbOK(done)
  BY <1>8 DEF Filled
<1>12. Filled(db, e, i, fields, WellKnown, None)
  <2>1. /\ DbOK(e) /\ e.intern = done.intern /\ e.blobs = done.blobs /\ e.pairs = done.pairs
        /\ e.text = done.text /\ e.ansi = done.ansi /\ e.col = done.col
    BY <1>11, SeenIs
  <2> HIDE DEF e
  <2> QED BY <2>1, <1>1, <1>8, FilledSame
<1> QED
  <2> HIDE DEF e
  <2>1. Filled(db, e, head % Cap, row.fields, WellKnown, row.ansi)
    BY <1>10, <1>12 DEF i
  <2> QED BY <2>1, <1>2, <1>9, AppendKeeps

\* A text row appended.
LEMMA AppendTextKeeps ==
  ASSUME StoreInv, NEW r \in TextRows, AppendText(r)
  PROVE  StoreInv'
<1> DEFINE i == head % Cap
           a == EvictRow(db, i)
           t == TextLine(a, i, r.ansi)
           m == SetString(t, "msg", i, head, r.line)
           e == IF r.level = None THEN m ELSE SetString(m, "level", i, head, r.level)
           none == [k \in Keys |-> None]
           msg == [none EXCEPT !["msg"] = r.line]
           fields == [k \in Keys |-> CASE k = "msg" -> r.line [] k = "level" -> r.level [] OTHER -> None]
           row == [fields |-> fields, raw |-> r.level, ansi |-> r.ansi]
<1>1. DbOK(db) /\ head \in Nat /\ i \in Idx
  BY StoreAssumption, DivMod DEF StoreInv, Idx
<1>2. db' = e /\ kept' = Append(kept, row) /\ head' = head + 1
  BY DEF AppendText
<1>3. /\ r.line \in Fields /\ ColumnText(r.line) = r.line
      /\ r.level \in Values \union {None} /\ r.level \in Fields /\ ColumnText(r.level) = r.level
      /\ r.ansi \in Blobs \union {None}
  <2>1. r.line \in Values \union {None} /\ r.level \in Values \union {None} /\ r.ansi \in Blobs \union {None}
    BY StoreAssumption
  <2> QED BY <2>1, TextIs
<1>4. Filled(db, a, i, none, Keys, None) /\ a.ansi[i] = 0
  BY <1>1, EvictRowOK
<1>5. none \in [Keys -> Fields] /\ msg \in [Keys -> Fields]
  BY <1>3, TextIs
<1>6. "level" \in Keys /\ "level" \in WellKnown /\ "msg" \in Keys /\ "msg" \in WellKnown
  BY DEF Keys, WellKnown
<1>7. row \in Row /\ row.fields = fields /\ row.ansi = r.ansi
  <2>1. fields \in [Keys -> Fields]
    BY <1>3, TextIs
  <2> HIDE DEF fields
  <2> QED BY <2>1, <1>3 DEF Row
<1>8. fields = IF r.level = None THEN msg ELSE [msg EXCEPT !["level"] = r.level]
  BY <1>6
<1> HIDE DEF i, a, none, row
<1>9. Filled(db, t, i, none, Keys, r.ansi)
  BY <1>1, <1>3, <1>4, TextLineFills
<1> HIDE DEF t
<1>10. Filled(db, m, i, msg, Keys, r.ansi)
  <2>1. t.col["msg"].kind # "none"
    BY <1>6, <1>9 DEF Filled, DbOK, DbShape
  <2>2. Filled(db, SetString(t, "msg", i, head, ColumnText(r.line)), i,
               [none EXCEPT !["msg"] = r.line], Keys, r.ansi)
    BY <2>1, <1>1, <1>3, <1>5, <1>6, <1>9, SetStringFills
  <2> QED BY <2>2, <1>3
<1> HIDE DEF m, msg, fields
<1>11. Filled(db, e, i, fields, Keys, r.ansi)
  <2>1. CASE r.level = None
    <3>1. e = m /\ fields = msg
      BY <2>1, <1>8
    <3> HIDE DEF e
    <3> QED BY <3>1, <1>10
  <2>2. CASE r.level # None
    <3>1. m.col["level"].kind # "none"
      BY <1>6, <1>10 DEF Filled, DbOK, DbShape
    <3>2. Filled(db, SetString(m, "level", i, head, ColumnText(r.level)), i,
                 [msg EXCEPT !["level"] = r.level], Keys, r.ansi)
      BY <3>1, <1>1, <1>3, <1>5, <1>6, <1>10, SetStringFills
    <3>3. e = SetString(m, "level", i, head, r.level) /\ fields = [msg EXCEPT !["level"] = r.level]
      BY <2>2, <1>8
    <3> HIDE DEF e
    <3> QED BY <3>2, <3>3, <1>3
  <2> QED BY <2>1, <2>2
<1> HIDE DEF e
<1>12. Filled(db, e, head % Cap, row.fields, Keys, row.ansi)
  BY <1>7, <1>11 DEF i
<1> QED BY <1>2, <1>7, <1>12, AppendKeeps

QueryTypes ==
  [pc : {"idle", "head", "tail", "plan", "done"}, key : Keys, value : Values \union {None},
   head : Nat, tail : Nat, indexed : BOOLEAN, found : SUBSET Nat]

\* The empty store.
LEMMA InitHolds ==
  ASSUME Init
  PROVE  StoreInv /\ query \in QueryTypes
<1>1. /\ head = 0 /\ kept = << >> /\ query = NoQuery
      /\ db = [intern |-> NewSlab, blobs |-> NewSlab,
               col |-> [k \in Keys |-> NewColumn(IF k \in WellKnown THEN "dict" ELSE "none")],
               pairs |-> [i \in Idx |-> << >>], ansi |-> [i \in Idx |-> 0],
               text |-> [i \in Idx |-> FALSE], count |-> [k \in Keys |-> 0], seen |-> 0]
  BY DEF Init
<1> DEFINE C == [k \in Keys |-> NewColumn(IF k \in WellKnown THEN "dict" ELSE "none")]
           P == [i \in Idx |-> << >>]
           N == [i \in Idx |-> 0]
           B == [i \in Idx |-> FALSE]
           K == [k \in Keys |-> 0]
<1>2. /\ SlabOK(NewSlab, Texts) /\ NewSlab \in Slabs(Texts) /\ \A x : Refs(NewSlab, x) = 0
  BY NewSlabOK DEF SlabOK
<1>3. \A k \in Keys : ColOK(C[k]) /\ (C[k].kind # "none" <=> k \in WellKnown) /\ \A id : Holds(C[k], id) = {}
  <2> SUFFICES ASSUME NEW k \in Keys
               PROVE  ColOK(C[k]) /\ (C[k].kind # "none" <=> k \in WellKnown) /\ \A id : Holds(C[k], id) = {}
    OBVIOUS
  <2> DEFINE kind == IF k \in WellKnown THEN "dict" ELSE "none"
  <2>1. C[k] = NewColumn(kind) /\ kind \in {"none", "dict", "raw"}
    OBVIOUS
  <2>2. kind # "none" <=> k \in WellKnown
    OBVIOUS
  <2> HIDE DEF C, kind
  <2> QED BY <2>1, <2>2, NewColumnOK
<1>4. /\ C \in [Keys -> AnyColumn] /\ P \in [Idx -> Seq(Pair)] /\ N \in [Idx -> Nat]
      /\ B \in [Idx -> BOOLEAN] /\ K \in [Keys -> Nat]
  <2>1. \A k \in Keys : C[k] \in AnyColumn
    BY <1>3 DEF ColOK, ColShape
  <2>2. C = [k \in Keys |-> C[k]]
    OBVIOUS
  <2>3. C \in [Keys -> AnyColumn]
    <3> HIDE DEF C
    <3> QED BY <2>1, <2>2
  <2> QED BY <2>3
<1>5. (\A i \in Idx : P[i] = << >> /\ N[i] = 0)
  OBVIOUS
<1>6. /\ db = [intern |-> NewSlab, blobs |-> NewSlab, col |-> C, pairs |-> P, ansi |-> N, text |-> B,
               count |-> K, seen |-> 0]
  BY <1>1
<1> HIDE DEF C, P, N, B, K
<1>7. db \in Dbs /\ db.intern = NewSlab /\ db.blobs = NewSlab /\ db.col = C /\ db.pairs = P /\ db.ansi = N
  BY <1>2, <1>4, <1>6 DEF Dbs
<1>8. ASSUME NEW F, \A x \in DOMAIN F : F[x] = {} PROVE Count(F) = 0
  <2>1. Spread(F) = {}
    BY <1>8 DEF Spread
  <2>2. Cardinality({}) = 0
    BY FS_EmptySet
  <2> QED BY <2>1, <2>2 DEF Count
<1>9. ASSUME NEW id \in Nat \ {0}
      PROVE  /\ Count(HoldF(db, id)) = 0 /\ Count(KeyF(db, id)) = 0 /\ Count(ValF(db, id)) = 0
             /\ Count(BlobF(db, id)) = 0 /\ Cardinality(AnsiUses(db, id)) = 0
  <2>1. \A x \in DOMAIN HoldF(db, id) : HoldF(db, id)[x] = {}
    BY <1>3, <1>7 DEF HoldF
  <2>2. \A i \in Idx : DOMAIN db.pairs[i] = {}
    BY <1>5, <1>7
  <2>3. /\ \A x \in DOMAIN KeyF(db, id) : KeyF(db, id)[x] = {}
        /\ \A x \in DOMAIN ValF(db, id) : ValF(db, id)[x] = {}
        /\ \A x \in DOMAIN BlobF(db, id) : BlobF(db, id)[x] = {}
    BY <2>2 DEF KeyF, ValF, BlobF
  <2>4. AnsiUses(db, id) = {}
    BY <1>5, <1>7 DEF AnsiUses
  <2>5. Cardinality(AnsiUses(db, id)) = 0
    BY <2>4, FS_EmptySet, Zenon
  <2> QED BY <2>1, <2>3, <2>5, <1>8
<1>10. InternExact(db) /\ BlobsExact(db)
  BY <1>2, <1>7, <1>9 DEF InternExact, BlobsExact
<1>11. DbOK(db)
  BY <1>2, <1>3, <1>7, <1>10, KeysFinite DEF DbOK, DbShape, ColOK
<1>12. kept \in Seq(Row) /\ Len(kept) = head /\ head \in Nat
  BY <1>1
<1>13. ReadBack
  <2>1. Live = {}
    BY <1>1, StoreAssumption DEF Live, tail
  <2> QED BY <2>1 DEF ReadBack
<1>14. query \in QueryTypes
  BY <1>1 DEF NoQuery, QueryTypes, Keys, WellKnown
<1> QED BY <1>11, <1>12, <1>13, <1>14 DEF StoreInv

\* A query changes nothing but itself.
LEMMA QueryKeeps ==
  ASSUME StoreInv, query \in QueryTypes, Query
  PROVE  query' \in QueryTypes /\ UNCHANGED <<head, db, kept>>
<1>1. head \in Nat /\ tail \in Nat /\ DbOK(db)
  BY StoreAssumption DEF StoreInv, tail
<1>2. NoQuery \in QueryTypes
  BY DEF NoQuery, QueryTypes, Keys, WellKnown
<1>3. ASSUME NEW a \in Asked, QueryHead(a[1], a[2]) PROVE query' \in QueryTypes /\ UNCHANGED <<head, db, kept>>
  <2>1. a[1] \in Keys /\ a[2] \in Values
    BY StoreAssumption
  <2> QED BY <2>1, <1>1, <1>2, <1>3 DEF QueryHead, QueryTypes
<1>4. ASSUME QueryTail PROVE query' \in QueryTypes /\ UNCHANGED <<head, db, kept>>
  BY <1>1, <1>4 DEF QueryTail, QueryTypes
<1>5. ASSUME QueryPlan PROVE query' \in QueryTypes /\ UNCHANGED <<head, db, kept>>
  <2> DEFINE c == db.col[query.key]
             id == c.dict.byHash[Hash[query.value]]
             x == IF c.kind = "dict" /\ id # 0 THEN Bitmap(c, id) ELSE {}
  <2>1. c \in AnyColumn
    BY <1>1 DEF QueryTypes, DbOK, DbShape, ColShape
  <2> HIDE DEF c
  <2>2. c.index \subseteq Nat \X (0..(SeqWidth - 1))
    BY <2>1, ColumnType
  <2>3. x \subseteq Nat
    BY <2>2 DEF Bitmap
  <2>4. query' = [query EXCEPT !.pc = "plan", !.indexed = (c.kind = "dict"), !.found = x]
        /\ UNCHANGED <<head, db, kept>>
    BY <1>5 DEF QueryPlan, c
  <2> HIDE DEF x
  <2> QED BY <2>3, <2>4 DEF QueryTypes
<1>6. ASSUME QueryScan PROVE query' \in QueryTypes /\ UNCHANGED <<head, db, kept>>
  <2> DEFINE lo == IF query.tail < tail THEN tail ELSE query.tail
             span == lo..(query.head - 1)
             x == IF query.indexed THEN query.found \intersect span
                  ELSE {seq \in span : FieldString(query.key, seq) = query.value}
  <2>1. span \subseteq Nat
    BY <1>1 DEF QueryTypes
  <2>2. query' = [query EXCEPT !.pc = "done", !.found = x] /\ UNCHANGED <<head, db, kept>>
    BY <1>6 DEF QueryScan
  <2> HIDE DEF lo, span
  <2>3. x \subseteq Nat
    BY <2>1 DEF QueryTypes
  <2> HIDE DEF x
  <2> QED BY <2>2, <2>3 DEF QueryTypes
<1>7. ASSUME QueryEnd PROVE query' \in QueryTypes /\ UNCHANGED <<head, db, kept>>
  BY <1>2, <1>7 DEF QueryEnd
<1> QED BY <1>3, <1>4, <1>5, <1>6, <1>7 DEF Query

\* What the invariant is for.
LEMMA SpreadKeys ==
  ASSUME NEW d, DbShape(d), NEW id
  PROVE  /\ KeyUses(d, id) = Spread(KeyF(d, id)) /\ ValueUses(d, id) = Spread(ValF(d, id))
         /\ BlobUses(d, id) = Spread(BlobF(d, id))
BY DEF KeyUses, ValueUses, BlobUses, Spread, KeyF, ValF, BlobF, Pairs

\* The raw cells and the entries of the dictionaries are what columns hold.
LEMMA SpreadHolds ==
  ASSUME NEW d, DbShape(d), NEW id
  PROVE  Count(HoldF(d, id)) = Cardinality(CellUses(d, id)) + Cardinality(DictUses(d, id))
<1> DEFINE F == HoldF(d, id)
           A == CellUses(d, id)
           B == DictUses(d, id)
<1>1. d \in Dbs /\ \A k \in Keys : ColShape(d.col[k])
  BY DEF DbShape
<1>2. /\ DOMAIN F = Keys /\ IsFiniteSet(Keys) /\ \A k \in Keys : F[k] = Holds(d.col[k], id)
      /\ \A k \in Keys : IsFiniteSet(F[k])
  BY <1>1, CountsType DEF HoldF
<1>3. \A k \in Keys : /\ d.col[k].kind = "raw" => DictIds(d.col[k]) = {}
                      /\ d.col[k].present \subseteq Idx
  <2> SUFFICES ASSUME NEW k \in Keys
               PROVE  /\ d.col[k].kind = "raw" => DictIds(d.col[k]) = {}
                      /\ d.col[k].present \subseteq Idx
    OBVIOUS
  <2> DEFINE c == d.col[k]
  <2>1. ColShape(c)
    BY <1>1
  <2> HIDE DEF c
  <2>2. c.kind # "dict" => DOMAIN c.dict.slots = {}
    BY <2>1 DEF ColShape
  <2>3. c.present \subseteq Idx
    BY <2>1, ShapeType
  <2>4. DOMAIN c.dict.slots = {} => DictIds(c) = {}
    BY DEF DictIds
  <2> QED BY <2>2, <2>3, <2>4 DEF c
<1>4. \A k, x : <<k, x>> \in A <=> /\ k \in Keys /\ d.col[k].kind = "raw" /\ x \in Holds(d.col[k], id)
  BY <1>3 DEF CellUses, Holds, CellsAt
<1>5. \A k, x : <<k, x>> \in B <=> /\ k \in Keys /\ d.col[k].kind # "raw" /\ x \in Holds(d.col[k], id)
  <2>1. \A k, x : <<k, x>> \in Entries(d) <=> k \in Keys /\ x \in DictIds(d.col[k])
    BY DEF Entries
  <2>2. \A k, x : <<k, x>> \in B <=> <<k, x>> \in Entries(d) /\ d.col[k].dict.slots[x].item = id
    BY DEF DictUses
  <2> HIDE DEF B
  <2> QED BY <2>1, <2>2, <1>3 DEF Holds
<1>6. /\ \A p \in A : p = <<p[1], p[2]>>
      /\ \A p \in B : p = <<p[1], p[2]>>
  BY DEF CellUses, DictUses, Entries
<1> HIDE DEF F, A, B
<1>7. \A k, x : <<k, x>> \in Spread(F) <=> <<k, x>> \in A \/ <<k, x>> \in B
  <2> SUFFICES ASSUME NEW k, NEW x
               PROVE  <<k, x>> \in Spread(F) <=> <<k, x>> \in A \/ <<k, x>> \in B
    OBVIOUS
  <2>1. <<k, x>> \in Spread(F) <=> k \in Keys /\ x \in F[k]
    BY <1>2, SpreadMember
  <2>2. k \in Keys => F[k] = Holds(d.col[k], id)
    BY <1>2
  <2>3. <<k, x>> \in A <=> k \in Keys /\ d.col[k].kind = "raw" /\ x \in Holds(d.col[k], id)
    BY <1>4
  <2>4. <<k, x>> \in B <=> k \in Keys /\ d.col[k].kind # "raw" /\ x \in Holds(d.col[k], id)
    BY <1>5
  <2> QED BY <2>1, <2>2, <2>3, <2>4
<1>8. \A p \in Spread(F) : p = <<p[1], p[2]>>
  BY SpreadPair
<1>9. Spread(F) = A \union B
  BY <1>6, <1>7, <1>8
<1>10. A \intersect B = {}
  BY <1>4, <1>5, <1>6
<1>11. IsFiniteSet(Spread(F))
  BY <1>2, SpreadFinite
<1>12. IsFiniteSet(A) /\ IsFiniteSet(B)
  BY <1>9, <1>11, FS_Subset
<1>13. Cardinality(A \union B) = Cardinality(A) + Cardinality(B)
  BY <1>10, <1>12, CardJoin
<1>14. Cardinality(Spread(F)) = Cardinality(A \union B)
  BY <1>9, Zenon
<1> QED BY <1>13, <1>14 DEF Count, F, A, B

\* Exact counts by column and by slot are exact counts of all references.
LEMMA RefsFollow ==
  ASSUME DbOK(db)
  PROVE  RefsExact
<1>1. DbShape(db) /\ InternExact(db) /\ BlobsExact(db) /\ db.intern \in Slabs(Texts) /\ db.blobs \in Slabs(Texts)
      /\ \A k \in Keys : ColOK(db.col[k])
  BY DEF DbOK, DbShape, SlabOK
<1>2. ASSUME NEW id \in DOMAIN db.intern.slots
      PROVE  Refs(db.intern, id) = Cardinality(CellUses(db, id)) + Cardinality(DictUses(db, id))
                                   + Cardinality(KeyUses(db, id)) + Cardinality(ValueUses(db, id))
  <2>1. id \in Nat \ {0}
    BY <1>1, SlabRefs
  <2>2. Refs(db.intern, id) = Count(HoldF(db, id)) + Count(KeyF(db, id)) + Count(ValF(db, id))
    BY <1>1, <2>1 DEF InternExact
  <2>3. KeyUses(db, id) = Spread(KeyF(db, id)) /\ ValueUses(db, id) = Spread(ValF(db, id))
    BY <1>1, SpreadKeys
  <2>4. /\ Cardinality(KeyUses(db, id)) = Count(KeyF(db, id))
        /\ Cardinality(ValueUses(db, id)) = Count(ValF(db, id))
    BY <2>3, Zenon DEF Count
  <2>5. Count(HoldF(db, id)) = Cardinality(CellUses(db, id)) + Cardinality(DictUses(db, id))
    BY <1>1, SpreadHolds
  <2> QED BY <2>2, <2>4, <2>5
<1>3. ASSUME NEW id \in DOMAIN db.blobs.slots
      PROVE  Refs(db.blobs, id) = Cardinality(BlobUses(db, id)) + Cardinality(AnsiUses(db, id))
  <2>1. id \in Nat \ {0}
    BY <1>1, SlabRefs
  <2>2. Refs(db.blobs, id) = Count(BlobF(db, id)) + Cardinality(AnsiUses(db, id))
    BY <1>1, <2>1 DEF BlobsExact
  <2>3. BlobUses(db, id) = Spread(BlobF(db, id))
    BY <1>1, SpreadKeys
  <2>4. Cardinality(BlobUses(db, id)) = Count(BlobF(db, id))
    BY <2>3, Zenon DEF Count
  <2> QED BY <2>2, <2>4
<1>4. ASSUME NEW k \in Keys
      PROVE  /\ db.col[k].card = Cardinality(DictIds(db.col[k]))
             /\ \A id \in DOMAIN db.col[k].dict.slots :
                  Refs(db.col[k].dict, id) =
                    Cardinality({i \in db.col[k].present : db.col[k].ids[i] = id})
  <2> DEFINE c == db.col[k]
  <2>1. ColOK(c)
    BY <1>1
  <2> HIDE DEF c
  <2>2. /\ ColShape(c) /\ c.kind # "dict" => DOMAIN c.dict.slots = {}
    BY <2>1 DEF ColOK, ColShape
  <2>3. /\ c.card = Cardinality(DictIds(c)) /\ c.dict \in Slabs(Nat)
        /\ c.kind = "dict" => \A e \in Nat : Refs(c.dict, e) = Cardinality(CellsAt(c, e))
        /\ c.kind # "dict" => DOMAIN c.dict.slots = {}
    BY <2>1, ShapeType DEF ColOK
  <2>4. ASSUME NEW id \in DOMAIN c.dict.slots
        PROVE  Refs(c.dict, id) = Cardinality({i \in c.present : c.ids[i] = id})
    <3>1. id \in Nat
      BY <2>3, SlabRefs
    <3>2. Refs(c.dict, id) = Cardinality(CellsAt(c, id))
      BY <2>3, <2>4, <3>1
    <3> QED BY <3>2, Zenon DEF CellsAt
  <2> QED BY <2>3, <2>4 DEF c
<1> QED BY <1>2, <1>3, <1>4 DEF RefsExact

\* And everything has its type.
LEMMA TypesFollow ==
  ASSUME StoreInv, query \in QueryTypes
  PROVE  TypeOK
<1>1. /\ head \in Nat /\ kept \in Seq(Row) /\ db \in Dbs /\ \A k \in Keys : ColOK(db.col[k])
  BY DEF StoreInv, DbOK, DbShape
<1>2. \A k \in Keys : db.col[k] \in Columns
  <2> SUFFICES ASSUME NEW k \in Keys PROVE db.col[k] \in Columns
    OBVIOUS
  <2>1. ColOK(db.col[k])
    BY <1>1
  <2>2. db.col[k] \in AnyColumn /\ db.col[k].card <= MaxDict /\ MaxDict \in Nat
    BY <2>1, StoreAssumption DEF ColOK, ColShape
  <2>3. db.col[k].card \in Nat
    BY <2>2, ColumnType
  <2>4. db.col[k].card \in 0..MaxDict
    BY <2>2, <2>3
  <2> DEFINE S == SUBSET (Nat \X (0..(SeqWidth - 1)))
             D == Slabs(Nat)
  <2>5. db.col[k] \in [kind : {"none", "dict", "raw"}, ids : [Idx -> Nat], present : SUBSET Idx,
                       dict : D, index : S, card : Nat]
    BY <2>2 DEF AnyColumn
  <2> SUFFICES db.col[k] \in [kind : {"none", "dict", "raw"}, ids : [Idx -> Nat], present : SUBSET Idx,
                              dict : D, index : S, card : 0..MaxDict]
    BY DEF Columns
  <2> HIDE DEF S, D
  <2> QED BY <2>4, <2>5
<1>3. db.col \in [Keys -> Columns]
  <2>1. db.col \in [Keys -> AnyColumn]
    BY <1>1, DbType
  <2> QED BY <2>1, <1>2
<1>4. db \in [intern : Slabs(Texts), blobs : Slabs(Texts), col : [Keys -> Columns],
              pairs : [Idx -> Seq([key : Nat, val : Nat, blob : BOOLEAN])],
              ansi : [Idx -> Nat], text : [Idx -> BOOLEAN], count : [Keys -> Nat], seen : Nat]
  <2> DEFINE S == Slabs(Texts)
             C == [Keys -> AnyColumn]
             C2 == [Keys -> Columns]
             P == [Idx -> Seq([key : Nat, val : Nat, blob : BOOLEAN])]
  <2>1. db \in [intern : S, blobs : S, col : C, pairs : P, ansi : [Idx -> Nat], text : [Idx -> BOOLEAN],
                count : [Keys -> Nat], seen : Nat]
    BY <1>1 DEF Dbs, Pair
  <2>2. db.col \in C2
    BY <1>3
  <2> HIDE DEF S, C, C2, P
  <2>3. db \in [intern : S, blobs : S, col : C2, pairs : P, ansi : [Idx -> Nat], text : [Idx -> BOOLEAN],
                count : [Keys -> Nat], seen : Nat]
    BY <2>1, <2>2
  <2> QED BY <2>3 DEF S, C2, P
<1> QED BY <1>1, <1>4 DEF TypeOK, QueryTypes, Row

\* Every step keeps the invariant.
LEMMA StoreSteps ==
  ASSUME StoreInv, query \in QueryTypes, [Next]_vars
  PROVE  StoreInv' /\ query' \in QueryTypes
<1>1. ASSUME NEW r \in JsonRows, NEW order \in SetToSeqs(DOMAIN r.fields), AppendJson(r, order)
      PROVE  StoreInv' /\ query' \in QueryTypes
  <2>1. query' = query
    BY <1>1 DEF AppendJson
  <2> QED BY <2>1, <1>1, AppendJsonKeeps
<1>2. ASSUME NEW r \in TextRows, AppendText(r)
      PROVE  StoreInv' /\ query' \in QueryTypes
  <2>1. query' = query
    BY <1>2 DEF AppendText
  <2> QED BY <2>1, <1>2, AppendTextKeeps
<1>3. ASSUME Query
      PROVE  StoreInv' /\ query' \in QueryTypes
  <2>1. query' \in QueryTypes /\ UNCHANGED <<head, db, kept>>
    BY <1>3, QueryKeeps
  <2> QED BY <2>1 DEF StoreInv, ReadBack, Live, tail
<1>4. ASSUME UNCHANGED vars
      PROVE  StoreInv' /\ query' \in QueryTypes
  BY <1>4 DEF vars, StoreInv, ReadBack, Live, tail
<1> QED BY <1>1, <1>2, <1>3, <1>4 DEF Next

\* The invariant holds.
LEMMA StoreInvariant == Spec => [](StoreInv /\ query \in QueryTypes)
<1>1. Init => StoreInv /\ query \in QueryTypes
  BY InitHolds
<1>2. (StoreInv /\ query \in QueryTypes) /\ [Next]_vars => (StoreInv /\ query \in QueryTypes)'
  <2> SUFFICES ASSUME StoreInv, query \in QueryTypes, [Next]_vars
               PROVE  StoreInv' /\ query' \in QueryTypes'
    OBVIOUS
  <2>1. QueryTypes' = QueryTypes
    BY DEF QueryTypes
  <2> QED BY <2>1, StoreSteps
<1> QED BY <1>1, <1>2, PTL DEF Spec

\* Every variable keeps its type; in particular a dictionary never holds more
\* than maxDict values, through every promotion to raw.
THEOREM StoreTypes == Spec => []TypeOK
<1>1. StoreInv /\ query \in QueryTypes => TypeOK
  BY TypesFollow
<1> QED BY <1>1, StoreInvariant, PTL

\* Every reference count is the number of references there are, whatever the hash
\* function and the order of appends, evictions, promotions and reused ids:
\* nothing leaks and nothing is freed while in use.
THEOREM RefsStayExact == Spec => []RefsExact
<1>1. StoreInv /\ query \in QueryTypes => RefsExact
  BY RefsFollow DEF StoreInv
<1> QED BY <1>1, StoreInvariant, PTL

\* Every live row reads back as it was appended, field by field and with its ANSI
\* blob: no recycled id, colliding hash, promotion or overwritten slot shows a
\* row the text of another.
THEOREM RowsReadBack == Spec => []ReadBack
<1>1. StoreInv /\ query \in QueryTypes => ReadBack
  BY DEF StoreInv
<1> QED BY <1>1, StoreInvariant, PTL

---------------------------------------------------------------------------
(* The index of a column *)

\* The index of a dictionary column, with the text of each entry and the sequence number
\* that each cell stands for: an entry is found by the hash of its text, the rows under an
\* entry had its text, and every cell is there.
IndexIs(c, text, told, at) ==
  /\ \A h \in Hashes : c.dict.byHash[h] # 0 =>
       c.dict.byHash[h] \in DictIds(c) /\ Hash[text[c.dict.byHash[h]]] = h
  /\ \A y \in DictIds(c) : Unshared(text[y]) => c.dict.byHash[Hash[text[y]]] = y
  /\ \A p \in c.index : p[1] \in DictIds(c) /\ <<p[2], text[p[1]]>> \in told
  /\ \A i \in c.present : <<c.ids[i], at[i]>> \in c.index

\* A cell that goes takes the entry with it if it was the last.
LEMMA VacatedIndex ==
  ASSUME NEW c, ColOK(c), c.kind = "dict", NEW i \in Idx, NEW text, NEW new, NEW told, NEW at, NEW now,
         \A y \in DictIds(c) : text[y] \in Texts, IndexIs(c, text, told, at),
         \A y \in DictIds(c) : y \in DictIds(Vacated(c, i)) => new[y] = text[y],
         \A j \in Idx \ {i} : now[j] = at[j]
  PROVE  IndexIs(Vacated(c, i), new, told, now)
<1> DEFINE t == Vacated(c, i)
           x == c.ids[i]
           last == Refs(c.dict, x) = 1
           r == Release(c.dict, Once(c.dict, x))
<1>1. /\ c \in AnyColumn /\ SlabOK(c.dict, Nat \ {0})
      /\ \A j \in c.present : c.ids[j] \in DictIds(c)
      /\ c.ids \in [Idx -> Nat] /\ c.present \subseteq Idx
      /\ \A y : Refs(c.dict, y) \in Nat /\ (Refs(c.dict, y) > 0 <=> y \in DictIds(c))
      /\ DictIds(c) \subseteq Nat \ {0} /\ DictIds(c) \subseteq DOMAIN c.dict.slots
      /\ \A y \in Nat : Refs(c.dict, y) = Cardinality(CellsAt(c, y))
  BY ShapeType DEF ColOK
<1>2. CASE i \notin c.present
  <2>1. t = c
    BY <1>2 DEF Vacated
  <2>2. \A j \in c.present : now[j] = at[j]
    BY <1>1, <1>2
  <2> HIDE DEF t
  <2>3. \A y \in DictIds(c) : new[y] = text[y]
    BY <2>1 DEF t
  <2>4. IndexIs(c, new, told, now)
    BY <2>2, <2>3 DEF IndexIs
  <2> QED BY <2>1, <2>4 DEF t
<1>3. CASE i \in c.present
  <2>1. /\ t.ids = [c.ids EXCEPT ![i] = 0] /\ t.present = c.present \ {i} /\ t.dict = r
        /\ t.index = IF last THEN {p \in c.index : p[1] # x} ELSE c.index
    BY <1>1, <1>3 DEF Vacated, AnyColumn
  <2>2. x \in DictIds(c) /\ x \in DOMAIN c.dict.slots /\ x \in Nat
    BY <1>1, <1>3
  <2>3. /\ Once(c.dict, x) \in [DOMAIN c.dict.slots -> Nat]
        /\ \A y \in DOMAIN c.dict.slots : Once(c.dict, x)[y] = IF y = x THEN 1 ELSE 0
    BY <1>1, OnceType
  <2>4. /\ DOMAIN r.slots = DOMAIN c.dict.slots
        /\ \A y \in DOMAIN c.dict.slots : Refs(r, y) = Less(Refs(c.dict, y), Once(c.dict, x)[y])
        /\ \A y : Refs(c.dict, y) = 0 => Refs(r, y) = 0
        /\ \A h \in Hashes : r.byHash[h] = IF Refs(c.dict, c.dict.byHash[h]) > 0 /\ Refs(r, c.dict.byHash[h]) = 0
                                           THEN 0 ELSE c.dict.byHash[h]
    BY <1>1, <2>3, ReleaseSlab
  <2>5. ColOK(t) /\ t \in AnyColumn
    BY VacateColumn DEF ColOK, ColShape
  <2> HIDE DEF r, t
  <2>6. \A y : Refs(r, y) = IF y = x THEN Refs(c.dict, y) - 1 ELSE Refs(c.dict, y)
    <3> SUFFICES ASSUME NEW y PROVE Refs(r, y) = IF y = x THEN Refs(c.dict, y) - 1 ELSE Refs(c.dict, y)
      OBVIOUS
    <3>1. Refs(c.dict, y) \in Nat /\ (Refs(c.dict, y) > 0 => y \in DOMAIN c.dict.slots)
      BY <1>1
    <3>2. CASE y \in DOMAIN c.dict.slots
      <4>1. Refs(r, y) = Less(Refs(c.dict, y), IF y = x THEN 1 ELSE 0)
        BY <2>3, <2>4, <3>2
      <4>2. y = x => Refs(c.dict, y) > 0
        BY <1>1, <2>2
      <4> QED BY <4>1, <4>2, <3>1 DEF Less
    <3>3. CASE y \notin DOMAIN c.dict.slots
      BY <3>3, <3>1, <2>2, <2>4
    <3> QED BY <3>2, <3>3
  <2>7. \A y : y \in DictIds(t) <=> y \in DictIds(c) /\ ~(last /\ y = x)
    <3> SUFFICES ASSUME NEW y PROVE y \in DictIds(t) <=> y \in DictIds(c) /\ ~(last /\ y = x)
      OBVIOUS
    <3>1. y \in DictIds(t) <=> Refs(r, y) > 0
      BY <2>1, <2>5, ColumnType
    <3>2. Refs(c.dict, y) \in Nat /\ (Refs(c.dict, y) > 0 <=> y \in DictIds(c))
      BY <1>1
    <3>3. Refs(r, y) = IF y = x THEN Refs(c.dict, y) - 1 ELSE Refs(c.dict, y)
      BY <2>6
    <3>4. Refs(c.dict, x) > 0 /\ Refs(c.dict, x) \in Nat
      BY <1>1, <2>2
    <3> QED BY <3>1, <3>2, <3>3, <3>4
  <2>8. \A y \in DictIds(t) : y \in DictIds(c) /\ new[y] = text[y]
    BY <2>7 DEF t
  <2>9. \A h \in Hashes : LET y == c.dict.byHash[h]
                          IN  t.dict.byHash[h] = IF y \in DictIds(c) /\ y \notin DictIds(t) THEN 0 ELSE y
    <3> SUFFICES ASSUME NEW h \in Hashes, NEW y, y = c.dict.byHash[h]
                 PROVE  t.dict.byHash[h] = IF y \in DictIds(c) /\ y \notin DictIds(t) THEN 0 ELSE y
      OBVIOUS
    <3>1. y \in DictIds(t) <=> Refs(r, y) > 0
      BY <2>1, <2>5, ColumnType
    <3>2. Refs(r, y) \in Nat
      BY <2>1, <2>5, ColumnType
    <3>3. Refs(c.dict, y) > 0 <=> y \in DictIds(c)
      BY <1>1
    <3> QED BY <3>1, <3>2, <3>3, <2>1, <2>4
  <2>10. \A h \in Hashes : t.dict.byHash[h] # 0 =>
           t.dict.byHash[h] \in DictIds(t) /\ Hash[new[t.dict.byHash[h]]] = h
    <3> SUFFICES ASSUME NEW h \in Hashes, t.dict.byHash[h] # 0
                 PROVE  t.dict.byHash[h] \in DictIds(t) /\ Hash[new[t.dict.byHash[h]]] = h
      OBVIOUS
    <3> DEFINE y == c.dict.byHash[h]
    <3>1. t.dict.byHash[h] = y /\ ~(y \in DictIds(c) /\ y \notin DictIds(t)) /\ y # 0
      BY <2>9
    <3>2. y \in DictIds(c) /\ Hash[text[y]] = h
      BY <3>1 DEF IndexIs
    <3> HIDE DEF y
    <3> QED BY <3>1, <3>2, <2>8
  <2>11. \A y \in DictIds(t) : Unshared(new[y]) => t.dict.byHash[Hash[new[y]]] = y
    <3> SUFFICES ASSUME NEW y \in DictIds(t), Unshared(text[y])
                 PROVE  t.dict.byHash[Hash[text[y]]] = y
      BY <2>8
    <3>1. y \in DictIds(c) /\ text[y] \in Texts
      BY <2>8
    <3>2. c.dict.byHash[Hash[text[y]]] = y
      BY <3>1 DEF IndexIs
    <3>3. Hash[text[y]] \in Hashes
      BY <3>1, StoreAssumption
    <3> QED BY <3>2, <3>3, <2>9
  <2>12. \A p \in t.index : p[1] \in DictIds(t) /\ <<p[2], new[p[1]]>> \in told
    <3> SUFFICES ASSUME NEW p \in t.index
                 PROVE  p[1] \in DictIds(t) /\ <<p[2], new[p[1]]>> \in told
      OBVIOUS
    <3>1. p \in c.index /\ (last => p[1] # x)
      BY <2>1
    <3>2. p[1] \in DictIds(c) /\ <<p[2], text[p[1]]>> \in told
      BY <3>1 DEF IndexIs
    <3>3. p[1] \in DictIds(t)
      BY <3>1, <3>2, <2>7
    <3> QED BY <3>2, <3>3, <2>8
  <2>13. \A j \in t.present : <<t.ids[j], now[j]>> \in t.index
    <3> SUFFICES ASSUME NEW j \in t.present PROVE <<t.ids[j], now[j]>> \in t.index
      OBVIOUS
    <3>1. j \in c.present /\ j # i /\ j \in Idx /\ t.ids[j] = c.ids[j] /\ now[j] = at[j]
      BY <1>1, <2>1
    <3>2. <<c.ids[j], at[j]>> \in c.index
      BY <3>1 DEF IndexIs
    <3>3. ASSUME last PROVE c.ids[j] # x
      <4> SUFFICES ASSUME c.ids[j] = x PROVE FALSE
        OBVIOUS
      <4>1. j \in CellsAt(c, x) \ {i} /\ i \in CellsAt(c, x)
        BY <3>1, <1>3 DEF CellsAt
      <4>2. IsFiniteSet(CellsAt(c, x)) /\ Cardinality(CellsAt(c, x)) = 1
        BY <1>1, <2>2, <3>3, IdxFinite
      <4>3. Cardinality(CellsAt(c, x) \ {i}) = 0 /\ IsFiniteSet(CellsAt(c, x) \ {i})
        BY <4>1, <4>2, CardMinus
      <4> QED BY <4>1, <4>3, FS_EmptySet
    <3>4. <<c.ids[j], at[j]>>[1] = c.ids[j]
      OBVIOUS
    <3> QED BY <3>1, <3>2, <3>3, <3>4, <2>1
  <2> QED BY <2>10, <2>11, <2>12, <2>13 DEF IndexIs, t
<1> QED BY <1>2, <1>3
=============================================================================
