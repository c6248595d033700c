-------------------------------- MODULE Slab --------------------------------
(***************************************************************************)
(* A refcounted table with recycled ids: what loggi's string interner, its *)
(* blob slab and the dictionary of a hot column have in common.  Slots are *)
(* found again by the hash of their content; byHash keeps the first of the *)
(* slots whose contents collide, a later one lives unshared.  Id 0 is      *)
(* "nothing"; freed ids are reused, the last one freed first.              *)
(*                                                                         *)
(* A slot is live while it has references.  Retain and Release stand for   *)
(* any number of calls, n[id] of them for each id; ids freed together join *)
(* the free list in some order.                                            *)
(***************************************************************************)
EXTENDS Naturals, Sequences, SequencesExt

CONSTANT Hashes   \* values of the hash function

NewSlab == [slots |-> << >>, free |-> << >>, byHash |-> [h \in Hashes |-> 0]]

Refs(slab, id) == IF id \in DOMAIN slab.slots THEN slab.slots[id].refs ELSE 0

\* Bug variant: equal hashes are taken for equal contents.
FindUnverified(slab, h, same) == slab.byHash[h]

\* The live slot that byHash names, if it holds one of the items looked for.
Find(slab, h, same) ==
  LET id == slab.byHash[h]
  IN  IF Refs(slab, id) > 0 /\ slab.slots[id].item \in same THEN id ELSE 0

NextId(slab) == IF slab.free = << >> THEN Len(slab.slots) + 1
                                     ELSE slab.free[Len(slab.free)]

Add(slab, h, item) ==
  LET id == NextId(slab)
  IN  [slots  |-> [j \in DOMAIN slab.slots \union {id} |->
                     IF j = id THEN [item |-> item, refs |-> 1] ELSE slab.slots[j]],
       free   |-> IF slab.free = << >> THEN << >>
                                       ELSE SubSeq(slab.free, 1, Len(slab.free) - 1),
       byHash |-> [x \in Hashes |-> IF x = h /\ slab.byHash[h] = 0 THEN id
                                                                    ELSE slab.byHash[x]]]

Once(slab, id) == [j \in DOMAIN slab.slots |-> IF j = id THEN 1 ELSE 0]

Retain(slab, n) ==
  [slots  |-> [id \in DOMAIN slab.slots |-> [slab.slots[id] EXCEPT !.refs = @ + n[id]]],
   free   |-> slab.free,
   byHash |-> slab.byHash]

Less(refs, n) == IF n < refs THEN refs - n ELSE 0

Release(slab, n) ==
  LET slots == [id \in DOMAIN slab.slots |->
                  [slab.slots[id] EXCEPT !.refs = Less(@, n[id])]]
      gone  == {id \in DOMAIN slots : slots[id].refs = 0 /\ slab.slots[id].refs > 0}
  IN  [slots  |-> slots,
       free   |-> slab.free \o SetToSeq(gone),
       byHash |-> [h \in Hashes |-> IF slab.byHash[h] \in gone THEN 0 ELSE slab.byHash[h]]]

\* Look up or add, one reference more: the id and the slab afterwards.
Put(slab, h, item) ==
  LET id == Find(slab, h, {item})
  IN  IF id # 0 THEN [id |-> id, slab |-> Retain(slab, Once(slab, id))]
                ELSE [id |-> NextId(slab), slab |-> Add(slab, h, item)]
=============================================================================
