---------------------------- MODULE IngestProofs ----------------------------
(***************************************************************************)
(* Proofs about Ingest, for every set of writes and pushes, every capacity *)
(* of the channel and every bound: the types, the bytes of a file read     *)
(* once and in order, the lines of a pipe joined from its parts.           *)
(*                                                                         *)
(* A sequence of lines is the sequence of the places where they end, and   *)
(* the k-th place is found by counting; so that one more line is one more  *)
(* place, and nothing has to be shown by induction over the bytes.         *)
(***************************************************************************)
EXTENDS Ingest, FiniteSetTheorems, SequenceTheorems, TLAPS

-----------------------------------------------------------------------------
(* Positions: least ones, and the k-th of a set.                           *)

\* A non-empty set of naturals has a least one.
LEMMA Least ==
  ASSUME NEW T, T \subseteq Nat, T # {}
  PROVE  \E x \in T : \A y \in T : x <= y
<1>1. PICK n \in T : TRUE
  OBVIOUS
<1>2. DEFINE U == {0 .. k : k \in {j \in T : j <= n}}
             S == 0 .. n
<1>3. IsFiniteSet(S)
  BY <1>1, FS_Interval
<1>4. U \subseteq FiniteSubsetsOf(S) /\ U # {}
  <2>1. \A V \in U : V \in SUBSET S
    BY <1>1, SMT
  <2>2. n \in {j \in T : j <= n}
    BY <1>1, SMT
  <2>3. U # {}
    BY <2>2
  <2>. QED BY <2>1, <2>3, <1>3, FS_FiniteSubsetsOfFinite
<1>5. \E V \in U : \A W \in U : <<W, V>> \notin StrictSubsetOrdering(S)
  BY <1>4, FS_StrictSubsetOrderingWellFounded, WFMin
<1>6. PICK k \in {j \in T : j <= n} : \A W \in U : <<W, 0 .. k>> \notin StrictSubsetOrdering(S)
  BY <1>5
<1>7. \A y \in T : k <= y
  <2> SUFFICES ASSUME NEW y \in T, y < k PROVE FALSE
    BY <1>1, SMT
  <2>1. y \in {j \in T : j <= n}
    BY <1>1
  <2>2. 0 .. y \in U
    BY <2>1
  <2>3. 0 .. y \subseteq 0 .. k /\ 0 .. k \subseteq S /\ 0 .. y # 0 .. k
    BY <1>1, SMT
  <2>. QED BY <2>2, <2>3, <1>6 DEF StrictSubsetOrdering
<1>. QED BY <1>7

\* What Min gives of such a set.
LEMMA MinIsLeast ==
  ASSUME NEW T, T \subseteq Nat, T # {}
  PROVE  Min(T) \in T /\ \A y \in T : Min(T) <= y
BY Least DEF Min

\* A set with one least element, named.
LEMMA MinIs ==
  ASSUME NEW T, T \subseteq Nat, NEW x \in T, \A y \in T : x <= y
  PROVE  Min(T) = x
<1>1. Min(T) \in T /\ Min(T) <= x
  BY MinIsLeast
<1>2. x <= Min(T) /\ x \in Nat /\ Min(T) \in Nat
  BY <1>1
<1>. QED BY <1>1, <1>2, SMT

\* How many positions of a set are among the first i.
LEMMA CountFinite ==
  ASSUME NEW S, NEW i \in Nat
  PROVE  /\ IsFiniteSet(S \cap 1 .. i)
         /\ Cardinality(S \cap 1 .. i) \in Nat
<1>1. IsFiniteSet(1 .. i)
  BY FS_Interval
<1>. QED BY <1>1, FS_Intersection, FS_CardinalityType

\* One more position.
LEMMA CountStep ==
  ASSUME NEW S, NEW i \in Nat
  PROVE  Cardinality(S \cap 1 .. i + 1) =
           IF i + 1 \in S THEN Cardinality(S \cap 1 .. i) + 1 ELSE Cardinality(S \cap 1 .. i)
<1>1. CASE i + 1 \in S
  <2>1. S \cap 1 .. i + 1 = (S \cap 1 .. i) \cup {i + 1}
    BY <1>1, SMT
  <2>2. i + 1 \notin S \cap 1 .. i
    OBVIOUS
  <2>. QED BY <1>1, <2>1, <2>2, CountFinite, FS_AddElement
<1>2. CASE i + 1 \notin S
  <2>1. S \cap 1 .. i + 1 = S \cap 1 .. i
    BY <1>2, SMT
  <2>. QED BY <1>2, <2>1
<1>. QED BY <1>1, <1>2

\* More positions hold no fewer of a set.
LEMMA CountMonotone ==
  ASSUME NEW S, NEW i \in Nat, NEW j \in Nat, i <= j
  PROVE  /\ Cardinality(S \cap 1 .. i) <= Cardinality(S \cap 1 .. j)
         /\ (j \in S /\ i < j) => Cardinality(S \cap 1 .. i) < Cardinality(S \cap 1 .. j)
<1>1. S \cap 1 .. i \in SUBSET (S \cap 1 .. j)
  BY SMT
<1>2. Cardinality(S \cap 1 .. i) <= Cardinality(S \cap 1 .. j)
  BY <1>1, CountFinite, FS_Subset
<1>3. ASSUME j \in S, i < j
      PROVE  Cardinality(S \cap 1 .. i) < Cardinality(S \cap 1 .. j)
  <2>1. j \in S \cap 1 .. j /\ j \notin S \cap 1 .. i
    BY <1>3, SMT
  <2>2. Cardinality(S \cap 1 .. i) # Cardinality(S \cap 1 .. j)
    BY <1>1, <2>1, CountFinite, FS_Subset
  <2>. QED BY <1>2, <2>2, CountFinite
<1>. QED BY <1>2, <1>3

\* The k-th position is one, and the k-th.
LEMMA NthIs ==
  ASSUME NEW n \in Nat, NEW S \in SUBSET (1 .. n), NEW k \in 1 .. Cardinality(S)
  PROVE  Nth(S, k) \in S /\ Cardinality(S \cap 1 .. Nth(S, k)) = k
<1>0. /\ S \cap 1 .. n = S /\ Cardinality(S) \in Nat
      /\ \A i \in Nat : Cardinality(S \cap 1 .. i) \in Nat
  BY CountFinite
<1>. DEFINE T == {i \in Nat : Cardinality(S \cap 1 .. i) >= k}
            K == {i \in S : Cardinality(S \cap 1 .. i) = k}
<1>1. n \in T
  BY <1>0
<1>2. PICK m \in T : \A y \in T : m <= y
  BY <1>1, Least
<1>3. m # 0
  <2>1. S \cap 1 .. 0 = {}
    OBVIOUS
  <2>2. Cardinality(S \cap 1 .. 0) = 0
    BY <2>1, FS_EmptySet
  <2>. QED BY <2>2, <1>2, <1>0
<1>4. m - 1 \in Nat /\ Cardinality(S \cap 1 .. m - 1) < k
  BY <1>0, <1>2, <1>3
<1>5. m \in S /\ Cardinality(S \cap 1 .. m) = k
  <2>1. Cardinality(S \cap 1 .. (m - 1) + 1) =
          IF (m - 1) + 1 \in S THEN Cardinality(S \cap 1 .. m - 1) + 1
          ELSE Cardinality(S \cap 1 .. m - 1)
    BY <1>4, CountStep
  <2>2. (m - 1) + 1 = m
    BY <1>4
  <2>. QED BY <1>0, <1>2, <1>4, <2>1, <2>2
<1>6. K \subseteq Nat /\ K # {}
  <2>1. m \in K
    BY <1>5
  <2>2. \A i \in S : i \in Nat
    OBVIOUS
  <2>. QED BY <2>1, <2>2
<1>7. Min(K) \in K
  BY <1>6, MinIsLeast
<1>. QED BY <1>7 DEF Nth

\* There is only one k-th position.
LEMMA NthUnique ==
  ASSUME NEW S, S \subseteq Nat, NEW i \in S, NEW k, Cardinality(S \cap 1 .. i) = k
  PROVE  Nth(S, k) = i
<1>. DEFINE K == {j \in S : Cardinality(S \cap 1 .. j) = k}
<1>1. i \in K /\ K \subseteq Nat
  OBVIOUS
<1>2. \A j \in K : i <= j
  <2> SUFFICES ASSUME NEW j \in K, j < i PROVE FALSE
    BY <1>1
  <2>1. i \in Nat /\ j \in Nat
    OBVIOUS
  <2>2. Cardinality(S \cap 1 .. j) < Cardinality(S \cap 1 .. i)
    BY <2>1, CountMonotone
  <2>3. Cardinality(S \cap 1 .. i) \in Nat
    BY <2>1, CountFinite
  <2>. QED BY <2>2, <2>3
<1>3. Min(K) = i
  BY <1>1, <1>2, MinIs
<1>. QED BY <1>3 DEF Nth

\* The first positions of a set are those of the set cut off behind them.
LEMMA NthOfPrefix ==
  ASSUME NEW n \in Nat, NEW S \in SUBSET (1 .. n), NEW d \in Nat,
         NEW k \in 1 .. Cardinality(S \cap 1 .. d)
  PROVE  Nth(S, k) = Nth(S \cap 1 .. d, k) /\ Nth(S, k) \in S \cap 1 .. d
<1>. DEFINE R == S \cap 1 .. d
<1>1. Nth(R, k) \in R /\ Cardinality(R \cap 1 .. Nth(R, k)) = k
  <2>1. R \in SUBSET (1 .. n)
    OBVIOUS
  <2>. HIDE DEF R
  <2>. QED BY <2>1, NthIs DEF R
<1>2. R \cap 1 .. Nth(R, k) = S \cap 1 .. Nth(R, k)
  BY <1>1, SMT
<1>3. Nth(S, k) = Nth(R, k)
  <2>1. \A i \in S : i \in Nat
    OBVIOUS
  <2>2. Nth(R, k) \in S /\ Cardinality(S \cap 1 .. Nth(R, k)) = k
    BY <1>1, <1>2
  <2>. HIDE DEF R
  <2>. QED BY <2>1, <2>2, NthUnique
<1>. QED BY <1>1, <1>3

\* A set of positions that grows by one behind all others.
LEMMA NthOfGrown ==
  ASSUME NEW n \in Nat, NEW S \in SUBSET (1 .. n), NEW e \in Nat, e > n
  PROVE  /\ Cardinality(S) \in Nat
         /\ Cardinality(S \cup {e}) = Cardinality(S) + 1
         /\ \A k \in 1 .. Cardinality(S) : Nth(S \cup {e}, k) = Nth(S, k)
         /\ Nth(S \cup {e}, Cardinality(S) + 1) = e
<1>. DEFINE U == S \cup {e}
<1>1. S \cap 1 .. n = S /\ U \cap 1 .. n = S /\ U \cap 1 .. e = U
  <2>1. \A i \in S : i \in 1 .. n
    OBVIOUS
  <2>2. \A i \in U : (i \in S /\ i \in 1 .. n /\ i \in 1 .. e) \/ (i = e /\ i \notin 1 .. n /\ i \in 1 .. e)
    BY <2>1
  <2>3. S \subseteq U
    OBVIOUS
  <2>. HIDE DEF U
  <2>. QED BY <2>1, <2>2, <2>3
<1>2. IsFiniteSet(S) /\ Cardinality(S) \in Nat
  BY <1>1, CountFinite
<1>3. Cardinality(U) = Cardinality(S) + 1
  <2>1. e \notin S
    OBVIOUS
  <2>. QED BY <2>1, <1>2, FS_AddElement
<1>4. U \in SUBSET (1 .. e)
  BY SMT
<1>5. \A k \in 1 .. Cardinality(S) : Nth(U, k) = Nth(S, k)
  <2>. HIDE DEF U
  <2>1. \A k \in 1 .. Cardinality(U \cap 1 .. n) : Nth(U, k) = Nth(U \cap 1 .. n, k)
    BY <1>4, NthOfPrefix
  <2>. QED BY <1>1, <2>1
<1>6. Nth(U, Cardinality(S) + 1) = e
  <2>1. e \in U
    OBVIOUS
  <2>. HIDE DEF U
  <2>2. \A i \in U : i \in Nat
    BY <1>4
  <2>. QED BY <1>1, <1>3, <2>1, <2>2, NthUnique
<1>. QED BY <1>2, <1>3, <1>5, <1>6

-----------------------------------------------------------------------------
(* The lines of a source among rows.                                       *)

Row == [src : {File, Stdin}, bytes : Seq(Nat)]

\* They are sequences of bytes.
LEMMA FromType ==
  ASSUME NEW src, NEW rows \in Seq(Row)
  PROVE  From(src, rows) \in Seq(Seq(Nat))
<1>. DEFINE mine == {i \in DOMAIN rows : rows[i].src = src}
            L == Cardinality(mine)
<1>1. mine \in SUBSET (1 .. Len(rows)) /\ Len(rows) \in Nat
  OBVIOUS
<1>2. L \in Nat
  <2>1. mine \cap 1 .. Len(rows) = mine
    BY <1>1
  <2>. QED BY <1>1, <2>1, CountFinite
<1>3. \A k \in 1 .. L : rows[Nth(mine, k)].bytes \in Seq(Nat)
  <2>. SUFFICES ASSUME NEW k \in 1 .. L
                PROVE  rows[Nth(mine, k)].bytes \in Seq(Nat)
    OBVIOUS
  <2>1. Nth(mine, k) \in mine
    <3>. HIDE DEF mine
    <3>. QED BY <1>1, NthIs
  <2>2. Nth(mine, k) \in 1 .. Len(rows)
    BY <2>1
  <2>3. rows[Nth(mine, k)] \in Row
    BY <2>2
  <2>. QED BY <2>3 DEF Row
<1>4. From(src, rows) = [k \in 1 .. L |-> rows[Nth(mine, k)].bytes]
  BY DEF From
<1>. HIDE DEF mine, L
<1>5. [k \in 1 .. L |-> rows[Nth(mine, k)].bytes] \in [1 .. L -> Seq(Nat)]
  BY <1>3
<1>. QED BY <1>2, <1>4, <1>5, SeqDef

\* One more row.
LEMMA FromAppend ==
  ASSUME NEW src, NEW rows \in Seq(Row), NEW r \in Row
  PROVE  From(src, Append(rows, r)) =
           IF r.src = src THEN Append(From(src, rows), r.bytes) ELSE From(src, rows)
<1>. DEFINE all  == Append(rows, r)
            n    == Len(rows)
            mine == {i \in DOMAIN rows : rows[i].src = src}
            now  == {i \in DOMAIN all : all[i].src = src}
            L    == Cardinality(mine)
<1>1. /\ n \in Nat /\ DOMAIN rows = 1 .. n /\ DOMAIN all = 1 .. n + 1 /\ all[n + 1] = r
      /\ \A i \in 1 .. n : all[i] = rows[i]
  OBVIOUS
<1>2. mine \in SUBSET (1 .. n)
  BY <1>1
<1>3. From(src, rows) = [k \in 1 .. L |-> rows[Nth(mine, k)].bytes]
  BY DEF From
<1>4. From(src, all) = [k \in 1 .. Cardinality(now) |-> all[Nth(now, k)].bytes]
  BY DEF From
<1>5. L \in Nat /\ \A k \in 1 .. L : Nth(mine, k) \in 1 .. n
  <2>. HIDE DEF mine
  <2>1. mine \cap 1 .. n = mine
    BY <1>2
  <2>2. L \in Nat
    BY <1>1, <2>1, CountFinite
  <2>3. \A k \in 1 .. L : Nth(mine, k) \in mine
    BY <1>1, <1>2, NthIs
  <2>. QED BY <2>2, <2>3, <1>2
<1>6. CASE r.src # src
  <2>1. now = mine
    BY <1>1, <1>6
  <2>2. \A k \in 1 .. L : all[Nth(mine, k)].bytes = rows[Nth(mine, k)].bytes
    BY <1>1, <1>5
  <2>. QED BY <1>3, <1>4, <1>6, <2>1, <2>2
<1>7. CASE r.src = src
  <2>1. now = mine \cup {n + 1}
    <3>1. \A i \in 1 .. n : i \in now <=> i \in mine
      BY <1>1
    <3>2. n + 1 \in now
      BY <1>1, <1>7
    <3>3. \A i \in now : i \in 1 .. n \/ i = n + 1
      BY <1>1
    <3>4. now \subseteq mine \cup {n + 1}
      BY <3>1, <3>3
    <3>5. mine \subseteq now
      BY <3>1, <1>2
    <3>. QED BY <3>2, <3>4, <3>5
  <2>2. /\ Cardinality(now) = L + 1
        /\ \A k \in 1 .. L : Nth(now, k) = Nth(mine, k)
        /\ Nth(now, L + 1) = n + 1
    <3>1. n + 1 \in Nat /\ n + 1 > n
      BY <1>1
    <3>. HIDE DEF mine, now, n
    <3>2. /\ Cardinality(mine \cup {n + 1}) = Cardinality(mine) + 1
          /\ \A k \in 1 .. Cardinality(mine) : Nth(mine \cup {n + 1}, k) = Nth(mine, k)
          /\ Nth(mine \cup {n + 1}, Cardinality(mine) + 1) = n + 1
      <4>1. mine \in SUBSET (1 .. n) /\ n \in Nat
        BY <1>1, <1>2
      <4>. QED BY <3>1, <4>1, NthOfGrown
    <3>. QED BY <2>1, <3>2
  <2>3. \A k \in 1 .. L : all[Nth(now, k)].bytes = rows[Nth(mine, k)].bytes
    BY <1>1, <1>5, <2>2
  <2>4. all[Nth(now, L + 1)].bytes = r.bytes
    BY <1>1, <2>2
  <2>5. From(src, rows) \in Seq(Seq(Nat)) /\ r.bytes \in Seq(Nat)
    BY FromType DEF Row
  <2>6. Len(From(src, rows)) = L
    BY <1>3, <1>5
  <2>. DEFINE f == From(src, all)
              g == Append(From(src, rows), r.bytes)
  <2>7. f \in Seq(Seq(Nat)) /\ Len(f) = L + 1
    <3>1. all \in Seq(Row)
      OBVIOUS
    <3>2. f = [k \in 1 .. L + 1 |-> all[Nth(now, k)].bytes]
      BY <1>4, <2>2
    <3>3. f \in Seq(Seq(Nat))
      BY <3>1, FromType
    <3>. HIDE DEF f, now, L
    <3>4. DOMAIN f = 1 .. L + 1
      BY <3>2
    <3>. QED BY <3>3, <3>4, <1>5, LenProperties
  <2>8. g \in Seq(Seq(Nat)) /\ Len(g) = L + 1
    BY <2>5, <2>6, <1>5
  <2>9. \A k \in 1 .. L + 1 : f[k] = g[k]
    <3>. SUFFICES ASSUME NEW k \in 1 .. L + 1 PROVE f[k] = g[k]
      OBVIOUS
    <3>0. f[k] = all[Nth(now, k)].bytes
      BY <1>4, <2>2
    <3>1. CASE k \in 1 .. L
      <4>1. g[k] = From(src, rows)[k]
        BY <2>5, <2>6, <3>1
      <4>2. From(src, rows)[k] = rows[Nth(mine, k)].bytes
        BY <1>3, <3>1
      <4>. QED BY <3>0, <4>1, <4>2, <2>3, <3>1
    <3>2. CASE k = L + 1
      <4>1. g[k] = r.bytes
        BY <2>5, <2>6, <3>2
      <4>. QED BY <3>0, <4>1, <2>4, <3>2
    <3>3. k \in 1 .. L \/ k = L + 1
      <4>. HIDE DEF L
      <4>. QED BY <1>5
    <3>. QED BY <3>1, <3>2, <3>3
  <2>10. f = g
    <3>. HIDE DEF f, g, L
    <3>. QED BY <2>7, <2>8, <2>9, SeqEqual
  <2>. QED BY <2>10, <1>7
<1>. QED BY <1>6, <1>7

-----------------------------------------------------------------------------
(* The lines that bytes hold.                                              *)

\* A line begins no later than it ends.
LEMMA LineBeginType ==
  ASSUME NEW bytes, NEW e \in Nat \ {0}
  PROVE  LineBegin(bytes, e) \in 1 .. e
<1>. DEFINE T == {b \in 1 .. e : \A i \in b .. e - 1 : bytes[i] # F!Newline}
<1>1. e \in T
  OBVIOUS
<1>2. T \subseteq Nat /\ T # {}
  BY <1>1
<1>3. Min(T) \in T
  BY <1>2, MinIsLeast
<1>. QED BY <1>3 DEF LineBegin

\* The line up to e starts at b if a line ends before b and none between.
LEMMA LineIs ==
  ASSUME NEW bytes, NEW e \in Nat \ {0}, NEW b \in 1 .. e,
         b = 1 \/ bytes[b - 1] = F!Newline,
         \A i \in b .. e - 1 : bytes[i] # F!Newline
  PROVE  Line(bytes, e) = SubSeq(bytes, b, e - 1)
<1>. DEFINE T == {c \in 1 .. e : \A i \in c .. e - 1 : bytes[i] # F!Newline}
<1>1. b \in T /\ T \subseteq Nat
  OBVIOUS
<1>2. \A c \in T : b <= c
  <2>. SUFFICES ASSUME NEW c \in T, c < b PROVE FALSE
    BY <1>1
  <2>1. b - 1 \in c .. e - 1 /\ b # 1
    OBVIOUS
  <2>. QED BY <2>1
<1>3. Min(T) = b
  <2>. HIDE DEF T
  <2>. QED BY <1>1, <1>2, MinIs
<1>. QED BY <1>3 DEF Line, LineBegin

\* A line is a sequence of bytes.
LEMMA LineType ==
  ASSUME NEW bytes \in Seq(Nat), NEW e \in 1 .. Len(bytes)
  PROVE  Line(bytes, e) \in Seq(Nat)
<1>1. LineBegin(bytes, e) \in 1 .. e
  BY LineBeginType
<1>2. \A i \in LineBegin(bytes, e) .. e - 1 : bytes[i] \in Nat
  BY <1>1
<1>3. LineBegin(bytes, e) \in Int /\ e - 1 \in Int
  BY <1>1
<1>. QED BY <1>2, <1>3, SubSeqProperties DEF Line

\* More bytes do not change a line that is there.
LEMMA LineOfLonger ==
  ASSUME NEW bytes \in Seq(Nat), NEW more \in Seq(Nat), NEW e \in 1 .. Len(bytes)
  PROVE  Line(bytes \o more, e) = Line(bytes, e)
<1>. DEFINE all == bytes \o more
            b   == LineBegin(bytes, e)
<1>1. \A i \in 1 .. e : all[i] = bytes[i]
  OBVIOUS
<1>2. b \in 1 .. e
  BY LineBeginType
<1>3. LineBegin(all, e) = b
  <2>1. {c \in 1 .. e : \A i \in c .. e - 1 : all[i] # F!Newline}
          = {c \in 1 .. e : \A i \in c .. e - 1 : bytes[i] # F!Newline}
    <3>1. \A c \in 1 .. e : \A i \in c .. e - 1 : all[i] = bytes[i]
      BY <1>1
    <3>. HIDE DEF all
    <3>. QED BY <3>1
  <2>. QED BY <2>1 DEF LineBegin
<1>4. SubSeq(all, b, e - 1) = SubSeq(bytes, b, e - 1)
  <2>1. CASE b <= e - 1
    <3>1. b \in 1 .. Len(bytes) /\ e - 1 \in 1 .. Len(bytes)
      BY <1>2, <2>1
    <3>. QED BY <3>1, SubSeqOfConcat1
  <2>2. CASE e - 1 < b
    <3>1. b \in Int /\ e - 1 \in Int
      BY <1>2
    <3>. QED BY <2>2, <3>1, SubSeqEmpty
  <2>3. b <= e - 1 \/ e - 1 < b
    <3>. HIDE DEF b
    <3>. QED BY <1>2
  <2>. QED BY <2>1, <2>2, <2>3
<1>. QED BY <1>3, <1>4 DEF Line

\* Lines, one for each place where one ends.
LEMMA LinesType ==
  ASSUME NEW bytes \in Seq(Nat), NEW S \in SUBSET (1 .. Len(bytes))
  PROVE  /\ Lines(bytes, S) \in Seq(Seq(Nat))
         /\ Len(Lines(bytes, S)) = Cardinality(S)
         /\ Cardinality(S) \in Nat
         /\ \A k \in 1 .. Cardinality(S) : /\ Nth(S, k) \in S
                                           /\ Lines(bytes, S)[k] = Line(bytes, Nth(S, k))
<1>. DEFINE L == Cardinality(S)
<1>1. Len(bytes) \in Nat /\ S \cap 1 .. Len(bytes) = S
  <2>1. Len(bytes) \in Nat
    OBVIOUS
  <2>2. S \cap 1 .. Len(bytes) = S
    BY Zenon
  <2>. QED BY <2>1, <2>2
<1>2. L \in Nat
  BY <1>1, CountFinite
<1>3. \A k \in 1 .. L : Nth(S, k) \in S
  BY <1>1, NthIs
<1>4. Lines(bytes, S) = [k \in 1 .. L |-> Line(bytes, Nth(S, k))]
  BY DEF Lines
<1>5. \A k \in 1 .. L : Line(bytes, Nth(S, k)) \in Seq(Nat)
  <2>. SUFFICES ASSUME NEW k \in 1 .. L PROVE Line(bytes, Nth(S, k)) \in Seq(Nat)
    OBVIOUS
  <2>1. Nth(S, k) \in 1 .. Len(bytes)
    BY <1>3
  <2>. QED BY <2>1, LineType
<1>. HIDE DEF L
<1>6. Lines(bytes, S) \in [1 .. L -> Seq(Nat)]
  BY <1>4, <1>5
<1>7. Lines(bytes, S) \in Seq(Seq(Nat))
  BY <1>2, <1>6, SeqDef
<1>8. Len(Lines(bytes, S)) = L
  <2>1. DOMAIN Lines(bytes, S) = 1 .. L
    BY <1>4
  <2>. QED BY <1>2, <1>7, <2>1, LenProperties
<1>. QED BY <1>2, <1>3, <1>4, <1>7, <1>8 DEF L

\* More bytes do not change the lines that are there.
LEMMA LinesOfLonger ==
  ASSUME NEW bytes \in Seq(Nat), NEW more \in Seq(Nat), NEW S \in SUBSET (1 .. Len(bytes))
  PROVE  Lines(bytes \o more, S) = Lines(bytes, S)
<1>1. \A k \in 1 .. Cardinality(S) : Nth(S, k) \in S
  BY LinesType
<1>2. \A k \in 1 .. Cardinality(S) : Line(bytes \o more, Nth(S, k)) = Line(bytes, Nth(S, k))
  <2>. SUFFICES ASSUME NEW k \in 1 .. Cardinality(S)
                PROVE  Line(bytes \o more, Nth(S, k)) = Line(bytes, Nth(S, k))
    OBVIOUS
  <2>1. Nth(S, k) \in 1 .. Len(bytes)
    BY <1>1
  <2>. QED BY <2>1, LineOfLonger
<1>. QED BY <1>2 DEF Lines

\* One more line.
LEMMA LinesGrow ==
  ASSUME NEW bytes \in Seq(Nat), NEW n \in Nat, NEW e \in 1 .. Len(bytes), e > n,
         NEW S \in SUBSET (1 .. n)
  PROVE  Lines(bytes, S \cup {e}) = Append(Lines(bytes, S), Line(bytes, e))
<1>. DEFINE U == S \cup {e}
            L == Cardinality(S)
            f == Lines(bytes, U)
            g == Append(Lines(bytes, S), Line(bytes, e))
<1>1. /\ L \in Nat /\ Cardinality(U) = L + 1
      /\ \A k \in 1 .. L : Nth(U, k) = Nth(S, k)
      /\ Nth(U, L + 1) = e
  <2>1. e \in Nat
    OBVIOUS
  <2>. QED BY <2>1, NthOfGrown
<1>2. S \in SUBSET (1 .. Len(bytes)) /\ U \in SUBSET (1 .. Len(bytes))
  <2>1. n \in 0 .. Len(bytes)
    OBVIOUS
  <2>. QED BY <2>1
<1>3. /\ Lines(bytes, S) \in Seq(Seq(Nat)) /\ Len(Lines(bytes, S)) = L
      /\ \A k \in 1 .. L : Lines(bytes, S)[k] = Line(bytes, Nth(S, k))
  BY <1>2, LinesType
<1>4. /\ f \in Seq(Seq(Nat)) /\ Len(f) = L + 1
      /\ \A k \in 1 .. L + 1 : f[k] = Line(bytes, Nth(U, k))
  <2>. HIDE DEF U
  <2>. QED BY <1>1, <1>2, LinesType
<1>5. Line(bytes, e) \in Seq(Nat)
  BY LineType
<1>. HIDE DEF U, L, f
<1>6. /\ g \in Seq(Seq(Nat)) /\ Len(g) = L + 1 /\ g[L + 1] = Line(bytes, e)
      /\ \A k \in 1 .. L : g[k] = Lines(bytes, S)[k]
  BY <1>3, <1>5, AppendProperties
<1>. HIDE DEF g
<1>7. \A k \in 1 .. L + 1 : f[k] = g[k]
  <2>1. \A k \in 1 .. L + 1 : k \in 1 .. L \/ k = L + 1
    BY <1>1
  <2>. QED BY <2>1, <1>1, <1>3, <1>4, <1>6
<1>8. f = g
  BY <1>4, <1>6, <1>7, SeqEqual
<1>. QED BY <1>8 DEF f, g, U

\* The lines that end early are the first lines.
LEMMA LinesPrefix ==
  ASSUME NEW bytes \in Seq(Nat), NEW U \in SUBSET (1 .. Len(bytes)), NEW d \in Nat
  PROVE  IsPrefix(Lines(bytes, U \cap 1 .. d), Lines(bytes, U))
<1>. DEFINE S == U \cap 1 .. d
            f == Lines(bytes, S)
            g == Lines(bytes, U)
            L == Len(f)
<1>1. S \in SUBSET (1 .. Len(bytes)) /\ S \in SUBSET U
  OBVIOUS
<1>2. /\ f \in Seq(Seq(Nat)) /\ L = Cardinality(S) /\ L \in Nat
      /\ \A k \in 1 .. L : f[k] = Line(bytes, Nth(S, k))
  <2>. HIDE DEF S
  <2>. QED BY <1>1, LinesType
<1>3. /\ g \in Seq(Seq(Nat)) /\ Len(g) = Cardinality(U) /\ Len(g) \in Nat
      /\ \A k \in 1 .. Len(g) : g[k] = Line(bytes, Nth(U, k))
  BY LinesType
<1>4. Cardinality(S) <= Cardinality(U)
  <2>1. Len(bytes) \in Nat
    OBVIOUS
  <2>2. IsFiniteSet(U)
    <3>1. U \cap 1 .. Len(bytes) = U
      BY Zenon
    <3>. QED BY <2>1, <3>1, CountFinite
  <2>. HIDE DEF S
  <2>. QED BY <1>1, <2>2, FS_Subset
<1>5. \A k \in 1 .. Cardinality(S) : Nth(U, k) = Nth(S, k)
  <2>1. Len(bytes) \in Nat
    OBVIOUS
  <2>. QED BY <2>1, NthOfPrefix
<1>. HIDE DEF S, f, g
<1>6. L <= Len(g)
  BY <1>2, <1>3, <1>4
<1>7. \A k \in 1 .. L : f[k] = g[k]
  BY <1>2, <1>3, <1>5, <1>6
<1>. HIDE DEF L
<1>8. SubSeq(f, 1, L) = SubSeq(g, 1, L)
  <2>1. \A k \in 1 .. L : f[k] \in Seq(Nat) /\ g[k] \in Seq(Nat)
    BY <1>2, <1>3, <1>6, ElementOfSeq DEF L
  <2>2. /\ SubSeq(f, 1, L) \in Seq(Seq(Nat)) /\ Len(SubSeq(f, 1, L)) = L
        /\ \A i \in 1 .. L : SubSeq(f, 1, L)[i] = f[i]
    BY <1>2, <2>1
  <2>3. /\ SubSeq(g, 1, L) \in Seq(Seq(Nat)) /\ Len(SubSeq(g, 1, L)) = L
        /\ \A i \in 1 .. L : SubSeq(g, 1, L)[i] = g[i]
    BY <1>2, <1>3, <1>6, <2>1
  <2>. QED BY <2>2, <2>3, <1>7, SeqEqual
<1>. QED BY <1>6, <1>8 DEF IsPrefix, L, f, g, S

-----------------------------------------------------------------------------
(* The invariants.                                                         *)

TypeInv ==
  /\ TypeOK
  /\ stored \in Seq(Row) /\ ingest \in Seq(Row)
  /\ rd.file = 0 => rd.pc \in {"open", "done"}

\* What was read and what is on its way to the channel.
Handed   == IF rd.pc = "send" THEN Append(Read(File), rd.line) ELSE Read(File)
Gathered == IF run.pc = "send" THEN Append(Read(Stdin), run.line) ELSE Read(Stdin)

\* Before the file is open, while the reader waits, and until the file is moved.
Opened ==
  /\ rd.pc = "open" => rd.file = 0 /\ rd.off = 0 /\ rd.buf = <<>> /\ rd.pos = 0
  /\ Len(disk) >= 1 /\ (path = 1 => Len(disk) = 1)
  /\ cuts = 0 => path = 1
  /\ rd.pc = "poll" => rd.buf = <<>>

\* With a program that writes whole lines the end of a file is the end of a line,
\* and so pos counts exactly the bytes handed on.
WholeLines == \A shape \in Shapes : shape # <<>> => shape[Len(shape)]
Whole(bytes) == bytes # <<>> => bytes[Len(bytes)] = F!Newline
Counted ==
  /\ \A f \in DOMAIN disk : Whole(disk[f])
  /\ Whole(rd.buf) /\ ~rd.eof
  /\ rd.pc # "done" =>
       rd.off = rd.pos + Len(rd.buf) + (IF rd.pc = "send" THEN Len(rd.line) + 1 ELSE 0)

\* What is still to come from a file that was never moved: all of it when it is
\* shorter than the offset, for then it was cut and what it has is new.
Ahead == IF Len(disk[1]) < rd.off THEN disk[1] ELSE SubSeq(disk[1], rd.off + 1, Len(disk[1]))

\* Lines and the bytes to come, in order, and none above w.
Rising(s) ==
  \A i, j \in DOMAIN s :
    (i < j /\ s[i] # F!Newline /\ s[j] # F!Newline) => s[i] < s[j]
Ordered(lines, s, w) ==
  /\ InOrder(lines) /\ Rising(s)
  /\ \A k \in DOMAIN lines : \A i \in DOMAIN lines[k] :
       /\ lines[k][i] <= w
       /\ \A j \in DOMAIN s : s[j] # F!Newline => lines[k][i] < s[j]
  /\ \A j \in DOMAIN s : s[j] <= w
OnceInv ==
  path = 1 =>
    /\ InOrder(Read(File))
    /\ rd.pc # "done" => Ordered(Handed, rd.buf \o Ahead, written)

\* Of the first o bytes of s those but the last, which are in the buffer b, were
\* handed on, as the lines that end at one of ends.
At(s, o, b, ends, lines) ==
  LET c == o - Len(b) IN
    /\ o <= Len(s) /\ c >= 0 /\ b = SubSeq(s, c + 1, o)
    /\ c = 0 \/ s[c] = F!Newline
    /\ lines = Lines(s, ends \cap 1 .. c)

\* A file that was never cut.
FollowInv ==
  cuts = 0 =>
    /\ FollowsFile
    /\ rd.pc # "done" => At(disk[1], rd.off, rd.buf, Newlines(disk[1]), Handed)
FileInv == Opened /\ Counted /\ OnceInv /\ FollowInv

\* The same for the pipe.
Ends(bytes) == {i \in Newlines(bytes) : i > 1 /\ bytes[i - 1] # F!Newline}
PipeInv ==
  /\ JoinsParts
  /\ shut => eofSent \/ removal # "no"
  /\ run.pc # "done" => At(pushed, Len(pushed), buf, Ends(pushed), Gathered)
  /\ (run.pc = "done" /\ removal = "no" /\ ~down) =>
       shut /\ buf = <<>> /\ Read(Stdin) = NotEmptyLinesOf(pushed)

-----------------------------------------------------------------------------
(* The operators of the two sources.                                       *)

\* Where the first line of bytes ends.
LEMMA LineEndIs ==
  ASSUME NEW bytes \in Seq(Nat), F!HasLine(bytes)
  PROVE  /\ F!LineEnd(bytes) \in 1 .. Len(bytes)
         /\ bytes[F!LineEnd(bytes)] = F!Newline
         /\ \A i \in 1 .. F!LineEnd(bytes) - 1 : bytes[i] # F!Newline
<1>. DEFINE I == {i \in 1 .. Len(bytes) : bytes[i] = F!Newline}
<1>1. I # {} /\ I \subseteq Nat
  BY DEF F!HasLine
<1>2. F!LineEnd(bytes) = Min(I)
  BY <1>1 DEF F!LineEnd, F!SelectInSeq, F!Min, Min
<1>3. Min(I) \in I /\ \A y \in I : Min(I) <= y
  <2>. HIDE DEF I
  <2>. QED BY <1>1, MinIsLeast
<1>4. \A i \in 1 .. Min(I) - 1 : i \in I => FALSE
  BY <1>3
<1>5. \A i \in 1 .. Min(I) - 1 : i \in 1 .. Len(bytes)
  BY <1>3
<1>. QED BY <1>2, <1>3, <1>4, <1>5

\* The pipe and the file know the same newline.
LEMMA SameNewline ==
  ASSUME NEW bytes
  PROVE  /\ P!Newline = F!Newline /\ F!Newline = 0
         /\ P!HasLine(bytes) <=> F!HasLine(bytes)
         /\ P!LineEnd(bytes) = F!LineEnd(bytes)
BY DEF P!Newline, F!Newline, P!HasLine, F!HasLine, P!LineEnd, F!LineEnd,
       P!SelectInSeq, F!SelectInSeq, P!Min, F!Min

\* The newlines that Cut skips.
LEMMA SkipIs ==
  ASSUME NEW bytes \in Seq(Nat)
  PROVE  /\ P!Skip(bytes) \in 0 .. Len(bytes)
         /\ \A i \in 1 .. P!Skip(bytes) : bytes[i] = F!Newline
         /\ P!Skip(bytes) < Len(bytes) => bytes[P!Skip(bytes) + 1] # F!Newline
<1>. DEFINE all == bytes \o <<1>>
            I == {i \in 1 .. Len(all) : all[i] # P!Newline}
            m == Min(I)
<1>1. /\ Len(all) = Len(bytes) + 1 /\ all[Len(bytes) + 1] = 1 /\ Len(bytes) \in Nat
      /\ \A i \in 1 .. Len(bytes) : all[i] = bytes[i]
  OBVIOUS
<1>2. P!Newline = 0 /\ F!Newline = 0
  BY SameNewline
<1>. HIDE DEF all
<1>3. Len(all) \in I /\ I \subseteq Nat
  BY <1>1, <1>2
<1>4. P!Skip(bytes) = m - 1
  BY <1>3 DEF P!Skip, P!SelectInSeq, P!Min, Min, all
<1>5. m \in I /\ \A y \in I : m <= y
  <2>. HIDE DEF I
  <2>. QED BY <1>3, MinIsLeast
<1>6. m \in 1 .. Len(bytes) + 1 /\ all[m] # 0
  BY <1>1, <1>2, <1>5
<1>7. \A i \in 1 .. m - 1 : i \in 1 .. Len(bytes) /\ all[i] = 0
  <2>. SUFFICES ASSUME NEW i \in 1 .. m - 1 PROVE i \in 1 .. Len(bytes) /\ all[i] = 0
    OBVIOUS
  <2>1. i \in 1 .. Len(bytes) /\ i < m
    <3>. HIDE DEF m
    <3>. QED BY <1>1, <1>6
  <2>2. i \notin I
    <3>. HIDE DEF I
    <3>1. i \in I => m <= i
      BY <1>5
    <3>. HIDE DEF m
    <3>. QED BY <2>1, <3>1, <1>6
  <2>3. all[i] = 0
    BY <1>1, <1>2, <2>1, <2>2
  <2>. QED BY <2>1, <2>3
<1>. HIDE DEF m, I
<1>. QED BY <1>1, <1>2, <1>4, <1>6, <1>7

\* A function from 1 .. n is a sequence.
LEMMA FunctionIsSeq ==
  ASSUME NEW S, NEW n \in Nat, NEW f \in [1 .. n -> S]
  PROVE  f \in Seq(S)
BY SeqDef

\* The file counts as this module does.
LEMMA SameCardinality == \A S : F!Cardinality(S) = Cardinality(S)
BY DEF F!Cardinality, Cardinality

\* What a write appends: as many bytes as the shape has, the text numbered on.
LEMMA BytesAre ==
  ASSUME NEW shape \in Seq(BOOLEAN), NEW n \in Nat
  PROVE  /\ F!Text(shape) \in Nat
         /\ F!Bytes(shape, n) \in Seq(0 .. n + F!Text(shape))
         /\ Len(F!Bytes(shape, n)) = Len(shape)
         /\ \A i \in 1 .. Len(shape) :
              /\ F!Bytes(shape, n)[i] = F!Newline <=> shape[i]
              /\ ~shape[i] => F!Bytes(shape, n)[i] > n
         /\ Rising(F!Bytes(shape, n))
<1>. DEFINE S == {j \in 1 .. Len(shape) : ~shape[j]}
            b == F!Bytes(shape, n)
            C(i) == Cardinality(S \cap 1 .. i)
            w == n + F!Text(shape)
<1>0. Len(shape) \in Nat /\ DOMAIN shape = 1 .. Len(shape)
  OBVIOUS
<1>1. \A i \in Nat : C(i) \in Nat
  BY CountFinite
<1>2. F!Text(shape) = C(Len(shape))
  <2>1. S \cap 1 .. Len(shape) = S
    OBVIOUS
  <2>. QED BY <2>1, <1>0, SameCardinality DEF F!Text
<1>3. \A i \in 1 .. Len(shape) : F!Text(SubSeq(shape, 1, i)) = C(i)
  <2>. SUFFICES ASSUME NEW i \in 1 .. Len(shape) PROVE F!Text(SubSeq(shape, 1, i)) = C(i)
    OBVIOUS
  <2>. DEFINE p == SubSeq(shape, 1, i)
  <2>1. DOMAIN p = 1 .. i /\ \A j \in 1 .. i : p[j] = shape[j]
    OBVIOUS
  <2>2. {j \in DOMAIN p : ~p[j]} = S \cap 1 .. i
    <3>. HIDE DEF p
    <3>1. \A j \in 1 .. i : j \in 1 .. Len(shape)
      OBVIOUS
    <3>. QED BY <2>1, <3>1
  <2>. QED BY <2>2, SameCardinality DEF F!Text
<1>4. b = [i \in 1 .. Len(shape) |-> IF shape[i] THEN 0 ELSE n + C(i)]
  BY <1>0, <1>3 DEF F!Bytes, F!Newline
<1>5. \A i, j \in 1 .. Len(shape) : (i < j /\ ~shape[j]) => C(i) < C(j)
  <2>. SUFFICES ASSUME NEW i \in 1 .. Len(shape), NEW j \in 1 .. Len(shape), i < j, ~shape[j]
                PROVE  C(i) < C(j)
    OBVIOUS
  <2>1. i \in Nat /\ j \in Nat /\ i <= j /\ j \in S
    OBVIOUS
  <2>. HIDE DEF S
  <2>2. Cardinality(S \cap 1 .. i) < Cardinality(S \cap 1 .. j)
    BY <2>1, CountMonotone, Zenon
  <2>. QED BY <2>2
<1>6. \A i \in 1 .. Len(shape) : C(i) <= C(Len(shape)) /\ (~shape[i] => C(i) > 0)
  <2>. SUFFICES ASSUME NEW i \in 1 .. Len(shape)
                PROVE  C(i) <= C(Len(shape)) /\ (~shape[i] => C(i) > 0)
    OBVIOUS
  <2>1. i \in Nat /\ Len(shape) \in Nat /\ i <= Len(shape) /\ 0 \in Nat /\ 0 < i /\ 0 <= i
    OBVIOUS
  <2>2. ~shape[i] => i \in S
    OBVIOUS
  <2>. HIDE DEF S
  <2>3. C(i) <= C(Len(shape))
    BY <2>1, CountMonotone, Zenon
  <2>4. ~shape[i] => C(0) < C(i)
    <3>1. i \in S => Cardinality(S \cap 1 .. 0) < Cardinality(S \cap 1 .. i)
      BY <2>1, CountMonotone, Zenon
    <3>. QED BY <2>2, <3>1
  <2>5. C(0) \in Nat /\ C(i) \in Nat
    BY <2>1, <1>1
  <2>. HIDE DEF C
  <2>. QED BY <2>3, <2>4, <2>5
<1>. HIDE DEF C, S
<1>7. w \in Nat
  BY <1>0, <1>1, <1>2
<1>8. \A i \in 1 .. Len(shape) : (IF shape[i] THEN 0 ELSE n + C(i)) \in 0 .. w
  <2>. SUFFICES ASSUME NEW i \in 1 .. Len(shape)
                PROVE  (IF shape[i] THEN 0 ELSE n + C(i)) \in 0 .. w
    OBVIOUS
  <2>1. C(i) \in Nat /\ C(i) <= F!Text(shape) /\ F!Text(shape) \in Nat
    BY <1>0, <1>1, <1>2, <1>6
  <2>. QED BY <2>1
<1>. HIDE DEF w
<1>9. b \in [1 .. Len(shape) -> 0 .. w]
  BY <1>4, <1>8
<1>10. b \in Seq(0 .. w)
  <2>. HIDE DEF b
  <2>. QED BY <1>0, <1>9, FunctionIsSeq
<1>11. Len(b) = Len(shape)
  <2>. HIDE DEF b
  <2>1. DOMAIN b = 1 .. Len(shape)
    BY <1>9
  <2>. QED BY <1>0, <1>10, <2>1, LenProperties
<1>12. \A i \in 1 .. Len(shape) : b[i] = IF shape[i] THEN 0 ELSE n + C(i)
  BY <1>4
<1>. HIDE DEF b
<1>13. \A i \in 1 .. Len(shape) : C(i) \in Nat
  BY <1>1
<1>14. Rising(b)
  <2>1. DOMAIN b = 1 .. Len(shape)
    BY <1>9
  <2>. QED BY <2>1, <1>5, <1>12, <1>13 DEF Rising, F!Newline
<1>15. \A i \in 1 .. Len(shape) : (b[i] = F!Newline <=> shape[i]) /\ (~shape[i] => b[i] > n)
  <2>. SUFFICES ASSUME NEW i \in 1 .. Len(shape)
                PROVE  (b[i] = F!Newline <=> shape[i]) /\ (~shape[i] => b[i] > n)
    OBVIOUS
  <2>1. C(i) \in Nat /\ (~shape[i] => C(i) > 0) /\ b[i] = IF shape[i] THEN 0 ELSE n + C(i)
    BY <1>6, <1>12, <1>13
  <2>2. CASE shape[i]
    BY <2>1, <2>2 DEF F!Newline
  <2>3. CASE ~shape[i]
    BY <2>1, <2>3 DEF F!Newline
  <2>. QED BY <2>2, <2>3
<1>16. F!Text(shape) \in Nat
  BY <1>0, <1>1, <1>2
<1>. QED BY <1>10, <1>11, <1>14, <1>15, <1>16 DEF b, w

\* What a push brings.
LEMMA ArriveIs ==
  ASSUME NEW chunk \in Seq(BOOLEAN), Len(pushed) \in Nat
  PROVE  P!Arrive(chunk) \in Seq(0 .. Len(pushed) + Len(chunk))
<1>. DEFINE n == Len(chunk)
            w == Len(pushed) + n
            a == P!Arrive(chunk)
<1>1. n \in Nat /\ DOMAIN chunk = 1 .. n
  OBVIOUS
<1>2. a = [i \in 1 .. n |-> IF chunk[i] THEN 0 ELSE Len(pushed) + i]
  BY <1>1 DEF P!Arrive, P!Newline
<1>3. \A i \in 1 .. n : (IF chunk[i] THEN 0 ELSE Len(pushed) + i) \in 0 .. w
  <2>. HIDE DEF n
  <2>. QED BY <1>1
<1>. HIDE DEF w
<1>4. a \in [1 .. n -> 0 .. w]
  BY <1>2, <1>3
<1>5. a \in Seq(0 .. w)
  <2>1. n \in Nat
    BY <1>1
  <2>. HIDE DEF a, n
  <2>. QED BY <2>1, <1>4, FunctionIsSeq
<1>. QED BY <1>5 DEF w

-----------------------------------------------------------------------------
(* The state is well formed.                                               *)

\* In the beginning.
LEMMA TypeInit == Init => TypeInv
<1>. SUFFICES ASSUME Init PROVE TypeInv
  OBVIOUS
<1>. USE IngestAssumption
<1>1. disk \in Seq(Seq(0 .. MaxBytes)) /\ path \in 0 .. Len(disk)
  <2>1. disk = << <<>> >> /\ path = 1
    BY DEF Init, F!Init
  <2>2. <<>> \in Seq(0 .. MaxBytes)
    OBVIOUS
  <2>. QED BY <2>1, <2>2
<1>2. F!TypeOK
  <2>1. rd \in F!Reader /\ rd.file = 0
    BY DEF Init, F!Init, F!Reader
  <2>2. written \in 0 .. MaxBytes /\ cuts \in 0 .. MaxCuts
    BY DEF Init, F!Init
  <2>3. closed \in BOOLEAN /\ gone \in BOOLEAN /\ down \in BOOLEAN
    BY DEF Init, F!Init
  <2>4. Len(ingest) <= ChanCap
    BY DEF Init
  <2>5. rd.file \in 0 .. Len(disk)
    BY <1>1, <2>1
  <2>. QED BY <1>1, <2>1, <2>2, <2>3, <2>4, <2>5 DEF F!TypeOK
<1>3. P!TypeOK
  <2>1. <<>> \in Seq(0 .. MaxPushed) /\ <<>> \in Seq(1 .. MaxPushed)
    OBVIOUS
  <2>2. run \in [pc : {"cut", "send", "idle", "wait", "done"}, line : Seq(1 .. MaxPushed)]
    BY <2>1 DEF Init, P!Init
  <2>. QED BY <2>1, <2>2 DEF Init, P!Init, P!TypeOK
<1>4. stored \in Seq(Row) /\ ingest \in Seq(Row) /\ DOMAIN ingest = {}
  BY DEF Init
<1>5. rd.pc = "open" /\ down \in BOOLEAN /\ ingesting \in BOOLEAN
  BY DEF Init, F!Init
<1>. QED BY <1>2, <1>3, <1>4, <1>5 DEF TypeInv, TypeOK

\* A step of the reader of the file.
LEMMA ReadType ==
  ASSUME TypeInv, F!Read
  PROVE  /\ rd' \in F!Reader /\ rd'.file \in 0 .. Len(disk)
         /\ rd'.file = 0 => rd'.pc \in {"open", "done"}
         /\ ingest' \in Seq(Row) /\ Len(ingest') <= ChanCap
         /\ UNCHANGED <<disk, path, written, cuts, closed, gone, down>>
<1>. USE IngestAssumption
<1>1. /\ rd \in F!Reader /\ rd.file \in 0 .. Len(disk) /\ rd.buf \in Seq(Nat) /\ rd.line \in Seq(Nat)
      /\ disk \in Seq(Seq(0 .. MaxBytes)) /\ path \in 0 .. Len(disk) /\ Len(disk) \in Nat
      /\ ingest \in Seq(Row) /\ Len(ingest) <= ChanCap
      /\ rd.file = 0 => rd.pc \in {"open", "done"}
  BY DEF TypeInv, TypeOK, F!TypeOK, F!Reader
<1>2. CASE F!Open
  <2>1. CASE path = 0
    BY <1>1, <1>2, <2>1 DEF F!Open, F!Reader
  <2>2. CASE path # 0
    <3>1. path \in Nat
      BY <1>1
    <3>. QED BY <1>1, <1>2, <2>2, <3>1 DEF F!Open, F!Reader
  <2>. QED BY <2>1, <2>2
<1>3. CASE F!Top
  BY <1>1, <1>3 DEF F!Top, F!Reader
<1>4. CASE F!Fill
  <2>1. rd.file \in 1 .. Len(disk) /\ rd.off \in Nat
    BY <1>1, <1>4 DEF F!Fill, F!Reader
  <2>2. disk[rd.file] \in Seq(Nat) /\ F!Size(rd.file) \in Nat
    <3>1. disk[rd.file] \in Seq(0 .. MaxBytes)
      BY <1>1, <2>1
    <3>. QED BY <3>1, SeqMonotonic DEF F!Size
  <2>. DEFINE more == SubSeq(disk[rd.file], rd.off + 1, F!Size(rd.file))
  <2>3. more \in Seq(Nat)
    <3>1. \A i \in rd.off + 1 .. F!Size(rd.file) : disk[rd.file][i] \in Nat
      <4>. DEFINE s == disk[rd.file]
      <4>1. s \in Seq(Nat) /\ F!Size(rd.file) = Len(s) /\ rd.off \in Nat
        BY <2>1, <2>2 DEF F!Size
      <4>. HIDE DEF s
      <4>2. \A i \in rd.off + 1 .. Len(s) : s[i] \in Nat
        BY <4>1
      <4>. QED BY <4>1, <4>2 DEF s
    <3>2. rd.off + 1 \in Int /\ F!Size(rd.file) \in Int
      BY <2>1, <2>2
    <3>. QED BY <3>1, <3>2, SubSeqProperties
  <2>4. rd' = [rd EXCEPT !.buf = rd.buf \o more, !.off = F!Size(rd.file)]
    BY <1>4 DEF F!Fill
  <2>. HIDE DEF more
  <2>5. rd.buf \o more \in Seq(Nat)
    BY <1>1, <2>3
  <2>6. rd' \in F!Reader /\ rd'.file = rd.file /\ rd'.pc = rd.pc
    <3>. DEFINE b == rd.buf \o more
    <3>. HIDE DEF b
    <3>. QED BY <1>1, <2>2, <2>4, <2>5 DEF F!Reader, b
  <2>. QED BY <1>1, <1>4, <2>1, <2>6 DEF F!Fill
<1>5. CASE F!TakeLine
  <2>. DEFINE n == F!LineEnd(rd.buf)
              l == SubSeq(rd.buf, 1, n - 1)
              b == SubSeq(rd.buf, n + 1, Len(rd.buf))
  <2>1. rd' = [rd EXCEPT !.pc = "send", !.line = l, !.buf = b, !.eof = FALSE]
    BY <1>5 DEF F!TakeLine
  <2>2. n \in 1 .. Len(rd.buf)
    BY <1>1, <1>5, LineEndIs DEF F!TakeLine
  <2>. HIDE DEF n
  <2>3. l \in Seq(Nat) /\ b \in Seq(Nat)
    <3>1. /\ \A i \in 1 .. n - 1 : rd.buf[i] \in Nat
          /\ \A i \in n + 1 .. Len(rd.buf) : rd.buf[i] \in Nat
      <4>. DEFINE s == rd.buf
      <4>1. s \in Seq(Nat) /\ n \in 1 .. Len(s)
        BY <1>1, <2>2
      <4>. HIDE DEF s
      <4>2. /\ \A i \in 1 .. n - 1 : s[i] \in Nat
            /\ \A i \in n + 1 .. Len(s) : s[i] \in Nat
        <5>1. Len(s) \in Nat /\ \A i \in 1 .. Len(s) : s[i] \in Nat
          BY <4>1
        <5>2. /\ \A i \in 1 .. n - 1 : i \in 1 .. Len(s)
              /\ \A i \in n + 1 .. Len(s) : i \in 1 .. Len(s)
          BY <4>1, <5>1
        <5>. QED BY <5>1, <5>2
      <4>. QED BY <4>2 DEF s
    <3>2. n - 1 \in Int /\ n + 1 \in Int /\ Len(rd.buf) \in Int
      BY <1>1, <2>2
    <3>. QED BY <3>1, <3>2, SubSeqProperties
  <2>. HIDE DEF l, b
  <2>4. rd' \in F!Reader /\ rd'.file = rd.file /\ rd.pc = "read"
    BY <1>1, <1>5, <2>1, <2>3 DEF F!Reader, F!TakeLine
  <2>. QED BY <1>1, <1>5, <2>4 DEF F!TakeLine
<1>6. CASE F!TakeRest
  <2>1. rd' \in F!Reader /\ rd'.file = rd.file /\ rd.pc = "read"
    <3>1. CASE rd.buf = <<>>
      BY <1>1, <1>6, <3>1 DEF F!TakeRest, F!Reader
    <3>2. CASE rd.buf # <<>>
      <4>1. <<>> \in Seq(Nat)
        OBVIOUS
      <4>2. /\ rd' = [rd EXCEPT !.pc = "send", !.line = rd.buf, !.buf = <<>>, !.eof = TRUE]
            /\ rd.pc = "read"
        BY <1>6, <3>2 DEF F!TakeRest
      <4>. QED BY <1>1, <4>1, <4>2 DEF F!Reader
    <3>. QED BY <3>1, <3>2
  <2>. QED BY <1>1, <1>6, <2>1 DEF F!TakeRest
<1>7. CASE F!Send
  <2>1. F!Advance(rd.line) \in Nat
    BY <1>1 DEF F!Advance
  <2>2. rd' \in F!Reader /\ rd'.file = rd.file /\ rd.pc = "send"
    <3>. DEFINE q == IF rd.eof THEN "poll" ELSE "top"
                p == rd.pos + F!Advance(rd.line)
    <3>1. q \in {"poll", "top"} /\ p \in Nat /\ <<>> \in Seq(Nat)
      BY <1>1, <2>1 DEF F!Reader
    <3>2. /\ rd' = [rd EXCEPT !.pc = q, !.line = <<>>, !.eof = FALSE, !.pos = p]
          /\ rd.pc = "send"
      BY <1>7 DEF F!Send
    <3>. HIDE DEF p, q
    <3>. QED BY <1>1, <3>1, <3>2 DEF F!Reader
  <2>3. [src |-> File, bytes |-> rd.line] \in Row
    BY <1>1 DEF Row
  <2>4. ingest' \in Seq(Row) /\ Len(ingest') = Len(ingest) + 1
    BY <1>1, <1>7, <2>3 DEF F!Send
  <2>5. Len(ingest) < ChanCap /\ Len(ingest) \in Nat
    BY <1>1, <1>7 DEF F!Send
  <2>. QED BY <1>1, <1>7, <2>2, <2>4, <2>5 DEF F!Send
<1>8. CASE F!GiveUp
  BY <1>1, <1>8 DEF F!GiveUp, F!Reader
<1>9. CASE F!Poll
  <2>1. rd' \in F!Reader /\ rd'.file = rd.file /\ rd.pc = "poll"
    <3>1. rd.rewinds < MaxRewinds => rd.rewinds + 1 \in 0 .. MaxRewinds
      BY <1>1 DEF F!Reader
    <3>2. <<>> \in Seq(Nat)
      OBVIOUS
    <3>3. CASE rd' = [rd EXCEPT !.pc = "top", !.buf = <<>>]
      BY <1>1, <1>9, <3>2, <3>3 DEF F!Poll, F!Reader
    <3>4. CASE /\ rd.rewinds < MaxRewinds
               /\ rd' = [rd EXCEPT !.pc = "top", !.buf = <<>>, !.off = 0, !.pos = 0,
                                   !.rewinds = rd.rewinds + 1]
      BY <1>1, <1>9, <3>1, <3>2, <3>4 DEF F!Poll, F!Reader
    <3>. QED BY <1>9, <3>3, <3>4 DEF F!Poll
  <2>. QED BY <1>1, <1>9, <2>1 DEF F!Poll
<1>. QED BY <1>2, <1>3, <1>4, <1>5, <1>6, <1>7, <1>8, <1>9 DEF F!Read

\* A write of the program.
LEMMA WriteType ==
  ASSUME TypeInv, F!WriteFile
  PROVE  /\ disk' \in Seq(Seq(0 .. MaxBytes)) /\ Len(disk') = Len(disk)
         /\ written' \in 0 .. MaxBytes
         /\ UNCHANGED <<path, cuts, rd, closed, gone, down, ingest>>
<1>. USE IngestAssumption
<1>1. /\ disk \in Seq(Seq(0 .. MaxBytes)) /\ path \in 1 .. Len(disk) /\ Len(disk) \in Nat
      /\ written \in 0 .. MaxBytes /\ MaxBytes \in Nat
  BY DEF TypeInv, TypeOK, F!TypeOK, F!WriteFile
<1>2. PICK shape \in Shapes :
        /\ written + F!Text(shape) <= MaxBytes
        /\ disk' = [disk EXCEPT ![path] = disk[path] \o F!Bytes(shape, written)]
        /\ written' = written + F!Text(shape)
  BY DEF F!WriteFile
<1>. DEFINE more == F!Bytes(shape, written)
            s == disk[path]
<1>3. F!Text(shape) \in Nat /\ more \in Seq(0 .. written + F!Text(shape))
  <2>1. shape \in Seq(BOOLEAN) /\ written \in Nat
    BY <1>1
  <2>. QED BY <2>1, BytesAre
<1>4. more \in Seq(0 .. MaxBytes)
  <2>1. 0 .. written + F!Text(shape) \subseteq 0 .. MaxBytes
    BY <1>1, <1>2, <1>3
  <2>. HIDE DEF more
  <2>. QED BY <1>3, <2>1, SeqMonotonic
<1>5. s \in Seq(0 .. MaxBytes)
  BY <1>1
<1>. HIDE DEF more, s
<1>6. s \o more \in Seq(0 .. MaxBytes)
  BY <1>4, <1>5
<1>7. disk' \in Seq(Seq(0 .. MaxBytes)) /\ Len(disk') = Len(disk)
  <2>. DEFINE e == s \o more
  <2>1. disk' = [disk EXCEPT ![path] = e] /\ e \in Seq(0 .. MaxBytes)
    BY <1>2, <1>6 DEF s, more
  <2>. HIDE DEF e
  <2>. QED BY <1>1, <2>1, ExceptSeq
<1>8. written' \in 0 .. MaxBytes
  BY <1>1, <1>2, <1>3
<1>. QED BY <1>7, <1>8 DEF F!WriteFile

\* A step of the pipe.
LEMMA PipeType ==
  ASSUME TypeInv, P!Next
  PROVE  /\ P!TypeOK'
         /\ ingest' \in Seq(Row) /\ Len(ingest') <= ChanCap /\ UNCHANGED down
<1>. USE IngestAssumption
<1>. DEFINE B == 0 .. MaxPushed
            T == 1 .. MaxPushed
<1>1. /\ buf \in Seq(B) /\ pushed \in Seq(B)
      /\ run \in [pc : {"cut", "send", "idle", "wait", "done"}, line : Seq(T)]
      /\ notify \in BOOLEAN /\ shut \in BOOLEAN /\ eofSent \in BOOLEAN
      /\ pushing \in BOOLEAN /\ removal \in {"no", "closing", "closed", "cancelled"}
      /\ ingest \in Seq(Row) /\ Len(ingest) <= ChanCap /\ MaxPushed \in Nat
  BY DEF TypeInv, TypeOK, P!TypeOK, F!TypeOK
<1>. HIDE DEF B, T
<1>2. CASE P!Push
  <2>1. PICK chunk \in Chunks \cup { <<>> }, eof \in BOOLEAN :
          /\ Len(pushed) + Len(chunk) <= MaxPushed
          /\ buf' = buf \o P!Arrive(chunk) /\ pushed' = pushed \o P!Arrive(chunk)
          /\ shut' = (shut \/ eof) /\ eofSent' = eof
    BY <1>2 DEF P!Push
  <2>. DEFINE a == P!Arrive(chunk)
  <2>2. chunk \in Seq(BOOLEAN) /\ Len(chunk) \in Nat /\ Len(pushed) \in Nat
    <3>1. chunk \in Seq(BOOLEAN)
      <4>1. CASE chunk \in Chunks
        BY <4>1
      <4>2. CASE chunk = <<>>
        BY <4>2
      <4>. QED BY <2>1, <4>1, <4>2
    <3>. QED BY <1>1, <3>1
  <2>3. a \in Seq(0 .. Len(pushed) + Len(chunk))
    BY <2>2, ArriveIs
  <2>4. a \in Seq(B)
    <3>1. 0 .. Len(pushed) + Len(chunk) \subseteq B
      BY <1>1, <2>1, <2>2 DEF B
    <3>. HIDE DEF a
    <3>. QED BY <2>3, <3>1, SeqMonotonic
  <2>. HIDE DEF a
  <2>5. buf' \in Seq(B) /\ pushed' \in Seq(B)
    <3>1. buf' = buf \o a /\ pushed' = pushed \o a
      BY <2>1 DEF a
    <3>. QED BY <1>1, <2>4, <3>1
  <2>6. shut' \in BOOLEAN /\ eofSent' \in BOOLEAN
    BY <1>1, <2>1
  <2>. QED BY <1>1, <1>2, <2>5, <2>6 DEF P!Push, P!TypeOK, B, T
<1>3. CASE P!PushNotify
  BY <1>1, <1>3 DEF P!PushNotify, P!TypeOK, B, T
<1>4. CASE P!RemoveClose
  BY <1>1, <1>4 DEF P!RemoveClose, P!TypeOK, B, T
<1>5. CASE P!RemoveNotify
  BY <1>1, <1>5 DEF P!RemoveNotify, P!TypeOK, B, T
<1>6. CASE P!RemoveCancel
  BY <1>1, <1>6 DEF P!RemoveCancel, P!TypeOK, B, T
<1>7. CASE P!Cut
  <2>. DEFINE k    == P!Skip(buf)
              rest == SubSeq(buf, k + 1, Len(buf))
              n    == P!LineEnd(rest)
  <2>0. buf \in Seq(Nat) /\ Len(buf) \in Nat
    <3>1. B \subseteq Nat
      BY DEF B
    <3>2. buf \in Seq(Nat)
      BY <1>1, <3>1, SeqMonotonic
    <3>. QED BY <3>2
  <2>1. k \in 0 .. Len(buf)
    BY <2>0, SkipIs
  <2>2. rest \in Seq(B)
    <3>. HIDE DEF k
    <3>1. \A i \in k + 1 .. Len(buf) : buf[i] \in B
      BY <1>1, <2>0, <2>1
    <3>2. k + 1 \in Int /\ Len(buf) \in Int
      BY <2>0, <2>1
    <3>. QED BY <3>1, <3>2, SubSeqProperties
  <2>. HIDE DEF rest
  <2>3. rest \in Seq(Nat) /\ Len(rest) \in Nat
    <3>1. B \subseteq Nat
      BY DEF B
    <3>2. rest \in Seq(Nat)
      BY <2>2, <3>1, SeqMonotonic
    <3>. QED BY <3>2
  <2>4. CASE P!HasLine(rest)
    <3>1. /\ n \in 1 .. Len(rest) /\ \A i \in 1 .. n - 1 : rest[i] # 0
      BY <2>3, <2>4, LineEndIs, SameNewline
    <3>2. /\ run' = [pc |-> "send", line |-> SubSeq(rest, 1, n - 1)]
          /\ buf' = SubSeq(rest, n + 1, Len(rest))
      BY <1>7, <2>4 DEF P!Cut, rest
    <3>. HIDE DEF n
    <3>3. SubSeq(rest, 1, n - 1) \in Seq(T)
      <4>1. \A i \in 1 .. n - 1 : i \in 1 .. Len(rest) /\ rest[i] # 0
        BY <2>3, <3>1
      <4>2. \A i \in 1 .. n - 1 : rest[i] \in B /\ rest[i] # 0
        BY <2>2, <4>1
      <4>3. \A i \in 1 .. n - 1 : rest[i] \in T
        BY <1>1, <4>2 DEF B, T
      <4>4. 1 \in Int /\ n - 1 \in Int
        BY <3>1
      <4>. QED BY <4>3, <4>4, SubSeqProperties
    <3>4. SubSeq(rest, n + 1, Len(rest)) \in Seq(B)
      <4>1. \A i \in n + 1 .. Len(rest) : rest[i] \in B
        BY <2>2, <2>3, <3>1
      <4>2. n + 1 \in Int /\ Len(rest) \in Int
        BY <2>3, <3>1
      <4>. QED BY <4>1, <4>2, SubSeqProperties
    <3>. QED BY <1>1, <1>7, <3>2, <3>3, <3>4 DEF P!Cut, P!TypeOK, B, T
  <2>5. CASE ~P!HasLine(rest)
    <3>1. buf' = rest /\ (run' = [run EXCEPT !.pc = "done"] \/ run' = [run EXCEPT !.pc = "idle"])
      BY <1>7, <2>5 DEF P!Cut, rest
    <3>. QED BY <1>1, <1>7, <2>2, <3>1 DEF P!Cut, P!TypeOK, B, T
  <2>. QED BY <2>4, <2>5
<1>8. CASE P!Park
  BY <1>1, <1>8 DEF P!Park, P!TypeOK, B, T
<1>9. CASE P!Send
  <2>1. run.line \in Seq(Nat)
    <3>1. T \subseteq Nat
      BY DEF T
    <3>2. run.line \in Seq(T)
      BY <1>1
    <3>. QED BY <3>1, <3>2, SeqMonotonic
  <2>2. [src |-> Stdin, bytes |-> run.line] \in Row
    BY <2>1 DEF Row
  <2>3. ingest' \in Seq(Row) /\ Len(ingest') = Len(ingest) + 1 /\ Len(ingest) \in Nat
    BY <1>1, <1>9, <2>2 DEF P!Send
  <2>4. run' \in [pc : {"cut", "send", "idle", "wait", "done"}, line : Seq(T)]
    <3>1. <<>> \in Seq(T)
      OBVIOUS
    <3>. QED BY <1>9, <3>1 DEF P!Send
  <2>5. Len(ingest') <= ChanCap
    BY <1>9, <2>3 DEF P!Send
  <2>. QED BY <1>1, <1>9, <2>3, <2>4, <2>5 DEF P!Send, P!TypeOK, B, T
<1>10. CASE P!Wake
  BY <1>1, <1>10 DEF P!Wake, P!TypeOK, B, T
<1>11. CASE P!GiveUp
  BY <1>1, <1>11 DEF P!GiveUp, P!TypeOK, B, T
<1>. QED BY <1>2, <1>3, <1>4, <1>5, <1>6, <1>7, <1>8, <1>9, <1>10, <1>11 DEF P!Next, P!Run

\* After every step.
LEMMA TypeStep == TypeInv /\ [Next]_vars => TypeInv'
<1>. SUFFICES ASSUME TypeInv, [Next]_vars PROVE TypeInv'
  OBVIOUS
<1>. USE IngestAssumption
<1>1. /\ F!TypeOK /\ P!TypeOK /\ down \in BOOLEAN /\ ingesting \in BOOLEAN
      /\ stored \in Seq(Row) /\ ingest \in Seq(Row)
      /\ rd.file = 0 => rd.pc \in {"open", "done"}
  BY DEF TypeInv, TypeOK
\* What the two sources and the server have in common.
<1>2. ASSUME F!TypeOK', P!TypeOK', down' \in BOOLEAN, ingesting' \in BOOLEAN,
             stored' \in Seq(Row), ingest' \in Seq(Row),
             rd'.file = 0 => rd'.pc \in {"open", "done"}
      PROVE  TypeInv'
  <2>1. \A i \in DOMAIN ingest' : ingest'[i] \in Row
    BY <1>2
  <2>2. \A i \in DOMAIN ingest' : ingest'[i].src \in {File, Stdin}
    BY <2>1 DEF Row
  <2>. QED BY <1>2, <2>2 DEF TypeInv, TypeOK
<1>3. ASSUME UNCHANGED pipeOnly PROVE P!TypeOK'
  BY <1>1, <1>3 DEF pipeOnly, P!TypeOK
<1>4. ASSUME UNCHANGED fileOnly, down' \in BOOLEAN, Len(ingest') <= ChanCap PROVE F!TypeOK'
  BY <1>1, <1>4 DEF fileOnly, F!TypeOK
<1>5. CASE FileStep
  <2>1. UNCHANGED <<pipeOnly, ingesting, stored>> /\ F!Next
    BY <1>5 DEF FileStep
  <2>2. CASE F!Read
    <3>1. /\ rd' \in F!Reader /\ rd'.file \in 0 .. Len(disk)
          /\ rd'.file = 0 => rd'.pc \in {"open", "done"}
          /\ ingest' \in Seq(Row) /\ Len(ingest') <= ChanCap
          /\ UNCHANGED <<disk, path, written, cuts, closed, gone, down>>
      BY <2>2, ReadType
    <3>2. F!TypeOK'
      BY <1>1, <3>1 DEF F!TypeOK
    <3>. QED BY <1>1, <1>2, <1>3, <2>1, <3>1, <3>2
  <2>3. CASE F!WriteFile
    <3>1. /\ disk' \in Seq(Seq(0 .. MaxBytes)) /\ Len(disk') = Len(disk)
          /\ written' \in 0 .. MaxBytes
          /\ UNCHANGED <<path, cuts, rd, closed, gone, down, ingest>>
      BY <2>3, WriteType
    <3>2. F!TypeOK'
      BY <1>1, <3>1 DEF F!TypeOK
    <3>. QED BY <1>1, <1>2, <1>3, <2>1, <3>1, <3>2
  <2>4. CASE F!Truncate
    <3>1. disk' \in Seq(Seq(0 .. MaxBytes)) /\ Len(disk') = Len(disk)
      <4>1. path \in 1 .. Len(disk) /\ disk \in Seq(Seq(0 .. MaxBytes))
        BY <1>1, <2>4 DEF F!Truncate, F!TypeOK
      <4>2. <<>> \in Seq(0 .. MaxBytes) /\ disk' = [disk EXCEPT ![path] = <<>>]
        BY <2>4 DEF F!Truncate
      <4>. QED BY <4>1, <4>2, ExceptSeq
    <3>2. cuts' \in 0 .. MaxCuts
      BY <1>1, <2>4 DEF F!Truncate, F!TypeOK
    <3>3. UNCHANGED <<path, written, rd, closed, gone, down, ingest>>
      BY <2>4 DEF F!Truncate
    <3>4. F!TypeOK'
      BY <1>1, <3>1, <3>2, <3>3 DEF F!TypeOK
    <3>. QED BY <1>1, <1>2, <1>3, <2>1, <3>3, <3>4
  <2>5. CASE F!MoveAway
    <3>1. path' \in 0 .. Len(disk) /\ cuts' \in 0 .. MaxCuts
      <4>1. Len(disk) \in Nat
        BY <1>1 DEF F!TypeOK
      <4>. QED BY <1>1, <2>5, <4>1 DEF F!MoveAway, F!TypeOK
    <3>2. UNCHANGED <<disk, written, rd, closed, gone, down, ingest>>
      BY <2>5 DEF F!MoveAway
    <3>3. F!TypeOK'
      BY <1>1, <3>1, <3>2 DEF F!TypeOK
    <3>. QED BY <1>1, <1>2, <1>3, <2>1, <3>2, <3>3
  <2>6. CASE F!Create
    <3>1. disk' \in Seq(Seq(0 .. MaxBytes)) /\ Len(disk') = Len(disk) + 1 /\ Len(disk) \in Nat
      <4>1. <<>> \in Seq(0 .. MaxBytes) /\ disk \in Seq(Seq(0 .. MaxBytes))
        BY <1>1 DEF F!TypeOK
      <4>. QED BY <2>6, <4>1 DEF F!Create
    <3>2. path' \in 0 .. Len(disk')
      BY <2>6, <3>1 DEF F!Create
    <3>3. UNCHANGED <<written, cuts, rd, closed, gone, down, ingest>>
      BY <2>6 DEF F!Create
    <3>4. rd.file \in 0 .. Len(disk')
      BY <1>1, <3>1 DEF F!TypeOK
    <3>5. F!TypeOK'
      BY <1>1, <3>1, <3>2, <3>3, <3>4 DEF F!TypeOK
    <3>. QED BY <1>1, <1>2, <1>3, <2>1, <3>3, <3>5
  <2>7. CASE F!Close \/ F!Cancel
    <3>1. /\ UNCHANGED <<disk, path, written, cuts, rd, down, ingest>>
          /\ closed' \in BOOLEAN /\ gone' \in BOOLEAN
      BY <1>1, <2>7 DEF F!Close, F!Cancel, F!TypeOK
    <3>2. F!TypeOK'
      BY <1>1, <3>1 DEF F!TypeOK
    <3>. QED BY <1>1, <1>2, <1>3, <2>1, <3>1, <3>2
  <2>. QED BY <2>1, <2>2, <2>3, <2>4, <2>5, <2>6, <2>7 DEF F!Next
<1>6. CASE PipeStep
  <2>1. UNCHANGED <<fileOnly, ingesting, stored>> /\ P!Next
    BY <1>6 DEF PipeStep
  <2>2. P!TypeOK' /\ ingest' \in Seq(Row) /\ Len(ingest') <= ChanCap /\ UNCHANGED down
    BY <2>1, PipeType
  <2>3. F!TypeOK' /\ UNCHANGED rd
    BY <1>1, <1>4, <2>1, <2>2 DEF fileOnly
  <2>. QED BY <1>1, <1>2, <2>1, <2>2, <2>3
<1>7. CASE Ingester
  <2>1. /\ ingest # <<>> /\ stored' = Append(stored, Head(ingest)) /\ ingest' = Tail(ingest)
        /\ UNCHANGED <<fileOnly, pipeOnly, down, ingesting>>
    BY <1>7 DEF Ingester
  <2>2. Head(ingest) \in Row /\ ingest' \in Seq(Row) /\ Len(ingest') = Len(ingest) - 1
    BY <1>1, <2>1, HeadTailProperties
  <2>3. stored' \in Seq(Row)
    BY <1>1, <2>1, <2>2
  <2>4. Len(ingest') <= ChanCap
    <3>1. Len(ingest) \in Nat /\ Len(ingest) <= ChanCap
      BY <1>1 DEF F!TypeOK
    <3>. QED BY <2>2, <3>1
  <2>5. F!TypeOK' /\ P!TypeOK' /\ UNCHANGED rd
    BY <1>1, <1>3, <1>4, <2>1, <2>4 DEF fileOnly
  <2>. QED BY <1>1, <1>2, <2>1, <2>2, <2>3, <2>5
<1>8. CASE IngesterEnds
  <2>1. UNCHANGED <<fileOnly, pipeOnly, down, ingest, stored>> /\ ingesting' \in BOOLEAN
    BY <1>8 DEF IngesterEnds
  <2>2. F!TypeOK' /\ P!TypeOK' /\ UNCHANGED rd
    BY <1>1, <1>3, <1>4, <2>1 DEF fileOnly, F!TypeOK
  <2>. QED BY <1>1, <1>2, <2>1, <2>2
<1>9. CASE Shutdown
  <2>1. UNCHANGED <<fileOnly, pipeOnly, ingesting, ingest, stored>> /\ down' \in BOOLEAN
    BY <1>9 DEF Shutdown
  <2>2. F!TypeOK' /\ P!TypeOK' /\ UNCHANGED rd
    BY <1>1, <1>3, <1>4, <2>1 DEF fileOnly, F!TypeOK
  <2>. QED BY <1>1, <1>2, <2>1, <2>2
<1>10. CASE UNCHANGED vars
  <2>1. UNCHANGED <<fileOnly, pipeOnly, ingesting, ingest, stored, down>>
    BY <1>10 DEF vars, server
  <2>2. F!TypeOK' /\ P!TypeOK' /\ UNCHANGED rd
    BY <1>1, <1>3, <1>4, <2>1 DEF fileOnly, F!TypeOK
  <2>. QED BY <1>1, <1>2, <2>1, <2>2
<1>. QED BY <1>5, <1>6, <1>7, <1>8, <1>9, <1>10 DEF Next

\* Always.
LEMMA Typed == Spec => []TypeInv
<1>1. Init => TypeInv
  BY TypeInit
<1>2. TypeInv /\ [Next]_vars => TypeInv'
  BY TypeStep
<1>. QED BY <1>1, <1>2, PTL DEF Spec

-----------------------------------------------------------------------------
(* What steps do to the lines read, and to the fields of the reader.       *)

\* The ingester moves a row on; nothing is read by that.
LEMMA MovingOn ==
  ASSUME TypeInv, Ingester
  PROVE  (stored \o ingest)' = stored \o ingest
<1>1. /\ stored \in Seq(Row) /\ ingest \in Seq(Row) /\ ingest # <<>>
      /\ stored' = Append(stored, Head(ingest)) /\ ingest' = Tail(ingest)
  BY DEF TypeInv, Ingester
<1>. DEFINE h == Head(ingest)
            r == Tail(ingest)
<1>2. h \in Row /\ r \in Seq(Row)
  BY <1>1
<1>3. ingest = <<h>> \o r
  <2>1. Len(ingest) \in Nat \ {0}
    BY <1>1
  <2>. DEFINE g == <<h>> \o r
  <2>2. <<h>> \in Seq(Row)
    BY <1>2
  <2>3. g \in Seq(Row) /\ Len(g) = Len(ingest)
    BY <1>1, <1>2, <2>1, <2>2
  <2>4. \A i \in 1 .. Len(ingest) : g[i] = ingest[i]
    BY <1>1, <1>2, <2>1
  <2>. HIDE DEF g
  <2>5. g = ingest
    BY <1>1, <2>3, <2>4, SeqEqual
  <2>. QED BY <2>5 DEF g
<1>. HIDE DEF h, r
<1>4. Append(stored, h) = stored \o <<h>>
  BY <1>1, <1>2, AppendIsConcat
<1>5. <<h>> \in Seq(Row)
  BY <1>2
<1>6. (stored \o <<h>>) \o r = stored \o (<<h>> \o r)
  BY <1>1, <1>2, <1>5, ConcatAssociative
<1>7. (stored \o ingest)' = (stored \o <<h>>) \o r
  BY <1>1, <1>4 DEF h, r
<1>. QED BY <1>3, <1>6, <1>7

\* A line sent is read.
LEMMA Sending ==
  ASSUME TypeInv, NEW r \in Row, ingest' = Append(ingest, r), stored' = stored, NEW src
  PROVE  From(src, (stored \o ingest)') =
           IF r.src = src THEN Append(From(src, stored \o ingest), r.bytes)
                          ELSE From(src, stored \o ingest)
<1>1. stored \in Seq(Row) /\ ingest \in Seq(Row) /\ <<r>> \in Seq(Row)
  BY DEF TypeInv
<1>2. (stored \o ingest)' = Append(stored \o ingest, r)
  <2>1. Append(ingest, r) = ingest \o <<r>>
    BY <1>1, AppendIsConcat
  <2>2. stored \o ingest \in Seq(Row)
    BY <1>1
  <2>3. Append(stored \o ingest, r) = (stored \o ingest) \o <<r>>
    BY <2>2, AppendIsConcat
  <2>4. (stored \o ingest) \o <<r>> = stored \o (ingest \o <<r>>)
    BY <1>1, ConcatAssociative
  <2>. QED BY <2>1, <2>3, <2>4
<1>3. stored \o ingest \in Seq(Row)
  BY <1>1
<1>. DEFINE all == stored \o ingest
<1>. HIDE DEF all
<1>4. From(src, Append(all, r)) =
        IF r.src = src THEN Append(From(src, all), r.bytes) ELSE From(src, all)
  BY <1>3, FromAppend DEF all
<1>. QED BY <1>2, <1>4 DEF all

\* What was read of a source is a sequence of lines.
LEMMA LinesRead ==
  ASSUME TypeInv, NEW src
  PROVE  Read(src) \in Seq(Seq(Nat))
<1>1. stored \o ingest \in Seq(Row)
  BY DEF TypeInv
<1>. QED BY <1>1, FromType DEF Read

\* The fields of the reader after each of its steps.
LEMMA OpenFields ==
  ASSUME TypeInv, F!Open
  PROVE  /\ rd.pc = "open"
         /\ \/ rd'.pc = "done" /\ rd'.file = rd.file
            \/ rd'.pc = "top" /\ rd'.file = path
         /\ rd'.off = rd.off /\ rd'.buf = rd.buf /\ rd'.pos = rd.pos /\ rd'.eof = rd.eof
         /\ UNCHANGED ingest
BY DEF TypeInv, TypeOK, F!TypeOK, F!Reader, F!Open

\* The head of the loop.
LEMMA TopFields ==
  ASSUME TypeInv, F!Top
  PROVE  /\ rd.pc = "top" /\ rd'.pc \in {"done", "read"} /\ rd'.file = rd.file
         /\ rd'.off = rd.off /\ rd'.buf = rd.buf /\ rd'.pos = rd.pos /\ rd'.eof = rd.eof
         /\ UNCHANGED ingest
BY DEF TypeInv, TypeOK, F!TypeOK, F!Reader, F!Top

\* The buffer is filled.
LEMMA FillFields ==
  ASSUME TypeInv, F!Fill
  PROVE  /\ rd.pc = "read" /\ rd'.pc = "read" /\ rd'.file = rd.file
         /\ rd.off < Len(disk[rd.file]) /\ rd'.off = Len(disk[rd.file])
         /\ rd'.buf = rd.buf \o SubSeq(disk[rd.file], rd.off + 1, Len(disk[rd.file]))
         /\ rd'.pos = rd.pos /\ rd'.eof = rd.eof
         /\ UNCHANGED ingest
<1>. DEFINE b == rd.buf \o SubSeq(disk[rd.file], rd.off + 1, Len(disk[rd.file]))
            n == Len(disk[rd.file])
<1>1. /\ rd.pc = "read" /\ rd' = [rd EXCEPT !.buf = b, !.off = n] /\ UNCHANGED ingest
      /\ rd.off < n
  BY DEF F!Fill, F!Size
<1>. HIDE DEF b, n
<1>2. rd'.buf = b /\ rd'.off = n
  BY <1>1 DEF TypeInv, TypeOK, F!TypeOK, F!Reader
<1>3. rd'.pc = rd.pc /\ rd'.file = rd.file /\ rd'.pos = rd.pos /\ rd'.eof = rd.eof
  BY <1>1 DEF TypeInv, TypeOK, F!TypeOK, F!Reader
<1>. QED BY <1>1, <1>2, <1>3 DEF b, n

\* A line is taken.
LEMMA TakeLineFields ==
  ASSUME TypeInv, F!TakeLine
  PROVE  /\ rd.pc = "read" /\ F!HasLine(rd.buf) /\ rd'.pc = "send" /\ rd'.file = rd.file
         /\ rd'.off = rd.off /\ rd'.pos = rd.pos /\ rd'.eof = FALSE
         /\ rd'.line = SubSeq(rd.buf, 1, F!LineEnd(rd.buf) - 1)
         /\ rd'.buf = SubSeq(rd.buf, F!LineEnd(rd.buf) + 1, Len(rd.buf))
         /\ UNCHANGED ingest
<1>. DEFINE l == SubSeq(rd.buf, 1, F!LineEnd(rd.buf) - 1)
            b == SubSeq(rd.buf, F!LineEnd(rd.buf) + 1, Len(rd.buf))
<1>1. /\ rd.pc = "read" /\ F!HasLine(rd.buf) /\ UNCHANGED ingest
      /\ rd' = [rd EXCEPT !.pc = "send", !.line = l, !.buf = b, !.eof = FALSE]
  BY DEF F!TakeLine
<1>. HIDE DEF b, l
<1>2. rd'.buf = b /\ rd'.line = l /\ rd'.pc = "send" /\ rd'.eof = FALSE
  BY <1>1 DEF TypeInv, TypeOK, F!TypeOK, F!Reader
<1>3. rd'.off = rd.off /\ rd'.file = rd.file /\ rd'.pos = rd.pos
  BY <1>1 DEF TypeInv, TypeOK, F!TypeOK, F!Reader
<1>. QED BY <1>1, <1>2, <1>3 DEF b, l

\* The end of the file, with an empty buffer.
LEMMA TakeRestFields ==
  ASSUME TypeInv, F!TakeRest, rd.buf = <<>>
  PROVE  /\ rd.pc = "read" /\ rd'.pc = "poll" /\ rd'.file = rd.file
         /\ rd'.off = rd.off /\ rd'.buf = rd.buf /\ rd'.pos = rd.pos /\ rd'.eof = rd.eof
         /\ UNCHANGED ingest
BY DEF TypeInv, TypeOK, F!TypeOK, F!Reader, F!TakeRest

\* A line that ended in a newline is sent.
LEMMA SendFields ==
  ASSUME TypeInv, F!Send, ~rd.eof
  PROVE  /\ rd.pc = "send" /\ rd'.pc = "top" /\ rd'.file = rd.file
         /\ rd'.off = rd.off /\ rd'.buf = rd.buf /\ rd'.eof = FALSE
         /\ rd'.pos = rd.pos + (Len(rd.line) + 1)
         /\ ingest' = Append(ingest, [src |-> File, bytes |-> rd.line])
<1>. DEFINE n == rd.pos + (Len(rd.line) + 1)
<1>1. /\ rd.pc = "send" /\ ingest' = Append(ingest, [src |-> File, bytes |-> rd.line])
      /\ rd' = [rd EXCEPT !.pc = "top", !.line = <<>>, !.eof = FALSE, !.pos = n]
  BY DEF F!Send, F!Advance
<1>. HIDE DEF n
<1>2. rd'.pc = "top" /\ rd'.pos = n /\ rd'.eof = FALSE
  BY <1>1 DEF TypeInv, TypeOK, F!TypeOK, F!Reader
<1>3. rd'.off = rd.off /\ rd'.file = rd.file /\ rd'.buf = rd.buf
  BY <1>1 DEF TypeInv, TypeOK, F!TypeOK, F!Reader
<1>. QED BY <1>1, <1>2, <1>3 DEF n

\* The context ends.
LEMMA GiveUpFields ==
  ASSUME TypeInv, F!GiveUp
  PROVE  /\ rd.pc \in {"send", "poll"} /\ rd'.pc = "done" /\ rd'.file = rd.file
         /\ rd'.off = rd.off /\ rd'.buf = rd.buf /\ rd'.pos = rd.pos /\ rd'.eof = rd.eof
         /\ UNCHANGED ingest
BY DEF TypeInv, TypeOK, F!TypeOK, F!Reader, F!GiveUp

\* A tick: the reader goes on where it is, or from the start.
LEMMA PollFields ==
  ASSUME TypeInv, F!Poll
  PROVE  /\ rd.pc = "poll" /\ rd'.pc = "top" /\ rd'.file = rd.file /\ rd'.buf = <<>>
         /\ rd'.eof = rd.eof
         /\ \/ rd'.off = rd.off /\ rd'.pos = rd.pos
            \/ /\ path # 0 /\ Len(disk[path]) < rd.pos
               /\ rd'.off = 0 /\ rd'.pos = 0
         /\ UNCHANGED ingest
<1>1. rd.pc = "poll" /\ UNCHANGED ingest /\ rd \in F!Reader
  BY DEF F!Poll, TypeInv, TypeOK, F!TypeOK
<1>2. \/ rd' = [rd EXCEPT !.pc = "top", !.buf = <<>>]
      \/ /\ path # 0 /\ Len(disk[path]) < rd.pos
         /\ rd' = [rd EXCEPT !.pc = "top", !.buf = <<>>, !.off = 0, !.pos = 0,
                             !.rewinds = rd.rewinds + 1]
  BY DEF F!Poll, F!Shrunk, F!Size
<1>3. CASE rd' = [rd EXCEPT !.pc = "top", !.buf = <<>>]
  BY <1>1, <1>3 DEF F!Reader
<1>4. CASE /\ path # 0 /\ Len(disk[path]) < rd.pos
           /\ rd' = [rd EXCEPT !.pc = "top", !.buf = <<>>, !.off = 0, !.pos = 0,
                               !.rewinds = rd.rewinds + 1]
  BY <1>1, <1>4 DEF F!Reader
<1>. QED BY <1>2, <1>3, <1>4

-----------------------------------------------------------------------------
(* The reader counts what it hands on.                                     *)

\* What is left of a sequence, and its beginning.
LEMMA SuffixIs ==
  ASSUME NEW s \in Seq(Nat), NEW m \in 0 .. Len(s)
  PROVE  /\ SubSeq(s, m + 1, Len(s)) \in Seq(Nat)
         /\ Len(SubSeq(s, m + 1, Len(s))) = Len(s) - m
         /\ \A i \in 1 .. Len(s) - m : SubSeq(s, m + 1, Len(s))[i] = s[m + i]
<1>1. m + 1 \in Int /\ Len(s) \in Int /\ m \in Nat
  OBVIOUS
<1>2. \A i \in m + 1 .. Len(s) : s[i] \in Nat
  BY <1>1
<1>3. /\ SubSeq(s, m + 1, Len(s)) \in Seq(Nat)
      /\ Len(SubSeq(s, m + 1, Len(s))) = IF m + 1 <= Len(s) THEN Len(s) - (m + 1) + 1 ELSE 0
      /\ \A i \in 1 .. Len(s) - (m + 1) + 1 : SubSeq(s, m + 1, Len(s))[i] = s[(m + 1) + i - 1]
  BY <1>1, <1>2, SubSeqProperties
<1>4. /\ Len(s) - (m + 1) + 1 = Len(s) - m
      /\ (IF m + 1 <= Len(s) THEN Len(s) - (m + 1) + 1 ELSE 0) = Len(s) - m
      /\ \A i \in 1 .. Len(s) - m : (m + 1) + i - 1 = m + i
  BY <1>1
<1>. QED BY <1>3, <1>4

\* The beginning of a sequence.
LEMMA PrefixIs ==
  ASSUME NEW s \in Seq(Nat), NEW n \in 0 .. Len(s)
  PROVE  /\ SubSeq(s, 1, n) \in Seq(Nat) /\ Len(SubSeq(s, 1, n)) = n
         /\ \A i \in 1 .. n : SubSeq(s, 1, n)[i] = s[i]
<1>1. 1 \in Int /\ n \in Int /\ n \in Nat
  OBVIOUS
<1>2. \A i \in 1 .. n : s[i] \in Nat
  OBVIOUS
<1>3. /\ SubSeq(s, 1, n) \in Seq(Nat)
      /\ Len(SubSeq(s, 1, n)) = IF 1 <= n THEN n - 1 + 1 ELSE 0
      /\ \A i \in 1 .. n - 1 + 1 : SubSeq(s, 1, n)[i] = s[1 + i - 1]
  BY <1>1, <1>2, SubSeqProperties
<1>4. /\ n - 1 + 1 = n /\ (IF 1 <= n THEN n - 1 + 1 ELSE 0) = n
      /\ \A i \in 1 .. n : 1 + i - 1 = i
  BY <1>1
<1>. QED BY <1>3, <1>4

\* Whole lines after whole lines.
LEMMA WholeAppend ==
  ASSUME NEW s \in Seq(Nat), NEW m \in Seq(Nat), Whole(s), Whole(m)
  PROVE  Whole(s \o m)
<1>1. CASE m = <<>>
  <2>1. s \o m = s
    BY <1>1
  <2>. QED BY <2>1
<1>2. CASE m # <<>>
  <2>1. Len(m) \in Nat \ {0} /\ Len(s) \in Nat
    BY <1>2
  <2>2. Len(s \o m) = Len(s) + Len(m) /\ (s \o m)[Len(s) + Len(m)] = m[Len(m)]
    BY <2>1
  <2>. QED BY <1>2, <2>2 DEF Whole
<1>. QED BY <1>1, <1>2

\* The end of whole lines.
LEMMA WholeTail ==
  ASSUME NEW s \in Seq(Nat), NEW m \in Nat, Whole(s)
  PROVE  Whole(SubSeq(s, m + 1, Len(s)))
<1>. DEFINE t == SubSeq(s, m + 1, Len(s))
<1>0. Len(s) \in Nat
  OBVIOUS
<1>1. CASE m < Len(s)
  <2>1. Len(t) = Len(s) - m /\ t[Len(s) - m] = s[Len(s)]
    <3>1. m + 1 \in 1 .. Len(s)
      BY <1>0, <1>1
    <3>. QED BY <1>0, <1>1, <3>1
  <2>2. s # <<>>
    BY <1>1
  <2>. HIDE DEF t
  <2>3. Whole(t)
    BY <2>1, <2>2 DEF Whole
  <2>. QED BY <2>3 DEF t
<1>2. CASE Len(s) <= m
  <2>1. m + 1 \in Int /\ Len(s) \in Int /\ Len(s) < m + 1
    BY <1>0, <1>2
  <2>2. t = <<>>
    BY <2>1, SubSeqEmpty
  <2>. HIDE DEF t
  <2>3. Whole(t)
    BY <2>2 DEF Whole
  <2>. QED BY <2>3 DEF t
<1>. QED BY <1>0, <1>1, <1>2

\* What of the files on disk the reader may rely on.
LEMMA DiskType ==
  ASSUME TypeInv, NEW f \in 1 .. Len(disk)
  PROVE  disk[f] \in Seq(Nat) /\ Len(disk[f]) \in Nat
<1>1. disk[f] \in Seq(0 .. MaxBytes)
  BY DEF TypeInv, TypeOK, F!TypeOK
<1>2. disk[f] \in Seq(Nat)
  <2>1. 0 .. MaxBytes \subseteq Nat
    OBVIOUS
  <2>. QED BY <1>1, <2>1, SeqMonotonic
<1>. QED BY <1>2

\* What one write appends.
LEMMA WriteFields ==
  ASSUME TypeInv, F!WriteFile
  PROVE  \E more \in Seq(Nat) :
           /\ path \in 1 .. Len(disk)
           /\ disk' = [disk EXCEPT ![path] = disk[path] \o more]
           /\ Rising(more) /\ written \in Nat /\ written' \in Nat /\ written <= written'
           /\ \A i \in DOMAIN more :
                more[i] <= written' /\ (more[i] # F!Newline => more[i] > written)
           /\ WholeLines => Whole(more)
<1>. USE IngestAssumption
<1>1. /\ path \in 1 .. Len(disk) /\ written \in Nat
  BY DEF TypeInv, TypeOK, F!TypeOK, F!WriteFile
<1>2. PICK shape \in Shapes :
        /\ disk' = [disk EXCEPT ![path] = disk[path] \o F!Bytes(shape, written)]
        /\ written' = written + F!Text(shape)
  BY DEF F!WriteFile
<1>. DEFINE more == F!Bytes(shape, written)
<1>3. shape \in Seq(BOOLEAN)
  OBVIOUS
<1>4. /\ F!Text(shape) \in Nat
      /\ more \in Seq(0 .. written + F!Text(shape))
      /\ Len(more) = Len(shape)
      /\ \A i \in 1 .. Len(shape) :
           /\ more[i] = F!Newline <=> shape[i]
           /\ ~shape[i] => more[i] > written
      /\ Rising(more)
  BY <1>1, <1>3, BytesAre
<1>. HIDE DEF more
<1>5. more \in Seq(Nat)
  <2>1. 0 .. written + F!Text(shape) \subseteq Nat
    OBVIOUS
  <2>. QED BY <1>4, <2>1, SeqMonotonic
<1>6. DOMAIN more = 1 .. Len(shape)
  BY <1>4, <1>5
<1>7. \A i \in DOMAIN more : more[i] \in 0 .. written + F!Text(shape)
  <2>. DEFINE B == 0 .. written + F!Text(shape)
  <2>1. more \in Seq(B)
    BY <1>4
  <2>. HIDE DEF B
  <2>2. \A i \in 1 .. Len(more) : more[i] \in B
    BY <2>1, ElementOfSeq
  <2>. QED BY <1>4, <1>6, <2>2 DEF B
<1>8. \A i \in DOMAIN more : more[i] <= written + F!Text(shape)
  BY <1>1, <1>4, <1>7
<1>9. \A i \in DOMAIN more : more[i] # F!Newline => more[i] > written
  <2>. SUFFICES ASSUME NEW i \in 1 .. Len(shape), more[i] # F!Newline PROVE more[i] > written
    BY <1>6
  <2>1. ~shape[i]
    BY <1>4
  <2>. QED BY <1>4, <2>1
<1>10. ASSUME WholeLines PROVE Whole(more)
  <2>. SUFFICES ASSUME more # <<>> PROVE more[Len(more)] = F!Newline
    BY DEF Whole
  <2>1. Len(shape) \in Nat /\ Len(shape) # 0
    BY <1>3, <1>4, <1>5
  <2>2. shape[Len(shape)] /\ Len(shape) \in 1 .. Len(shape)
    BY <1>10, <2>1 DEF WholeLines
  <2>. QED BY <1>4, <2>2
<1>11. written' \in Nat /\ written <= written'
  BY <1>1, <1>2, <1>4
<1>. WITNESS more \in Seq(Nat)
<1>. QED BY <1>1, <1>2, <1>4, <1>8, <1>9, <1>10, <1>11 DEF more

\* Only the reader, the program and who moves or creates the file matter to the
\* invariants of the file.
LEMMA OthersKeepFile ==
  ASSUME TypeInv, [Next]_vars,
         ~(FileStep /\ (F!Read \/ F!WriteFile \/ F!Truncate \/ F!MoveAway \/ F!Create))
  PROVE  UNCHANGED <<disk, path, written, cuts, rd>> /\ Read(File)' = Read(File)
<1>1. CASE FileStep
  <2>1. F!Close \/ F!Cancel
    BY <1>1 DEF FileStep, F!Next
  <2>2. UNCHANGED <<disk, path, written, cuts, rd, ingest, stored>>
    BY <1>1, <2>1 DEF FileStep, F!Close, F!Cancel
  <2>. QED BY <2>2 DEF Read
<1>2. CASE PipeStep
  <2>1. UNCHANGED <<disk, path, written, cuts, rd, stored>> /\ P!Next
    BY <1>2 DEF PipeStep, fileOnly
  <2>2. CASE P!Send
    <3>. DEFINE r == [src |-> Stdin, bytes |-> run.line]
    <3>1. run.line \in Seq(Nat)
      <4>1. run.line \in Seq(1 .. MaxPushed)
        BY DEF TypeInv, TypeOK, P!TypeOK
      <4>2. 1 .. MaxPushed \subseteq Nat
        OBVIOUS
      <4>. QED BY <4>1, <4>2, SeqMonotonic
    <3>2. r \in Row /\ r.src # File
      BY <3>1, IngestAssumption DEF Row
    <3>3. ingest' = Append(ingest, r)
      BY <2>2 DEF P!Send
    <3>. HIDE DEF r
    <3>4. Read(File)' = Read(File)
      BY <2>1, <3>2, <3>3, Sending DEF Read
    <3>. QED BY <2>1, <3>4
  <2>3. CASE ~P!Send
    <3>1. UNCHANGED ingest
      BY <2>1, <2>3 DEF P!Next, P!Run, P!Push, P!PushNotify, P!RemoveClose, P!RemoveNotify,
         P!RemoveCancel, P!Cut, P!Park, P!Wake, P!GiveUp
    <3>. QED BY <2>1, <3>1 DEF Read
  <2>. QED BY <2>2, <2>3
<1>3. CASE Ingester
  <2>1. UNCHANGED <<disk, path, written, cuts, rd>>
    BY <1>3 DEF Ingester, fileOnly
  <2>. QED BY <1>3, <2>1, MovingOn DEF Read
<1>4. CASE IngesterEnds \/ Shutdown \/ UNCHANGED vars
  BY <1>4 DEF IngesterEnds, Shutdown, vars, server, fileOnly, Read
<1>. QED BY <1>1, <1>2, <1>3, <1>4 DEF Next

\* The reader's steps, with what the counting excludes.
LEMMA NothingLeftOver ==
  ASSUME TypeInv, Counted, F!TakeRest
  PROVE  rd.buf = <<>>
<1>1. Whole(rd.buf) /\ ~F!HasLine(rd.buf) /\ rd.buf \in Seq(Nat)
  BY DEF Counted, F!TakeRest, TypeInv, TypeOK, F!TypeOK, F!Reader
<1>. SUFFICES ASSUME rd.buf # <<>> PROVE FALSE
  OBVIOUS
<1>2. Len(rd.buf) \in DOMAIN rd.buf
  BY <1>1
<1>. QED BY <1>1, <1>2 DEF Whole, F!HasLine

\* Every step keeps the count of bytes, and what is known of the open file.
LEMMA CountedStep ==
  ASSUME WholeLines, TypeInv, Opened, Counted, [Next]_vars
  PROVE  Opened' /\ Counted'
<1>0. rd.off \in Nat /\ rd.pos \in Nat /\ Len(rd.buf) \in Nat /\ Len(rd.line) \in Nat
  BY DEF TypeInv, TypeOK, F!TypeOK, F!Reader
<1>1. /\ rd.buf \in Seq(Nat) /\ rd.line \in Seq(Nat) /\ rd.off \in Nat /\ rd.pos \in Nat
      /\ rd.file \in 0 .. Len(disk) /\ disk \in Seq(Seq(0 .. MaxBytes)) /\ Len(disk) \in Nat
      /\ rd.file = 0 => rd.pc \in {"open", "done"}
      /\ Len(rd.buf) \in Nat /\ Len(rd.line) \in Nat /\ cuts \in Nat /\ path \in 0 .. Len(disk)
      /\ DOMAIN disk = 1 .. Len(disk)
  BY DEF TypeInv, TypeOK, F!TypeOK, F!Reader
<1>2. CASE FileStep /\ F!Read
  <2>0. UNCHANGED <<disk, path, cuts>>
    BY <1>2, ReadType
  <2>1. CASE F!Open
    BY <1>1, <2>0, <2>1, OpenFields DEF Opened, Counted
  <2>2. CASE F!Top
    BY <1>1, <2>0, <2>2, TopFields DEF Opened, Counted
  <2>3. CASE F!Fill
    <3>1. rd.file \in 1 .. Len(disk)
      BY <1>1, <2>3, FillFields
    <3>. DEFINE s == disk[rd.file]
                m == SubSeq(s, rd.off + 1, Len(s))
    <3>2. s \in Seq(Nat) /\ Len(s) \in Nat /\ Whole(s)
      BY <1>1, <3>1, DiskType DEF Counted
    <3>3. /\ rd.pc = "read" /\ rd'.pc = "read" /\ rd'.file = rd.file
          /\ rd.off < Len(s) /\ rd'.off = Len(s) /\ rd'.buf = rd.buf \o m
          /\ rd'.pos = rd.pos /\ rd'.eof = rd.eof
      BY <2>3, FillFields
    <3>. HIDE DEF s
    <3>4. m \in Seq(Nat) /\ Len(m) = Len(s) - rd.off
      <4>1. rd.off \in 0 .. Len(s)
        BY <1>1, <3>2, <3>3
      <4>. QED BY <3>2, <4>1, SuffixIs
    <3>5. Whole(m)
      BY <1>1, <3>2, WholeTail
    <3>. HIDE DEF m
    <3>6. Whole(rd'.buf)
      BY <1>1, <3>3, <3>4, <3>5, WholeAppend DEF Counted
    <3>7. Len(rd'.buf) = Len(rd.buf) + (Len(s) - rd.off)
      <4>1. Len(rd.buf \o m) = Len(rd.buf) + Len(m)
        BY <1>1, <3>4, ConcatProperties
      <4>. QED BY <3>3, <3>4, <4>1
    <3>8. rd'.off = rd'.pos + Len(rd'.buf)
      <4>1. rd.off = rd.pos + Len(rd.buf)
        BY <1>1, <3>3 DEF Counted
      <4>2. \A a, b, c, d \in Nat : a = b + c => d = b + (c + (d - a))
        OBVIOUS
      <4>3. Len(s) = rd.pos + (Len(rd.buf) + (Len(s) - rd.off))
        BY <1>0, <3>2, <4>1, <4>2
      <4>. QED BY <3>3, <3>7, <4>3
    <3>. QED BY <1>1, <2>0, <3>3, <3>6, <3>8 DEF Opened, Counted
  <2>4. CASE F!TakeLine
    <3>. DEFINE n == F!LineEnd(rd.buf)
    <3>1. /\ rd.pc = "read" /\ F!HasLine(rd.buf) /\ rd'.pc = "send" /\ rd'.file = rd.file
          /\ rd'.off = rd.off /\ rd'.pos = rd.pos /\ rd'.eof = FALSE
          /\ rd'.line = SubSeq(rd.buf, 1, n - 1)
          /\ rd'.buf = SubSeq(rd.buf, n + 1, Len(rd.buf))
      BY <2>4, TakeLineFields
    <3>2. n \in 1 .. Len(rd.buf)
      BY <1>1, <3>1, LineEndIs
    <3>. HIDE DEF n
    <3>3. Whole(rd'.buf)
      BY <1>1, <3>1, <3>2, WholeTail DEF Counted
    <3>4. Len(rd'.line) = n - 1 /\ Len(rd'.buf) = Len(rd.buf) - n
      BY <1>1, <3>1, <3>2
    <3>5. rd'.off = rd'.pos + Len(rd'.buf) + (Len(rd'.line) + 1)
      <4>1. rd.off = rd.pos + Len(rd.buf)
        BY <1>1, <3>1 DEF Counted
      <4>2. n \in Nat
        BY <1>0, <3>2
      <4>. QED BY <1>0, <3>1, <3>4, <4>1, <4>2
    <3>. QED BY <1>1, <2>0, <3>1, <3>3, <3>5 DEF Opened, Counted
  <2>5. CASE F!TakeRest
    <3>1. rd.buf = <<>>
      BY <2>5, NothingLeftOver
    <3>. QED BY <1>1, <2>0, <2>5, <3>1, TakeRestFields DEF Opened, Counted
  <2>6. CASE F!Send
    <3>1. /\ rd.pc = "send" /\ rd'.pc = "top" /\ rd'.file = rd.file
          /\ rd'.off = rd.off /\ rd'.buf = rd.buf /\ rd'.eof = FALSE
          /\ rd'.pos = rd.pos + (Len(rd.line) + 1)
      BY <2>6, SendFields DEF Counted
    <3>2. rd'.off = rd'.pos + Len(rd'.buf)
      <4>1. rd.off = rd.pos + Len(rd.buf) + (Len(rd.line) + 1)
        BY <1>1, <3>1 DEF Counted
      <4>. QED BY <1>0, <3>1, <4>1
    <3>. QED BY <1>1, <2>0, <3>1, <3>2 DEF Opened, Counted
  <2>7. CASE F!GiveUp
    BY <1>1, <2>0, <2>7, GiveUpFields DEF Opened, Counted
  <2>8. CASE F!Poll
    <3>1. Whole(<<>>) /\ Len(<<>>) = 0
      BY DEF Whole
    <3>. QED BY <1>1, <2>0, <2>8, <3>1, PollFields DEF Opened, Counted
  <2>. QED BY <1>2, <2>1, <2>2, <2>3, <2>4, <2>5, <2>6, <2>7, <2>8 DEF F!Read
<1>3. CASE FileStep /\ F!WriteFile
  <2>1. PICK more \in Seq(Nat) :
          /\ path \in 1 .. Len(disk)
          /\ disk' = [disk EXCEPT ![path] = disk[path] \o more]
          /\ WholeLines => Whole(more)
    BY <1>3, WriteFields
  <2>2. UNCHANGED <<path, cuts, rd>> /\ Len(disk') = Len(disk)
    BY <1>3, WriteType
  <2>3. disk[path] \in Seq(Nat) /\ Whole(disk[path])
    BY <1>1, <2>1, DiskType DEF Counted
  <2>4. Whole(disk[path] \o more)
    BY <2>1, <2>3, WholeAppend
  <2>5. DOMAIN disk' = DOMAIN disk /\ \A f \in DOMAIN disk' : Whole(disk'[f])
    BY <1>1, <2>1, <2>4 DEF Counted
  <2>. QED BY <2>2, <2>5 DEF Opened, Counted
<1>4. CASE FileStep /\ F!Truncate
  <2>1. /\ disk' = [disk EXCEPT ![path] = <<>>] /\ cuts' = cuts + 1
        /\ UNCHANGED <<path, rd>>
    BY <1>4 DEF F!Truncate
  <2>2. DOMAIN disk' = DOMAIN disk /\ \A f \in DOMAIN disk' : Whole(disk'[f])
    BY <1>1, <2>1 DEF Counted, Whole
  <2>3. Len(disk') = Len(disk) /\ cuts' # 0
    BY <1>1, <2>1
  <2>. QED BY <2>1, <2>2, <2>3 DEF Opened, Counted
<1>5. CASE FileStep /\ F!MoveAway
  <2>1. path' = 0 /\ cuts' = cuts + 1 /\ UNCHANGED <<disk, rd>>
    BY <1>5 DEF F!MoveAway
  <2>2. cuts' # 0
    BY <1>1, <2>1
  <2>. QED BY <2>1, <2>2 DEF Opened, Counted
<1>6. CASE FileStep /\ F!Create
  <2>1. /\ path = 0 /\ disk' = Append(disk, <<>>) /\ path' = Len(disk) + 1
        /\ UNCHANGED <<cuts, rd>>
    BY <1>6 DEF F!Create
  <2>2. \A f \in DOMAIN disk' : Whole(disk'[f])
    BY <1>1, <2>1 DEF Counted, Whole
  <2>3. path' = 1 => FALSE
    <3>1. Len(disk) >= 1
      BY DEF TypeInv, Opened
    <3>. QED BY <1>1, <2>1, <3>1
  <2>4. cuts' # 0
    BY <2>1 DEF Opened
  <2>. QED BY <2>1, <2>2, <2>3, <2>4 DEF Opened, Counted
<1>7. CASE ~(FileStep /\ (F!Read \/ F!WriteFile \/ F!Truncate \/ F!MoveAway \/ F!Create))
  <2>1. UNCHANGED <<disk, path, cuts, rd>>
    BY <1>7, OthersKeepFile
  <2>. QED BY <2>1 DEF Opened, Counted
<1>. QED BY <1>2, <1>3, <1>4, <1>5, <1>6, <1>7

-----------------------------------------------------------------------------
(* Bytes are read once and in order.                                       *)

\* Some of the bytes to come, in their order, are as well ordered as all.
LEMMA OrderedPart ==
  ASSUME NEW lines, NEW s, NEW t, NEW w, Ordered(lines, s, w),
         NEW f, \A i \in DOMAIN t : f[i] \in DOMAIN s /\ t[i] = s[f[i]],
         \A i, j \in DOMAIN t : i < j => f[i] < f[j]
  PROVE  Ordered(lines, t, w)
BY DEF Ordered, Rising

\* Some of the last ones are left out.
LEMMA OrderedTail ==
  ASSUME NEW lines, NEW a \in Seq(Nat), NEW s \in Seq(Nat), NEW m \in 0 .. Len(s), NEW w,
         Ordered(lines, a \o s, w)
  PROVE  Ordered(lines, a \o SubSeq(s, m + 1, Len(s)), w)
<1>. DEFINE c == SubSeq(s, m + 1, Len(s))
            n == Len(a)
            x == a \o s
            y == a \o c
            f == [i \in 1 .. n + (Len(s) - m) |-> IF i <= n THEN i ELSE i + m]
<1>1. n \in Nat /\ Len(s) \in Nat /\ m \in Nat /\ m <= Len(s)
  OBVIOUS
<1>2. c \in Seq(Nat) /\ Len(c) = Len(s) - m /\ \A i \in 1 .. Len(s) - m : c[i] = s[m + i]
  BY SuffixIs
<1>. HIDE DEF c
<1>3. /\ x \in Seq(Nat) /\ DOMAIN x = 1 .. n + Len(s)
      /\ \A i \in 1 .. n + Len(s) : x[i] = IF i <= n THEN a[i] ELSE s[i - n]
  BY ConcatProperties, LenProperties
<1>4. /\ y \in Seq(Nat) /\ DOMAIN y = 1 .. n + (Len(s) - m)
      /\ \A i \in 1 .. n + (Len(s) - m) : y[i] = IF i <= n THEN a[i] ELSE c[i - n]
  <2>1. /\ y \in Seq(Nat) /\ Len(y) = n + Len(c)
        /\ \A i \in 1 .. n + Len(c) : y[i] = IF i <= n THEN a[i] ELSE c[i - n]
    BY <1>2, ConcatProperties
  <2>2. DOMAIN y = 1 .. n + Len(c)
    BY <2>1, LenProperties
  <2>. HIDE DEF y, n
  <2>. QED BY <1>2, <2>1, <2>2
<1>. HIDE DEF x, y, n
<1>5. \A i \in DOMAIN y : f[i] \in DOMAIN x /\ y[i] = x[f[i]]
  <2>. SUFFICES ASSUME NEW i \in 1 .. n + (Len(s) - m) PROVE f[i] \in DOMAIN x /\ y[i] = x[f[i]]
    BY <1>4
  <2>1. CASE i <= n
    <3>1. f[i] = i /\ i \in 1 .. n + Len(s)
      BY <1>1, <2>1
    <3>. QED BY <1>3, <1>4, <2>1, <3>1
  <2>2. CASE i > n
    <3>1. f[i] = i + m /\ i + m \in 1 .. n + Len(s) /\ ~(i <= n) /\ ~(i + m <= n)
      BY <1>1, <2>2
    <3>2. i - n \in 1 .. Len(s) - m /\ m + (i - n) = (i + m) - n
      BY <1>1, <2>2
    <3>3. y[i] = c[i - n] /\ x[i + m] = s[(i + m) - n]
      BY <1>3, <1>4, <3>1
    <3>. QED BY <1>2, <1>3, <3>1, <3>2, <3>3
  <2>. QED BY <1>1, <2>1, <2>2
<1>6. \A i, j \in DOMAIN y : i < j => f[i] < f[j]
  BY <1>1, <1>4
<1>7. Ordered(lines, x, w)
  BY DEF x
<1>8. Ordered(lines, y, w)
  <2>. HIDE DEF f
  <2>. QED BY <1>5, <1>6, <1>7, OrderedPart
<1>. QED BY <1>8 DEF y, c

\* More bytes come, all above those before.
LEMMA OrderedMore ==
  ASSUME NEW lines \in Seq(Seq(Nat)), NEW s \in Seq(Nat), NEW t \in Seq(Nat),
         NEW w \in Nat, NEW v \in Nat, w <= v, Ordered(lines, s, w), Rising(t),
         \A j \in DOMAIN t : t[j] <= v /\ (t[j] # F!Newline => t[j] > w)
  PROVE  Ordered(lines, s \o t, v)
<1>. DEFINE x == s \o t
            n == Len(s)
            m == Len(t)
<1>1. n \in Nat /\ m \in Nat /\ DOMAIN s = 1 .. n /\ DOMAIN t = 1 .. m
  OBVIOUS
<1>2. /\ x \in Seq(Nat) /\ DOMAIN x = 1 .. n + m
      /\ \A i \in 1 .. n + m : x[i] = IF i <= n THEN s[i] ELSE t[i - n]
  BY ConcatProperties, LenProperties
<1>3. \A i \in DOMAIN x : \/ i \in DOMAIN s /\ x[i] = s[i]
                          \/ i > n /\ i - n \in DOMAIN t /\ x[i] = t[i - n]
  <2>. HIDE DEF x, n, m
  <2>. QED BY <1>1, <1>2
<1>4. \A i \in DOMAIN s : s[i] <= w /\ s[i] \in Nat
  BY DEF Ordered
<1>5. \A i \in DOMAIN t : t[i] \in Nat
  OBVIOUS
<1>6. \A k \in DOMAIN lines : \A i \in DOMAIN lines[k] : lines[k][i] \in Nat /\ lines[k][i] <= w
  <2>. SUFFICES ASSUME NEW k \in DOMAIN lines, NEW i \in DOMAIN lines[k]
                PROVE  lines[k][i] \in Nat /\ lines[k][i] <= w
    OBVIOUS
  <2>1. lines[k] \in Seq(Nat)
    OBVIOUS
  <2>2. lines[k][i] \in Nat
    BY <2>1
  <2>. QED BY <2>2 DEF Ordered
<1>. HIDE DEF x, n, m
<1>7. \A i \in DOMAIN x : x[i] \in Nat /\ x[i] <= v
  <2>. SUFFICES ASSUME NEW i \in DOMAIN x PROVE x[i] \in Nat /\ x[i] <= v
    OBVIOUS
  <2>1. CASE i \in DOMAIN s /\ x[i] = s[i]
    <3>1. s[i] \in Nat /\ s[i] <= w
      BY <1>4, <2>1
    <3>. QED BY <2>1, <3>1
  <2>2. CASE i > n /\ i - n \in DOMAIN t /\ x[i] = t[i - n]
    BY <1>5, <2>2
  <2>. QED BY <1>3, <2>1, <2>2
<1>8. Rising(x)
  <2>. SUFFICES ASSUME NEW i \in DOMAIN x, NEW j \in DOMAIN x, i < j,
                       x[i] # F!Newline, x[j] # F!Newline
                PROVE  x[i] < x[j]
    BY DEF Rising
  <2>1. CASE j \in DOMAIN s /\ x[j] = s[j]
    <3>1. i \in DOMAIN s /\ x[i] = s[i]
      BY <1>1, <1>2, <1>3, <2>1
    <3>. QED BY <2>1, <3>1 DEF Ordered, Rising
  <2>2. CASE j > n /\ j - n \in DOMAIN t /\ x[j] = t[j - n]
    <3>1. t[j - n] > w /\ t[j - n] \in Nat
      BY <1>5, <2>2
    <3>2. CASE i \in DOMAIN s /\ x[i] = s[i]
      <4>1. s[i] <= w /\ s[i] \in Nat
        BY <1>4, <3>2
      <4>. QED BY <2>2, <3>1, <3>2, <4>1
    <3>3. CASE i > n /\ i - n \in DOMAIN t /\ x[i] = t[i - n]
      <4>1. i - n < j - n
        BY <1>1, <1>2, <2>2, <3>3
      <4>. QED BY <2>2, <3>3, <4>1 DEF Rising
    <3>. QED BY <1>3, <3>2, <3>3
  <2>. QED BY <1>3, <2>1, <2>2
<1>9. \A k \in DOMAIN lines : \A i \in DOMAIN lines[k] :
        lines[k][i] <= v /\ \A j \in DOMAIN x : x[j] # F!Newline => lines[k][i] < x[j]
  <2>. SUFFICES ASSUME NEW k \in DOMAIN lines, NEW i \in DOMAIN lines[k]
                PROVE  /\ lines[k][i] <= v
                       /\ \A j \in DOMAIN x : x[j] # F!Newline => lines[k][i] < x[j]
    OBVIOUS
  <2>1. lines[k][i] \in Nat /\ lines[k][i] <= w
    BY <1>6
  <2>2. ASSUME NEW j \in DOMAIN x, x[j] # F!Newline PROVE lines[k][i] < x[j]
    <3>1. CASE j \in DOMAIN s /\ x[j] = s[j]
      BY <2>2, <3>1 DEF Ordered
    <3>2. CASE j > n /\ j - n \in DOMAIN t /\ x[j] = t[j - n]
      <4>1. t[j - n] > w /\ t[j - n] \in Nat
        BY <1>5, <2>2, <3>2
      <4>. QED BY <2>1, <3>2, <4>1
    <3>. QED BY <1>3, <3>1, <3>2
  <2>. QED BY <2>1, <2>2
<1>10. Ordered(lines, x, v)
  BY <1>7, <1>8, <1>9 DEF Ordered
<1>. QED BY <1>10 DEF x

\* The next line is taken.
LEMMA OrderedTake ==
  ASSUME NEW lines \in Seq(Seq(Nat)), NEW b \in Seq(Nat), NEW s \in Seq(Nat), NEW w \in Nat,
         Ordered(lines, b \o s, w), NEW n \in 1 .. Len(b),
         \A i \in 1 .. n - 1 : b[i] # F!Newline
  PROVE  Ordered(Append(lines, SubSeq(b, 1, n - 1)), SubSeq(b, n + 1, Len(b)) \o s, w)
<1>. DEFINE x == b \o s
            l == SubSeq(b, 1, n - 1)
            c == SubSeq(b, n + 1, Len(b))
            y == c \o s
            more == Append(lines, l)
            L == Len(lines)
<1>1. n \in Nat /\ n # 0 /\ Len(b) \in Nat /\ n <= Len(b) /\ Len(s) \in Nat /\ L \in Nat
  OBVIOUS
<1>2. l \in Seq(Nat) /\ DOMAIN l = 1 .. n - 1 /\ \A i \in 1 .. n - 1 : l[i] = b[i]
  <2>1. n - 1 \in 0 .. Len(b)
    BY <1>1
  <2>2. l \in Seq(Nat) /\ Len(l) = n - 1 /\ \A i \in 1 .. n - 1 : l[i] = b[i]
    BY <2>1, PrefixIs
  <2>. HIDE DEF l
  <2>. QED BY <2>2, LenProperties
<1>3. c \in Seq(Nat) /\ Len(c) = Len(b) - n /\ \A i \in 1 .. Len(b) - n : c[i] = b[n + i]
  <2>1. n \in 0 .. Len(b)
    BY <1>1
  <2>. QED BY <2>1, SuffixIs
<1>. HIDE DEF c, l
<1>4. /\ x \in Seq(Nat) /\ DOMAIN x = 1 .. Len(b) + Len(s)
      /\ \A i \in 1 .. Len(b) + Len(s) : x[i] = IF i <= Len(b) THEN b[i] ELSE s[i - Len(b)]
  BY ConcatProperties, LenProperties
<1>5. /\ DOMAIN y = 1 .. (Len(b) - n) + Len(s)
      /\ \A i \in 1 .. (Len(b) - n) + Len(s) :
           y[i] = IF i <= Len(b) - n THEN c[i] ELSE s[i - (Len(b) - n)]
  <2>1. /\ y \in Seq(Nat) /\ Len(y) = Len(c) + Len(s)
        /\ \A i \in 1 .. Len(c) + Len(s) : y[i] = IF i <= Len(c) THEN c[i] ELSE s[i - Len(c)]
    BY <1>3, ConcatProperties
  <2>2. DOMAIN y = 1 .. Len(c) + Len(s)
    BY <2>1, LenProperties
  <2>. HIDE DEF y
  <2>. QED BY <1>3, <2>1, <2>2
<1>6. DOMAIN lines = 1 .. L /\ DOMAIN more = 1 .. L + 1 /\ more[L + 1] = l
      /\ \A k \in 1 .. L : more[k] = lines[k]
  BY <1>2, AppendProperties
<1>. HIDE DEF x, y, more, L
<1>7. \A i \in DOMAIN y : n + i \in DOMAIN x /\ n + i > n /\ y[i] = x[n + i]
  <2>. SUFFICES ASSUME NEW i \in 1 .. (Len(b) - n) + Len(s)
                PROVE  n + i \in DOMAIN x /\ n + i > n /\ y[i] = x[n + i]
    BY <1>5
  <2>1. n + i \in 1 .. Len(b) + Len(s) /\ n + i > n
    BY <1>1
  <2>2. CASE i <= Len(b) - n
    <3>1. i \in 1 .. Len(b) - n /\ n + i <= Len(b)
      BY <1>1, <2>2
    <3>. QED BY <1>3, <1>4, <1>5, <2>1, <2>2, <3>1
  <2>3. CASE ~(i <= Len(b) - n)
    <3>1. ~(n + i <= Len(b)) /\ i - (Len(b) - n) = (n + i) - Len(b)
      BY <1>1, <2>3
    <3>. QED BY <1>4, <1>5, <2>1, <2>3, <3>1
  <2>. QED BY <2>2, <2>3
<1>8. \A i \in DOMAIN l : i \in DOMAIN x /\ i < n /\ l[i] = x[i] /\ x[i] # F!Newline /\ i \in Nat
  <2>. SUFFICES ASSUME NEW i \in 1 .. n - 1
                PROVE  i \in DOMAIN x /\ i < n /\ l[i] = x[i] /\ x[i] # F!Newline /\ i \in Nat
    BY <1>2
  <2>1. i \in 1 .. Len(b) + Len(s) /\ i < n /\ i <= Len(b) /\ i \in Nat
    BY <1>1
  <2>. QED BY <1>2, <1>4, <2>1
<1>9. Ordered(lines, x, w)
  BY DEF x
<1>10. /\ InOrder(lines) /\ Rising(x) /\ \A j \in DOMAIN x : x[j] <= w
       /\ \A k \in DOMAIN lines : \A i \in DOMAIN lines[k] :
            /\ lines[k][i] <= w
            /\ \A j \in DOMAIN x : x[j] # F!Newline => lines[k][i] < x[j]
  BY <1>9 DEF Ordered
<1>11. \A i \in DOMAIN y : i \in Nat
  BY <1>1, <1>5
<1>12. Rising(y) /\ \A j \in DOMAIN y : y[j] <= w
  <2>1. \A i, j \in DOMAIN y : i < j => n + i < n + j
    BY <1>1, <1>11
  <2>. QED BY <1>7, <1>10, <2>1 DEF Rising
<1>13. \A k \in DOMAIN more : (k \in DOMAIN lines /\ k <= L /\ more[k] = lines[k])
                             \/ (k = L + 1 /\ more[k] = l)
  BY <1>1, <1>6
<1>14. \A k \in DOMAIN more : \A i \in DOMAIN more[k] :
         more[k][i] <= w /\ \A j \in DOMAIN y : y[j] # F!Newline => more[k][i] < y[j]
  <2>. SUFFICES ASSUME NEW k \in DOMAIN more, NEW i \in DOMAIN more[k]
                PROVE  /\ more[k][i] <= w
                       /\ \A j \in DOMAIN y : y[j] # F!Newline => more[k][i] < y[j]
    OBVIOUS
  <2>1. CASE k \in DOMAIN lines /\ k <= L /\ more[k] = lines[k]
    BY <1>7, <1>10, <2>1
  <2>2. CASE k = L + 1 /\ more[k] = l
    <3>1. i \in DOMAIN x /\ i < n /\ l[i] = x[i] /\ x[i] # F!Newline /\ i \in Nat
      BY <1>8, <2>2
    <3>2. \A j \in DOMAIN y : i < n + j
      BY <1>1, <1>11, <3>1
    <3>. QED BY <1>7, <1>10, <2>2, <3>1, <3>2 DEF Rising
  <2>. QED BY <1>13, <2>1, <2>2
<1>15. InOrder(more)
  <2>. SUFFICES ASSUME NEW k \in DOMAIN more, NEW m \in DOMAIN more,
                       NEW i \in DOMAIN more[k], NEW j \in DOMAIN more[m],
                       k < m \/ (k = m /\ i < j)
                PROVE  more[k][i] < more[m][j]
    BY DEF InOrder
  <2>0. k \in Nat /\ m \in Nat
    BY <1>1, <1>6
  <2>1. CASE m \in DOMAIN lines /\ m <= L /\ more[m] = lines[m]
    <3>1. k \in DOMAIN lines /\ more[k] = lines[k]
      <4>1. k # L + 1
        BY <1>1, <2>0, <2>1
      <4>. QED BY <1>13, <4>1
    <3>. QED BY <1>10, <2>1, <3>1 DEF InOrder
  <2>2. CASE m = L + 1 /\ more[m] = l
    <3>1. j \in DOMAIN x /\ l[j] = x[j] /\ x[j] # F!Newline
      BY <1>8, <2>2
    <3>2. CASE k \in DOMAIN lines /\ more[k] = lines[k]
      BY <1>10, <2>2, <3>1, <3>2
    <3>3. CASE k = L + 1
      <4>1. more[k] = l /\ i < j
        BY <1>6, <2>0, <2>2, <3>3
      <4>2. i \in DOMAIN x /\ l[i] = x[i] /\ x[i] # F!Newline
        BY <1>8, <4>1
      <4>. QED BY <1>10, <2>2, <3>1, <4>1, <4>2 DEF Rising
    <3>. QED BY <1>13, <3>2, <3>3
  <2>. QED BY <1>13, <2>1, <2>2
<1>16. Ordered(more, y, w)
  BY <1>12, <1>14, <1>15 DEF Ordered
<1>. QED BY <1>16 DEF more, y, c, l

\* Of a longer sequence more is left.
LEMMA SuffixOfLonger ==
  ASSUME NEW s \in Seq(Nat), NEW t \in Seq(Nat), NEW m \in 0 .. Len(s)
  PROVE  SubSeq(s \o t, m + 1, Len(s \o t)) = SubSeq(s, m + 1, Len(s)) \o t
<1>. DEFINE x == s \o t
            y == SubSeq(x, m + 1, Len(x))
            c == SubSeq(s, m + 1, Len(s))
            z == c \o t
<1>1. Len(s) \in Nat /\ Len(t) \in Nat /\ m \in Nat /\ m <= Len(s)
  OBVIOUS
<1>2. /\ x \in Seq(Nat) /\ Len(x) = Len(s) + Len(t)
      /\ \A i \in 1 .. Len(s) + Len(t) : x[i] = IF i <= Len(s) THEN s[i] ELSE t[i - Len(s)]
  BY ConcatProperties
<1>3. /\ c \in Seq(Nat) /\ Len(c) = Len(s) - m
      /\ \A i \in 1 .. Len(s) - m : c[i] = s[m + i]
  BY SuffixIs
<1>. HIDE DEF x, c
<1>4. /\ y \in Seq(Nat) /\ Len(y) = Len(x) - m
      /\ \A i \in 1 .. Len(x) - m : y[i] = x[m + i]
  <2>1. m \in 0 .. Len(x)
    BY <1>1, <1>2
  <2>. QED BY <1>2, <2>1, SuffixIs
<1>5. /\ z \in Seq(Nat) /\ Len(z) = Len(c) + Len(t)
      /\ \A i \in 1 .. Len(c) + Len(t) : z[i] = IF i <= Len(c) THEN c[i] ELSE t[i - Len(c)]
  BY <1>3, ConcatProperties
<1>. HIDE DEF y, z
<1>6. Len(y) = (Len(s) - m) + Len(t) /\ Len(z) = (Len(s) - m) + Len(t)
  BY <1>1, <1>2, <1>3, <1>4, <1>5
<1>7. \A i \in 1 .. (Len(s) - m) + Len(t) : y[i] = z[i]
  <2>. SUFFICES ASSUME NEW i \in 1 .. (Len(s) - m) + Len(t) PROVE y[i] = z[i]
    OBVIOUS
  <2>1. y[i] = x[m + i] /\ m + i \in 1 .. Len(s) + Len(t)
    <3>1. i \in 1 .. Len(x) - m /\ m + i \in 1 .. Len(s) + Len(t)
      <4>1. Len(x) = Len(s) + Len(t)
        BY <1>2
      <4>. QED BY <1>1, <4>1
    <3>. QED BY <1>4, <3>1
  <2>2. z[i] = IF i <= Len(s) - m THEN c[i] ELSE t[i - (Len(s) - m)]
    BY <1>3, <1>5
  <2>3. x[m + i] = IF m + i <= Len(s) THEN s[m + i] ELSE t[(m + i) - Len(s)]
    BY <1>2, <2>1
  <2>4. CASE i <= Len(s) - m
    <3>1. m + i <= Len(s) /\ i \in 1 .. Len(s) - m
      BY <1>1, <2>4
    <3>. QED BY <1>3, <2>1, <2>2, <2>3, <2>4, <3>1
  <2>5. CASE ~(i <= Len(s) - m)
    <3>1. ~(m + i <= Len(s)) /\ (m + i) - Len(s) = i - (Len(s) - m)
      BY <1>1, <2>5
    <3>. QED BY <2>1, <2>2, <2>3, <2>5, <3>1
  <2>. QED BY <2>4, <2>5
<1>8. y = z
  BY <1>4, <1>5, <1>6, <1>7, SeqEqual
<1>. QED BY <1>8 DEF x, y, c, z

\* A file that was never moved is the first, and the one that is read.
LEMMA FirstFile ==
  ASSUME TypeInv, Opened, path = 1
  PROVE  /\ 1 \in 1 .. Len(disk) /\ disk[1] \in Seq(Nat) /\ Len(disk[1]) \in Nat
         /\ rd.off \in Nat /\ rd.buf \in Seq(Nat) /\ rd.line \in Seq(Nat) /\ written \in Nat
         /\ Ahead \in Seq(Nat) /\ Handed \in Seq(Seq(Nat)) /\ Read(File) \in Seq(Seq(Nat))
         /\ rd.pc \notin {"open", "done"} => rd.file = 1
<1>1. /\ Len(disk) = 1 /\ rd.off \in Nat /\ rd.buf \in Seq(Nat) /\ rd.line \in Seq(Nat)
      /\ rd.file \in 0 .. Len(disk) /\ written \in Nat
      /\ rd.file = 0 => rd.pc \in {"open", "done"}
  BY IngestAssumption DEF TypeInv, TypeOK, F!TypeOK, F!Reader, Opened
<1>2. 1 \in 1 .. Len(disk) /\ (rd.pc \notin {"open", "done"} => rd.file = 1)
  BY <1>1
<1>3. disk[1] \in Seq(Nat) /\ Len(disk[1]) \in Nat
  BY <1>2, DiskType
<1>4. Ahead \in Seq(Nat)
  <2>1. CASE Len(disk[1]) < rd.off
    BY <1>3, <2>1 DEF Ahead
  <2>2. CASE ~(Len(disk[1]) < rd.off)
    <3>1. rd.off \in 0 .. Len(disk[1])
      BY <1>1, <1>3, <2>2
    <3>2. SubSeq(disk[1], rd.off + 1, Len(disk[1])) \in Seq(Nat)
      BY <1>3, <3>1, SuffixIs
    <3>. QED BY <2>2, <3>2 DEF Ahead
  <2>. QED BY <2>1, <2>2
<1>5. Read(File) \in Seq(Seq(Nat))
  BY LinesRead
<1>6. Handed \in Seq(Seq(Nat))
  BY <1>1, <1>5 DEF Handed
<1>. QED BY <1>1, <1>2, <1>3, <1>4, <1>5, <1>6

\* A step of the reader.
LEMMA OnceRead ==
  ASSUME TypeInv, Opened, Counted, OnceInv, FileStep, F!Read
  PROVE  OnceInv'
<1>. SUFFICES ASSUME path' = 1 PROVE OnceInv'
  BY DEF OnceInv
<1>1. UNCHANGED <<disk, path, written, stored>> /\ path = 1
  BY ReadType DEF FileStep
<1>2. /\ disk[1] \in Seq(Nat) /\ Len(disk[1]) \in Nat
      /\ rd.off \in Nat /\ rd.buf \in Seq(Nat) /\ rd.line \in Seq(Nat) /\ written \in Nat
      /\ Ahead \in Seq(Nat) /\ Handed \in Seq(Seq(Nat)) /\ Read(File) \in Seq(Seq(Nat))
      /\ rd.pc \notin {"open", "done"} => rd.file = 1
  BY <1>1, FirstFile
<1>3. /\ InOrder(Read(File))
      /\ rd.pc # "done" => Ordered(Handed, rd.buf \o Ahead, written)
  BY <1>1 DEF OnceInv
\* What is left to show of each step.
<1>4. ASSUME InOrder(Read(File)'),
             rd'.pc # "done" => Ordered(Handed', rd'.buf \o Ahead', written)
      PROVE  OnceInv'
  BY <1>1, <1>4 DEF OnceInv
<1>5. rd'.off = rd.off => Ahead' = Ahead
  BY <1>1 DEF Ahead
<1>6. UNCHANGED ingest => Read(File)' = Read(File)
  BY <1>1 DEF Read
<1>7. CASE F!Open
  <2>1. rd.pc = "open" /\ rd'.pc \in {"done", "top"} /\ rd'.off = rd.off /\ rd'.buf = rd.buf
        /\ UNCHANGED ingest
    BY <1>7, OpenFields
  <2>2. Handed' = Handed
    BY <1>6, <2>1 DEF Handed
  <2>. QED BY <1>3, <1>4, <1>5, <1>6, <2>1, <2>2
<1>8. CASE F!Top
  <2>1. rd.pc = "top" /\ rd'.pc \in {"done", "read"} /\ rd'.off = rd.off /\ rd'.buf = rd.buf
        /\ UNCHANGED ingest
    BY <1>8, TopFields
  <2>2. Handed' = Handed
    BY <1>6, <2>1 DEF Handed
  <2>. QED BY <1>3, <1>4, <1>5, <1>6, <2>1, <2>2
<1>9. CASE F!Fill
  <2>. DEFINE m == SubSeq(disk[1], rd.off + 1, Len(disk[1]))
  <2>1. /\ rd.pc = "read" /\ rd'.pc = "read" /\ rd.off < Len(disk[1])
        /\ rd'.off = Len(disk[1]) /\ rd'.buf = rd.buf \o m /\ UNCHANGED ingest
    <3>1. rd.pc = "read" /\ rd.file = 1
      BY <1>2, <1>9, FillFields
    <3>. QED BY <1>9, <3>1, FillFields
  <2>2. Ahead = m
    <3>1. ~(Len(disk[1]) < rd.off)
      BY <1>2, <2>1
    <3>. QED BY <3>1 DEF Ahead
  <2>3. Ahead' = <<>>
    <3>1. Ahead' = SubSeq(disk[1], Len(disk[1]) + 1, Len(disk[1]))
      BY <1>1, <1>2, <2>1 DEF Ahead
    <3>2. Len(disk[1]) + 1 \in Int /\ Len(disk[1]) \in Int /\ Len(disk[1]) < Len(disk[1]) + 1
      BY <1>2
    <3>. QED BY <3>1, <3>2, SubSeqEmpty
  <2>. HIDE DEF m
  <2>4. rd'.buf \o Ahead' = rd.buf \o Ahead
    <3>1. rd.buf \o m \in Seq(Nat)
      BY <1>2, <2>2
    <3>2. (rd.buf \o m) \o <<>> = rd.buf \o m
      BY <3>1
    <3>. QED BY <2>1, <2>2, <2>3, <3>2
  <2>5. Handed' = Handed
    BY <1>6, <2>1 DEF Handed
  <2>. QED BY <1>3, <1>4, <1>6, <2>1, <2>4, <2>5
<1>10. CASE F!TakeLine
  <2>. DEFINE n == F!LineEnd(rd.buf)
  <2>1. /\ rd.pc = "read" /\ F!HasLine(rd.buf) /\ rd'.pc = "send" /\ rd'.off = rd.off
        /\ rd'.line = SubSeq(rd.buf, 1, n - 1)
        /\ rd'.buf = SubSeq(rd.buf, n + 1, Len(rd.buf))
        /\ UNCHANGED ingest
    BY <1>10, TakeLineFields
  <2>2. n \in 1 .. Len(rd.buf) /\ \A i \in 1 .. n - 1 : rd.buf[i] # F!Newline
    BY <1>2, <2>1, LineEndIs
  <2>. HIDE DEF n
  <2>3. Handed = Read(File) /\ Handed' = Append(Read(File), rd'.line)
    BY <1>6, <2>1 DEF Handed
  <2>4. Ordered(Append(Read(File), SubSeq(rd.buf, 1, n - 1)),
                SubSeq(rd.buf, n + 1, Len(rd.buf)) \o Ahead, written)
    <3>1. Ordered(Read(File), rd.buf \o Ahead, written)
      BY <1>3, <2>1, <2>3
    <3>. QED BY <1>2, <2>2, <3>1, OrderedTake
  <2>. QED BY <1>3, <1>4, <1>5, <1>6, <2>1, <2>3, <2>4
<1>11. CASE F!TakeRest
  <2>1. rd.buf = <<>>
    BY <1>11, NothingLeftOver
  <2>2. rd.pc = "read" /\ rd'.pc = "poll" /\ rd'.off = rd.off /\ rd'.buf = rd.buf
        /\ UNCHANGED ingest
    BY <1>11, <2>1, TakeRestFields
  <2>3. Handed' = Handed
    BY <1>6, <2>2 DEF Handed
  <2>. QED BY <1>3, <1>4, <1>5, <1>6, <2>2, <2>3
<1>12. CASE F!Send
  <2>1. /\ rd.pc = "send" /\ rd'.pc = "top" /\ rd'.off = rd.off /\ rd'.buf = rd.buf
        /\ ingest' = Append(ingest, [src |-> File, bytes |-> rd.line])
    BY <1>12, SendFields DEF Counted
  <2>. DEFINE r == [src |-> File, bytes |-> rd.line]
  <2>2. r \in Row /\ r.src = File /\ r.bytes = rd.line
    BY <1>2 DEF Row
  <2>3. ingest' = Append(ingest, r)
    BY <2>1
  <2>. HIDE DEF r
  <2>4. Read(File)' = Append(Read(File), rd.line)
    BY <1>1, <2>2, <2>3, Sending DEF Read
  <2>5. Handed' = Handed /\ Read(File)' = Handed
    BY <2>1, <2>4 DEF Handed
  <2>6. Ordered(Handed, rd.buf \o Ahead, written)
    BY <1>3, <2>1
  <2>7. InOrder(Read(File)')
    BY <2>5, <2>6 DEF Ordered
  <2>. QED BY <1>4, <1>5, <2>1, <2>5, <2>6, <2>7
<1>13. CASE F!GiveUp
  BY <1>3, <1>4, <1>6, <1>13, GiveUpFields
<1>14. CASE F!Poll
  <2>1. /\ rd.pc = "poll" /\ rd'.pc = "top" /\ rd'.buf = <<>> /\ UNCHANGED ingest
        /\ \/ rd'.off = rd.off
           \/ Len(disk[1]) < rd.pos /\ rd'.off = 0
    BY <1>1, <1>14, PollFields
  <2>2. rd.buf = <<>> /\ rd.off = rd.pos + Len(rd.buf)
    <3>1. rd.pos \in Nat
      BY DEF TypeInv, TypeOK, F!TypeOK, F!Reader
    <3>2. rd.off = rd.pos + Len(rd.buf) + 0
      BY <2>1 DEF Counted
    <3>. QED BY <1>2, <2>1, <3>1, <3>2 DEF Opened
  <2>3. Handed' = Handed
    BY <1>6, <2>1 DEF Handed
  <2>4. Ahead' = Ahead
    <3>1. CASE rd'.off = rd.off
      BY <1>5, <3>1
    <3>2. CASE Len(disk[1]) < rd.pos /\ rd'.off = 0
      <4>1. rd.off = rd.pos
        <5>1. rd.pos \in Nat /\ Len(<<>>) = 0
          BY DEF TypeInv, TypeOK, F!TypeOK, F!Reader
        <5>. QED BY <2>2, <5>1
      <4>2. Ahead = disk[1]
        BY <3>2, <4>1 DEF Ahead
      <4>3. Ahead' = SubSeq(disk[1], 1, Len(disk[1]))
        BY <1>1, <1>2, <3>2 DEF Ahead
      <4>. QED BY <1>2, <4>2, <4>3, SubSeqFull
    <3>. QED BY <2>1, <3>1, <3>2
  <2>. QED BY <1>3, <1>4, <1>6, <2>1, <2>2, <2>3, <2>4
<1>. QED BY <1>7, <1>8, <1>9, <1>10, <1>11, <1>12, <1>13, <1>14 DEF F!Read

\* A write.
LEMMA OnceWrite ==
  ASSUME TypeInv, Opened, OnceInv, FileStep, F!WriteFile
  PROVE  OnceInv'
<1>. SUFFICES ASSUME path' = 1 PROVE OnceInv'
  BY DEF OnceInv
<1>1. UNCHANGED <<path, rd, ingest, stored>> /\ path = 1
  BY WriteType DEF FileStep
<1>2. /\ disk[1] \in Seq(Nat) /\ Len(disk[1]) \in Nat /\ 1 \in 1 .. Len(disk)
      /\ rd.off \in Nat /\ rd.buf \in Seq(Nat)
      /\ Ahead \in Seq(Nat) /\ Handed \in Seq(Seq(Nat))
  BY <1>1, FirstFile
<1>3. Read(File)' = Read(File) /\ Handed' = Handed
  BY <1>1 DEF Read, Handed
<1>4. InOrder(Read(File))
  BY <1>1 DEF OnceInv
<1>. SUFFICES ASSUME rd.pc # "done" PROVE Ordered(Handed, rd.buf \o Ahead', written')
  BY <1>1, <1>3, <1>4 DEF OnceInv
<1>5. Ordered(Handed, rd.buf \o Ahead, written)
  BY <1>1 DEF OnceInv
<1>6. PICK more \in Seq(Nat) :
        /\ disk' = [disk EXCEPT ![path] = disk[path] \o more]
        /\ Rising(more) /\ written \in Nat /\ written' \in Nat /\ written <= written'
        /\ \A i \in DOMAIN more :
             more[i] <= written' /\ (more[i] # F!Newline => more[i] > written)
  BY WriteFields
<1>. DEFINE s == disk[1]
            t == s \o more
            b == rd.buf
            o == rd.off
            v == written'
            a == Ahead
<1>7. disk'[1] = t /\ t \in Seq(Nat) /\ Len(t) \in Nat
  <2>1. disk \in Seq(Seq(0 .. MaxBytes))
    BY DEF TypeInv, TypeOK, F!TypeOK
  <2>2. disk'[1] = t
    <3>. HIDE DEF t
    <3>1. disk' = [disk EXCEPT ![1] = t]
      BY <1>1, <1>6 DEF t
    <3>2. 1 \in DOMAIN disk
      BY <1>2, <2>1
    <3>. QED BY <3>1, <3>2
  <2>3. t \in Seq(Nat) /\ Len(t) \in Nat
    BY <1>2
  <2>. QED BY <2>2, <2>3
<1>8. Ahead' = IF Len(t) < o THEN t ELSE SubSeq(t, o + 1, Len(t))
  BY <1>1, <1>7 DEF Ahead
<1>9. a = IF Len(s) < o THEN s ELSE SubSeq(s, o + 1, Len(s))
  BY DEF Ahead
<1>10. /\ s \in Seq(Nat) /\ b \in Seq(Nat) /\ o \in Nat /\ v \in Nat /\ a \in Seq(Nat)
       /\ Ordered(Handed, b \o a, written)
  BY <1>2, <1>5, <1>6
<1>. HIDE DEF s, b, o, v, a
<1>11. Ordered(Handed, b \o (a \o more), v)
  <2>1. b \o a \in Seq(Nat)
    BY <1>10
  <2>. DEFINE x == b \o a
  <2>2. x \in Seq(Nat) /\ Ordered(Handed, x, written)
    BY <1>10, <2>1
  <2>. HIDE DEF x
  <2>3. Ordered(Handed, x \o more, v)
    BY <1>2, <1>6, <2>2, OrderedMore DEF v
  <2>4. (b \o a) \o more = b \o (a \o more)
    <3>1. b \in Seq(Nat) /\ a \in Seq(Nat) /\ more \in Seq(Nat)
      BY <1>10
    <3>. QED BY <3>1, ConcatAssociative
  <2>. QED BY <2>3, <2>4 DEF x
<1>12. CASE Len(s) < o
  <2>1. Ordered(Handed, b \o t, v)
    BY <1>9, <1>11, <1>12
  <2>. HIDE DEF t
  <2>2. CASE Len(t) < o
    BY <1>8, <2>1, <2>2 DEF b, v
  <2>3. CASE ~(Len(t) < o)
    <3>1. o \in 0 .. Len(t)
      BY <1>7, <1>10, <2>3
    <3>2. Ordered(Handed, b \o SubSeq(t, o + 1, Len(t)), v)
      BY <1>7, <1>10, <2>1, <3>1, OrderedTail
    <3>. QED BY <1>8, <2>3, <3>2 DEF b, v
  <2>. QED BY <2>2, <2>3
<1>13. CASE ~(Len(s) < o)
  <2>1. o \in 0 .. Len(s) /\ Len(s) \in Nat
    BY <1>2, <1>10, <1>13 DEF s
  <2>2. SubSeq(t, o + 1, Len(t)) = SubSeq(s, o + 1, Len(s)) \o more
    BY <1>10, <2>1, SuffixOfLonger
  <2>3. ~(Len(t) < o)
    <3>1. Len(t) = Len(s) + Len(more) /\ Len(more) \in Nat
      BY <1>10
    <3>. HIDE DEF t
    <3>. QED BY <1>10, <2>1, <3>1
  <2>. HIDE DEF t
  <2>4. Ahead' = a \o more
    BY <1>8, <1>9, <1>13, <2>2, <2>3
  <2>. QED BY <1>11, <2>4 DEF b, v
<1>. QED BY <1>12, <1>13

\* Every step keeps the order of what was read and what is to come.
LEMMA OnceStep ==
  ASSUME TypeInv, Opened, Counted, OnceInv, [Next]_vars
  PROVE  OnceInv'
<1>1. CASE FileStep /\ F!Read
  BY <1>1, OnceRead
<1>2. CASE FileStep /\ F!WriteFile
  BY <1>2, OnceWrite
<1>3. CASE FileStep /\ F!Truncate
  <2>. SUFFICES ASSUME path' = 1 PROVE OnceInv'
    BY DEF OnceInv
  <2>1. /\ disk' = [disk EXCEPT ![path] = <<>>] /\ path = 1
        /\ UNCHANGED <<path, written, rd, ingest, stored>>
    BY <1>3 DEF FileStep, F!Truncate
  <2>2. /\ 1 \in 1 .. Len(disk) /\ rd.off \in Nat /\ rd.buf \in Seq(Nat)
        /\ Ahead \in Seq(Nat) /\ Handed \in Seq(Seq(Nat))
    BY <2>1, FirstFile
  <2>3. disk'[1] = <<>>
    <3>1. disk \in Seq(Seq(0 .. MaxBytes))
      BY DEF TypeInv, TypeOK, F!TypeOK
    <3>. QED BY <2>1, <2>2, <3>1
  <2>4. Ahead' = <<>>
    <3>1. SubSeq(<<>>, rd.off + 1, 0) = <<>>
      <4>1. rd.off + 1 \in Int /\ 0 \in Int /\ 0 < rd.off + 1
        BY <2>2
      <4>. QED BY <4>1, SubSeqEmpty
    <3>2. Len(<<>>) = 0
      OBVIOUS
    <3>. QED BY <2>1, <2>3, <3>1, <3>2 DEF Ahead
  <2>5. Read(File)' = Read(File) /\ Handed' = Handed
    BY <2>1 DEF Read, Handed
  <2>6. ASSUME rd.pc # "done" PROVE Ordered(Handed, rd.buf \o <<>>, written)
    <3>. DEFINE a == Ahead
                n == Len(a)
    <3>1. a \in Seq(Nat) /\ n \in Nat
      BY <2>2
    <3>2. SubSeq(a, n + 1, n) = <<>>
      <4>1. n + 1 \in Int /\ n \in Int /\ n < n + 1
        BY <3>1
      <4>. HIDE DEF n, a
      <4>. QED BY <4>1, SubSeqEmpty
    <3>3. Ordered(Handed, rd.buf \o a, written)
      BY <2>1, <2>6 DEF OnceInv
    <3>. HIDE DEF a
    <3>4. n \in 0 .. Len(a)
      BY <3>1
    <3>5. Ordered(Handed, rd.buf \o SubSeq(a, n + 1, Len(a)), written)
      BY <2>2, <3>1, <3>3, <3>4, OrderedTail
    <3>. QED BY <3>2, <3>5
  <2>. QED BY <2>1, <2>4, <2>5, <2>6 DEF OnceInv
<1>4. CASE FileStep /\ F!MoveAway
  BY <1>4 DEF F!MoveAway, OnceInv
<1>5. CASE FileStep /\ F!Create
  <2>1. path' = Len(disk) + 1 /\ Len(disk) >= 1 /\ Len(disk) \in Nat
    BY <1>5 DEF F!Create, Opened, TypeInv, TypeOK, F!TypeOK
  <2>. QED BY <2>1 DEF OnceInv
<1>6. CASE ~(FileStep /\ (F!Read \/ F!WriteFile \/ F!Truncate \/ F!MoveAway \/ F!Create))
  <2>1. UNCHANGED <<disk, path, written, rd>> /\ Read(File)' = Read(File)
    BY <1>6, OthersKeepFile
  <2>2. Ahead' = Ahead /\ Handed' = Handed
    BY <2>1 DEF Ahead, Handed
  <2>. QED BY <2>1, <2>2 DEF OnceInv
<1>. QED BY <1>1, <1>2, <1>3, <1>4, <1>5, <1>6

-----------------------------------------------------------------------------
(* A place in a sequence of bytes.                                         *)

\* What a part of a sequence holds.
LEMMA PieceIs ==
  ASSUME NEW s \in Seq(Nat), NEW z \in 0 .. Len(s), NEW a \in 0 .. z
  PROVE  /\ SubSeq(s, a + 1, z) \in Seq(Nat) /\ Len(SubSeq(s, a + 1, z)) = z - a
         /\ \A i \in 1 .. z - a : SubSeq(s, a + 1, z)[i] = s[a + i]
<1>0. Len(s) \in Nat /\ z \in Nat /\ a \in Nat
  OBVIOUS
<1>1. a + 1 \in Int /\ z \in Int
  BY <1>0
<1>2. \A i \in a + 1 .. z : s[i] \in Nat
  <2>1. \A i \in a + 1 .. z : i \in 1 .. Len(s)
    BY <1>0
  <2>. QED BY <2>1
<1>3. /\ SubSeq(s, a + 1, z) \in Seq(Nat)
      /\ Len(SubSeq(s, a + 1, z)) = IF a + 1 <= z THEN z - (a + 1) + 1 ELSE 0
      /\ \A i \in 1 .. z - (a + 1) + 1 : SubSeq(s, a + 1, z)[i] = s[(a + 1) + i - 1]
  BY <1>1, <1>2, SubSeqProperties
<1>4. /\ z - (a + 1) + 1 = z - a
      /\ (IF a + 1 <= z THEN z - (a + 1) + 1 ELSE 0) = z - a
      /\ \A i \in 1 .. z - a : (a + 1) + i - 1 = a + i
  BY <1>0
<1>. QED BY <1>3, <1>4

\* A part of a part.
LEMMA PieceOfPiece ==
  ASSUME NEW s \in Seq(Nat), NEW o \in 0 .. Len(s), NEW c \in 0 .. o,
         NEW b, b = SubSeq(s, c + 1, o), NEW z \in 0 .. Len(b), NEW a \in 0 .. z
  PROVE  SubSeq(b, a + 1, z) = SubSeq(s, (c + a) + 1, c + z)
<1>. DEFINE x == SubSeq(b, a + 1, z)
            y == SubSeq(s, (c + a) + 1, c + z)
<1>1. /\ b \in Seq(Nat) /\ Len(b) = o - c
      /\ \A i \in 1 .. o - c : b[i] = s[c + i]
  BY PieceIs
<1>2. c \in Nat /\ o \in Nat /\ Len(s) \in Nat /\ z \in Nat /\ a \in Nat /\ z <= o - c /\ a <= z
  BY <1>1
<1>3. /\ x \in Seq(Nat) /\ Len(x) = z - a
      /\ \A i \in 1 .. z - a : x[i] = b[a + i]
  BY <1>1, PieceIs
<1>4. /\ y \in Seq(Nat) /\ Len(y) = (c + z) - (c + a)
      /\ \A i \in 1 .. (c + z) - (c + a) : y[i] = s[(c + a) + i]
  <2>1. c + z \in 0 .. Len(s) /\ c + a \in 0 .. c + z
    BY <1>2
  <2>. QED BY <2>1, PieceIs
<1>. HIDE DEF x, y
<1>5. \A i \in 1 .. z - a : a + i \in 1 .. o - c /\ c + (a + i) = (c + a) + i
  BY <1>2
<1>6. (c + z) - (c + a) = z - a
  BY <1>2
<1>7. \A i \in 1 .. z - a : x[i] = y[i]
  BY <1>1, <1>3, <1>4, <1>5, <1>6
<1>8. x = y
  BY <1>3, <1>4, <1>6, <1>7, SeqEqual
<1>. QED BY <1>8 DEF x, y

\* Two parts, one behind the other.
LEMMA PiecesJoin ==
  ASSUME NEW s \in Seq(Nat), NEW z \in 0 .. Len(s), NEW m \in 0 .. z, NEW a \in 0 .. m
  PROVE  SubSeq(s, a + 1, m) \o SubSeq(s, m + 1, z) = SubSeq(s, a + 1, z)
<1>. DEFINE f == SubSeq(s, a + 1, m)
            g == SubSeq(s, m + 1, z)
            x == f \o g
            y == SubSeq(s, a + 1, z)
<1>1. z \in Nat /\ m \in Nat /\ a \in Nat /\ Len(s) \in Nat /\ m <= z /\ a <= m /\ z <= Len(s)
  OBVIOUS
<1>2. /\ f \in Seq(Nat) /\ Len(f) = m - a /\ \A i \in 1 .. m - a : f[i] = s[a + i]
  <2>1. m \in 0 .. Len(s)
    BY <1>1
  <2>. QED BY <2>1, PieceIs
<1>3. /\ g \in Seq(Nat) /\ Len(g) = z - m /\ \A i \in 1 .. z - m : g[i] = s[m + i]
  BY PieceIs
<1>4. /\ y \in Seq(Nat) /\ Len(y) = z - a /\ \A i \in 1 .. z - a : y[i] = s[a + i]
  <2>1. a \in 0 .. z
    BY <1>1
  <2>. QED BY <2>1, PieceIs
<1>. HIDE DEF f, g, y
<1>5. /\ x \in Seq(Nat) /\ Len(x) = Len(f) + Len(g)
      /\ \A i \in 1 .. Len(f) + Len(g) : x[i] = IF i <= Len(f) THEN f[i] ELSE g[i - Len(f)]
  BY <1>2, <1>3, ConcatProperties
<1>. HIDE DEF x
<1>6. Len(f) + Len(g) = z - a
  BY <1>1, <1>2, <1>3
<1>7. \A i \in 1 .. z - a : x[i] = y[i]
  <2>. SUFFICES ASSUME NEW i \in 1 .. z - a PROVE x[i] = y[i]
    OBVIOUS
  <2>1. x[i] = IF i <= m - a THEN f[i] ELSE g[i - (m - a)]
    BY <1>2, <1>5, <1>6
  <2>2. CASE i <= m - a
    <3>1. i \in 1 .. m - a
      BY <1>1, <2>2
    <3>. QED BY <1>2, <1>4, <2>1, <2>2, <3>1
  <2>3. CASE ~(i <= m - a)
    <3>1. i - (m - a) \in 1 .. z - m /\ m + (i - (m - a)) = a + i
      BY <1>1, <2>3
    <3>. QED BY <1>3, <1>4, <2>1, <2>3, <3>1
  <2>. QED BY <2>2, <2>3
<1>8. x = y
  BY <1>4, <1>5, <1>6, <1>7, SeqEqual
<1>. QED BY <1>8 DEF x, y, f, g

\* What it means to be the first lines.
LEMMA PrefixMeans ==
  ASSUME NEW T, NEW a \in Seq(T), NEW b \in Seq(T)
  PROVE  IsPrefix(a, b) <=> Len(a) <= Len(b) /\ \A k \in 1 .. Len(a) : a[k] = b[k]
<1>. DEFINE n == Len(a)
<1>1. n \in Nat /\ Len(b) \in Nat /\ SubSeq(a, 1, n) = a
  OBVIOUS
<1>2. ASSUME n <= Len(b)
      PROVE  /\ SubSeq(b, 1, n) \in Seq(T) /\ Len(SubSeq(b, 1, n)) = n
             /\ \A k \in 1 .. n : SubSeq(b, 1, n)[k] = b[k]
  <2>1. \A k \in 1 .. n : b[k] \in T
    BY <1>1, <1>2
  <2>. HIDE DEF n
  <2>2. 1 \in Int /\ n \in Int
    BY <1>1
  <2>3. /\ SubSeq(b, 1, n) \in Seq(T)
        /\ Len(SubSeq(b, 1, n)) = IF 1 <= n THEN n - 1 + 1 ELSE 0
        /\ \A i \in 1 .. n - 1 + 1 : SubSeq(b, 1, n)[i] = b[1 + i - 1]
    BY <2>1, <2>2, SubSeqProperties
  <2>4. /\ n - 1 + 1 = n /\ (IF 1 <= n THEN n - 1 + 1 ELSE 0) = n
        /\ \A i \in 1 .. n : 1 + i - 1 = i
    BY <1>1
  <2>. QED BY <2>3, <2>4
<1>3. ASSUME IsPrefix(a, b) PROVE n <= Len(b) /\ \A k \in 1 .. n : a[k] = b[k]
  <2>1. n <= Len(b) /\ a = SubSeq(b, 1, n)
    BY <1>1, <1>3 DEF IsPrefix
  <2>. DEFINE c == SubSeq(b, 1, n)
  <2>2. \A k \in 1 .. n : c[k] = b[k]
    BY <1>2, <2>1
  <2>3. a = c
    BY <2>1
  <2>. HIDE DEF c, n
  <2>. QED BY <2>1, <2>2, <2>3
<1>4. ASSUME n <= Len(b), \A k \in 1 .. n : a[k] = b[k] PROVE IsPrefix(a, b)
  <2>. DEFINE c == SubSeq(b, 1, n)
  <2>1. c \in Seq(T) /\ Len(c) = n /\ \A k \in 1 .. n : c[k] = a[k]
    BY <1>2, <1>4
  <2>. HIDE DEF c
  <2>2. c = a
    BY <2>1, SeqEqual
  <2>. QED BY <1>1, <1>4, <2>2 DEF IsPrefix, c
<1>. QED BY <1>3, <1>4

\* The first of the first are first.
LEMMA PrefixOfPrefix ==
  ASSUME NEW a \in Seq(Seq(Nat)), NEW b \in Seq(Seq(Nat)), NEW c \in Seq(Seq(Nat)),
         IsPrefix(a, b), IsPrefix(b, c)
  PROVE  IsPrefix(a, c)
<1>1. Len(a) <= Len(b) /\ \A k \in 1 .. Len(a) : a[k] = b[k]
  BY PrefixMeans
<1>2. Len(b) <= Len(c) /\ \A k \in 1 .. Len(b) : b[k] = c[k]
  BY PrefixMeans
<1>3. Len(a) \in Nat /\ Len(b) \in Nat /\ Len(c) \in Nat
  OBVIOUS
<1>4. Len(a) <= Len(c) /\ \A k \in 1 .. Len(a) : a[k] = c[k]
  <2>1. \A k \in 1 .. Len(a) : k \in 1 .. Len(b)
    BY <1>1, <1>3
  <2>. QED BY <1>1, <1>2, <1>3, <2>1
<1>. QED BY <1>4, PrefixMeans

\* Places where lines end, among those of the bytes.
LEMMA EndsType ==
  ASSUME NEW s \in Seq(Nat)
  PROVE  Newlines(s) \in SUBSET (1 .. Len(s)) /\ Ends(s) \in SUBSET Newlines(s)
BY DEF Newlines, Ends

\* More bytes leave them where they are.
LEMMA EndsOfLonger ==
  ASSUME NEW s \in Seq(Nat), NEW t \in Seq(Nat), NEW d \in 0 .. Len(s)
  PROVE  /\ Newlines(s \o t) \cap 1 .. d = Newlines(s) \cap 1 .. d
         /\ Ends(s \o t) \cap 1 .. d = Ends(s) \cap 1 .. d
         /\ Newlines(s) \cap 1 .. Len(s) = Newlines(s) /\ Ends(s) \cap 1 .. Len(s) = Ends(s)
<1>. DEFINE x == s \o t
<1>1. /\ x \in Seq(Nat) /\ Len(x) = Len(s) + Len(t) /\ Len(s) \in Nat /\ Len(t) \in Nat
      /\ \A i \in 1 .. Len(s) : x[i] = s[i]
  OBVIOUS
<1>2. DOMAIN x = 1 .. Len(x) /\ DOMAIN s = 1 .. Len(s)
  BY <1>1
<1>. HIDE DEF x
<1>3. \A i \in 1 .. d : i \in 1 .. Len(s) /\ i \in 1 .. Len(x) /\ i \in Nat
  BY <1>1
<1>4. \A i \in 1 .. d : i \in Newlines(x) <=> i \in Newlines(s)
  BY <1>1, <1>2, <1>3 DEF Newlines
<1>5. \A i \in 1 .. d : i > 1 => i - 1 \in 1 .. Len(s)
  BY <1>1
<1>6. \A i \in 1 .. d : i \in Ends(x) <=> i \in Ends(s)
  BY <1>1, <1>4, <1>5 DEF Ends
<1>7. \A i \in Newlines(s) : i \in 1 .. Len(s)
  BY <1>2 DEF Newlines
<1>8. \A i \in Ends(s) : i \in Newlines(s)
  BY DEF Ends
<1>. QED BY <1>4, <1>6, <1>7, <1>8 DEF x

\* The lines handed on are the first lines.
LEMMA AtFirstLines ==
  ASSUME NEW s \in Seq(Nat), NEW o \in Nat, NEW b \in Seq(Nat), NEW ends \in SUBSET (1 .. Len(s)),
         NEW lines, At(s, o, b, ends, lines)
  PROVE  IsPrefix(lines, Lines(s, ends))
<1>1. o - Len(b) \in Nat /\ lines = Lines(s, ends \cap 1 .. (o - Len(b)))
  BY DEF At
<1>. QED BY <1>1, LinesPrefix

\* One more line.
LEMMA LinesNext ==
  ASSUME NEW s \in Seq(Nat), NEW ends \in SUBSET Newlines(s),
         NEW d \in 0 .. Len(s), NEW e \in d + 1 .. Len(s), d = 0 \/ s[d] = F!Newline,
         \A i \in d + 1 .. e - 1 : s[i] # F!Newline, e \in ends
  PROVE  Lines(s, ends \cap 1 .. e) = Append(Lines(s, ends \cap 1 .. d), SubSeq(s, d + 1, e - 1))
<1>1. d \in Nat /\ e \in Nat /\ Len(s) \in Nat /\ e > d /\ e <= Len(s)
  OBVIOUS
<1>2. ends \cap 1 .. e = (ends \cap 1 .. d) \cup {e}
  <2>1. \A i \in ends : i \in Nat /\ s[i] = F!Newline /\ i >= 1
    BY EndsType DEF Newlines
  <2>2. \A i \in ends : i \in 1 .. e => i \in 1 .. d \/ i = e
    <3>. SUFFICES ASSUME NEW i \in ends, i \in 1 .. e, i \notin 1 .. d, i # e PROVE FALSE
      OBVIOUS
    <3>1. i \in d + 1 .. e - 1
      BY <1>1
    <3>. QED BY <2>1, <3>1
  <2>3. e \in 1 .. e /\ \A i \in 1 .. d : i \in 1 .. e
    BY <1>1
  <2>. QED BY <2>2, <2>3
<1>3. Lines(s, (ends \cap 1 .. d) \cup {e}) = Append(Lines(s, ends \cap 1 .. d), Line(s, e))
  <2>. DEFINE S == ends \cap 1 .. d
  <2>1. S \in SUBSET (1 .. d) /\ e \in 1 .. Len(s)
    BY <1>1
  <2>. HIDE DEF S
  <2>2. Lines(s, S \cup {e}) = Append(Lines(s, S), Line(s, e))
    BY <1>1, <2>1, LinesGrow
  <2>. QED BY <2>2 DEF S
<1>4. Line(s, e) = SubSeq(s, d + 1, e - 1)
  <2>1. e \in Nat \ {0} /\ d + 1 \in 1 .. e /\ (d + 1) - 1 = d /\ (d = 0 => d + 1 = 1)
    BY <1>1
  <2>2. d + 1 = 1 \/ s[(d + 1) - 1] = F!Newline
    BY <2>1
  <2>. QED BY <2>1, <2>2, LineIs
<1>. QED BY <1>2, <1>3, <1>4

\* The place of a suffix of the buffer.
LEMMA AtRest ==
  ASSUME NEW s \in Seq(Nat), NEW o \in 0 .. Len(s), NEW c \in 0 .. o,
         NEW b, b = SubSeq(s, c + 1, o), NEW n \in 0 .. Len(b), NEW ends, NEW lines,
         c + n = 0 \/ s[c + n] = F!Newline, lines = Lines(s, ends \cap 1 .. c + n)
  PROVE  At(s, o, SubSeq(b, n + 1, Len(b)), ends, lines)
<1>. DEFINE r == SubSeq(b, n + 1, Len(b))
<1>1. b \in Seq(Nat) /\ Len(b) = o - c
  BY PieceIs
<1>2. Len(s) \in Nat /\ o \in Nat /\ c \in Nat /\ n \in Nat /\ n <= o - c
  BY <1>1
<1>3. Len(r) = Len(b) - n
  BY <1>1, SuffixIs
<1>4. r = SubSeq(s, (c + n) + 1, c + Len(b))
  <2>1. Len(b) \in 0 .. Len(b) /\ n \in 0 .. Len(b)
    BY <1>1
  <2>. QED BY <2>1, PieceOfPiece
<1>. HIDE DEF r
<1>5. o - Len(r) = c + n /\ c + Len(b) = o /\ o <= Len(s) /\ c + n >= 0
  BY <1>1, <1>2, <1>3
<1>6. At(s, o, r, ends, lines)
  BY <1>4, <1>5 DEF At
<1>. QED BY <1>6 DEF r

\* The first line of the buffer is taken.
LEMMA AtTake ==
  ASSUME NEW s \in Seq(Nat), NEW o \in Nat, NEW b \in Seq(Nat), NEW ends, NEW lines,
         ends = Newlines(s) \/ (ends = Ends(s) /\ b[1] # F!Newline),
         F!HasLine(b), At(s, o, b, ends, lines)
  PROVE  At(s, o, SubSeq(b, F!LineEnd(b) + 1, Len(b)), ends,
            Append(lines, SubSeq(b, 1, F!LineEnd(b) - 1)))
<1>. DEFINE n == F!LineEnd(b)
            c == o - Len(b)
            l == SubSeq(b, 1, n - 1)
<1>1. n \in 1 .. Len(b) /\ b[n] = F!Newline /\ \A i \in 1 .. n - 1 : b[i] # F!Newline
  BY LineEndIs
<1>2. /\ o <= Len(s) /\ c >= 0 /\ b = SubSeq(s, c + 1, o)
      /\ c = 0 \/ s[c] = F!Newline
      /\ lines = Lines(s, ends \cap 1 .. c)
  BY DEF At
<1>3. Len(b) \in Nat /\ Len(s) \in Nat
  OBVIOUS
<1>4. c \in 0 .. o /\ o \in 0 .. Len(s) /\ c \in 0 .. Len(s) /\ Len(b) = o - c /\ c \in Nat
  <2>1. o <= Len(s) /\ c >= 0
    BY <1>2
  <2>. QED BY <1>3, <2>1
<1>. HIDE DEF c, n, l
<1>5. \A i \in 1 .. Len(b) : b[i] = s[c + i]
  <2>1. \A i \in 1 .. o - c : SubSeq(s, c + 1, o)[i] = s[c + i]
    BY <1>4, PieceIs
  <2>. QED BY <1>2, <1>4, <2>1
<1>6. s[c + n] = F!Newline /\ \A i \in c + 1 .. (c + n) - 1 : s[i] # F!Newline
  <2>1. s[c + n] = F!Newline
    BY <1>1, <1>5
  <2>2. ASSUME NEW i \in c + 1 .. (c + n) - 1 PROVE s[i] # F!Newline
    <3>1. n \in Nat
      BY <1>1
    <3>2. i - c \in 1 .. n - 1 /\ i - c \in 1 .. Len(b) /\ c + (i - c) = i
      BY <1>1, <1>3, <1>4, <3>1
    <3>. QED BY <1>1, <1>5, <3>2
  <2>. QED BY <2>1, <2>2
<1>7. /\ c + n \in 1 .. Len(s) /\ c + n \in c + 1 .. Len(s)
      /\ n \in 0 .. Len(b) /\ n - 1 \in 0 .. Len(b) /\ 0 \in 0 .. n - 1
  BY <1>1, <1>3, <1>4
<1>8. c + n \in Newlines(s)
  BY <1>6, <1>7 DEF Newlines
<1>9. c + n \in ends
  <2>1. CASE ends = Newlines(s)
    BY <1>8, <2>1
  <2>2. CASE ends = Ends(s) /\ b[1] # F!Newline
    <3>1. n # 1 /\ n \in Nat
      BY <1>1, <2>2
    <3>2. c + n > 1 /\ (c + n) - 1 \in c + 1 .. (c + n) - 1
      BY <1>1, <1>4, <3>1
    <3>3. s[(c + n) - 1] # F!Newline
      BY <1>6, <3>2
    <3>. QED BY <1>8, <2>2, <3>2, <3>3 DEF Ends
  <2>. QED BY <2>1, <2>2
<1>10. Lines(s, ends \cap 1 .. c + n) = Append(Lines(s, ends \cap 1 .. c), SubSeq(s, c + 1, (c + n) - 1))
  <2>1. ends \in SUBSET Newlines(s)
    BY EndsType
  <2>. DEFINE e == c + n
  <2>2. e \in c + 1 .. Len(s) /\ e \in ends /\ \A i \in c + 1 .. e - 1 : s[i] # F!Newline
    BY <1>6, <1>7, <1>9
  <2>. HIDE DEF e
  <2>3. Lines(s, ends \cap 1 .. e) = Append(Lines(s, ends \cap 1 .. c), SubSeq(s, c + 1, e - 1))
    BY <1>2, <1>4, <2>1, <2>2, LinesNext
  <2>. QED BY <2>3 DEF e
<1>11. l = SubSeq(s, c + 1, (c + n) - 1)
  <2>1. SubSeq(b, 0 + 1, n - 1) = SubSeq(s, (c + 0) + 1, c + (n - 1))
    <3>. DEFINE z == n - 1
    <3>1. /\ z \in 0 .. Len(b) /\ 0 \in 0 .. z /\ o \in 0 .. Len(s) /\ c \in 0 .. o
          /\ b = SubSeq(s, c + 1, o)
      BY <1>2, <1>4, <1>7
    <3>. HIDE DEF z
    <3>2. SubSeq(b, 0 + 1, z) = SubSeq(s, (c + 0) + 1, c + z)
      BY <3>1, PieceOfPiece
    <3>. QED BY <3>2 DEF z
  <2>2. n \in Nat
    BY <1>1
  <2>3. (c + 0) + 1 = c + 1 /\ c + (n - 1) = (c + n) - 1 /\ 0 + 1 = 1
    BY <1>4, <2>2
  <2>. QED BY <2>1, <2>3 DEF l
<1>. DEFINE more == Append(lines, l)
<1>12. more = Lines(s, ends \cap 1 .. c + n)
  BY <1>2, <1>10, <1>11
<1>. HIDE DEF more
<1>13. At(s, o, SubSeq(b, n + 1, Len(b)), ends, more)
  BY <1>2, <1>4, <1>6, <1>7, <1>12, AtRest
<1>. QED BY <1>13 DEF more, l, n

-----------------------------------------------------------------------------
(* What was read of a file that was never cut.                             *)

\* More bytes behind, none of them taken yet.
LEMMA AtLonger ==
  ASSUME NEW s \in Seq(Nat), NEW t \in Seq(Nat), NEW o \in Nat, NEW b \in Seq(Nat), NEW lines
  PROVE  /\ At(s, o, b, Newlines(s), lines) => At(s \o t, o, b, Newlines(s \o t), lines)
         /\ At(s, Len(s), b, Ends(s), lines) =>
              At(s \o t, Len(s \o t), b \o t, Ends(s \o t), lines)
         /\ IsPrefix(LinesOf(s), LinesOf(s \o t))
         /\ IsPrefix(NotEmptyLinesOf(s), NotEmptyLinesOf(s \o t))
<1>. DEFINE x == s \o t
<1>1. /\ x \in Seq(Nat) /\ Len(x) = Len(s) + Len(t) /\ Len(s) \in Nat /\ Len(t) \in Nat
      /\ \A i \in 1 .. Len(s) : x[i] = s[i]
  OBVIOUS
<1>2. Len(b) \in Nat
  OBVIOUS
\* A place in s is one in the longer sequence.
<1>3. ASSUME NEW c \in 0 .. Len(s)
      PROVE  /\ c = 0 \/ s[c] = F!Newline => c = 0 \/ x[c] = F!Newline
             /\ Lines(x, Newlines(x) \cap 1 .. c) = Lines(s, Newlines(s) \cap 1 .. c)
             /\ Lines(x, Ends(x) \cap 1 .. c) = Lines(s, Ends(s) \cap 1 .. c)
  <2>1. Newlines(x) \cap 1 .. c = Newlines(s) \cap 1 .. c /\ Ends(x) \cap 1 .. c = Ends(s) \cap 1 .. c
    BY EndsOfLonger
  <2>2. Newlines(s) \cap 1 .. c \in SUBSET (1 .. Len(s)) /\ Ends(s) \cap 1 .. c \in SUBSET (1 .. Len(s))
    BY EndsType
  <2>3. /\ Lines(x, Newlines(s) \cap 1 .. c) = Lines(s, Newlines(s) \cap 1 .. c)
        /\ Lines(x, Ends(s) \cap 1 .. c) = Lines(s, Ends(s) \cap 1 .. c)
    BY <2>2, LinesOfLonger
  <2>4. c # 0 => c \in 1 .. Len(s)
    BY <1>1
  <2>. HIDE DEF x
  <2>. QED BY <1>1, <2>1, <2>3, <2>4
<1>4. ASSUME At(s, o, b, Newlines(s), lines) PROVE At(x, o, b, Newlines(x), lines)
  <2>. DEFINE c == o - Len(b)
  <2>1. /\ o <= Len(s) /\ c >= 0 /\ b = SubSeq(s, c + 1, o)
        /\ c = 0 \/ s[c] = F!Newline
        /\ lines = Lines(s, Newlines(s) \cap 1 .. c)
    BY <1>4 DEF At
  <2>2. o \in 0 .. Len(s) /\ c \in 0 .. o /\ c \in 0 .. Len(s) /\ o \in 0 .. Len(x) /\ o <= Len(x)
        /\ c >= 0
    BY <1>1, <1>2, <2>1
  <2>3. b = SubSeq(x, c + 1, o)
    <3>. DEFINE g == SubSeq(x, c + 1, o)
    <3>1. b \in Seq(Nat) /\ Len(b) = o - c /\ \A i \in 1 .. o - c : b[i] = s[c + i]
      <4>. HIDE DEF c
      <4>. QED BY <2>1, <2>2, PieceIs
    <3>2. g \in Seq(Nat) /\ Len(g) = o - c /\ \A i \in 1 .. o - c : g[i] = x[c + i]
      <4>. HIDE DEF c, x
      <4>. QED BY <1>1, <2>2, PieceIs
    <3>. HIDE DEF g, c, x
    <3>3. \A i \in 1 .. o - c : c + i \in 1 .. Len(s)
      BY <1>1, <2>2
    <3>4. b = g
      BY <1>1, <3>1, <3>2, <3>3, SeqEqual
    <3>. QED BY <3>4 DEF g
  <2>4. /\ c = 0 \/ x[c] = F!Newline
        /\ lines = Lines(x, Newlines(x) \cap 1 .. c)
    <3>. HIDE DEF c, x
    <3>. QED BY <1>3, <2>1, <2>2
  <2>. HIDE DEF x
  <2>. QED BY <2>2, <2>3, <2>4 DEF At
<1>5. ASSUME At(s, Len(s), b, Ends(s), lines) PROVE At(x, Len(x), b \o t, Ends(x), lines)
  <2>. DEFINE c == Len(s) - Len(b)
              y == b \o t
  <2>1. /\ c >= 0 /\ b = SubSeq(s, c + 1, Len(s))
        /\ c = 0 \/ s[c] = F!Newline
        /\ lines = Lines(s, Ends(s) \cap 1 .. c)
    BY <1>5 DEF At
  <2>2. c \in 0 .. Len(s)
    BY <1>1, <1>2, <2>1
  <2>3. y = SubSeq(x, c + 1, Len(x))
    <3>. HIDE DEF c
    <3>. QED BY <2>1, <2>2, SuffixOfLonger
  <2>4. Len(y) = Len(b) + Len(t)
    BY ConcatProperties
  <2>5. /\ c = 0 \/ x[c] = F!Newline
        /\ lines = Lines(x, Ends(x) \cap 1 .. c)
    <3>. HIDE DEF c, x
    <3>. QED BY <1>3, <2>1, <2>2
  <2>. HIDE DEF x, y
  <2>6. Len(x) - Len(y) = c /\ Len(x) <= Len(x)
    BY <1>1, <1>2, <2>4
  <2>. HIDE DEF c
  <2>7. At(x, Len(x), y, Ends(x), lines)
    BY <2>1, <2>3, <2>5, <2>6 DEF At
  <2>. QED BY <2>7 DEF y
<1>6. IsPrefix(LinesOf(s), LinesOf(x)) /\ IsPrefix(NotEmptyLinesOf(s), NotEmptyLinesOf(x))
  <2>1. Len(s) \in 0 .. Len(s)
    BY <1>1
  <2>2. /\ Lines(x, Newlines(x) \cap 1 .. Len(s)) = Lines(s, Newlines(s))
        /\ Lines(x, Ends(x) \cap 1 .. Len(s)) = Lines(s, Ends(s))
    <3>1. Newlines(s) \cap 1 .. Len(s) = Newlines(s) /\ Ends(s) \cap 1 .. Len(s) = Ends(s)
      BY <2>1, EndsOfLonger
    <3>. HIDE DEF x
    <3>. QED BY <1>3, <2>1, <3>1
  <2>. HIDE DEF x
  <2>3. Newlines(x) \in SUBSET (1 .. Len(x)) /\ Ends(x) \in SUBSET (1 .. Len(x))
    BY <1>1, EndsType
  <2>4. /\ IsPrefix(Lines(x, Newlines(x) \cap 1 .. Len(s)), Lines(x, Newlines(x)))
        /\ IsPrefix(Lines(x, Ends(x) \cap 1 .. Len(s)), Lines(x, Ends(x)))
    BY <1>1, <2>3, LinesPrefix
  <2>. QED BY <2>2, <2>4 DEF LinesOf, NotEmptyLinesOf, Ends
<1>. QED BY <1>4, <1>5, <1>6

\* A step of the reader.
LEMMA FollowRead ==
  ASSUME TypeInv, Opened, Counted, FollowInv, FileStep, F!Read
  PROVE  FollowInv'
<1>. SUFFICES ASSUME cuts' = 0 PROVE FollowInv'
  BY DEF FollowInv
<1>1. UNCHANGED <<disk, path, cuts, stored>> /\ cuts = 0 /\ path = 1
  BY ReadType DEF FileStep, Opened
<1>2. /\ disk[1] \in Seq(Nat) /\ Len(disk[1]) \in Nat
      /\ rd.off \in Nat /\ rd.buf \in Seq(Nat) /\ rd.line \in Seq(Nat)
      /\ Handed \in Seq(Seq(Nat)) /\ Read(File) \in Seq(Seq(Nat))
      /\ rd.pc \notin {"open", "done"} => rd.file = 1
  BY <1>1, FirstFile
<1>. DEFINE s == disk[1]
            N == Newlines(disk[1])
<1>3. /\ IsPrefix(Read(File), LinesOf(s))
      /\ rd.pc # "done" => At(s, rd.off, rd.buf, N, Handed)
  BY <1>1 DEF FollowInv, FollowsFile
<1>4. ASSUME IsPrefix(Read(File)', LinesOf(s)),
             rd'.pc # "done" => At(s, rd'.off, rd'.buf, N, Handed')
      PROVE  FollowInv'
  BY <1>1, <1>4 DEF FollowInv, FollowsFile
<1>5. UNCHANGED ingest => Read(File)' = Read(File)
  BY <1>1 DEF Read
<1>6. s \in Seq(Nat) /\ Len(s) \in Nat /\ N \in SUBSET (1 .. Len(s)) /\ N = Newlines(s)
  BY <1>2, EndsType
<1>. HIDE DEF s, N
<1>7. CASE F!Open
  <2>1. rd.pc = "open" /\ rd'.pc \in {"done", "top"} /\ rd'.off = rd.off /\ rd'.buf = rd.buf
        /\ UNCHANGED ingest
    BY <1>7, OpenFields
  <2>2. Handed' = Handed
    BY <1>5, <2>1 DEF Handed
  <2>. QED BY <1>3, <1>4, <1>5, <2>1, <2>2
<1>8. CASE F!Top
  <2>1. rd.pc = "top" /\ rd'.pc \in {"done", "read"} /\ rd'.off = rd.off /\ rd'.buf = rd.buf
        /\ UNCHANGED ingest
    BY <1>8, TopFields
  <2>2. Handed' = Handed
    BY <1>5, <2>1 DEF Handed
  <2>. QED BY <1>3, <1>4, <1>5, <2>1, <2>2
<1>9. CASE F!Fill
  <2>1. rd.pc = "read" /\ rd.file = 1
    BY <1>2, <1>9, FillFields
  <2>2. /\ rd'.pc = "read" /\ rd.off < Len(s) /\ rd'.off = Len(s)
        /\ rd'.buf = rd.buf \o SubSeq(s, rd.off + 1, Len(s)) /\ UNCHANGED ingest
    BY <1>9, <2>1, FillFields DEF s
  <2>3. Handed' = Handed
    BY <1>5, <2>1, <2>2 DEF Handed
  <2>. DEFINE c == rd.off - Len(rd.buf)
              o == rd.off
  <2>4. /\ o <= Len(s) /\ c >= 0 /\ rd.buf = SubSeq(s, c + 1, o)
        /\ c = 0 \/ s[c] = F!Newline
        /\ Handed = Lines(s, N \cap 1 .. c)
    BY <1>3, <2>1 DEF At
  <2>5. Len(rd.buf) \in Nat
    BY <1>2
  <2>6. c \in 0 .. o /\ o \in 0 .. Len(s) /\ Len(s) \in 0 .. Len(s) /\ c \in 0 .. Len(s)
    BY <1>2, <1>6, <2>4, <2>5
  <2>. HIDE DEF c, o
  <2>7. rd'.buf = SubSeq(s, c + 1, Len(s))
    BY <1>6, <2>2, <2>4, <2>6, PiecesJoin DEF o
  <2>8. Len(rd'.buf) = Len(s) - c
    BY <1>6, <2>6, <2>7, SuffixIs
  <2>9. Len(s) - Len(rd'.buf) = c /\ Len(s) <= Len(s)
    BY <1>6, <2>6, <2>8
  <2>10. At(s, Len(s), rd'.buf, N, Handed)
    BY <2>4, <2>7, <2>9 DEF At
  <2>. QED BY <1>3, <1>4, <1>5, <2>2, <2>3, <2>10
<1>10. CASE F!TakeLine
  <2>. DEFINE n == F!LineEnd(rd.buf)
  <2>1. /\ rd.pc = "read" /\ F!HasLine(rd.buf) /\ rd'.pc = "send" /\ rd'.off = rd.off
        /\ rd'.line = SubSeq(rd.buf, 1, n - 1)
        /\ rd'.buf = SubSeq(rd.buf, n + 1, Len(rd.buf))
        /\ UNCHANGED ingest
    BY <1>10, TakeLineFields
  <2>2. /\ n \in 1 .. Len(rd.buf) /\ rd.buf[n] = F!Newline
        /\ \A i \in 1 .. n - 1 : rd.buf[i] # F!Newline
    BY <1>2, <2>1, LineEndIs
  <2>3. Handed = Read(File) /\ Handed' = Append(Read(File), rd'.line)
    BY <1>5, <2>1 DEF Handed
  <2>. DEFINE l == SubSeq(rd.buf, 1, n - 1)
              b == SubSeq(rd.buf, n + 1, Len(rd.buf))
  <2>4. At(s, rd.off, rd.buf, N, Handed)
    BY <1>3, <2>1
  <2>. HIDE DEF n
  <2>5. At(s, rd.off, b, N, Append(Handed, l))
    BY <1>2, <1>6, <2>1, <2>4, AtTake DEF n
  <2>8. rd'.buf = b /\ Handed' = Append(Handed, l) /\ rd'.off = rd.off
    BY <2>1, <2>3
  <2>. HIDE DEF b, l
  <2>. QED BY <1>3, <1>4, <1>5, <2>1, <2>5, <2>8
<1>11. CASE F!TakeRest
  <2>1. rd.buf = <<>>
    BY <1>11, NothingLeftOver
  <2>2. rd.pc = "read" /\ rd'.pc = "poll" /\ rd'.off = rd.off /\ rd'.buf = rd.buf
        /\ UNCHANGED ingest
    BY <1>11, <2>1, TakeRestFields
  <2>3. Handed' = Handed
    BY <1>5, <2>2 DEF Handed
  <2>. QED BY <1>3, <1>4, <1>5, <2>2, <2>3
<1>12. CASE F!Send
  <2>1. /\ rd.pc = "send" /\ rd'.pc = "top" /\ rd'.off = rd.off /\ rd'.buf = rd.buf
        /\ ingest' = Append(ingest, [src |-> File, bytes |-> rd.line])
    BY <1>12, SendFields DEF Counted
  <2>. DEFINE r == [src |-> File, bytes |-> rd.line]
  <2>2. r \in Row /\ r.src = File /\ r.bytes = rd.line
    BY <1>2 DEF Row
  <2>3. ingest' = Append(ingest, r)
    BY <2>1
  <2>. HIDE DEF r
  <2>4. Read(File)' = Append(Read(File), rd.line)
    BY <1>1, <2>2, <2>3, Sending DEF Read
  <2>5. Handed' = Handed /\ Read(File)' = Handed
    BY <2>1, <2>4 DEF Handed
  <2>6. At(s, rd.off, rd.buf, N, Handed)
    BY <1>3, <2>1
  <2>7. IsPrefix(Handed, LinesOf(s))
    BY <1>2, <1>6, <2>6, AtFirstLines DEF LinesOf
  <2>. QED BY <1>4, <2>1, <2>5, <2>6, <2>7
<1>13. CASE F!GiveUp
  BY <1>3, <1>4, <1>5, <1>13, GiveUpFields
<1>14. CASE F!Poll
  <2>1. /\ rd.pc = "poll" /\ rd'.pc = "top" /\ rd'.buf = <<>> /\ UNCHANGED ingest
        /\ \/ rd'.off = rd.off
           \/ Len(s) < rd.pos /\ rd'.off = 0
    BY <1>1, <1>14, PollFields DEF s
  <2>2. rd.buf = <<>>
    BY <2>1 DEF Opened
  <2>3. Handed' = Handed
    BY <1>5, <2>1 DEF Handed
  <2>4. At(s, rd.off, rd.buf, N, Handed)
    BY <1>3, <2>1
  \* Nothing was cut, so nothing is shorter than what was read.
  <2>5. ~(Len(s) < rd.pos)
    <3>1. rd.pos \in Nat /\ Len(<<>>) = 0
      BY DEF TypeInv, TypeOK, F!TypeOK, F!Reader
    <3>2. rd.off = rd.pos + Len(rd.buf) + 0
      BY <2>1 DEF Counted
    <3>3. rd.off <= Len(s)
      BY <2>4 DEF At
    <3>4. rd.off = rd.pos
      BY <2>2, <3>1, <3>2
    <3>. QED BY <1>6, <3>1, <3>3, <3>4
  <2>. QED BY <1>3, <1>4, <1>5, <2>1, <2>2, <2>3, <2>4, <2>5
<1>. QED BY <1>7, <1>8, <1>9, <1>10, <1>11, <1>12, <1>13, <1>14 DEF F!Read

\* Every step keeps the place in a file that was never cut.
LEMMA FollowStep ==
  ASSUME TypeInv, Opened, Counted, FollowInv, [Next]_vars
  PROVE  FollowInv'
<1>0. cuts \in Nat
  BY IngestAssumption DEF TypeInv, TypeOK, F!TypeOK
<1>1. CASE FileStep /\ F!Read
  BY <1>1, FollowRead
<1>2. CASE FileStep /\ F!WriteFile
  <2>. SUFFICES ASSUME cuts' = 0 PROVE FollowInv'
    BY DEF FollowInv
  <2>1. UNCHANGED <<path, cuts, rd, ingest, stored>>
    BY <1>2, WriteType DEF FileStep
  <2>2. cuts = 0 /\ path = 1
    BY <2>1 DEF Opened
  <2>3. /\ 1 \in 1 .. Len(disk) /\ disk[1] \in Seq(Nat) /\ rd.off \in Nat /\ rd.buf \in Seq(Nat)
        /\ Read(File) \in Seq(Seq(Nat))
    BY <2>2, FirstFile
  <2>4. PICK more \in Seq(Nat) : disk' = [disk EXCEPT ![path] = disk[path] \o more]
    BY <1>2, WriteFields
  <2>. DEFINE t == disk[1] \o more
  <2>5. disk'[1] = t
    <3>1. disk \in Seq(Seq(0 .. MaxBytes))
      BY DEF TypeInv, TypeOK, F!TypeOK
    <3>. HIDE DEF t
    <3>2. disk' = [disk EXCEPT ![1] = t]
      BY <2>2, <2>4 DEF t
    <3>3. 1 \in DOMAIN disk
      BY <2>3, <3>1
    <3>. QED BY <3>2, <3>3
  <2>6. Read(File)' = Read(File) /\ Handed' = Handed
    BY <2>1 DEF Read, Handed
  <2>7. IsPrefix(Read(File), LinesOf(disk[1]))
    BY <2>2 DEF FollowInv, FollowsFile
  <2>8. IsPrefix(LinesOf(disk[1]), LinesOf(t))
    BY <2>3, <2>4, AtLonger
  <2>9. IsPrefix(Read(File), LinesOf(t))
    <3>1. t \in Seq(Nat)
      BY <2>3, <2>4
    <3>. HIDE DEF t
    <3>2. LinesOf(t) \in Seq(Seq(Nat)) /\ LinesOf(disk[1]) \in Seq(Seq(Nat))
      BY <2>3, <3>1, EndsType, LinesType DEF LinesOf
    <3>. QED BY <2>3, <2>7, <2>8, <3>2, PrefixOfPrefix
  <2>10. rd.pc # "done" => At(t, rd.off, rd.buf, Newlines(t), Handed)
    <3>1. rd.pc # "done" => At(disk[1], rd.off, rd.buf, Newlines(disk[1]), Handed)
      BY <2>2 DEF FollowInv
    <3>. QED BY <2>3, <2>4, <3>1, AtLonger
  <2>. HIDE DEF t
  <2>. QED BY <2>1, <2>5, <2>6, <2>9, <2>10 DEF FollowInv, FollowsFile
<1>3. CASE FileStep /\ (F!Truncate \/ F!MoveAway)
  <2>1. cuts' = cuts + 1
    BY <1>3 DEF F!Truncate, F!MoveAway
  <2>. QED BY <1>0, <2>1 DEF FollowInv
<1>4. CASE FileStep /\ F!Create
  <2>1. path = 0 /\ cuts' = cuts
    BY <1>4 DEF F!Create
  <2>2. cuts' # 0
    BY <2>1 DEF Opened
  <2>. QED BY <2>2 DEF FollowInv
<1>5. CASE ~(FileStep /\ (F!Read \/ F!WriteFile \/ F!Truncate \/ F!MoveAway \/ F!Create))
  <2>1. UNCHANGED <<disk, cuts, rd>> /\ Read(File)' = Read(File)
    BY <1>5, OthersKeepFile
  <2>2. Handed' = Handed
    BY <2>1 DEF Handed
  <2>. QED BY <2>1, <2>2 DEF FollowInv, FollowsFile
<1>. QED BY <1>1, <1>2, <1>3, <1>4, <1>5

-----------------------------------------------------------------------------
(* What was pushed.                                                        *)

\* What is left of n when k are gone and some remain.
LEMMA Remains ==
  ASSUME NEW n \in Nat, NEW k \in Nat, NEW m \in Nat, m = n - k, m # 0
  PROVE  k < n /\ 1 \in 1 .. n - k
OBVIOUS

\* The newlines that are skipped end no line.
LEMMA AtSkip ==
  ASSUME NEW s \in Seq(Nat), NEW b \in Seq(Nat), NEW lines, At(s, Len(s), b, Ends(s), lines),
         NEW k, k = P!Skip(b), NEW rest, rest = SubSeq(b, k + 1, Len(b))
  PROVE  /\ At(s, Len(s), rest, Ends(s), lines) /\ rest \in Seq(Nat)
         /\ rest # <<>> => rest[1] # F!Newline
<1>. DEFINE o == Len(s)
            c == o - Len(b)
<1>1. /\ k \in 0 .. Len(b) /\ \A i \in 1 .. k : b[i] = F!Newline
      /\ k < Len(b) => b[k + 1] # F!Newline
  BY SkipIs
<1>2. /\ c >= 0 /\ b = SubSeq(s, c + 1, o)
      /\ c = 0 \/ s[c] = F!Newline
      /\ lines = Lines(s, Ends(s) \cap 1 .. c)
  BY DEF At
<1>3. Len(b) \in Nat /\ o \in Nat
  OBVIOUS
<1>4. /\ c \in 0 .. o /\ o \in 0 .. Len(s) /\ Len(b) = o - c /\ c \in Nat /\ k \in Nat
      /\ \A i \in c + 1 .. c + k : i - c \in 1 .. k /\ i - c \in 1 .. Len(b) /\ c + (i - c) = i
  <2>1. c >= 0 /\ k \in 0 .. Len(b) /\ c = o - Len(b)
    BY <1>1, <1>2
  <2>. HIDE DEF c, o
  <2>2. k \in Nat /\ k <= Len(b)
    BY <1>3, <2>1
  <2>3. c \in 0 .. o /\ o \in 0 .. Len(s) /\ Len(b) = o - c /\ c \in Nat
    BY <1>3, <2>1 DEF o
  <2>4. \A i \in c + 1 .. c + k : i - c \in 1 .. k /\ i - c \in 1 .. Len(b) /\ c + (i - c) = i
    <3>1. c \in Nat
      BY <2>3
    <3>. QED BY <1>3, <2>2, <3>1
  <2>. QED BY <2>2, <2>3, <2>4
<1>. HIDE DEF c, o
<1>5. \A i \in 1 .. Len(b) : b[i] = s[c + i]
  <2>1. \A i \in 1 .. o - c : SubSeq(s, c + 1, o)[i] = s[c + i]
    BY <1>4, PieceIs
  <2>. QED BY <1>2, <1>4, <2>1
<1>6. \A i \in c + 1 .. c + k : s[i] = F!Newline
  BY <1>1, <1>4, <1>5
<1>7. c + k = 0 \/ s[c + k] = F!Newline
  <2>1. CASE k = 0
    BY <1>2, <1>4, <2>1
  <2>2. CASE k # 0
    <3>0. c \in Nat /\ k \in Nat
      BY <1>4
    <3>1. c + k \in c + 1 .. c + k
      BY <2>2, <3>0
    <3>. QED BY <1>6, <3>1
  <2>. QED BY <2>1, <2>2
<1>8. Ends(s) \cap 1 .. c + k = Ends(s) \cap 1 .. c
  <2>1. ASSUME NEW i \in Ends(s), i \in 1 .. c + k PROVE i \in 1 .. c
    <3>. SUFFICES ASSUME i \notin 1 .. c PROVE FALSE
      OBVIOUS
    <3>1. i \in c + 1 .. c + k /\ i > 1 /\ s[i - 1] # F!Newline
      BY <1>4, <2>1 DEF Ends
    <3>2. i - 1 = c \/ i - 1 \in c + 1 .. c + k
      BY <1>4, <3>1
    <3>3. CASE i - 1 = c
      <4>1. c # 0
        BY <1>4, <3>1, <3>3
      <4>. QED BY <1>2, <3>1, <3>3, <4>1
    <3>4. CASE i - 1 \in c + 1 .. c + k
      BY <1>6, <3>1, <3>4
    <3>. QED BY <3>2, <3>3, <3>4
  <2>2. \A i \in 1 .. c : i \in 1 .. c + k
    BY <1>4
  <2>. QED BY <2>1, <2>2
<1>9. lines = Lines(s, Ends(s) \cap 1 .. c + k)
  BY <1>2, <1>8
<1>10. At(s, o, rest, Ends(s), lines)
  <2>. DEFINE E == Ends(s)
  <2>1. lines = Lines(s, E \cap 1 .. c + k)
    BY <1>9
  <2>. HIDE DEF E
  <2>2. At(s, o, SubSeq(b, k + 1, Len(b)), E, lines)
    BY <1>1, <1>2, <1>4, <1>7, <2>1, AtRest
  <2>. QED BY <2>2 DEF E
<1>11. /\ rest \in Seq(Nat) /\ Len(rest) = Len(b) - k
       /\ \A i \in 1 .. Len(b) - k : rest[i] = b[k + i]
  BY <1>1, SuffixIs
<1>12. rest # <<>> => rest[1] # F!Newline
  <2>. SUFFICES ASSUME rest # <<>> PROVE rest[1] # F!Newline
    OBVIOUS
  <2>1. Len(rest) \in Nat /\ Len(rest) # 0
    BY <1>11
  <2>0. k \in Nat /\ Len(rest) = Len(b) - k
    BY <1>4, <1>11
  <2>2. k < Len(b) /\ 1 \in 1 .. Len(b) - k
    <3>1. Len(b) \in Nat
      BY <1>1, LenProperties
    <3>. QED BY <2>0, <2>1, <3>1, Remains
  <2>. QED BY <1>1, <1>11, <2>2
<1>. QED BY <1>10, <1>11, <1>12 DEF o

\* Types of what the pipe holds.
LEMMA PipeFacts ==
  ASSUME TypeInv
  PROVE  /\ buf \in Seq(Nat) /\ pushed \in Seq(Nat) /\ run.line \in Seq(Nat)
         /\ Read(Stdin) \in Seq(Seq(Nat)) /\ Gathered \in Seq(Seq(Nat))
         /\ Ends(pushed) \in SUBSET (1 .. Len(pushed))
         /\ run.pc \in {"cut", "send", "idle", "wait", "done"}
         /\ run = [pc |-> run.pc, line |-> run.line]
<1>1. /\ buf \in Seq(0 .. MaxPushed) /\ pushed \in Seq(0 .. MaxPushed)
      /\ run \in [pc : {"cut", "send", "idle", "wait", "done"}, line : Seq(1 .. MaxPushed)]
  BY DEF TypeInv, TypeOK, P!TypeOK
<1>2. 0 .. MaxPushed \subseteq Nat /\ 1 .. MaxPushed \subseteq Nat
  BY IngestAssumption
<1>3. buf \in Seq(Nat) /\ pushed \in Seq(Nat)
  BY <1>1, <1>2, SeqMonotonic
<1>4. run.line \in Seq(Nat)
  <2>1. run.line \in Seq(1 .. MaxPushed)
    BY <1>1
  <2>. QED BY <1>2, <2>1, SeqMonotonic
<1>5. Read(Stdin) \in Seq(Seq(Nat))
  BY LinesRead
<1>6. Gathered \in Seq(Seq(Nat))
  BY <1>4, <1>5 DEF Gathered
<1>7. Ends(pushed) \in SUBSET (1 .. Len(pushed))
  BY <1>3, EndsType
<1>. QED BY <1>1, <1>3, <1>4, <1>5, <1>6, <1>7

\* A step of the pipe.
LEMMA PipeMoves ==
  ASSUME TypeInv, PipeInv, PipeStep
  PROVE  PipeInv'
<1>1. UNCHANGED <<stored, down>> /\ P!Next
  BY PipeType DEF PipeStep
<1>2. /\ buf \in Seq(Nat) /\ pushed \in Seq(Nat) /\ run.line \in Seq(Nat)
      /\ Read(Stdin) \in Seq(Seq(Nat)) /\ Gathered \in Seq(Seq(Nat))
      /\ Ends(pushed) \in SUBSET (1 .. Len(pushed))
  BY PipeFacts
<1>3. /\ IsPrefix(Read(Stdin), NotEmptyLinesOf(pushed))
      /\ shut => eofSent \/ removal # "no"
      /\ run.pc # "done" => At(pushed, Len(pushed), buf, Ends(pushed), Gathered)
      /\ (run.pc = "done" /\ removal = "no" /\ ~down) =>
           shut /\ buf = <<>> /\ Read(Stdin) = NotEmptyLinesOf(pushed)
  BY DEF PipeInv, JoinsParts
<1>4. UNCHANGED ingest => Read(Stdin)' = Read(Stdin)
  BY <1>1 DEF Read
<1>5. UNCHANGED <<ingest, run>> => Gathered' = Gathered
  BY <1>4 DEF Gathered
<1>6. CASE P!Push
  <2>1. PICK chunk \in Chunks \cup { <<>> }, eof \in BOOLEAN :
          /\ Len(pushed) + Len(chunk) <= MaxPushed
          /\ buf' = buf \o P!Arrive(chunk) /\ pushed' = pushed \o P!Arrive(chunk)
          /\ shut' = (shut \/ eof) /\ eofSent' = eof
    BY <1>6 DEF P!Push
  <2>2. ~eofSent /\ UNCHANGED <<ingest, run, removal>>
    BY <1>6 DEF P!Push
  <2>. DEFINE a == P!Arrive(chunk)
  <2>3. a \in Seq(Nat)
    <3>1. chunk \in Seq(BOOLEAN)
      <4>1. chunk \in Chunks => chunk \in Seq(BOOLEAN)
        BY IngestAssumption
      <4>2. chunk = <<>> => chunk \in Seq(BOOLEAN)
        OBVIOUS
      <4>. QED BY <2>1, <4>1, <4>2
    <3>2. Len(pushed) \in Nat /\ Len(chunk) \in Nat
      BY <1>2, <3>1
    <3>3. a \in Seq(0 .. Len(pushed) + Len(chunk))
      BY <3>1, <3>2, ArriveIs
    <3>4. 0 .. Len(pushed) + Len(chunk) \subseteq Nat
      BY <3>2
    <3>. HIDE DEF a
    <3>. QED BY <3>3, <3>4, SeqMonotonic
  <2>4. buf' = buf \o a /\ pushed' = pushed \o a
    BY <2>1
  <2>. HIDE DEF a
  <2>5. Len(pushed) \in Nat
    BY <1>2
  <2>6. /\ At(pushed, Len(pushed), buf, Ends(pushed), Gathered) =>
             At(pushed \o a, Len(pushed \o a), buf \o a, Ends(pushed \o a), Gathered)
        /\ IsPrefix(NotEmptyLinesOf(pushed), NotEmptyLinesOf(pushed \o a))
    BY <1>2, <2>3, <2>5, AtLonger
  <2>7. IsPrefix(Read(Stdin), NotEmptyLinesOf(pushed'))
    <3>1. pushed \o a \in Seq(Nat)
      BY <1>2, <2>3
    <3>. DEFINE t == pushed \o a
    <3>2. t \in Seq(Nat) /\ pushed' = t /\ IsPrefix(NotEmptyLinesOf(pushed), NotEmptyLinesOf(t))
      BY <2>4, <2>6, <3>1
    <3>. HIDE DEF t
    <3>3. NotEmptyLinesOf(t) \in Seq(Seq(Nat)) /\ NotEmptyLinesOf(pushed) \in Seq(Seq(Nat))
      <4>1. Ends(t) \in SUBSET (1 .. Len(t))
        BY <3>2, EndsType
      <4>2. Lines(t, Ends(t)) \in Seq(Seq(Nat)) /\ Lines(pushed, Ends(pushed)) \in Seq(Seq(Nat))
        BY <1>2, <3>2, <4>1, LinesType
      <4>. QED BY <4>2 DEF NotEmptyLinesOf, Ends
    <3>. QED BY <1>2, <1>3, <3>2, <3>3, PrefixOfPrefix
  <2>8. Read(Stdin)' = Read(Stdin) /\ Gathered' = Gathered
    BY <1>4, <1>5, <2>2
  <2>9. run'.pc # "done" => At(pushed', Len(pushed'), buf', Ends(pushed'), Gathered')
    BY <1>3, <2>2, <2>4, <2>6, <2>8
  <2>10. ~(run'.pc = "done" /\ removal' = "no" /\ ~down')
    BY <1>1, <1>3, <2>2
  <2>11. shut' => eofSent' \/ removal' # "no"
    BY <1>3, <2>1, <2>2
  <2>. QED BY <2>7, <2>8, <2>9, <2>10, <2>11 DEF PipeInv, JoinsParts, Ends, Newlines
<1>7. CASE P!PushNotify \/ P!RemoveClose \/ P!RemoveNotify \/ P!RemoveCancel
  <2>1. UNCHANGED <<ingest, run, pushed, buf, eofSent>>
    BY <1>7 DEF P!PushNotify, P!RemoveClose, P!RemoveNotify, P!RemoveCancel
  <2>2. (UNCHANGED <<shut, removal>>) \/ removal' # "no"
    BY <1>7 DEF P!PushNotify, P!RemoveClose, P!RemoveNotify, P!RemoveCancel
  <2>3. Read(Stdin)' = Read(Stdin) /\ Gathered' = Gathered
    BY <1>4, <1>5, <2>1
  <2>. QED BY <1>1, <1>3, <2>1, <2>2, <2>3 DEF PipeInv, JoinsParts
<1>8. CASE P!Cut
  <2>. DEFINE rest == SubSeq(buf, P!Skip(buf) + 1, Len(buf))
  <2>1. /\ run.pc = "cut" /\ UNCHANGED <<shut, pushed, eofSent, removal, ingest>>
        /\ \/ /\ P!HasLine(rest)
              /\ run' = [pc |-> "send", line |-> SubSeq(rest, 1, P!LineEnd(rest) - 1)]
              /\ buf' = SubSeq(rest, P!LineEnd(rest) + 1, Len(rest))
           \/ /\ ~P!HasLine(rest) /\ buf' = rest
              /\ run' = [run EXCEPT !.pc = IF shut /\ rest = <<>> THEN "done" ELSE "idle"]
    BY <1>8 DEF P!Cut
  <2>2. At(pushed, Len(pushed), buf, Ends(pushed), Gathered)
    BY <1>3, <2>1
  <2>3. Gathered = Read(Stdin) /\ Read(Stdin)' = Read(Stdin)
    BY <1>4, <2>1 DEF Gathered
  <2>4. /\ At(pushed, Len(pushed), rest, Ends(pushed), Read(Stdin)) /\ rest \in Seq(Nat)
        /\ rest # <<>> => rest[1] # F!Newline
    BY <1>2, <2>2, <2>3, AtSkip
  <2>. HIDE DEF rest
  <2>5. CASE /\ P!HasLine(rest)
             /\ run' = [pc |-> "send", line |-> SubSeq(rest, 1, P!LineEnd(rest) - 1)]
             /\ buf' = SubSeq(rest, P!LineEnd(rest) + 1, Len(rest))
    <3>1. F!HasLine(rest) /\ P!LineEnd(rest) = F!LineEnd(rest) /\ rest # <<>>
      BY <2>5, SameNewline DEF F!HasLine
    <3>. DEFINE l == SubSeq(rest, 1, F!LineEnd(rest) - 1)
                b == SubSeq(rest, F!LineEnd(rest) + 1, Len(rest))
    <3>2. buf' = b /\ run'.pc = "send" /\ run'.line = l
      BY <2>5, <3>1
    <3>3. At(pushed, Len(pushed), b, Ends(pushed), Append(Read(Stdin), l))
      <4>1. Len(pushed) \in Nat
        BY <1>2
      <4>. DEFINE E == Ends(pushed)
                  o == Len(pushed)
      <4>2. o \in Nat /\ At(pushed, o, rest, E, Read(Stdin)) /\ E = Ends(pushed)
        BY <2>4, <4>1
      <4>. HIDE DEF E, o
      <4>3. At(pushed, o, b, E, Append(Read(Stdin), l))
        BY <1>2, <2>4, <3>1, <4>2, AtTake
      <4>. QED BY <4>3 DEF E, o
    <3>. HIDE DEF l, b
    <3>4. Gathered' = Append(Read(Stdin), l)
      BY <2>3, <3>2 DEF Gathered
    <3>. QED BY <1>3, <2>1, <2>3, <3>2, <3>3, <3>4 DEF PipeInv, JoinsParts, Ends, Newlines
  <2>6. CASE /\ ~P!HasLine(rest) /\ buf' = rest
             /\ run' = [run EXCEPT !.pc = IF shut /\ rest = <<>> THEN "done" ELSE "idle"]
    <3>1. run'.pc = (IF shut /\ rest = <<>> THEN "done" ELSE "idle")
      BY <2>6, PipeFacts
    <3>2. Gathered' = Read(Stdin)
      BY <2>3, <3>1 DEF Gathered
    <3>3. run'.pc = "done" => Read(Stdin) = NotEmptyLinesOf(pushed) /\ rest = <<>> /\ shut
      <4>. SUFFICES ASSUME shut, rest = <<>> PROVE Read(Stdin) = NotEmptyLinesOf(pushed)
        BY <3>1
      <4>1. Len(pushed) \in Nat /\ Len(<<>>) = 0 /\ Len(pushed) - 0 = Len(pushed)
        BY <1>2
      <4>2. Read(Stdin) = Lines(pushed, Ends(pushed) \cap 1 .. Len(pushed) - Len(<<>>))
        BY <2>4 DEF At
      <4>3. Ends(pushed) \cap 1 .. Len(pushed) = Ends(pushed)
        <5>. DEFINE E == Ends(pushed)
        <5>1. E \in SUBSET (1 .. Len(pushed))
          BY <1>2
        <5>. HIDE DEF E
        <5>2. E \cap 1 .. Len(pushed) = E
          BY <5>1
        <5>. QED BY <5>2 DEF E
      <4>. QED BY <4>1, <4>2, <4>3 DEF NotEmptyLinesOf, Ends
    <3>. QED BY <1>3, <2>1, <2>3, <2>4, <2>6, <3>1, <3>2, <3>3 DEF PipeInv, JoinsParts, Ends, Newlines
  <2>. QED BY <2>1, <2>5, <2>6
<1>9. CASE P!Park \/ P!Wake
  <2>1. /\ UNCHANGED <<buf, shut, pushed, eofSent, removal, ingest>>
        /\ run.pc \in {"idle", "wait"} /\ run'.pc \in {"wait", "cut"}
    BY <1>9, PipeFacts DEF P!Park, P!Wake
  <2>2. Gathered' = Gathered /\ Read(Stdin)' = Read(Stdin)
    BY <1>4, <2>1 DEF Gathered
  <2>. QED BY <1>3, <2>1, <2>2 DEF PipeInv, JoinsParts
<1>10. CASE P!Send
  <2>1. /\ UNCHANGED <<buf, shut, pushed, eofSent, removal>>
        /\ run.pc = "send" /\ run'.pc = "cut"
        /\ ingest' = Append(ingest, [src |-> Stdin, bytes |-> run.line])
    BY <1>10 DEF P!Send
  <2>. DEFINE r == [src |-> Stdin, bytes |-> run.line]
  <2>2. r \in Row /\ r.src = Stdin /\ r.bytes = run.line /\ ingest' = Append(ingest, r)
    BY <1>2, <2>1 DEF Row
  <2>. HIDE DEF r
  <2>3. Read(Stdin)' = Append(Read(Stdin), run.line)
    BY <1>1, <2>2, Sending DEF Read
  <2>4. Read(Stdin)' = Gathered /\ Gathered' = Gathered
    BY <2>1, <2>3 DEF Gathered
  <2>5. At(pushed, Len(pushed), buf, Ends(pushed), Gathered)
    BY <1>3, <2>1
  <2>6. IsPrefix(Gathered, NotEmptyLinesOf(pushed))
    <3>. DEFINE E == Ends(pushed)
                o == Len(pushed)
    <3>1. o \in Nat /\ E \in SUBSET (1 .. Len(pushed)) /\ At(pushed, o, buf, E, Gathered)
      BY <1>2, <2>5
    <3>. HIDE DEF E, o
    <3>2. IsPrefix(Gathered, Lines(pushed, E))
      BY <1>2, <3>1, AtFirstLines
    <3>. QED BY <3>2 DEF E, NotEmptyLinesOf, Ends
  <2>. QED BY <1>3, <2>1, <2>4, <2>5, <2>6 DEF PipeInv, JoinsParts
<1>11. CASE P!GiveUp
  <2>1. /\ UNCHANGED <<buf, shut, pushed, eofSent, removal, ingest>> /\ run'.pc = "done"
        /\ removal = "cancelled" \/ down
    BY <1>11, PipeFacts DEF P!GiveUp
  <2>. QED BY <1>1, <1>3, <1>4, <2>1 DEF PipeInv, JoinsParts
<1>. QED BY <1>1, <1>6, <1>7, <1>8, <1>9, <1>10, <1>11 DEF P!Next, P!Run

\* Every step keeps the place in what was pushed.
LEMMA PipeKept ==
  ASSUME TypeInv, PipeInv, [Next]_vars
  PROVE  PipeInv'
<1>1. CASE PipeStep
  BY <1>1, PipeMoves
\* Nothing else touches the pipe or reads of it.
<1>2. ASSUME UNCHANGED pipeOnly, Read(Stdin)' = Read(Stdin), down => down'
      PROVE  PipeInv'
  <2>1. UNCHANGED <<buf, shut, run, pushed, eofSent, removal>>
    BY <1>2 DEF pipeOnly
  <2>2. Gathered' = Gathered
    BY <1>2, <2>1 DEF Gathered
  <2>. QED BY <1>2, <2>1, <2>2 DEF PipeInv, JoinsParts
<1>3. CASE FileStep
  <2>1. UNCHANGED <<pipeOnly, stored>> /\ F!Next
    BY <1>3 DEF FileStep
  <2>2. UNCHANGED down
    BY <2>1 DEF F!Next, F!Read, F!Open, F!Top, F!Fill, F!TakeLine, F!TakeRest, F!Send,
       F!GiveUp, F!Poll, F!WriteFile, F!Truncate, F!MoveAway, F!Create, F!Close, F!Cancel
  <2>3. CASE F!Send
    <3>. DEFINE r == [src |-> File, bytes |-> rd.line]
    <3>1. rd.line \in Seq(Nat)
      BY DEF TypeInv, TypeOK, F!TypeOK, F!Reader
    <3>2. r \in Row /\ r.src # Stdin
      BY <3>1, IngestAssumption DEF Row
    <3>3. ingest' = Append(ingest, r)
      BY <2>3 DEF F!Send
    <3>. HIDE DEF r
    <3>4. Read(Stdin)' = Read(Stdin)
      BY <2>1, <3>2, <3>3, Sending DEF Read
    <3>. QED BY <1>2, <2>1, <2>2, <3>4
  <2>4. CASE ~F!Send
    <3>1. UNCHANGED ingest
      BY <2>1, <2>4 DEF F!Next, F!Read, F!Open, F!Top, F!Fill, F!TakeLine, F!TakeRest,
         F!GiveUp, F!Poll, F!WriteFile, F!Truncate, F!MoveAway, F!Create, F!Close, F!Cancel
    <3>2. Read(Stdin)' = Read(Stdin)
      BY <2>1, <3>1 DEF Read
    <3>. QED BY <1>2, <2>1, <2>2, <3>2
  <2>. QED BY <2>3, <2>4
<1>4. CASE Ingester
  <2>1. UNCHANGED <<pipeOnly, down>>
    BY <1>4 DEF Ingester
  <2>2. Read(Stdin)' = Read(Stdin)
    BY <1>4, MovingOn DEF Read
  <2>. QED BY <1>2, <2>1, <2>2
<1>5. CASE IngesterEnds \/ Shutdown \/ UNCHANGED vars
  <2>1. UNCHANGED <<pipeOnly, stored, ingest>> /\ (down => down')
    BY <1>5 DEF IngesterEnds, Shutdown, vars, server
  <2>2. Read(Stdin)' = Read(Stdin)
    BY <2>1 DEF Read
  <2>. QED BY <1>2, <2>1, <2>2
<1>. QED BY <1>1, <1>3, <1>4, <1>5 DEF Next

-----------------------------------------------------------------------------
(* The theorems.                                                           *)

\* In the beginning nothing was read and nothing is there to read.
LEMMA InvInit ==
  Init => Opened /\ Counted /\ OnceInv /\ FollowInv /\ PipeInv
<1>. SUFFICES ASSUME Init PROVE Opened /\ Counted /\ OnceInv /\ FollowInv /\ PipeInv
  OBVIOUS
<1>1. /\ disk = << <<>> >> /\ path = 1 /\ cuts = 0 /\ written = 0 /\ rd.pc = "open" /\ rd.file = 0
      /\ rd.off = 0 /\ rd.buf = <<>> /\ rd.pos = 0 /\ rd.eof = FALSE
      /\ buf = <<>> /\ pushed = <<>> /\ run.pc = "cut" /\ shut = FALSE
      /\ stored = <<>> /\ ingest = <<>>
  BY DEF Init, F!Init, P!Init
<1>2. disk[1] = <<>> /\ Len(disk) = 1 /\ DOMAIN disk = {1} /\ Len(<<>>) = 0
  BY <1>1
<1>3. \A src : Read(src) = <<>>
  <2>. TAKE src
  <2>. DEFINE mine == {i \in DOMAIN <<>> : <<>>[i].src = src}
  <2>1. mine = {} /\ Cardinality({}) = 0
    BY FS_EmptySet
  <2>2. Read(src) = [k \in 1 .. Cardinality(mine) |-> <<>>[Nth(mine, k)].bytes]
    <3>1. stored \o ingest = <<>>
      BY <1>1
    <3>. QED BY <3>1 DEF Read, From
  <2>3. Cardinality(mine) = 0
    BY <2>1
  <2>. HIDE DEF mine
  <2>4. Read(src) \in [1 .. 0 -> Nat]
    BY <2>2, <2>3
  <2>. QED BY <2>4, SMT
<1>4. Handed = <<>> /\ Gathered = <<>>
  BY <1>1, <1>3 DEF Handed, Gathered
<1>5. \A S : Lines(<<>>, S \cap 1 .. 0) = <<>>
  <2>. TAKE S
  <2>1. S \cap 1 .. 0 = {} /\ Cardinality({}) = 0
    BY FS_EmptySet
  <2>2. Lines(<<>>, {}) \in [1 .. 0 -> Nat]
    BY <2>1 DEF Lines
  <2>3. Lines(<<>>, {}) = <<>>
    BY <2>2, SMT
  <2>. QED BY <2>1, <2>3
<1>6. SubSeq(<<>>, 1, 0) = <<>>
  BY SubSeqEmpty
<1>7. \A S : At(<<>>, 0, <<>>, S, <<>>)
  <2>. TAKE S
  <2>. DEFINE e == <<>>
              c == 0 - Len(e)
  <2>1. c = 0 /\ c + 1 = 1
    <3>1. Len(e) = 0
      BY <1>2
    <3>. HIDE DEF e
    <3>. QED BY <3>1
  <2>2. 0 <= Len(e) /\ e = SubSeq(e, c + 1, 0) /\ e = Lines(e, S \cap 1 .. c)
    BY <1>2, <1>5, <1>6, <2>1
  <2>. HIDE DEF e
  <2>3. At(e, 0, e, S, e)
    BY <2>1, <2>2 DEF At
  <2>. QED BY <2>3 DEF e
<1>8. Newlines(<<>>) = {} /\ Ends(<<>>) = {}
  BY DEF Newlines, Ends
<1>9. LinesOf(<<>>) = <<>> /\ NotEmptyLinesOf(<<>>) = <<>>
  <2>1. {} \cap 1 .. 0 = {}
    OBVIOUS
  <2>2. Lines(<<>>, {}) = <<>>
    BY <1>5, <2>1
  <2>. QED BY <1>8, <2>2 DEF LinesOf, NotEmptyLinesOf, Ends
<1>10. IsPrefix(<<>>, <<>>)
  BY <1>2 DEF IsPrefix
<1>11. Opened
  BY <1>1, <1>2 DEF Opened
<1>12. Counted
  BY <1>1, <1>2 DEF Counted, Whole
<1>13. OnceInv
  <2>1. Ahead = <<>>
    BY <1>1, <1>2, <1>6 DEF Ahead
  <2>2. InOrder(<<>>) /\ Rising(<<>>)
    BY DEF InOrder, Rising
  <2>3. Ordered(<<>>, <<>> \o <<>>, 0)
    <3>1. <<>> \o <<>> = <<>>
      OBVIOUS
    <3>. QED BY <2>2, <3>1 DEF Ordered
  <2>. QED BY <1>1, <1>3, <1>4, <2>1, <2>2, <2>3 DEF OnceInv
<1>14. FollowInv
  BY <1>1, <1>2, <1>3, <1>4, <1>7, <1>9, <1>10 DEF FollowInv, FollowsFile
<1>15. PipeInv
  BY <1>1, <1>2, <1>3, <1>4, <1>7, <1>9, <1>10 DEF PipeInv, JoinsParts
<1>. QED BY <1>11, <1>12, <1>13, <1>14, <1>15

\* Of a file whose writer ends every write with a newline, no byte is read a
\* second time and none out of its order, also when the file is cut while lines
\* are in the buffer (file.go, Run and waitForGrowth).  Without the assumption the
\* code does read bytes again: run file_parts.
THEOREM ReadOnceHolds ==
  ASSUME WholeLines
  PROVE  Spec => []ReadOnce
<1>. DEFINE Inv == TypeInv /\ Opened /\ Counted /\ OnceInv
<1>1. Init => Inv
  BY TypeInit, InvInit
<1>2. Inv /\ [Next]_vars => Inv'
  BY TypeStep, CountedStep, OnceStep
<1>3. Inv => ReadOnce
  BY DEF ReadOnce, OnceInv
<1>. QED BY <1>1, <1>2, <1>3, PTL DEF Spec

\* What was read of such a file, as long as it is not cut, is its first lines.
THEOREM FollowsFileHolds ==
  ASSUME WholeLines
  PROVE  Spec => []FollowsFile
<1>. DEFINE Inv == TypeInv /\ Opened /\ Counted /\ FollowInv
<1>1. Init => Inv
  BY TypeInit, InvInit
<1>2. Inv /\ [Next]_vars => Inv'
  BY TypeStep, CountedStep, FollowStep
<1>3. Inv => FollowsFile
  BY DEF FollowsFile, FollowInv
<1>. QED BY <1>1, <1>2, <1>3, PTL DEF Spec

\* Lines that a client pushes in parts arrive whole, once and in order, however
\* the pushes fall between the holds of the mutex (stdin.go, Push and Run).
THEOREM JoinsPartsHolds == Spec => []JoinsParts
<1>. DEFINE Inv == TypeInv /\ PipeInv
<1>1. Init => Inv
  BY TypeInit, InvInit
<1>2. Inv /\ [Next]_vars => Inv'
  BY TypeStep, PipeKept
<1>3. Inv => JoinsParts
  BY DEF PipeInv
<1>. QED BY <1>1, <1>2, <1>3, PTL DEF Spec

\* A stdin source that ends by itself has handed on all it was given.
THEOREM EndsDrainedHolds == Spec => []EndsDrained
<1>. DEFINE Inv == TypeInv /\ PipeInv
<1>1. Init => Inv
  BY TypeInit, InvInit
<1>2. Inv /\ [Next]_vars => Inv'
  BY TypeStep, PipeKept
<1>3. Inv => EndsDrained
  BY DEF PipeInv, EndsDrained
<1>. QED BY <1>1, <1>2, <1>3, PTL DEF Spec

\* The sources and the channel keep to their types and bounds.
THEOREM TypesHold == Spec => []TypeOK
<1>1. TypeInv => TypeOK
  BY DEF TypeInv
<1>. QED BY <1>1, Typed, PTL

=============================================================================
