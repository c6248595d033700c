-------------------------- MODULE LogHubLossProofs --------------------------
(***************************************************************************)
(* Proofs about the rows a subscriber of LogHub does not get: each was     *)
(* counted as dropped, or its publication or overwriting overlapped a      *)
(* Resume, whatever the number of subscribers, the capacities and the      *)
(* interleaving.  And what the seam between a backlog and the live tail    *)
(* leaves out was counted.                                                 *)
(***************************************************************************)
EXTENDS LogHubProofs, FiniteSetTheorems

\* The cursor is past a row, or will be when the delivery or the walk at work is over.
Passed(s, c) ==
  \/ c < sub[s].cursor
  \/ pub.pc = "advance" /\ pub.sub = s /\ c = pub.seq
  \/ rd[s].pc = "walk" /\ c < rd[s].next

\* Rows a subscriber was owed, and has not got.
Missing(s) ==
  {c \in 0..(head - 1) :
     /\ rd[s].epoch <= c /\ rows[c + 1] \in sub[s].filter
     /\ c \notin rd[s].exposed /\ c \notin Queued(s) /\ Passed(s, c)}

\* A subscriber that is served is passed over by no row but the one the publisher has
\* not come to for it; one that is paused may be.
Served(s) ==
  ~sub[s].paused \/ (pub.pc \in {"deliver", "advance"} /\ pub.sub = s) =>
    \A c \in 0..(head - 1) : rd[s].epoch <= c =>
      c \in rd[s].exposed \/ Passed(s, c) \/ (Unserved(s) /\ c = pub.seq /\ c = head - 1)

\* A Resume that has walked to its head leaves out exposed rows only.
CaughtUp(s) ==
  rd[s].pc = "unpause" =>
    \A c \in 0..(head - 1) : rd[s].epoch <= c => c \in rd[s].exposed \/ c < sub[s].cursor

\* On its way it starts no later than the cursor; what is appended beyond its head, or
\* overwritten before its next row, is exposed.
WalkExposes(s) ==
  /\ rd[s].pc \in {"resumeHead", "resumeTail"} => rd[s].next <= sub[s].cursor
  /\ rd[s].pc \in {"resumeTail", "walk"} => rd[s].head..(head - 1) \subseteq rd[s].exposed
  /\ rd[s].pc = "walk" => rd[s].next..(tail - 1) \subseteq rd[s].exposed

\* The cursor runs ahead of the rows only up to the from_seq that was asked for, or on
\* a closed store.
CursorBound(s) == stop # "closed" => sub[s].cursor <= Larger(head, rd[s].epoch)

\* A subscription at work is registered.
Registered(s) == sub[s].member /\ ~sub[s].dead

Follows(s) == Registered(s) /\ CursorBound(s) /\ Served(s) /\ CaughtUp(s) /\ WalkExposes(s)

FollowInv ==
  /\ \A s \in Subs : sub[s].dead => rd[s].pc = "gone"
  /\ \A s \in Active : Follows(s)

\* All that is missing was announced.
Lossless(s) == Cardinality(Missing(s)) <= Announced(s)

LossInv == FollowInv /\ \A s \in Active : Lossless(s)

-----------------------------------------------------------------------------
(* Counting                                                                *)

\* What is missing is finite, and what was announced a number.
LEMMA Countable ==
  ASSUME TypeOK, NEW s \in Subs
  PROVE  /\ IsFiniteSet(Missing(s)) /\ Cardinality(Missing(s)) \in Nat /\ Announced(s) \in Nat
<1>1. 0 \in Int /\ head - 1 \in Int
  BY HeadTail
<1>2. IsFiniteSet(0..(head - 1))
  BY <1>1, FS_Interval
<1>3. Missing(s) \subseteq 0..(head - 1)
  BY DEF Missing
<1>4. IsFiniteSet(Missing(s))
  BY <1>2, <1>3, FS_Subset
<1>5. Announced(s) \in Nat
  BY DEF TypeOK, ChanState, PumpState, Announced
<1> QED BY <1>4, <1>5, FS_CardinalityType

\* The count after a step is a number too.
LEMMA AnnouncedNat ==
  ASSUME TypeOK', NEW s \in Subs
  PROVE  Announced(s)' \in Nat
<1>1. chan'[s] \in ChanState /\ pump'[s] \in PumpState
  BY DEF TypeOK
<1>2. chan'[s].dropped \in Nat /\ pump'[s].gapped \in Nat
  BY <1>1 DEF ChanState, PumpState
<1> QED BY <1>2 DEF Announced

\* A set with no more new elements than the count has grown by stays within it.
LEMMA Outnumbered ==
  ASSUME NEW M, IsFiniteSet(M), NEW T, IsFiniteSet(T), NEW N \in SUBSET (M \cup T),
         NEW a \in Nat, NEW b \in Nat, Cardinality(M) <= a, b >= a + Cardinality(T)
  PROVE  Cardinality(N) <= b
<1>1. /\ IsFiniteSet(M \cup T)
      /\ Cardinality(M \cup T) = Cardinality(M) + Cardinality(T) - Cardinality(M \cap T)
  BY FS_Union
<1>2. IsFiniteSet(M \cap T) /\ M \cap T \in SUBSET M
  BY FS_Subset
<1>3. /\ Cardinality(M) \in Nat /\ Cardinality(T) \in Nat /\ Cardinality(M \cap T) \in Nat
      /\ Cardinality(M \cup T) \in Nat
  BY <1>1, <1>2, FS_CardinalityType
<1>4. Cardinality(N) <= Cardinality(M \cup T) /\ IsFiniteSet(N)
  BY <1>1, FS_Subset
<1>5. Cardinality(N) \in Nat
  BY <1>4, FS_CardinalityType
<1> QED BY <1>1, <1>3, <1>4, <1>5

\* If no more rows go missing than are announced, none is lost.
LEMMA StaysLossless ==
  ASSUME TypeOK, TypeOK', NEW s \in Subs, Lossless(s), NEW T, IsFiniteSet(T),
         Missing(s)' \subseteq Missing(s) \cup T,
         Announced(s)' >= Announced(s) + Cardinality(T)
  PROVE  Lossless(s)'
<1>1. Announced(s)' \in Nat
  BY AnnouncedNat
<1>2. Cardinality(Missing(s)') <= Announced(s)'
  BY <1>1, Countable, Outnumbered DEF Lossless
<1> QED BY <1>2 DEF Lossless

\* If none goes missing that did not before, nothing is lost either.
LEMMA NoneMissing ==
  ASSUME TypeOK, TypeOK', NEW s \in Subs, Lossless(s),
         Missing(s)' \subseteq Missing(s), Announced(s)' >= Announced(s)
  PROVE  Lossless(s)'
<1>1. IsFiniteSet({}) /\ Cardinality({}) = 0
  BY FS_EmptySet
<1>2. Announced(s) \in Nat /\ Announced(s)' \in Nat
  BY Countable, AnnouncedNat
<1> QED BY <1>1, <1>2, StaysLossless

-----------------------------------------------------------------------------
(* Steps that pass no row over                                             *)

\* A step that leaves a subscription where it is, or in a handler but Resume.
LEMMA Aside ==
  ASSUME TypeOK, TypeOK', NEW s \in Subs, Follows(s), Lossless(s), UNCHANGED <<rows, pub>>,
         stop = "closed" => stop' = "closed",
         chan'[s].queued = chan[s].queued, Announced(s)' = Announced(s),
         sub'[s].cursor = sub[s].cursor, sub'[s].filter = sub[s].filter,
         sub'[s].member = sub[s].member, sub'[s].dead = sub[s].dead,
         sub'[s].paused = sub[s].paused \/ sub'[s].paused,
         rd'[s].epoch = rd[s].epoch, rd'[s].exposed = rd[s].exposed,
         \/ rd'[s].pc = rd[s].pc /\ rd'[s].head = rd[s].head /\ rd'[s].next = rd[s].next
         \/ rd[s].pc \notin Resuming /\ rd'[s].pc \notin Resuming
  PROVE  Follows(s)' /\ Lossless(s)'
<1>1. head' = head /\ tail' = tail /\ Queued(s)' = Queued(s) /\ (Unserved(s)' <=> Unserved(s))
  BY DEF head, tail, Queued, Unserved
<1>2. ASSUME NEW c PROVE Passed(s, c)' <=> Passed(s, c)
  BY DEF Passed, Resuming
<1>3. Missing(s)' = Missing(s)
  BY <1>1, <1>2 DEF Missing
<1>4. Lossless(s)'
  BY <1>3 DEF Lossless
<1>5. Registered(s)' /\ CursorBound(s)'
  BY <1>1 DEF Follows, Registered, CursorBound, Larger
<1>6. Served(s)' /\ CaughtUp(s)' /\ WalkExposes(s)'
  BY <1>1, <1>2 DEF Follows, Served, CaughtUp, WalkExposes, Resuming
<1> QED BY <1>4, <1>5, <1>6 DEF Follows
-----------------------------------------------------------------------------
(* The publisher                                                           *)

\* A row appended is ahead of every cursor, or of a Resume that exposes it.
LEMMA AppendFollows ==
  ASSUME TypeOK, TypeOK', NEW s \in Active, Follows(s), Lossless(s), NEW k \in Kinds, PubAppend(k)
  PROVE  Follows(s)' /\ Lossless(s)'
<1>0. s \in Subs /\ head \in Nat /\ tail \in Nat /\ Cap \in Nat \ {0}
  BY HeadTail, HubAssumption DEF Active
<1>1. /\ head' = head + 1 /\ rows' = Append(rows, k) /\ rows \in Seq(Kinds)
      /\ \A c \in 0..(head - 1) : rows'[c + 1] = rows[c + 1]
  BY DEF PubAppend, head, TypeOK
<1>2. /\ pub.pc = "idle" /\ pub'.pc = "snapshot" /\ pub'.seq = head /\ stop # "closed"
      /\ UNCHANGED <<stop, sub, chan, pump>>
  BY DEF PubAppend, TypeOK
<1>3. /\ rd'[s].pc = rd[s].pc /\ rd'[s].head = rd[s].head /\ rd'[s].next = rd[s].next
      /\ rd'[s].epoch = rd[s].epoch /\ rd[s].exposed \subseteq rd'[s].exposed
      /\ rd[s].pc \in Resuming => {head, head - Cap} \subseteq rd'[s].exposed
  <2>1. rd[s] \in ReaderState
    BY <1>0 DEF TypeOK
  <2>2. rd'[s] = IF rd[s].pc \in Resuming
                 THEN [rd[s] EXCEPT !.exposed = @ \union {head, head - Cap}] ELSE rd[s]
    BY <1>0 DEF PubAppend, TypeOK
  <2> QED BY <2>1, <2>2 DEF ReaderState
<1>4. rd[s].epoch \in Nat /\ sub[s].cursor \in Nat /\ rd[s].next \in Nat /\ rd[s].head \in Nat
  BY <1>0 DEF TypeOK, ReaderState, SubState
<1>5. sub[s].cursor <= head \/ sub[s].cursor <= rd[s].epoch
  BY <1>2 DEF Follows, CursorBound, Larger
<1>6. \A c : Passed(s, c)' <=> Passed(s, c)
  BY <1>2, <1>3 DEF Passed
<1>7. Missing(s)' \subseteq Missing(s)
  <2> SUFFICES ASSUME NEW c \in Missing(s)' PROVE c \in Missing(s)
    OBVIOUS
  <2>1. /\ c \in 0..head /\ rd[s].epoch <= c /\ rows'[c + 1] \in sub[s].filter
        /\ c \notin rd'[s].exposed /\ c \notin Queued(s) /\ Passed(s, c)
    <3>1. head' - 1 = head /\ Queued(s)' = Queued(s)
      BY <1>0, <1>1, <1>2 DEF Queued
    <3>2. c \in 0..(head' - 1) /\ Passed(s, c)'
      BY DEF Missing
    <3> QED BY <1>2, <1>3, <1>6, <3>1, <3>2 DEF Missing
  <2>2. c # head
    <3> SUFFICES ASSUME c = head PROVE FALSE
      OBVIOUS
    <3>1. ~(c < sub[s].cursor)
      BY <1>0, <1>4, <1>5, <2>1
    <3>2. rd[s].pc \notin Resuming
      BY <1>3, <2>1
    <3> QED BY <1>2, <2>1, <3>1, <3>2 DEF Passed, Resuming
  <2>3. c \in 0..(head - 1)
    BY <1>0, <2>1, <2>2
  <2> QED BY <1>1, <1>3, <2>1, <2>3 DEF Missing
<1>8. Announced(s)' = Announced(s) /\ Announced(s) \in Nat
  BY <1>0, <1>2, Countable DEF Announced
<1>9. Lossless(s)'
  BY <1>0, <1>7, <1>8, NoneMissing
<1>10. Registered(s)' /\ CursorBound(s)'
  BY <1>0, <1>1, <1>2, <1>3, <1>4, <1>5 DEF Follows, Registered, CursorBound, Larger
<1>11. Served(s)'
  <2> SUFFICES ASSUME ~sub[s].paused, NEW c \in 0..head, rd[s].epoch <= c
               PROVE  c \in rd'[s].exposed \/ Passed(s, c)' \/ (Unserved(s)' /\ c = head)
    BY <1>0, <1>1, <1>2, <1>3 DEF Served
  <2>1. Unserved(s)' /\ ~Unserved(s)
    BY <1>2 DEF Unserved
  <2>2. c = head \/ c \in 0..(head - 1)
    BY <1>0
  <2> QED BY <1>3, <1>6, <2>1, <2>2 DEF Follows, Served
<1>12. CaughtUp(s)'
  <2> SUFFICES ASSUME rd[s].pc = "unpause", NEW c \in 0..head, rd[s].epoch <= c
               PROVE  c \in rd'[s].exposed \/ c < sub[s].cursor
    BY <1>0, <1>1, <1>2, <1>3 DEF CaughtUp
  <2>1. c = head \/ c \in 0..(head - 1)
    BY <1>0
  <2> QED BY <1>3, <2>1 DEF Follows, CaughtUp, Resuming
<1>13. WalkExposes(s)'
  <2>1. \A c \in Int : c \in rd[s].head..head => c = head \/ c \in rd[s].head..(head - 1)
    BY <1>0, <1>4
  <2>2. \A c \in Int : c \in rd[s].next..(tail' - 1) => c = head - Cap \/ c \in rd[s].next..(tail - 1)
    BY <1>0, <1>1, <1>4 DEF tail, Larger
  <2>3. head' - 1 = head
    BY <1>0, <1>1
  <2>4. WalkExposes(s)
    BY DEF Follows
  <2>5. rd[s].pc \in {"resumeTail", "walk"} => rd[s].head..(head' - 1) \subseteq rd'[s].exposed
    BY <1>0, <1>3, <2>1, <2>3, <2>4 DEF WalkExposes, Resuming
  <2>6. rd[s].pc = "walk" => rd[s].next..(tail' - 1) \subseteq rd'[s].exposed
    BY <1>0, <1>3, <2>2, <2>4 DEF WalkExposes, Resuming
  <2> QED BY <1>2, <1>3, <2>4, <2>5, <2>6 DEF WalkExposes
<1> QED BY <1>9, <1>10, <1>11, <1>12, <1>13 DEF Follows

\* The publisher goes on, delivering nothing to s.
LEMMA PublisherMoves ==
  ASSUME TypeOK, TypeOK', NEW s \in Active, Follows(s), Lossless(s),
         UNCHANGED <<rows, stop, rd, pump>>, sub'[s] = sub[s], chan'[s] = chan[s],
         pub.pc # "advance" \/ pub.sub # s, pub'.pc # "advance" \/ pub'.sub # s,
         pub'.pc = "deliver" /\ pub'.sub = s => ~sub[s].paused,
         ~sub[s].paused /\ Unserved(s) => Unserved(s)' /\ pub'.seq = pub.seq
  PROVE  Follows(s)' /\ Lossless(s)'
<1>1. head' = head /\ tail' = tail /\ Queued(s)' = Queued(s)
  BY DEF head, tail, Queued
<1>2. \A c : Passed(s, c)' <=> Passed(s, c)
  BY DEF Passed
<1>3. Missing(s)' = Missing(s)
  BY <1>1, <1>2 DEF Missing
<1>4. Lossless(s)'
  BY <1>3 DEF Lossless, Announced
<1>5. Registered(s)' /\ CursorBound(s)' /\ CaughtUp(s)' /\ WalkExposes(s)'
  BY <1>1 DEF Follows, Registered, CursorBound, Larger, CaughtUp, WalkExposes
<1>6. Served(s)'
  BY <1>1, <1>2 DEF Follows, Served
<1> QED BY <1>4, <1>5, <1>6 DEF Follows

\* Taking a snapshot, skipping, picking, ending.
LEMMA PublisherFollows ==
  ASSUME TypeOK, TypeOK', NEW s \in Active, Follows(s), Lossless(s),
         \/ PubAppendClosed \/ PubSnapshot \/ PubDone \/ IngesterExit
         \/ \E t \in Subs : PubSkip(t) \/ PubPick(t)
  PROVE  Follows(s)' /\ Lossless(s)'
<1>0. s \in Subs /\ pub \in PubState /\ sub[s].member /\ ~sub[s].dead
  BY DEF TypeOK, PubState, Active, Follows, Registered
<1>1. CASE PubAppendClosed
  BY <1>0, <1>1, PublisherMoves DEF PubAppendClosed, PubState, Unserved
<1>2. CASE PubSnapshot
  <2>1. /\ UNCHANGED <<rows, stop, rd, sub, chan, pump>> /\ pub.pc = "snapshot" /\ pub'.pc = "scan"
        /\ pub'.seq = pub.seq /\ s \in pub'.todo
    BY <1>0, <1>2 DEF PubSnapshot, PubState, store
  <2> QED BY <2>1, PublisherMoves DEF Unserved
<1>3. CASE PubDone
  <2>1. /\ UNCHANGED <<rows, stop, rd, sub, chan, pump>> /\ pub.pc = "scan" /\ pub'.pc = "idle"
        /\ pub.todo = {}
    BY <1>0, <1>3 DEF PubDone, PubState, store
  <2> QED BY <2>1, PublisherMoves DEF Unserved
<1>4. CASE IngesterExit
  <2>1. /\ UNCHANGED <<rows, stop, rd, sub, chan, pump>> /\ pub.pc = "idle" /\ pub'.pc = "exited"
    BY <1>0, <1>4 DEF IngesterExit, PubState, store
  <2> QED BY <2>1, PublisherMoves DEF Unserved
<1>5. ASSUME NEW t \in Subs, PubSkip(t) PROVE Follows(s)' /\ Lossless(s)'
  <2>1. /\ UNCHANGED <<rows, stop, rd, sub, chan, pump>> /\ pub.pc = "scan" /\ pub'.pc = "scan"
        /\ pub'.seq = pub.seq /\ pub'.todo = pub.todo \ {t} /\ (sub[t].dead \/ sub[t].paused)
    BY <1>0, <1>5 DEF PubSkip, PubState, store
  <2> QED BY <1>0, <2>1, PublisherMoves DEF Unserved
<1>6. ASSUME NEW t \in Subs, PubPick(t) PROVE Follows(s)' /\ Lossless(s)'
  <2>1. /\ UNCHANGED <<rows, stop, rd, sub, chan, pump>> /\ pub.pc = "scan" /\ pub'.pc = "deliver"
        /\ pub'.seq = pub.seq /\ pub'.todo = pub.todo \ {t} /\ pub'.sub = t /\ ~sub[t].paused
    BY <1>0, <1>6 DEF PubPick, PubState, store
  <2> QED BY <1>0, <2>1, PublisherMoves DEF Unserved
<1> QED BY <1>1, <1>2, <1>3, <1>4, <1>5, <1>6

\* A row offered is queued, or counted, or not wanted; one that the ring has lost is
\* not delivered to a filter that does not ask for it.
LEMMA OfferCounts ==
  ASSUME TypeOK, TypeOK', NEW s \in Subs, NEW seq \in Nat, Offer(s, seq), ~sub[s].dead, UNCHANGED pump
  PROVE  \/ seq \in Queued(s)' /\ Queued(s) \subseteq Queued(s)' /\ Announced(s)' = Announced(s)
         \/ Queued(s)' = Queued(s) /\ Announced(s)' = Announced(s) + 1
         \/ Queued(s)' = Queued(s) /\ Announced(s)' = Announced(s) /\ ~Matches(s, seq)
<1>1. chan \in [Subs -> ChanState] /\ pump \in [Subs -> PumpState]
  BY DEF TypeOK
<1>2. CASE UNCHANGED chan /\ ~Matches(s, seq)
  BY <1>2 DEF Queued, Announced
<1>3. CASE chan' = [chan EXCEPT ![s].queued = Append(@, seq)]
  <2>1. chan'[s].queued = Append(chan[s].queued, seq) /\ chan'[s].dropped = chan[s].dropped
    BY <1>1, <1>3 DEF ChanState
  <2>2. chan[s].queued \in Seq(Nat) /\ Len(chan[s].queued) \in Nat
    BY <1>1 DEF ChanState
  <2>3. /\ Len(chan'[s].queued) = Len(chan[s].queued) + 1
        /\ chan'[s].queued[Len(chan[s].queued) + 1] = seq
        /\ \A i \in 1..Len(chan[s].queued) : chan'[s].queued[i] = chan[s].queued[i]
    BY <2>1, <2>2
  <2>4. seq \in Queued(s)' /\ Queued(s) \subseteq Queued(s)'
    <3>1. Len(chan[s].queued) + 1 \in 1..Len(chan'[s].queued)
          /\ \A i \in 1..Len(chan[s].queued) : i \in 1..Len(chan'[s].queued)
      BY <2>2, <2>3
    <3> QED BY <2>3, <3>1 DEF Queued
  <2> QED BY <2>1, <2>4 DEF Announced
<1>4. CASE chan' = [chan EXCEPT ![s].dropped = @ + 1]
  <2>1. chan'[s].queued = chan[s].queued /\ chan'[s].dropped = chan[s].dropped + 1
    BY <1>1, <1>4 DEF ChanState
  <2>2. chan[s].dropped \in Nat /\ pump[s].gapped \in Nat
    BY <1>1 DEF ChanState, PumpState
  <2> QED BY <2>1, <2>2 DEF Queued, Announced
<1> QED BY <1>2, <1>3, <1>4 DEF Offer, Deliver

\* After an offer, no row but the one refused, and announced, goes missing.
LEMMA OfferLossless ==
  ASSUME TypeOK, TypeOK', NEW s \in Subs, NEW seq \in Nat, Offer(s, seq), ~sub[s].dead,
         UNCHANGED <<rows, sub, pump>>, Lossless(s),
         rd'[s].epoch = rd[s].epoch, rd'[s].exposed = rd[s].exposed,
         \A c \in Nat : Passed(s, c)' => Passed(s, c) \/ c = seq,
         seq \in 0..(head - 1) /\ rd[s].epoch <= seq /\ seq \notin rd[s].exposed =>
           Live(seq) \/ Passed(s, seq)
  PROVE  Lossless(s)'
<1>0. head' = head /\ 0..(head - 1) \subseteq Nat
  BY HeadTail DEF head
<1>1. ASSUME NEW c \in Missing(s)', Queued(s) \subseteq Queued(s)'
      PROVE  c \in Missing(s) \/ c = seq
  <2>1. /\ c \in 0..(head - 1) /\ rd[s].epoch <= c /\ rows[c + 1] \in sub[s].filter
        /\ c \notin rd[s].exposed /\ c \notin Queued(s) /\ Passed(s, c)'
    BY <1>0, <1>1 DEF Missing
  <2> QED BY <1>0, <2>1 DEF Missing
<1>2. CASE seq \in Queued(s)' /\ Queued(s) \subseteq Queued(s)' /\ Announced(s)' = Announced(s)
  <2>1. seq \notin Missing(s)'
    BY <1>2 DEF Missing
  <2>2. Missing(s)' \subseteq Missing(s)
    BY <1>1, <1>2, <2>1
  <2>3. Announced(s) \in Nat
    BY Countable
  <2> QED BY <1>2, <2>2, <2>3, NoneMissing
<1>3. CASE Queued(s)' = Queued(s) /\ Announced(s)' = Announced(s) + 1
  <2>1. Missing(s)' \subseteq Missing(s) \cup {seq}
    BY <1>1, <1>3
  <2>2. IsFiniteSet({seq}) /\ Cardinality({seq}) = 1
    BY FS_Singleton
  <2>3. Announced(s) \in Nat
    BY Countable
  <2>4. Announced(s)' >= Announced(s) + Cardinality({seq})
    BY <1>3, <2>2, <2>3
  <2> HIDE DEF Lossless
  <2> QED BY <2>1, <2>2, <2>4, StaysLossless
<1>4. CASE Queued(s)' = Queued(s) /\ Announced(s)' = Announced(s) /\ ~Matches(s, seq)
  <2>1. ASSUME seq \in Missing(s)' PROVE seq \in Missing(s)
    <3>1. /\ seq \in 0..(head - 1) /\ rd[s].epoch <= seq /\ rows[seq + 1] \in sub[s].filter
          /\ seq \notin rd[s].exposed /\ seq \notin Queued(s)
      BY <1>0, <1>4, <2>1 DEF Missing
    <3>2. ~Live(seq)
      BY <1>4, <3>1 DEF Matches
    <3> QED BY <3>1, <3>2 DEF Missing
  <2>2. Missing(s)' \subseteq Missing(s)
    BY <1>1, <1>4, <2>1
  <2>3. Announced(s) \in Nat
    BY Countable
  <2> QED BY <1>4, <2>2, <2>3, NoneMissing
<1> QED BY <1>2, <1>3, <1>4, OfferCounts

\* A row published is the last one, and so readable, or row 0 of a closed store: then
\* the subscriber is past it, or it is readable too.
LEMMA DeliverFollows ==
  ASSUME TypeOK, TypeOK', PubTarget, OrderInv, NEW s \in Active, Follows(s), Lossless(s), PubDeliver
  PROVE  Follows(s)' /\ Lossless(s)'
<1>0. /\ s \in Subs /\ pub \in PubState /\ sub[s].member /\ ~sub[s].dead /\ pub.sub \in Subs
      /\ pub.pc = "deliver" /\ chan \in [Subs -> ChanState] /\ pub.seq \in Nat
      /\ head \in Nat /\ tail \in Nat /\ Cap \in Nat \ {0}
  BY HeadTail, HubAssumption DEF TypeOK, PubState, Active, Follows, Registered, PubTarget, PubDeliver
<1>1. /\ pub'.pc = "advance" /\ pub'.seq = pub.seq /\ pub'.sub = pub.sub /\ pub'.todo = pub.todo
      /\ Offer(pub.sub, pub.seq) /\ UNCHANGED <<rows, stop, rd, sub, pump>>
  BY <1>0 DEF PubDeliver, PubState, store
<1>2. pub.sub \notin pub.todo
  BY <1>0 DEF OrderInv, PublishesLast
<1>3. CASE pub.sub # s
  <2>1. chan'[s] = chan[s]
    BY <1>0, <1>1, <1>3 DEF Offer, Deliver
  <2>2. Unserved(s) <=> Unserved(s)'
    BY <1>0, <1>1, <1>3 DEF Unserved
  <2> QED BY <1>0, <1>1, <1>3, <2>1, <2>2, PublisherMoves
<1>4. CASE pub.sub = s
  <2>1. \A c : Passed(s, c)' <=> Passed(s, c) \/ c = pub.seq
    BY <1>0, <1>1, <1>4 DEF Passed
  <2>2. head' = head /\ tail' = tail
    BY <1>1 DEF head, tail
  <2>3. ASSUME pub.seq \in 0..(head - 1), rd[s].epoch <= pub.seq, pub.seq \notin rd[s].exposed
        PROVE  Live(pub.seq) \/ Passed(s, pub.seq)
    <3>1. pub.seq = head - 1 => Live(pub.seq)
      BY <1>0, <2>3 DEF Live, tail, Larger
    <3> QED BY <1>0, <1>4, <2>3, <3>1 DEF Follows, Served
  <2>4. rd'[s].epoch = rd[s].epoch /\ rd'[s].exposed = rd[s].exposed
    BY <1>1
  <2>5. Lossless(s)'
    BY <1>0, <1>1, <1>4, <2>1, <2>3, <2>4, OfferLossless
  <2>6. Registered(s)' /\ CursorBound(s)' /\ CaughtUp(s)' /\ WalkExposes(s)'
    BY <1>1, <2>2 DEF Follows, Registered, CursorBound, Larger, CaughtUp, WalkExposes
  <2>7. Served(s)'
    BY <1>0, <1>1, <1>4, <2>1, <2>2 DEF Follows, Served
  <2> QED BY <2>5, <2>6, <2>7 DEF Follows
<1> QED BY <1>3, <1>4

\* The cursor moves past the row delivered, and past no other that was owed.
LEMMA AdvanceFollows ==
  ASSUME TypeOK, TypeOK', PubTarget, OrderInv, NEW s \in Active, Follows(s), Lossless(s), PubAdvance
  PROVE  Follows(s)' /\ Lossless(s)'
<1>0. /\ s \in Subs /\ pub \in PubState /\ sub[s].member /\ ~sub[s].dead /\ pub.sub \in Subs
      /\ pub.pc = "advance" /\ pub.seq \in Nat /\ head \in Nat /\ sub \in [Subs -> SubState]
      /\ sub[s].cursor \in Nat /\ rd[s].epoch \in Nat /\ rd[s].next \in Nat
  BY HeadTail DEF TypeOK, PubState, Active, Follows, Registered, PubTarget, PubAdvance, SubState,
     ReaderState
<1>1. /\ pub'.pc = "scan" /\ pub'.seq = pub.seq /\ pub'.sub = NoSub /\ pub'.todo = pub.todo
      /\ sub' = [sub EXCEPT ![pub.sub].cursor = Larger(@, pub.seq + 1)]
      /\ UNCHANGED <<rows, stop, rd, chan, pump>>
  BY <1>0 DEF PubAdvance, PubState, store
<1>2. pub.sub \notin pub.todo /\ (pub.seq = head - 1 \/ (stop = "closed" /\ pub.seq = 0))
  BY <1>0 DEF OrderInv, PublishesLast, Busy
<1>3. CASE pub.sub # s
  <2>1. sub'[s] = sub[s]
    BY <1>0, <1>1, <1>3
  <2>2. Unserved(s) <=> Unserved(s)'
    BY <1>0, <1>1, <1>3 DEF Unserved
  <2>3. NoSub # s
    BY <1>0, HubAssumption
  <2> QED BY <1>0, <1>1, <1>3, <2>1, <2>2, <2>3, PublisherMoves
<1>4. CASE pub.sub = s
  <2>1. /\ sub'[s].cursor = Larger(sub[s].cursor, pub.seq + 1) /\ sub'[s].filter = sub[s].filter
        /\ sub'[s].member = sub[s].member /\ sub'[s].dead = sub[s].dead
        /\ sub'[s].paused = sub[s].paused
    BY <1>0, <1>1, <1>4 DEF SubState
  <2>2. head' = head /\ tail' = tail /\ Queued(s)' = Queued(s)
    BY <1>1 DEF head, tail, Queued
  <2>3. ASSUME NEW c \in Nat PROVE Passed(s, c) => Passed(s, c)'
    BY <1>0, <1>1, <1>4, <2>1 DEF Passed, Larger
  <2>4. ASSUME NEW c \in 0..(head - 1), rd[s].epoch <= c, c \notin rd[s].exposed, Passed(s, c)'
        PROVE  Passed(s, c)
    <3>1. ~Unserved(s)
      BY <1>0, <1>2, <1>4 DEF Unserved
    <3> QED BY <1>0, <1>4, <2>4, <3>1 DEF Follows, Served
  <2>5. Missing(s)' \subseteq Missing(s)
    BY <1>1, <2>1, <2>2, <2>4 DEF Missing
  <2>6. Announced(s)' = Announced(s) /\ Announced(s) \in Nat
    BY <1>0, <1>1, Countable DEF Announced
  <2>7. Lossless(s)'
    BY <1>0, <2>5, <2>6, NoneMissing
  <2>8. Registered(s)' /\ CursorBound(s)'
    BY <1>0, <1>1, <1>2, <2>1, <2>2 DEF Follows, Registered, CursorBound, Larger
  <2>9. CaughtUp(s)' /\ WalkExposes(s)'
    <3>1. sub'[s].cursor >= sub[s].cursor
      BY <1>0, <2>1 DEF Larger
    <3>2. sub'[s].cursor \in Nat
      BY <1>0, <2>1 DEF Larger
    <3> QED BY <1>0, <1>1, <2>2, <3>1, <3>2 DEF Follows, CaughtUp, WalkExposes
  <2>10. Served(s)'
    <3>1. ~Unserved(s)
      BY <1>0, <1>2, <1>4 DEF Unserved
    <3>2. \A c \in 0..(head - 1) : c \in Nat
      BY <1>0
    <3> QED BY <1>0, <1>1, <1>4, <2>1, <2>2, <2>3, <3>1, <3>2 DEF Follows, Served
  <2> QED BY <2>7, <2>8, <2>9, <2>10 DEF Follows
<1> QED BY <1>3, <1>4

-----------------------------------------------------------------------------
(* The session                                                             *)

\* A filter takes effect: no row so far is owed.
LEMMA Begins ==
  ASSUME TypeOK, TypeOK', NEW s \in Subs, UNCHANGED <<rows, pub, stop>>, rd'[s].pc \notin Resuming,
         rd'[s].epoch = Larger(head, sub[s].cursor), sub'[s].cursor = sub[s].cursor,
         sub'[s].member, ~sub'[s].dead
  PROVE  Follows(s)' /\ Lossless(s)'
<1>0. head \in Nat /\ sub[s].cursor \in Nat /\ head' = head
  BY HeadTail DEF TypeOK, SubState, head
<1>1. \A c \in 0..(head - 1) : ~(rd'[s].epoch <= c)
  BY <1>0 DEF Larger
<1>2. Missing(s)' = {}
  BY <1>0, <1>1 DEF Missing
<1>3. Announced(s)' \in Nat /\ Cardinality({}) = 0
  BY AnnouncedNat, FS_EmptySet
<1>4. Lossless(s)'
  BY <1>2, <1>3 DEF Lossless
<1>5. Registered(s)' /\ CursorBound(s)' /\ WalkExposes(s)'
  BY <1>0 DEF Registered, CursorBound, WalkExposes, Larger, Resuming
<1>6. Served(s)' /\ CaughtUp(s)'
  BY <1>0, <1>1 DEF Served, CaughtUp
<1> QED BY <1>4, <1>5, <1>6 DEF Follows

\* A Resume begins: what is being published meanwhile is exposed.
LEMMA ResumeBegins ==
  ASSUME TypeOK, TypeOK', NEW s \in Active, Follows(s), Lossless(s), ResumeCursor(s) \/ ResumeHead(s)
  PROVE  Follows(s)' /\ Lossless(s)'
<1>0. s \in Subs /\ rd[s] \in ReaderState /\ rd \in [Subs -> ReaderState] /\ head \in Nat
      /\ sub[s].cursor \in Nat
  BY HeadTail DEF TypeOK, Active, SubState
<1>1. UNCHANGED <<rows, stop, pub, sub, chan, pump>>
  BY DEF ResumeCursor, ResumeHead, store
<1>2. /\ rd[s].pc \in {"ready", "resumeHead"} /\ rd'[s].pc \in {"resumeHead", "resumeTail"}
      /\ rd'[s].next <= sub[s].cursor /\ (rd'[s].pc = "resumeTail" => rd'[s].head = head)
      /\ rd'[s].epoch = rd[s].epoch /\ rd[s].exposed \subseteq rd'[s].exposed
  <2>1. CASE ResumeCursor(s)
    <3> DEFINE e == IF pub.pc = "idle" THEN rd[s].exposed ELSE rd[s].exposed \union {pub.seq}
    <3>1. rd'[s] = [rd[s] EXCEPT !.pc = "resumeHead", !.next = sub[s].cursor, !.exposed = e]
          /\ rd[s].exposed \subseteq e /\ rd[s].pc = "ready"
      BY <1>0, <2>1 DEF ResumeCursor
    <3> HIDE DEF e
    <3> QED BY <1>0, <3>1 DEF ReaderState
  <2>2. CASE ResumeHead(s)
    <3>1. rd'[s] = [rd[s] EXCEPT !.pc = "resumeTail", !.head = head] /\ rd[s].pc = "resumeHead"
      BY <1>0, <2>2 DEF ResumeHead
    <3> QED BY <1>0, <3>1 DEF ReaderState, Follows, WalkExposes
  <2> QED BY <2>1, <2>2
<1>3. head' = head /\ tail' = tail /\ Queued(s)' = Queued(s) /\ (Unserved(s)' <=> Unserved(s))
  BY <1>1 DEF head, tail, Queued, Unserved
<1>4. \A c : Passed(s, c)' <=> Passed(s, c)
  BY <1>1, <1>2 DEF Passed
<1>5. Missing(s)' \subseteq Missing(s)
  BY <1>1, <1>2, <1>3, <1>4 DEF Missing
<1>6. Announced(s)' = Announced(s) /\ Announced(s) \in Nat
  BY <1>0, <1>1, Countable DEF Announced
<1>7. Lossless(s)'
  BY <1>0, <1>5, <1>6, NoneMissing
<1>8. Registered(s)' /\ CursorBound(s)' /\ CaughtUp(s)'
  BY <1>1, <1>2, <1>3 DEF Follows, Registered, CursorBound, Larger, CaughtUp
<1>9. Served(s)'
  BY <1>1, <1>2, <1>3, <1>4 DEF Follows, Served
<1>10. WalkExposes(s)'
  <2>1. head..(head - 1) = {}
    BY <1>0
  <2> QED BY <1>1, <1>2, <1>3, <2>1 DEF WalkExposes
<1> QED BY <1>7, <1>8, <1>9, <1>10 DEF Follows

\* The rows between the cursor and the tail are counted as dropped, all of them.
LEMMA TailFollows ==
  ASSUME TypeOK, TypeOK', NEW s \in Active, Follows(s), Lossless(s), ResumeTail(s)
  PROVE  Follows(s)' /\ Lossless(s)'
<1>0. /\ s \in Subs /\ rd[s] \in ReaderState /\ rd \in [Subs -> ReaderState]
      /\ chan \in [Subs -> ChanState] /\ pump[s] \in PumpState
      /\ head \in Nat /\ tail \in Nat /\ sub[s].cursor \in Nat /\ rd[s].next \in Nat
  BY HeadTail DEF TypeOK, Active, SubState, ReaderState
<1>1. UNCHANGED <<rows, stop, pub, sub, pump>> /\ rd[s].pc = "resumeTail"
  BY DEF ResumeTail, store
<1>2. /\ rd'[s].pc = "walk" /\ rd'[s].next = Larger(rd[s].next, tail) /\ rd'[s].head = rd[s].head
      /\ rd'[s].epoch = rd[s].epoch /\ rd'[s].exposed = rd[s].exposed
  BY <1>0 DEF ResumeTail, ReaderState
<1>3. chan'[s].queued = chan[s].queued /\ chan'[s].dropped = chan[s].dropped + Larger(0, tail - rd[s].next)
  BY <1>0 DEF ResumeTail, ChanState
<1>4. head' = head /\ tail' = tail /\ Queued(s)' = Queued(s) /\ (Unserved(s)' <=> Unserved(s))
  BY <1>1, <1>3 DEF head, tail, Queued, Unserved
<1>5. rd[s].next <= sub[s].cursor
  BY <1>1 DEF Follows, WalkExposes
<1>6. ASSUME NEW c \in Nat
      PROVE  /\ Passed(s, c) => Passed(s, c)'
             /\ Passed(s, c)' => Passed(s, c) \/ c \in rd[s].next..(tail - 1)
  BY <1>0, <1>1, <1>2, <1>5 DEF Passed, Larger
<1>7. Missing(s)' \subseteq Missing(s) \cup (rd[s].next..(tail - 1))
  <2>1. \A c \in 0..(head - 1) : c \in Nat
    BY <1>0
  <2> QED BY <1>1, <1>2, <1>4, <1>6, <2>1 DEF Missing
<1>8. IsFiniteSet(rd[s].next..(tail - 1))
      /\ Cardinality(rd[s].next..(tail - 1)) = Larger(0, tail - rd[s].next)
  <2>1. rd[s].next \in Int /\ tail - 1 \in Int
    BY <1>0
  <2>2. /\ IsFiniteSet(rd[s].next..(tail - 1))
        /\ Cardinality(rd[s].next..(tail - 1))
             = IF rd[s].next > tail - 1 THEN 0 ELSE (tail - 1) - rd[s].next + 1
    BY <2>1, FS_Interval
  <2> QED BY <1>0, <2>2 DEF Larger
<1>9. Announced(s)' >= Announced(s) + Cardinality(rd[s].next..(tail - 1))
  <2>1. chan[s].dropped \in Nat /\ pump[s].gapped \in Nat /\ Larger(0, tail - rd[s].next) \in Nat
    BY <1>0 DEF ChanState, PumpState, Larger
  <2> QED BY <1>1, <1>3, <1>8, <2>1 DEF Announced
<1>10. Lossless(s)'
  BY <1>0, <1>7, <1>8, <1>9, StaysLossless
<1>11. Registered(s)' /\ CursorBound(s)' /\ CaughtUp(s)'
  BY <1>1, <1>2, <1>4 DEF Follows, Registered, CursorBound, Larger, CaughtUp
<1>12. Served(s)'
  <2>1. \A c \in 0..(head - 1) : c \in Nat
    BY <1>0
  <2> QED BY <1>1, <1>2, <1>4, <1>6, <2>1 DEF Follows, Served
<1>13. WalkExposes(s)'
  <2>1. rd'[s].next..(tail - 1) = {}
    BY <1>0, <1>2 DEF Larger
  <2> QED BY <1>1, <1>2, <1>4, <2>1 DEF Follows, WalkExposes
<1> QED BY <1>10, <1>11, <1>12, <1>13 DEF Follows

\* A row walked is queued, counted, not wanted, or overwritten meanwhile.
LEMMA WalkFollows ==
  ASSUME TypeOK, TypeOK', OrderInv, NEW s \in Active, Follows(s), Lossless(s), ResumeWalk(s)
  PROVE  Follows(s)' /\ Lossless(s)'
<1>0. /\ s \in Subs /\ rd[s] \in ReaderState /\ rd \in [Subs -> ReaderState]
      /\ head \in Nat /\ tail \in Nat /\ rd[s].next \in Nat /\ rd[s].head \in Nat /\ ~sub[s].dead
  BY HeadTail DEF TypeOK, Active, ReaderState, Follows, Registered
<1>1. /\ UNCHANGED <<rows, stop, pub, sub, pump>> /\ rd[s].pc = "walk" /\ rd[s].next < rd[s].head
      /\ Offer(s, rd[s].next)
  BY DEF ResumeWalk, store
<1>2. /\ rd'[s].pc = "walk" /\ rd'[s].next = rd[s].next + 1 /\ rd'[s].head = rd[s].head
      /\ rd'[s].epoch = rd[s].epoch /\ rd'[s].exposed = rd[s].exposed
  BY <1>0, <1>1 DEF ResumeWalk, ReaderState
<1>3. rd[s].head <= head
  BY <1>0, <1>1 DEF OrderInv, InOrder, ResumeSeesPublish
<1>4. head' = head /\ tail' = tail /\ (Unserved(s)' <=> Unserved(s))
  BY <1>1 DEF head, tail, Unserved
<1>5. ASSUME NEW c \in Nat
      PROVE  Passed(s, c)' <=> Passed(s, c) \/ c = rd[s].next
  BY <1>0, <1>1, <1>2 DEF Passed
<1>6. Missing(s)' \subseteq 0..(head - 1) /\ \A c \in 0..(head - 1) : c \in Nat
  BY <1>0, <1>4 DEF Missing
<1>7. rd[s].next \notin rd[s].exposed => Live(rd[s].next)
  <2>1. rd[s].next < tail => rd[s].next \in rd[s].next..(tail - 1)
    BY <1>0
  <2>2. rd[s].next >= tail => Live(rd[s].next)
    BY <1>0, <1>1, <1>3 DEF Live
  <2> QED BY <1>0, <1>1, <2>1, <2>2 DEF Follows, WalkExposes
<1>8. Lossless(s)'
  <2>1. rd[s].next \in 0..(head - 1) /\ rd[s].epoch <= rd[s].next /\ rd[s].next \notin rd[s].exposed =>
          Live(rd[s].next) \/ Passed(s, rd[s].next)
    BY <1>7
  <2> QED BY <1>0, <1>1, <1>2, <1>5, <2>1, OfferLossless
<1>9. Registered(s)' /\ CursorBound(s)' /\ CaughtUp(s)'
  BY <1>1, <1>2, <1>4 DEF Follows, Registered, CursorBound, Larger, CaughtUp
<1>10. Served(s)'
  BY <1>1, <1>2, <1>4, <1>5, <1>6 DEF Follows, Served
<1>11. WalkExposes(s)'
  <2>1. (rd[s].next + 1)..(tail - 1) \subseteq rd[s].next..(tail - 1)
    BY <1>0
  <2> QED BY <1>1, <1>2, <1>4, <2>1 DEF Follows, WalkExposes
<1> QED BY <1>8, <1>9, <1>10, <1>11 DEF Follows

\* The walk is over: what it has not reached was appended meanwhile.
LEMMA CatchUpFollows ==
  ASSUME TypeOK, TypeOK', OrderInv, NEW s \in Active, Follows(s), Lossless(s), ResumeCatchUp(s)
  PROVE  Follows(s)' /\ Lossless(s)'
<1>0. /\ s \in Subs /\ rd[s] \in ReaderState /\ rd \in [Subs -> ReaderState]
      /\ sub \in [Subs -> SubState] /\ sub[s] \in SubState /\ sub[s].cursor \in Nat
      /\ head \in Nat /\ rd[s].next \in Nat /\ rd[s].head \in Nat /\ rd[s].epoch \in Nat
  BY HeadTail DEF TypeOK, Active, ReaderState, SubState
<1>1. UNCHANGED <<rows, stop, pub, chan, pump>> /\ rd[s].pc = "walk" /\ rd[s].next >= rd[s].head
  BY DEF ResumeCatchUp, store
<1>2. /\ rd'[s].pc = "unpause"
      /\ rd'[s].epoch = rd[s].epoch /\ rd'[s].exposed = rd[s].exposed
  BY <1>0 DEF ResumeCatchUp, ReaderState
<1>3. /\ sub'[s].cursor = Larger(sub[s].cursor, rd[s].head) /\ sub'[s].filter = sub[s].filter
      /\ sub'[s].member = sub[s].member /\ sub'[s].dead = sub[s].dead
      /\ sub'[s].paused = sub[s].paused
  BY <1>0 DEF ResumeCatchUp, SubState
<1>4. rd[s].head <= head
  BY <1>0, <1>1 DEF OrderInv, InOrder, ResumeSeesPublish
<1>5. head' = head /\ tail' = tail /\ Queued(s)' = Queued(s) /\ (Unserved(s)' <=> Unserved(s))
  BY <1>1 DEF head, tail, Queued, Unserved
<1>6. ASSUME NEW c \in 0..(head - 1)
      PROVE  /\ Passed(s, c)' => Passed(s, c)
             /\ Passed(s, c) => Passed(s, c)' \/ c \in rd[s].exposed
             /\ c < sub'[s].cursor \/ c \in rd[s].exposed
  <2>1. c >= rd[s].head => c \in rd[s].exposed
    <3>1. c >= rd[s].head => c \in rd[s].head..(head - 1)
      BY <1>0
    <3> QED BY <1>1, <3>1 DEF Follows, WalkExposes
  <2> QED BY <1>0, <1>1, <1>2, <1>3, <2>1 DEF Passed, Larger
<1>7. Missing(s)' \subseteq Missing(s)
  BY <1>1, <1>2, <1>3, <1>5, <1>6 DEF Missing
<1>8. Announced(s)' = Announced(s) /\ Announced(s) \in Nat
  BY <1>0, <1>1, Countable DEF Announced
<1>9. Lossless(s)'
  BY <1>0, <1>7, <1>8, NoneMissing
<1>10. Registered(s)' /\ CursorBound(s)'
  BY <1>0, <1>1, <1>2, <1>3, <1>4, <1>5 DEF Follows, Registered, CursorBound, Larger
<1>11. Served(s)' /\ CaughtUp(s)'
  BY <1>1, <1>2, <1>3, <1>5, <1>6 DEF Follows, Served, CaughtUp
<1>12. WalkExposes(s)'
  BY <1>2 DEF WalkExposes
<1> QED BY <1>9, <1>10, <1>11, <1>12 DEF Follows

\* A subscription served again has no row behind it that was owed.
LEMMA UnpauseFollows ==
  ASSUME TypeOK, TypeOK', NEW s \in Active, Follows(s), Lossless(s), ResumeUnpause(s)
  PROVE  Follows(s)' /\ Lossless(s)'
<1>0. /\ s \in Subs /\ rd[s] \in ReaderState /\ rd \in [Subs -> ReaderState]
      /\ sub \in [Subs -> SubState] /\ sub[s] \in SubState
  BY DEF TypeOK, Active
<1>1. UNCHANGED <<rows, stop, pub, chan, pump>> /\ rd[s].pc = "unpause"
  BY DEF ResumeUnpause, store
<1>2. /\ rd'[s].pc = "ready"
      /\ rd'[s].epoch = rd[s].epoch /\ rd'[s].exposed = rd[s].exposed
  BY <1>0 DEF ResumeUnpause, Enter, ReaderState
<1>3. /\ sub'[s].cursor = sub[s].cursor /\ sub'[s].filter = sub[s].filter
      /\ sub'[s].member = sub[s].member /\ sub'[s].dead = sub[s].dead
  BY <1>0 DEF ResumeUnpause, SubState
<1>4. head' = head /\ tail' = tail /\ Queued(s)' = Queued(s)
  BY <1>1 DEF head, tail, Queued
<1>5. \A c : Passed(s, c)' <=> Passed(s, c)
  BY <1>1, <1>2, <1>3 DEF Passed
<1>6. Missing(s)' = Missing(s)
  BY <1>1, <1>2, <1>3, <1>4, <1>5 DEF Missing
<1>7. Lossless(s)'
  BY <1>1, <1>6 DEF Lossless, Announced
<1>8. Registered(s)' /\ CursorBound(s)' /\ CaughtUp(s)' /\ WalkExposes(s)'
  BY <1>1, <1>2, <1>3, <1>4 DEF Follows, Registered, CursorBound, Larger, CaughtUp, WalkExposes
<1>9. Served(s)'
  <2>1. \A c \in 0..(head - 1) : rd[s].epoch <= c => c \in rd[s].exposed \/ Passed(s, c)
    BY <1>1 DEF Follows, CaughtUp, Passed
  <2> QED BY <1>2, <1>4, <1>5, <2>1 DEF Served
<1> QED BY <1>7, <1>8, <1>9 DEF Follows

\* Steps of other sessions, pumps and the server, as s sees them.
Bystands(s) ==
  /\ UNCHANGED <<rows, pub>> /\ (stop = "closed" => stop' = "closed")
  /\ sub'[s] = sub[s] /\ rd'[s] = rd[s]
  /\ chan'[s].queued = chan[s].queued /\ Announced(s)' = Announced(s)

\* A flush announces what it takes from the counter of dropped rows.
LEMMA PumpBystands ==
  ASSUME TypeInv, NEW t \in Subs, Pump(t), NEW s \in Subs
  PROVE  Bystands(s)
<1>0. /\ chan \in [Subs -> ChanState] /\ pump \in [Subs -> PumpState]
      /\ chan[s].dropped \in Nat /\ pump[s].gapped \in Nat
  BY DEF TypeInv, TypeOK, ChanState, PumpState
<1>1. UNCHANGED <<rows, stop, pub, rd, sub>>
  BY DEF Pump, PumpStart, PumpTake, PumpFlush, PumpStop, PumpCancelled, PumpDrain, PumpDrained,
     Flush, store
<1>2. CASE UNCHANGED chan /\ \E pc : pump' = [pump EXCEPT ![t].pc = pc]
  BY <1>0, <1>1, <1>2 DEF Bystands, Announced, PumpState
<1>3. CASE PumpTake(t)
  BY <1>0, <1>1, <1>3 DEF PumpTake, Bystands, Announced, PumpState
<1>4. ASSUME NEW pc, Flush(t, pc)
      PROVE  Bystands(s)
  <2>1. Gap(t) \in {0, chan[t].dropped}
    BY DEF Gap
  <2> DEFINE g == Gap(t)
  <2>2. g \in Nat
    BY <1>0, <2>1 DEF ChanState
  <2>3. chan'[s].queued = chan[s].queued
    BY <1>0, <1>4 DEF Flush, ChanState
  <2>4. CASE s # t
    BY <1>0, <1>1, <1>4, <2>3, <2>4 DEF Flush, Bystands, Announced
  <2>5. CASE s = t
    <3>1. chan'[s].dropped = chan[s].dropped - g /\ pump'[s].gapped = pump[s].gapped + g
      BY <1>0, <1>4, <2>5 DEF Flush, ChanState, PumpState
    <3> HIDE DEF g
    <3>2. Announced(s)' = Announced(s)
      BY <1>0, <2>2, <3>1 DEF Announced
    <3> QED BY <1>1, <2>3, <3>2 DEF Bystands
  <2> QED BY <2>4, <2>5
<1>5. PumpStart(t) \/ PumpDrain(t) => UNCHANGED chan /\ \E pc : pump' = [pump EXCEPT ![t].pc = pc]
  BY DEF PumpStart, PumpDrain
<1> QED BY <1>2, <1>3, <1>4, <1>5 DEF Pump, PumpStop, PumpFlush, PumpCancelled, PumpDrained

\* Who stands by loses nothing.
LEMMA BystanderFollows ==
  ASSUME TypeOK, TypeOK', NEW s \in Subs, Bystands(s), s \in Active => Follows(s) /\ Lossless(s)
  PROVE  /\ s \in Active' => Follows(s)' /\ Lossless(s)'
         /\ (sub[s].dead => rd[s].pc = "gone") => (sub'[s].dead => rd'[s].pc = "gone")
<1>1. s \in Active' => s \in Active
  BY DEF Bystands, Active
<1>2. ASSUME s \in Active PROVE Follows(s)' /\ Lossless(s)'
  BY <1>2, Aside DEF Bystands
<1> QED BY <1>1, <1>2 DEF Bystands

\* What a session's step does to its own subscription.
LEMMA SessionFollows ==
  ASSUME TypeOK, TypeOK', OrderInv, LossInv, NEW s \in Subs,
         \/ \E f \in Filters : \E from \in FromSeqs : SubscribeRead(s, f, from)
         \/ \E f \in Filters : UpdateFilter(s, f)
         \/ Pause(s) \/ ResumeCursor(s) \/ Unsubscribe(s) \/ Handler(s)
  PROVE  /\ s \in Active' => Follows(s)' /\ Lossless(s)'
         /\ sub'[s].dead => rd'[s].pc = "gone"
<1>0. /\ rd[s] \in ReaderState /\ rd \in [Subs -> ReaderState]
      /\ sub \in [Subs -> SubState] /\ sub[s] \in SubState
      /\ sub[s].dead => rd[s].pc = "gone"
      /\ s \in Active => Follows(s) /\ Lossless(s)
  BY DEF TypeOK, LossInv, FollowInv
<1>1. ASSUME NEW f, NEW from, SubscribeRead(s, f, from)
      PROVE  s \notin Active' /\ ~sub'[s].dead
  BY <1>0, <1>1 DEF SubscribeRead, Enter, ReaderState, SubState, Active
<1>2. CASE SubscribeJoin(s)
  <2>1. /\ UNCHANGED <<rows, pub, stop>> /\ rd'[s].pc \notin Resuming
        /\ rd'[s].epoch = Larger(head, sub[s].cursor)
        /\ sub'[s].cursor = sub[s].cursor /\ sub'[s].member /\ ~sub'[s].dead
    BY <1>0, <1>2 DEF SubscribeJoin, ReaderState, SubState, Resuming, store
  <2> QED BY <2>1, Begins
<1>3. ASSUME NEW f, UpdateFilter(s, f)
      PROVE  Follows(s)' /\ Lossless(s)' /\ ~sub'[s].dead
  <2>1. s \in Active
    BY <1>3 DEF Active, UpdateFilter
  <2>2. /\ UNCHANGED <<rows, pub, stop>> /\ rd'[s].pc \notin Resuming
        /\ rd'[s].epoch = Larger(head, sub[s].cursor)
        /\ sub'[s].cursor = sub[s].cursor /\ sub'[s].member /\ ~sub'[s].dead
    BY <1>0, <1>3, <2>1 DEF UpdateFilter, ReaderState, SubState, Resuming, store, Follows, Registered
  <2> QED BY <2>2, Begins
<1>4. CASE Pause(s) \/ QueryHead(s) \/ SendBacklog(s) \/ StartPump(s)
  <2>1. s \in Active /\ rd[s].pc \notin Resuming
    BY <1>4 DEF Active, Pause, QueryHead, SendBacklog, StartPump, Resuming
  <2>2. UNCHANGED <<rows, pub, stop, chan>>
    BY <1>4 DEF Pause, QueryHead, SendBacklog, StartPump, store
  <2>3. /\ sub'[s].cursor = sub[s].cursor /\ sub'[s].filter = sub[s].filter
        /\ sub'[s].member = sub[s].member /\ sub'[s].dead = sub[s].dead
        /\ (sub'[s].paused = sub[s].paused \/ sub'[s].paused)
    BY <1>0, <1>4 DEF Pause, QueryHead, SendBacklog, StartPump, SubState
  <2>4. /\ rd'[s].epoch = rd[s].epoch /\ rd'[s].exposed = rd[s].exposed
        /\ rd'[s].pc \notin Resuming
    BY <1>0, <1>4, <2>1 DEF Pause, QueryHead, SendBacklog, StartPump, Enter, ReaderState, Resuming
  <2>5. Announced(s)' = Announced(s)
    <3>1. pump'[s].gapped = pump[s].gapped
      BY <1>4 DEF TypeOK, PumpState, Pause, QueryHead, SendBacklog, StartPump
    <3> QED BY <2>2, <3>1 DEF Announced
  <2> QED BY <1>0, <2>1, <2>2, <2>3, <2>4, <2>5, Aside DEF Follows, Registered
<1>5. CASE ResumeCursor(s) \/ ResumeHead(s) \/ ResumeTail(s) \/ ResumeWalk(s) \/ ResumeCatchUp(s)
           \/ ResumeUnpause(s)
  <2>1. s \in Active
    BY <1>5 DEF Active, ResumeCursor, ResumeHead, ResumeTail, ResumeWalk, ResumeCatchUp, ResumeUnpause
  <2>2. Follows(s)' /\ Lossless(s)'
    BY <1>0, <1>5, <2>1, ResumeBegins, TailFollows, WalkFollows, CatchUpFollows, UnpauseFollows
  <2> QED BY <2>2 DEF Follows, Registered
<1>6. CASE Unsubscribe(s) \/ CloseDone(s)
  BY <1>0, <1>6 DEF Unsubscribe, CloseDone, Enter, Active, ReaderState, SubState
<1> QED BY <1>1, <1>2, <1>3, <1>4, <1>5, <1>6 DEF Handler

\* The other subscriptions stand by.
LEMMA SessionBystands ==
  ASSUME TypeOK, NEW t \in Subs, NEW s \in Subs \ {t},
         \/ \E f \in Filters : \E from \in FromSeqs : SubscribeRead(t, f, from)
         \/ \E f \in Filters : UpdateFilter(t, f)
         \/ Pause(t) \/ ResumeCursor(t) \/ Unsubscribe(t) \/ Handler(t)
  PROVE  Bystands(s)
<1>0. /\ rd \in [Subs -> ReaderState] /\ sub \in [Subs -> SubState]
      /\ chan \in [Subs -> ChanState] /\ pump \in [Subs -> PumpState]
  BY DEF TypeOK
<1>1. UNCHANGED <<rows, stop, pub>>
  BY DEF SubscribeRead, UpdateFilter, Pause, ResumeCursor, Unsubscribe, Handler, SubscribeJoin,
     QueryHead, SendBacklog, StartPump, ResumeHead, ResumeTail, ResumeWalk, ResumeCatchUp,
     ResumeUnpause, CloseDone, store
<1>2. rd'[s] = rd[s] /\ sub'[s] = sub[s]
  BY <1>0 DEF SubscribeRead, UpdateFilter, Pause, ResumeCursor, Unsubscribe, Handler, SubscribeJoin,
     QueryHead, SendBacklog, StartPump, ResumeHead, ResumeTail, ResumeWalk, ResumeCatchUp,
     ResumeUnpause, CloseDone, Enter
<1>3. chan'[s] = chan[s] /\ pump'[s] = pump[s]
  BY <1>0 DEF SubscribeRead, UpdateFilter, Pause, ResumeCursor, Unsubscribe, Handler, SubscribeJoin,
     QueryHead, SendBacklog, StartPump, ResumeHead, ResumeTail, ResumeWalk, ResumeCatchUp,
     ResumeUnpause, CloseDone, Offer, Deliver
<1> QED BY <1>1, <1>2, <1>3 DEF Bystands, Announced

\* Any step.
LEMMA NextLossless ==
  ASSUME TypeInv, TypeOK', OrderInv, LossInv, [Next]_vars
  PROVE  LossInv'
<1> USE DEF TypeInv
<1>0. \A s \in Subs : (sub[s].dead => rd[s].pc = "gone") /\ (s \in Active => Follows(s) /\ Lossless(s))
  BY DEF LossInv, FollowInv
<1>1. ASSUME \A s \in Subs : Bystands(s) PROVE LossInv'
  BY <1>0, <1>1, BystanderFollows DEF LossInv, FollowInv, Active
<1>2. ASSUME \/ \E k \in Kinds : PubAppend(k)
             \/ PubAppendClosed \/ Publisher \/ IngesterExit
      PROVE  LossInv'
  <2>1. ASSUME NEW s \in Active PROVE Follows(s)' /\ Lossless(s)'
    BY <1>0, <1>2, <2>1, AppendFollows, PublisherFollows, DeliverFollows, AdvanceFollows
       DEF Publisher, Active
  <2>2. \A s \in Subs : rd'[s].pc = rd[s].pc /\ sub'[s].dead = sub[s].dead
    <3>1. sub \in [Subs -> SubState] /\ rd \in [Subs -> ReaderState]
      BY DEF TypeOK
    <3>2. UNCHANGED sub \/ PubAdvance
      BY <1>2 DEF PubAppend, PubAppendClosed, Publisher, IngesterExit, PubSnapshot, PubSkip, PubPick,
         PubDeliver, PubDone
    <3>3. PubAdvance => \A s \in Subs : sub'[s].dead = sub[s].dead
      BY <3>1 DEF PubAdvance, SubState
    <3>4. ASSUME NEW k \in Kinds, PubAppend(k), NEW s \in Subs PROVE rd'[s].pc = rd[s].pc
      BY <3>1, <3>4 DEF PubAppend, ReaderState
    <3>5. UNCHANGED rd \/ \E k \in Kinds : PubAppend(k)
      BY <1>2 DEF PubAppendClosed, Publisher, IngesterExit, PubSnapshot, PubSkip, PubPick,
         PubDeliver, PubDone, PubAdvance
    <3> QED BY <3>2, <3>3, <3>4, <3>5
  <2>3. Active' = Active
    BY <2>2 DEF Active
  <2> QED BY <1>0, <2>1, <2>2, <2>3 DEF LossInv, FollowInv
<1>3. ASSUME NEW t \in Subs,
             \/ \E f \in Filters : \E from \in FromSeqs : SubscribeRead(t, f, from)
             \/ \E f \in Filters : UpdateFilter(t, f)
             \/ Pause(t) \/ ResumeCursor(t) \/ Unsubscribe(t) \/ Handler(t)
      PROVE  LossInv'
  <2>1. ASSUME NEW s \in Subs
        PROVE  (s \in Active' => Follows(s)' /\ Lossless(s)') /\ (sub'[s].dead => rd'[s].pc = "gone")
    <3>1. CASE s = t
      BY <1>3, <3>1, SessionFollows
    <3>2. CASE s # t
      <4>1. Bystands(s)
        BY <1>3, <3>2, SessionBystands
      <4> QED BY <1>0, <4>1, BystanderFollows
    <3> QED BY <3>1, <3>2
  <2> QED BY <2>1 DEF LossInv, FollowInv, Active
<1>4. ASSUME NEW t \in Subs, Pump(t) PROVE LossInv'
  BY <1>1, <1>4, PumpBystands
<1>5. CASE Shutdown \/ CloseStore \/ UNCHANGED vars
  BY <1>1, <1>5 DEF Shutdown, CloseStore, vars, store, Bystands, Announced
<1> QED BY <1>2, <1>3, <1>4, <1>5 DEF Next

\* In every state, whatever the interleaving.
LEMMA LossInvHolds == Spec => []LossInv
<1>1. Init => LossInv
  BY DEF Init, LossInv, FollowInv, Active
<1>2. TypeInv /\ TypeInv' /\ OrderInv /\ LossInv /\ [Next]_vars => LossInv'
  BY NextLossless DEF TypeInv
<1> QED BY <1>1, <1>2, Typed, Ordered, PTL DEF Spec

\* "Rows are re-walked on Resume" (Pause) and "counted as gaps via dropped" (Resume):
\* with every operation of clients and server allowed, a row that a subscriber was owed
\* and did not get is announced to it, but for rows whose publication or overwriting
\* overlapped a Resume of its (LogHub.OnlyExposedRowsVanish).
THEOREM OnlyExposedRowsVanishHolds == Spec => []OnlyExposedRowsVanish
<1>1. ASSUME TypeOK, LossInv PROVE OnlyExposedRowsVanish
  <2> SUFFICES ASSUME NEW s \in Active
               PROVE  Cardinality((Due(s, rd[s].epoch) \ Queued(s)) \ rd[s].exposed) <= Announced(s)
    BY DEF OnlyExposedRowsVanish
  <2>1. (Due(s, rd[s].epoch) \ Queued(s)) \ rd[s].exposed \in SUBSET (Missing(s) \cup {})
    BY DEF Due, Missing, Passed
  <2>2. s \in Subs /\ Lossless(s)
    BY <1>1 DEF Active, LossInv
  <2>3. IsFiniteSet({}) /\ Cardinality({}) = 0
    BY FS_EmptySet
  <2> QED BY <1>1, <2>1, <2>2, <2>3, Countable, Outnumbered DEF Lossless
<1> QED BY <1>1, TypeCorrect, LossInvHolds, PTL

\* Without Resume nothing is excused: what the cursor has passed was sent on, or announced
\* (LogHub.NoSilentDrop).
THEOREM NoSilentDropHolds == ASSUME "resume" \notin Ops PROVE Spec => []NoSilentDrop
<1>1. ASSUME OnlyExposedRowsVanish, Unexposed PROVE NoSilentDrop
  <2> SUFFICES ASSUME NEW s \in Active
               PROVE  Cardinality(Due(s, rd[s].epoch) \ Queued(s)) <= Announced(s)
    BY DEF NoSilentDrop
  <2>1. rd[s].exposed = {}
    BY <1>1 DEF Unexposed, Active
  <2>2. (Due(s, rd[s].epoch) \ Queued(s)) \ rd[s].exposed = Due(s, rd[s].epoch) \ Queued(s)
    BY <2>1
  <2> QED BY <1>1, <2>2 DEF OnlyExposedRowsVanish
<1> QED BY <1>1, OnlyExposedRowsVanishHolds, StaysUnexposed, PTL

-----------------------------------------------------------------------------
(* The seam of backlog and live tail.  "0 = live tail from now" (wire.go)  *)
(* is what the clients of the repository ask for.                          *)

FromNow == FromSeqs = {0}

\* A store that was closed before it had a row publishes row 0 all the same.
Barren == stop = "closed" /\ head = 0

\* A backlog leaves no row out, from its oldest to those the live tail decides about.
Whole(s) ==
  \A first \in rd[s].backlog : \A c \in first..(rd[s].epoch - 1) :
    c < head /\ rows[c + 1] \in sub[s].filter => c \in rd[s].backlog

Seam(s) ==
  /\ sub[s].cursor <= head \/ Barren
  /\ rd[s].epoch <= head \/ Barren
  /\ rd[s].pc = "queryTail" => rd[s].head <= head /\ (rd[s].epoch <= rd[s].head \/ Barren)
  /\ rd[s].pc \in {"new", "joining"} => rd[s].backlog = {}
  /\ Whole(s)

SeamInv == \A s \in Subs : Seam(s)

\* The last n elements are a suffix.
LEMMA LastOfSuffix ==
  ASSUME NEW S, S \subseteq Int, IsFiniteSet(S), NEW n \in Nat,
         NEW a \in LastOf(S, n), NEW c \in S, a <= c
  PROVE  c \in LastOf(S, n)
<1>1. {d \in S : d > c} \in SUBSET {d \in S : d > a}
  <2>1. a \in Int /\ c \in Int
    BY DEF LastOf
  <2>2. ASSUME NEW d \in S, d > c PROVE d > a
    BY <2>1, <2>2
  <2> QED BY <2>2
<1>2. IsFiniteSet({d \in S : d > a})
  BY FS_Subset
<1>3. Cardinality({d \in S : d > c}) <= Cardinality({d \in S : d > a})
  BY <1>1, <1>2, FS_Subset
<1>4. Cardinality({d \in S : d > c}) \in Nat /\ Cardinality({d \in S : d > a}) \in Nat
  <2>1. IsFiniteSet({d \in S : d > c})
    BY <1>1, <1>2, FS_Subset
  <2> QED BY <1>2, <2>1, FS_CardinalityType
<1>5. Cardinality({d \in S : d > a}) < n
  BY DEF LastOf
<1>6. Cardinality({d \in S : d > c}) < n
  BY <1>3, <1>4, <1>5
<1> QED BY <1>6 DEF LastOf

\* Steps that send no backlog and change no filter.
LEMMA SeamStays ==
  ASSUME TypeOK, TypeOK', NEW s \in Subs, Seam(s), rows' = rows, stop = "closed" => stop' = "closed",
         rd'[s].epoch = rd[s].epoch, rd'[s].backlog = rd[s].backlog, sub'[s].filter = sub[s].filter,
         sub'[s].cursor = sub[s].cursor \/ sub'[s].cursor <= head \/ Barren,
         \/ rd'[s].pc = rd[s].pc /\ rd'[s].head = rd[s].head
         \/ rd'[s].pc \notin {"queryTail", "new", "joining"}
         \/ rd'[s].pc = "queryTail" /\ rd'[s].head = head
         \/ rd'[s].pc = "joining" /\ rd[s].pc = "new"
  PROVE  Seam(s)'
<1>1. head' = head /\ (Barren => Barren') /\ head \in Nat
  BY HeadTail DEF head, Barren
<1> QED BY <1>1 DEF Seam, Whole

\* A backlog is sent: it has the last matching rows the ring has (queryBacklog).
LEMMA SendSeam ==
  ASSUME TypeOK, TypeOK', NEW s \in Subs, Seam(s), SendBacklog(s)
  PROVE  Seam(s)'
<1> DEFINE S == {c \in tail..(rd[s].head - 1) : Matches(s, c)}
<1>0. /\ rd \in [Subs -> ReaderState] /\ rd[s] \in ReaderState /\ head \in Nat /\ tail \in Nat
      /\ rd[s].head \in Nat /\ rd[s].epoch \in Nat /\ BacklogDepth \in Nat /\ sub[s].cursor \in Nat
  BY HeadTail, HubAssumption DEF TypeOK, ReaderState, BacklogDepth, SubState
<1>1. UNCHANGED <<rows, stop, pub, sub>> /\ rd[s].pc = "queryTail"
  BY DEF SendBacklog, store
<1>2. /\ rd'[s].backlog = LastOf(S, BacklogDepth) /\ rd'[s].epoch = rd[s].epoch
      /\ rd'[s].pc \in {"starting", "ready"}
  <2> DEFINE pc == IF pump[s].pc = "off" THEN "starting" ELSE "ready"
             last == LastOf(S, BacklogDepth)
  <2>1. rd'[s] = [rd[s] EXCEPT !.pc = pc, !.head = 0, !.backlog = last]
    BY <1>0 DEF SendBacklog
  <2>2. pc \in {"starting", "ready"}
    OBVIOUS
  <2> HIDE DEF pc, last
  <2>3. rd'[s].backlog = last /\ rd'[s].epoch = rd[s].epoch /\ rd'[s].pc = pc
    BY <1>0, <2>1 DEF ReaderState
  <2> QED BY <2>2, <2>3 DEF last
<1>3. head' = head /\ (Barren <=> Barren')
  BY <1>1 DEF head, Barren
<1>4. S \subseteq Int /\ IsFiniteSet(S)
  <2>0. tail \in Int /\ rd[s].head - 1 \in Int
    BY <1>0
  <2>1. IsFiniteSet(tail..(rd[s].head - 1)) /\ tail..(rd[s].head - 1) \subseteq Int
    BY <2>0, FS_Interval
  <2> QED BY <2>1, FS_Subset
<1>5. Whole(s)'
  <2> SUFFICES ASSUME NEW first \in LastOf(S, BacklogDepth), NEW c \in first..(rd[s].epoch - 1),
                      c < head, rows[c + 1] \in sub[s].filter
               PROVE  c \in LastOf(S, BacklogDepth)
    BY <1>1, <1>2, <1>3 DEF Whole
  <2>1. first \in S /\ first \in Nat /\ c \in Nat /\ first <= c
    BY <1>0, <1>4 DEF LastOf
  <2>2. c < rd[s].head /\ rd[s].head <= head
    BY <1>0, <1>1, <2>1 DEF Seam, Barren
  <2>3. Live(c) /\ c \in tail..(rd[s].head - 1)
    BY <1>0, <2>1, <2>2 DEF Live
  <2>4. c \in S
    BY <2>3 DEF Matches
  <2> HIDE DEF S
  <2> QED BY <1>0, <1>4, <2>1, <2>4, LastOfSuffix
<1> QED BY <1>1, <1>2, <1>3, <1>5 DEF Seam

\* A filter takes effect, with no backlog of its own yet.
LEMMA BeginSeam ==
  ASSUME TypeOK, TypeOK', NEW s \in Subs, Seam(s), UNCHANGED <<rows, stop>>,
         sub'[s].cursor = sub[s].cursor, rd'[s].epoch = Larger(head, sub[s].cursor),
         rd'[s].backlog = {}, rd'[s].pc # "queryTail"
  PROVE  Seam(s)'
<1>1. head' = head /\ (Barren <=> Barren') /\ head \in Nat /\ sub[s].cursor \in Nat
  BY HeadTail DEF head, Barren, TypeOK, SubState
<1> QED BY <1>1 DEF Seam, Whole, Larger

\* The publisher's steps: a row appended is none the live tail has decided about.
LEMMA PublisherSeam ==
  ASSUME TypeOK, TypeOK', PubTarget, OrderInv, NEW s \in Subs, Seam(s),
         \/ \E k \in Kinds : PubAppend(k)
         \/ PubAppendClosed \/ Publisher \/ IngesterExit
  PROVE  Seam(s)'
<1>0. /\ rd \in [Subs -> ReaderState] /\ sub \in [Subs -> SubState] /\ rd[s] \in ReaderState
      /\ head \in Nat /\ rd[s].epoch \in Nat /\ sub[s].cursor \in Nat /\ rd[s].backlog \subseteq Nat
  BY HeadTail DEF TypeOK, ReaderState, SubState
<1>1. ASSUME NEW k \in Kinds, PubAppend(k) PROVE Seam(s)'
  <2>1. /\ head' = head + 1 /\ stop # "closed" /\ stop' = stop /\ sub' = sub
        /\ \A c \in 0..(head - 1) : rows'[c + 1] = rows[c + 1]
    BY <1>1 DEF PubAppend, head, TypeOK
  <2>2. /\ rd'[s].pc = rd[s].pc /\ rd'[s].head = rd[s].head /\ rd'[s].epoch = rd[s].epoch
        /\ rd'[s].backlog = rd[s].backlog
    <3>1. rd'[s] = IF rd[s].pc \in Resuming
                   THEN [rd[s] EXCEPT !.exposed = @ \union {head, head - Cap}] ELSE rd[s]
      BY <1>0, <1>1 DEF PubAppend
    <3> QED BY <1>0, <3>1 DEF ReaderState
  <2>3. sub[s].cursor <= head /\ rd[s].epoch <= head
    BY <2>1 DEF Seam, Barren
  <2>4. ASSUME NEW first \in rd[s].backlog, NEW c \in first..(rd[s].epoch - 1),
               c < head', rows'[c + 1] \in sub[s].filter
        PROVE  c \in rd[s].backlog
    <3>1. c \in 0..(head - 1) /\ c < head
      BY <1>0, <2>3, <2>4
    <3> QED BY <2>1, <2>4, <3>1 DEF Seam, Whole
  <2>5. Whole(s)'
    BY <2>1, <2>2, <2>4 DEF Whole
  <2>6. rd[s].pc = "queryTail" => rd[s].head <= head' /\ rd[s].epoch <= rd[s].head
    <3>1. rd[s].head \in Nat
      BY <1>0 DEF ReaderState
    <3> QED BY <1>0, <2>1, <3>1 DEF Seam, Barren
  <2> QED BY <1>0, <2>1, <2>2, <2>3, <2>5, <2>6 DEF Seam
<1>2. CASE PubAdvance
  <2>1. UNCHANGED <<rows, stop, rd>> /\ pub.pc = "advance" /\ pub.seq \in Nat /\ pub.sub \in Subs
    BY <1>2 DEF PubAdvance, store, TypeOK, PubTarget
  <2>2. pub.seq = head - 1 \/ (stop = "closed" /\ pub.seq = 0)
    BY <2>1 DEF OrderInv, PublishesLast, Busy
  <2>3. /\ sub'[s].filter = sub[s].filter
        /\ sub'[s].cursor \in {sub[s].cursor, Larger(sub[s].cursor, pub.seq + 1)}
    BY <1>0, <1>2, <2>1 DEF PubAdvance, SubState
  <2>4. sub'[s].cursor = sub[s].cursor \/ sub'[s].cursor <= head \/ Barren
    BY <1>0, <2>1, <2>2, <2>3 DEF Larger, Barren
  <2> QED BY <2>1, <2>3, <2>4, SeamStays
<1>3. CASE PubAppendClosed \/ IngesterExit \/ (Publisher /\ ~PubAdvance)
  <2>1. UNCHANGED <<rows, stop, rd, sub>>
    BY <1>3 DEF PubAppendClosed, IngesterExit, Publisher, PubSnapshot, PubSkip, PubPick, PubDeliver,
       PubDone, store
  <2> QED BY <2>1, SeamStays
<1> QED BY <1>1, <1>2, <1>3

\* The session's own steps.
LEMMA SessionSeam ==
  ASSUME FromNow, TypeOK, TypeOK', OrderInv, NEW s \in Subs, Seam(s),
         \/ \E f \in Filters : \E from \in FromSeqs : SubscribeRead(s, f, from)
         \/ \E f \in Filters : UpdateFilter(s, f)
         \/ Pause(s) \/ ResumeCursor(s) \/ Unsubscribe(s) \/ Handler(s)
  PROVE  Seam(s)'
<1>0. /\ rd \in [Subs -> ReaderState] /\ sub \in [Subs -> SubState] /\ rd[s] \in ReaderState
      /\ sub[s] \in SubState /\ head \in Nat
  BY HeadTail DEF TypeOK
<1>1. ASSUME NEW f, SubscribeRead(s, f, 0) PROVE Seam(s)'
  <2>1. /\ UNCHANGED <<rows, stop>> /\ rd[s].pc = "new" /\ rd'[s].pc = "joining"
        /\ rd'[s].epoch = rd[s].epoch /\ rd'[s].backlog = rd[s].backlog /\ sub'[s].cursor = head
    BY <1>0, <1>1 DEF SubscribeRead, Enter, ReaderState, SubState, store
  <2>2. rd'[s].backlog = {} /\ head' = head /\ (Barren <=> Barren')
    BY <2>1 DEF Seam, head, Barren
  <2> QED BY <1>0, <2>1, <2>2 DEF Seam, Whole
<1>2. CASE SubscribeJoin(s)
  <2>1. /\ UNCHANGED <<rows, stop>> /\ rd'[s].epoch = Larger(head, sub[s].cursor)
        /\ rd'[s].pc # "queryTail" /\ rd'[s].backlog = rd[s].backlog /\ rd[s].pc = "joining"
        /\ sub'[s].cursor = sub[s].cursor
    BY <1>0, <1>2 DEF SubscribeJoin, ReaderState, SubState, store
  <2> QED BY <2>1, BeginSeam DEF Seam
<1>3. ASSUME NEW f, UpdateFilter(s, f) PROVE Seam(s)'
  <2>1. /\ UNCHANGED <<rows, stop>> /\ rd'[s].epoch = Larger(head, sub[s].cursor)
        /\ rd'[s].pc # "queryTail" /\ rd'[s].backlog = {} /\ sub'[s].cursor = sub[s].cursor
    BY <1>0, <1>3 DEF UpdateFilter, ReaderState, SubState, store
  <2> QED BY <2>1, BeginSeam
<1>4. CASE SendBacklog(s)
  BY <1>4, SendSeam
<1>5. CASE QueryHead(s)
  BY <1>0, <1>5, SeamStays DEF QueryHead, ReaderState, store
<1>6. CASE Pause(s) \/ Unsubscribe(s) \/ StartPump(s) \/ CloseDone(s) \/ ResumeUnpause(s)
  <2>1. UNCHANGED <<rows, stop>>
    BY <1>6 DEF Pause, Unsubscribe, StartPump, CloseDone, ResumeUnpause, store
  <2>2. /\ rd'[s].epoch = rd[s].epoch /\ rd'[s].backlog = rd[s].backlog
        /\ rd'[s].pc \notin {"queryTail", "new", "joining"}
    BY <1>0, <1>6 DEF Pause, Unsubscribe, StartPump, CloseDone, ResumeUnpause, Enter, ReaderState
  <2>3. sub'[s].filter = sub[s].filter /\ sub'[s].cursor = sub[s].cursor
    BY <1>0, <1>6 DEF Pause, Unsubscribe, StartPump, CloseDone, ResumeUnpause, SubState
  <2> QED BY <2>1, <2>2, <2>3, SeamStays
<1>7. CASE ResumeCursor(s) \/ ResumeHead(s) \/ ResumeTail(s) \/ ResumeWalk(s)
  <2>1. UNCHANGED <<rows, stop, sub>>
    BY <1>7 DEF ResumeCursor, ResumeHead, ResumeTail, ResumeWalk, store
  <2>2. /\ rd'[s].epoch = rd[s].epoch /\ rd'[s].backlog = rd[s].backlog
        /\ rd'[s].pc \notin {"queryTail", "new", "joining"}
    BY <1>0, <1>7 DEF ResumeCursor, ResumeHead, ResumeTail, ResumeWalk, ReaderState
  <2> QED BY <2>1, <2>2, SeamStays
<1>8. CASE ResumeCatchUp(s)
  <2>1. UNCHANGED <<rows, stop>> /\ rd[s].pc = "walk"
    BY <1>8 DEF ResumeCatchUp, store
  <2>2. /\ rd'[s].epoch = rd[s].epoch /\ rd'[s].backlog = rd[s].backlog /\ rd'[s].pc = "unpause"
    BY <1>0, <1>8 DEF ResumeCatchUp, ReaderState
  <2>3. sub'[s].filter = sub[s].filter /\ sub'[s].cursor = Larger(sub[s].cursor, rd[s].head)
    BY <1>0, <1>8 DEF ResumeCatchUp, SubState
  <2>4. rd[s].head <= head
    BY <2>1 DEF OrderInv, InOrder, ResumeSeesPublish
  <2>5. sub'[s].cursor = sub[s].cursor \/ sub'[s].cursor <= head
    BY <2>3, <2>4 DEF Larger
  <2> QED BY <2>1, <2>2, <2>3, <2>5, SeamStays
<1> QED BY <1>1, <1>2, <1>3, <1>4, <1>5, <1>6, <1>7, <1>8 DEF Handler, FromNow

\* Any step.
LEMMA NextSeam ==
  ASSUME FromNow, TypeInv, TypeOK', OrderInv, SeamInv, [Next]_vars
  PROVE  SeamInv'
<1> USE DEF TypeInv
<1> SUFFICES ASSUME NEW s \in Subs PROVE Seam(s)'
  BY DEF SeamInv
<1>0. Seam(s)
  BY DEF SeamInv
<1>1. CASE Bystands(s)
  BY <1>0, <1>1, SeamStays DEF Bystands
<1>2. CASE \/ \E k \in Kinds : PubAppend(k)
           \/ PubAppendClosed \/ Publisher \/ IngesterExit
  BY <1>0, <1>2, PublisherSeam
<1>3. ASSUME NEW t \in Subs,
             \/ \E f \in Filters : \E from \in FromSeqs : SubscribeRead(t, f, from)
             \/ \E f \in Filters : UpdateFilter(t, f)
             \/ Pause(t) \/ ResumeCursor(t) \/ Unsubscribe(t) \/ Handler(t)
      PROVE  Seam(s)'
  <2>1. CASE s = t
    BY <1>0, <1>3, <2>1, SessionSeam
  <2>2. CASE s # t
    BY <1>1, <1>3, <2>2, SessionBystands
  <2> QED BY <2>1, <2>2
<1>4. ASSUME NEW t \in Subs, Pump(t) PROVE Seam(s)'
  BY <1>1, <1>4, PumpBystands
<1>5. CASE Shutdown \/ CloseStore \/ UNCHANGED vars
  BY <1>1, <1>5 DEF Shutdown, CloseStore, vars, store, Bystands, Announced
<1> QED BY <1>2, <1>3, <1>4, <1>5 DEF Next

\* In every state, whatever the interleaving.
LEMMA SeamInvHolds == ASSUME FromNow PROVE Spec => []SeamInv
<1>1. Init => SeamInv
  <2> SUFFICES ASSUME Init, NEW s \in Subs PROVE Seam(s)
    BY DEF SeamInv
  <2>1. head = 0 /\ rd[s].epoch = 0 /\ rd[s].backlog = {} /\ rd[s].pc = "new" /\ sub[s].cursor = 0
    BY DEF Init, head
  <2> QED BY <2>1 DEF Seam, Whole
<1>2. TypeInv /\ TypeInv' /\ OrderInv /\ SeamInv /\ [Next]_vars => SeamInv'
  BY NextSeam DEF TypeInv
<1> QED BY <1>1, <1>2, Typed, Ordered, PTL DEF Spec

\* handleSubscribe and handleUpdateFilter register first and query the backlog afterwards:
\* for clients that follow from now on and do not resume, no row falls between the two
\* without being announced (LogHub.BacklogSeam).
THEOREM BacklogSeamHolds ==
  ASSUME FromNow, "resume" \notin Ops
  PROVE  Spec => []BacklogSeam
<1>1. ASSUME TypeOK, LossInv, SeamInv, Unexposed PROVE BacklogSeam
  <2> SUFFICES ASSUME NEW s \in Active, NEW first \in rd[s].backlog
               PROVE  Cardinality(Due(s, first) \ (Queued(s) \union rd[s].backlog)) <= Announced(s)
    BY DEF BacklogSeam
  <2>0. s \in Subs
    BY DEF Active
  <2>1. /\ first \in Nat /\ rd[s].epoch \in Nat /\ rd[s].exposed = {} /\ Lossless(s) /\ Whole(s)
        /\ head \in Nat
    BY <1>1, <2>0, HeadTail DEF TypeOK, ReaderState, Unexposed, LossInv, SeamInv, Seam
  <2>2. ASSUME NEW c \in Due(s, first) \ (Queued(s) \union rd[s].backlog)
        PROVE  c \in Missing(s)
    <3>1. /\ c \in 0..(head - 1) /\ first <= c /\ c < sub[s].cursor
          /\ rows[c + 1] \in sub[s].filter /\ c \notin Queued(s) /\ c \notin rd[s].backlog
      BY <2>2 DEF Due
    <3>2. c >= rd[s].epoch
      <4>1. c < head /\ (c < rd[s].epoch => c \in first..(rd[s].epoch - 1))
        BY <2>1, <3>1
      <4> QED BY <2>1, <3>1, <4>1 DEF Whole
    <3> QED BY <2>1, <3>1, <3>2 DEF Missing, Passed
  <2>3. IsFiniteSet({}) /\ Cardinality({}) = 0
    BY FS_EmptySet
  <2>4. Due(s, first) \ (Queued(s) \union rd[s].backlog) \in SUBSET (Missing(s) \cup {})
    BY <2>2
  <2> QED BY <1>1, <2>0, <2>1, <2>3, <2>4, Countable, Outnumbered DEF Lossless
<1> QED BY <1>1, TypeCorrect, LossInvHolds, SeamInvHolds, StaysUnexposed, PTL
=============================================================================
