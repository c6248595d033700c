--------------------------- MODULE LogHubProofs ---------------------------
(***************************************************************************)
(* What holds of LogHub for any number of subscribers, rows, any ring and  *)
(* channel capacity: types, the order of delivery, and that it implements  *)
(* LiveTail.                                                               *)
(***************************************************************************)
EXTENDS LogHub, TLAPS

\* The channel and the batch are windows of queued, and a publisher that is
\* serving somebody serves a subscription.
Windows ==
  \A s \in Subs : pump[s].sent <= pump[s].taken /\ pump[s].taken <= Len(chan[s].queued)

PubTarget == pub.pc \in {"deliver", "advance"} => pub.sub \in Subs

TypeInv == TypeOK /\ Windows /\ PubTarget

\* The sequence numbers of Head and Tail are natural numbers.
LEMMA HeadTail == ASSUME TypeOK PROVE head \in Nat /\ tail \in Nat
BY HubAssumption DEF TypeOK, head, tail, Larger

\* A delivery changes at most one channel: a row more at its end or one more
\* counted as dropped.
LEMMA DeliverType ==
  ASSUME TypeInv, NEW s \in Subs, NEW seq \in Nat, Deliver(s, seq)
  PROVE  /\ chan' \in [Subs -> ChanState]
         /\ \A t \in Subs : Len(chan'[t].queued) >= Len(chan[t].queued)
<1>1. chan \in [Subs -> ChanState]
  BY DEF TypeInv, TypeOK
<1>2. \A t \in Subs : chan[t].queued \in Seq(Nat) /\ Len(chan[t].queued) \in Nat
  BY <1>1 DEF ChanState
<1>3. CASE UNCHANGED chan
  BY <1>1, <1>2, <1>3
<1>4. CASE chan' = [chan EXCEPT ![s].queued = Append(@, seq)]
  <2>1. /\ Append(chan[s].queued, seq) \in Seq(Nat)
        /\ Len(Append(chan[s].queued, seq)) = Len(chan[s].queued) + 1
    BY <1>2
  <2>2. chan'[s] = [chan[s] EXCEPT !.queued = Append(chan[s].queued, seq)]
    BY <1>1, <1>4
  <2>3. chan'[s] \in ChanState /\ chan'[s].queued = Append(chan[s].queued, seq)
    BY <1>1, <2>1, <2>2 DEF ChanState
  <2>4. \A t \in Subs \ {s} : chan'[t] = chan[t]
    BY <1>1, <1>4
  <2>5. chan' \in [Subs -> ChanState]
    BY <1>1, <1>4, <2>3, <2>4
  <2> QED BY <1>2, <2>1, <2>3, <2>4, <2>5
<1>5. CASE chan' = [chan EXCEPT ![s].dropped = @ + 1]
  <2>1. chan[s].dropped + 1 \in Nat
    BY <1>1 DEF ChanState
  <2>2. chan' \in [Subs -> ChanState]
    BY <1>1, <1>5, <2>1 DEF ChanState
  <2>3. \A t \in Subs : chan'[t].queued = chan[t].queued
    BY <1>1, <1>5 DEF ChanState
  <2> QED BY <1>2, <2>2, <2>3
<1> QED BY <1>3, <1>4, <1>5 DEF Deliver

\* A delivery leaves every channel a channel, and takes nothing out of one.
LEMMA OfferType ==
  ASSUME TypeInv, NEW s \in Subs, NEW seq \in Nat, Offer(s, seq)
  PROVE  /\ chan' \in [Subs -> ChanState]
         /\ \A t \in Subs : Len(chan'[t].queued) >= Len(chan[t].queued)
<1>1. CASE Deliver(s, seq)
  BY <1>1, DeliverType
<1>2. CASE UNCHANGED chan
  <2>1. chan \in [Subs -> ChanState] /\ \A t \in Subs : Len(chan[t].queued) \in Nat
    BY DEF TypeInv, TypeOK, ChanState
  <2> QED BY <1>2, <2>1
<1> QED BY <1>1, <1>2 DEF Offer

\* The store and its subscribers begin with their types.
LEMMA InitType == Init => TypeInv
<1> SUFFICES ASSUME Init PROVE TypeInv
  OBVIOUS
<1>1. TypeOK
  BY HubAssumption DEF Init, TypeOK, ReaderState, SubState, ChanState, PumpState, PubPcs, ReaderPcs, PumpPcs
<1>2. Windows /\ PubTarget
  BY DEF Init, Windows, PubTarget
<1> QED BY <1>1, <1>2 DEF TypeInv

---------------------------------------------------------------------------
(* A step of one actor, given what it writes *)

PubState == [pc : PubPcs, seq : Nat, todo : SUBSET Subs, sub : Subs \union {NoSub}]

\* A step that writes a session handler's state only.
LEMMA ReaderKeeps ==
  ASSUME TypeInv, UNCHANGED <<store, pub, chan, pump>>,
         rd' \in [Subs -> ReaderState], sub' \in [Subs -> SubState]
  PROVE  TypeInv'
BY DEF TypeInv, TypeOK, Windows, PubTarget, store

\* A step that writes the ingester's state, and the rows.
LEMMA PublisherKeeps ==
  ASSUME TypeInv, UNCHANGED <<stop, chan, pump>>,
         rows' \in Seq(Kinds), lines' \in Nat, pub' \in PubState, PubTarget',
         rd' \in [Subs -> ReaderState], sub' \in [Subs -> SubState]
  PROVE  TypeInv'
BY DEF TypeInv, TypeOK, Windows, PubTarget, PubState

\* A step that writes a pump's state and its channel.
LEMMA PumpKeeps ==
  ASSUME TypeInv, UNCHANGED <<store, pub, sub>>, pump' \in [Subs -> PumpState],
         rd' \in [Subs -> ReaderState], chan' \in [Subs -> ChanState], Windows'
  PROVE  TypeInv'
BY DEF TypeInv, TypeOK, PubTarget, store

---------------------------------------------------------------------------
(* Every step keeps the types, the actions of one actor at a time *)

\* Append, publish and the end of the ingester (Store.Append, Store.publish).
LEMMA PublisherType ==
  ASSUME TypeInv,
         \/ \E k \in Kinds : PubAppend(k)
         \/ PubAppendClosed \/ Publisher \/ IngesterExit
  PROVE  TypeInv'
<1>0. /\ rows \in Seq(Kinds) /\ lines \in Nat /\ pub \in PubState
      /\ rd \in [Subs -> ReaderState] /\ sub \in [Subs -> SubState] /\ PubTarget
  BY DEF TypeInv, TypeOK, PubState
<1>1. ASSUME NEW k \in Kinds, PubAppend(k) PROVE TypeInv'
  <2>1. rows' \in Seq(Kinds) /\ lines' \in Nat
    BY <1>0, <1>1 DEF PubAppend
  <2>2. head \in Nat /\ head - Cap \in Int
    BY HeadTail, HubAssumption DEF TypeInv
  <2>3. pub' \in PubState /\ PubTarget'
    BY <1>0, <1>1, <2>2 DEF PubAppend, PubPcs, PubState, PubTarget
  <2>4. \A s \in Subs :
          [rd[s] EXCEPT !.exposed = @ \union {head, head - Cap}] \in ReaderState
    <3> SUFFICES ASSUME NEW s \in Subs
                 PROVE  [rd[s] EXCEPT !.exposed = @ \union {head, head - Cap}] \in ReaderState
      OBVIOUS
    <3> DEFINE both == rd[s].exposed \union {head, head - Cap}
    <3>1. rd[s] \in ReaderState /\ both \in SUBSET Int
      BY <1>0, <2>2 DEF ReaderState
    <3> HIDE DEF both
    <3>2. [rd[s] EXCEPT !.exposed = both] \in ReaderState
      BY <3>1 DEF ReaderState
    <3> QED BY <3>2 DEF both
  <2>5. rd' \in [Subs -> ReaderState]
    BY <1>0, <1>1, <2>4 DEF PubAppend
  <2> QED BY <1>0, <1>1, <2>1, <2>3, <2>5, PublisherKeeps DEF PubAppend
<1>2. CASE PubAppendClosed
  <2>1. pub' \in PubState /\ PubTarget'
    BY <1>0, <1>2 DEF PubAppendClosed, PubPcs, PubState, PubTarget
  <2>2. lines' \in Nat
    BY <1>0, <1>2 DEF PubAppendClosed
  <2> QED BY <1>0, <1>2, <2>1, <2>2, PublisherKeeps DEF PubAppendClosed
<1>3. CASE PubSnapshot
  <2>1. pub' \in PubState /\ PubTarget'
    BY <1>0, <1>3 DEF PubSnapshot, PubPcs, PubState, PubTarget
  <2> QED BY <1>0, <1>3, <2>1, PublisherKeeps DEF PubSnapshot, store
<1>4. ASSUME NEW s \in Subs, PubSkip(s) PROVE TypeInv'
  <2>1. pub' \in PubState /\ PubTarget'
    BY <1>0, <1>4 DEF PubSkip, PubPcs, PubState, PubTarget
  <2> QED BY <1>0, <1>4, <2>1, PublisherKeeps DEF PubSkip, store
<1>5. ASSUME NEW s \in Subs, PubPick(s) PROVE TypeInv'
  <2>1. pub' \in PubState /\ PubTarget'
    BY <1>0, <1>5 DEF PubPick, PubPcs, PubState, PubTarget
  <2> QED BY <1>0, <1>5, <2>1, PublisherKeeps DEF PubPick, store
<1>6. CASE PubDeliver
  <2>1. pub.sub \in Subs /\ pub.seq \in Nat /\ Offer(pub.sub, pub.seq)
    BY <1>0, <1>6 DEF PubDeliver, PubTarget, PubState
  <2>2. /\ chan' \in [Subs -> ChanState]
        /\ \A t \in Subs : Len(chan'[t].queued) >= Len(chan[t].queued)
    BY <2>1, OfferType
  <2>3. pump \in [Subs -> PumpState] /\ chan \in [Subs -> ChanState] /\ Windows
    BY DEF TypeInv, TypeOK
  <2>4. \A t \in Subs : /\ pump[t].taken \in Nat /\ Len(chan[t].queued) \in Nat
                        /\ Len(chan'[t].queued) \in Nat
    BY <2>2, <2>3 DEF PumpState, ChanState
  <2>5. Windows'
    BY <1>6, <2>2, <2>3, <2>4 DEF PubDeliver, Windows
  <2>6. pub' \in PubState /\ PubTarget'
    BY <1>0, <1>6, <2>1 DEF PubDeliver, PubPcs, PubState, PubTarget
  <2> QED BY <1>6, <2>2, <2>5, <2>6 DEF PubDeliver, TypeInv, TypeOK, PubState, store
<1>7. CASE PubAdvance
  <2>1. pub.sub \in Subs /\ Larger(sub[pub.sub].cursor, pub.seq + 1) \in Nat
    BY <1>0, <1>7 DEF PubAdvance, PubTarget, Larger, SubState, PubState
  <2>2. sub' \in [Subs -> SubState]
    BY <1>0, <1>7, <2>1 DEF PubAdvance, SubState
  <2>3. pub' \in PubState /\ PubTarget'
    BY <1>0, <1>7 DEF PubAdvance, PubPcs, PubState, PubTarget
  <2> QED BY <1>0, <1>7, <2>2, <2>3, PublisherKeeps DEF PubAdvance, store
<1>8. CASE PubDone
  <2>1. pub' \in PubState /\ PubTarget'
    BY <1>0, <1>8 DEF PubDone, PubPcs, PubState, PubTarget
  <2> QED BY <1>0, <1>8, <2>1, PublisherKeeps DEF PubDone, store
<1>9. CASE IngesterExit
  <2>1. pub' \in PubState /\ PubTarget'
    BY <1>0, <1>9 DEF IngesterExit, PubPcs, PubState, PubTarget
  <2> QED BY <1>0, <1>9, <2>1, PublisherKeeps DEF IngesterExit, store
<1> QED BY <1>1, <1>2, <1>3, <1>4, <1>5, <1>6, <1>7, <1>8, <1>9 DEF Publisher

\* The first step of each request of a session (Subscribe, UpdateFilter, Pause, Resume).
LEMMA RequestType ==
  ASSUME TypeInv, NEW s \in Subs,
         \/ \E f \in Filters : \E from \in FromSeqs : SubscribeRead(s, f, from)
         \/ \E f \in Filters : UpdateFilter(s, f)
         \/ Pause(s) \/ ResumeCursor(s) \/ Unsubscribe(s)
  PROVE  TypeInv'
<1>0. rd \in [Subs -> ReaderState] /\ sub \in [Subs -> SubState]
  BY DEF TypeInv, TypeOK
<1>h. head \in Nat
  BY HeadTail DEF TypeInv
<1>1. ASSUME NEW f \in Filters, NEW from \in FromSeqs, SubscribeRead(s, f, from) PROVE TypeInv'
  <2> DEFINE start == IF from = 0 THEN head ELSE from
  <2>1. start \in Nat /\ f \in SUBSET (Kinds \union {Gone})
    BY <1>h, HubAssumption
  <2>2. sub' = [sub EXCEPT ![s].filter = f, ![s].cursor = start]
    BY <1>1 DEF SubscribeRead
  <2> HIDE DEF start
  <2>3. sub' \in [Subs -> SubState]
    BY <1>0, <2>1, <2>2 DEF SubState
  <2>4. rd' \in [Subs -> ReaderState]
    BY <1>0, <1>1 DEF SubscribeRead, Enter, ReaderState, ReaderPcs
  <2> QED BY <1>1, <2>3, <2>4, ReaderKeeps DEF SubscribeRead
<1>2. ASSUME NEW f \in Filters, UpdateFilter(s, f) PROVE TypeInv'
  <2>1. f \in SUBSET (Kinds \union {Gone})
    BY HubAssumption
  <2>2. sub' \in [Subs -> SubState]
    BY <1>0, <1>2, <2>1 DEF UpdateFilter, SubState
  <2>3. rd' \in [Subs -> ReaderState]
    <3> DEFINE first == Larger(head, sub[s].cursor)
    <3>1. {} \in SUBSET Nat /\ "queryHead" \in ReaderPcs /\ first \in Nat
      BY <1>0, <1>h DEF ReaderPcs, Larger, SubState
    <3>2. rd' = [rd EXCEPT ![s].pc = "queryHead", ![s].epoch = first, ![s].backlog = {}]
      BY <1>2 DEF UpdateFilter
    <3> HIDE DEF first
    <3> QED BY <1>0, <3>1, <3>2 DEF ReaderState
  <2> QED BY <1>2, <2>2, <2>3, ReaderKeeps DEF UpdateFilter
<1>3. CASE Pause(s)
  <2>1. sub' \in [Subs -> SubState]
    BY <1>0, <1>3 DEF Pause, SubState
  <2> QED BY <1>0, <1>3, <2>1, ReaderKeeps DEF Pause
<1>4. CASE ResumeCursor(s)
  <2> DEFINE seen == IF pub.pc = "idle" THEN rd[s].exposed ELSE rd[s].exposed \union {pub.seq}
  <2>1. seen \in SUBSET Int /\ sub[s].cursor \in Nat /\ "resumeHead" \in ReaderPcs
    <3>1. pub.seq \in Nat
      BY DEF TypeInv, TypeOK
    <3> QED BY <1>0, <3>1 DEF ReaderState, SubState, ReaderPcs, Resuming
  <2>2. rd' = [rd EXCEPT ![s].pc = "resumeHead", ![s].next = sub[s].cursor, ![s].exposed = seen]
    BY <1>0, <1>4 DEF ResumeCursor
  <2> HIDE DEF seen
  <2>3. rd' \in [Subs -> ReaderState]
    BY <1>0, <2>1, <2>2 DEF ReaderState
  <2> QED BY <1>0, <1>4, <2>3, ReaderKeeps DEF ResumeCursor
<1>5. CASE Unsubscribe(s)
  <2>1. sub' \in [Subs -> SubState]
    BY <1>0, <1>5 DEF Unsubscribe, SubState
  <2>2. rd' \in [Subs -> ReaderState]
    BY <1>0, <1>5 DEF Unsubscribe, Enter, ReaderState, ReaderPcs
  <2> QED BY <1>5, <2>1, <2>2, ReaderKeeps DEF Unsubscribe
<1> QED BY <1>1, <1>2, <1>3, <1>4, <1>5

\* The steps of a session handler.
LEMMA HandlerType ==
  ASSUME TypeInv, NEW s \in Subs, Handler(s)
  PROVE  TypeInv'
<1>0. /\ rd \in [Subs -> ReaderState] /\ sub \in [Subs -> SubState]
      /\ chan \in [Subs -> ChanState] /\ pump \in [Subs -> PumpState] /\ Windows
  BY DEF TypeInv, TypeOK
<1>h. head \in Nat /\ tail \in Nat
  BY HeadTail DEF TypeInv
<1>1. CASE SubscribeJoin(s)
  <2> DEFINE after == IF HistoryN > 0 THEN "queryHead" ELSE "starting"
             first == Larger(head, sub[s].cursor)
  <2>1. first \in Nat /\ after \in ReaderPcs
    BY <1>0, <1>h DEF Larger, SubState, ReaderPcs
  <2>2. rd' = [rd EXCEPT ![s].pc = after, ![s].epoch = first]
    BY <1>1 DEF SubscribeJoin
  <2> HIDE DEF after, first
  <2>3. rd' \in [Subs -> ReaderState]
    BY <1>0, <2>1, <2>2 DEF ReaderState
  <2>4. sub' \in [Subs -> SubState]
    BY <1>0, <1>1 DEF SubscribeJoin, SubState
  <2> QED BY <1>1, <2>3, <2>4, ReaderKeeps DEF SubscribeJoin
<1>2. CASE QueryHead(s)
  <2>1. rd' \in [Subs -> ReaderState]
    BY <1>0, <1>h, <1>2 DEF QueryHead, ReaderState, ReaderPcs
  <2> QED BY <1>0, <1>2, <2>1, ReaderKeeps DEF QueryHead
<1>3. CASE SendBacklog(s)
  <2> DEFINE frame == LastOf({c \in tail..(rd[s].head - 1) : Matches(s, c)}, BacklogDepth)
             after == IF pump[s].pc = "off" THEN "starting" ELSE "ready"
  <2>1. frame \in SUBSET Nat /\ after \in ReaderPcs
    <3>1. rd[s].head \in Nat
      BY <1>0 DEF ReaderState
    <3> QED BY <1>h, <3>1 DEF LastOf, ReaderPcs
  <2>2. rd' = [rd EXCEPT ![s].pc = after, ![s].head = 0, ![s].backlog = frame]
    BY <1>3 DEF SendBacklog
  <2> HIDE DEF frame, after
  <2>3. rd' \in [Subs -> ReaderState]
    BY <1>0, <2>1, <2>2 DEF ReaderState
  <2> QED BY <1>0, <1>3, <2>3, ReaderKeeps DEF SendBacklog
<1>4. CASE StartPump(s)
  <2>1. pump' \in [Subs -> PumpState]
    BY <1>0, <1>4 DEF StartPump, PumpState, PumpPcs
  <2>2. \A t \in Subs : pump'[t].taken = pump[t].taken /\ pump'[t].sent = pump[t].sent
    BY <1>0, <1>4 DEF StartPump, PumpState
  <2>3. rd' \in [Subs -> ReaderState]
    BY <1>0, <1>4 DEF StartPump, Enter, ReaderState, ReaderPcs
  <2>4. Windows'
    BY <1>0, <1>4, <2>2 DEF StartPump, Windows
  <2> QED BY <1>0, <1>4, <2>1, <2>3, <2>4, PumpKeeps DEF StartPump
<1>5. CASE ResumeHead(s)
  <2>1. rd' \in [Subs -> ReaderState]
    <3>1. "resumeTail" \in ReaderPcs
      BY DEF ReaderPcs, Resuming
    <3> QED BY <1>0, <1>h, <1>5, <3>1 DEF ResumeHead, ReaderState
  <2> QED BY <1>0, <1>5, <2>1, ReaderKeeps DEF ResumeHead
<1>6. CASE ResumeTail(s)
  <2> DEFINE count == chan[s].dropped + Larger(0, tail - rd[s].next)
             next == Larger(rd[s].next, tail)
  <2>1. count \in Nat /\ next \in Nat /\ "walk" \in ReaderPcs
    BY <1>0, <1>h DEF Larger, ChanState, ReaderState, ReaderPcs, Resuming
  <2>2. chan' = [chan EXCEPT ![s].dropped = count]
    BY <1>6 DEF ResumeTail
  <2>3. rd' = [rd EXCEPT ![s].pc = "walk", ![s].next = next]
    BY <1>6 DEF ResumeTail
  <2> HIDE DEF count, next
  <2>4. chan' \in [Subs -> ChanState]
    BY <1>0, <2>1, <2>2 DEF ChanState
  <2>5. \A t \in Subs : chan'[t].queued = chan[t].queued
    BY <1>0, <2>2 DEF ChanState
  <2>6. rd' \in [Subs -> ReaderState]
    BY <1>0, <2>1, <2>3 DEF ReaderState
  <2>7. Windows'
    BY <1>0, <1>6, <2>5 DEF ResumeTail, Windows
  <2> QED BY <1>0, <1>6, <2>4, <2>6, <2>7, PumpKeeps DEF ResumeTail
<1>7. CASE ResumeWalk(s)
  <2>1. rd[s].next \in Nat /\ rd[s].next + 1 \in Nat
    BY <1>0 DEF ReaderState
  <2>2. /\ chan' \in [Subs -> ChanState]
        /\ \A t \in Subs : Len(chan'[t].queued) >= Len(chan[t].queued)
    BY <1>7, <2>1, OfferType DEF ResumeWalk
  <2>3. rd' \in [Subs -> ReaderState]
    BY <1>0, <1>7, <2>1 DEF ResumeWalk, ReaderState
  <2>4. \A t \in Subs : /\ pump[t].taken \in Nat /\ Len(chan[t].queued) \in Nat
                        /\ Len(chan'[t].queued) \in Nat
    BY <1>0, <2>2 DEF PumpState, ChanState
  <2>5. Windows'
    BY <1>0, <1>7, <2>2, <2>4 DEF ResumeWalk, Windows
  <2> QED BY <1>0, <1>7, <2>2, <2>3, <2>5, PumpKeeps DEF ResumeWalk
<1>8. CASE ResumeCatchUp(s)
  <2> DEFINE cursor == Larger(sub[s].cursor, rd[s].head)
  <2>1. cursor \in Nat
    BY <1>0 DEF Larger, SubState, ReaderState
  <2>2. sub' = [sub EXCEPT ![s].cursor = cursor]
    BY <1>8 DEF ResumeCatchUp
  <2> HIDE DEF cursor
  <2>3. sub' \in [Subs -> SubState]
    BY <1>0, <2>1, <2>2 DEF SubState
  <2>4. rd' \in [Subs -> ReaderState]
    <3>1. "unpause" \in ReaderPcs /\ 0 \in Nat
      BY DEF ReaderPcs, Resuming
    <3> QED BY <1>0, <1>8, <3>1 DEF ResumeCatchUp, ReaderState
  <2> QED BY <1>8, <2>3, <2>4, ReaderKeeps DEF ResumeCatchUp
<1>9. CASE ResumeUnpause(s)
  <2>1. sub' \in [Subs -> SubState]
    BY <1>0, <1>9 DEF ResumeUnpause, SubState
  <2>2. rd' \in [Subs -> ReaderState]
    BY <1>0, <1>9 DEF ResumeUnpause, Enter, ReaderState, ReaderPcs
  <2> QED BY <1>9, <2>1, <2>2, ReaderKeeps DEF ResumeUnpause
<1>10. CASE CloseDone(s)
  <2>1. sub' \in [Subs -> SubState]
    BY <1>0, <1>10 DEF CloseDone, SubState
  <2>2. rd' \in [Subs -> ReaderState]
    BY <1>0, <1>10 DEF CloseDone, Enter, ReaderState, ReaderPcs
  <2> QED BY <1>10, <2>1, <2>2, ReaderKeeps DEF CloseDone
<1> QED BY <1>1, <1>2, <1>3, <1>4, <1>5, <1>6, <1>7, <1>8, <1>9, <1>10 DEF Handler

\* A flush announces what TakeDropped returned and sends the whole batch.
LEMMA FlushType ==
  ASSUME TypeInv, NEW s \in Subs, NEW pc \in PumpPcs, Flush(s, pc)
  PROVE  TypeInv'
<1>0. /\ chan \in [Subs -> ChanState] /\ pump \in [Subs -> PumpState] /\ Windows
      /\ rd \in [Subs -> ReaderState]
  BY DEF TypeInv, TypeOK
<1> DEFINE gap     == Gap(s)
           dropped == chan[s].dropped - Gap(s)
           gapped  == pump[s].gapped + Gap(s)
           found   == {chan[s].queued[i] : i \in (pump[s].sent + 1)..pump[s].taken}
           lost    == pump[s].lost \union {seq \in found : ~Live(seq)}
<1>1. dropped \in Nat /\ gapped \in Nat
  BY <1>0 DEF Gap, ChanState, PumpState
<1>2. /\ chan[s].queued \in Seq(Nat) /\ pump[s].sent \in Nat /\ pump[s].taken \in Nat
      /\ pump[s].taken <= Len(chan[s].queued)
  BY <1>0 DEF ChanState, PumpState, Windows
<1>3. found \in SUBSET Nat
  BY <1>2
<1>4. lost \in SUBSET Nat
  BY <1>0, <1>3 DEF PumpState
<1>5. /\ chan' = [chan EXCEPT ![s].dropped = dropped]
      /\ pump' = [pump EXCEPT ![s].pc = pc, ![s].sent = pump[s].taken,
                              ![s].gapped = gapped, ![s].lost = lost]
  BY <1>0 DEF Flush
<1> HIDE DEF gap, dropped, gapped, found, lost
<1>6. chan' \in [Subs -> ChanState]
  BY <1>0, <1>1, <1>5 DEF ChanState
<1>7. \A t \in Subs : chan'[t].queued = chan[t].queued
  BY <1>0, <1>5 DEF ChanState
<1>8. pump' \in [Subs -> PumpState]
  <2> DEFINE after == [pump[s] EXCEPT !.pc = pc, !.sent = pump[s].taken,
                                      !.gapped = gapped, !.lost = lost]
  <2>1. after \in PumpState
    BY <1>0, <1>1, <1>2, <1>4 DEF PumpState
  <2>2. pump' = [pump EXCEPT ![s] = after]
    BY <1>0, <1>5
  <2> HIDE DEF after
  <2> QED BY <1>0, <2>1, <2>2
<1>9. \A t \in Subs : /\ pump'[t].taken = pump[t].taken
                      /\ pump'[t].sent = IF t = s THEN pump[t].taken ELSE pump[t].sent
  BY <1>0, <1>5 DEF PumpState
<1>10. Windows'
  BY <1>0, <1>2, <1>7, <1>9 DEF Windows
<1> QED BY <1>0, <1>6, <1>8, <1>10, PumpKeeps DEF Flush

\* The steps of a session's pump (runPump).
LEMMA PumpType ==
  ASSUME TypeInv, NEW s \in Subs, Pump(s)
  PROVE  TypeInv'
<1>0. /\ chan \in [Subs -> ChanState] /\ pump \in [Subs -> PumpState] /\ Windows
      /\ rd \in [Subs -> ReaderState]
  BY DEF TypeInv, TypeOK
<1>1. CASE PumpStart(s)
  <2> DEFINE pc == IF sub[s].member THEN "run" ELSE "stopped"
  <2>1. pump' = [pump EXCEPT ![s].pc = pc] /\ pc \in PumpPcs
    BY <1>1 DEF PumpStart, PumpPcs
  <2> HIDE DEF pc
  <2>2. pump' \in [Subs -> PumpState]
    BY <1>0, <2>1 DEF PumpState
  <2>3. \A t \in Subs : pump'[t].taken = pump[t].taken /\ pump'[t].sent = pump[t].sent
    BY <1>0, <2>1 DEF PumpState
  <2>4. Windows'
    BY <1>0, <1>1, <2>3 DEF PumpStart, Windows
  <2> QED BY <1>0, <1>1, <2>2, <2>4, PumpKeeps DEF PumpStart
<1>2. CASE PumpTake(s)
  <2>1. pump[s].taken + 1 \in Nat
    BY <1>0 DEF PumpState
  <2>2. pump' \in [Subs -> PumpState]
    BY <1>0, <1>2, <2>1 DEF PumpTake, PumpState
  <2>3. \A t \in Subs : /\ pump'[t].sent = pump[t].sent
                        /\ pump'[t].taken = IF t = s THEN pump[t].taken + 1 ELSE pump[t].taken
    BY <1>0, <1>2 DEF PumpTake, PumpState
  <2>4. \A t \in Subs : Len(chan[t].queued) \in Nat /\ pump[t].sent \in Nat /\ pump[t].taken \in Nat
    BY <1>0 DEF ChanState, PumpState
  <2>5. Windows'
    BY <1>0, <1>2, <2>3, <2>4 DEF PumpTake, InChannel, Windows
  <2> QED BY <1>0, <1>2, <2>2, <2>5, PumpKeeps DEF PumpTake
<1>3. CASE PumpFlush(s)
  <2>1. pump[s].pc \in PumpPcs
    BY <1>0 DEF PumpState
  <2> QED BY <1>3, <2>1, FlushType DEF PumpFlush
<1>4. CASE PumpCancelled(s) \/ PumpDrained(s)
  BY <1>4, FlushType DEF PumpCancelled, PumpDrained, PumpPcs
<1>5. CASE PumpDrain(s)
  <2>1. pump' \in [Subs -> PumpState]
    BY <1>0, <1>5 DEF PumpDrain, PumpState, PumpPcs
  <2>2. \A t \in Subs : pump'[t].taken = pump[t].taken /\ pump'[t].sent = pump[t].sent
    BY <1>0, <1>5 DEF PumpDrain, PumpState
  <2>3. Windows'
    BY <1>0, <1>5, <2>2 DEF PumpDrain, Windows
  <2> QED BY <1>0, <1>5, <2>1, <2>3, PumpKeeps DEF PumpDrain
<1> QED BY <1>1, <1>2, <1>3, <1>4, <1>5 DEF Pump, PumpStop

\* Any step.
LEMMA NextType == ASSUME TypeInv, [Next]_vars PROVE TypeInv'
<1>1. CASE Shutdown \/ CloseStore
  BY <1>1 DEF Shutdown, CloseStore, TypeInv, TypeOK, Windows, PubTarget
<1>2. CASE UNCHANGED vars
  BY <1>2 DEF vars, store, TypeInv, TypeOK, Windows, PubTarget
<1> QED BY <1>1, <1>2, PublisherType, RequestType, HandlerType, PumpType DEF Next

\* In every state, whatever the interleaving.
LEMMA Typed == Spec => []TypeInv
BY InitType, NextType, PTL DEF Spec

\* Every state of every run has the types of TypeOK: the lists of Store and
\* Subscriber never leave their domains, whatever the interleaving.
THEOREM TypeCorrect == Spec => []TypeOK
<1>1. TypeInv => TypeOK
  BY DEF TypeInv
<1> QED BY <1>1, Typed, PTL

---------------------------------------------------------------------------
(* Delivery order.  A row is counted for s when it was queued, no Resume of *)
(* s exposed it, and it is not row 0 on a closed store.                     *)

Excused(s, seq) == seq \in rd[s].exposed \/ (stop = "closed" /\ seq = 0)

Counted(s) == {seq \in Queued(s) : ~Excused(s, seq)}

Busy == pub.pc \notin {"idle", "exited"}

\* The publisher has not decided about s yet.
Unserved(s) ==
  \/ pub.pc = "snapshot"
  \/ pub.pc \in {"scan", "deliver", "advance"} /\ s \in pub.todo
  \/ pub.pc = "deliver" /\ s = pub.sub

PublishesLast ==
  /\ Busy => pub.seq = head - 1 \/ (stop = "closed" /\ pub.seq = 0)
  /\ pub.pc \in {"deliver", "advance"} => pub.sub \notin pub.todo

\* A row that is being published while s resumes is exposed.
ResumeSeesPublish(s) ==
  /\ rd[s].pc \in Resuming /\ Busy => Excused(s, pub.seq)
  /\ rd[s].pc \in {"resumeTail", "walk"} => rd[s].head <= head

\* Rows counted for s lie below head, below the cursor unless their delivery
\* is not over, and below the row a Resume will look at next.
BelowCursor(s) ==
  \A seq \in Counted(s) :
    /\ seq < head
    /\ Unserved(s) => seq # pub.seq
    /\ \/ seq < sub[s].cursor
       \/ pub.pc = "advance" /\ pub.sub = s /\ seq = pub.seq
       \/ rd[s].pc = "walk" /\ seq < rd[s].head
    /\ rd[s].pc \in {"resumeHead", "resumeTail", "walk"} => seq < rd[s].next

Sorted(s) ==
  \A i, j \in 1..Len(chan[s].queued) :
    i < j /\ chan[s].queued[i] >= chan[s].queued[j] =>
      Excused(s, chan[s].queued[i]) \/ Excused(s, chan[s].queued[j])

\* A subscription that was not asked for yet is unknown to the publisher.
Fresh(s) ==
  rd[s].pc = "new" => /\ sub[s].cursor = 0 /\ ~sub[s].member
                      /\ s \notin pub.todo /\ s # pub.sub

InOrder(s) == ResumeSeesPublish(s) /\ BelowCursor(s) /\ Sorted(s)

OrderInv ==
  /\ PublishesLast
  /\ \A s \in Subs : Fresh(s) /\ InOrder(s)

\* What is queued and what was counted are sequence numbers.
LEMMA QueuedNat ==
  ASSUME TypeOK, NEW s \in Subs
  PROVE  /\ chan[s].queued \in Seq(Nat) /\ Len(chan[s].queued) \in Nat
         /\ Queued(s) \in SUBSET Nat /\ Counted(s) \in SUBSET Nat
         /\ \A i \in 1..Len(chan[s].queued) : chan[s].queued[i] \in Nat
<1>1. chan[s].queued \in Seq(Nat)
  BY DEF TypeOK, ChanState
<1>2. \A i \in 1..Len(chan[s].queued) : chan[s].queued[i] \in Nat
  BY <1>1
<1> QED BY <1>1, <1>2 DEF Queued, Counted

\* Nothing new was queued: no pair gets out of order, no row becomes counted.
LEMMA SameQueue ==
  ASSUME NEW s \in Subs, Sorted(s),
         chan'[s].queued = chan[s].queued, rd[s].exposed \subseteq rd'[s].exposed,
         stop = "closed" => stop' = "closed"
  PROVE  Sorted(s)' /\ Counted(s)' \subseteq Counted(s)
<1>1. \A seq : Excused(s, seq) => Excused(s, seq)'
  BY DEF Excused
<1>2. Sorted(s)'
  BY <1>1 DEF Sorted
<1>3. Queued(s)' = Queued(s)
  BY DEF Queued
<1> QED BY <1>1, <1>2, <1>3 DEF Counted

\* A row was queued that is excused or beyond all rows that count.
LEMMA LongerQueue ==
  ASSUME TypeOK, NEW s \in Subs, NEW new \in Nat, Sorted(s),
         chan'[s].queued = Append(chan[s].queued, new),
         rd'[s].exposed = rd[s].exposed, stop' = stop,
         Excused(s, new) \/ \A seq \in Counted(s) : seq < new
  PROVE  /\ Sorted(s)'
         /\ \A seq \in Counted(s)' : seq \in Counted(s) \/ (seq = new /\ ~Excused(s, new))
<1> DEFINE q == chan[s].queued
           r == chan'[s].queued
           n == Len(q)
<1>1. q \in Seq(Nat) /\ n \in Nat /\ \A i \in 1..n : q[i] \in Nat
  BY QueuedNat
<1>2. Len(r) = n + 1 /\ r[n + 1] = new /\ \A i \in 1..n : r[i] = q[i]
  BY <1>1
<1>3. \A seq : Excused(s, seq)' <=> Excused(s, seq)
  BY DEF Excused
<1>4. ASSUME NEW i \in 1..Len(r), NEW j \in 1..Len(r), i < j, r[i] >= r[j]
      PROVE  Excused(s, r[i]) \/ Excused(s, r[j])
  <2>1. CASE j <= n
    <3>1. i \in 1..n /\ j \in 1..n
      BY <1>1, <1>2, <1>4, <2>1
    <3> QED BY <1>2, <1>4, <3>1 DEF Sorted
  <2>2. CASE j = n + 1
    <3>1. i \in 1..n /\ r[i] = q[i] /\ r[j] = new /\ q[i] \in Queued(s) /\ q[i] \in Nat
      BY <1>1, <1>2, <1>4, <2>2 DEF Queued
    <3>2. CASE Excused(s, new)
      BY <3>1, <3>2
    <3>3. CASE q[i] \in Counted(s) /\ \A seq \in Counted(s) : seq < new
      BY <1>4, <3>1, <3>3
    <3>4. CASE q[i] \notin Counted(s)
      BY <3>1, <3>4 DEF Counted
    <3> QED BY <3>2, <3>3, <3>4
  <2>3. j <= n \/ j = n + 1
    <3>1. j \in 1..(n + 1) /\ n \in Nat
      BY <1>1, <1>2
    <3> QED BY <3>1
  <2> QED BY <2>1, <2>2, <2>3
<1>5. Sorted(s)'
  BY <1>3, <1>4 DEF Sorted
<1>6. ASSUME NEW seq \in Counted(s)' PROVE seq \in Counted(s) \/ (seq = new /\ ~Excused(s, new))
  <2>1. ~Excused(s, seq) /\ seq \in Queued(s)'
    BY <1>3, <1>6 DEF Counted
  <2>2. PICK i \in 1..(n + 1) : seq = r[i]
    BY <1>2, <2>1 DEF Queued
  <2>3. CASE i \in 1..n
    BY <1>2, <2>1, <2>2, <2>3 DEF Counted, Queued
  <2>4. CASE i = n + 1
    BY <1>2, <2>1, <2>2, <2>4
  <2> QED BY <1>1, <2>2, <2>3, <2>4
<1> QED BY <1>5, <1>6

\* A delivery adds the row at the end of one channel, or to none.
LEMMA DeliverQueue ==
  ASSUME TypeOK, NEW s \in Subs, NEW seq \in Nat, Offer(s, seq), NEW t \in Subs
  PROVE  \/ chan'[t].queued = chan[t].queued
         \/ t = s /\ chan'[t].queued = Append(chan[t].queued, seq)
<1>1. chan \in [Subs -> ChanState]
  BY DEF TypeOK
<1>2. CASE UNCHANGED chan
  BY <1>2
<1>3. CASE chan' = [chan EXCEPT ![s].queued = Append(@, seq)]
  BY <1>1, <1>3 DEF ChanState
<1>4. CASE chan' = [chan EXCEPT ![s].dropped = @ + 1]
  BY <1>1, <1>4 DEF ChanState
<1> QED BY <1>2, <1>3, <1>4 DEF Offer, Deliver

\* Steps that neither queue a row nor publish one nor advance a Resume.
LEMMA Calm ==
  ASSUME TypeOK, TypeOK', NEW s \in Subs, InOrder(s), UNCHANGED <<rows, pub>>,
         stop = "closed" => stop' = "closed",
         chan'[s].queued = chan[s].queued, rd[s].exposed \subseteq rd'[s].exposed,
         sub'[s].cursor >= sub[s].cursor,
         \/ rd'[s].pc = rd[s].pc /\ rd'[s].head = rd[s].head /\ rd'[s].next = rd[s].next
         \/ rd[s].pc # "walk" /\ rd'[s].pc \notin Resuming
  PROVE  InOrder(s)'
<1>1. Sorted(s)' /\ Counted(s)' \subseteq Counted(s)
  BY SameQueue DEF InOrder
<1>2. head' = head /\ head \in Nat /\ (Busy' <=> Busy) /\ (Unserved(s)' <=> Unserved(s))
  BY DEF head, Busy, Unserved, TypeOK
<1>3. \A seq : Excused(s, seq) => Excused(s, seq)'
  BY DEF Excused
<1>4. ResumeSeesPublish(s)'
  BY <1>2, <1>3 DEF InOrder, ResumeSeesPublish, Resuming
<1>5. sub[s].cursor \in Nat /\ sub'[s].cursor \in Nat
  BY DEF TypeOK, SubState
<1>6. BelowCursor(s)'
  <2> SUFFICES ASSUME NEW seq \in Counted(s)'
               PROVE  /\ seq < head'
                      /\ Unserved(s)' => seq # pub'.seq
                      /\ \/ seq < sub'[s].cursor
                         \/ pub'.pc = "advance" /\ pub'.sub = s /\ seq = pub'.seq
                         \/ rd'[s].pc = "walk" /\ seq < rd'[s].head
                      /\ rd'[s].pc \in {"resumeHead", "resumeTail", "walk"} => seq < rd'[s].next
    BY DEF BelowCursor
  <2>1. seq \in Counted(s) /\ seq \in Nat
    BY <1>1, QueuedNat
  <2>2. seq < sub[s].cursor => seq < sub'[s].cursor
    BY <1>5, <2>1
  <2> QED BY <1>2, <2>1, <2>2 DEF InOrder, BelowCursor, Resuming
<1> QED BY <1>1, <1>4, <1>6 DEF InOrder

---------------------------------------------------------------------------
(* The publisher's steps keep the order *)

\* The row appended is newer than all that is queued (Store.Append).
LEMMA AppendOrder ==
  ASSUME TypeOK, TypeOK', OrderInv, NEW k \in Kinds, PubAppend(k)
  PROVE  OrderInv'
<1>1. head' = head + 1 /\ head \in Nat
  BY DEF PubAppend, head, TypeOK
<1>2. /\ ~Busy /\ Busy' /\ pub'.seq = head /\ pub'.pc = "snapshot" /\ pub'.todo = pub.todo
      /\ pub'.sub = pub.sub
  BY DEF PubAppend, Busy, TypeOK
<1>3. PublishesLast'
  BY <1>1, <1>2 DEF PublishesLast
<1>4. ASSUME NEW s \in Subs PROVE Fresh(s)' /\ InOrder(s)'
  <2>1. rd'[s] = IF rd[s].pc \in Resuming
                 THEN [rd[s] EXCEPT !.exposed = @ \union {head, head - Cap}] ELSE rd[s]
    BY DEF PubAppend, TypeOK
  <2>2. /\ rd'[s].pc = rd[s].pc /\ rd'[s].head = rd[s].head /\ rd'[s].next = rd[s].next
        /\ rd[s].exposed \subseteq rd'[s].exposed
        /\ rd[s].pc \in Resuming => head \in rd'[s].exposed
    <3>1. rd[s] \in ReaderState
      BY DEF TypeOK
    <3> QED BY <2>1, <3>1 DEF ReaderState
  <2>3. Fresh(s) /\ InOrder(s) /\ chan'[s] = chan[s] /\ sub'[s] = sub[s] /\ stop' = stop
    BY DEF OrderInv, PubAppend
  <2>4. Sorted(s)' /\ Counted(s)' \subseteq Counted(s) /\ Counted(s) \in SUBSET Nat
    BY <2>2, <2>3, SameQueue, QueuedNat DEF InOrder
  <2>5. ResumeSeesPublish(s)'
    <3>1. rd'[s].head \in Nat
      BY DEF TypeOK, ReaderState
    <3> QED BY <1>1, <1>2, <2>2, <2>3, <3>1 DEF InOrder, ResumeSeesPublish, Excused
  <2>6. BelowCursor(s)'
    BY <1>1, <1>2, <2>2, <2>3, <2>4 DEF InOrder, BelowCursor, Busy
  <2> QED BY <1>2, <2>2, <2>3, <2>4, <2>5, <2>6 DEF Fresh, InOrder
<1> QED BY <1>3, <1>4 DEF OrderInv

\* Steps of the publisher that write nothing but its own state: it goes on with
\* its row, or takes up row 0 of a closed store.
LEMMA QuietPublish ==
  ASSUME TypeOK, TypeOK', OrderInv, UNCHANGED <<rows, stop, rd, sub, chan, pump>>,
         pub.pc # "advance", pub'.pc # "advance", PublishesLast',
         \A s \in Subs : s \in pub'.todo => s \in pub.todo \/ sub[s].member,
         pub'.sub \in {pub.sub, NoSub} \union pub.todo,
         \/ stop = "closed" /\ pub'.seq = 0
         \/ /\ Busy' => Busy /\ pub'.seq = pub.seq
            /\ \A s \in Subs : Unserved(s)' => Unserved(s) /\ pub'.seq = pub.seq
  PROVE  OrderInv'
<1>1. head' = head /\ head \in Nat
  BY DEF head, TypeOK
<1>2. ASSUME NEW s \in Subs PROVE Fresh(s)' /\ InOrder(s)'
  <2>1. Fresh(s) /\ InOrder(s)
    BY DEF OrderInv
  <2>2. Sorted(s)' /\ Counted(s)' \subseteq Counted(s) /\ Counted(s) \in SUBSET Nat
    BY <2>1, SameQueue, QueuedNat DEF InOrder
  <2>3. \A seq : Excused(s, seq)' <=> Excused(s, seq)
    BY DEF Excused
  <2>4. Fresh(s)'
    BY <2>1, HubAssumption DEF Fresh
  <2>5. ResumeSeesPublish(s)'
    BY <1>1, <2>1, <2>3 DEF InOrder, ResumeSeesPublish, Excused
  <2>6. BelowCursor(s)'
    <3>1. CASE stop = "closed" /\ pub'.seq = 0
      <4>1. Excused(s, pub'.seq)
        BY <3>1 DEF Excused
      <4> QED BY <1>1, <2>1, <2>2, <2>3, <4>1 DEF InOrder, BelowCursor, Counted
    <3>2. CASE Unserved(s)' => Unserved(s) /\ pub'.seq = pub.seq
      BY <1>1, <2>1, <2>2, <3>2 DEF InOrder, BelowCursor
    <3> QED BY <3>1, <3>2
  <2> QED BY <2>2, <2>4, <2>5, <2>6 DEF InOrder
<1> QED BY <1>2 DEF OrderInv

\* The publisher's steps that deliver nothing.
LEMMA PublisherOrder ==
  ASSUME TypeOK, TypeOK', OrderInv,
         \/ PubAppendClosed \/ PubSnapshot \/ PubDone \/ IngesterExit
         \/ \E s \in Subs : PubSkip(s) \/ PubPick(s)
  PROVE  OrderInv'
<1>0. pub \in PubState /\ PublishesLast
  BY DEF TypeOK, PubState, OrderInv
<1>1. CASE PubAppendClosed
  <2>1. /\ UNCHANGED <<rows, stop, rd, sub, chan, pump>> /\ stop = "closed"
        /\ pub.pc = "idle" /\ pub' = [pub EXCEPT !.pc = "snapshot", !.seq = 0]
    BY <1>1 DEF PubAppendClosed
  <2> QED BY <1>0, <2>1, QuietPublish DEF PubState, PublishesLast
<1>2. CASE PubSnapshot
  <2>1. /\ UNCHANGED <<rows, stop, rd, sub, chan, pump>> /\ head' = head
        /\ pub.pc = "snapshot"
        /\ pub' = [pub EXCEPT !.pc = "scan", !.todo = {s \in Subs : sub[s].member}]
    BY <1>2 DEF PubSnapshot, store, head
  <2> QED BY <1>0, <2>1, QuietPublish DEF PubState, PublishesLast, Busy, Unserved
<1>3. CASE PubDone
  <2>1. /\ UNCHANGED <<rows, stop, rd, sub, chan, pump>>
        /\ pub.pc = "scan" /\ pub' = [pub EXCEPT !.pc = "idle", !.seq = 0]
    BY <1>3 DEF PubDone, store
  <2> QED BY <1>0, <2>1, QuietPublish DEF PubState, PublishesLast, Busy, Unserved
<1>4. CASE IngesterExit
  <2>1. /\ UNCHANGED <<rows, stop, rd, sub, chan, pump>>
        /\ pub.pc = "idle" /\ pub' = [pub EXCEPT !.pc = "exited"]
    BY <1>4 DEF IngesterExit, store
  <2> QED BY <1>0, <2>1, QuietPublish DEF PubState, PublishesLast, Busy, Unserved
<1>5. ASSUME NEW s \in Subs, PubSkip(s) PROVE OrderInv'
  <2>1. /\ UNCHANGED <<rows, stop, rd, sub, chan, pump>> /\ head' = head
        /\ pub.pc = "scan" /\ pub' = [pub EXCEPT !.todo = @ \ {s}]
    BY <1>5 DEF PubSkip, store, head
  <2> QED BY <1>0, <2>1, QuietPublish DEF PubState, PublishesLast, Busy, Unserved
<1>6. ASSUME NEW s \in Subs, PubPick(s) PROVE OrderInv'
  <2>1. /\ UNCHANGED <<rows, stop, rd, sub, chan, pump>> /\ head' = head
        /\ pub.pc = "scan" /\ s \in pub.todo
        /\ pub' = [pub EXCEPT !.pc = "deliver", !.todo = @ \ {s}, !.sub = s]
    BY <1>6 DEF PubPick, store, head
  <2>2. PublishesLast'
    BY <1>0, <2>1 DEF PubState, PublishesLast, Busy
  <2>3. \A t \in Subs : Unserved(t)' => Unserved(t)
    BY <1>0, <2>1 DEF PubState, Unserved
  <2>4. pub'.seq = pub.seq /\ pub'.pc = "deliver" /\ pub'.todo = pub.todo \ {s} /\ pub'.sub = s
    BY <1>0, <2>1 DEF PubState
  <2> QED BY <2>1, <2>2, <2>3, <2>4, QuietPublish DEF Busy
<1> QED BY <1>1, <1>2, <1>3, <1>4, <1>5, <1>6

\* The delivery of the row being published.
LEMMA PubDeliverOrder ==
  ASSUME TypeInv, TypeOK', OrderInv, PubDeliver
  PROVE  OrderInv'
<1> USE DEF TypeInv
<1>1. /\ UNCHANGED <<rows, lines, stop, rd, sub, pump>> /\ head' = head /\ head \in Nat
      /\ pub.pc = "deliver" /\ pub'.pc = "advance" /\ pub'.seq = pub.seq
      /\ pub'.sub = pub.sub /\ pub'.todo = pub.todo /\ pub.sub \in Subs /\ pub.seq \in Nat
      /\ Offer(pub.sub, pub.seq)
  BY DEF PubDeliver, store, head, TypeOK, PubTarget
<1>2. PublishesLast'
  BY <1>1 DEF OrderInv, PublishesLast, Busy
<1>3. ASSUME NEW s \in Subs PROVE Fresh(s)' /\ InOrder(s)'
  <2>1. Fresh(s) /\ InOrder(s)
    BY DEF OrderInv
  <2>2. \A seq : Excused(s, seq)' <=> Excused(s, seq)
    BY <1>1 DEF Excused
  <2>3. Fresh(s)' /\ ResumeSeesPublish(s)'
    BY <1>1, <2>1, <2>2 DEF Fresh, InOrder, ResumeSeesPublish, Busy
  <2>4. Counted(s) \in SUBSET Nat
    BY QueuedNat
  <2>5. CASE chan'[s].queued = chan[s].queued
    <3>1. Sorted(s)' /\ Counted(s)' \subseteq Counted(s)
      BY <1>1, <2>1, <2>5, SameQueue DEF InOrder
    <3>2. Unserved(s)' => Unserved(s)
      BY <1>1 DEF Unserved
    <3> QED BY <1>1, <2>1, <2>3, <2>4, <3>1, <3>2 DEF InOrder, BelowCursor
  <2>6. CASE pub.sub = s /\ chan'[s].queued = Append(chan[s].queued, pub.seq)
    <3>1. Unserved(s) /\ ~Unserved(s)'
      BY <1>1, <2>6 DEF Unserved, OrderInv, PublishesLast
    <3>2. ASSUME ~Excused(s, pub.seq), NEW seq \in Counted(s) PROVE seq < pub.seq
      <4>1. pub.seq = head - 1
        BY <1>1, <3>2 DEF OrderInv, PublishesLast, Busy, Excused
      <4>2. seq < head /\ seq # pub.seq /\ seq \in Nat
        BY <2>1, <2>4, <3>1, <3>2 DEF InOrder, BelowCursor
      <4> QED BY <1>1, <4>1, <4>2
    <3>3. /\ Sorted(s)'
          /\ \A seq \in Counted(s)' :
               seq \in Counted(s) \/ (seq = pub.seq /\ ~Excused(s, pub.seq))
      BY <1>1, <2>1, <2>6, <3>2, LongerQueue DEF InOrder
    <3>4. ~Excused(s, pub.seq) => pub.seq < head /\ rd[s].pc \notin Resuming
      BY <1>1, <2>1 DEF OrderInv, PublishesLast, InOrder, ResumeSeesPublish, Busy, Excused
    <3>5. BelowCursor(s)'
      BY <1>1, <2>1, <2>6, <3>1, <3>3, <3>4 DEF InOrder, BelowCursor, Resuming
    <3> QED BY <2>3, <3>3, <3>5 DEF InOrder
  <2> QED BY <1>1, <2>5, <2>6, DeliverQueue
<1> QED BY <1>2, <1>3 DEF OrderInv

\* The cursor of a subscriber advances past the row published.
LEMMA PubAdvanceOrder ==
  ASSUME TypeInv, TypeOK', OrderInv, PubAdvance
  PROVE  OrderInv'
<1> USE DEF TypeInv
<1>1. /\ UNCHANGED <<rows, lines, stop, rd, chan, pump>> /\ head' = head /\ head \in Nat
      /\ pub.pc = "advance" /\ pub'.pc = "scan" /\ pub'.seq = pub.seq
      /\ pub'.sub = NoSub /\ pub'.todo = pub.todo /\ pub.sub \in Subs /\ pub.seq \in Nat
      /\ sub' = [sub EXCEPT ![pub.sub].cursor = Larger(@, pub.seq + 1)]
      /\ sub \in [Subs -> SubState]
  BY DEF PubAdvance, store, head, TypeOK, PubTarget
<1>2. PublishesLast'
  BY <1>1 DEF OrderInv, PublishesLast, Busy
<1>3. ASSUME NEW s \in Subs PROVE Fresh(s)' /\ InOrder(s)'
  <2>1. Fresh(s) /\ InOrder(s)
    BY DEF OrderInv
  <2>2. Sorted(s)' /\ Counted(s)' \subseteq Counted(s) /\ Counted(s) \in SUBSET Nat
    BY <1>1, <2>1, SameQueue, QueuedNat DEF InOrder
  <2>3. \A seq : Excused(s, seq)' <=> Excused(s, seq)
    BY <1>1 DEF Excused
  <2>4. /\ s # pub.sub => sub'[s] = sub[s]
        /\ s = pub.sub => sub'[s].cursor = Larger(sub[s].cursor, pub.seq + 1)
        /\ sub[s].cursor \in Nat
    BY <1>1 DEF SubState
  <2>5. Fresh(s)'
    BY <1>1, <2>1, <2>4, HubAssumption DEF Fresh
  <2>6. ResumeSeesPublish(s)'
    BY <1>1, <2>1, <2>3 DEF InOrder, ResumeSeesPublish, Busy
  <2>7. BelowCursor(s)'
    <3>1. Unserved(s)' => Unserved(s)
      BY <1>1 DEF Unserved
    <3> QED BY <1>1, <2>1, <2>2, <2>4, <3>1 DEF InOrder, BelowCursor, Larger
  <2> QED BY <2>2, <2>5, <2>6, <2>7 DEF InOrder
<1> QED BY <1>2, <1>3 DEF OrderInv

---------------------------------------------------------------------------
(* The reader's and the pump's steps keep the order *)

\* A step that concerns s alone keeps the order of everybody else.
LEMMA Others ==
  ASSUME TypeOK, TypeOK', OrderInv, UNCHANGED <<store, pub>>, NEW s \in Subs,
         \A t \in Subs \ {s} : /\ rd'[t] = rd[t] /\ sub'[t] = sub[t]
                               /\ chan'[t].queued = chan[t].queued,
         Fresh(s)', InOrder(s)'
  PROVE  OrderInv'
<1>1. PublishesLast'
  BY DEF OrderInv, PublishesLast, Busy, store, head
<1>2. ASSUME NEW t \in Subs \ {s} PROVE Fresh(t)' /\ InOrder(t)'
  <2>1. sub[t].cursor \in Nat
    BY DEF TypeOK, SubState
  <2>2. InOrder(t)'
    BY <1>2, <2>1, Calm DEF OrderInv, store
  <2> QED BY <1>2, <2>2 DEF Fresh, OrderInv
<1> QED BY <1>1, <1>2 DEF OrderInv

\* What every handler step does to its subscription, Resume's own steps aside.
Mild(s) ==
  /\ rd'[s].exposed = rd[s].exposed
  /\ sub'[s].cursor >= sub[s].cursor
  /\ rd'[s].pc # "new" \/ (rd'[s] = rd[s] /\ UNCHANGED sub)
  /\ \/ rd'[s].pc = rd[s].pc /\ rd'[s].head = rd[s].head /\ rd'[s].next = rd[s].next
     \/ rd[s].pc # "walk" /\ rd'[s].pc \notin Resuming
  /\ \A t \in Subs \ {s} : rd'[t] = rd[t] /\ sub'[t] = sub[t]

\* The requests that queue nothing.
LEMMA RequestOrder ==
  ASSUME TypeOK, TypeOK', OrderInv, NEW s \in Subs,
         \/ \E f \in Filters : \E from \in FromSeqs : SubscribeRead(s, f, from)
         \/ \E f \in Filters : UpdateFilter(s, f)
         \/ Pause(s) \/ Unsubscribe(s)
         \/ SubscribeJoin(s) \/ QueryHead(s) \/ SendBacklog(s) \/ StartPump(s)
         \/ ResumeUnpause(s) \/ CloseDone(s)
  PROVE  OrderInv'
<1>0. /\ rd \in [Subs -> ReaderState] /\ sub \in [Subs -> SubState]
      /\ rd' \in [Subs -> ReaderState] /\ sub' \in [Subs -> SubState]
      /\ chan \in [Subs -> ChanState] /\ Fresh(s) /\ InOrder(s)
  BY DEF TypeOK, OrderInv
<1>1. UNCHANGED <<store, pub, chan>>
  BY DEF SubscribeRead, UpdateFilter, Pause, Unsubscribe, SubscribeJoin, QueryHead,
    SendBacklog, StartPump, ResumeUnpause, CloseDone
<1>2. Mild(s)
  <2>t. rd \in [Subs -> ReaderState] /\ sub \in [Subs -> SubState]
    BY <1>0
  <2>0. sub[s].cursor \in Nat /\ head \in Nat
    BY <1>0, HeadTail DEF SubState
  <2>1. ASSUME NEW f \in Filters, NEW from \in FromSeqs, SubscribeRead(s, f, from) PROVE Mild(s)
    <3> DEFINE start == IF from = 0 THEN head ELSE from
    <3>1. rd[s].pc = "new" /\ sub[s].cursor = 0 /\ start \in Nat
      BY <1>0, <2>0, <2>1, HubAssumption DEF SubscribeRead, Fresh
    <3>2. sub' = [sub EXCEPT ![s].filter = f, ![s].cursor = start]
      BY <2>1 DEF SubscribeRead
    <3> HIDE DEF start
    <3>3. sub'[s].cursor = start /\ \A t \in Subs \ {s} : sub'[t] = sub[t]
      BY <2>t, <3>2 DEF SubState
    <3>4. rd'[s].pc = "joining" /\ rd'[s].exposed = rd[s].exposed
      BY <2>t, <2>1 DEF SubscribeRead, Enter, ReaderState
    <3>5. \A t \in Subs \ {s} : rd'[t] = rd[t]
      BY <2>t, <2>1 DEF SubscribeRead, Enter
    <3> QED BY <3>1, <3>3, <3>4, <3>5 DEF Mild, Resuming
  <2>2. ASSUME NEW f \in Filters, UpdateFilter(s, f) PROVE Mild(s)
    <3>1. \A t \in Subs : sub'[t].cursor = sub[t].cursor
      BY <2>t, <2>2 DEF UpdateFilter, SubState
    <3>2. \A t \in Subs \ {s} : rd'[t] = rd[t] /\ sub'[t] = sub[t]
      BY <2>t, <2>2 DEF UpdateFilter
    <3>3. rd'[s].pc = "queryHead" /\ rd'[s].exposed = rd[s].exposed /\ rd[s].pc # "walk"
      BY <2>t, <2>2 DEF UpdateFilter, ReaderState
    <3> QED BY <2>0, <3>1, <3>2, <3>3 DEF Mild, Resuming
  <2>3. CASE Pause(s)
    <3>1. \A t \in Subs : sub'[t].cursor = sub[t].cursor
      BY <2>t, <2>3 DEF Pause, SubState
    <3>2. \A t \in Subs \ {s} : rd'[t] = rd[t] /\ sub'[t] = sub[t]
      BY <2>t, <2>3 DEF Pause
    <3>3. rd' = rd /\ rd[s].pc = "ready"
      BY <2>3 DEF Pause
    <3> QED BY <2>0, <3>1, <3>2, <3>3 DEF Mild
  <2>4. CASE Unsubscribe(s)
    <3>1. \A t \in Subs : sub'[t].cursor = sub[t].cursor
      BY <2>t, <2>4 DEF Unsubscribe, SubState
    <3>2. \A t \in Subs \ {s} : rd'[t] = rd[t] /\ sub'[t] = sub[t]
      BY <2>t, <2>4 DEF Unsubscribe, Enter
    <3>3. rd'[s].pc = "leaving" /\ rd'[s].exposed = rd[s].exposed /\ rd[s].pc # "walk"
      BY <2>t, <2>4 DEF Unsubscribe, Enter, ReaderState
    <3> QED BY <2>0, <3>1, <3>2, <3>3 DEF Mild, Resuming
  <2>5. CASE SubscribeJoin(s)
    <3> DEFINE after == IF HistoryN > 0 THEN "queryHead" ELSE "starting"
               first == Larger(head, sub[s].cursor)
    <3>1. after \notin Resuming /\ after # "new" /\ rd[s].pc = "joining"
      BY <2>5 DEF SubscribeJoin, Resuming
    <3>2. /\ rd' = [rd EXCEPT ![s].pc = after, ![s].epoch = first]
          /\ sub' = [sub EXCEPT ![s].member = TRUE]
      BY <2>5 DEF SubscribeJoin
    <3> HIDE DEF after, first
    <3>3. \A t \in Subs : sub'[t].cursor = sub[t].cursor
      BY <2>t, <3>2 DEF SubState
    <3>4. rd'[s].pc = after /\ rd'[s].exposed = rd[s].exposed
      BY <2>t, <3>2 DEF ReaderState
    <3>5. \A t \in Subs \ {s} : rd'[t] = rd[t] /\ sub'[t] = sub[t]
      BY <2>t, <3>2
    <3> QED BY <2>0, <3>1, <3>3, <3>4, <3>5 DEF Mild
  <2>6. CASE QueryHead(s)
    BY <2>t, <2>0, <2>6 DEF QueryHead, Mild, ReaderState, SubState, Resuming
  <2>7. CASE SendBacklog(s)
    <3> DEFINE frame == LastOf({c \in tail..(rd[s].head - 1) : Matches(s, c)}, BacklogDepth)
               after == IF pump[s].pc = "off" THEN "starting" ELSE "ready"
    <3>1. after \notin Resuming /\ after # "new" /\ rd[s].pc = "queryTail" /\ UNCHANGED sub
      BY <2>7 DEF SendBacklog, Resuming
    <3>2. rd' = [rd EXCEPT ![s].pc = after, ![s].head = 0, ![s].backlog = frame]
      BY <2>7 DEF SendBacklog
    <3> HIDE DEF frame, after
    <3> QED BY <2>t, <2>0, <3>1, <3>2 DEF Mild, ReaderState, SubState
  <2>8. CASE StartPump(s)
    BY <2>t, <2>0, <2>8 DEF StartPump, Enter, Mild, ReaderState, SubState, Resuming
  <2>9. CASE ResumeUnpause(s)
    <3>1. \A t \in Subs : sub'[t].cursor = sub[t].cursor
      BY <2>t, <2>9 DEF ResumeUnpause, SubState
    <3>2. \A t \in Subs \ {s} : rd'[t] = rd[t] /\ sub'[t] = sub[t]
      BY <2>t, <2>9 DEF ResumeUnpause, Enter
    <3>3. rd'[s].pc = "ready" /\ rd'[s].exposed = rd[s].exposed /\ rd[s].pc # "walk"
      BY <2>t, <2>9 DEF ResumeUnpause, Enter, ReaderState
    <3> QED BY <2>0, <3>1, <3>2, <3>3 DEF Mild, Resuming
  <2>10. CASE CloseDone(s)
    <3>1. \A t \in Subs : sub'[t].cursor = sub[t].cursor
      BY <2>t, <2>10 DEF CloseDone, SubState
    <3>2. \A t \in Subs \ {s} : rd'[t] = rd[t] /\ sub'[t] = sub[t]
      BY <2>t, <2>10 DEF CloseDone, Enter
    <3>3. rd'[s].pc = "gone" /\ rd'[s].exposed = rd[s].exposed /\ rd[s].pc # "walk"
      BY <2>t, <2>10 DEF CloseDone, Enter, ReaderState
    <3> QED BY <2>0, <3>1, <3>2, <3>3 DEF Mild, Resuming
  <2> QED BY <2>1, <2>2, <2>3, <2>4, <2>5, <2>6, <2>7, <2>8, <2>9, <2>10
<1>3. InOrder(s)'
  BY <1>0, <1>1, <1>2, Calm DEF store, Mild
<1>4. Fresh(s)'
  BY <1>0, <1>1, <1>2 DEF Fresh, Mild
<1> QED BY <1>0, <1>1, <1>2, <1>3, <1>4, Others DEF Mild

\* Resume reads the cursor: from there on, rows may reach the channel twice.
LEMMA ResumeCursorOrder ==
  ASSUME TypeOK, TypeOK', OrderInv, NEW s \in Subs, ResumeCursor(s)
  PROVE  OrderInv'
<1>0. /\ rd \in [Subs -> ReaderState] /\ sub \in [Subs -> SubState]
      /\ Fresh(s) /\ InOrder(s) /\ pub \in PubState
  BY DEF TypeOK, OrderInv, PubState
<1>1. UNCHANGED <<store, pub, sub, chan>> /\ rd[s].pc = "ready"
  BY DEF ResumeCursor
<1>2. /\ rd'[s].pc = "resumeHead" /\ rd'[s].next = sub[s].cursor /\ rd'[s].head = rd[s].head
      /\ rd[s].exposed \subseteq rd'[s].exposed
      /\ pub.pc # "idle" => pub.seq \in rd'[s].exposed
      /\ \A t \in Subs \ {s} : rd'[t] = rd[t]
  BY <1>0 DEF ResumeCursor, ReaderState
<1>3. head' = head /\ head \in Nat /\ (Busy' <=> Busy) /\ (Unserved(s)' <=> Unserved(s))
      /\ stop' = stop
  BY <1>1 DEF head, TypeOK, Busy, Unserved, store
<1>4. Sorted(s)' /\ Counted(s)' \subseteq Counted(s) /\ Counted(s) \in SUBSET Nat
  BY <1>0, <1>1, <1>2, SameQueue, QueuedNat DEF InOrder, store
<1>5. ResumeSeesPublish(s)'
  BY <1>0, <1>1, <1>2, <1>3 DEF ResumeSeesPublish, Busy, Excused
<1>6. BelowCursor(s)'
  <2>1. pub.pc = "advance" => pub.seq \notin Counted(s)'
    BY <1>1, <1>2 DEF Counted, Excused
  <2> QED BY <1>0, <1>1, <1>2, <1>3, <1>4, <2>1 DEF InOrder, BelowCursor
<1> QED BY <1>0, <1>1, <1>2, <1>4, <1>5, <1>6, Others DEF InOrder, Fresh

\* Resume, until the walk begins.
LEMMA ResumeOrder ==
  ASSUME TypeOK, TypeOK', OrderInv, NEW s \in Subs,
         ResumeHead(s) \/ ResumeTail(s) \/ ResumeCatchUp(s)
  PROVE  OrderInv'
<1>0. /\ rd \in [Subs -> ReaderState] /\ sub \in [Subs -> SubState]
      /\ chan \in [Subs -> ChanState] /\ Fresh(s) /\ InOrder(s) /\ head \in Nat /\ tail \in Nat
      /\ rd[s].next \in Nat /\ rd[s].head \in Nat /\ sub[s].cursor \in Nat
  BY HeadTail DEF TypeOK, OrderInv, ReaderState, SubState
<1>1. /\ UNCHANGED <<store, pub>> /\ head' = head
      /\ (Busy' <=> Busy) /\ (Unserved(s)' <=> Unserved(s)) /\ stop' = stop
  BY DEF ResumeHead, ResumeTail, ResumeCatchUp, store, head, Busy, Unserved
<1>2. \A t \in Subs : chan'[t].queued = chan[t].queued
  <2>1. CASE UNCHANGED chan
    BY <2>1
  <2>2. ASSUME NEW n, chan' = [chan EXCEPT ![s].dropped = n]
        PROVE  \A t \in Subs : chan'[t].queued = chan[t].queued
    BY <1>0, <2>2 DEF ChanState
  <2> QED BY <2>1, <2>2 DEF ResumeHead, ResumeTail, ResumeCatchUp
<1>3. /\ rd'[s].exposed = rd[s].exposed
      /\ rd[s].pc \in {"resumeHead", "resumeTail", "walk"} /\ rd'[s].pc \in Resuming
  BY <1>0 DEF ResumeHead, ResumeTail, ResumeCatchUp, ReaderState, Resuming
<1>4. \A t \in Subs \ {s} : rd'[t] = rd[t] /\ sub'[t] = sub[t]
  BY <1>0 DEF ResumeHead, ResumeTail, ResumeCatchUp
<1>5. /\ rd'[s].pc \in {"resumeTail", "walk"} =>
           rd'[s].head = head \/ (rd[s].pc = "resumeTail" /\ rd'[s].head = rd[s].head)
      /\ rd'[s].pc \in {"resumeTail", "walk"} => rd'[s].next >= rd[s].next
      /\ rd'[s].pc # "resumeHead"
      /\ rd[s].pc = "walk" => sub'[s].cursor >= rd[s].head
      /\ sub'[s].cursor >= sub[s].cursor
      /\ rd'[s].pc = "walk" => rd[s].pc # "walk"
  BY <1>0 DEF ResumeHead, ResumeTail, ResumeCatchUp, ReaderState, SubState, Larger
<1>6. Sorted(s)' /\ Counted(s)' \subseteq Counted(s) /\ Counted(s) \in SUBSET Nat
  BY <1>0, <1>1, <1>2, <1>3, SameQueue, QueuedNat DEF InOrder, store
<1>7. \A seq : Excused(s, seq)' <=> Excused(s, seq)
  BY <1>1, <1>3 DEF Excused
<1>8. ResumeSeesPublish(s)'
  BY <1>0, <1>1, <1>3, <1>5, <1>7 DEF InOrder, ResumeSeesPublish, Resuming
<1>9. BelowCursor(s)'
  <2>1. rd'[s].next \in Nat /\ sub'[s].cursor \in Nat
    BY DEF TypeOK, ReaderState, SubState
  <2> SUFFICES ASSUME NEW seq \in Counted(s)'
               PROVE  /\ seq < head'
                      /\ Unserved(s)' => seq # pub'.seq
                      /\ \/ seq < sub'[s].cursor
                         \/ pub'.pc = "advance" /\ pub'.sub = s /\ seq = pub'.seq
                      /\ rd'[s].pc \in {"resumeHead", "resumeTail", "walk"} => seq < rd'[s].next
    BY DEF BelowCursor
  <2>2. seq \in Counted(s) /\ seq \in Nat
    BY <1>6
  <2> QED BY <1>0, <1>1, <1>3, <1>5, <2>1, <2>2 DEF InOrder, BelowCursor, Resuming
<1>10. Fresh(s)'
  BY <1>3 DEF Fresh, Resuming
<1> QED BY <1>1, <1>2, <1>4, <1>6, <1>8, <1>9, <1>10, Others DEF InOrder

\* Resume queues a row of the backlog that the publisher may have queued.
LEMMA ResumeWalkOrder ==
  ASSUME TypeInv, TypeOK', OrderInv, NEW s \in Subs, ResumeWalk(s)
  PROVE  OrderInv'
<1> USE DEF TypeInv
<1>0. /\ rd \in [Subs -> ReaderState] /\ Fresh(s) /\ InOrder(s) /\ head \in Nat
      /\ rd[s].next \in Nat /\ rd[s].head \in Nat
      /\ rd[s].pc = "walk" /\ rd[s].next < rd[s].head /\ Offer(s, rd[s].next)
  BY HeadTail DEF TypeOK, OrderInv, ReaderState, ResumeWalk
<1>1. /\ UNCHANGED <<store, pub, sub>> /\ head' = head
      /\ (Busy' <=> Busy) /\ (Unserved(s)' <=> Unserved(s)) /\ stop' = stop
  BY DEF ResumeWalk, store, head, Busy, Unserved
<1>2. /\ rd'[s].pc = "walk" /\ rd'[s].next = rd[s].next + 1 /\ rd'[s].head = rd[s].head
      /\ rd'[s].exposed = rd[s].exposed
      /\ \A t \in Subs \ {s} : rd'[t] = rd[t]
  BY <1>0 DEF ResumeWalk, ReaderState
<1>3. \A t \in Subs \ {s} : chan'[t].queued = chan[t].queued
  BY <1>0, DeliverQueue
<1>4. \A seq : Excused(s, seq)' <=> Excused(s, seq)
  BY <1>1, <1>2 DEF Excused
<1>5. Fresh(s)' /\ ResumeSeesPublish(s)'
  BY <1>0, <1>1, <1>2, <1>4 DEF Fresh, InOrder, ResumeSeesPublish
<1>6. /\ Sorted(s)'
      /\ \A seq \in Counted(s)' :
           seq \in Counted(s) \/ (seq = rd[s].next /\ ~Excused(s, rd[s].next))
  <2>1. CASE chan'[s].queued = chan[s].queued
    BY <1>0, <1>1, <1>2, <2>1, SameQueue DEF InOrder
  <2>2. CASE chan'[s].queued = Append(chan[s].queued, rd[s].next)
    <3>1. \A seq \in Counted(s) : seq < rd[s].next
      BY <1>0 DEF InOrder, BelowCursor
    <3> QED BY <1>0, <1>1, <1>2, <2>2, <3>1, LongerQueue DEF InOrder
  <2> QED BY <1>0, <2>1, <2>2, DeliverQueue
<1>7. BelowCursor(s)'
  <2> SUFFICES ASSUME NEW seq \in Counted(s)'
               PROVE  /\ seq < head'
                      /\ Unserved(s)' => seq # pub'.seq
                      /\ \/ seq < sub'[s].cursor
                         \/ pub'.pc = "advance" /\ pub'.sub = s /\ seq = pub'.seq
                         \/ rd'[s].pc = "walk" /\ seq < rd'[s].head
                      /\ rd'[s].pc \in {"resumeHead", "resumeTail", "walk"} => seq < rd'[s].next
    BY DEF BelowCursor
  <2>1. CASE seq \in Counted(s)
    <3>1. seq \in Nat
      BY <2>1, QueuedNat
    <3> QED BY <1>0, <1>1, <1>2, <2>1, <3>1 DEF InOrder, BelowCursor
  <2>2. CASE seq = rd[s].next /\ ~Excused(s, rd[s].next)
    <3>1. rd[s].head <= head
      BY <1>0 DEF InOrder, ResumeSeesPublish, Resuming
    <3>2. Unserved(s) => seq # pub.seq
      BY <1>0, <2>2 DEF InOrder, ResumeSeesPublish, Resuming, Unserved, Busy
    <3> QED BY <1>0, <1>1, <1>2, <2>2, <3>1, <3>2
  <2> QED BY <1>6, <2>1, <2>2
<1> QED BY <1>1, <1>2, <1>3, <1>5, <1>6, <1>7, Others DEF InOrder

\* The pump, Shutdown and CloseStore queue nothing and move no cursor.
LEMMA QuietOrder ==
  ASSUME TypeOK, TypeOK', OrderInv, UNCHANGED <<rows, pub, rd, sub>>,
         stop = "closed" => stop' = "closed",
         \A s \in Subs : chan'[s].queued = chan[s].queued
  PROVE  OrderInv'
<1>1. PublishesLast'
  BY DEF OrderInv, PublishesLast, Busy, head
<1>2. ASSUME NEW s \in Subs PROVE Fresh(s)' /\ InOrder(s)'
  <2>1. sub[s].cursor \in Nat
    BY DEF TypeOK, SubState
  <2>2. InOrder(s)'
    BY <2>1, Calm DEF OrderInv
  <2> QED BY <2>2 DEF Fresh, OrderInv
<1> QED BY <1>1, <1>2 DEF OrderInv

\* A pump takes rows off a channel from the front.
LEMMA PumpOrder ==
  ASSUME TypeOK, TypeOK', OrderInv, NEW s \in Subs, Pump(s)
  PROVE  OrderInv'
<1>1. chan \in [Subs -> ChanState]
  BY DEF TypeOK
<1>2. CASE UNCHANGED <<store, pub, rd, sub, chan>>
  BY <1>2, QuietOrder DEF store
<1>3. ASSUME NEW pc, Flush(s, pc) PROVE OrderInv'
  <2>1. \A t \in Subs : chan'[t].queued = chan[t].queued
    BY <1>1, <1>3 DEF Flush, ChanState
  <2> QED BY <1>3, <2>1, QuietOrder DEF Flush, store
<1> QED BY <1>2, <1>3 DEF Pump, PumpStart, PumpTake, PumpFlush, PumpStop,
  PumpCancelled, PumpDrain, PumpDrained

\* Nothing is queued at first.
LEMMA InitOrder == Init => OrderInv
<1> SUFFICES ASSUME Init PROVE OrderInv
  OBVIOUS
<1>1. PublishesLast
  BY DEF Init, PublishesLast, Busy
<1>2. ASSUME NEW s \in Subs PROVE Fresh(s) /\ InOrder(s)
  <2>1. chan[s].queued = << >> /\ Queued(s) = {}
    BY DEF Init, Queued
  <2>2. Fresh(s) /\ ResumeSeesPublish(s)
    BY HubAssumption DEF Init, Fresh, ResumeSeesPublish, Resuming
  <2>3. Sorted(s) /\ BelowCursor(s)
    BY <2>1 DEF Sorted, BelowCursor, Counted
  <2> QED BY <2>2, <2>3 DEF InOrder
<1> QED BY <1>1, <1>2 DEF OrderInv

\* Any step.
LEMMA NextOrder ==
  ASSUME TypeInv, OrderInv, [Next]_vars
  PROVE  OrderInv'
<1> USE NextType DEF TypeInv
<1>1. ASSUME NEW k \in Kinds, PubAppend(k) PROVE OrderInv'
  BY <1>1, AppendOrder
<1>2. CASE PubAppendClosed \/ IngesterExit
  BY <1>2, PublisherOrder
<1>3. CASE Publisher
  BY <1>3, PublisherOrder, PubDeliverOrder, PubAdvanceOrder DEF Publisher
<1>4. ASSUME NEW s \in Subs,
             \/ \E f \in Filters : \E from \in FromSeqs : SubscribeRead(s, f, from)
             \/ \E f \in Filters : UpdateFilter(s, f)
             \/ Pause(s) \/ Unsubscribe(s)
      PROVE  OrderInv'
  BY <1>4, RequestOrder
<1>5. ASSUME NEW s \in Subs, ResumeCursor(s) PROVE OrderInv'
  BY <1>5, ResumeCursorOrder
<1>6. ASSUME NEW s \in Subs, Handler(s) PROVE OrderInv'
  BY <1>6, RequestOrder, ResumeOrder, ResumeWalkOrder DEF Handler
<1>7. ASSUME NEW s \in Subs, Pump(s) PROVE OrderInv'
  BY <1>7, PumpOrder
<1>8. CASE Shutdown \/ CloseStore
  BY <1>8, QuietOrder DEF Shutdown, CloseStore
<1>9. CASE UNCHANGED vars
  BY <1>9, QuietOrder DEF vars, store
<1> QED BY <1>1, <1>2, <1>3, <1>4, <1>5, <1>6, <1>7, <1>8, <1>9 DEF Next

\* In every state, whatever the interleaving.
LEMMA Ordered == Spec => []OrderInv
BY InitOrder, NextOrder, Typed, PTL DEF Spec

\* "Subscribers observe rows in seq order" (publishMu), with the exact list of
\* exceptions: whatever the number of subscribers, the interleaving of publish
\* and Resume and the moment of Shutdown, a row is delivered twice or after a
\* later one only if a Resume of that subscription overlapped its publication
\* or overwriting, or it is row 0 and the store is closed.
THEOREM JumpsAreExposed == Spec => []OnlyExposedRowsJump
<1>1. ASSUME TypeOK, OrderInv PROVE OnlyExposedRowsJump
  <2> SUFFICES ASSUME NEW s \in Subs, NEW i \in 1..Len(chan[s].queued),
                      NEW j \in 1..Len(chan[s].queued), i < j,
                      chan[s].queued[i] >= chan[s].queued[j]
               PROVE  \/ {chan[s].queued[i], chan[s].queued[j]} \intersect rd[s].exposed # {}
                      \/ stop = "closed" /\ chan[s].queued[j] = 0
    BY DEF OnlyExposedRowsJump
  <2>1. chan[s].queued[i] \in Nat /\ chan[s].queued[j] \in Nat
    BY <1>1, QueuedNat
  <2>2. Excused(s, chan[s].queued[i]) \/ Excused(s, chan[s].queued[j])
    BY <1>1 DEF OrderInv, InOrder, Sorted
  <2> QED BY <2>1, <2>2 DEF Excused
<1> QED BY <1>1, TypeCorrect, Ordered, PTL

---------------------------------------------------------------------------
(* Without Resume and without Shutdown there is no exception. *)

Undisturbed == "resume" \notin Ops /\ "shutdown" \notin Ops

Unexposed == \A s \in Subs : rd[s].exposed = {} /\ rd[s].pc \notin Resuming

NoExcuse == stop = "no" /\ Unexposed

\* Without `resume` no row is exposed.
LEMMA StaysUnexposed == ASSUME "resume" \notin Ops PROVE Spec => []Unexposed
<1>1. Init => Unexposed
  BY DEF Init, Unexposed, Resuming
<1>2. ASSUME TypeOK, Unexposed, [Next]_vars PROVE Unexposed'
  <2>1. rd \in [Subs -> ReaderState]
    BY <1>2 DEF TypeOK
  <2>2. ASSUME NEW k \in Kinds, PubAppend(k) PROVE Unexposed'
    <3>1. rd' = rd
      BY <1>2, <2>1, <2>2 DEF PubAppend, Unexposed
    <3> QED BY <1>2, <3>1 DEF Unexposed
  <2>3. CASE UNCHANGED rd
    BY <1>2, <2>3 DEF Unexposed
  <2>4. CASE Shutdown \/ CloseStore
    BY <1>2, <2>4 DEF Shutdown, CloseStore, Unexposed
  <2>5. ASSUME NEW s \in Subs,
               rd'[s].exposed = rd[s].exposed, rd'[s].pc \notin Resuming,
               \A t \in Subs \ {s} : rd'[t] = rd[t]
        PROVE  Unexposed'
    BY <1>2, <2>5 DEF Unexposed
  <2>6. ASSUME NEW s \in Subs,
               \/ \E f \in Filters : \E from \in FromSeqs : SubscribeRead(s, f, from)
               \/ \E f \in Filters : UpdateFilter(s, f)
        PROVE  Unexposed'
    <3>1. ASSUME NEW f \in Filters, NEW from \in FromSeqs, SubscribeRead(s, f, from)
          PROVE  Unexposed'
      BY <2>1, <2>5, <3>1 DEF SubscribeRead, Enter, ReaderState, Resuming, store
    <3>2. ASSUME NEW f \in Filters, UpdateFilter(s, f) PROVE Unexposed'
      BY <2>1, <2>5, <3>2 DEF UpdateFilter, ReaderState, Resuming, store
    <3> QED BY <2>6, <3>1, <3>2
  <2>7. ASSUME NEW s \in Subs, Unsubscribe(s) \/ ResumeCursor(s) \/ Pause(s) PROVE Unexposed'
    BY <2>1, <2>3, <2>5, <2>7 DEF Unsubscribe, ResumeCursor, Pause, Enter, ReaderState,
      Resuming, store
  <2>8. ASSUME NEW s \in Subs, Handler(s) PROVE Unexposed'
    <3>1. ~(ResumeHead(s) \/ ResumeTail(s) \/ ResumeWalk(s) \/ ResumeCatchUp(s) \/ ResumeUnpause(s))
      BY <1>2 DEF Unexposed, ResumeHead, ResumeTail, ResumeWalk, ResumeCatchUp, ResumeUnpause, Resuming
    <3>3. CASE SubscribeJoin(s)
      BY <2>1, <2>5, <3>3 DEF SubscribeJoin, ReaderState, Resuming
    <3>4. CASE QueryHead(s) \/ StartPump(s) \/ CloseDone(s)
      BY <2>1, <2>5, <3>4 DEF QueryHead, StartPump, CloseDone, Enter, ReaderState, Resuming
    <3>5. CASE SendBacklog(s)
      BY <2>1, <2>5, <3>5 DEF SendBacklog, ReaderState, Resuming
    <3> QED BY <2>8, <3>1, <3>3, <3>4, <3>5 DEF Handler
  <2>9. CASE PubAppendClosed \/ IngesterExit \/ Publisher
    BY <2>3, <2>9 DEF PubAppendClosed, IngesterExit, Publisher, PubSnapshot, PubSkip, PubPick,
      PubDeliver, PubAdvance, PubDone, store
  <2>10. ASSUME NEW s \in Subs, Pump(s) PROVE Unexposed'
    BY <2>3, <2>10 DEF Pump, PumpStart, PumpTake, PumpFlush, PumpStop, PumpCancelled, PumpDrain,
      PumpDrained, Flush, store
  <2>11. CASE UNCHANGED vars
    BY <2>3, <2>11 DEF vars, store
  <2>12. CASE Next
    BY <2>2, <2>4, <2>6, <2>7, <2>8, <2>9, <2>10, <2>12 DEF Next
  <2> QED BY <1>2, <2>11, <2>12
<1> QED BY <1>1, <1>2, TypeCorrect, PTL DEF Spec

\* Without `resume` and shutdown nothing excuses a row out of order.
LEMMA StaysUndisturbed == ASSUME Undisturbed PROVE Spec => []NoExcuse
<1> DEFINE Open == stop = "no"
<1>1. Init => Open
  BY DEF Init
<1>2. ASSUME Open, [Next]_vars PROVE Open'
  <2>1. ~Shutdown /\ ~CloseStore
    BY <1>2 DEF Shutdown, CloseStore, Undisturbed
  <2>2. \A s \in Subs : Handler(s) \/ Pump(s) => stop' = stop
    BY DEF Handler, SubscribeJoin, QueryHead, SendBacklog, StartPump, ResumeHead, ResumeTail,
       ResumeWalk, ResumeCatchUp, ResumeUnpause, CloseDone, Pump, PumpStart, PumpTake, PumpFlush,
       PumpStop, PumpCancelled, PumpDrain, PumpDrained, Flush, store
  <2> QED BY <1>2, <2>1, <2>2 DEF Next, vars, store, PubAppend, PubAppendClosed, Publisher, PubSnapshot,
       PubSkip, PubPick, PubDeliver, PubAdvance, PubDone, IngesterExit, SubscribeRead, UpdateFilter,
       Pause, ResumeCursor, Unsubscribe
<1>3. "resume" \notin Ops
  BY DEF Undisturbed
<1>4. Spec => []Open
  <2> HIDE DEF Open
  <2> QED BY <1>1, <1>2, PTL DEF Spec
<1>5. Spec => []Unexposed
  BY <1>3, StaysUnexposed
<1> QED BY <1>4, <1>5, PTL DEF NoExcuse

\* While nobody resumes a subscription and the store stays open, every channel
\* is strictly increasing: no row twice, none out of order.
THEOREM LiveOrderHolds == ASSUME Undisturbed PROVE Spec => []LiveOrder
<1>1. ASSUME TypeOK, NoExcuse, OnlyExposedRowsJump PROVE LiveOrder
  <2> SUFFICES ASSUME NEW s \in Subs, NEW i \in 1..Len(chan[s].queued),
                      NEW j \in 1..Len(chan[s].queued), i < j
               PROVE  chan[s].queued[i] < chan[s].queued[j]
    BY DEF LiveOrder
  <2>1. chan[s].queued[i] \in Nat /\ chan[s].queued[j] \in Nat
    BY <1>1, QueuedNat
  <2>2. rd[s].exposed = {} /\ stop = "no"
    BY <1>1 DEF NoExcuse, Unexposed
  <2>3. ~(chan[s].queued[i] >= chan[s].queued[j])
    BY <1>1, <2>2 DEF OnlyExposedRowsJump
  <2> QED BY <2>1, <2>3
<1> QED BY <1>1, TypeCorrect, StaysUndisturbed, JumpsAreExposed, PTL

---------------------------------------------------------------------------
(* LogHub implements LiveTail, as long as nobody resumes a subscription and *)
(* the store stays open under its publisher.                                *)

\* The batch never outgrows its frame, and there are no more rows than lines.
Bounded ==
  /\ \A s \in Subs : InBatch(s) <= BatchSize
  /\ head <= lines /\ lines <= MaxLines

\* What the publisher holds out is a row it has appended.
OfferedRange == \A s \in Subs : Offered(s) \subseteq 0..MaxLines

RefInv == TypeInv /\ LiveOrder /\ NoExcuse /\ Bounded /\ PublishesLast /\ OfferedRange

\* What is published never exceeds the lines there are.
LEMMA StaysBounded == Spec => []Bounded
<1>1. Init => Bounded
  BY HubAssumption DEF Init, Bounded, InBatch, head
<1>2. ASSUME TypeInv, Bounded, [Next]_vars PROVE Bounded'
  <2>0. /\ pump \in [Subs -> PumpState] /\ head \in Nat /\ lines \in Nat /\ rows \in Seq(Kinds)
        /\ Windows
    BY <1>2, HeadTail DEF TypeInv, TypeOK
  <2>1. ASSUME UNCHANGED <<rows, lines>>,
               \A s \in Subs : pump'[s].taken = pump[s].taken /\ pump'[s].sent = pump[s].sent
        PROVE  Bounded'
    BY <1>2, <2>1 DEF Bounded, InBatch, head
  <2>2. ASSUME NEW k \in Kinds, PubAppend(k) PROVE Bounded'
    <3>1. UNCHANGED pump /\ head' = head + 1 /\ lines' = lines + 1 /\ lines < MaxLines
      BY <2>0, <2>2 DEF PubAppend, head
    <3> QED BY <1>2, <2>0, <3>1, HubAssumption DEF Bounded, InBatch
  <2>3. CASE PubAppendClosed
    <3>1. UNCHANGED pump /\ head' = head /\ lines' = lines + 1 /\ lines < MaxLines
      BY <2>3 DEF PubAppendClosed, head
    <3> QED BY <1>2, <2>0, <3>1, HubAssumption DEF Bounded, InBatch
  <2>4. ASSUME NEW s \in Subs, PumpTake(s) PROVE Bounded'
    <3>1. /\ UNCHANGED <<rows, lines>> /\ InBatch(s) < BatchSize
          /\ \A t \in Subs : /\ pump'[t].sent = pump[t].sent
                             /\ pump'[t].taken = IF t = s THEN pump[t].taken + 1 ELSE pump[t].taken
      BY <2>0, <2>4 DEF PumpTake, PumpState, store
    <3>2. \A t \in Subs : pump[t].sent \in Nat /\ pump[t].taken \in Nat
      BY <2>0 DEF PumpState
    <3> QED BY <1>2, <3>1, <3>2, HubAssumption DEF Bounded, InBatch, head
  <2>5. ASSUME NEW s \in Subs, NEW pc, Flush(s, pc) PROVE Bounded'
    <3>1. /\ UNCHANGED <<rows, lines>>
          /\ \A t \in Subs \ {s} : pump'[t] = pump[t]
      BY <2>0, <2>5 DEF Flush, store
    <3>2. pump'[s].sent = pump[s].taken /\ pump'[s].taken = pump[s].taken /\ pump[s].taken \in Nat
      BY <2>0, <2>5 DEF Flush, PumpState
    <3> QED BY <1>2, <3>1, <3>2, HubAssumption DEF Bounded, InBatch, head
  <2>6. CASE UNCHANGED <<rows, lines, pump>>
    BY <2>1, <2>6
  <2>7. ASSUME NEW s \in Subs, PumpStart(s) \/ PumpDrain(s) \/ StartPump(s) PROVE Bounded'
    <3>1. UNCHANGED <<rows, lines>>
      BY <2>7 DEF PumpStart, PumpDrain, StartPump, store
    <3>2. \E pc : pump' = [pump EXCEPT ![s].pc = pc]
      BY <2>7 DEF PumpStart, PumpDrain, StartPump
    <3>3. \A t \in Subs : pump'[t].taken = pump[t].taken /\ pump'[t].sent = pump[t].sent
      BY <2>0, <3>2 DEF PumpState
    <3> QED BY <2>1, <3>1, <3>3
  <2>8. CASE Publisher \/ IngesterExit \/ Shutdown \/ CloseStore \/ UNCHANGED vars
    BY <2>6, <2>8 DEF Publisher, PubSnapshot, PubSkip, PubPick, PubDeliver, PubAdvance, PubDone,
      IngesterExit, Shutdown, CloseStore, vars, store
  <2>9. ASSUME NEW s \in Subs,
               \/ \E f \in Filters : \E from \in FromSeqs : SubscribeRead(s, f, from)
               \/ \E f \in Filters : UpdateFilter(s, f)
               \/ Pause(s) \/ ResumeCursor(s) \/ Unsubscribe(s)
        PROVE  Bounded'
    BY <2>6, <2>9 DEF SubscribeRead, UpdateFilter, Pause, ResumeCursor, Unsubscribe, store
  <2>10. ASSUME NEW s \in Subs, Handler(s) PROVE Bounded'
    BY <2>6, <2>7, <2>10 DEF Handler, SubscribeJoin, QueryHead, SendBacklog, ResumeHead, ResumeTail,
      ResumeWalk, ResumeCatchUp, ResumeUnpause, CloseDone, store
  <2>11. ASSUME NEW s \in Subs, Pump(s) PROVE Bounded'
    BY <2>4, <2>5, <2>7, <2>11 DEF Pump, PumpFlush, PumpStop, PumpCancelled, PumpDrained
  <2>12. CASE Next
    BY <2>2, <2>3, <2>8, <2>9, <2>10, <2>11, <2>12 DEF Next
  <2> QED BY <1>2, <2>8, <2>12
<1> QED BY <1>1, <1>2, Typed, PTL DEF Spec

\* The facts the refinement needs hold together in every state.
LEMMA RefInvHolds == ASSUME Undisturbed PROVE Spec => []RefInv
<1>1. OrderInv => PublishesLast
  BY DEF OrderInv
<1>2. ASSUME TypeInv, NoExcuse, Bounded, PublishesLast PROVE OfferedRange
  <2> SUFFICES ASSUME pub.pc = "deliver" PROVE pub.seq \in 0..MaxLines
    BY DEF OfferedRange, Offered
  <2>1. pub.seq \in Nat /\ pub.seq = head - 1
    BY <1>2 DEF TypeInv, TypeOK, NoExcuse, PublishesLast, Busy
  <2>2. head \in Nat /\ lines \in Nat /\ head <= lines /\ lines <= MaxLines
    BY <1>2, HeadTail DEF TypeInv, TypeOK, Bounded
  <2> QED BY <2>1, <2>2, HubAssumption
<1> QED BY <1>1, <1>2, Typed, LiveOrderHolds, StaysUndisturbed, StaysBounded, Ordered, PTL
        DEF RefInv

---------------------------------------------------------------------------
(* Initial states map to initial states, steps to steps or stutters. *)

\* What is wanted is always a set of sequence numbers.
LEMMA WantedFits ==
  ASSUME OfferedRange
  PROVE  [s \in Subs |-> {seq \in Offered(s) : Matches(s, seq)}] \in [Subs -> SUBSET (0..MaxLines)]
BY DEF OfferedRange

\* An initial state of the hub is one of the live tail.
LEMMA RefInit == Init => LT!Init
<1> SUFFICES ASSUME Init PROVE LT!Init
  OBVIOUS
<1>1. \A s \in Subs : Offered(s) = {}
  BY DEF Init, Offered
<1>2. [s \in Subs |-> {seq \in Offered(s) : Matches(s, seq)}] \in [Subs -> SUBSET (0..MaxLines)]
  BY <1>1, WantedFits DEF OfferedRange
<1> QED BY <1>1, <1>2 DEF Init, LT!Init

Queues(s) == <<chan[s].queued, chan[s].dropped, pump[s].taken, pump[s].sent, pump[s].gapped>>

\* Nothing that LiveTail knows of has changed for s.
Same(s) == /\ UNCHANGED Queues(s)
           /\ sub'[s].member = sub[s].member /\ sub'[s].dead = sub[s].dead
           /\ Offered(s)' = Offered(s)

\* A step after which every subscription is the same is one that leaves LiveTail alone.
LEMMA QuietSteps ==
  ASSUME OfferedRange', \A s \in Subs : Same(s)
  PROVE  LT!Next
<1>1. \A s \in Subs : /\ chan'[s].queued = chan[s].queued /\ chan'[s].dropped = chan[s].dropped
                      /\ pump'[s].taken = pump[s].taken /\ pump'[s].sent = pump[s].sent
                      /\ pump'[s].gapped = pump[s].gapped
                      /\ sub'[s].member = sub[s].member /\ sub'[s].dead = sub[s].dead
                      /\ Offered(s)' = Offered(s)
  BY DEF Same, Queues
<1>2. [s \in Subs |-> {seq \in Offered(s) : Matches(s, seq)}]' \in [Subs -> SUBSET (0..MaxLines)]
  BY DEF OfferedRange
<1> QED BY <1>1, <1>2 DEF LT!Next, LT!queues, LT!gaps, LT!who

\* So are the channels, the pumps, the publisher and who is subscribed.
LEMMA UnchangedSteps ==
  ASSUME OfferedRange', UNCHANGED <<pub, chan, pump>>,
         \A s \in Subs : sub'[s].member = sub[s].member /\ sub'[s].dead = sub[s].dead
  PROVE  LT!Next
<1>1. \A s \in Subs : Same(s)
  BY DEF Same, Queues, Offered
<1> QED BY <1>1, QuietSteps

\* A flush of the pump is the live tail's delivery to a client.
LEMMA FlushShows ==
  ASSUME TypeInv, OfferedRange', NEW s \in Subs, NEW pc, Flush(s, pc)
  PROVE  LT!Next
<1>1. /\ chan \in [Subs -> ChanState] /\ pump \in [Subs -> PumpState] /\ UNCHANGED <<pub, sub>>
  BY DEF TypeInv, TypeOK, Flush
<1>2. pump[s].gapped \in Nat /\ chan[s].dropped \in Nat
  BY <1>1 DEF ChanState, PumpState
<1>3. /\ \A t \in Subs : chan'[t].queued = chan[t].queued /\ pump'[t].taken = pump[t].taken
      /\ \A t \in Subs \ {s} : chan'[t] = chan[t] /\ pump'[t] = pump[t]
      /\ \A t \in Subs : Offered(t)' = Offered(t)
  BY <1>1 DEF Flush, ChanState, PumpState, Offered
<1>4. /\ pump'[s].sent = pump[s].taken /\ pump'[s].gapped = pump[s].gapped + Gap(s)
      /\ chan'[s].dropped = chan[s].dropped - Gap(s)
  BY <1>1 DEF Flush, ChanState, PumpState
<1>5. LT!Show(s)
  <2>1. [t \in Subs |-> pump'[t].sent]
          = [[t \in Subs |-> pump[t].sent] EXCEPT ![s] = [t \in Subs |-> pump[t].taken][s]]
    BY <1>3, <1>4
  <2>2. IF s \in {t \in Subs : sub[t].member}
        THEN /\ [t \in Subs |-> pump'[t].gapped]
                = [[t \in Subs |-> pump[t].gapped] EXCEPT ![s] = @ + [t \in Subs |-> chan[t].dropped][s]]
             /\ [t \in Subs |-> chan'[t].dropped]
                = [[t \in Subs |-> chan[t].dropped] EXCEPT ![s] = 0]
        ELSE /\ [t \in Subs |-> chan'[t].dropped] = [t \in Subs |-> chan[t].dropped]
             /\ [t \in Subs |-> pump'[t].gapped] = [t \in Subs |-> pump[t].gapped]
    <3>1. CASE sub[s].member
      <4>1. chan'[s].dropped = 0 /\ pump'[s].gapped = pump[s].gapped + chan[s].dropped
        BY <1>2, <1>4, <3>1 DEF Gap
      <4> QED BY <1>3, <3>1, <4>1
    <3>2. CASE ~sub[s].member
      <4>1. chan'[s].dropped = chan[s].dropped /\ pump'[s].gapped = pump[s].gapped
        BY <1>2, <1>4, <3>2 DEF Gap
      <4> QED BY <1>3, <3>2, <4>1
    <3> QED BY <3>1, <3>2
  <2> QED BY <1>1, <1>3, <2>1, <2>2 DEF LT!Show, LT!gaps, LT!who
<1>6. [t \in Subs |-> {seq \in Offered(t) : Matches(t, seq)}]' \in [Subs -> SUBSET (0..MaxLines)]
  BY DEF OfferedRange
<1> QED BY <1>5, <1>6 DEF LT!Next

\* A row the pump takes leaves the channel of the live tail.
LEMMA TakeTakes ==
  ASSUME TypeInv, OfferedRange', NEW s \in Subs, PumpTake(s)
  PROVE  LT!Next
<1>1. /\ chan \in [Subs -> ChanState] /\ pump \in [Subs -> PumpState] /\ UNCHANGED <<pub, sub, chan>>
  BY DEF TypeInv, TypeOK, PumpTake
<1>2. /\ pump'[s].taken = pump[s].taken + 1
      /\ \A t \in Subs \ {s} : pump'[t] = pump[t]
      /\ \A t \in Subs : pump'[t].sent = pump[t].sent /\ pump'[t].gapped = pump[t].gapped
      /\ \A t \in Subs : Offered(t)' = Offered(t)
  BY <1>1 DEF PumpTake, PumpState, Offered
<1>3. pump[s].taken < Len(chan[s].queued) /\ pump[s].taken - pump[s].sent < BatchSize
  <2>1. pump[s].taken \in Nat /\ Len(chan[s].queued) \in Nat
    BY <1>1 DEF ChanState, PumpState
  <2> QED BY <2>1 DEF PumpTake, InChannel, InBatch
<1>4. LT!Take(s)
  BY <1>1, <1>2, <1>3 DEF LT!Take, LT!gaps, LT!who
<1>5. [t \in Subs |-> {seq \in Offered(t) : Matches(t, seq)}]' \in [Subs -> SUBSET (0..MaxLines)]
  BY DEF OfferedRange
<1> QED BY <1>4, <1>5 DEF LT!Next

\* A subscriber the publisher picks is offered the row.
LEMMA PickOffers ==
  ASSUME TypeInv, OfferedRange', NEW s \in Subs, PubPick(s)
  PROVE  LT!Next
<1>1. UNCHANGED <<sub, chan, pump>> /\ pub'.pc = "deliver" /\ pub'.sub = s /\ pub'.seq = pub.seq
  BY DEF PubPick, TypeInv, TypeOK
<1>2. /\ \A t \in Subs : Offered(t) = {}
      /\ \A t \in Subs : Offered(t)' = IF t = s THEN {pub.seq} ELSE {}
  BY <1>1 DEF PubPick, Offered
<1>3. pub.seq \in 0..MaxLines /\ ~sub[s].dead
  BY <1>2 DEF OfferedRange, PubPick
<1>4. LT!Offer(s, pub.seq)
  BY <1>1, <1>2, <1>3 DEF LT!Offer, LT!queues, LT!gaps, LT!who
<1>5. [t \in Subs |-> {seq \in Offered(t) : Matches(t, seq)}]' \in [Subs -> SUBSET (0..MaxLines)]
  BY DEF OfferedRange
<1> QED BY <1>3, <1>4, <1>5 DEF LT!Next

\* A delivery decides about the row on offer: the live tail accepts it, counts it
\* as missed, or passes it over because it is not wanted.
LEMMA DeliverDecides ==
  ASSUME RefInv, RefInv', PubDeliver
  PROVE  LT!Next
<1> PICK s, seq : s = pub.sub /\ seq = pub.seq
  OBVIOUS
<1>1. /\ s \in Subs /\ seq \in Nat /\ Offer(s, seq) /\ UNCHANGED <<rows, sub, pump>>
      /\ chan \in [Subs -> ChanState] /\ pump \in [Subs -> PumpState]
      /\ pub.pc = "deliver" /\ pub'.pc = "advance" /\ OfferedRange' /\ LiveOrder'
  BY DEF RefInv, TypeInv, TypeOK, PubTarget, PubDeliver, store
<1>2. /\ \A t \in Subs : Offered(t) = IF t = s THEN {seq} ELSE {}
      /\ \A t \in Subs : Offered(t)' = {}
  BY <1>1 DEF Offered
<1>3. seq \in 0..MaxLines
  BY <1>1, <1>2 DEF RefInv, OfferedRange
<1>4. [t \in Subs |-> Offered(t)'] = [[t \in Subs |-> Offered(t)] EXCEPT ![s] = {}]
  BY <1>2
<1>5. [t \in Subs |-> {c \in Offered(t) : Matches(t, c)}]' \in [Subs -> SUBSET (0..MaxLines)]
  BY <1>1 DEF OfferedRange
<1>6. CASE UNCHANGED chan /\ (~Matches(s, seq) \/ sub[s].dead)
  <2>1. LT!PassOver(s, seq)
    BY <1>1, <1>2, <1>4, <1>6 DEF LT!PassOver, LT!Decided, LT!queues, LT!gaps, LT!who
  <2> QED BY <1>1, <1>3, <1>5, <2>1 DEF LT!Next
<1>7. CASE /\ Matches(s, seq) /\ InChannel(s) < ChanCap
           /\ chan' = [chan EXCEPT ![s].queued = Append(@, seq)]
  <2>1. /\ chan'[s].queued = Append(chan[s].queued, seq)
        /\ chan'[s].dropped = chan[s].dropped
        /\ \A t \in Subs \ {s} : chan'[t] = chan[t]
    BY <1>1, <1>7 DEF ChanState
  <2>2. \A i \in 1..Len(chan[s].queued) : chan[s].queued[i] < seq
    <3> SUFFICES ASSUME NEW i \in 1..Len(chan[s].queued) PROVE chan[s].queued[i] < seq
      OBVIOUS
    <3>1. chan[s].queued \in Seq(Nat) /\ Len(chan[s].queued) \in Nat
      BY <1>1 DEF ChanState
    <3> PICK n \in Nat : n = Len(chan[s].queued)
      BY <3>1
    <3>2. /\ Len(chan'[s].queued) = n + 1 /\ chan'[s].queued[n + 1] = seq
          /\ chan'[s].queued[i] = chan[s].queued[i]
      BY <1>1, <2>1, <3>1
    <3>3. i \in 1..Len(chan'[s].queued) /\ n + 1 \in 1..Len(chan'[s].queued) /\ i < n + 1
      BY <3>1, <3>2
    <3> QED BY <1>1, <3>2, <3>3 DEF LiveOrder
  <2>3. ~(Len(chan[s].queued) - pump[s].taken >= ChanCap)
    <3>1. Len(chan[s].queued) \in Nat /\ pump[s].taken \in Nat
      BY <1>1 DEF ChanState, PumpState
    <3> QED BY <1>7, <3>1, HubAssumption DEF InChannel
  <2>4. [t \in Subs |-> chan'[t].queued] = [[t \in Subs |-> chan[t].queued] EXCEPT ![s] = Append(@, seq)]
    BY <2>1
  <2>5. LT!Accept(s, seq)
    <3>1. /\ seq \in [t \in Subs |-> Offered(t)][s]
          /\ seq \in [t \in Subs |-> {c \in Offered(t) : Matches(t, c)}][s]
      BY <1>1, <1>2, <1>7
    <3>2. ~LT!Full(s) /\ LT!Decided(s)
      BY <1>1, <1>4, <2>3 DEF LT!Full, LT!Decided
    <3>3. \A i \in 1..Len([t \in Subs |-> chan[t].queued][s]) :
             [t \in Subs |-> chan[t].queued][s][i] < seq
      BY <1>1, <2>2
    <3>4. UNCHANGED <<[t \in Subs |-> pump[t].taken], [t \in Subs |-> pump[t].sent],
                      LT!gaps, LT!who>>
      BY <1>1, <2>1 DEF LT!gaps, LT!who
    <3> QED BY <1>1, <2>4, <3>1, <3>2, <3>3, <3>4 DEF LT!Accept
  <2> QED BY <1>1, <1>3, <1>5, <2>5 DEF LT!Next
<1>8. CASE /\ Matches(s, seq) /\ ~sub[s].dead /\ InChannel(s) >= ChanCap
           /\ chan' = [chan EXCEPT ![s].dropped = @ + 1]
  <2>1. /\ chan'[s].dropped = chan[s].dropped + 1
        /\ \A t \in Subs : chan'[t].queued = chan[t].queued
        /\ \A t \in Subs \ {s} : chan'[t] = chan[t]
    BY <1>1, <1>8 DEF ChanState
  <2>2. Len(chan[s].queued) - pump[s].taken >= ChanCap
    BY <1>8 DEF InChannel
  <2>3. LT!Refuse(s, seq)
    BY <1>1, <1>2, <1>4, <1>8, <2>1, <2>2
       DEF LT!Refuse, LT!Full, LT!Decided, LT!queues, LT!who
  <2> QED BY <1>1, <1>3, <1>5, <2>3 DEF LT!Next
<1> QED BY <1>1, <1>6, <1>7, <1>8 DEF Offer, Deliver

\* Registering, unregistering and closing done are what LiveTail calls them.
LEMMA MembersChange ==
  ASSUME TypeInv, OfferedRange', NEW s \in Subs,
         SubscribeJoin(s) \/ Unsubscribe(s) \/ CloseDone(s)
  PROVE  LT!Next
<1>1. sub \in [Subs -> SubState] /\ UNCHANGED <<pub, chan, pump>>
  BY DEF TypeInv, TypeOK, SubscribeJoin, Unsubscribe, CloseDone
<1>2. /\ \A t \in Subs \ {s} : sub'[t] = sub[t]
      /\ \A t \in Subs : Offered(t)' = Offered(t)
  BY <1>1 DEF SubscribeJoin, Unsubscribe, CloseDone, Offered
<1>3. [t \in Subs |-> {seq \in Offered(t) : Matches(t, seq)}]' \in [Subs -> SUBSET (0..MaxLines)]
  BY DEF OfferedRange
<1>4. CASE SubscribeJoin(s)
  <2>1. sub'[s].member /\ sub'[s].dead = sub[s].dead
    BY <1>1, <1>4 DEF SubscribeJoin, SubState
  <2>2. LT!Join(s)
    BY <1>1, <1>2, <2>1 DEF LT!Join, LT!queues, LT!gaps
  <2> QED BY <1>3, <2>2 DEF LT!Next
<1>5. CASE Unsubscribe(s)
  <2>1. ~sub'[s].member /\ sub'[s].dead = sub[s].dead
    BY <1>1, <1>5 DEF Unsubscribe, SubState
  <2>2. LT!Quit(s)
    BY <1>1, <1>2, <2>1 DEF LT!Quit, LT!queues, LT!gaps
  <2> QED BY <1>3, <2>2 DEF LT!Next
<1>6. CASE CloseDone(s)
  <2>1. sub'[s].dead /\ sub'[s].member = sub[s].member
    BY <1>1, <1>6 DEF CloseDone, SubState
  <2>2. LT!Leave(s)
    BY <1>1, <1>2, <2>1 DEF LT!Leave, LT!queues, LT!gaps
  <2> QED BY <1>3, <2>2 DEF LT!Next
<1> QED BY <1>4, <1>5, <1>6

\* Every step of the hub is a step of the live tail.
LEMMA RefNext ==
  ASSUME Undisturbed, RefInv, RefInv', [Next]_vars
  PROVE  LT!Next
<1>0. /\ chan \in [Subs -> ChanState] /\ pump \in [Subs -> PumpState]
      /\ sub \in [Subs -> SubState] /\ TypeInv /\ OfferedRange'
  BY DEF RefInv, TypeInv, TypeOK
<1>1. CASE UNCHANGED <<pub, chan, pump, sub>>
  BY <1>0, <1>1, UnchangedSteps
<1>2. CASE UNCHANGED <<chan, pump, sub>> /\ pub.pc # "deliver" /\ pub'.pc # "deliver"
  <2>1. \A t \in Subs : Same(t)
    BY <1>2 DEF Same, Queues, Offered
  <2> QED BY <1>0, <2>1, QuietSteps
<1>3. CASE PubAdvance
  <2>1. /\ UNCHANGED <<chan, pump>> /\ pub.sub \in Subs
        /\ pub.pc # "deliver" /\ pub'.pc # "deliver"
    BY <1>0, <1>3 DEF PubAdvance, TypeInv, TypeOK, PubTarget
  <2>2. \A t \in Subs : sub'[t].dead = sub[t].dead /\ sub'[t].member = sub[t].member
    BY <1>0, <1>3, <2>1 DEF PubAdvance, SubState
  <2>3. \A t \in Subs : Same(t)
    BY <2>1, <2>2 DEF Same, Queues, Offered
  <2> QED BY <1>0, <2>3, QuietSteps
<1>4. ASSUME NEW s \in Subs,
             \/ \E f \in Filters : \E from \in FromSeqs : SubscribeRead(s, f, from)
             \/ \E f \in Filters : UpdateFilter(s, f)
             \/ Pause(s)
      PROVE  LT!Next
  <2> DEFINE Alike == /\ UNCHANGED <<pub, chan, pump>>
                      /\ \A t \in Subs : /\ sub'[t].dead = sub[t].dead
                                          /\ sub'[t].member = sub[t].member
  <2>1. ASSUME NEW f \in Filters, NEW from \in FromSeqs, SubscribeRead(s, f, from) PROVE Alike
    BY <1>0, <2>1 DEF SubscribeRead, SubState
  <2>2. ASSUME NEW f \in Filters, UpdateFilter(s, f) PROVE Alike
    BY <1>0, <2>2 DEF UpdateFilter, SubState
  <2>3. ASSUME Pause(s) PROVE Alike
    <3>1. sub' = [sub EXCEPT ![s].paused = TRUE] /\ UNCHANGED <<pub, chan, pump>>
      BY <2>3 DEF Pause
    <3> QED BY <1>0, <3>1 DEF SubState
  <2>4. Alike
    <3> HIDE DEF Alike
    <3> QED BY <1>4, <2>1, <2>2, <2>3
  <2> QED BY <1>0, <2>4, UnchangedSteps
<1>5. ASSUME NEW s \in Subs, NEW pc, pump' = [pump EXCEPT ![s].pc = pc], UNCHANGED <<pub, chan, sub>>
      PROVE  LT!Next
  <2>1. \A t \in Subs : /\ pump'[t].sent = pump[t].sent /\ pump'[t].gapped = pump[t].gapped
                        /\ pump'[t].taken = pump[t].taken
    BY <1>0, <1>5 DEF PumpState
  <2>2. \A t \in Subs : Same(t)
    BY <1>5, <2>1 DEF Same, Queues, Offered
  <2> QED BY <1>0, <2>2, QuietSteps
<1>6. ASSUME NEW s \in Subs, Handler(s) PROVE LT!Next
  <2>1. ~(ResumeHead(s) \/ ResumeTail(s) \/ ResumeWalk(s) \/ ResumeCatchUp(s) \/ ResumeUnpause(s))
    BY DEF RefInv, NoExcuse, Unexposed, ResumeHead, ResumeTail, ResumeWalk, ResumeCatchUp, ResumeUnpause,
      Resuming
  <2>2. CASE StartPump(s)
    BY <1>5, <2>2 DEF StartPump
  <2>3. CASE QueryHead(s) \/ SendBacklog(s)
    BY <1>1, <2>3 DEF QueryHead, SendBacklog
  <2> QED BY <1>0, <1>6, <2>1, <2>2, <2>3, MembersChange DEF Handler
<1>7. ASSUME NEW s \in Subs, Pump(s) PROVE LT!Next
  <2>1. CASE PumpStart(s) \/ PumpDrain(s)
    BY <1>5, <2>1 DEF PumpStart, PumpDrain
  <2>2. ASSUME NEW pc, Flush(s, pc) PROVE LT!Next
    BY <1>0, <2>2, FlushShows
  <2> QED BY <1>0, <1>7, <2>1, <2>2, TakeTakes DEF Pump, PumpFlush, PumpStop, PumpCancelled, PumpDrained
<1>8. ASSUME NEW k \in Kinds, PubAppend(k) PROVE LT!Next
  <2>1. pub.pc # "deliver" /\ pub'.pc # "deliver" /\ UNCHANGED <<chan, pump, sub>>
    BY <1>0, <1>8 DEF PubAppend, TypeInv, TypeOK
  <2> QED BY <1>2, <2>1
<1>9. CASE IngesterExit
  <2>1. pub.pc # "deliver" /\ pub'.pc # "deliver" /\ UNCHANGED <<chan, pump, sub>>
    BY <1>0, <1>9 DEF IngesterExit, TypeInv, TypeOK
  <2> QED BY <1>2, <2>1
<1>10. CASE PubAppendClosed \/ Shutdown \/ CloseStore \/ UNCHANGED vars
  <2>1. ~PubAppendClosed
    BY DEF PubAppendClosed, RefInv, NoExcuse
  <2> QED BY <1>1, <1>10, <2>1 DEF Shutdown, CloseStore, vars
<1>11. CASE Publisher
  <2>1. ASSUME PubSnapshot \/ PubDone \/ \E s \in Subs : PubSkip(s) PROVE LT!Next
    <3>1. pub.pc # "deliver" /\ pub'.pc # "deliver" /\ UNCHANGED <<chan, pump, sub>>
      BY <1>0, <2>1 DEF PubSnapshot, PubDone, PubSkip, TypeInv, TypeOK
    <3> QED BY <1>2, <3>1
  <2> QED BY <1>0, <1>3, <1>11, <2>1, PickOffers, DeliverDecides DEF Publisher
<1>12. ASSUME NEW s \in Subs,
              \/ \E f \in Filters : \E from \in FromSeqs : SubscribeRead(s, f, from)
              \/ \E f \in Filters : UpdateFilter(s, f)
              \/ Pause(s) \/ ResumeCursor(s) \/ Unsubscribe(s)
       PROVE  LT!Next
  <2>1. ~ResumeCursor(s)
    BY DEF ResumeCursor, Undisturbed
  <2> QED BY <1>0, <1>4, <1>12, <2>1, MembersChange
<1>13. CASE Next
  BY <1>6, <1>7, <1>8, <1>9, <1>10, <1>11, <1>12, <1>13 DEF Next
<1> QED BY <1>10, <1>13

\* The live tail as its clients see it is the channel of LiveTail: every row it is
\* offered is accepted in order, or counted because the channel is full, or passed
\* over because the filter does not want it or the subscriber is gone.
THEOREM Refinement == ASSUME Undisturbed PROVE Spec => TailSpec
<1>1. RefInv /\ RefInv' /\ [Next]_vars /\ Undisturbed => [LT!Next]_LT!vars
  BY RefNext
<1> QED BY <1>1, RefInit, RefInvHolds, PTL DEF Spec, TailSpec, LT!Spec
=============================================================================
