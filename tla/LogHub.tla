------------------------------- MODULE LogHub -------------------------------
(***************************************************************************)
(* The live tail of loggi: the ring of rows, the fan-out that publishes    *)
(* each appended row to the subscribers, the session read loop that        *)
(* subscribes, pauses, resumes, re-filters and cancels, and the pump that  *)
(* batches queued rows into frames.                                        *)
(*                                                                         *)
(* Actors and the grain of their steps.  One publisher at a time holds     *)
(* publishMu, so there is one publisher; every subscription has a reader   *)
(* (the session goroutine that owns it) and a pump.  A step is what one    *)
(* lock or one atomic makes indivisible: Append under s.mu, one delivery,  *)
(* one cursor update, one read of head.                                    *)
(*                                                                         *)
(* Rows are abstracted to what a filter tells apart, their kind.  A row is *)
(* readable while its sequence number lies in [tail, head); a filter that  *)
(* meets an overwritten row sees Gone.  The channel and the pump's batch   *)
(* are windows of one growing sequence per subscription:                   *)
(*    queued = rows sent in frames \o batch \o channel,                    *)
(* cut at sent and taken, so that order and loss stay visible.             *)
(***************************************************************************)
EXTENDS Integers, Sequences, FiniteSets

CONSTANTS
  Subs,       \* store subscriptions, each used once
  NoSub,      \* stands for no subscription
  Kinds,      \* what a filter can tell apart in a live row
  Gone,       \* what it sees in an overwritten one
  Filters,    \* compiled filters: the kinds they accept
  FromSeqs,   \* from_seq values clients ask for; 0 is "from now"
  Cap,        \* Options.Cap: rows in the ring
  ChanCap,    \* subChanCap: rows in a subscriber's channel
  BatchSize,  \* batchSize: rows in a pump's frame
  HistoryN,   \* history_n of a subscribe message
  Ops,        \* the optional client and server operations of an instance
  MaxLines    \* bound: lines the ingester reads

ASSUME HubAssumption ==
  /\ Cap \in Nat \ {0} /\ ChanCap \in Nat \ {0} /\ BatchSize \in Nat \ {0}
  /\ HistoryN \in Nat /\ MaxLines \in Nat /\ FromSeqs \subseteq Nat
  /\ Gone \notin Kinds /\ NoSub \notin Subs
  /\ Filters \subseteq SUBSET (Kinds \union {Gone})
  /\ Ops \subseteq {"pause", "resume", "filter", "unsubscribe", "shutdown"}

VARIABLES
  rows,   \* kind of every row appended so far; rows[c + 1] is row c
  lines,  \* lines the ingester has read
  stop,   \* Shutdown: context cancelled first, store closed later
  pub,    \* the publisher: where it is, its row, whom it still has to serve
  rd,     \* the reader of each subscription: where it is in a handler, the
          \* handler's next row and head, the last backlog frame; and, as
          \* history, the first row the current filter decides about (epoch:
          \* head, or the later from_seq) and the rows appended or overwritten
          \* while a Resume ran (exposed)
  sub,    \* store.Subscriber: registered in subs, done closed, paused, ...
  chan,   \* its channel: every row ever queued, and the dropped counter
  pump    \* its pump: rows taken from the channel, rows sent in frames, the
          \* sum of gap_n, rows Materialize no longer found

store == <<rows, lines, stop>>
vars  == <<store, pub, rd, sub, chan, pump>>

PubPcs   == {"idle", "snapshot", "scan", "deliver", "advance", "exited"}
Resuming == {"resumeHead", "resumeTail", "walk", "unpause"}
ReaderPcs == {"new", "joining", "queryHead", "queryTail", "starting", "ready",
              "leaving", "gone"} \union Resuming
PumpPcs  == {"off", "spawned", "run", "drain", "stopped"}

Larger(a, b) == IF a > b THEN a ELSE b

---------------------------------------------------------------------------
(* The ring *)

head == Len(rows)

tail == Larger(0, head - Cap)

Live(seq) == seq \in tail..(head - 1)

Matches(s, seq) ==
  (IF Live(seq) THEN rows[seq + 1] ELSE Gone) \in sub[s].filter

\* The last n elements of a set of sequence numbers.
LastOf(S, n) == {c \in S : Cardinality({d \in S : d > c}) < n}

---------------------------------------------------------------------------
Init ==
  /\ rows = << >> /\ lines = 0 /\ stop = "no"
  /\ pub = [pc |-> "idle", seq |-> 0, todo |-> {}, sub |-> NoSub]
  /\ rd = [s \in Subs |-> [pc |-> "new", next |-> 0, head |-> 0, backlog |-> {},
                           epoch |-> 0, exposed |-> {}]]
  /\ sub = [s \in Subs |-> [member |-> FALSE, dead |-> FALSE, paused |-> FALSE,
                            cursor |-> 0, filter |-> {}]]
  /\ chan = [s \in Subs |-> [queued |-> << >>, dropped |-> 0]]
  /\ pump = [s \in Subs |-> [pc |-> "off", taken |-> 0, sent |-> 0, gapped |-> 0,
                             lost |-> {}]]

---------------------------------------------------------------------------
(* One subscriber's channel *)

InChannel(s) == Len(chan[s].queued) - pump[s].taken
InBatch(s)   == pump[s].taken - pump[s].sent

\* Bug variant: a row that is refused is not counted.
DeliverUncounted(s, seq) ==
  \/ (sub[s].dead \/ InChannel(s) >= ChanCap) /\ UNCHANGED chan
  \/ /\ InChannel(s) < ChanCap
     /\ chan' = [chan EXCEPT ![s].queued = Append(@, seq)]

\* Bug variant: one row more than the channel holds.
DeliverOverfull(s, seq) ==
  \/ sub[s].dead /\ UNCHANGED chan
  \/ /\ InChannel(s) <= ChanCap
     /\ chan' = [chan EXCEPT ![s].queued = Append(@, seq)]

\* Bug variant: the publisher waits for room.
DeliverBlocking(s, seq) ==
  \/ sub[s].dead /\ UNCHANGED chan
  \/ /\ InChannel(s) < ChanCap
     /\ chan' = [chan EXCEPT ![s].queued = Append(@, seq)]

\* The select of a deliver that an Unsubscribe overtakes finds done and a free
\* channel both ready and takes either.
Deliver(s, seq) ==
  \/ sub[s].dead /\ UNCHANGED chan
  \/ /\ InChannel(s) < ChanCap
     /\ chan' = [chan EXCEPT ![s].queued = Append(@, seq)]
  \/ /\ ~sub[s].dead /\ InChannel(s) >= ChanCap
     /\ chan' = [chan EXCEPT ![s].dropped = @ + 1]

Offer(s, seq) == IF Matches(s, seq) THEN Deliver(s, seq) ELSE UNCHANGED chan

---------------------------------------------------------------------------
(* The publisher: Publish, called by the ingester for each line *)

\* Append on an open store; the ring slot it reuses loses the row Cap older.
PubAppend(k) ==
  /\ pub.pc = "idle" /\ stop # "closed" /\ lines < MaxLines
  /\ rows' = Append(rows, k)
  /\ lines' = lines + 1
  /\ pub' = [pub EXCEPT !.pc = "snapshot", !.seq = head]
  /\ rd' = [s \in Subs |-> IF rd[s].pc \in Resuming
                           THEN [rd[s] EXCEPT !.exposed = @ \union {head, head - Cap}]
                           ELSE rd[s]]
  /\ UNCHANGED <<stop, sub, chan, pump>>

\* Append on a closed store returns 0, and Publish publishes row 0.
PubAppendClosed ==
  /\ pub.pc = "idle" /\ stop = "closed" /\ lines < MaxLines
  /\ lines' = lines + 1
  /\ pub' = [pub EXCEPT !.pc = "snapshot", !.seq = 0]
  /\ UNCHANGED <<rows, stop, rd, sub, chan, pump>>

PubSnapshot ==
  /\ pub.pc = "snapshot"
  /\ pub' = [pub EXCEPT !.pc = "scan", !.todo = {s \in Subs : sub[s].member}]
  /\ UNCHANGED <<store, rd, sub, chan, pump>>

\* Bug variant: the cursor of a paused subscriber advances too.
PubSkipAdvancing(s) ==
  /\ pub.pc = "scan" /\ s \in pub.todo
  /\ sub[s].dead \/ sub[s].paused
  /\ pub' = [pub EXCEPT !.todo = @ \ {s}]
  /\ sub' = [sub EXCEPT ![s].cursor = Larger(@, pub.seq + 1)]
  /\ UNCHANGED <<store, rd, chan, pump>>

PubSkip(s) ==
  /\ pub.pc = "scan" /\ s \in pub.todo
  /\ sub[s].dead \/ sub[s].paused
  /\ pub' = [pub EXCEPT !.todo = @ \ {s}]
  /\ UNCHANGED <<store, rd, sub, chan, pump>>

\* Bug variant: the subscriber stays in the snapshot.
PubPickTwice(s) ==
  /\ pub.pc = "scan" /\ s \in pub.todo
  /\ ~sub[s].dead /\ ~sub[s].paused
  /\ pub' = [pub EXCEPT !.pc = "deliver", !.sub = s]
  /\ UNCHANGED <<store, rd, sub, chan, pump>>

PubPick(s) ==
  /\ pub.pc = "scan" /\ s \in pub.todo
  /\ ~sub[s].dead /\ ~sub[s].paused
  /\ pub' = [pub EXCEPT !.pc = "deliver", !.todo = @ \ {s}, !.sub = s]
  /\ UNCHANGED <<store, rd, sub, chan, pump>>

PubDeliver ==
  /\ pub.pc = "deliver"
  /\ Offer(pub.sub, pub.seq)
  /\ pub' = [pub EXCEPT !.pc = "advance"]
  /\ UNCHANGED <<store, rd, sub, pump>>

PubAdvance ==
  /\ pub.pc = "advance"
  /\ sub' = [sub EXCEPT ![pub.sub].cursor = Larger(@, pub.seq + 1)]
  /\ pub' = [pub EXCEPT !.pc = "scan", !.sub = NoSub]
  /\ UNCHANGED <<store, rd, chan, pump>>

PubDone ==
  /\ pub.pc = "scan" /\ pub.todo = {}
  /\ pub' = [pub EXCEPT !.pc = "idle", !.seq = 0]
  /\ UNCHANGED <<store, rd, sub, chan, pump>>

\* The ingester's select may still take a line after the cancel, or leave.
IngesterExit ==
  /\ pub.pc = "idle" /\ stop # "no"
  /\ pub' = [pub EXCEPT !.pc = "exited"]
  /\ UNCHANGED <<store, rd, sub, chan, pump>>

Publisher ==
  \/ PubSnapshot
  \/ \E s \in Subs : PubSkip(s) \/ PubPick(s)
  \/ PubDeliver \/ PubAdvance \/ PubDone

---------------------------------------------------------------------------
(* The session read loop, one message at a time *)

Enter(s, pc) == rd' = [rd EXCEPT ![s].pc = pc]

\* Bug variant: "from now" starts at the last row, which an empty store lacks.
SubscribeFromLast(s, f, from) ==
  /\ rd[s].pc = "new"
  /\ sub' = [sub EXCEPT ![s].filter = f,
                        ![s].cursor = IF from = 0 THEN head - 1 ELSE from]
  /\ Enter(s, "joining")
  /\ UNCHANGED <<store, pub, chan, pump>>

\* Subscribe reads head, then registers under subMu.
SubscribeRead(s, f, from) ==
  /\ rd[s].pc = "new"
  /\ sub' = [sub EXCEPT ![s].filter = f,
                        ![s].cursor = IF from = 0 THEN head ELSE from]
  /\ Enter(s, "joining")
  /\ UNCHANGED <<store, pub, chan, pump>>

SubscribeJoin(s) ==
  /\ rd[s].pc = "joining"
  /\ sub' = [sub EXCEPT ![s].member = TRUE]
  /\ rd' = [rd EXCEPT ![s].pc = IF HistoryN > 0 THEN "queryHead" ELSE "starting",
                      ![s].epoch = Larger(head, sub[s].cursor)]
  /\ UNCHANGED <<store, pub, chan, pump>>

\* Bug variant: head taken for the last row instead of the next one.
QueryHeadShort(s) ==
  /\ rd[s].pc = "queryHead"
  /\ rd' = [rd EXCEPT ![s].pc = "queryTail", ![s].head = Larger(0, head - 1)]
  /\ UNCHANGED <<store, pub, sub, chan, pump>>

\* queryBacklog reads head, then tail, scans, and sendEntries materializes.
\* A row overwritten in between is left out by Materialize, as it would be by
\* a scan that starts where the send does, so the last three are one step.
QueryHead(s) ==
  /\ rd[s].pc = "queryHead"
  /\ rd' = [rd EXCEPT ![s].pc = "queryTail", ![s].head = head]
  /\ UNCHANGED <<store, pub, sub, chan, pump>>

\* A subscription without history is refilled to a default depth, which the
\* ring of an instance never exceeds.
BacklogDepth == IF HistoryN > 0 THEN HistoryN ELSE Cap

SendBacklog(s) ==
  /\ rd[s].pc = "queryTail"
  /\ rd' = [rd EXCEPT
       ![s].pc = IF pump[s].pc = "off" THEN "starting" ELSE "ready",
       ![s].head = 0,
       ![s].backlog = LastOf({c \in tail..(rd[s].head - 1) : Matches(s, c)},
                             BacklogDepth)]
  /\ UNCHANGED <<store, pub, sub, chan, pump>>

StartPump(s) ==
  /\ rd[s].pc = "starting"
  /\ Enter(s, "ready")
  /\ pump' = [pump EXCEPT ![s].pc = "spawned"]
  /\ UNCHANGED <<store, pub, sub, chan>>

UpdateFilter(s, f) ==
  /\ rd[s].pc = "ready" /\ "filter" \in Ops
  /\ sub' = [sub EXCEPT ![s].filter = f]
  /\ rd' = [rd EXCEPT ![s].pc = "queryHead", ![s].epoch = Larger(head, sub[s].cursor),
                      ![s].backlog = {}]
  /\ UNCHANGED <<store, pub, chan, pump>>

Pause(s) ==
  /\ rd[s].pc = "ready" /\ "pause" \in Ops
  /\ sub' = [sub EXCEPT ![s].paused = TRUE]
  /\ UNCHANGED <<store, pub, rd, chan, pump>>

\* Resume does not test that the subscription is paused: the web client sends
\* a resume without a pause on a page that was opened paused.
ResumeCursor(s) ==
  /\ rd[s].pc = "ready" /\ "resume" \in Ops
  /\ rd' = [rd EXCEPT
       ![s].pc = "resumeHead", ![s].next = sub[s].cursor,
       ![s].exposed = IF pub.pc = "idle" THEN @ ELSE @ \union {pub.seq}]
  /\ UNCHANGED <<store, pub, sub, chan, pump>>

ResumeHead(s) ==
  /\ rd[s].pc = "resumeHead"
  /\ rd' = [rd EXCEPT ![s].pc = "resumeTail", ![s].head = head]
  /\ UNCHANGED <<store, pub, sub, chan, pump>>

ResumeTail(s) ==
  /\ rd[s].pc = "resumeTail"
  /\ chan' = [chan EXCEPT ![s].dropped = @ + Larger(0, tail - rd[s].next)]
  /\ rd' = [rd EXCEPT ![s].pc = "walk", ![s].next = Larger(@, tail)]
  /\ UNCHANGED <<store, pub, sub, pump>>

ResumeWalk(s) ==
  /\ rd[s].pc = "walk" /\ rd[s].next < rd[s].head
  /\ Offer(s, rd[s].next)
  /\ rd' = [rd EXCEPT ![s].next = @ + 1]
  /\ UNCHANGED <<store, pub, sub, pump>>

\* Bug variant: the cursor is not moved past the walked rows.
ResumeForgets(s) ==
  /\ rd[s].pc = "walk" /\ rd[s].next >= rd[s].head
  /\ rd' = [rd EXCEPT ![s].pc = "unpause", ![s].next = 0, ![s].head = 0]
  /\ UNCHANGED <<store, pub, sub, chan, pump>>

ResumeCatchUp(s) ==
  /\ rd[s].pc = "walk" /\ rd[s].next >= rd[s].head
  /\ sub' = [sub EXCEPT ![s].cursor = Larger(@, rd[s].head)]
  /\ rd' = [rd EXCEPT ![s].pc = "unpause", ![s].next = 0, ![s].head = 0]
  /\ UNCHANGED <<store, pub, chan, pump>>

ResumeUnpause(s) ==
  /\ rd[s].pc = "unpause"
  /\ Enter(s, "ready")
  /\ sub' = [sub EXCEPT ![s].paused = FALSE]
  /\ UNCHANGED <<store, pub, chan, pump>>

\* Unsubscribe, on the client's message or by cleanup when the session ends.
Unsubscribe(s) ==
  /\ rd[s].pc = "ready" /\ "unsubscribe" \in Ops
  /\ Enter(s, "leaving")
  /\ sub' = [sub EXCEPT ![s].member = FALSE]
  /\ UNCHANGED <<store, pub, chan, pump>>

CloseDone(s) ==
  /\ rd[s].pc = "leaving"
  /\ Enter(s, "gone")
  /\ sub' = [sub EXCEPT ![s].dead = TRUE]
  /\ UNCHANGED <<store, pub, chan, pump>>

\* The rest of a handler once its message has been read.
Handler(s) ==
  \/ SubscribeJoin(s) \/ QueryHead(s) \/ SendBacklog(s) \/ StartPump(s)
  \/ ResumeHead(s) \/ ResumeTail(s) \/ ResumeWalk(s) \/ ResumeCatchUp(s)
  \/ ResumeUnpause(s) \/ CloseDone(s)

---------------------------------------------------------------------------
(* The pump of a subscription *)

\* Its goroutine looks the channels up; a subscription cancelled before it ran
\* has none.
PumpStart(s) ==
  /\ pump[s].pc = "spawned"
  /\ pump' = [pump EXCEPT ![s].pc = IF sub[s].member THEN "run" ELSE "stopped"]
  /\ UNCHANGED <<store, pub, rd, sub, chan>>

PumpTake(s) ==
  /\ pump[s].pc \in {"run", "drain"}
  /\ InChannel(s) > 0 /\ InBatch(s) < BatchSize
  /\ pump' = [pump EXCEPT ![s].taken = @ + 1]
  /\ UNCHANGED <<store, pub, rd, sub, chan>>

\* What TakeDropped returns: a cancelled subscription is looked up in vain.
Gap(s) == IF sub[s].member THEN chan[s].dropped ELSE 0

\* flush: the gap is taken, then the batch is materialized and written.
Flush(s, pc) ==
  /\ pump' = [pump EXCEPT
       ![s].pc = pc,
       ![s].sent = pump[s].taken,
       ![s].gapped = @ + Gap(s),
       ![s].lost = @ \union
         {seq \in {chan[s].queued[i] : i \in (pump[s].sent + 1)..pump[s].taken} :
            ~Live(seq)}]
  /\ chan' = [chan EXCEPT ![s].dropped = @ - Gap(s)]
  /\ UNCHANGED <<store, pub, rd, sub>>

\* Bug variant: no ticker, only full batches are flushed.
PumpFlushFull(s) ==
  /\ InBatch(s) >= BatchSize
  /\ Flush(s, pump[s].pc)

PumpFlush(s) ==
  /\ \/ pump[s].pc = "run" /\ (InBatch(s) > 0 \/ Gap(s) > 0)
     \/ pump[s].pc = "drain" /\ InBatch(s) >= BatchSize
  /\ Flush(s, pump[s].pc)

\* done is closed: what is still in the channel is abandoned.
PumpCancelled(s) ==
  /\ pump[s].pc = "run" /\ sub[s].dead
  /\ Flush(s, "stopped")

PumpDrain(s) ==
  /\ pump[s].pc = "run" /\ stop # "no"
  /\ pump' = [pump EXCEPT ![s].pc = "drain"]
  /\ UNCHANGED <<store, pub, rd, sub, chan>>

\* Bug variant: the drain waits for one more row.
PumpDrainedWaiting(s) ==
  /\ pump[s].pc = "drain" /\ InChannel(s) > 0 /\ InBatch(s) >= BatchSize
  /\ Flush(s, "stopped")

PumpDrained(s) ==
  /\ pump[s].pc = "drain" /\ InChannel(s) = 0 /\ InBatch(s) < BatchSize
  /\ Flush(s, "stopped")

PumpStop(s) == PumpCancelled(s) \/ PumpDrain(s) \/ PumpDrained(s)

Pump(s) == PumpStart(s) \/ PumpTake(s) \/ PumpFlush(s) \/ PumpStop(s)

---------------------------------------------------------------------------
Shutdown ==
  /\ stop = "no" /\ "shutdown" \in Ops
  /\ stop' = "cancelled"
  /\ UNCHANGED <<rows, lines, pub, rd, sub, chan, pump>>

CloseStore ==
  /\ stop = "cancelled"
  /\ stop' = "closed"
  /\ UNCHANGED <<rows, lines, pub, rd, sub, chan, pump>>

Next ==
  \/ \E k \in Kinds : PubAppend(k)
  \/ PubAppendClosed
  \/ Publisher
  \/ IngesterExit
  \/ \E s \in Subs :
       \/ \E f \in Filters : \E from \in FromSeqs : SubscribeRead(s, f, from)
       \/ \E f \in Filters : UpdateFilter(s, f)
       \/ Pause(s) \/ ResumeCursor(s) \/ Unsubscribe(s)
       \/ Handler(s)
       \/ Pump(s)
  \/ Shutdown \/ CloseStore

Spec == Init /\ [][Next]_vars

\* Goroutines are scheduled, a handler that was started runs on, the Go select
\* picks a ready case sooner or later, and the client reads its frames.
Fairness ==
  /\ WF_vars(Publisher)
  /\ \A s \in Subs :
       /\ WF_vars(Handler(s))
       /\ WF_vars(PumpStart(s)) /\ WF_vars(PumpTake(s))
       /\ WF_vars(PumpFlush(s)) /\ WF_vars(PumpStop(s))

FairSpec == Spec /\ Fairness

---------------------------------------------------------------------------
(* What must hold *)

ReaderState == [pc : ReaderPcs, next : Nat, head : Nat, backlog : SUBSET Nat,
                epoch : Nat, exposed : SUBSET Int]
SubState    == [member : BOOLEAN, dead : BOOLEAN, paused : BOOLEAN, cursor : Nat,
                filter : SUBSET (Kinds \union {Gone})]
ChanState   == [queued : Seq(Nat), dropped : Nat]
PumpState   == [pc : PumpPcs, taken : Nat, sent : Nat, gapped : Nat,
                lost : SUBSET Nat]

\* The types of the variables (Store, Subscriber and the handlers' locals).
TypeOK ==
  /\ rows \in Seq(Kinds) /\ lines \in Nat /\ stop \in {"no", "cancelled", "closed"}
  /\ pub \in [pc : PubPcs, seq : Nat, todo : SUBSET Subs, sub : Subs \union {NoSub}]
  /\ rd \in [Subs -> ReaderState]
  /\ sub \in [Subs -> SubState]
  /\ chan \in [Subs -> ChanState]
  /\ pump \in [Subs -> PumpState]

Queued(s) == {chan[s].queued[i] : i \in 1..Len(chan[s].queued)}

Announced(s) == chan[s].dropped + pump[s].gapped

Active == {s \in Subs : rd[s].pc \notin {"new", "joining", "leaving", "gone"}}

\* Rows from `first` on that the subscriber's filter accepts and that its cursor
\* says are done with.
Due(s, first) ==
  {c \in 0..(head - 1) :
     first <= c /\ c < sub[s].cursor /\ rows[c + 1] \in sub[s].filter}

\* publish and deliver: "subscribers observe rows in seq order", none twice.
LiveOrder ==
  \A s \in Subs : \A i, j \in 1..Len(chan[s].queued) :
    i < j => chan[s].queued[i] < chan[s].queued[j]

\* No row that matched and that the cursor has passed is missing without having
\* been counted as dropped: the whole point of the cursor, of the gap counter
\* and of the re-walk that Pause promises.
NoSilentDrop ==
  \A s \in Active : Cardinality(Due(s, rd[s].epoch) \ Queued(s)) <= Announced(s)

\* handleSubscribe and handleUpdateFilter register first and query the backlog
\* afterwards: between the oldest row of the backlog and the cursor no matching
\* row is in neither of the two.
BacklogSeam ==
  \A s \in Active : \A first \in rd[s].backlog :
    Cardinality(Due(s, first) \ (Queued(s) \union rd[s].backlog)) <= Announced(s)

\* Pausing and resuming loses only rows whose publication or overwriting
\* overlapped a Resume.
OnlyExposedRowsVanish ==
  \A s \in Active :
    Cardinality((Due(s, rd[s].epoch) \ Queued(s)) \ rd[s].exposed) <= Announced(s)

\* Only such rows are delivered twice or out of order, and row 0, which a
\* publish on a closed store announces again.
OnlyExposedRowsJump ==
  \A s \in Subs : \A i, j \in 1..Len(chan[s].queued) :
    LET earlier == chan[s].queued[i]
        later   == chan[s].queued[j]
    IN  i < j /\ earlier >= later =>
          \/ {earlier, later} \intersect rd[s].exposed # {}
          \/ stop = "closed" /\ later = 0

\* A publish returns whatever the pumps and the clients do: deliver never blocks
\* the ingester.
PublishReturns == pub.pc = "snapshot" ~> pub.pc = "idle"

\* A row in the channel reaches the client, unless its pump has stopped.
QueuedIsSent ==
  \A s \in Subs : \A n \in 1..MaxLines :
    Len(chan[s].queued) >= n ~> pump[s].sent >= n \/ pump[s].pc = "stopped"

\* Every pump ends once its subscription is cancelled or the server stops.
PumpsEnd ==
  \A s \in Subs :
    pump[s].pc = "run" /\ (sub[s].dead \/ stop # "no") ~> pump[s].pc = "stopped"

---------------------------------------------------------------------------
(* The abstract specification *)

\* The row the publisher holds out to a subscriber, until it has decided.
Offered(s) == IF pub.pc = "deliver" /\ pub.sub = s THEN {pub.seq} ELSE {}

LT == INSTANCE LiveTail WITH
  Seqs       <- 0..MaxLines,
  offered    <- [s \in Subs |-> Offered(s)],
  wanted     <- [s \in Subs |-> {seq \in Offered(s) : Matches(s, seq)}],
  accepted   <- [s \in Subs |-> chan[s].queued],
  taken      <- [s \in Subs |-> pump[s].taken],
  shown      <- [s \in Subs |-> pump[s].sent],
  missed     <- [s \in Subs |-> chan[s].dropped],
  announced  <- [s \in Subs |-> pump[s].gapped],
  registered <- {s \in Subs : sub[s].member},
  left       <- {s \in Subs : sub[s].dead}

\* The live tail as its clients see it is the channel of LiveTail: no wanted row
\* it is offered goes uncounted, and none is refused while the channel has room.
TailSpec == LT!Spec
=============================================================================
