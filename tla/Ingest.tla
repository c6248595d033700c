------------------------------- MODULE Ingest -------------------------------
(***************************************************************************)
(* From the sources to the store: a file source and a stdin source send    *)
(* lines into one bounded channel, and the ingester, a single goroutine,   *)
(* takes them out and publishes them.  The server's context ends the       *)
(* ingester, the file's reader and the stdin's goroutine, each when it     *)
(* next looks.  What Publish does with a line is LogHub and RowStore; here *)
(* a published line is the next of stored.                                 *)
(***************************************************************************)
EXTENDS Integers, Sequences, FiniteSets, SequencesExt

CONSTANTS Attachments,  \* sets of sources to start with
          File, Stdin, Shapes, Chunks, ChanCap, FileOps,
          MaxBytes, MaxSize, MaxCuts, MaxRewinds, MaxPushed

ASSUME IngestAssumption ==
  /\ ChanCap \in Nat \ {0} /\ Attachments \subseteq SUBSET {File, Stdin} /\ File # Stdin
  /\ {MaxBytes, MaxSize, MaxCuts, MaxRewinds, MaxPushed} \subseteq Nat
  /\ Shapes \cup Chunks \subseteq Seq(BOOLEAN) /\ FileOps \subseteq {"truncate", "rotate"}

VARIABLES disk, path, written, cuts, rd, closed, gone,
          buf, notify, shut, run, pushed, eofSent, pushing, removal,
          down, ingest,
          attached,    \* the sources that were added
          ingesting,   \* the ingester has not returned
          stored       \* lines published, oldest first

F == INSTANCE FileTail
P == INSTANCE StdinPipe

fileOnly == <<disk, path, written, cuts, rd, closed, gone>>
pipeOnly == <<buf, notify, shut, run, pushed, eofSent, pushing, removal>>
server   == <<down, attached, ingesting, stored>>
vars     == <<fileOnly, pipeOnly, server, ingest>>

Init ==
  /\ attached \in Attachments
  /\ F!Init /\ P!Init
  /\ down = FALSE /\ ingest = <<>> /\ ingesting = TRUE /\ stored = <<>>

FileStep == File \in attached /\ F!Next /\ UNCHANGED <<pipeOnly, attached, ingesting, stored>>
PipeStep == Stdin \in attached /\ P!Next /\ UNCHANGED <<fileOnly, attached, ingesting, stored>>

Ingester ==
  /\ ingesting /\ ingest # <<>>
  /\ stored' = Append(stored, Head(ingest)) /\ ingest' = Tail(ingest)
  /\ UNCHANGED <<fileOnly, pipeOnly, down, attached, ingesting>>

IngesterEnds ==
  /\ ingesting /\ down /\ ingesting' = FALSE
  /\ UNCHANGED <<fileOnly, pipeOnly, down, attached, ingest, stored>>

Shutdown ==
  /\ ~down /\ down' = TRUE
  /\ UNCHANGED <<fileOnly, pipeOnly, attached, ingesting, stored, ingest>>

Next == FileStep \/ PipeStep \/ Ingester \/ IngesterEnds \/ Shutdown

\* Goroutines run.  The writer of the file, the client and whoever removes a
\* source or shuts the server down need not do anything; what they began, they
\* finish.  A select that finds its context done every time it looks takes it: a
\* poll that returns at once, round after round, does not outrun the end.
Fairness ==
  /\ WF_vars(F!Read /\ FileStep) /\ SF_vars(F!GiveUp /\ FileStep)
  /\ WF_vars(P!Run /\ PipeStep)
  /\ WF_vars(P!PushNotify /\ PipeStep)
  /\ WF_vars((P!RemoveNotify \/ P!RemoveCancel) /\ PipeStep)
  /\ WF_vars(Ingester) /\ WF_vars(IngesterEnds)

Spec == Init /\ [][Next]_vars /\ Fairness

-----------------------------------------------------------------------------
(* What the ingestion of lines must do.                                    *)

TypeOK ==
  /\ F!TypeOK /\ P!TypeOK
  /\ down \in BOOLEAN /\ ingesting \in BOOLEAN
  /\ \A i \in DOMAIN ingest : ingest[i].src \in {File, Stdin}

\* The k-th of a set of positions.
Nth(positions, k) == Min({i \in positions : Cardinality(positions \cap 1 .. i) = k})

\* The lines of a source among rows, in order.
From(src, rows) ==
  LET mine == {i \in DOMAIN rows : rows[i].src = src}
  IN [k \in 1 .. Cardinality(mine) |-> rows[Nth(mine, k)].bytes]

\* The line that ends at e, the place of a newline; and the lines that end there.
LineBegin(bytes, e) == Min({b \in 1 .. e : \A i \in b .. e - 1 : bytes[i] # F!Newline})
Line(bytes, e)      == SubSeq(bytes, LineBegin(bytes, e), e - 1)
Lines(bytes, ends)  == [k \in 1 .. Cardinality(ends) |-> Line(bytes, Nth(ends, k))]

\* The lines that bytes hold, each without its newline; and those that are not empty.
Newlines(bytes) == {i \in DOMAIN bytes : bytes[i] = F!Newline}
LinesOf(bytes)  == Lines(bytes, Newlines(bytes))
NotEmptyLinesOf(bytes) ==
  Lines(bytes, {i \in Newlines(bytes) : i > 1 /\ bytes[i - 1] # F!Newline})

Read(src) == From(src, stored \o ingest)

\* Byte after byte and line after line, the numbers rise.
InOrder(lines) ==
  \A k, l \in DOMAIN lines : \A i \in DOMAIN lines[k], j \in DOMAIN lines[l] :
    (k < l \/ (k = l /\ i < j)) => lines[k][i] < lines[l][j]

\* No byte of a file is read a second time, and none after a later one, also when
\* the file is truncated and written anew while lines are in the buffer, as long
\* as it is not moved away (file.go, Run and waitForGrowth: pos against the size).
ReadOnce == path = 1 => InOrder(Read(File))

\* Until a file is cut, what was read of it is its first lines, whole: growth that
\* arrives between the end of file, the poll and the reset of the buffer costs
\* nothing (file.go:68-72).
FollowsFile == cuts = 0 => IsPrefix(Read(File), LinesOf(disk[1]))

\* A line that a client sends in parts arrives whole, once and in order, however
\* its pushes fall between the holds of the mutex (stdin.go, Push against Run).
JoinsParts == IsPrefix(Read(Stdin), NotEmptyLinesOf(pushed))

\* A stdin source that ends by itself, at the end of its input, has handed on all
\* it was given (stdin.go:36: "close after the buffer drains").
EndsDrained ==
  (run.pc = "done" /\ eofSent /\ removal = "no" /\ ~down) =>
    buf = <<>> /\ Read(Stdin) = NotEmptyLinesOf(pushed)

\* What was appended to a file, and what was pushed, is published in the end,
\* unless the source is removed, the server stops or the file is cut: no wake-up
\* is lost, and a full channel only delays (stdin.go:47-50, file.go:102).
ArrivesInTheEnd ==
  /\ <>[](down \/ closed \/ cuts > 0 \/ From(File, stored) = LinesOf(disk[1]))
  /\ <>[](down \/ removal # "no" \/ From(Stdin, stored) = NotEmptyLinesOf(pushed))

\* A file that is shorter than what was read of it does not stay so unnoticed: the
\* reader starts again from its first byte (file.go:95-101).
NoticesTruncation ==
  []<>(down \/ closed \/ path # 1 \/ Len(disk[1]) >= rd.pos)

\* The goroutine of a removed source returns, and at shutdown both do, whether it
\* waits for input or for a place in a channel nobody empties any more
\* (file.go:54-58, 85; stdin.go:78-82, 91).
SourcesReturn ==
  /\ (gone \/ (down /\ File \in attached)) ~> rd.pc = "done"
  /\ (removal = "cancelled" \/ (down /\ Stdin \in attached)) ~> run.pc = "done"

=============================================================================
