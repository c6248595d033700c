------------------------------ MODULE FileTail ------------------------------
(***************************************************************************)
(* The file source: the goroutine that reads a file from the start and     *)
(* follows it by polling stat, against a program that appends to the file, *)
(* truncates it or moves it away, and a server that closes the source.     *)
(*                                                                         *)
(* A byte is a number that tells it from every other byte written, or      *)
(* Newline.  disk holds every file the path has ever named, so a reader    *)
(* that keeps a renamed file open still reads it.  A step of the reader is *)
(* one system call, one send or one test of closed; lines go to ingest,    *)
(* the channel all sources of the server share.                            *)
(***************************************************************************)
EXTENDS Integers, Sequences, FiniteSets, SequencesExt

CONSTANTS
  File,      \* the id of the source
  Shapes,    \* what one write appends: sequences of "is a newline"
  ChanCap,   \* capacity of the ingest channel
  FileOps,   \* what else happens to the file: "truncate", "rotate"
  MaxBytes,  \* bound: text bytes written
  MaxSize,   \* bound: bytes in a file
  MaxCuts,   \* bound: truncations and rotations
  MaxRewinds \* bound: times the reader starts again

VARIABLES
  disk,     \* the files, oldest first, each a sequence of bytes
  path,     \* which of them the path names, 0 when it names none
  written,  \* number of text bytes written so far
  cuts,     \* number of truncations and rotations so far
  rd,       \* the reader: its open file, bufio buffer, offset and pos
  closed,   \* Source.closed
  gone,     \* the source's context is cancelled (RemoveSource)
  down,     \* the server's context is cancelled (Shutdown)
  ingest    \* Server.ingest

fileVars == <<disk, path, written, cuts, rd, closed, gone, down, ingest>>

Newline == 0
HasLine(bytes) == \E i \in DOMAIN bytes : bytes[i] = Newline
LineEnd(bytes) == SelectInSeq(bytes, LAMBDA b : b = Newline)
Size(f) == Len(disk[f])
Cancelled == gone \/ down

Reader ==
  [pc : {"open", "top", "read", "send", "poll", "done"}, file : Nat, off : Nat,
   buf : Seq(Nat), line : Seq(Nat), eof : BOOLEAN, pos : Nat, rewinds : 0 .. MaxRewinds]

TypeOK ==
  /\ disk \in Seq(Seq(0 .. MaxBytes)) /\ path \in 0 .. Len(disk)
  /\ written \in 0 .. MaxBytes /\ cuts \in 0 .. MaxCuts
  /\ rd \in Reader /\ rd.file \in 0 .. Len(disk)
  /\ closed \in BOOLEAN /\ gone \in BOOLEAN /\ down \in BOOLEAN
  /\ Len(ingest) <= ChanCap

Init ==
  /\ disk = << <<>> >> /\ path = 1 /\ written = 0 /\ cuts = 0
  /\ rd = [pc |-> "open", file |-> 0, off |-> 0, buf |-> <<>>, line |-> <<>>,
           eof |-> FALSE, pos |-> 0, rewinds |-> 0]
  /\ closed = FALSE /\ gone = FALSE

-----------------------------------------------------------------------------
(* The reader: Run and waitForGrowth.                                      *)

Open ==
  /\ rd.pc = "open"
  /\ rd' = IF path = 0 THEN [rd EXCEPT !.pc = "done"]
                       ELSE [rd EXCEPT !.pc = "top", !.file = path]
  /\ UNCHANGED <<disk, path, written, cuts, closed, gone, down, ingest>>

\* The head of the loop: closed ends Run, whatever the buffer still holds.
Top ==
  /\ rd.pc = "top"
  /\ rd' = [rd EXCEPT !.pc = IF closed THEN "done" ELSE "read"]
  /\ UNCHANGED <<disk, path, written, cuts, closed, gone, down, ingest>>

\* bufio fills its buffer with everything from the offset on.
Fill ==
  /\ rd.pc = "read" /\ ~HasLine(rd.buf) /\ rd.off < Size(rd.file)
  /\ rd' = [rd EXCEPT !.buf = @ \o SubSeq(disk[rd.file], rd.off + 1, Size(rd.file)),
                      !.off = Size(rd.file)]
  /\ UNCHANGED <<disk, path, written, cuts, closed, gone, down, ingest>>

TakeLine ==
  /\ rd.pc = "read" /\ HasLine(rd.buf)
  /\ LET n == LineEnd(rd.buf) IN
       rd' = [rd EXCEPT !.pc = "send", !.line = SubSeq(rd.buf, 1, n - 1),
                        !.buf = SubSeq(@, n + 1, Len(@)), !.eof = FALSE]
  /\ UNCHANGED <<disk, path, written, cuts, closed, gone, down, ingest>>

\* End of file: what is there is a line too, when it is not empty.
TakeRest ==
  /\ rd.pc = "read" /\ ~HasLine(rd.buf) /\ rd.off >= Size(rd.file)
  /\ rd' = IF rd.buf = <<>>
             THEN [rd EXCEPT !.pc = "poll"]
             ELSE [rd EXCEPT !.pc = "send", !.line = rd.buf, !.buf = <<>>, !.eof = TRUE]
  /\ UNCHANGED <<disk, path, written, cuts, closed, gone, down, ingest>>

\* Bug variant: two more bytes for the newline.
AdvanceLong(line) == Len(line) + 2

\* One more byte than the line has, for the newline it ended in.
Advance(line) == Len(line) + 1

Send ==
  /\ rd.pc = "send" /\ Len(ingest) < ChanCap
  /\ ingest' = Append(ingest, [src |-> File, bytes |-> rd.line])
  /\ rd' = [rd EXCEPT !.pc = IF rd.eof THEN "poll" ELSE "top",
                      !.line = <<>>, !.eof = FALSE, !.pos = @ + Advance(rd.line)]
  /\ UNCHANGED <<disk, path, written, cuts, closed, gone, down>>

\* Bug variant: only the wait looks at the context.
GiveUpWaiting ==
  /\ rd.pc = "poll" /\ Cancelled
  /\ rd' = [rd EXCEPT !.pc = "done"]
  /\ UNCHANGED <<disk, path, written, cuts, closed, gone, down, ingest>>

\* The context ends a send and a wait.
GiveUp ==
  /\ rd.pc \in {"send", "poll"} /\ Cancelled
  /\ rd' = [rd EXCEPT !.pc = "done"]
  /\ UNCHANGED <<disk, path, written, cuts, closed, gone, down, ingest>>

\* Bug variants: a file of the size read so far counts as truncated; only an
\* empty file does.
ShrunkOrSame(size, pos) == size <= pos
ShrunkToNothing(size, pos) == size = 0

\* The sizes that end the wait; the first of them also rewinds.
Shrunk(size, pos) == size < pos
Grown(size, pos) == size > pos

\* One tick.  The reader seeks in the file it has open, whatever the path names.
\* A return from the wait ends in r.Reset; the buffer is empty by then.
Poll ==
  /\ rd.pc = "poll"
  /\ \/ /\ closed
        /\ rd' = [rd EXCEPT !.pc = "top", !.buf = <<>>]
     \/ /\ ~closed /\ path # 0 /\ Shrunk(Size(path), rd.pos)
        /\ rd.rewinds < MaxRewinds
        /\ rd' = [rd EXCEPT !.pc = "top", !.buf = <<>>, !.off = 0, !.pos = 0,
                            !.rewinds = @ + 1]
     \/ /\ ~closed /\ path # 0 /\ Grown(Size(path), rd.pos)
        /\ rd' = [rd EXCEPT !.pc = "top", !.buf = <<>>]
  /\ UNCHANGED <<disk, path, written, cuts, closed, gone, down, ingest>>

Read == Open \/ Top \/ Fill \/ TakeLine \/ TakeRest \/ Send \/ GiveUp \/ Poll

-----------------------------------------------------------------------------
(* The program that writes the file, and the server.                       *)

\* The bytes of a write: its text is numbered on from n.
Text(shape) == Cardinality({i \in DOMAIN shape : ~shape[i]})
Bytes(shape, n) ==
  [i \in DOMAIN shape |-> IF shape[i] THEN Newline ELSE n + Text(SubSeq(shape, 1, i))]

WriteFile ==
  /\ path # 0
  /\ \E shape \in Shapes :
       /\ written + Text(shape) <= MaxBytes
       /\ Size(path) + Len(shape) <= MaxSize
       /\ disk' = [disk EXCEPT ![path] = @ \o Bytes(shape, written)]
       /\ written' = written + Text(shape)
  /\ UNCHANGED <<path, cuts, rd, closed, gone, down, ingest>>

Truncate ==
  /\ "truncate" \in FileOps /\ path # 0 /\ cuts < MaxCuts
  /\ disk' = [disk EXCEPT ![path] = <<>>] /\ cuts' = cuts + 1
  /\ UNCHANGED <<path, written, rd, closed, gone, down, ingest>>

MoveAway ==
  /\ "rotate" \in FileOps /\ path # 0 /\ cuts < MaxCuts
  /\ path' = 0 /\ cuts' = cuts + 1
  /\ UNCHANGED <<disk, written, rd, closed, gone, down, ingest>>

Create ==
  /\ path = 0
  /\ disk' = Append(disk, <<>>) /\ path' = Len(disk) + 1
  /\ UNCHANGED <<written, cuts, rd, closed, gone, down, ingest>>

\* RemoveSource closes the source, then cancels its context.
Close ==
  /\ ~closed /\ closed' = TRUE
  /\ UNCHANGED <<disk, path, written, cuts, rd, gone, down, ingest>>

Cancel ==
  /\ closed /\ ~gone /\ gone' = TRUE
  /\ UNCHANGED <<disk, path, written, cuts, rd, closed, down, ingest>>

Next == Read \/ WriteFile \/ Truncate \/ MoveAway \/ Create \/ Close \/ Cancel

=============================================================================
