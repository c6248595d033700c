----------------------------- MODULE StdinPipe -----------------------------
(***************************************************************************)
(* The stdin source: a session pushes chunks of bytes from its client, the *)
(* goroutine of the source cuts them into lines.  Push and the cutting     *)
(* share a mutex; notify, a channel of capacity one, wakes the goroutine.  *)
(* A chunk ends anywhere, so that a line may arrive in parts.  Bytes are   *)
(* as in FileTail.                                                         *)
(***************************************************************************)
EXTENDS Integers, Sequences, SequencesExt

CONSTANTS
  Stdin,       \* the id of the source
  Chunks,      \* what one push brings: sequences of "is a newline"
  ChanCap,     \* capacity of the ingest channel
  MaxPushed    \* bound: bytes pushed

VARIABLES
  buf,         \* Source.buf
  notify,      \* Source.notify holds a token
  shut,        \* Source.closed
  run,         \* the goroutine: [pc, line]
  pushed,      \* history: every byte pushed
  eofSent,     \* the client has sent its last frame, or its session has ended
  pushing,     \* a Push has unlocked and not yet notified
  removal,     \* how far RemoveSource has come: Close, its token, the context
  down,        \* the server's context is cancelled (Shutdown)
  ingest       \* Server.ingest

Newline == 0
HasLine(bytes) == \E i \in DOMAIN bytes : bytes[i] = Newline
LineEnd(bytes) == SelectInSeq(bytes, LAMBDA b : b = Newline)

TypeOK ==
  /\ buf \in Seq(0 .. MaxPushed) /\ pushed \in Seq(0 .. MaxPushed)
  /\ run \in [pc : {"cut", "send", "idle", "wait", "done"}, line : Seq(1 .. MaxPushed)]
  /\ notify \in BOOLEAN /\ shut \in BOOLEAN /\ eofSent \in BOOLEAN
  /\ pushing \in BOOLEAN /\ removal \in {"no", "closing", "closed", "cancelled"}

Init ==
  /\ buf = <<>> /\ notify = FALSE /\ shut = FALSE
  /\ run = [pc |-> "cut", line |-> <<>>]
  /\ pushed = <<>> /\ eofSent = FALSE /\ pushing = FALSE /\ removal = "no"

-----------------------------------------------------------------------------
(* The session: Push, and RemoveSource.                                    *)

\* A byte is numbered by its place in the stream.
Arrive(chunk) ==
  [i \in DOMAIN chunk |-> IF chunk[i] THEN Newline ELSE Len(pushed) + i]

\* The part of Push under the mutex.  The last push may bring no bytes: that is
\* also what a session does that ends and finds the source still open.
Push ==
  /\ ~eofSent /\ ~pushing
  /\ \E chunk \in Chunks \cup { <<>> }, eof \in BOOLEAN :
       /\ chunk # <<>> \/ eof
       /\ Len(pushed) + Len(chunk) <= MaxPushed
       /\ buf' = buf \o Arrive(chunk) /\ pushed' = pushed \o Arrive(chunk)
       /\ shut' = (shut \/ eof) /\ eofSent' = eof
  /\ pushing' = TRUE
  /\ UNCHANGED <<notify, run, removal, down, ingest>>

\* Bug variant: notify without capacity, so that only a waiting goroutine hears.
PushNotifyUnheard ==
  /\ pushing /\ pushing' = FALSE /\ notify' = (notify \/ run.pc = "wait")
  /\ UNCHANGED <<buf, shut, run, pushed, eofSent, removal, down, ingest>>

\* A token that is already there is enough.
PushNotify ==
  /\ pushing /\ pushing' = FALSE /\ notify' = TRUE
  /\ UNCHANGED <<buf, shut, run, pushed, eofSent, removal, down, ingest>>

\* RemoveSource, in another goroutine: closed, a token, the context.
RemoveClose ==
  /\ removal = "no" /\ removal' = "closing" /\ shut' = TRUE
  /\ UNCHANGED <<buf, notify, run, pushed, eofSent, pushing, down, ingest>>

RemoveNotify ==
  /\ removal = "closing" /\ removal' = "closed" /\ notify' = TRUE
  /\ UNCHANGED <<buf, shut, run, pushed, eofSent, pushing, down, ingest>>

RemoveCancel ==
  /\ removal = "closed" /\ removal' = "cancelled"
  /\ UNCHANGED <<buf, notify, shut, run, pushed, eofSent, pushing, down, ingest>>

-----------------------------------------------------------------------------
(* The goroutine: Run.                                                     *)

\* Leading newlines: empty lines, which are skipped.
Skip(bytes) == SelectInSeq(bytes \o <<1>>, LAMBDA b : b # Newline) - 1

\* Bug variant: a line without its newline is not put back.
CutForgetsPart ==
  /\ run.pc = "cut"
  /\ LET rest == SubSeq(buf, Skip(buf) + 1, Len(buf)) IN
       \/ /\ HasLine(rest)
          /\ run' = [pc |-> "send", line |-> SubSeq(rest, 1, LineEnd(rest) - 1)]
          /\ buf' = SubSeq(rest, LineEnd(rest) + 1, Len(rest))
       \/ /\ ~HasLine(rest)
          /\ buf' = <<>>
          /\ run' = [run EXCEPT !.pc = IF shut THEN "done" ELSE "idle"]
  /\ UNCHANGED <<notify, shut, pushed, eofSent, pushing, removal, down, ingest>>

\* One hold of the mutex: the next line that is not empty, or, when there is
\* none, the test for the end.  A line without its newline goes back.
Cut ==
  /\ run.pc = "cut"
  /\ LET rest == SubSeq(buf, Skip(buf) + 1, Len(buf)) IN
       \/ /\ HasLine(rest)
          /\ run' = [pc |-> "send", line |-> SubSeq(rest, 1, LineEnd(rest) - 1)]
          /\ buf' = SubSeq(rest, LineEnd(rest) + 1, Len(rest))
       \/ /\ ~HasLine(rest)
          /\ buf' = rest
          /\ run' = [run EXCEPT !.pc = IF shut /\ rest = <<>> THEN "done" ELSE "idle"]
  /\ UNCHANGED <<notify, shut, pushed, eofSent, pushing, removal, down, ingest>>

\* The mutex is free again and the goroutine comes to its select.
Park ==
  /\ run.pc = "idle" /\ run' = [run EXCEPT !.pc = "wait"]
  /\ UNCHANGED <<buf, notify, shut, pushed, eofSent, pushing, removal, down, ingest>>

Send ==
  /\ run.pc = "send" /\ Len(ingest) < ChanCap
  /\ ingest' = Append(ingest, [src |-> Stdin, bytes |-> run.line])
  /\ run' = [pc |-> "cut", line |-> <<>>]
  /\ UNCHANGED <<buf, notify, shut, pushed, eofSent, pushing, removal, down>>

\* Bug variant: closed ends the goroutine as soon as it wakes.
WakeEnds ==
  /\ run.pc = "wait" /\ notify
  /\ notify' = FALSE /\ run' = [run EXCEPT !.pc = IF shut THEN "done" ELSE "cut"]
  /\ UNCHANGED <<buf, shut, pushed, eofSent, pushing, removal, down, ingest>>

Wake ==
  /\ run.pc = "wait" /\ notify
  /\ notify' = FALSE /\ run' = [run EXCEPT !.pc = "cut"]
  /\ UNCHANGED <<buf, shut, pushed, eofSent, pushing, removal, down, ingest>>

GiveUp ==
  /\ run.pc \in {"send", "wait"} /\ (removal = "cancelled" \/ down)
  /\ run' = [run EXCEPT !.pc = "done"]
  /\ UNCHANGED <<buf, notify, shut, pushed, eofSent, pushing, removal, down, ingest>>

Run == Cut \/ Park \/ Send \/ Wake \/ GiveUp

Next == Run \/ Push \/ PushNotify \/ RemoveClose \/ RemoveNotify \/ RemoveCancel

=============================================================================
