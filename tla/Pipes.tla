------------------------------- MODULE Pipes -------------------------------
(***************************************************************************)
(* studio13: a reader and writers joined by a pipe (Pipe/src/pipe_tst.c),  *)
(* by a FIFO (FIFO/src/fifo_tst.c; its writers are programs of the shell), *)
(* or by a FIFO whose reader never ends (FIFO_wr: fifo_tst.c and           *)
(* fifo_writer.c).                                                         *)
(*                                                                         *)
(* An item is what one write() carries.  A reader finds the end of file    *)
(* when the channel is empty and nobody holds its write end, the reader    *)
(* included.  A write to a channel without a reader kills the writer.      *)
(* The user may kill any process, at any time.                             *)
(***************************************************************************)
EXTENDS Integers, Sequences

CONSTANTS
  Setups,       \* subset of {"Pipe", "FIFO", "FIFO_wr"}
  Writers,      \* writers of a FIFO
  Child,        \* the writer that is the child of the reader
  Items,        \* what a writer writes; three messages in pipe_tst.c
  Capacity      \* items the channel holds

VARIABLES
  setup,        \* the programs that run
  file,         \* what has the name myfifo: "none", "fifo" or "regular"
  reader,       \* where the reader is
  rd,           \* the reader holds the read end
  own,          \* the reader holds a write end
  came,         \* a writer has opened the FIFO since the reader tries to
  writer,       \* where each writer is
  left,         \* the items it has left to write
  channel,      \* the items written and not yet read
  output,       \* what the reader has printed
  stale,        \* it has printed a number again that it read before
  junk,         \* history: some program wrote a token that is no number
  late          \* history: the writers that came after the end of file

ends == <<rd, own, came>>
data == <<left, channel, output, stale, junk>>
vars == <<setup, file, reader, ends, writer, data, late>>

Junk  == <<"junk", 0>>
Ended == {"exited", "failed", "killed"}
Open  == {w \in Writers : writer[w] \in {"fork", "open"}}

Init ==
  /\ setup = "none" /\ file = "none"
  /\ reader = "none" /\ rd = FALSE /\ own = FALSE /\ came = FALSE
  /\ writer = [w \in Writers |-> "start"]
  /\ left = [w \in Writers |-> Items]
  /\ channel = << >> /\ output = << >> /\ stale = FALSE /\ junk = FALSE
  /\ late = {}

-----------------------------------------------------------------------------
(* The reader of the pipe *)

\* The user starts a reader where an earlier run may have left its FIFO.
Run ==
  /\ setup = "none" /\ setup' \in Setups
  /\ file' \in {"none", "fifo"}
  /\ reader' = "start"
  /\ UNCHANGED <<ends, writer, data, late>>

Pipe ==
  /\ setup = "Pipe" /\ reader = "start"
  /\ \/ reader' = "failed" /\ UNCHANGED <<rd, own>>
     \/ reader' = "fork" /\ rd' = TRUE /\ own' = TRUE
  /\ UNCHANGED <<setup, file, came, writer, data, late>>

\* A fork() that fails takes the branch of the parent.
Fork ==
  /\ reader = "fork" /\ reader' = "close"
  /\ writer' \in {writer, [writer EXCEPT ![Child] = "fork"]}
  /\ UNCHANGED <<setup, file, ends, data, late>>

\* Mutant: the parent keeps its write end.
CloseWriteEnd_Not ==
  /\ reader = "close" /\ reader' = "read"
  /\ UNCHANGED <<setup, file, ends, writer, data, late>>

CloseWriteEnd ==
  /\ reader = "close" /\ reader' = "read"
  /\ own' = FALSE
  /\ UNCHANGED <<setup, file, rd, came, writer, data, late>>

-----------------------------------------------------------------------------
(* The reader of a FIFO *)

\* mkfifo() fails when the name is in use.
Mkfifo ==
  /\ setup # "Pipe" /\ reader = "start"
  /\ IF file = "none" THEN reader' = "open" /\ file' = "fifo"
     ELSE reader' = "failed" /\ UNCHANGED file
  /\ UNCHANGED <<setup, ends, writer, data, late>>

\* open() waits for a writer.
OpenRead ==
  /\ reader = "open" /\ reader' = "opening"
  /\ rd' = TRUE
  /\ UNCHANGED <<setup, file, own, came, writer, data, late>>

\* Mutant: the reader does not open the FIFO for writing.
OpenReadEnds_NoWriter ==
  /\ reader = "opening" /\ came
  /\ reader' = "read"
  /\ UNCHANGED <<setup, file, ends, writer, data, late>>

\* In FIFO_wr the reader goes on to open the FIFO for writing, too.
OpenReadEnds ==
  /\ reader = "opening" /\ came
  /\ reader' = "read"
  /\ own' = (setup = "FIFO_wr")
  /\ UNCHANGED <<setup, file, rd, came, writer, data, late>>

\* The FIFO keeps its name.
CloseReadEnd ==
  /\ reader = "close2" /\ reader' = "exited"
  /\ rd' = FALSE
  /\ UNCHANGED <<setup, file, own, came, writer, data, late>>

-----------------------------------------------------------------------------
(* The loops of the readers *)

\* read() and write(), until read() returns 0.
CopyItem ==
  /\ setup # "FIFO_wr" /\ reader = "read" /\ channel # << >>
  /\ output' = Append(output, Head(channel))
  /\ channel' = Tail(channel)
  /\ UNCHANGED <<setup, file, reader, ends, writer, left, stale, junk, late>>

EndOfFile ==
  /\ setup # "FIFO_wr" /\ reader = "read"
  /\ channel = << >> /\ Open = {} /\ ~own
  /\ reader' = "close2"
  /\ UNCHANGED <<setup, file, ends, writer, data, late>>

\* fscanf() leaves a token that is no number where it is, and leaves s32temp as
\* it is, as it does at the end of file: the same number is printed again.
PrintNumber ==
  /\ setup = "FIFO_wr" /\ reader = "read"
  /\ IF channel # << >>
     THEN IF Head(channel) = Junk
          THEN stale' = TRUE /\ UNCHANGED <<channel, output>>
          ELSE /\ output' = Append(output, Head(channel))
               /\ channel' = Tail(channel)
               /\ UNCHANGED stale
     ELSE Open = {} /\ ~own /\ stale' = TRUE /\ UNCHANGED <<channel, output>>
  /\ UNCHANGED <<setup, file, reader, ends, writer, left, junk, late>>

-----------------------------------------------------------------------------
(* The writers *)

\* The child closes its read end.
StartChild ==
  /\ writer[Child] = "fork"
  /\ writer' = [writer EXCEPT ![Child] = "open"]
  /\ UNCHANGED <<setup, file, reader, ends, data, late>>

\* Opening the FIFO for writing waits for a reader; without the FIFO it makes a
\* regular file, in which what is written stays.
OpenWrite(w) ==
  /\ setup \in {"FIFO", "FIFO_wr"} /\ writer[w] = "start"
  /\ \/ /\ file = "fifo" /\ rd
        /\ writer' = [writer EXCEPT ![w] = "open"]
        /\ came' = TRUE
        /\ late' = IF reader = "close2" THEN late \cup {w} ELSE late
        /\ UNCHANGED file
     \/ /\ file # "fifo" /\ file' = "regular"
        /\ writer' = [writer EXCEPT ![w] = "exited"]
        /\ UNCHANGED <<came, late>>
  /\ UNCHANGED <<setup, reader, rd, own, data>>

Write(w) ==
  /\ writer[w] = "open" /\ left[w] > 0 /\ rd /\ Len(channel) < Capacity
  /\ channel' = Append(channel, <<w, Items - left[w] + 1>>)
  /\ left' = [left EXCEPT ![w] = @ - 1]
  /\ UNCHANGED <<setup, file, reader, ends, writer, output, stale, junk, late>>

BrokenPipe(w) ==
  /\ writer[w] = "open" /\ left[w] > 0 /\ ~rd
  /\ writer' = [writer EXCEPT ![w] = "killed"]
  /\ UNCHANGED <<setup, file, reader, ends, data, late>>

\* fifo_writer.c never ends; here it has no more items to write.
CloseWriter(w) ==
  /\ setup # "FIFO_wr" /\ writer[w] = "open" /\ left[w] = 0
  /\ writer' = [writer EXCEPT ![w] = "exited"]
  /\ UNCHANGED <<setup, file, reader, ends, data, late>>

\* Some program writes something else into the FIFO.
WriteJunk ==
  /\ setup = "FIFO_wr" /\ rd /\ reader = "read" /\ ~junk /\ Len(channel) < Capacity
  /\ channel' = Append(channel, Junk) /\ junk' = TRUE
  /\ UNCHANGED <<setup, file, reader, ends, writer, left, output, stale, late>>

KillReader ==
  /\ reader \notin Ended \cup {"none"} /\ reader' = "killed"
  /\ rd' = FALSE /\ own' = FALSE
  /\ UNCHANGED <<setup, file, came, writer, data, late>>

KillWriter(w) ==
  /\ w \in Open
  /\ writer' = [writer EXCEPT ![w] = "killed"]
  /\ UNCHANGED <<setup, file, reader, ends, data, late>>

Reader ==
  \/ Pipe \/ Fork \/ CloseWriteEnd
  \/ Mkfifo \/ OpenRead \/ OpenReadEnds \/ CloseReadEnd
  \/ CopyItem \/ EndOfFile \/ PrintNumber
Writer(w) == OpenWrite(w) \/ Write(w) \/ BrokenPipe(w) \/ CloseWriter(w)

Next ==
  \/ Run \/ Reader \/ StartChild \/ \E w \in Writers : Writer(w) \/ KillWriter(w)
  \/ WriteJunk \/ KillReader

Spec == Init /\ [][Next]_vars

-----------------------------------------------------------------------------
(* Properties *)

(***************************************************************************)
(* When the reader of the pipe or the FIFO has ended by itself, it has     *)
(* printed all that was written, but for writers that came after it had    *)
(* found the end of file; FIFO_wr never ends, and prints a number twice    *)
(* only after somebody wrote what is no number (line 38), because it holds *)
(* a write end itself (line 29).                                           *)
(***************************************************************************)
AllIsPrinted ==
  /\ reader \in {"close2", "exited"} =>
       /\ setup # "FIFO_wr"
       /\ \A i \in 1 .. Len(channel) : channel[i][1] \in late
  /\ stale => junk

(***************************************************************************)
(* Once it reads, the reader of the pipe or the FIFO comes to its end: its *)
(* parent closes its own write end (pipe_tst.c:36), without which read()   *)
(* would wait for ever after the last writer.                              *)
(***************************************************************************)
ReaderEnds == setup # "FIFO_wr" /\ reader = "read" ~> reader \in Ended
=============================================================================
