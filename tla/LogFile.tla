------------------------------- MODULE LogFile -------------------------------
(***************************************************************************)
(* LogFile and the FileUtil::AppendFile it writes to: a new file every day *)
(* and after rollSize, flushed now and then.                               *)
(*                                                                         *)
(* A log is a record; an operator for a function of the class takes one    *)
(* and returns what it becomes.  What is written is a sequence of lines.   *)
(* A file is named by the second in which it is opened: a second log file  *)
(* of that second is the first one, opened again at its end.               *)
(***************************************************************************)
EXTENDS Integers, Sequences

CONSTANTS
  RollSize,        \* m_rollSize, in lines
  Day,             \* m_kRollPerSeconds
  FlushInterval,   \* m_flushInterval of the LogFile
  StdioSize,       \* lines in the buffer of a FILE
  MaxTime          \* bound: seconds

ASSUME LogFileAssumption ==
  /\ RollSize \in Nat
  /\ Day \in Nat \ {0}
  /\ FlushInterval \in Nat
  /\ StdioSize \in Nat \ {0}
  /\ MaxTime \in Nat \ {0}

Seconds == 1..MaxTime

LogType ==
  [disk : [Seconds -> Seq(Nat)],   \* the files
   stdio : Seq(Nat),               \* what the FILE of the open one still has
   name : Seconds,                 \* the open one
   written : Nat,                  \* m_writtenBytes
   startOfPeriod : Nat, lastFlush : Seconds]

PeriodOf(now) == (now \div Day) * Day

\* The constructor, which opens the first file.
NewLog(now) ==
  [disk |-> [t \in Seconds |-> <<>>], stdio |-> <<>>, name |-> now, written |-> 0,
   startOfPeriod |-> PeriodOf(now), lastFlush |-> now]

\* The open file with more lines.
WithLines(f, lines) == [f.disk EXCEPT ![f.name] = @ \o lines]

\* mutant: flush() does nothing.
FlushNever(f) == f

Flush(f) == [f EXCEPT !.disk = WithLines(f, f.stdio), !.stdio = <<>>]

\* mutant: the file before is not closed.
RollFileOpen(f, now) ==
  [f EXCEPT !.stdio = <<>>, !.name = now, !.written = 0,
            !.startOfPeriod = PeriodOf(now), !.lastFlush = now]

\* rollFile: the file before is closed, and written by that.
RollFile(f, now) ==
  [f EXCEPT !.disk = WithLines(f, f.stdio), !.stdio = <<>>, !.name = now, !.written = 0,
            !.startOfPeriod = PeriodOf(now), !.lastFlush = now]

\* mutant: the day is not looked at.
MustRollBySize(f, now) == f.written > RollSize

MustRoll(f, now) == PeriodOf(now) # f.startOfPeriod \/ f.written > RollSize

\* AppendFile::append of lines of which fwrite takes the first n: the FILE keeps
\* what does not fill its buffer.  All of them are counted.
AppendToFile(f, lines, n) ==
  LET all == f.stdio \o SubSeq(lines, 1, n)
      spilled == IF Len(all) < StdioSize THEN 0 ELSE Len(all) - (Len(all) % StdioSize)
  IN [f EXCEPT !.disk = WithLines(f, SubSeq(all, 1, spilled)),
               !.stdio = SubSeq(all, spilled + 1, Len(all)),
               !.written = @ + Len(lines)]

\* append_unlocked at the time "now"; rollFile looks at the clock again.
AppendUnlocked(f, lines, n, now, rollTime) ==
  LET rolled == IF MustRoll(f, now) THEN RollFile(f, rollTime) ELSE f
      appended == IF lines # <<>> THEN AppendToFile(rolled, lines, n) ELSE rolled
  IN IF now - appended.lastFlush > FlushInterval
     THEN Flush([appended EXCEPT !.lastFlush = now])
     ELSE appended
=============================================================================
