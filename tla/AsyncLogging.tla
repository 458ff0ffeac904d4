---------------------------- MODULE AsyncLogging ----------------------------
(***************************************************************************)
(* AsyncLogging: any thread appends lines to a buffer in memory under      *)
(* m_mutex, and the logging thread swaps the filled buffers against empty  *)
(* ones and writes them to the file.                                       *)
(*                                                                         *)
(* Lines are numbered in the order in which append() gets the mutex.  A    *)
(* section under the mutex is one step.  The clock is what the logging     *)
(* thread has last seen of it: it goes on whenever that looks at it.       *)
(* The wait ends by a notification, a timeout or for no reason: it may end *)
(* at any time, so notify() is not modelled.                               *)
(***************************************************************************)
EXTENDS LogFile, SequencesExt

CONSTANTS
  BufLines,   \* lines that fit into a buffer (kLargeBuffer)
  DropOver,   \* buffers the logging thread accepts to write at once: 25
  MaxLines    \* bound: lines appended

ASSUME AsyncLoggingAssumption ==
  /\ BufLines \in Nat \ {0}
  /\ DropOver \in Nat \ {0}
  /\ MaxLines \in Nat

VARIABLES
  running,      \* m_running
  owner,        \* the thread that starts and stops: "new", "started", "joining", "joined"
  current,      \* what is in m_currentBuffer
  hasNext,      \* m_nextBuffer # nullptr
  buffers,      \* m_buffers
  back,         \* where the logging thread is
  has1, has2,   \* newBuffer1, newBuffer2 # nullptr
  toWrite,      \* buffersToWrite
  num,          \* buffers of it written so far
  log,          \* "output", from OpenFile on
  clock,        \* the time
  dropped,      \* lines given up
  lost,         \* lines that fwrite refused
  numLines,     \* lines appended so far
  fault         \* a buffer is taken out of an empty buffersToWrite

front == <<current, hasNext, buffers>>
thread == <<has1, has2, toWrite, num, log, clock, dropped, lost, fault>>
vars == <<running, owner, front, back, thread, numLines>>

Lines == 1..MaxLines
Buffer == Seq(Lines)

\* The line about dropped messages.
Notice == 0

TypeOK ==
  /\ running \in BOOLEAN
  /\ owner \in {"new", "started", "joining", "joined"}
  /\ current \in Buffer
  /\ hasNext \in BOOLEAN
  /\ buffers \in Seq(Buffer)
  /\ back \in {"new", "open", "top", "lock", "wait", "drop", "write", "done"}
  /\ has1 \in BOOLEAN /\ has2 \in BOOLEAN
  /\ toWrite \in Seq(Buffer) /\ num \in 0..Len(toWrite)
  /\ log \in LogType /\ clock \in Seconds
  /\ dropped \subseteq Lines /\ lost \subseteq Lines
  /\ numLines \in 0..MaxLines
  /\ fault \in BOOLEAN
  /\ Len(current) <= BufLines

Init ==
  /\ running = FALSE
  /\ owner = "new"
  /\ current = <<>>
  /\ hasNext = TRUE
  /\ buffers = <<>>
  /\ back = "new"
  /\ has1 = TRUE /\ has2 = TRUE
  /\ toWrite = <<>> /\ num = 0
  /\ clock = 1
  /\ log = NewLog(clock)
  /\ dropped = {} /\ lost = {}
  /\ numLines = 0
  /\ fault = FALSE

------------------------------------------------------------------------------
(* Threads that log; the owner.                                               *)

\* append(): the current buffer goes to the filled ones when the line does not
\* fit, and the spare one, or a new one, takes its place.
AppendLine(n) ==
  IF Len(current) < BufLines
  THEN /\ current' = Append(current, n)
       /\ UNCHANGED <<hasNext, buffers>>
  ELSE /\ buffers' = Append(buffers, current)
       /\ current' = <<n>>
       /\ hasNext' = FALSE

AppendAny ==
  /\ numLines < MaxLines
  /\ numLines' = numLines + 1
  /\ AppendLine(numLines')
  /\ UNCHANGED <<running, owner, back, thread>>

\* start() returns once the thread has passed the latch.
Start ==
  /\ owner = "new"
  /\ owner' = "started"
  /\ running' = TRUE
  /\ back' = "open"
  /\ UNCHANGED <<front, thread, numLines>>

\* stop(), of the owner or of the destructor.
Stop ==
  /\ owner = "started"
  /\ owner' = "joining"
  /\ running' = FALSE
  /\ UNCHANGED <<front, back, thread, numLines>>

Join ==
  /\ owner = "joining"
  /\ back = "done"
  /\ owner' = "joined"
  /\ UNCHANGED <<running, front, back, thread, numLines>>

------------------------------------------------------------------------------
(* threadFunc.                                                                *)

OpenFile ==
  /\ back = "open"
  /\ \E now \in clock..MaxTime : clock' = now /\ log' = NewLog(now)
  /\ back' = "top"
  /\ UNCHANGED <<running, owner, front, has1, has2, toWrite, num, dropped, lost, fault, numLines>>

TestRunning ==
  /\ back = "top"
  /\ back' = IF running THEN "lock" ELSE "done"
  /\ UNCHANGED <<running, owner, front, thread, numLines>>

WaitForSeconds ==
  /\ back = "lock"
  /\ buffers = <<>>
  /\ back' = "wait"
  /\ UNCHANGED <<running, owner, front, thread, numLines>>

\* mutant: the current buffer is swapped without being written.
TakeBuffersFilled == toWrite' = buffers

TakeBuffers == toWrite' = Append(buffers, current)

\* mutant: the spare buffer is renewed even if it is there.
RenewNextAlways == hasNext' = TRUE /\ has2' = FALSE

RenewNext ==
  /\ hasNext' = TRUE
  /\ has2' = (has2 /\ hasNext)

\* The section under the mutex, at once or after the wait.
Swap ==
  /\ back = "lock" => buffers # <<>>
  /\ back \in {"lock", "wait"}
  /\ back' = "drop"
  /\ TakeBuffers
  /\ buffers' = <<>>
  /\ current' = <<>>
  /\ has1' = FALSE
  /\ RenewNext
  /\ UNCHANGED <<running, owner, num, log, clock, dropped, lost, numLines, fault>>

\* output.append(), of which fwrite takes n lines.
AppendToLog(lines, n) ==
  \E now \in clock..MaxTime : \E rollTime \in now..MaxTime :
    /\ clock' = IF MustRoll(log, now) THEN rollTime ELSE now
    /\ log' = AppendUnlocked(log, lines, n, now, rollTime)

\* More than DropOver buffers: all but the first two are given up.
GivenUp == SubSeq(toWrite, 3, Len(toWrite))

DropBuffers ==
  /\ back = "drop"
  /\ back' = "write"
  /\ IF Len(toWrite) > DropOver
     THEN /\ AppendToLog(<<Notice>>, 1)
          /\ toWrite' = SubSeq(toWrite, 1, 2)
          /\ dropped' = dropped \cup UNION {ToSet(GivenUp[i]) : i \in DOMAIN GivenUp}
     ELSE UNCHANGED <<log, clock, toWrite, dropped>>
  /\ UNCHANGED <<running, owner, front, has1, has2, num, lost, fault, numLines>>

\* Bound: fwrite refuses lines of one buffer.
WriteBuffer ==
  /\ back = "write"
  /\ num < Len(toWrite)
  /\ num' = num + 1
  /\ LET lines == toWrite[num']
     IN \E n \in 0..Len(lines) :
          /\ n < Len(lines) => lost = {}
          /\ AppendToLog(lines, n)
          /\ lost' = lost \cup ToSet(SubSeq(lines, n + 1, Len(lines)))
  /\ UNCHANGED <<running, owner, front, back, has1, has2, toWrite, dropped, fault, numLines>>

\* The last two of the buffers become newBuffer1 and newBuffer2 where those
\* have been handed out.
EndRound ==
  /\ back = "write"
  /\ num = Len(toWrite)
  /\ back' = "top"
  /\ LET left == IF Len(toWrite) > 2 THEN 2 ELSE Len(toWrite)
         wanted == (IF has1 THEN 0 ELSE 1) + (IF has2 THEN 0 ELSE 1)
     IN fault' = (fault \/ left < wanted)
  /\ has1' = TRUE
  /\ has2' = TRUE
  /\ toWrite' = <<>> /\ num' = 0
  /\ log' = Flush(log)
  /\ UNCHANGED <<running, owner, front, clock, dropped, lost, numLines>>

Thread ==
  \/ OpenFile \/ TestRunning \/ WaitForSeconds \/ Swap
  \/ DropBuffers \/ WriteBuffer \/ EndRound

Next == AppendAny \/ Start \/ Stop \/ Join \/ Thread

Spec == Init /\ [][Next]_vars

\* The logging thread is scheduled, and its wait has a timeout.
FairSpec == Spec /\ WF_vars(Thread) /\ WF_vars(Join)

------------------------------------------------------------------------------
(* Properties.                                                                *)

\* The assertions of threadFunc: at the top of the loop both of its buffers are
\* there, it has something to write whenever it writes, and it gets its buffers
\* back from what it has written.  It hands the second one out only if the
\* spare buffer has been used, that is, if there are two buffers to write.
BuffersSuffice ==
  /\ ~fault
  /\ back \in {"top", "lock", "wait"} => has1 /\ has2 /\ toWrite = <<>>
  /\ back \in {"drop", "write"} => toWrite # <<>>

\* What is in the files, in the FILE, in the thread's hands, filled and current.
Chunks ==
  log.disk \o <<log.stdio>> \o SubSeq(toWrite, num + 1, Len(toWrite)) \o buffers \o <<current>>

LinesOf(chunk) == ToSet(chunk) \ {Notice}
LinesIn(chunks) == UNION {LinesOf(chunks[i]) : i \in DOMAIN chunks}
Before(these, those) == \A m \in these : \A n \in those : m < n

Ascending(chunk) ==
  \A i, j \in DOMAIN chunk :
    i < j /\ chunk[i] # Notice /\ chunk[j] # Notice => chunk[i] < chunk[j]
InOrder(chunks) ==
  /\ \A i \in DOMAIN chunks : Ascending(chunks[i])
  /\ \A i, j \in DOMAIN chunks : i < j => Before(LinesOf(chunks[i]), LinesOf(chunks[j]))

\* Every appended line is once in a file, on its way there, given up or
\* refused; the files, one after the other, have them in the order of the
\* calls, and what a crash would lose comes after them.
LinesInOrder ==
  /\ InOrder(Chunks)
  /\ LinesIn(Chunks) \cup dropped \cup lost = 1..numLines
  /\ LinesIn(Chunks) \cap (dropped \cup lost) = {}
  /\ dropped \cap lost = {}

\* What is appended to a log goes to a file of the day, and to one that has
\* taken no more than a buffer too much since it was opened.
FilesRoll ==
  [][log' # log /\ back' # "top" =>
       /\ PeriodOf(log'.name) = PeriodOf(clock')
       /\ log'.written <= RollSize + BufLines]_vars

\* A line is on the disk at last, or is given up or refused, unless stop() is
\* called before the thread's next look at the buffers.  Once the thread has
\* passed its test of m_running, stop() cannot make it lose what has been
\* appended; and stop() returns.
Settled(i) == i \in LinesIn(log.disk) \cup dropped \cup lost

LinesWritten ==
  /\ \A i \in Lines :
       /\ i <= numLines /\ running ~> Settled(i) \/ ~running
       /\ i <= numLines /\ back \in {"lock", "wait"} ~> Settled(i)
  /\ owner = "joining" ~> owner = "joined"
=============================================================================
