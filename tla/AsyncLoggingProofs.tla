------------------------- MODULE AsyncLoggingProofs -------------------------
(***************************************************************************)
(* The types of AsyncLogging, that the assertions of its threadFunc hold   *)
(* however many lines are appended and however large the buffers are, and  *)
(* that its files are rolled.                                              *)
(***************************************************************************)
EXTENDS AsyncLogging, SequenceTheorems, TLAPS

\* Why the thread gets its buffers back: the spare buffer is gone only while a
\* filled one waits, so a second buffer is handed out only with two to write.
SpareUsed == ~hasNext => buffers # <<>>
NotStarted == owner = "new" => back = "new"
WritesEnough ==
  /\ back \in {"drop", "write"} => ~has1 /\ Len(toWrite) >= (IF has2 THEN 1 ELSE 2)
  /\ back \in {"new", "open"} => has1 /\ has2 /\ toWrite = <<>>
  /\ back # "write" => num = 0

\* What the log needs: no buffer is too large, and it knows its file's day.
BuffersFit ==
  /\ \A i \in DOMAIN buffers : Len(buffers[i]) <= BufLines
  /\ \A i \in DOMAIN toWrite : Len(toWrite[i]) <= BufLines

RightFile(f) == f.startOfPeriod = PeriodOf(f.name) /\ f.written <= RollSize + BufLines

IInv ==
  /\ TypeOK /\ BuffersSuffice /\ SpareUsed /\ NotStarted /\ WritesEnough
  /\ BuffersFit /\ RightFile(log)

USE AsyncLoggingAssumption, LogFileAssumption DEF AsyncLoggingAssumption, LogFileAssumption

------------------------------------------------------------------------------
(* The log.                                                                   *)

LEMMA PeriodIsNat == ASSUME NEW t \in Nat PROVE PeriodOf(t) \in Nat
<1>1. t \div Day \in Nat
  OBVIOUS
<1> QED BY <1>1 DEF PeriodOf

LEMMA NewLogFacts ==
  ASSUME NEW now \in Seconds PROVE NewLog(now) \in LogType /\ RightFile(NewLog(now))
<1>1. PeriodOf(now) \in Nat
  BY PeriodIsNat DEF Seconds
<1>2. NewLog(now) \in LogType
  BY <1>1 DEF NewLog, LogType
<1> QED BY <1>2 DEF NewLog, RightFile

LEMMA DiskFacts ==
  ASSUME NEW f \in LogType, NEW lines \in Seq(Nat)
  PROVE  WithLines(f, lines) \in [Seconds -> Seq(Nat)]
<1>1. f.disk \in [Seconds -> Seq(Nat)] /\ f.name \in Seconds
  BY DEF LogType
<1>2. f.disk[f.name] \o lines \in Seq(Nat)
  BY <1>1
<1> QED BY <1>1, <1>2 DEF WithLines

LEMMA FlushFacts ==
  ASSUME NEW f \in LogType
  PROVE  /\ Flush(f) \in LogType
         /\ Flush(f).name = f.name
         /\ Flush(f).written = f.written
         /\ Flush(f).startOfPeriod = f.startOfPeriod
<1>1. WithLines(f, f.stdio) \in [Seconds -> Seq(Nat)]
  BY DiskFacts DEF LogType
<1>2. Flush(f) = [f EXCEPT !.disk = WithLines(f, f.stdio), !.stdio = <<>>]
  BY DEF Flush
<1>3. <<>> \in Seq(Nat)
  OBVIOUS
<1> QED BY <1>1, <1>2, <1>3 DEF LogType

LEMMA RollFacts ==
  ASSUME NEW f \in LogType, NEW now \in Seconds
  PROVE  /\ RollFile(f, now) \in LogType
         /\ RollFile(f, now).name = now
         /\ RollFile(f, now).written = 0
         /\ RollFile(f, now).startOfPeriod = PeriodOf(now)
<1>1. WithLines(f, f.stdio) \in [Seconds -> Seq(Nat)]
  BY DiskFacts DEF LogType
<1>2. PeriodOf(now) \in Nat
  BY PeriodIsNat DEF Seconds
<1>3. RollFile(f, now) =
        [f EXCEPT !.disk = WithLines(f, f.stdio), !.stdio = <<>>, !.name = now, !.written = 0,
                  !.startOfPeriod = PeriodOf(now), !.lastFlush = now]
  BY DEF RollFile
<1>4. <<>> \in Seq(Nat) /\ 0 \in Nat
  OBVIOUS
<1> QED BY <1>1, <1>2, <1>3, <1>4 DEF LogType

LEMMA SpilledFacts ==
  ASSUME NEW n \in Nat
  PROVE  (IF n < StdioSize THEN 0 ELSE n - (n % StdioSize)) \in 0..n
<1>1. StdioSize \in Int /\ StdioSize > 0
  OBVIOUS
<1>2. n % StdioSize \in 0..(StdioSize - 1)
  <2> DEFINE d == StdioSize
  <2>1. d \in Int /\ d > 0
    BY <1>1
  <2> HIDE DEF d
  <2>2. n % d \in 0..(d - 1)
    BY <2>1, Z3
  <2> QED BY <2>2 DEF d
<1> QED BY <1>1, <1>2

LEMMA AppendFacts ==
  ASSUME NEW f \in LogType, NEW lines \in Seq(Nat), NEW n \in 0..Len(lines)
  PROVE  LET g == AppendToFile(f, lines, n)
         IN /\ g \in LogType
            /\ g.name = f.name
            /\ g.written = f.written + Len(lines)
            /\ g.startOfPeriod = f.startOfPeriod
<1> DEFINE all == f.stdio \o SubSeq(lines, 1, n)
           spilled == IF Len(all) < StdioSize THEN 0 ELSE Len(all) - (Len(all) % StdioSize)
<1>1. all \in Seq(Nat)
  BY DEF LogType
<1>2. spilled \in 0..Len(all)
  <2> HIDE DEF all
  <2>1. Len(all) \in Nat
    BY <1>1
  <2> QED BY <2>1, SpilledFacts
<1>3. SubSeq(all, spilled + 1, Len(all)) \in Seq(Nat) /\ SubSeq(all, 1, spilled) \in Seq(Nat)
  <2> HIDE DEF all, spilled
  <2> QED BY <1>1, <1>2
<1>4. WithLines(f, SubSeq(all, 1, spilled)) \in [Seconds -> Seq(Nat)]
  BY <1>3, DiskFacts
<1>5. AppendToFile(f, lines, n) =
        [f EXCEPT !.disk = WithLines(f, SubSeq(all, 1, spilled)),
                  !.stdio = SubSeq(all, spilled + 1, Len(all)),
                  !.written = @ + Len(lines)]
  BY DEF AppendToFile
<1> HIDE DEF all, spilled
<1>6. f.written + Len(lines) \in Nat
  BY DEF LogType
<1> QED BY <1>3, <1>4, <1>5, <1>6 DEF LogType

\* An append leaves the log in a file of the day, with room for this append at
\* least, whatever the clock does between its two readings.
LEMMA AppendUnlockedFacts ==
  ASSUME NEW f \in LogType, RightFile(f),
         NEW lines \in Seq(Nat), Len(lines) <= BufLines, NEW n \in 0..Len(lines),
         NEW now \in Seconds, NEW rollTime \in Seconds
  PROVE  LET g == AppendUnlocked(f, lines, n, now, rollTime)
         IN /\ g \in LogType
            /\ RightFile(g)
            /\ PeriodOf(g.name) = PeriodOf(IF MustRoll(f, now) THEN rollTime ELSE now)
<1> DEFINE rolled == IF MustRoll(f, now) THEN RollFile(f, rollTime) ELSE f
           appended == IF lines # <<>> THEN AppendToFile(rolled, lines, n) ELSE rolled
           g == AppendUnlocked(f, lines, n, now, rollTime)
<1>1. /\ rolled \in LogType
      /\ rolled.startOfPeriod = PeriodOf(rolled.name)
      /\ rolled.written <= RollSize
      /\ PeriodOf(rolled.name) = PeriodOf(IF MustRoll(f, now) THEN rollTime ELSE now)
  <2>1. CASE MustRoll(f, now)
    BY <2>1, RollFacts
  <2>2. CASE ~MustRoll(f, now)
    BY <2>2 DEF MustRoll, RightFile, LogType
  <2> QED BY <2>1, <2>2
<1> HIDE DEF rolled
<1>2. /\ appended \in LogType
      /\ appended.name = rolled.name /\ appended.startOfPeriod = rolled.startOfPeriod
      /\ appended.written <= RollSize + BufLines
  <2>1. CASE lines # <<>>
    <3>1. appended = AppendToFile(rolled, lines, n)
      BY <2>1
    <3>2. /\ appended \in LogType
          /\ appended.name = rolled.name /\ appended.startOfPeriod = rolled.startOfPeriod
          /\ appended.written = rolled.written + Len(lines)
      BY <1>1, <3>1, AppendFacts
    <3>3. rolled.written \in Nat /\ Len(lines) \in Nat
      BY <1>1 DEF LogType
    <3> QED BY <1>1, <3>2, <3>3
  <2>2. CASE lines = <<>>
    <3>1. appended = rolled
      BY <2>2
    <3>2. rolled.written \in Nat
      BY <1>1 DEF LogType
    <3>3. rolled.written <= RollSize + BufLines
      BY <1>1, <3>2
    <3> QED BY <1>1, <3>1, <3>3
  <2> QED BY <2>1, <2>2
<1> HIDE DEF appended
<1>3. g = IF now - appended.lastFlush > FlushInterval
          THEN Flush([appended EXCEPT !.lastFlush = now]) ELSE appended
  BY DEF AppendUnlocked, appended, rolled
<1> HIDE DEF g
<1>4. /\ g \in LogType
      /\ g.name = appended.name /\ g.startOfPeriod = appended.startOfPeriod
      /\ g.written = appended.written
  <2>1. CASE now - appended.lastFlush > FlushInterval
    <3>1. /\ [appended EXCEPT !.lastFlush = now] \in LogType
          /\ [appended EXCEPT !.lastFlush = now].name = appended.name
          /\ [appended EXCEPT !.lastFlush = now].startOfPeriod = appended.startOfPeriod
          /\ [appended EXCEPT !.lastFlush = now].written = appended.written
      BY <1>2 DEF LogType
    <3> QED BY <1>3, <2>1, <3>1, FlushFacts
  <2>2. CASE ~(now - appended.lastFlush > FlushInterval)
    BY <1>2, <1>3, <2>2
  <2> QED BY <2>1, <2>2
<1>5. g \in LogType /\ RightFile(g)
      /\ PeriodOf(g.name) = PeriodOf(IF MustRoll(f, now) THEN rollTime ELSE now)
  BY <1>1, <1>2, <1>4 DEF RightFile
<1> QED BY <1>5 DEF g

LEMMA AppendToLogFacts ==
  ASSUME log \in LogType, RightFile(log), clock \in Seconds,
         NEW lines \in Seq(Nat), Len(lines) <= BufLines, NEW n \in 0..Len(lines),
         AppendToLog(lines, n)
  PROVE  /\ log' \in LogType /\ RightFile(log') /\ clock' \in Seconds
         /\ PeriodOf(log'.name) = PeriodOf(clock')
<1>1. PICK now \in clock..MaxTime : \E rollTime \in now..MaxTime :
        /\ clock' = IF MustRoll(log, now) THEN rollTime ELSE now
        /\ log' = AppendUnlocked(log, lines, n, now, rollTime)
  BY DEF AppendToLog
<1>2. PICK rollTime \in now..MaxTime :
        /\ clock' = IF MustRoll(log, now) THEN rollTime ELSE now
        /\ log' = AppendUnlocked(log, lines, n, now, rollTime)
  BY <1>1
<1>3. now \in Seconds /\ rollTime \in Seconds
  BY DEF Seconds
<1> QED BY <1>2, <1>3, AppendUnlockedFacts

------------------------------------------------------------------------------
(* The invariant.                                                             *)

LEMMA InitHolds == Init => IInv
<1> SUFFICES ASSUME Init PROVE IInv
  OBVIOUS
<1>1. /\ running \in BOOLEAN /\ hasNext \in BOOLEAN /\ fault \in BOOLEAN
      /\ has1 \in BOOLEAN /\ has2 \in BOOLEAN
  BY DEF Init
<1>2. current \in Buffer /\ Len(current) <= BufLines
  BY DEF Init, Buffer
<1>3. buffers \in Seq(Buffer) /\ toWrite \in Seq(Buffer) /\ num \in 0..Len(toWrite)
  BY DEF Init
<1>4. numLines \in 0..MaxLines /\ dropped \subseteq Lines /\ lost \subseteq Lines
  BY DEF Init
<1>5. clock \in Seconds
  BY DEF Init, Seconds
<1>6. log \in LogType /\ RightFile(log)
  BY <1>5, NewLogFacts DEF Init
<1>7. TypeOK
  BY <1>1, <1>2, <1>3, <1>4, <1>5, <1>6 DEF Init, TypeOK
<1>8. back = "new" /\ owner = "new" /\ hasNext /\ has1 /\ has2 /\ ~fault /\ toWrite = <<>> /\ num = 0
  BY DEF Init
<1>9. BuffersFit
  BY DEF Init, BuffersFit
<1> QED BY <1>6, <1>7, <1>8, <1>9 DEF IInv, BuffersSuffice, SpareUsed, NotStarted, WritesEnough

\* append() does not touch what is the thread's.
LEMMA AppendPreserves == IInv /\ AppendAny => IInv'
<1> SUFFICES ASSUME IInv, AppendAny PROVE IInv'
  OBVIOUS
<1> USE DEF IInv
<1>1. /\ numLines < MaxLines /\ numLines' = numLines + 1
      /\ UNCHANGED <<running, owner, back, has1, has2, toWrite, num, log, clock, dropped, lost, fault>>
  BY DEF AppendAny, thread
<1>2. numLines' \in Lines /\ numLines' \in 0..MaxLines
  BY <1>1 DEF TypeOK, Lines
<1>3. /\ current' \in Buffer /\ Len(current') <= BufLines
      /\ buffers' \in Seq(Buffer)
      /\ hasNext' \in BOOLEAN
      /\ SpareUsed'
  <2>1. CASE Len(current) < BufLines
    <3>1. /\ current' = Append(current, numLines')
          /\ UNCHANGED <<hasNext, buffers>>
      BY <2>1 DEF AppendAny, AppendLine
    <3>2. current' \in Buffer /\ Len(current') <= BufLines
      BY <1>2, <2>1, <3>1 DEF TypeOK, Buffer
    <3> QED BY <3>1, <3>2 DEF TypeOK, SpareUsed
  <2>2. CASE Len(current) >= BufLines
    <3>1. /\ buffers' = Append(buffers, current)
          /\ current' = <<numLines'>>
          /\ hasNext' = FALSE
      <4>1. ~(Len(current) < BufLines)
        BY <2>2 DEF TypeOK, Buffer
      <4> QED BY <4>1 DEF AppendAny, AppendLine
    <3>2. buffers' \in Seq(Buffer) /\ buffers' # <<>>
      BY <3>1 DEF TypeOK
    <3>3. current' \in Buffer /\ Len(current') <= BufLines
      BY <1>2, <3>1 DEF Buffer
    <3> QED BY <3>1, <3>2, <3>3 DEF SpareUsed
  <2> QED BY <2>1, <2>2 DEF TypeOK, Buffer
<1>4. TypeOK'
  BY <1>1, <1>2, <1>3 DEF TypeOK
<1>5. BuffersFit'
  <2>1. CASE Len(current) < BufLines
    BY <1>1, <2>1 DEF AppendAny, AppendLine, BuffersFit
  <2>2. CASE ~(Len(current) < BufLines)
    <3>1. buffers' = Append(buffers, current)
      BY <2>2 DEF AppendAny, AppendLine
    <3>2. Len(current) <= BufLines /\ buffers \in Seq(Buffer)
      BY DEF TypeOK
    <3>3. \A i \in DOMAIN buffers' : Len(buffers'[i]) <= BufLines
      BY <3>1, <3>2 DEF BuffersFit
    <3> QED BY <1>1, <3>3 DEF BuffersFit
  <2> QED BY <2>1, <2>2
<1> QED BY <1>1, <1>3, <1>4, <1>5 DEF BuffersSuffice, NotStarted, WritesEnough

\* The owner and the thread's tests.
LEMMA ControlPreserves ==
  IInv /\ (Start \/ Stop \/ Join \/ TestRunning \/ WaitForSeconds) => IInv'
<1> SUFFICES ASSUME IInv, Start \/ Stop \/ Join \/ TestRunning \/ WaitForSeconds PROVE IInv'
  OBVIOUS
<1> USE DEF IInv, TypeOK, BuffersSuffice, SpareUsed, NotStarted, WritesEnough, BuffersFit, front, thread
<1>1. CASE Start BY <1>1 DEF Start
<1>2. CASE Stop BY <1>2 DEF Stop
<1>3. CASE Join BY <1>3 DEF Join
<1>4. CASE TestRunning BY <1>4 DEF TestRunning
<1>5. CASE WaitForSeconds BY <1>5 DEF WaitForSeconds
<1> QED BY <1>1, <1>2, <1>3, <1>4, <1>5

\* The buffers change hands.
LEMMA SwapPreserves == IInv /\ Swap => IInv'
<1> SUFFICES ASSUME IInv, Swap PROVE IInv'
  OBVIOUS
<1> USE DEF IInv
<1>1. /\ back \in {"lock", "wait"} /\ back' = "drop"
      /\ toWrite' = Append(buffers, current)
      /\ buffers' = <<>> /\ current' = <<>>
      /\ has1' = FALSE /\ has2' = (has2 /\ hasNext) /\ hasNext' = TRUE
      /\ UNCHANGED <<running, owner, num, log, clock, dropped, lost, numLines, fault>>
  BY DEF Swap, TakeBuffers, RenewNext
<1>2. has1 /\ has2 /\ toWrite = <<>> /\ fault = FALSE /\ num = 0
  BY <1>1 DEF BuffersSuffice, TypeOK, WritesEnough
<1>3. /\ toWrite' \in Seq(Buffer) /\ toWrite' # <<>>
      /\ Len(toWrite') = Len(buffers) + 1
  BY <1>1 DEF TypeOK
<1>4. TypeOK'
  <2>1. current' \in Buffer /\ Len(current') <= BufLines /\ buffers' \in Seq(Buffer)
    BY <1>1 DEF Buffer
  <2>2. has1' \in BOOLEAN /\ has2' \in BOOLEAN /\ hasNext' \in BOOLEAN
    BY <1>1
  <2>3. num' \in 0..Len(toWrite')
    BY <1>1, <1>2, <1>3 DEF TypeOK
  <2> QED BY <1>1, <1>3, <2>1, <2>2, <2>3 DEF TypeOK
<1>5. Len(toWrite') >= (IF has2' THEN 1 ELSE 2)
  <2>1. CASE hasNext
    <3>1. has2'
      BY <1>1, <1>2, <2>1
    <3>2. Len(toWrite') >= 1
      BY <1>3 DEF TypeOK
    <3> QED BY <3>1, <3>2
  <2>2. CASE ~hasNext
    <3>1. Len(buffers) >= 1
      BY <2>2 DEF SpareUsed, TypeOK
    <3> QED BY <1>3, <3>1 DEF TypeOK
  <2> QED BY <2>1, <2>2 DEF TypeOK
<1>6. BuffersFit'
  <2>1. Len(current) <= BufLines /\ buffers \in Seq(Buffer)
    BY DEF TypeOK
  <2>2. \A i \in DOMAIN toWrite' : Len(toWrite'[i]) <= BufLines
    BY <1>1, <2>1 DEF BuffersFit
  <2> QED BY <1>1, <2>2 DEF BuffersFit
<1> QED BY <1>1, <1>2, <1>3, <1>4, <1>5, <1>6
        DEF BuffersSuffice, SpareUsed, NotStarted, WritesEnough

LEMMA OpenPreserves == IInv /\ OpenFile => IInv'
<1> SUFFICES ASSUME IInv, OpenFile PROVE IInv'
  OBVIOUS
<1> USE DEF IInv
<1>1. PICK now \in clock..MaxTime : clock' = now /\ log' = NewLog(now)
  BY DEF OpenFile
<1>2. clock' \in Seconds /\ log' \in LogType /\ RightFile(log')
  BY <1>1, NewLogFacts DEF TypeOK, Seconds
<1> QED BY <1>2
        DEF OpenFile, front, TypeOK, BuffersSuffice, SpareUsed, NotStarted, WritesEnough, BuffersFit

\* Buffers are given up.
LEMMA DropPreserves == IInv /\ DropBuffers => IInv'
<1> SUFFICES ASSUME IInv, DropBuffers PROVE IInv'
  OBVIOUS
<1> USE DEF IInv
<1>1. /\ back = "drop" /\ back' = "write"
      /\ UNCHANGED <<running, owner, current, hasNext, buffers, has1, has2, num, lost, fault, numLines>>
  BY DEF DropBuffers, front
<1>2. /\ ~has1 /\ Len(toWrite) >= (IF has2 THEN 1 ELSE 2)
      /\ toWrite \in Seq(Buffer) /\ toWrite # <<>> /\ num = 0
  BY <1>1 DEF WritesEnough, TypeOK, BuffersSuffice
<1>3. CASE Len(toWrite) > DropOver
  <2>1. /\ AppendToLog(<<Notice>>, 1)
        /\ toWrite' = SubSeq(toWrite, 1, 2)
        /\ dropped' = dropped \cup UNION {ToSet(GivenUp[i]) : i \in DOMAIN GivenUp}
    BY <1>3 DEF DropBuffers
  <2>2. log' \in LogType /\ RightFile(log') /\ clock' \in Seconds
    <3>1. <<Notice>> \in Seq(Nat) /\ Len(<<Notice>>) <= BufLines /\ 1 \in 0..Len(<<Notice>>)
      BY DEF Notice
    <3> QED BY <2>1, <3>1, AppendToLogFacts DEF TypeOK
  <2>3. /\ toWrite' \in Seq(Buffer) /\ Len(toWrite') = 2 /\ toWrite' # <<>>
        /\ \A i \in DOMAIN toWrite' : toWrite'[i] = toWrite[i] /\ i \in DOMAIN toWrite
    <3>1. Len(toWrite) >= 2
      BY <1>2, <1>3
    <3> QED BY <1>2, <2>1, <3>1
  <2>4. dropped' \subseteq Lines
    <3>1. GivenUp \in Seq(Buffer)
      BY <1>2, <1>3 DEF GivenUp
    <3>2. \A i \in DOMAIN GivenUp : ToSet(GivenUp[i]) \subseteq Lines
      <4> SUFFICES ASSUME NEW i \in DOMAIN GivenUp PROVE ToSet(GivenUp[i]) \subseteq Lines
        OBVIOUS
      <4>1. GivenUp[i] \in Buffer
        BY <3>1
      <4> QED BY <4>1 DEF ToSet, Buffer
    <3> QED BY <2>1, <3>2 DEF TypeOK
  <2>5. num' \in 0..Len(toWrite')
    BY <1>1, <1>2, <2>3
  <2>6. TypeOK'
    BY <1>1, <2>2, <2>3, <2>4, <2>5 DEF TypeOK
  <2>7. BuffersFit'
    BY <1>1, <2>3 DEF BuffersFit
  <2> QED BY <1>1, <1>2, <2>2, <2>3, <2>6, <2>7
          DEF BuffersSuffice, SpareUsed, NotStarted, WritesEnough
<1>4. CASE ~(Len(toWrite) > DropOver)
  <2>1. UNCHANGED <<log, clock, toWrite, dropped>>
    BY <1>4 DEF DropBuffers
  <2>2. TypeOK'
    BY <1>1, <2>1 DEF TypeOK
  <2> QED BY <1>1, <1>2, <2>1, <2>2
          DEF BuffersSuffice, SpareUsed, NotStarted, WritesEnough, BuffersFit
<1> QED BY <1>3, <1>4

\* A buffer is written.
LEMMA WritePreserves == IInv /\ WriteBuffer => IInv'
<1> SUFFICES ASSUME IInv, WriteBuffer PROVE IInv'
  OBVIOUS
<1> USE DEF IInv
<1>1. /\ back = "write" /\ num < Len(toWrite) /\ num' = num + 1
      /\ UNCHANGED <<running, owner, current, hasNext, buffers, back, has1, has2, toWrite,
                     dropped, fault, numLines>>
  BY DEF WriteBuffer, front
<1> DEFINE lines == toWrite[num']
<1>2. /\ num' \in DOMAIN toWrite /\ num' \in 0..Len(toWrite)
      /\ lines \in Seq(Lines) /\ lines \in Seq(Nat) /\ Len(lines) <= BufLines
  <2>1. num' \in DOMAIN toWrite /\ num' \in 0..Len(toWrite)
    BY <1>1 DEF TypeOK
  <2>2. lines \in Seq(Lines)
    BY <2>1 DEF TypeOK, Buffer
  <2>3. lines \in Seq(Nat)
    BY <2>2 DEF Lines
  <2> QED BY <2>1, <2>2, <2>3 DEF BuffersFit
<1>3. PICK n \in 0..Len(lines) :
        AppendToLog(lines, n) /\ lost' = lost \cup ToSet(SubSeq(lines, n + 1, Len(lines)))
  BY DEF WriteBuffer
<1> HIDE DEF lines
<1>4. log' \in LogType /\ RightFile(log') /\ clock' \in Seconds
  BY <1>2, <1>3, AppendToLogFacts DEF TypeOK
<1>5. lost' \subseteq Lines
  <2>1. SubSeq(lines, n + 1, Len(lines)) \in Seq(Lines)
    BY <1>2
  <2>2. ToSet(SubSeq(lines, n + 1, Len(lines))) \subseteq Lines
    BY <2>1 DEF ToSet
  <2> QED BY <1>3, <2>2 DEF TypeOK
<1>6. TypeOK'
  BY <1>1, <1>2, <1>4, <1>5 DEF TypeOK
<1> QED BY <1>1, <1>4, <1>6
        DEF BuffersSuffice, SpareUsed, NotStarted, WritesEnough, BuffersFit

\* The thread gets its buffers back.
LEMMA EndRoundPreserves == IInv /\ EndRound => IInv'
<1> SUFFICES ASSUME IInv, EndRound PROVE IInv'
  OBVIOUS
<1> USE DEF IInv
<1>1. /\ back = "write" /\ back' = "top"
      /\ has1' = TRUE /\ has2' = TRUE /\ toWrite' = <<>> /\ num' = 0 /\ log' = Flush(log)
      /\ UNCHANGED <<running, owner, current, hasNext, buffers, clock, dropped, lost, numLines>>
  BY DEF EndRound, front
<1>2. ~has1 /\ Len(toWrite) >= (IF has2 THEN 1 ELSE 2) /\ toWrite \in Seq(Buffer)
  BY <1>1 DEF WritesEnough, TypeOK
<1>3. fault' = FALSE
  <2> DEFINE left == IF Len(toWrite) > 2 THEN 2 ELSE Len(toWrite)
             wanted == (IF has1 THEN 0 ELSE 1) + (IF has2 THEN 0 ELSE 1)
  <2>1. fault' = (fault \/ left < wanted)
    BY DEF EndRound
  <2>2. ~(left < wanted)
    BY <1>2 DEF TypeOK
  <2> QED BY <2>1, <2>2 DEF BuffersSuffice, TypeOK
<1>4. log' \in LogType /\ RightFile(log')
  BY <1>1, FlushFacts DEF TypeOK, RightFile
<1>5. TypeOK'
  <2>1. has1' \in BOOLEAN /\ has2' \in BOOLEAN /\ fault' \in BOOLEAN
    BY <1>1, <1>3
  <2>2. toWrite' \in Seq(Buffer) /\ num' \in 0..Len(toWrite')
    BY <1>1
  <2> QED BY <1>1, <1>4, <2>1, <2>2 DEF TypeOK
<1>6. BuffersFit'
  BY <1>1 DEF BuffersFit
<1> QED BY <1>1, <1>3, <1>4, <1>5, <1>6 DEF BuffersSuffice, SpareUsed, NotStarted, WritesEnough

LEMMA StepPreserves == IInv /\ [Next]_vars => IInv'
<1> SUFFICES ASSUME IInv, [Next]_vars PROVE IInv'
  OBVIOUS
<1>1. CASE Next
  BY <1>1, AppendPreserves, ControlPreserves, OpenPreserves, SwapPreserves, DropPreserves,
     WritePreserves, EndRoundPreserves
  DEF Next, Thread
<1>2. CASE UNCHANGED vars
  BY <1>2
  DEF vars, front, thread, IInv, TypeOK, BuffersSuffice, SpareUsed, NotStarted, WritesEnough,
      BuffersFit, RightFile
<1> QED BY <1>1, <1>2

\* Only what a round appends counts, and that goes where AppendToLogFacts says.
LEMMA AppendsGoToRightFile ==
  IInv /\ [Next]_vars =>
    (log' # log /\ back' # "top" =>
       PeriodOf(log'.name) = PeriodOf(clock') /\ log'.written <= RollSize + BufLines)
<1> SUFFICES ASSUME IInv, [Next]_vars, log' # log, back' # "top"
             PROVE  PeriodOf(log'.name) = PeriodOf(clock') /\ log'.written <= RollSize + BufLines
  OBVIOUS
<1>1. IInv' /\ RightFile(log')
  BY StepPreserves DEF IInv
<1>2. DropBuffers \/ WriteBuffer
  BY DEF Next, Thread, AppendAny, Start, Stop, Join, OpenFile, TestRunning, WaitForSeconds,
         Swap, EndRound, thread, vars
<1>3. log \in LogType /\ RightFile(log) /\ clock \in Seconds
  BY DEF IInv, TypeOK
<1>4. CASE DropBuffers
  <2>1. AppendToLog(<<Notice>>, 1)
    BY <1>4 DEF DropBuffers
  <2>2. <<Notice>> \in Seq(Nat) /\ Len(<<Notice>>) <= BufLines /\ 1 \in 0..Len(<<Notice>>)
    BY DEF Notice
  <2>3. PeriodOf(log'.name) = PeriodOf(clock')
    BY <1>3, <2>1, <2>2, AppendToLogFacts
  <2> QED BY <1>1, <2>3 DEF RightFile
<1>5. CASE WriteBuffer
  <2> DEFINE lines == toWrite[num']
  <2>1. num' \in DOMAIN toWrite
    BY <1>5 DEF WriteBuffer, IInv, TypeOK
  <2>2. lines \in Seq(Nat) /\ Len(lines) <= BufLines
    <3>1. lines \in Seq(Lines)
      BY <2>1 DEF IInv, TypeOK, Buffer
    <3>2. lines \in Seq(Nat)
      BY <3>1 DEF Lines
    <3> QED BY <2>1, <3>2 DEF IInv, BuffersFit
  <2>3. PICK n \in 0..Len(lines) : AppendToLog(lines, n)
    BY <1>5 DEF WriteBuffer
  <2> HIDE DEF lines
  <2>4. PeriodOf(log'.name) = PeriodOf(clock')
    BY <1>3, <2>2, <2>3, AppendToLogFacts
  <2> QED BY <1>1, <2>4 DEF RightFile
<1> QED BY <1>2, <1>4, <1>5

LEMMA AlwaysIInv == Spec => []IInv
  BY InitHolds, StepPreserves, PTL DEF Spec

\* Every variable stays in its type, and m_currentBuffer within its size.
THEOREM TypeCorrect == Spec => []TypeOK
  BY AlwaysIInv, PTL DEF IInv

\* The assertions at AsyncLogging.cpp:83-85, 102, 133 and 141 never fail.
THEOREM AssertionsHold == Spec => []BuffersSuffice
  BY AlwaysIInv, PTL DEF IInv

\* No line goes to a file of another day, nor to one that is full, whatever the
\* sizes (LogFile.cpp:60-76).
THEOREM FilesAreRolled == Spec => FilesRoll
<1>1. IInv /\ [Next]_vars =>
        [log' # log /\ back' # "top" =>
           /\ PeriodOf(log'.name) = PeriodOf(clock')
           /\ log'.written <= RollSize + BufLines]_vars
  BY AppendsGoToRightFile
<1> QED BY <1>1, AlwaysIInv, PTL DEF Spec, FilesRoll

------------------------------------------------------------------------------
(* The order of lines within a chunk.                                         *)

LEMMA SumIndices ==
  ASSUME NEW k \in Nat, NEW l \in Nat
  PROVE  \A i \in 1..(k + l) : i \in 1..k \/ \E j \in 1..l : i = k + j
<1> SUFFICES ASSUME NEW i \in 1..(k + l), ~(i \in 1..k) PROVE \E j \in 1..l : i = k + j
  OBVIOUS
<1>1. i - k \in 1..l /\ i = k + (i - k)
  OBVIOUS
<1>2. QED  BY <1>1

\* The indices of a concatenation.
LEMMA ConcatIndices ==
  ASSUME NEW S, NEW a \in Seq(S), NEW b \in Seq(S), NEW k, k = Len(a), NEW l, l = Len(b),
         NEW c, c = a \o b
  PROVE  /\ k \in Nat /\ l \in Nat
         /\ DOMAIN a = 1..k /\ DOMAIN b = 1..l /\ DOMAIN c = 1..(k + l)
         /\ \A i \in 1..k : a[i] \in S
         /\ \A i \in 1..l : b[i] \in S
         /\ \A i \in 1..k : i \in 1..(k + l) /\ c[i] = a[i]
         /\ \A i \in 1..l : k + i \in 1..(k + l) /\ c[k + i] = b[i]
<1>1. /\ k \in Nat /\ l \in Nat /\ DOMAIN a = 1..k /\ DOMAIN b = 1..l
      /\ \A i \in 1..k : a[i] \in S
      /\ \A i \in 1..l : b[i] \in S
  BY LenProperties, ElementOfSeq
<1>2. /\ c \in Seq(S) /\ Len(c) = k + l
      /\ \A i \in 1..(k + l) : c[i] = IF i <= k THEN a[i] ELSE b[i - k]
  BY ConcatProperties
<1>3. DOMAIN c = 1..(k + l)
  BY <1>2, LenProperties
<1>4. \A i \in 1..k : i \in 1..(k + l) /\ c[i] = a[i]
  BY <1>1, <1>2
<1>5. \A i \in 1..l : k + i \in 1..(k + l) /\ c[k + i] = b[i]
  <2> SUFFICES ASSUME NEW i \in 1..l PROVE k + i \in 1..(k + l) /\ c[k + i] = b[i]
    OBVIOUS
  <2>1. k + i \in 1..(k + l) /\ ~(k + i <= k) /\ (k + i) - k = i
    BY <1>1
  <2>2. QED  BY <2>1, <1>2
<1>6. QED  BY <1>1, <1>3, <1>4, <1>5

LEMMA LinesOfConcat ==
  ASSUME NEW a \in Seq(Nat), NEW b \in Seq(Nat)
  PROVE  /\ LinesOf(a \o b) = LinesOf(a) \cup LinesOf(b)
         /\ Ascending(a \o b) <=>
              Ascending(a) /\ Ascending(b) /\ Before(LinesOf(a), LinesOf(b))
<1> DEFINE c == a \o b
           k == Len(a)
           l == Len(b)
<1>1. /\ k \in Nat /\ l \in Nat /\ DOMAIN a = 1..k /\ DOMAIN b = 1..l
      /\ \A i \in 1..k : a[i] \in Nat
      /\ \A i \in 1..l : b[i] \in Nat
  BY ConcatIndices
<1>2. k = Len(a) /\ l = Len(b) /\ c = a \o b
  OBVIOUS
<1> HIDE DEF c, k, l
<1>3. DOMAIN c = 1..(k + l)
  BY <1>2, ConcatIndices
<1>4. \A i \in 1..k : i \in 1..(k + l) /\ c[i] = a[i]
  BY <1>2, ConcatIndices
<1>5. \A i \in 1..l : k + i \in 1..(k + l) /\ c[k + i] = b[i]
  BY <1>2, ConcatIndices
<1>6. \A i \in 1..(k + l) : i \in 1..k \/ \E j \in 1..l : i = k + j
  BY <1>1, SumIndices
<1>7. ToSet(c) = ToSet(a) \cup ToSet(b)
  <2>1. ToSet(c) = {c[i] : i \in 1..(k + l)}
    BY <1>3 DEF ToSet
  <2>2. ToSet(a) = {a[i] : i \in 1..k} /\ ToSet(b) = {b[i] : i \in 1..l}
    BY <1>1 DEF ToSet
  <2>3. ASSUME NEW x \in ToSet(c) PROVE x \in ToSet(a) \cup ToSet(b)
    <3>1. PICK i \in 1..(k + l) : x = c[i]
      BY <2>1
    <3>2. CASE i \in 1..k
      BY <3>1, <3>2, <2>2, <1>4
    <3>3. ASSUME NEW j \in 1..l, i = k + j PROVE x \in ToSet(b)
      BY <3>1, <3>3, <2>2, <1>5
    <3>4. QED  BY <3>2, <3>3, <1>6
  <2>4. \A x \in ToSet(a) \cup ToSet(b) : x \in ToSet(c)
    BY <2>1, <2>2, <1>4, <1>5
  <2>5. QED  BY <2>3, <2>4
<1>8. LinesOf(c) = LinesOf(a) \cup LinesOf(b)
  BY <1>7 DEF LinesOf
<1>9. ASSUME Ascending(c) PROVE Ascending(a) /\ Ascending(b) /\ Before(LinesOf(a), LinesOf(b))
  <2>1. \A i, j \in 1..(k + l) : i < j /\ c[i] # Notice /\ c[j] # Notice => c[i] < c[j]
    BY <1>3, <1>9 DEF Ascending
  <2>2. Ascending(a)
    BY <2>1, <1>1, <1>4 DEF Ascending
  <2>3. ASSUME NEW i \in 1..l, NEW j \in 1..l, i < j, b[i] # Notice, b[j] # Notice
        PROVE  b[i] < b[j]
    <3>1. k + i < k + j
      BY <2>3, <1>1
    <3>2. QED  BY <3>1, <2>1, <2>3, <1>5
  <2>4. ASSUME NEW x \in LinesOf(a), NEW y \in LinesOf(b) PROVE x < y
    <3>1. PICK i \in 1..k : x = a[i]
      BY <1>1 DEF LinesOf, ToSet
    <3>2. PICK j \in 1..l : y = b[j]
      BY <1>1 DEF LinesOf, ToSet
    <3>3. x # Notice /\ y # Notice
      BY DEF LinesOf
    <3>4. i < k + j
      BY <1>1
    <3>5. QED  BY <3>1, <3>2, <3>3, <3>4, <2>1, <1>4, <1>5
  <2>5. QED  BY <2>2, <2>3, <2>4, <1>1 DEF Ascending, Before
<1>10. ASSUME Ascending(a), Ascending(b), Before(LinesOf(a), LinesOf(b)) PROVE Ascending(c)
  <2> SUFFICES ASSUME NEW i \in 1..(k + l), NEW j \in 1..(k + l), i < j,
                      c[i] # Notice, c[j] # Notice
               PROVE  c[i] < c[j]
    BY <1>3 DEF Ascending
  <2>1. CASE i \in 1..k /\ j \in 1..k
    BY <2>1, <1>1, <1>4, <1>10 DEF Ascending
  <2>2. ASSUME NEW m \in 1..l, i \in 1..k, j = k + m PROVE c[i] < c[j]
    <3>1. c[i] = a[i] /\ c[j] = b[m]
      BY <2>2, <1>4, <1>5
    <3>2. c[i] \in LinesOf(a) /\ c[j] \in LinesOf(b)
      BY <2>2, <3>1, <1>1 DEF LinesOf, ToSet
    <3>3. QED  BY <3>2, <1>10 DEF Before
  <2>3. ASSUME NEW m \in 1..l, NEW n \in 1..l, i = k + n, j = k + m PROVE c[i] < c[j]
    <3>1. n < m /\ c[i] = b[n] /\ c[j] = b[m]
      BY <2>3, <1>1, <1>5
    <3>2. QED  BY <3>1, <1>1, <1>10 DEF Ascending
  <2>4. ASSUME NEW n \in 1..l, i = k + n, j \in 1..k PROVE FALSE
    BY <2>4, <1>1
  <2>5. QED  BY <2>1, <2>2, <2>3, <2>4, <1>6
<1>11. QED  BY <1>8, <1>9, <1>10 DEF c

\* And of a sequence of chunks.
LEMMA LinesInConcat ==
  ASSUME NEW a \in Seq(Seq(Nat)), NEW b \in Seq(Seq(Nat))
  PROVE  /\ LinesIn(a \o b) = LinesIn(a) \cup LinesIn(b)
         /\ InOrder(a \o b) <=>
              InOrder(a) /\ InOrder(b) /\ Before(LinesIn(a), LinesIn(b))
<1> DEFINE c == a \o b
           k == Len(a)
           l == Len(b)
<1>1. /\ k \in Nat /\ l \in Nat /\ DOMAIN a = 1..k /\ DOMAIN b = 1..l
  BY ConcatIndices
<1>2. k = Len(a) /\ l = Len(b) /\ c = a \o b
  OBVIOUS
<1> HIDE DEF c, k, l
<1>3. DOMAIN c = 1..(k + l)
  BY <1>2, ConcatIndices
<1>4. \A i \in 1..k : i \in 1..(k + l) /\ c[i] = a[i]
  BY <1>2, ConcatIndices
<1>5. \A i \in 1..l : k + i \in 1..(k + l) /\ c[k + i] = b[i]
  BY <1>2, ConcatIndices
<1>6. \A i \in 1..(k + l) : i \in 1..k \/ \E j \in 1..l : i = k + j
  BY <1>1, SumIndices
<1>7. LinesIn(c) = LinesIn(a) \cup LinesIn(b)
  <2>1. \A x : x \in LinesIn(c) <=> \E i \in 1..(k + l) : x \in LinesOf(c[i])
    BY <1>3 DEF LinesIn
  <2>2. /\ \A x : x \in LinesIn(a) <=> \E i \in 1..k : x \in LinesOf(a[i])
        /\ \A x : x \in LinesIn(b) <=> \E i \in 1..l : x \in LinesOf(b[i])
    BY <1>1 DEF LinesIn
  <2>3. ASSUME NEW x \in LinesIn(c) PROVE x \in LinesIn(a) \cup LinesIn(b)
    <3>1. PICK i \in 1..(k + l) : x \in LinesOf(c[i])
      BY <2>1
    <3>2. CASE i \in 1..k
      BY <3>1, <3>2, <2>2, <1>4
    <3>3. ASSUME NEW j \in 1..l, i = k + j PROVE x \in LinesIn(b)
      BY <3>1, <3>3, <2>2, <1>5
    <3>4. QED  BY <3>2, <3>3, <1>6
  <2>4. ASSUME NEW x \in LinesIn(a) PROVE x \in LinesIn(c)
    BY <2>1, <2>2, <1>4
  <2>5. ASSUME NEW x \in LinesIn(b) PROVE x \in LinesIn(c)
    BY <2>1, <2>2, <1>5
  <2>6. QED  BY <2>3, <2>4, <2>5
<1>8. ASSUME InOrder(c) PROVE InOrder(a) /\ InOrder(b) /\ Before(LinesIn(a), LinesIn(b))
  <2>1. /\ \A i \in 1..(k + l) : Ascending(c[i])
        /\ \A i, j \in 1..(k + l) : i < j => Before(LinesOf(c[i]), LinesOf(c[j]))
    BY <1>3, <1>8 DEF InOrder
  <2>2. InOrder(a)
    <3>1. ASSUME NEW i \in 1..k PROVE Ascending(a[i])
      BY <2>1, <1>4
    <3>2. ASSUME NEW i \in 1..k, NEW j \in 1..k, i < j PROVE Before(LinesOf(a[i]), LinesOf(a[j]))
      BY <3>2, <2>1, <1>4
    <3>3. QED  BY <3>1, <3>2, <1>1 DEF InOrder
  <2>3. ASSUME NEW i \in 1..l PROVE Ascending(b[i])
    BY <2>1, <1>5
  <2>4. ASSUME NEW i \in 1..l, NEW j \in 1..l, i < j PROVE Before(LinesOf(b[i]), LinesOf(b[j]))
    <3>1. k + i < k + j
      BY <2>4, <1>1
    <3>2. QED  BY <3>1, <2>1, <1>5
  <2>5. ASSUME NEW x \in LinesIn(a), NEW y \in LinesIn(b) PROVE x < y
    <3>1. PICK i \in 1..k : x \in LinesOf(a[i])
      BY <1>1 DEF LinesIn
    <3>2. PICK j \in 1..l : y \in LinesOf(b[j])
      BY <1>1 DEF LinesIn
    <3>3. i < k + j
      BY <1>1
    <3>4. Before(LinesOf(a[i]), LinesOf(b[j]))
      BY <3>3, <2>1, <1>4, <1>5
    <3>5. QED  BY <3>1, <3>2, <3>4 DEF Before
  <2>6. InOrder(b)
    BY <2>3, <2>4, <1>1 DEF InOrder
  <2>7. QED  BY <2>2, <2>5, <2>6 DEF Before
<1>9. ASSUME InOrder(a), InOrder(b), Before(LinesIn(a), LinesIn(b)) PROVE InOrder(c)
  <2>1. ASSUME NEW i \in 1..(k + l) PROVE Ascending(c[i])
    <3>1. CASE i \in 1..k
      BY <3>1, <1>1, <1>4, <1>9 DEF InOrder
    <3>2. ASSUME NEW j \in 1..l, i = k + j PROVE Ascending(c[i])
      BY <3>2, <1>1, <1>5, <1>9 DEF InOrder
    <3>3. QED  BY <3>1, <3>2, <1>6
  <2>2. ASSUME NEW i \in 1..(k + l), NEW j \in 1..(k + l), i < j
        PROVE  Before(LinesOf(c[i]), LinesOf(c[j]))
    <3>1. CASE i \in 1..k /\ j \in 1..k
      BY <3>1, <2>2, <1>1, <1>4, <1>9 DEF InOrder
    <3>2. ASSUME NEW m \in 1..l, i \in 1..k, j = k + m
          PROVE  Before(LinesOf(c[i]), LinesOf(c[j]))
      <4>1. c[i] = a[i] /\ c[j] = b[m]
        BY <3>2, <1>4, <1>5
      <4>2. /\ \A x \in LinesOf(a[i]) : x \in LinesIn(a)
            /\ \A x \in LinesOf(b[m]) : x \in LinesIn(b)
        BY <3>2, <1>1 DEF LinesIn
      <4>3. QED  BY <4>1, <4>2, <1>9 DEF Before
    <3>3. ASSUME NEW n \in 1..l, NEW m \in 1..l, i = k + n, j = k + m
          PROVE  Before(LinesOf(c[i]), LinesOf(c[j]))
      <4>1. n < m /\ c[i] = b[n] /\ c[j] = b[m]
        BY <2>2, <3>3, <1>1, <1>5
      <4>2. QED  BY <4>1, <1>1, <1>9 DEF InOrder
    <3>4. ASSUME NEW n \in 1..l, i = k + n, j \in 1..k PROVE FALSE
      BY <2>2, <3>4, <1>1
    <3>5. QED  BY <3>1, <3>2, <3>3, <3>4, <1>6
  <2>3. QED  BY <2>1, <2>2, <1>3 DEF InOrder
<1>10. QED  BY <1>7, <1>8, <1>9 DEF c

\* A sequence and its two pieces.
LEMMA Cut ==
  ASSUME NEW S, NEW s \in Seq(S), NEW n \in 0..Len(s)
  PROVE  /\ SubSeq(s, 1, n) \in Seq(S) /\ SubSeq(s, n + 1, Len(s)) \in Seq(S)
         /\ SubSeq(s, 1, n) \o SubSeq(s, n + 1, Len(s)) = s
<1>1. Len(s) \in Nat /\ \A i \in 1..Len(s) : s[i] \in S
  BY LenProperties, ElementOfSeq
<1>2. SubSeq(s, 1, n) \in Seq(S) /\ SubSeq(s, n + 1, Len(s)) \in Seq(S)
  BY <1>1, SubSeqProperties
<1>3. 1 \in 1..(Len(s) + 1) /\ n \in (1 - 1)..Len(s) /\ Len(s) \in n..Len(s)
  BY <1>1
<1>4. SubSeq(s, 1, n) \o SubSeq(s, n + 1, Len(s)) = SubSeq(s, 1, Len(s))
  BY <1>3, ConcatAdjacentSubSeq
<1>5. SubSeq(s, 1, Len(s)) = s
  BY SubSeqFull
<1>6. QED  BY <1>2, <1>4, <1>5

LEMMA CutChunk ==
  ASSUME NEW s \in Seq(Nat), NEW n \in 0..Len(s)
  PROVE  LET f == SubSeq(s, 1, n)
             r == SubSeq(s, n + 1, Len(s))
         IN /\ f \in Seq(Nat) /\ r \in Seq(Nat)
            /\ LinesOf(s) = LinesOf(f) \cup LinesOf(r)
            /\ Ascending(s) => Ascending(f) /\ Ascending(r) /\ Before(LinesOf(f), LinesOf(r))
<1> DEFINE f == SubSeq(s, 1, n)
           r == SubSeq(s, n + 1, Len(s))
<1>1. f \in Seq(Nat) /\ r \in Seq(Nat) /\ f \o r = s
  BY Cut
<1> HIDE DEF f, r
<1>2. /\ LinesOf(s) = LinesOf(f) \cup LinesOf(r)
      /\ Ascending(s) => Ascending(f) /\ Ascending(r) /\ Before(LinesOf(f), LinesOf(r))
  BY <1>1, LinesOfConcat
<1>3. QED  BY <1>1, <1>2 DEF f, r

LEMMA CutChunks ==
  ASSUME NEW s \in Seq(Seq(Nat)), NEW n \in 0..Len(s)
  PROVE  LET f == SubSeq(s, 1, n)
             r == SubSeq(s, n + 1, Len(s))
         IN /\ f \in Seq(Seq(Nat)) /\ r \in Seq(Seq(Nat))
            /\ LinesIn(s) = LinesIn(f) \cup LinesIn(r)
            /\ InOrder(s) => InOrder(f) /\ InOrder(r) /\ Before(LinesIn(f), LinesIn(r))
<1> DEFINE f == SubSeq(s, 1, n)
           r == SubSeq(s, n + 1, Len(s))
<1>1. f \in Seq(Seq(Nat)) /\ r \in Seq(Seq(Nat)) /\ f \o r = s
  BY Cut
<1> HIDE DEF f, r
<1>2. /\ LinesIn(s) = LinesIn(f) \cup LinesIn(r)
      /\ InOrder(s) => InOrder(f) /\ InOrder(r) /\ Before(LinesIn(f), LinesIn(r))
  BY <1>1, LinesInConcat
<1>3. QED  BY <1>1, <1>2 DEF f, r

\* No lines, one line, one chunk.
LEMMA NoLines ==
  /\ LinesOf(<<>>) = {} /\ Ascending(<<>>) /\ LinesIn(<<>>) = {} /\ InOrder(<<>>)
  /\ <<>> \in Seq(Nat) /\ <<>> \in Seq(Seq(Nat))
  BY DEF LinesOf, ToSet, Ascending, LinesIn, InOrder

LEMMA OneLine ==
  ASSUME NEW m \in Nat
  PROVE  /\ <<m>> \in Seq(Nat) /\ Ascending(<<m>>) /\ LinesOf(<<m>>) = {m} \ {Notice}
<1>1. <<m>> \in Seq(Nat) /\ DOMAIN <<m>> = {1} /\ <<m>>[1] = m
  OBVIOUS
<1>2. ToSet(<<m>>) = {m}
  BY <1>1 DEF ToSet
<1>3. Ascending(<<m>>)
  BY <1>1 DEF Ascending
<1>4. QED  BY <1>1, <1>2, <1>3 DEF LinesOf

LEMMA OneChunk ==
  ASSUME NEW c \in Seq(Nat)
  PROVE  /\ <<c>> \in Seq(Seq(Nat)) /\ LinesIn(<<c>>) = LinesOf(c)
         /\ InOrder(<<c>>) <=> Ascending(c)
<1>1. <<c>> \in Seq(Seq(Nat)) /\ DOMAIN <<c>> = {1} /\ <<c>>[1] = c
  OBVIOUS
<1>2. LinesIn(<<c>>) = LinesOf(c)
  BY <1>1 DEF LinesIn
<1>3. InOrder(<<c>>) <=> Ascending(c)
  BY <1>1 DEF InOrder
<1>4. QED  BY <1>1, <1>2, <1>3

------------------------------------------------------------------------------
(* The order of lines in the log.                                             *)

\* Files later than the open one have nothing yet.
LogInOrder(f) ==
  /\ InOrder(f.disk) /\ Ascending(f.stdio) /\ Before(LinesIn(f.disk), LinesOf(f.stdio))
  /\ \A t \in Seconds : t > f.name => f.disk[t] = <<>>
LogLines(f) == LinesIn(f.disk) \cup LinesOf(f.stdio)

\* What is written goes behind all that is on the disk.
LEMMA WrittenInOrder ==
  ASSUME NEW f \in LogType, NEW lines \in Seq(Nat),
         InOrder(f.disk), \A t \in Seconds : t > f.name => f.disk[t] = <<>>,
         Ascending(lines), Before(LinesIn(f.disk), LinesOf(lines)),
         NEW d, d = WithLines(f, lines)
  PROVE  /\ InOrder(d) /\ LinesIn(d) = LinesIn(f.disk) \cup LinesOf(lines)
         /\ \A t \in Seconds : t > f.name => d[t] = <<>>
<1> DEFINE e == f.disk
           m == f.name
<1>1. e \in [Seconds -> Seq(Nat)] /\ m \in Seconds /\ DOMAIN e = Seconds
  BY DEF LogType
<1>2. d = [e EXCEPT ![m] = e[m] \o lines]
  BY DEF WithLines
<1>3. \A t \in Seconds : t > m => e[t] = <<>>
  OBVIOUS
<1>4. InOrder(e) /\ Before(LinesIn(e), LinesOf(lines))
  OBVIOUS
<1> HIDE DEF e, m
<1>5. DOMAIN d = Seconds /\ d[m] = e[m] \o lines /\ \A t \in Seconds : t # m => d[t] = e[t]
  BY <1>1, <1>2
<1>6. /\ LinesOf(d[m]) = LinesOf(e[m]) \cup LinesOf(lines)
      /\ Ascending(d[m]) <=> Ascending(e[m]) /\ Ascending(lines) /\ Before(LinesOf(e[m]), LinesOf(lines))
  <2>1. e[m] \in Seq(Nat)
    BY <1>1
  <2>2. QED  BY <2>1, <1>5, LinesOfConcat
<1>7. /\ \A t \in Seconds : Ascending(e[t])
      /\ \A t, u \in Seconds : t < u => Before(LinesOf(e[t]), LinesOf(e[u]))
  BY <1>1, <1>4 DEF InOrder
<1>8. \A t \in Seconds : LinesOf(e[t]) \subseteq LinesIn(e)
  BY <1>1 DEF LinesIn
<1>9. \A t \in Seconds : Before(LinesOf(e[t]), LinesOf(lines))
  BY <1>4, <1>8 DEF Before
<1>10. \A t \in Seconds : t > m => d[t] = <<>>
  <2>1. m \in Nat
    BY <1>1 DEF Seconds
  <2>2. \A t \in Seconds : t > m => t # m
    BY <2>1 DEF Seconds
  <2>3. QED  BY <2>2, <1>3, <1>5
<1>11. \A t \in Seconds : Ascending(d[t])
  BY <1>1, <1>5, <1>6, <1>7, <1>9
<1>12. ASSUME NEW t \in Seconds, NEW u \in Seconds, t < u
       PROVE  Before(LinesOf(d[t]), LinesOf(d[u]))
  <2>1. CASE t # m /\ u # m
    BY <2>1, <1>5, <1>7, <1>12
  <2>2. CASE u = m
    <3>1. t # m
      BY <2>2, <1>12 DEF Seconds
    <3>2. d[t] = e[t] /\ LinesOf(d[u]) = LinesOf(e[u]) \cup LinesOf(lines)
      BY <3>1, <2>2, <1>5, <1>6
    <3>3. Before(LinesOf(e[t]), LinesOf(e[u])) /\ Before(LinesOf(e[t]), LinesOf(lines))
      BY <1>7, <1>9, <1>12
    <3>4. QED  BY <3>2, <3>3 DEF Before
  <2>3. CASE t = m
    <3>1. d[u] = <<>>
      BY <2>3, <1>10, <1>12 DEF Seconds
    <3>2. LinesOf(d[u]) = {}
      BY <3>1, NoLines
    <3>3. QED  BY <3>2 DEF Before
  <2>4. QED  BY <2>1, <2>2, <2>3
<1>13. LinesIn(d) = LinesIn(e) \cup LinesOf(lines)
  <2>1. \A x : x \in LinesIn(d) <=> \E t \in Seconds : x \in LinesOf(d[t])
    BY <1>5 DEF LinesIn
  <2>2. \A x : x \in LinesIn(e) <=> \E t \in Seconds : x \in LinesOf(e[t])
    BY <1>1 DEF LinesIn
  <2>3. ASSUME NEW x \in LinesIn(d) PROVE x \in LinesIn(e) \cup LinesOf(lines)
    <3>1. PICK t \in Seconds : x \in LinesOf(d[t])
      BY <2>1
    <3>2. QED  BY <3>1, <2>2, <1>5, <1>6
  <2>4. ASSUME NEW x \in LinesIn(e) PROVE x \in LinesIn(d)
    <3>1. PICK t \in Seconds : x \in LinesOf(e[t])
      BY <2>2
    <3>2. QED  BY <3>1, <2>1, <1>5, <1>6
  <2>5. ASSUME NEW x \in LinesOf(lines) PROVE x \in LinesIn(d)
    BY <2>1, <1>1, <1>6
  <2>6. QED  BY <2>3, <2>4, <2>5
<1>14. InOrder(d)
  BY <1>5, <1>11, <1>12 DEF InOrder
<1>15. QED  BY <1>10, <1>13, <1>14 DEF e, m

LEMMA FlushInOrder ==
  ASSUME NEW f \in LogType, LogInOrder(f), NEW g, g = Flush(f)
  PROVE  LogInOrder(g) /\ LogLines(g) = LogLines(f) /\ g.name = f.name
<1> DEFINE d == WithLines(f, f.stdio)
<1>1. f.stdio \in Seq(Nat)
  BY DEF LogType
<1>2. /\ InOrder(d) /\ LinesIn(d) = LinesIn(f.disk) \cup LinesOf(f.stdio)
      /\ \A t \in Seconds : t > f.name => d[t] = <<>>
  BY <1>1, WrittenInOrder DEF LogInOrder
<1>3. g.disk = d /\ g.stdio = <<>> /\ g.name = f.name
  BY DEF Flush, LogType
<1> HIDE DEF d
<1>4. LinesOf(<<>>) = {} /\ Ascending(<<>>) /\ Before(LinesIn(d), {})
  BY NoLines DEF Before
<1>5. QED  BY <1>2, <1>3, <1>4 DEF LogInOrder, LogLines

LEMMA RollInOrder ==
  ASSUME NEW f \in LogType, LogInOrder(f), NEW now \in Seconds, f.name <= now,
         NEW g, g = RollFile(f, now)
  PROVE  LogInOrder(g) /\ LogLines(g) = LogLines(f)
<1> DEFINE d == WithLines(f, f.stdio)
<1>1. f.stdio \in Seq(Nat) /\ f.name \in Seconds
  BY DEF LogType
<1>2. /\ InOrder(d) /\ LinesIn(d) = LinesIn(f.disk) \cup LinesOf(f.stdio)
      /\ \A t \in Seconds : t > f.name => d[t] = <<>>
  BY <1>1, WrittenInOrder DEF LogInOrder
<1>3. g.disk = d /\ g.stdio = <<>> /\ g.name = now
  BY DEF RollFile, LogType
<1> HIDE DEF d
<1>4. LinesOf(<<>>) = {} /\ Ascending(<<>>) /\ Before(LinesIn(d), {})
  BY NoLines DEF Before
<1>5. \A t \in Seconds : t > now => d[t] = <<>>
  BY <1>1, <1>2 DEF Seconds
<1>6. QED  BY <1>2, <1>3, <1>4, <1>5 DEF LogInOrder, LogLines

\* What fwrite takes comes behind the rest, part of it still in the FILE.
LEMMA AppendInOrder ==
  ASSUME NEW f \in LogType, LogInOrder(f), NEW lines \in Seq(Nat), NEW n \in 0..Len(lines),
         Ascending(lines), Before(LogLines(f), LinesOf(lines)),
         NEW g, g = AppendToFile(f, lines, n)
  PROVE  /\ LogInOrder(g) /\ g.name = f.name
         /\ LogLines(g) = LogLines(f) \cup LinesOf(SubSeq(lines, 1, n))
<1> DEFINE e == SubSeq(lines, 1, n)
           all == f.stdio \o e
           spilled == IF Len(all) < StdioSize THEN 0 ELSE Len(all) - (Len(all) % StdioSize)
           a == SubSeq(all, 1, spilled)
           b == SubSeq(all, spilled + 1, Len(all))
           d == WithLines(f, a)
<1>1. /\ f.stdio \in Seq(Nat) /\ Ascending(f.stdio)
      /\ Before(LinesIn(f.disk), LinesOf(f.stdio))
  BY DEF LogType, LogInOrder
<1>2. g.disk = d /\ g.stdio = b /\ g.name = f.name
  BY DEF AppendToFile, LogType
<1> HIDE DEF d
<1>3. e \in Seq(Nat) /\ Ascending(e) /\ LinesOf(e) \subseteq LinesOf(lines)
  <2> DEFINE r == SubSeq(lines, n + 1, Len(lines))
  <2>1. e \in Seq(Nat) /\ LinesOf(lines) = LinesOf(e) \cup LinesOf(r) /\ Ascending(e)
    BY CutChunk
  <2>2. QED  BY <2>1
<1> HIDE DEF e
<1>4. Before(LinesOf(f.stdio), LinesOf(e)) /\ Before(LinesIn(f.disk), LinesOf(e))
  BY <1>3 DEF Before, LogLines
<1>5. /\ all \in Seq(Nat) /\ Ascending(all) /\ LinesOf(all) = LinesOf(f.stdio) \cup LinesOf(e)
  BY <1>1, <1>3, <1>4, LinesOfConcat, ConcatProperties
<1> HIDE DEF all
<1>6. spilled \in 0..Len(all)
  <2>1. Len(all) \in Nat
    BY <1>5
  <2>2. QED  BY <2>1, SpilledFacts
<1> HIDE DEF spilled
<1>7. /\ a \in Seq(Nat) /\ b \in Seq(Nat) /\ LinesOf(all) = LinesOf(a) \cup LinesOf(b)
      /\ Ascending(a) /\ Ascending(b) /\ Before(LinesOf(a), LinesOf(b))
  BY <1>5, <1>6, CutChunk
<1> HIDE DEF a, b
<1>8. Before(LinesIn(f.disk), LinesOf(a)) /\ Before(LinesIn(f.disk), LinesOf(b))
  BY <1>1, <1>4, <1>5, <1>7 DEF Before
<1>9. /\ InOrder(d) /\ LinesIn(d) = LinesIn(f.disk) \cup LinesOf(a)
      /\ \A t \in Seconds : t > f.name => d[t] = <<>>
  BY <1>7, <1>8, WrittenInOrder DEF LogInOrder, d
<1>10. Before(LinesIn(d), LinesOf(b))
  BY <1>7, <1>8, <1>9 DEF Before
<1>11. LogInOrder(g)
  BY <1>2, <1>7, <1>9, <1>10 DEF LogInOrder
<1>12. LogLines(g) = LogLines(f) \cup LinesOf(e)
  BY <1>2, <1>5, <1>7, <1>9 DEF LogLines
<1>13. QED  BY <1>2, <1>11, <1>12 DEF e

LEMMA UnlockedInOrder ==
  ASSUME NEW f \in LogType, LogInOrder(f), NEW lines \in Seq(Nat), NEW n \in 0..Len(lines),
         Ascending(lines), Before(LogLines(f), LinesOf(lines)),
         NEW now \in Seconds, NEW rollTime \in Seconds, f.name <= now, f.name <= rollTime,
         NEW g, g = AppendUnlocked(f, lines, n, now, rollTime)
  PROVE  /\ LogInOrder(g) /\ g.name <= (IF MustRoll(f, now) THEN rollTime ELSE now)
         /\ LogLines(g) = LogLines(f) \cup LinesOf(SubSeq(lines, 1, n))
<1> DEFINE rolled == IF MustRoll(f, now) THEN RollFile(f, rollTime) ELSE f
           appended == IF lines # <<>> THEN AppendToFile(rolled, lines, n) ELSE rolled
           end == IF MustRoll(f, now) THEN rollTime ELSE now
           e == SubSeq(lines, 1, n)
<1>1. /\ rolled \in LogType /\ LogInOrder(rolled) /\ LogLines(rolled) = LogLines(f)
      /\ rolled.name <= end
  <2>1. CASE MustRoll(f, now)
    <3>1. rolled = RollFile(f, rollTime) /\ end = rollTime
      BY <2>1
    <3>2. rolled \in LogType /\ rolled.name = rollTime
      BY <3>1, RollFacts
    <3>3. LogInOrder(rolled) /\ LogLines(rolled) = LogLines(f)
      BY <3>1, RollInOrder
    <3>4. QED  BY <3>1, <3>2, <3>3 DEF Seconds
  <2>2. CASE ~MustRoll(f, now)
    BY <2>2
  <2>3. QED  BY <2>1, <2>2
<1>2. g = IF now - appended.lastFlush > FlushInterval
          THEN Flush([appended EXCEPT !.lastFlush = now]) ELSE appended
  BY DEF AppendUnlocked
<1> HIDE DEF rolled, end
<1>3. /\ appended \in LogType /\ LogInOrder(appended) /\ appended.name <= end
      /\ LogLines(appended) = LogLines(f) \cup LinesOf(e)
  <2>1. CASE lines # <<>>
    <3>1. appended = AppendToFile(rolled, lines, n)
      BY <2>1
    <3>2. /\ LogInOrder(appended) /\ appended.name = rolled.name
          /\ LogLines(appended) = LogLines(f) \cup LinesOf(e)
      BY <3>1, <1>1, AppendInOrder
    <3>3. appended \in LogType
      BY <3>1, <1>1, AppendFacts
    <3>4. QED  BY <3>2, <3>3, <1>1
  <2>2. CASE lines = <<>>
    <3>1. n = 0 /\ SubSeq(<<>>, 1, 0) = <<>>
      BY <2>2
    <3>2. LinesOf(e) = {}
      BY <3>1, <2>2, NoLines
    <3>3. appended = rolled
      BY <2>2
    <3>4. QED  BY <3>2, <3>3, <1>1
  <2>3. QED  BY <2>1, <2>2
<1> HIDE DEF appended, e
<1>4. LogInOrder(g) /\ g.name <= end /\ LogLines(g) = LogLines(f) \cup LinesOf(e)
  <2>1. CASE now - appended.lastFlush > FlushInterval
    <3> DEFINE h == [appended EXCEPT !.lastFlush = now]
    <3>1. /\ h \in LogType /\ h.name = appended.name
          /\ h.disk = appended.disk /\ h.stdio = appended.stdio
      BY <1>3 DEF LogType
    <3>2. g = Flush(h)
      BY <2>1, <1>2
    <3> HIDE DEF h
    <3>3. LogInOrder(h) /\ LogLines(h) = LogLines(appended)
      BY <3>1, <1>3 DEF LogInOrder, LogLines
    <3>4. LogInOrder(g) /\ LogLines(g) = LogLines(h) /\ g.name = h.name
      BY <3>1, <3>2, <3>3, FlushInOrder
    <3>5. QED  BY <3>1, <3>3, <3>4, <1>3
  <2>2. CASE ~(now - appended.lastFlush > FlushInterval)
    BY <2>2, <1>2, <1>3
  <2>3. QED  BY <2>1, <2>2
<1>5. QED  BY <1>4 DEF end, e

LEMMA AppendToLogInOrder ==
  ASSUME log \in LogType, LogInOrder(log), clock \in Seconds, log.name <= clock,
         NEW lines \in Seq(Nat), NEW n \in 0..Len(lines),
         Ascending(lines), Before(LogLines(log), LinesOf(lines)), AppendToLog(lines, n)
  PROVE  /\ LogInOrder(log') /\ log'.name <= clock'
         /\ LogLines(log') = LogLines(log) \cup LinesOf(SubSeq(lines, 1, n))
<1>1. PICK now \in clock..MaxTime : \E rollTime \in now..MaxTime :
        /\ clock' = IF MustRoll(log, now) THEN rollTime ELSE now
        /\ log' = AppendUnlocked(log, lines, n, now, rollTime)
  BY DEF AppendToLog
<1>2. PICK rollTime \in now..MaxTime :
        /\ clock' = IF MustRoll(log, now) THEN rollTime ELSE now
        /\ log' = AppendUnlocked(log, lines, n, now, rollTime)
  BY <1>1
<1>3. /\ now \in Seconds /\ rollTime \in Seconds /\ log.name <= now /\ log.name <= rollTime
  BY DEF Seconds, LogType
<1>4. QED  BY <1>2, <1>3, UnlockedInOrder

------------------------------------------------------------------------------
(* Every line in its place.                                                   *)

Ahead == SubSeq(toWrite, num + 1, Len(toWrite))

Ordered ==
  /\ LogInOrder(log) /\ log.name <= clock
  /\ InOrder(Ahead) /\ InOrder(buffers) /\ Ascending(current)
  /\ Before(LogLines(log), LinesIn(Ahead) \cup LinesIn(buffers) \cup LinesOf(current))
  /\ Before(LinesIn(Ahead), LinesIn(buffers) \cup LinesOf(current))
  /\ Before(LinesIn(buffers), LinesOf(current))

Waiting == LinesIn(Ahead) \cup LinesIn(buffers) \cup LinesOf(current)
Given == dropped \cup lost

Complete ==
  /\ LogLines(log) \cup Waiting \cup Given = 1..numLines
  /\ (LogLines(log) \cup Waiting) \cap Given = {}
  /\ dropped \cap lost = {}

\* The file is opened before anything is written.
NothingYet == back \in {"new", "open"} => LogLines(log) = {}

OrderInv == Ordered /\ Complete /\ NothingYet

LEMMA BufferChunk == Buffer \subseteq Seq(Nat) /\ Seq(Buffer) \subseteq Seq(Seq(Nat))
<1>1. Lines \subseteq Nat
  BY DEF Lines
<1>2. Buffer \subseteq Seq(Nat)
  BY <1>1, SeqMonotonic DEF Buffer
<1>3. Seq(Buffer) \subseteq Seq(Seq(Nat))
  BY <1>2, SeqMonotonic
<1>4. QED  BY <1>2, <1>3

LEMMA ChunkTypes ==
  ASSUME IInv
  PROVE  /\ current \in Seq(Nat) /\ buffers \in Seq(Seq(Nat)) /\ toWrite \in Seq(Seq(Nat))
         /\ Ahead \in Seq(Seq(Nat)) /\ num \in 0..Len(toWrite) /\ Len(toWrite) \in Nat
         /\ numLines \in Nat /\ log \in LogType /\ clock \in Seconds
<1>1. /\ current \in Buffer /\ buffers \in Seq(Buffer) /\ toWrite \in Seq(Buffer)
      /\ num \in 0..Len(toWrite) /\ numLines \in 0..MaxLines /\ log \in LogType /\ clock \in Seconds
  BY DEF IInv, TypeOK
<1>2. current \in Seq(Nat) /\ buffers \in Seq(Seq(Nat)) /\ toWrite \in Seq(Seq(Nat))
  BY <1>1, BufferChunk
<1>3. Ahead \in Seq(Seq(Nat)) /\ Len(toWrite) \in Nat
  BY <1>1, <1>2, Cut, LenProperties DEF Ahead
<1>4. QED  BY <1>1, <1>2, <1>3

\* Lines are numbered from 1: none of them is a notice.
LEMMA BufferLines ==
  ASSUME NEW c \in Buffer
  PROVE  LinesOf(c) = ToSet(c)
<1>1. \A x \in ToSet(c) : x \in Lines
  BY DEF ToSet, Buffer
<1>2. QED  BY <1>1 DEF LinesOf, Lines, Notice

\* Where the thread is and who owns it moves no line.
LEMMA UnmovedKeeps ==
  ASSUME OrderInv, UNCHANGED <<log, clock, toWrite, num, buffers, current, dropped, lost, numLines>>,
         back' \in {"new", "open"} => back \in {"new", "open"}
  PROVE  OrderInv'
<1>1. Ahead' = Ahead
  BY DEF Ahead
<1>2. QED  BY <1>1 DEF OrderInv, Ordered, Complete, NothingYet, Waiting, Given

LEMMA InitOrdered == Init => OrderInv
<1> SUFFICES ASSUME Init PROVE OrderInv
  OBVIOUS
<1>1. /\ log = NewLog(clock) /\ buffers = <<>> /\ current = <<>> /\ toWrite = <<>> /\ num = 0
      /\ dropped = {} /\ lost = {} /\ numLines = 0
  BY DEF Init
<1>2. LogInOrder(log) /\ LogLines(log) = {} /\ log.name = clock
  <2>1. /\ log.disk = [t \in Seconds |-> <<>>] /\ log.stdio = <<>> /\ log.name = clock
    BY <1>1 DEF NewLog
  <2>2. \A t \in Seconds : log.disk[t] = <<>>
    BY <2>1
  <2>3. DOMAIN log.disk = Seconds
    BY <2>1
  <2>4. InOrder(log.disk) /\ LinesIn(log.disk) = {}
    BY <2>2, <2>3, NoLines DEF InOrder, LinesIn, Before
  <2>5. QED  BY <2>1, <2>2, <2>4, NoLines DEF LogInOrder, LogLines, Before
<1>3. clock \in Nat
  BY DEF Init
<1>4. Ahead = <<>>
  BY <1>1 DEF Ahead
<1>5. Ordered
  BY <1>1, <1>2, <1>3, <1>4, NoLines DEF Ordered, Before
<1>6. Complete
  BY <1>1, <1>2, <1>4, NoLines DEF Complete, Waiting, Given
<1>7. QED  BY <1>2, <1>5, <1>6 DEF OrderInv, NothingYet

\* A line that is appended has the largest number.
LEMMA AppendKeepsOrder ==
  ASSUME IInv, OrderInv, AppendAny
  PROVE  OrderInv'
<1> DEFINE n == numLines + 1
           c == LinesOf(current)
           b == LinesIn(buffers)
           a == LinesIn(Ahead)
           l == LogLines(log)
<1>1. /\ numLines' = n /\ AppendLine(n)
      /\ UNCHANGED <<back, log, clock, toWrite, num, dropped, lost>>
  BY DEF AppendAny, thread
<1>2. numLines \in Nat /\ n \in Nat /\ n # Notice
  BY ChunkTypes DEF Notice
<1>3. current \in Seq(Nat) /\ buffers \in Seq(Seq(Nat))
  BY ChunkTypes
<1>4. /\ l \cup a \cup b \cup c \cup Given = 1..numLines
      /\ (l \cup a \cup b \cup c) \cap Given = {} /\ dropped \cap lost = {}
  BY DEF OrderInv, Complete, Waiting
<1>5. /\ LogInOrder(log) /\ log.name <= clock
      /\ InOrder(Ahead) /\ InOrder(buffers) /\ Ascending(current)
      /\ Before(l, a \cup b \cup c) /\ Before(a, b \cup c) /\ Before(b, c)
  BY DEF OrderInv, Ordered
<1>6. /\ <<n>> \in Seq(Nat) /\ Ascending(<<n>>) /\ LinesOf(<<n>>) = {n}
  BY <1>2, OneLine
<1>7. Ahead' = Ahead /\ Given' = Given /\ log' = log /\ clock' = clock
  BY <1>1 DEF Ahead, Given
<1> HIDE DEF n, a, b, c, l
<1>8. \A x \in l \cup a \cup b \cup c \cup Given : x < n
  BY <1>2, <1>4 DEF n
<1>9. /\ Before(l, {n}) /\ Before(a, {n}) /\ Before(b, {n}) /\ Before(c, {n})
      /\ n \notin Given
  BY <1>2, <1>8 DEF Before
<1>10. 1..n = (1..numLines) \cup {n}
  BY <1>2 DEF n
<1>11. CASE Len(current) < BufLines
  <2>1. current' = current \o <<n>> /\ buffers' = buffers
    <3>1. current' = Append(current, n) /\ buffers' = buffers
      BY <1>1, <1>11 DEF AppendLine
    <3>2. QED  BY <3>1, <1>2, <1>3, AppendIsConcat
  <2>2. LinesOf(current') = c \cup {n} /\ Ascending(current')
    <3>1. Before(LinesOf(current), LinesOf(<<n>>))
      BY <1>6, <1>9 DEF c
    <3>2. /\ LinesOf(current \o <<n>>) = LinesOf(current) \cup LinesOf(<<n>>)
          /\ Ascending(current \o <<n>>)
      BY <3>1, <1>3, <1>5, <1>6, LinesOfConcat
    <3>3. QED  BY <3>2, <2>1, <1>6 DEF c
  <2>3. Ordered'
    <3>1. Before(l, a \cup b \cup (c \cup {n})) /\ Before(a, b \cup (c \cup {n})) /\ Before(b, c \cup {n})
      BY <1>5, <1>9 DEF Before
    <3>2. QED  BY <3>1, <2>1, <2>2, <1>5, <1>7 DEF Ordered, a, b, l
  <2>4. Complete'
    <3>1. l \cup (a \cup b \cup (c \cup {n})) \cup Given = 1..n
      BY <1>4, <1>10
    <3>2. (l \cup (a \cup b \cup (c \cup {n}))) \cap Given = {}
      BY <1>4, <1>9
    <3>3. QED  BY <3>1, <3>2, <2>1, <2>2, <1>1, <1>4, <1>7 DEF Complete, Waiting, a, b, l
  <2>5. QED  BY <2>3, <2>4, <1>1, <1>7 DEF OrderInv, NothingYet
<1>12. CASE ~(Len(current) < BufLines)
  <2>1. buffers' = buffers \o <<current>> /\ current' = <<n>>
    <3>1. buffers' = Append(buffers, current) /\ current' = <<n>>
      BY <1>1, <1>12 DEF AppendLine
    <3>2. QED  BY <3>1, <1>3, AppendIsConcat
  <2>2. LinesIn(buffers') = b \cup c /\ InOrder(buffers')
    <3>1. /\ <<current>> \in Seq(Seq(Nat)) /\ LinesIn(<<current>>) = c /\ InOrder(<<current>>)
      BY <1>3, <1>5, OneChunk DEF c
    <3>2. QED  BY <3>1, <2>1, <1>3, <1>5, LinesInConcat DEF b
  <2>3. LinesOf(current') = {n} /\ Ascending(current')
    BY <2>1, <1>6
  <2>4. Ordered'
    <3>1. Before(l, a \cup (b \cup c) \cup {n}) /\ Before(a, (b \cup c) \cup {n}) /\ Before(b \cup c, {n})
      BY <1>5, <1>9 DEF Before
    <3>2. QED  BY <3>1, <2>2, <2>3, <1>5, <1>7 DEF Ordered, a, l
  <2>5. Complete'
    <3>1. l \cup (a \cup (b \cup c) \cup {n}) \cup Given = 1..n
      BY <1>4, <1>10
    <3>2. (l \cup (a \cup (b \cup c) \cup {n})) \cap Given = {}
      BY <1>4, <1>9
    <3>3. QED  BY <3>1, <3>2, <2>2, <2>3, <1>1, <1>4, <1>7 DEF Complete, Waiting, a, l
  <2>6. QED  BY <2>4, <2>5, <1>1, <1>7 DEF OrderInv, NothingYet
<1>13. QED  BY <1>11, <1>12

\* The thread takes all the buffers there are, in their order.
LEMMA SwapKeepsOrder ==
  ASSUME IInv, OrderInv, Swap
  PROVE  OrderInv'
<1>1. /\ back \in {"lock", "wait"} /\ back' = "drop" /\ toWrite' = Append(buffers, current)
      /\ buffers' = <<>> /\ current' = <<>>
      /\ UNCHANGED <<num, log, clock, dropped, lost, numLines>>
  BY DEF Swap, TakeBuffers
<1>2. toWrite = <<>> /\ num = 0
  BY <1>1 DEF IInv, BuffersSuffice, WritesEnough
<1>3. current \in Seq(Nat) /\ buffers \in Seq(Seq(Nat))
  BY ChunkTypes
<1>4. Ahead = <<>>
  BY <1>2 DEF Ahead
<1>5. Ahead' = buffers \o <<current>>
  <2>1. toWrite' = buffers \o <<current>>
    BY <1>1, <1>3, AppendIsConcat
  <2>2. toWrite' \in Seq(Seq(Nat))
    BY <1>1, <1>3
  <2>3. Ahead' = SubSeq(toWrite', 1, Len(toWrite'))
    BY <1>1, <1>2 DEF Ahead
  <2>4. QED  BY <2>1, <2>2, <2>3, SubSeqFull
<1>6. /\ LogInOrder(log) /\ log.name <= clock
      /\ InOrder(buffers) /\ Ascending(current)
      /\ Before(LogLines(log), LinesIn(buffers) \cup LinesOf(current))
      /\ Before(LinesIn(buffers), LinesOf(current))
  BY DEF OrderInv, Ordered, Before
<1>7. LinesIn(Ahead') = LinesIn(buffers) \cup LinesOf(current) /\ InOrder(Ahead')
  <2>1. /\ <<current>> \in Seq(Seq(Nat)) /\ LinesIn(<<current>>) = LinesOf(current)
        /\ InOrder(<<current>>)
    BY <1>3, <1>6, OneChunk
  <2> DEFINE p == <<current>>
  <2>2. p \in Seq(Seq(Nat)) /\ LinesIn(p) = LinesOf(current) /\ InOrder(p)
    BY <2>1
  <2> HIDE DEF p
  <2>3. InOrder(buffers) /\ Before(LinesIn(buffers), LinesIn(p))
    BY <2>2, <1>6
  <2>4. LinesIn(buffers \o p) = LinesIn(buffers) \cup LinesIn(p) /\ InOrder(buffers \o p)
    BY <2>2, <2>3, <1>3, LinesInConcat
  <2>5. QED  BY <2>2, <2>4, <1>5 DEF p
<1>8. Waiting' = Waiting /\ Given' = Given
  BY <1>1, <1>4, <1>7, NoLines DEF Waiting, Given
<1>9. Ordered'
  BY <1>1, <1>6, <1>7, NoLines DEF Ordered, Before
<1>10. Complete'
  BY <1>1, <1>8 DEF OrderInv, Complete
<1>11. QED  BY <1>1, <1>9, <1>10 DEF OrderInv, NothingYet

LEMMA OpenKeepsOrder ==
  ASSUME IInv, OrderInv, OpenFile
  PROVE  OrderInv'
<1>1. /\ back = "open" /\ back' = "top"
      /\ UNCHANGED <<toWrite, num, buffers, current, dropped, lost, numLines>>
  BY DEF OpenFile, front
<1>2. PICK now \in clock..MaxTime : clock' = now /\ log' = NewLog(now)
  BY DEF OpenFile
<1>3. now \in Nat
  BY ChunkTypes DEF Seconds
<1>4. LogInOrder(log') /\ LogLines(log') = {} /\ log'.name = now
  <2>1. log'.disk = [t \in Seconds |-> <<>>] /\ log'.stdio = <<>> /\ log'.name = now
    BY <1>2 DEF NewLog
  <2>2. \A t \in Seconds : log'.disk[t] = <<>>
    BY <2>1
  <2>3. DOMAIN log'.disk = Seconds
    BY <2>1
  <2>4. InOrder(log'.disk) /\ LinesIn(log'.disk) = {}
    BY <2>2, <2>3, NoLines DEF InOrder, LinesIn, Before
  <2>5. QED  BY <2>1, <2>2, <2>4, NoLines DEF LogInOrder, LogLines, Before
<1>5. LogLines(log) = {}
  BY <1>1 DEF OrderInv, NothingYet
<1>6. Ahead' = Ahead
  BY <1>1 DEF Ahead
<1>7. Ordered'
  BY <1>1, <1>2, <1>3, <1>4, <1>6 DEF OrderInv, Ordered, Before
<1>8. Complete'
  BY <1>1, <1>4, <1>5, <1>6 DEF OrderInv, Complete, Waiting, Given
<1>9. QED  BY <1>1, <1>7, <1>8 DEF OrderInv, NothingYet

\* What the thread gives up comes after the two buffers it keeps.
LEMMA DropKeepsOrder ==
  ASSUME IInv, OrderInv, DropBuffers
  PROVE  OrderInv'
<1>1. /\ back = "drop" /\ back' = "write"
      /\ UNCHANGED <<current, buffers, num, lost, numLines>>
  BY DEF DropBuffers, front
<1>2. CASE ~(Len(toWrite) > DropOver)
  <2>1. UNCHANGED <<log, clock, toWrite, dropped>>
    BY <1>2 DEF DropBuffers
  <2>2. QED  BY <2>1, <1>1, UnmovedKeeps
<1>3. CASE Len(toWrite) > DropOver
  <2>1. /\ AppendToLog(<<Notice>>, 1) /\ toWrite' = SubSeq(toWrite, 1, 2)
        /\ dropped' = dropped \cup UNION {ToSet(GivenUp[i]) : i \in DOMAIN GivenUp}
    BY <1>3 DEF DropBuffers
  <2>2. num = 0 /\ toWrite # <<>>
    BY <1>1 DEF IInv, WritesEnough, BuffersSuffice
  <2>3. /\ toWrite \in Seq(Seq(Nat)) /\ Len(toWrite) \in Nat
        /\ log \in LogType /\ clock \in Seconds
    BY ChunkTypes
  <2>4. 2 \in 0..Len(toWrite)
    BY <1>3, <2>3
  <2> DEFINE keep == SubSeq(toWrite, 1, 2)
  <2>5. Ahead = toWrite
    BY <2>2, <2>3, SubSeqFull DEF Ahead
  <2>6. /\ keep \in Seq(Seq(Nat)) /\ GivenUp \in Seq(Seq(Nat))
        /\ LinesIn(Ahead) = LinesIn(keep) \cup LinesIn(GivenUp)
        /\ InOrder(Ahead) => InOrder(keep) /\ Before(LinesIn(keep), LinesIn(GivenUp))
    <3>1. GivenUp = SubSeq(toWrite, 2 + 1, Len(toWrite))
      BY DEF GivenUp
    <3>2. QED  BY <3>1, <2>3, <2>4, <2>5, CutChunks
  <2> HIDE DEF keep
  <2>7. Ahead' = keep
    <3>1. Ahead' = SubSeq(keep, 1, Len(keep))
      BY <2>1, <2>2, <1>1 DEF Ahead, keep
    <3>2. QED  BY <3>1, <2>6, SubSeqFull
  <2>8. dropped' = dropped \cup LinesIn(GivenUp)
    <3>1. GivenUp \in Seq(Buffer)
      <4>1. toWrite \in Seq(Buffer)
        BY DEF IInv, TypeOK
      <4>2. SubSeq(toWrite, 2 + 1, Len(toWrite)) \in Seq(Buffer)
        BY <4>1, <2>4, Cut
      <4>3. QED  BY <4>2 DEF GivenUp
    <3>2. \A i \in DOMAIN GivenUp : GivenUp[i] \in Buffer
      BY <3>1
    <3>3. \A i \in DOMAIN GivenUp : ToSet(GivenUp[i]) = LinesOf(GivenUp[i])
      BY <3>2, BufferLines
    <3>4. UNION {ToSet(GivenUp[i]) : i \in DOMAIN GivenUp} = LinesIn(GivenUp)
      BY <3>3 DEF LinesIn
    <3>5. QED  BY <3>4, <2>1
  <2>9. LogInOrder(log') /\ log'.name <= clock' /\ LogLines(log') = LogLines(log)
    <3>1. <<Notice>> \in Seq(Nat) /\ Ascending(<<Notice>>) /\ LinesOf(<<Notice>>) = {}
      <4>1. Notice \in Nat
        BY DEF Notice
      <4>2. QED  BY <4>1, OneLine
    <3>2. 1 \in 0..Len(<<Notice>>) /\ SubSeq(<<Notice>>, 1, 1) = <<Notice>>
      <4> DEFINE c == <<Notice>>
      <4>1. Len(c) = 1
        OBVIOUS
      <4>2. c \in Seq(Nat)
        BY <3>1
      <4> HIDE DEF c
      <4>3. SubSeq(c, 1, Len(c)) = c
        BY <4>2, SubSeqFull
      <4>4. 1 \in 0..Len(c) /\ SubSeq(c, 1, 1) = c
        BY <4>1, <4>3
      <4>5. QED  BY <4>4 DEF c
    <3>3. Before(LogLines(log), {})
      BY DEF Before
    <3>4. LogInOrder(log) /\ log.name <= clock
      BY DEF OrderInv, Ordered
    <3>5. /\ LogInOrder(log') /\ log'.name <= clock'
          /\ LogLines(log') = LogLines(log) \cup LinesOf(SubSeq(<<Notice>>, 1, 1))
      BY <2>1, <2>3, <3>1, <3>2, <3>3, <3>4, AppendToLogInOrder
    <3>6. QED  BY <3>1, <3>2, <3>5
  <2>10. Ordered'
    <3>1. /\ InOrder(Ahead) /\ InOrder(buffers) /\ Ascending(current)
          /\ Before(LogLines(log), LinesIn(Ahead) \cup LinesIn(buffers) \cup LinesOf(current))
          /\ Before(LinesIn(Ahead), LinesIn(buffers) \cup LinesOf(current))
          /\ Before(LinesIn(buffers), LinesOf(current))
      BY DEF OrderInv, Ordered
    <3>2. QED  BY <3>1, <2>6, <2>7, <2>9, <1>1 DEF Ordered, Before
  <2>11. Complete'
    <3> DEFINE a == LinesIn(keep)
               g == LinesIn(GivenUp)
               r == LinesIn(buffers) \cup LinesOf(current)
               l == LogLines(log)
    <3>1. /\ l \cup ((a \cup g) \cup r) \cup (dropped \cup lost) = 1..numLines
          /\ (l \cup ((a \cup g) \cup r)) \cap (dropped \cup lost) = {} /\ dropped \cap lost = {}
      BY <2>6 DEF OrderInv, Complete, Waiting, Given
    <3>2. Before(l, a \cup g \cup r) /\ Before(a \cup g, r) /\ Before(a, g)
      BY <2>6 DEF OrderInv, Ordered, Before
    <3> HIDE DEF a, g, r, l
    <3>3. \A x \in l \cup a \cup g \cup r : x \in Nat
      BY <3>1, ChunkTypes
    <3>4. (l \cup a \cup r) \cap g = {}
      BY <3>2, <3>3 DEF Before
    <3>5. /\ l \cup (a \cup r) \cup ((dropped \cup g) \cup lost) = 1..numLines
          /\ (l \cup (a \cup r)) \cap ((dropped \cup g) \cup lost) = {}
          /\ (dropped \cup g) \cap lost = {}
      BY <3>1, <3>4
    <3>6. QED  BY <3>5, <2>7, <2>8, <2>9, <1>1 DEF Complete, Waiting, Given, a, g, r, l
  <2>12. QED  BY <2>10, <2>11, <1>1 DEF OrderInv, NothingYet
<1>4. QED  BY <1>2, <1>3

\* The buffer that is written is the first of those ahead.
LEMMA WriteKeepsOrder ==
  ASSUME IInv, OrderInv, WriteBuffer
  PROVE  OrderInv'
<1> DEFINE m == num + 1
           lines == toWrite[m]
<1>1. /\ back = "write" /\ num < Len(toWrite) /\ num' = m
      /\ UNCHANGED <<back, toWrite, current, buffers, dropped, numLines>>
  BY DEF WriteBuffer, front
<1>2. PICK n \in 0..Len(lines) :
        /\ AppendToLog(lines, n)
        /\ lost' = lost \cup ToSet(SubSeq(lines, n + 1, Len(lines)))
  BY <1>1 DEF WriteBuffer
<1>3. /\ toWrite \in Seq(Seq(Nat)) /\ Len(toWrite) \in Nat /\ num \in Nat
      /\ log \in LogType /\ clock \in Seconds
  BY ChunkTypes
<1>4. m \in Nat /\ m \in 1..Len(toWrite) /\ Len(toWrite) \in m..Len(toWrite)
  BY <1>1, <1>3
<1>5. lines \in Seq(Nat) /\ lines \in Buffer
  <2>1. toWrite \in Seq(Buffer)
    BY DEF IInv, TypeOK
  <2>2. QED  BY <2>1, <1>4, BufferChunk, ElementOfSeq
<1> DEFINE e == SubSeq(lines, 1, n)
           r == SubSeq(lines, n + 1, Len(lines))
<1>6. Ahead = <<lines>> \o Ahead' /\ Ahead' \in Seq(Seq(Nat))
  <2>1. Ahead' = SubSeq(toWrite, m + 1, Len(toWrite))
    BY <1>1 DEF Ahead
  <2>2. SubSeq(toWrite, m, Len(toWrite)) = <<lines>> \o SubSeq(toWrite, m + 1, Len(toWrite))
    BY <1>3, <1>4, SubSeqRecursiveFirst
  <2>3. Ahead = SubSeq(toWrite, m, Len(toWrite))
    BY DEF Ahead
  <2>4. SubSeq(toWrite, m + 1, Len(toWrite)) \in Seq(Seq(Nat))
    <3>1. m \in 0..Len(toWrite)
      BY <1>3, <1>4
    <3>2. QED  BY <3>1, <1>3, Cut
  <2>5. QED  BY <2>1, <2>2, <2>3, <2>4
<1> HIDE DEF lines, m
<1>7. /\ LinesIn(Ahead) = LinesOf(lines) \cup LinesIn(Ahead')
      /\ InOrder(Ahead) => /\ Ascending(lines) /\ InOrder(Ahead')
                           /\ Before(LinesOf(lines), LinesIn(Ahead'))
  <2>1. /\ <<lines>> \in Seq(Seq(Nat)) /\ LinesIn(<<lines>>) = LinesOf(lines)
        /\ InOrder(<<lines>>) <=> Ascending(lines)
    BY <1>5, OneChunk
  <2>2. QED  BY <2>1, <1>6, LinesInConcat
<1>8. /\ e \in Seq(Nat) /\ r \in Seq(Nat) /\ LinesOf(lines) = LinesOf(e) \cup LinesOf(r)
      /\ Ascending(lines) => Before(LinesOf(e), LinesOf(r))
  BY <1>5, CutChunk
<1>9. lost' = lost \cup LinesOf(r)
  <2>1. r \in Buffer
    BY <1>5, Cut DEF Buffer
  <2>2. QED  BY <2>1, <1>2, BufferLines
<1> HIDE DEF e, r
<1>10. /\ InOrder(Ahead) /\ InOrder(buffers) /\ Ascending(current)
       /\ Before(LogLines(log), LinesIn(Ahead) \cup LinesIn(buffers) \cup LinesOf(current))
       /\ Before(LinesIn(Ahead), LinesIn(buffers) \cup LinesOf(current))
       /\ Before(LinesIn(buffers), LinesOf(current))
       /\ LogInOrder(log) /\ log.name <= clock
  BY DEF OrderInv, Ordered
<1>11. LogInOrder(log') /\ log'.name <= clock' /\ LogLines(log') = LogLines(log) \cup LinesOf(e)
  <2>1. Ascending(lines) /\ Before(LogLines(log), LinesOf(lines))
    BY <1>7, <1>10 DEF Before
  <2>2. QED  BY <2>1, <1>2, <1>3, <1>5, <1>10, AppendToLogInOrder DEF e
<1>12. Ordered'
  <2> DEFINE l == LogLines(log)
             a == LinesIn(Ahead')
             b == LinesIn(buffers)
             c == LinesOf(current)
             x == LinesOf(e)
  <2>1. /\ Before(l, (x \cup LinesOf(r) \cup a) \cup b \cup c)
        /\ Before(x \cup LinesOf(r) \cup a, b \cup c) /\ Before(b, c)
        /\ Before(x \cup LinesOf(r), a)
    BY <1>7, <1>8, <1>10
  <2> HIDE DEF l, a, b, c, x
  <2>2. Before(l \cup x, a \cup b \cup c) /\ Before(a, b \cup c)
    BY <2>1 DEF Before
  <2>3. QED  BY <2>1, <2>2, <1>1, <1>7, <1>10, <1>11 DEF Ordered, l, a, b, c, x
<1>13. Complete'
  <2> DEFINE l == LogLines(log)
             a == LinesIn(Ahead')
             q == LinesIn(buffers) \cup LinesOf(current)
             x == LinesOf(e)
             g == LinesOf(r)
  <2>1. /\ l \cup ((x \cup g \cup a) \cup q) \cup (dropped \cup lost) = 1..numLines
        /\ (l \cup ((x \cup g \cup a) \cup q)) \cap (dropped \cup lost) = {}
        /\ dropped \cap lost = {}
    BY <1>7, <1>8 DEF OrderInv, Complete, Waiting, Given
  <2>2. /\ Before(l, x \cup g \cup a \cup q) /\ Before(x \cup g \cup a, q)
        /\ Before(x \cup g, a) /\ Before(x, g)
    BY <1>7, <1>8, <1>10 DEF Before
  <2> HIDE DEF l, a, q, x, g
  <2>3. \A y \in l \cup x \cup g \cup a \cup q : y \in Nat
    BY <2>1, ChunkTypes
  <2>4. (l \cup x \cup a \cup q) \cap g = {}
    BY <2>2, <2>3 DEF Before
  <2>5. /\ (l \cup x) \cup (a \cup q) \cup (dropped \cup (lost \cup g)) = 1..numLines
        /\ ((l \cup x) \cup (a \cup q)) \cap (dropped \cup (lost \cup g)) = {}
        /\ dropped \cap (lost \cup g) = {}
    BY <2>1, <2>4
  <2>6. Waiting' = a \cup q /\ Given' = dropped \cup (lost \cup g) /\ LogLines(log') = l \cup x
    BY <1>1, <1>9, <1>11 DEF Waiting, Given, l, a, q, x, g
  <2>7. dropped' = dropped /\ lost' = lost \cup g /\ numLines' = numLines
    BY <1>1, <1>9 DEF g
  <2>8. QED  BY <2>5, <2>6, <2>7 DEF Complete
<1>14. QED  BY <1>1, <1>12, <1>13 DEF OrderInv, NothingYet

\* At the end of a round nothing is ahead, and flushing moves no line past another.
LEMMA EndRoundKeepsOrder ==
  ASSUME IInv, OrderInv, EndRound
  PROVE  OrderInv'
<1>1. /\ back = "write" /\ num = Len(toWrite) /\ back' = "top" /\ toWrite' = <<>> /\ num' = 0
      /\ log' = Flush(log) /\ UNCHANGED <<clock, current, buffers, dropped, lost, numLines>>
  BY DEF EndRound, front
<1>2. Ahead = <<>>
  <2>1. toWrite \in Seq(Seq(Nat)) /\ Len(toWrite) \in Nat
    BY ChunkTypes
  <2>2. QED  BY <2>1, <1>1 DEF Ahead
<1>3. Ahead' = <<>>
  BY <1>1 DEF Ahead
<1>4. LogInOrder(log') /\ LogLines(log') = LogLines(log) /\ log'.name = log.name
  BY <1>1, ChunkTypes, FlushInOrder DEF OrderInv, Ordered
<1>5. Ordered' /\ Complete'
  BY <1>1, <1>2, <1>3, <1>4 DEF OrderInv, Ordered, Complete, Waiting, Given
<1>6. QED  BY <1>1, <1>5 DEF OrderInv, NothingYet

LEMMA ControlKeepsOrder ==
  ASSUME IInv, OrderInv,
         Start \/ Stop \/ Join \/ TestRunning \/ WaitForSeconds \/ UNCHANGED vars
  PROVE  OrderInv'
<1>1. UNCHANGED <<log, clock, toWrite, num, buffers, current, dropped, lost, numLines>>
  BY DEF Start, Stop, Join, TestRunning, WaitForSeconds, vars, front, thread
<1>2. back' \in {"new", "open"} => back \in {"new", "open"}
  BY DEF Start, Stop, Join, TestRunning, WaitForSeconds, vars, IInv, NotStarted
<1>3. QED  BY <1>1, <1>2, UnmovedKeeps

LEMMA StepKeepsOrder == IInv /\ OrderInv /\ [Next]_vars => OrderInv'
  BY AppendKeepsOrder, SwapKeepsOrder, OpenKeepsOrder, DropKeepsOrder, WriteKeepsOrder,
     EndRoundKeepsOrder, ControlKeepsOrder DEF Next, Thread

LEMMA AlwaysOrdered == Spec => [](IInv /\ OrderInv)
<1>1. IInv /\ OrderInv /\ [Next]_vars => IInv' /\ OrderInv'
  BY StepPreserves, StepKeepsOrder
<1> QED BY <1>1, InitHolds, InitOrdered, PTL DEF Spec

\* The five parts of what there is, put behind each other.
LEMMA OrderedChunks == IInv /\ OrderInv => LinesInOrder
<1> SUFFICES ASSUME IInv, OrderInv PROVE LinesInOrder
  OBVIOUS
<1> DEFINE d == log.disk
           o == <<log.stdio>>
           p == <<current>>
<1>1. /\ current \in Seq(Nat) /\ buffers \in Seq(Seq(Nat)) /\ Ahead \in Seq(Seq(Nat))
      /\ log \in LogType
  BY ChunkTypes
<1>2. d \in Seq(Seq(Nat)) /\ log.stdio \in Seq(Nat)
  <2>1. d \in [1..MaxTime -> Seq(Nat)] /\ log.stdio \in Seq(Nat) /\ MaxTime \in Nat
    BY <1>1 DEF LogType, Seconds
  <2>2. QED  BY <2>1, SeqDef
<1>3. /\ InOrder(d) /\ Ascending(log.stdio) /\ InOrder(Ahead) /\ InOrder(buffers) /\ Ascending(current)
      /\ Before(LinesIn(d), LinesOf(log.stdio))
      /\ Before(LinesIn(d) \cup LinesOf(log.stdio),
                LinesIn(Ahead) \cup LinesIn(buffers) \cup LinesOf(current))
      /\ Before(LinesIn(Ahead), LinesIn(buffers) \cup LinesOf(current))
      /\ Before(LinesIn(buffers), LinesOf(current))
  BY DEF OrderInv, Ordered, LogInOrder, LogLines
<1>4. /\ o \in Seq(Seq(Nat)) /\ LinesIn(o) = LinesOf(log.stdio) /\ InOrder(o)
      /\ p \in Seq(Seq(Nat)) /\ LinesIn(p) = LinesOf(current) /\ InOrder(p)
  BY <1>1, <1>2, <1>3, OneChunk
<1>5. Chunks = d \o o \o Ahead \o buffers \o p
  BY DEF Chunks, Ahead
<1> HIDE DEF d, o, p
<1> DEFINE two == d \o o
           three == two \o Ahead
           four == three \o buffers
<1>6. two \in Seq(Seq(Nat)) /\ LinesIn(two) = LinesIn(d) \cup LinesIn(o) /\ InOrder(two)
  <2>1. Before(LinesIn(d), LinesIn(o))
    BY <1>3, <1>4
  <2>2. QED  BY <2>1, <1>2, <1>3, <1>4, LinesInConcat, ConcatProperties
<1> HIDE DEF two
<1>7. three \in Seq(Seq(Nat)) /\ LinesIn(three) = LinesIn(two) \cup LinesIn(Ahead) /\ InOrder(three)
  <2>1. Before(LinesIn(two), LinesIn(Ahead))
    BY <1>3, <1>4, <1>6 DEF Before
  <2>2. QED  BY <2>1, <1>1, <1>3, <1>6, LinesInConcat, ConcatProperties
<1> HIDE DEF three
<1>8. four \in Seq(Seq(Nat)) /\ LinesIn(four) = LinesIn(three) \cup LinesIn(buffers) /\ InOrder(four)
  <2>1. Before(LinesIn(three), LinesIn(buffers))
    BY <1>3, <1>4, <1>6, <1>7 DEF Before
  <2>2. QED  BY <2>1, <1>1, <1>3, <1>7, LinesInConcat, ConcatProperties
<1> HIDE DEF four
<1>9. LinesIn(four \o p) = LinesIn(four) \cup LinesIn(p) /\ InOrder(four \o p)
  <2>1. Before(LinesIn(four), LinesIn(p))
    BY <1>3, <1>4, <1>6, <1>7, <1>8 DEF Before
  <2>2. QED  BY <2>1, <1>4, <1>8, LinesInConcat
<1>10. Chunks = four \o p
  BY <1>5 DEF four, three, two
<1>11. LinesIn(Chunks) = LogLines(log) \cup Waiting
  BY <1>4, <1>6, <1>7, <1>8, <1>9, <1>10 DEF LogLines, Waiting, d
<1>12. QED  BY <1>9, <1>10, <1>11 DEF LinesInOrder, OrderInv, Complete, Given

\* Whatever the sizes, the days, the clock and what fwrite refuses: every line
\* that append() has been given is once in a file, on its way, given up or
\* refused, and in the order of the calls from the first file to
\* m_currentBuffer (AsyncLogging.cpp:20-150, LogFile.cpp:31-99).
THEOREM LinesAlwaysInOrder == Spec => []LinesInOrder
  BY AlwaysOrdered, OrderedChunks, PTL
=============================================================================
