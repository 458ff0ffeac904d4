------------------------------- MODULE Buffer --------------------------------
(***************************************************************************)
(* net::Buffer: a vector of bytes with a reader and a writer index and     *)
(* some room in front of the data, as connections and the codec use it.    *)
(*                                                                         *)
(* A buffer is a record; an operator for a function of the class takes one *)
(* and returns what it becomes.  Indices count from 0 as in the class, the *)
(* byte of index i is cells[i + 1].  An assertion that fails makes "sound" *)
(* false.                                                                  *)
(***************************************************************************)
EXTENDS Integers, Sequences

CONSTANTS
  Base,           \* values of a byte
  NCheapPrepend,  \* kCheapPrepend
  InitialSize,    \* kInitialSize
  ExtraSize       \* sizeof(extrabuf)

ASSUME BufferAssumption ==
  /\ Base \in Nat \ {0}
  /\ NCheapPrepend \in Nat
  /\ InitialSize \in Nat \ {0}
  /\ ExtraSize \in Nat \ {0}

Byte == 0..(Base - 1)

BufferType ==
  [cells : Seq(Byte), capacity : Nat, reader : Nat, writer : Nat, wrapSize : Nat, sound : BOOLEAN]

ReadableBytes(b) == b.writer - b.reader
WritableBytes(b) == Len(b.cells) - b.writer
PrependableBytes(b) == b.reader
Contents(b) == SubSeq(b.cells, b.reader + 1, b.writer)

Zeros(n) == [i \in 1..n |-> 0]

WrapSize(capacity) == (capacity * 3) \div 4

NewBuffer ==
  LET size == NCheapPrepend + InitialSize
  IN [cells |-> Zeros(size), capacity |-> size,
      reader |-> NCheapPrepend, writer |-> NCheapPrepend,
      wrapSize |-> WrapSize(size), sound |-> TRUE]

Assert(b, condition) == [b EXCEPT !.sound = @ /\ condition]

\* memcpy and memmove to the index "at", where there is room for the bytes.
Copied(cells, at, bytes) ==
  SubSeq(cells, 1, at) \o bytes \o SubSeq(cells, at + Len(bytes) + 1, Len(cells))

RetrieveAll(b) == [b EXCEPT !.reader = NCheapPrepend, !.writer = NCheapPrepend]

Retrieve(b, len) ==
  IF len < ReadableBytes(b)
  THEN [b EXCEPT !.reader = @ + len]
  ELSE RetrieveAll(Assert(b, len <= ReadableBytes(b)))

\* mutant: the writer stays where it was.
WrapReaderOnly(b) ==
  [b EXCEPT !.cells = Copied(@, NCheapPrepend, Contents(b)), !.reader = NCheapPrepend]

WrapBuffer(b) ==
  IF b.reader = NCheapPrepend
  THEN b
  ELSE [b EXCEPT !.cells = Copied(@, NCheapPrepend, Contents(b)),
                 !.reader = NCheapPrepend,
                 !.writer = NCheapPrepend + ReadableBytes(b)]

\* A vector that grows has at least twice the room.
Resized(b, size) ==
  LET n == Len(b.cells)
      capacity == IF size <= b.capacity THEN b.capacity ELSE IF 2 * n > size THEN 2 * n ELSE size
  IN [b EXCEPT !.cells = @ \o Zeros(size - n),
               !.capacity = capacity,
               !.wrapSize = WrapSize(capacity)]

MakeSpace(b, len) ==
  IF WritableBytes(b) + PrependableBytes(b) < len + NCheapPrepend
  THEN Resized(b, b.writer + len)
  ELSE WrapBuffer(Assert(b, NCheapPrepend < b.reader))

EnsureWritableBytes(b, len) ==
  IF WritableBytes(b) < len THEN MakeSpace(b, len) ELSE b

AppendBytes(b, bytes) ==
  LET e == EnsureWritableBytes(b, Len(bytes))
  IN Assert([e EXCEPT !.cells = Copied(@, e.writer, bytes), !.writer = @ + Len(bytes)],
            Len(bytes) <= WritableBytes(e))

Prepend(b, bytes) ==
  LET p == Assert(b, Len(bytes) <= PrependableBytes(b))
  IN [p EXCEPT !.reader = @ - Len(bytes), !.cells = Copied(@, p.reader - Len(bytes), bytes)]

\* mutant: the data stays behind.
ShrinkOnly(b, reserve) == EnsureWritableBytes(NewBuffer, ReadableBytes(b) + reserve)

Shrink(b, reserve) ==
  LET other == AppendBytes(EnsureWritableBytes(NewBuffer, ReadableBytes(b) + reserve), Contents(b))
  IN [other EXCEPT !.wrapSize = WrapSize(other.capacity), !.sound = @ /\ b.sound]

\* readvFd of bytes the socket has: into the buffer, and what has no room there
\* into extrabuf first.
Wrapped(b) == IF b.writer >= b.wrapSize THEN WrapBuffer(b) ELSE b
ReadRoom(b) ==
  LET writable == WritableBytes(Wrapped(b))
  IN IF writable < ExtraSize THEN writable + ExtraSize ELSE writable

\* mutant: what went to extrabuf is forgotten.
ReadvFdNoExtra(b, bytes) ==
  LET w == Wrapped(b)
      n == IF Len(bytes) <= WritableBytes(w) THEN Len(bytes) ELSE WritableBytes(w)
  IN [w EXCEPT !.cells = Copied(@, w.writer, SubSeq(bytes, 1, n)), !.writer = @ + n]

ReadvFd(b, bytes) ==
  LET w == Wrapped(b)
      writable == WritableBytes(w)
      filled(n) == [w EXCEPT !.cells = Copied(@, w.writer, SubSeq(bytes, 1, n)), !.writer = @ + n]
  IN IF Len(bytes) <= writable
     THEN filled(Len(bytes))
     ELSE AppendBytes(filled(writable), SubSeq(bytes, writable + 1, Len(bytes)))
=============================================================================
