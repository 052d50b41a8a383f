------------------------------- MODULE Buffer -------------------------------
(***************************************************************************)
(* net/buffer/Buffer: a vector of bytes with a read and a write position,  *)
(*                                                                         *)
(*     | free for prepend |  readable  |  writable  |                      *)
(*     0             readerIndex  writerIndex     size                     *)
(*                                                                         *)
(* which grows, or moves its readable bytes to the front, to make room.    *)
(* Positions are the code's own, counted from 0: byte i of the code is     *)
(* element i + 1 of the sequence.                                          *)
(***************************************************************************)
EXTENDS Naturals, Sequences

CONSTANTS
    Names,          \* the buffers of the program
    Byte,           \* the set of bytes
    Zero,           \* the byte that resize() fills new space with
    Newline,        \* '\n'
    Strings,        \* the strings the program and the peer write
    KInititalSize,  \* the size of a new buffer
    KCheapPrepend,  \* its room for prepend()
    ExtraSize,      \* sizeof extrabuf
    MaxReadable     \* bound on the readable bytes

ASSUME ConstantsAssumption ==
    /\ Zero \in Byte /\ Newline \in Byte /\ Strings \subseteq Seq(Byte)
    /\ KInititalSize \in Nat /\ KCheapPrepend \in Nat /\ KCheapPrepend <= KInititalSize
    /\ ExtraSize \in Nat /\ MaxReadable \in Nat

VARIABLES
    buf,    \* buffer_, readerIndex_ and writerIndex_ of each buffer
    result  \* the last call that changed bytes and the string it returned

vars == <<buf, result>>

\* The constructor.
Empty_unsized ==
    [buffer |-> <<>>, readerIndex |-> KCheapPrepend, writerIndex |-> KCheapPrepend]
Empty ==
    [buffer |-> [i \in 1..KInititalSize |-> Zero],
     readerIndex |-> KCheapPrepend, writerIndex |-> KCheapPrepend]

Init == buf = [x \in Names |-> Empty] /\ result = <<"none", <<>>>>

ReadableBytes(b) == b.writerIndex - b.readerIndex
WritableBytes(b) == Len(b.buffer) - b.writerIndex
PrependableBytes(b) == b.readerIndex

\* The readable bytes, as peek() shows them.
Contents(b) == [i \in 1..ReadableBytes(b) |-> b.buffer[b.readerIndex + i]]
-----------------------------------------------------------------------------
(* Making room.                                                            *)

\* std::copy of the string s to position p; b.buffer keeps its size.
Copied(buffer, p, s) ==
    [i \in 1..Len(buffer) |-> IF i \in (p + 1)..(p + Len(s)) THEN s[i - p] ELSE buffer[i]]

Resized(buffer, size) ==
    [i \in 1..size |-> IF i <= Len(buffer) THEN buffer[i] ELSE Zero]

\* makeSpace's test: would len bytes not fit even after a move to the front?
MustGrow_prepend(b, len) == PrependableBytes(b) + WritableBytes(b) < len
MustGrow_always(b, len) == TRUE
MustGrow(b, len) == PrependableBytes(b) + WritableBytes(b) < len + KCheapPrepend

Moved(b) ==
    [buffer |-> Copied(b.buffer, KCheapPrepend, Contents(b)),
     readerIndex |-> KCheapPrepend,
     writerIndex |-> KCheapPrepend + ReadableBytes(b)]

MakeSpace(b, len) ==
    IF MustGrow(b, len)
    THEN [b EXCEPT !.buffer = Resized(b.buffer, b.writerIndex + len)]
    ELSE Moved(b)

EnsureWritableBytes(b, len) == IF WritableBytes(b) < len THEN MakeSpace(b, len) ELSE b

\* The assertions of ensureWritableBytes, makeSpace and hasWritten.
EnsureAsserts(b, len) ==
    /\ WritableBytes(b) < len /\ ~MustGrow(b, len) => KCheapPrepend < b.readerIndex
    /\ WritableBytes(EnsureWritableBytes(b, len)) >= len
-----------------------------------------------------------------------------
(* Reading and writing.                                                    *)

\* The bytes s arrive at beginWrite(), then hasWritten(Len(s)).
Written(b, s) ==
    [b EXCEPT !.buffer = Copied(b.buffer, b.writerIndex, s), !.writerIndex = @ + Len(s)]

Appended(b, s) == Written(EnsureWritableBytes(b, Len(s)), s)

Prepended(b, s) ==
    [b EXCEPT !.readerIndex = @ - Len(s),
              !.buffer = Copied(b.buffer, b.readerIndex - Len(s), s)]

\* retrieve: all that is readable, and the positions return to the start.
Retrieved(b, n) ==
    IF n < ReadableBytes(b)
    THEN [b EXCEPT !.readerIndex = @ + n]
    ELSE [b EXCEPT !.readerIndex = KCheapPrepend, !.writerIndex = KCheapPrepend]

\* readFd after readv returned the bytes s: what is beyond the writable space
\* is in extrabuf, and is appended.
Received_again(b, s) ==
    IF Len(s) <= WritableBytes(b)
    THEN Written(b, s)
    ELSE Appended(Written(b, SubSeq(s, 1, WritableBytes(b))), s)
Received(b, s) ==
    LET room == WritableBytes(b) IN
    IF Len(s) <= room
    THEN Written(b, s)
    ELSE Appended(Written(b, SubSeq(s, 1, room)), SubSeq(s, room + 1, Len(s)))

\* The most that readv may return.
MaxReadv(b) ==
    WritableBytes(b) + (IF WritableBytes(b) < ExtraSize THEN ExtraSize ELSE 0)

\* memchr: the first newline ends a line of n bytes, or there is none and n = 0.
FirstLine(b, n) ==
    /\ \A i \in 1..ReadableBytes(b) : Contents(b)[i] = Newline => n \in 1..i
    /\ n > 0 => Contents(b)[n] = Newline
-----------------------------------------------------------------------------
(* The public calls, within the preconditions they assert.                 *)

Returns(call, string) == result' = <<call, string>>

Set(x, b) == buf' = [buf EXCEPT ![x] = b]
SetBoth(x, b, y, c) ==
    buf' = [z \in Names |-> IF z = x THEN b ELSE IF z = y THEN c ELSE buf[z]]

Fits(x, len) == ReadableBytes(buf[x]) + len <= MaxReadable

Append_(x, s) ==
    Fits(x, Len(s)) /\ Set(x, Appended(buf[x], s)) /\ Returns("write", <<>>)

ReadFd(x, s) ==
    /\ Fits(x, Len(s)) /\ Len(s) <= MaxReadv(buf[x])
    /\ Set(x, Received(buf[x], s))
    /\ Returns("write", <<>>)

\* The caller writes at beginWrite() itself and calls hasWritten().
HasWritten(x, s) ==
    /\ Fits(x, Len(s)) /\ Len(s) <= WritableBytes(buf[x])
    /\ Set(x, Written(buf[x], s))
    /\ Returns("write", <<>>)

Reserve(x, len) ==
    /\ Fits(x, len)
    /\ Set(x, EnsureWritableBytes(buf[x], len))
    /\ UNCHANGED result

Prepend(x, s) ==
    /\ Fits(x, Len(s)) /\ Len(s) <= PrependableBytes(buf[x])
    /\ Set(x, Prepended(buf[x], s))
    /\ Returns("prepend", <<>>)

RetrieveAsString(x, n) ==
    /\ Returns("retrieve", SubSeq(Contents(buf[x]), 1, n))
    /\ Set(x, Retrieved(buf[x], n))

GetLine(x, n) ==
    /\ FirstLine(buf[x], n)
    /\ Returns("getLine", SubSeq(Contents(buf[x]), 1, n))
    /\ Set(x, IF n = 0 THEN buf[x] ELSE Retrieved(buf[x], n))

\* operator=, swap, and operator= of an rvalue, which leaves a new buffer.
Assign(x, y) == Set(x, buf[y]) /\ Returns("copy", <<>>)

Swap(x, y) == SetBoth(x, buf[y], y, buf[x]) /\ Returns("swap", <<>>)

MoveAssign(x, y) == SetBoth(x, buf[y], y, Empty) /\ Returns("move", <<>>)

Next ==
    \E x \in Names :
        \/ \E s \in Strings :
              \/ Append_(x, s) \/ ReadFd(x, s) \/ HasWritten(x, s)
              \/ Reserve(x, Len(s)) \/ Prepend(x, s)
        \/ \E n \in 0..ReadableBytes(buf[x]) : RetrieveAsString(x, n) \/ GetLine(x, n)
        \/ \E y \in Names : Assign(x, y) \/ Swap(x, y) \/ MoveAssign(x, y)

Spec == Init /\ [][Next]_vars
-----------------------------------------------------------------------------
(* Properties.                                                             *)

\* Types, and the order of the positions: readerIndex_ <= writerIndex_ <= size.
TypeOK ==
    /\ buf \in [Names -> [buffer : Seq(Byte), readerIndex : Nat, writerIndex : Nat]]
    /\ \A x \in Names :
          /\ buf[x].readerIndex <= buf[x].writerIndex
          /\ buf[x].writerIndex <= Len(buf[x].buffer)
          /\ KInititalSize <= Len(buf[x].buffer)

\* No assertion of append, ensureWritableBytes, makeSpace or hasWritten fails,
\* after any sequence of calls: makeSpace moves the bytes only if they are
\* past the prepend area, also after prepend() used it, and what it makes is
\* enough.
AssertsHold == \A x \in Names : \A s \in Strings : EnsureAsserts(buf[x], Len(s))

\* Whatever moves and grows, the buffer is a queue of bytes: a string read is
\* the string written, readFd joins the part in extrabuf to the part before
\* it, and getLine returns exactly the first line.
BQ == INSTANCE ByteQueue WITH contents <- [x \in Names |-> Contents(buf[x])]
ImplementsByteQueue == BQ!Spec

\* Space is reused: as long as a buffer has at most MaxReadable bytes to hold,
\* its vector stays within this size however many bytes pass through it.
BoundedCapacity ==
    \A x \in Names :
        \/ Len(buf[x].buffer) <= KInititalSize
        \/ Len(buf[x].buffer) < KCheapPrepend + 2 * MaxReadable
=============================================================================
